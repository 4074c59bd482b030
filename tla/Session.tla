------------------------------- MODULE Session -------------------------------
(***************************************************************************)
(* Who the browser believes is signed in, how it presents itself to them,  *)
(* and the page on which an account changes what it holds about itself.    *)
(* The session is the server's (the cookie is unreadable): AuthProvider    *)
(* keeps the last answer it was given, re-reads it after signing out,      *)
(* after saving the account and whenever a request is refused, and applies *)
(* every answer when it arrives.                                           *)
(***************************************************************************)
EXTENDS Integers, FiniteSets

CONSTANTS
  Users,
  Names,        \* what an account can be called
  Modes,        \* light, dark
  Calls,        \* the requests that can be in flight
  MaxClicks,    \* how often the reader, or an administrator, acts
  Public        \* the dashboard can be read without an account

VARIABLES
  session,      \* the account the cookie opens, on the server
  account,      \* what the server holds of each account
  state,        \* the last answer about the session
  override,     \* the presentation picked on this screen
  form,         \* the account page, when it is open
  touched,      \* the fields the reader edited since it was opened or saved
  calls,        \* the requests in flight
  clicks,
  excused       \* answers may have crossed, or the session ended unseen

vars == <<session, account, state, override, form, touched, calls, clicks, excused>>

None == "none"
Saving == "account page"
Blank == [name |-> None, mode |-> None]
Accounts == [name: Names, mode: Modes \cup {None}]

\* What the server says of the session.
AuthState(user) == [known |-> TRUE, user |-> user, info |-> IF user = None THEN Blank ELSE account[user]]
Unknown == [known |-> FALSE, user |-> None, info |-> Blank]

Closed == [open |-> FALSE, name |-> None, mode |-> None]
Idle == [kind |-> "idle", user |-> None, patch |-> Blank, stage |-> "idle", answer |-> Unknown]
Sent(kind, user, patch) == [Idle EXCEPT !.kind = kind, !.user = user, !.patch = patch, !.stage = "sent"]

Free(c) == calls[c] = Idle
Quiet == \A c \in Calls : Free(c)
Alone(c) == \A d \in Calls \ {c} : Free(d)

Init ==
  /\ session \in Users \cup {None}
  /\ account \in [Users -> {a \in Accounts : a.mode = None}]
  /\ state = Unknown
  /\ override = None
  /\ form = Closed
  /\ touched = {}
  /\ \E c \in Calls : calls = [d \in Calls |-> IF d = c THEN Sent("state", None, Blank) ELSE Idle]
  /\ clicks = 0
  /\ excused = FALSE

Click == clicks < MaxClicks /\ clicks' = clicks + 1

Send(c, kind, user, patch) ==
  /\ Free(c)
  /\ calls' = [calls EXCEPT ![c] = Sent(kind, user, patch)]
  /\ excused' = (excused \/ ~Quiet)

\* The form of the login page.
signIn(c, user) ==
  /\ Click
  /\ state.known
  /\ state.user = None
  /\ Send(c, "login", user, Blank)
  /\ UNCHANGED <<session, account, state, override, form, touched>>

signOut(c) ==
  /\ Click
  /\ state.user # None
  /\ Send(c, "logout", None, Blank)
  /\ UNCHANGED <<session, account, state, override, form, touched>>

\* Any page's request; without a session only a public board answers.
Read(c) ==
  /\ Click
  /\ state.known
  /\ state.user # None \/ Public
  /\ Send(c, "read", state.user, Blank)
  /\ UNCHANGED <<session, account, state, override, form, touched>>

\* The toggle on the bar: applied at once, then stored where there is an
\* account to store it on.
changeDisplay(c, mode) ==
  /\ Click
  /\ state.known
  /\ state.user # None \/ Public
  /\ override' = mode
  /\ IF state.user = None
     THEN UNCHANGED <<calls, excused>>
     ELSE Send(c, "display", state.user, [Blank EXCEPT !.mode = mode])
  /\ UNCHANGED <<session, account, state, form, touched>>

\* The presentation in effect.
Shown == IF override # None THEN override ELSE state.info.mode

OpenAccount ==
  /\ ~form.open
  /\ state.user # None
  /\ form' = [open |-> TRUE, name |-> state.info.name, mode |-> state.info.mode]
  /\ touched' = {}
  /\ UNCHANGED <<session, account, state, override, calls, clicks, excused>>

LeaveAccount ==
  /\ form.open
  /\ form' = Closed
  /\ UNCHANGED <<session, account, state, override, touched, calls, clicks, excused>>

set(name, mode) ==
  /\ Click
  /\ form.open
  /\ form' = [form EXCEPT !.name = name, !.mode = mode]
  /\ form' # form
  /\ touched' = touched \cup (IF name # form.name THEN {"name"} ELSE {})
                        \cup (IF mode # form.mode THEN {"mode"} ELSE {})
  /\ UNCHANGED <<session, account, state, override, calls, excused>>

\* What a save sends: the fields that differ from what the session says.
\* "keep" is a field left out; the absent mode hands the choice back.
toInput(f) ==
  [name |-> IF f.name # state.info.name THEN f.name ELSE "keep",
   mode |-> IF f.mode # state.info.mode THEN f.mode ELSE "keep"]

submit(c) ==
  /\ form.open
  /\ toInput(form) # [name |-> "keep", mode |-> "keep"]
  /\ \A d \in Calls : calls[d].kind # "account" /\ calls[d].user # Saving
  /\ Send(c, "account", state.user, toInput(form))
  /\ UNCHANGED <<session, account, state, override, form, touched, clicks>>

\* The session ends elsewhere: expired, signed out, or the role taken away.
Expire ==
  /\ Click
  /\ session # None
  /\ session' = None
  /\ excused' = TRUE
  /\ UNCHANGED <<account, state, override, form, touched, calls>>

\* An administrator renames the account.
Rename(user, name) ==
  /\ Click
  /\ account[user].name # name
  /\ account' = [account EXCEPT ![user].name = name]
  /\ UNCHANGED <<session, state, override, form, touched, calls, excused>>

Laid(held, patch) ==
  [name |-> IF patch.name \in {"keep", None} THEN held.name ELSE patch.name,
   mode |-> IF patch.mode = "keep" THEN held.mode ELSE patch.mode]

\* The server handles a request: it answers, refuses for want of a session, or
\* the answer is lost.
Serve(c) ==
  LET call == calls[c]
      needs == call.kind \in {"display", "account"} \/ (call.kind = "read" /\ ~Public)
      done(answer) == calls' = [calls EXCEPT ![c].stage = "done", ![c].answer = answer]
  IN /\ call.stage = "sent"
     /\ \/ /\ needs /\ session = None
           /\ calls' = [calls EXCEPT ![c].stage = "refused"]
           /\ UNCHANGED <<session, account>>
        \/ /\ calls' = [calls EXCEPT ![c].stage = "failed"]
           /\ UNCHANGED <<session, account>>
        \/ /\ call.kind \in {"state", "read"} /\ ~(needs /\ session = None)
           /\ done(AuthState(session))
           /\ UNCHANGED <<session, account>>
        \/ /\ call.kind = "login"
           /\ session' = call.user
           /\ done(AuthState(call.user))
           /\ UNCHANGED account
        \/ /\ call.kind = "logout"
           /\ session' = None
           /\ done(Unknown)
           /\ UNCHANGED account
        \/ /\ call.kind \in {"display", "account"}
           /\ session # None
           /\ account' = [account EXCEPT ![session] = Laid(@, call.patch)]
           /\ done(Unknown)
           /\ UNCHANGED session
     /\ UNCHANGED <<state, override, form, touched, clicks, excused>>

\* A mutation: a refusal is an error on the page and nothing else.
refresh_Never(c) ==
  /\ calls' = [calls EXCEPT ![c] = Idle]
  /\ UNCHANGED excused

\* The session is read again; the account page stays busy until it is.
refresh(c) ==
  /\ calls' = [calls EXCEPT ![c] = Sent("state", IF calls[c].kind = "account" THEN Saving ELSE None, Blank)]
  /\ excused' = ~Alone(c)

Drop(c) == calls' = [calls EXCEPT ![c] = Idle] /\ UNCHANGED excused

\* An answer about the session is believed, whatever was asked since.
setState(c) ==
  /\ calls[c].kind \in {"state", "login"}
  /\ calls[c].stage = "done"
  /\ state' = calls[c].answer
  /\ form' = IF calls[c].answer.user = None THEN Closed ELSE form
  /\ Drop(c)
  /\ UNCHANGED <<session, account, override, touched, clicks>>

\* What follows a request that went through.
Answered(c) ==
  /\ calls[c].stage = "done"
  /\ \/ calls[c].kind \in {"logout", "account"} /\ refresh(c)
     \/ calls[c].kind \in {"read", "display"} /\ Drop(c)
  /\ touched' = IF calls[c].kind = "account" THEN {} ELSE touched
  /\ UNCHANGED <<session, account, state, override, form, clicks>>

\* What follows one that did not: a refused one means the screen is out of
\* date, and a presentation that could not be stored is given up.
Failed(c) ==
  /\ calls[c].stage \in {"refused", "failed"}
  /\ override' = IF calls[c].kind = "display" THEN None ELSE override
  /\ \/ calls[c].stage = "refused" /\ refresh(c)
     \/ /\ calls[c].stage = "failed"
        /\ calls' = [calls EXCEPT ![c] = Idle]
        /\ excused' = (excused \/ calls[c].kind \in {"state", "login", "logout"})
  /\ UNCHANGED <<session, account, state, form, touched, clicks>>

Next ==
  \/ OpenAccount \/ LeaveAccount \/ Expire
  \/ \E n \in Names, m \in Modes \cup {None} : set(n, m)
  \/ \E u \in Users, n \in Names : Rename(u, n)
  \/ \E c \in Calls :
       \/ signOut(c) \/ Read(c) \/ submit(c)
       \/ \E u \in Users : signIn(c, u)
       \/ \E m \in Modes : changeDisplay(c, m)
       \/ Serve(c) \/ setState(c) \/ Answered(c) \/ Failed(c)

Spec == Init /\ [][Next]_vars

\* Once everything is answered, the screen belongs to the account the session
\* opens: after signing in and out, after a save and after a refusal, which is
\* what tells it that the session ended elsewhere (auth.tsx:47-52,
\* api.ts:99-104).  The exceptions: two requests crossed, one about the
\* session was lost, or nothing was asked since the session ended.
ScreenIsTheSessions ==
  (Quiet /\ ~excused) => state.known /\ state.user = session

\* An untouched field of the account page is left out of a save
\* (AccountPage.tsx:45-47).
UntouchedIsLeftOut ==
  [][\A c \in Calls : (Free(c) /\ calls'[c].kind = "account") =>
       /\ "name" \notin touched => calls'[c].patch.name = "keep"
       /\ "mode" \notin touched => calls'[c].patch.mode = "keep"]_vars

\* A presentation that could not be stored snaps back to what is actually
\* stored (App.tsx:195-196), which is what the whole application reads
\* (AccountPage.tsx:107-108): once everything is answered and nothing crossed,
\* what is shown is what the account holds.
PresentationIsTheAccounts ==
  (Quiet /\ ~excused /\ state.known /\ session # None) => Shown = account[session].mode

=============================================================================
