------------------------------ MODULE Accounts ------------------------------
(***************************************************************************)
(* Accounts, sessions and reset links (auth/auth.service.ts behind         *)
(* auth/auth.guard.ts).  A request resolves its cookie, is let through or  *)
(* turned away, reads what it decides on, and only then writes: every      *)
(* `await` between those is a step of its own, two requests interleave at  *)
(* each of them, and any of them may be the last of its request.           *)
(*                                                                         *)
(* An account is known by its id, which no later account takes over though *)
(* it may be opened under the same address; its name and its presentation  *)
(* are not told apart.  A token is the order it was minted in; of a        *)
(* password, only which sessions its changes should have closed is kept.   *)
(***************************************************************************)
EXTENDS Naturals, FiniteSets

CONSTANTS
  Users,        \* accounts that may be opened, each under an address of its own
  Requests,     \* requests in flight
  MaxTokens     \* bound: tokens minted

VARIABLES
  users,     \* User, the role of each account, "none" before and "gone" after its row
  sessions,  \* Session rows
  links,     \* PasswordReset rows
  minted,    \* tokens minted so far
  req        \* what each request is doing

vars == <<users, sessions, links, minted, req>>

Roles == {"admin", "user"}

Idle == [at |-> "idle"]

\* What a request that was let through is about: an operation on an account.
Asked ==
  [op: {"update"}, user: Users, role: Roles, password: {FALSE}] \cup
  [op: {"update"}, user: Users, role: {"keep"}, password: {TRUE}] \cup
  [op: {"remove", "link"}, user: Users, role: {"keep"}, password: {FALSE}]

Exists(u) == users[u] \in Roles

Admins == {u \in Users : users[u] = "admin"}

Init ==
  /\ users = [u \in Users |-> "none"]
  /\ sessions = {} /\ links = {}
  /\ minted = 0
  /\ req = [q \in Requests |-> Idle]

Becomes(q, r) == req' = [req EXCEPT ![q] = r]

\* How long a row has left: a session is worth two halves of its lifetime and
\* a link one, and neither is worth anything at zero.
SESSION_TTL == 2

RESET_TTL == 1

Older(row) == [row EXCEPT !.left = IF row.left = 0 THEN 0 ELSE row.left - 1]

\* Time passes for every row alike.
Tick ==
  /\ sessions' = {Older(s) : s \in sessions}
  /\ links' = {Older(l) : l \in links}
  /\ UNCHANGED <<users, minted, req>>

TokensOf(rows) == {row.token : row \in rows}

\* What a session was opened on: access the account still has, access a change
\* has withdrawn since, a password a sign-in had verified before its change, or
\* access withdrawn by a request that broke before it closed the session.
Passes == {"current", "past", "late", "left"}

\* What a change of access makes of the sessions there are, but the caller's own.
Aged(rows, u, token) ==
  {IF s.user = u /\ s.token # token THEN [s EXCEPT !.pass = "past"] ELSE s : s \in rows}

\* The request is about to close that session.
Closes(q, s) ==
  req[q].at = "revoke" /\ req[q].user = s.user /\ req[q].token # s.token

----------------------------------------------------------------------------
(* The guard.                                                              *)

\* The access model: `viewer` alone depends on whether the install is public.
Grants(required, role, publicDashboard) ==
  \/ required = "anonymous"
  \/ role = "admin"
  \/ required = "account" /\ role # "none"
  \/ required = "viewer" /\ (role # "none" \/ publicDashboard)

\* resolve: an expired session is dropped on the way, a live one past its
\* halfway point is to be pushed back.
Resolve(q, s) ==
  /\ req[q] = Idle /\ s \in sessions
  /\ \/ /\ s.left = 0
        /\ sessions' = sessions \ {s}
        /\ UNCHANGED req
     \/ /\ s.left > 0
        /\ Becomes(q, [at |-> IF s.left < SESSION_TTL THEN "refresh" ELSE "guard",
                       token |-> s.token, user |-> s.user,
                       role |-> users[s.user]])
        /\ UNCHANGED sessions
  /\ UNCHANGED <<users, links, minted>>

\* Mutant: the refresh writes the row it read back.
Refresh_Upserts(q) ==
  /\ req[q].at = "refresh"
  /\ sessions' = {s \in sessions : s.token # req[q].token} \cup
       {[token |-> req[q].token, user |-> req[q].user, left |-> SESSION_TTL,
         pass |-> "current"]}
  /\ Becomes(q, [req[q] EXCEPT !.at = "guard"])
  /\ UNCHANGED <<users, links, minted>>

\* The refresh updates a row by id: one that was revoked meanwhile fails the
\* request instead of coming back.
Refresh(q) ==
  /\ req[q].at = "refresh"
  /\ IF \E s \in sessions : s.token = req[q].token
     THEN /\ sessions' = {IF s.token = req[q].token
                          THEN [s EXCEPT !.left = SESSION_TTL] ELSE s : s \in sessions}
          /\ Becomes(q, [req[q] EXCEPT !.at = "guard"])
     ELSE Becomes(q, Idle) /\ UNCHANGED sessions
  /\ UNCHANGED <<users, links, minted>>

\* canActivate: an admin route for whoever the cookie belonged to.
Guarded(q, asked) ==
  /\ req[q].at = "guard"
  /\ IF Grants("admin", req[q].role, FALSE)
     THEN Becomes(q, [at |-> "granted", asked |-> asked,
                      token |-> IF asked.op = "update" THEN req[q].token ELSE 0])
     ELSE Becomes(q, Idle)
  /\ UNCHANGED <<users, sessions, links, minted>>

\* A request that has read what it decides on; `raced` observes that an admin
\* went between its check and its write.
Decided(q, token, was, asked) ==
  Becomes(q, [at |-> "checked", token |-> token, was |-> was, asked |-> asked,
              raced |-> FALSE])

\* The account routes: a new password of one's own, on presenting the current
\* one, goes through updateUser with neither role nor check.
UpdateSelf(q) ==
  /\ req[q].at = "guard" /\ Grants("account", req[q].role, FALSE)
  /\ IF Exists(req[q].user)
     THEN Decided(q, req[q].token, req[q].role,
                  [op |-> "update", user |-> req[q].user,
                   role |-> "keep", password |-> TRUE])
     ELSE Becomes(q, Idle)
  /\ UNCHANGED <<users, sessions, links, minted>>

----------------------------------------------------------------------------
(* Signing in and out.                                                     *)

\* setup: open while the table is empty.
SetupAsked(q) ==
  /\ req[q] = Idle
  /\ Users = {u \in Users : ~Exists(u)}
  /\ Becomes(q, [at |-> "setup"])
  /\ UNCHANGED <<users, sessions, links, minted>>

\* createUser, of setup or of an admin's form: refused when the address is
\* taken, the database having the last word on that.
Create(q, u, role) ==
  /\ users[u] = "none"
  /\ users' = [users EXCEPT ![u] = role]

Setup(q, u) ==
  /\ req[q].at = "setup"
  /\ \/ Create(q, u, "admin")
        /\ Becomes(q, [at |-> "open", user |-> u, pass |-> "current"])
     \/ Exists(u) /\ Becomes(q, Idle) /\ UNCHANGED users
  /\ UNCHANGED <<sessions, links, minted>>

CreateUser(q, u, role) ==
  /\ req[q].at = "guard" /\ Grants("admin", req[q].role, FALSE)
  /\ Create(q, u, role)
  /\ Becomes(q, Idle)
  /\ UNCHANGED <<sessions, links, minted>>

\* login with the right password, as it is now: the expired sessions of everyone
\* are swept.
Login(q, u) ==
  /\ req[q] = Idle /\ Exists(u)
  /\ sessions' = {s \in sessions : s.left > 0}
  /\ Becomes(q, [at |-> "open", user |-> u, pass |-> "current"])
  /\ UNCHANGED <<users, links, minted>>

\* openSession: the row references the account, which must still be there.
OpenSession(q) ==
  /\ req[q].at = "open"
  /\ \/ /\ Exists(req[q].user) /\ minted < MaxTokens
        /\ minted' = minted + 1
        /\ sessions' = sessions \cup
             {[token |-> minted + 1, user |-> req[q].user,
               left |-> SESSION_TTL, pass |-> req[q].pass]}
     \/ ~Exists(req[q].user) /\ UNCHANGED <<minted, sessions>>
  /\ Becomes(q, Idle)
  /\ UNCHANGED <<users, links>>

Logout(s) ==
  /\ s \in sessions
  /\ sessions' = sessions \ {s}
  /\ UNCHANGED <<users, links, minted, req>>

----------------------------------------------------------------------------
(* What an admin does to an account.                                       *)

\* Mutant: the last admin passes for one of several.
NotLastAdmin_OffByOne(role) == role = "admin" => Cardinality(Admins) >= 1

\* assertNotLastAdmin, on the row byId read.
NotLastAdmin(role) == role = "admin" => Cardinality(Admins) > 1

Withdraws(asked) == asked.op = "remove" \/ asked.role = "user"

\* byId, then the check a lost admin has to pass.
Check(q) ==
  /\ req[q].at = "granted"
  /\ LET u == req[q].asked.user
     IN  IF /\ Exists(u)
            /\ Withdraws(req[q].asked) => NotLastAdmin(users[u])
         THEN Decided(q, req[q].token, users[u], req[q].asked)
         ELSE Becomes(q, Idle)
  /\ UNCHANGED <<users, sessions, links, minted>>

\* What a write makes of a request it overtakes: a withdrawal that has already
\* checked, when an admin went, and a sign-in that has verified a password, when
\* it was changed.
Overtaken(r, changed) ==
  IF r.at = "checked" /\ Admins' # Admins /\ Withdraws(r.asked) THEN [r EXCEPT !.raced = TRUE]
  ELSE IF r.at = "open" /\ r.user \in changed THEN [r EXCEPT !.pass = "late"]
  ELSE r

\* The request is done, having changed the passwords of these accounts.
Done(q, r, changed) ==
  req' = [p \in Requests |-> IF p = q THEN r ELSE Overtaken(req[p], changed)]

Checked(q, op) == req[q].at = "checked" /\ req[q].asked.op = op

\* updateUser: the row first, the sessions in a statement of their own.
Update(q) ==
  /\ Checked(q, "update")
  /\ LET a == req[q].asked
         u == a.user
         role == IF a.role = "keep" THEN users[u] ELSE a.role
         closes == a.password \/ (a.role # "keep" /\ a.role # req[q].was)
     IN  IF Exists(u)
         THEN /\ users' = [users EXCEPT ![u] = role]
              /\ sessions' = IF closes THEN Aged(sessions, u, req[q].token) ELSE sessions
              /\ Done(q, IF closes
                         THEN [at |-> "revoke", user |-> u, token |-> req[q].token]
                         ELSE Idle,
                      IF a.password THEN {u} ELSE {})
         ELSE Becomes(q, Idle) /\ UNCHANGED <<users, sessions>>
  /\ UNCHANGED <<links, minted>>

\* Mutant: a password change forgets the sessions opened before it.
Revoke_Nothing(q) ==
  /\ req[q].at = "revoke"
  /\ Becomes(q, Idle)
  /\ UNCHANGED <<users, sessions, links, minted>>

\* Every session of the account but the caller's own.
Revoke(q) ==
  /\ req[q].at = "revoke"
  /\ sessions' = {s \in sessions : ~Closes(q, s)}
  /\ Becomes(q, Idle)
  /\ UNCHANGED <<users, links, minted>>

\* removeUser: sessions and links go with the row.
RemoveUser(q) ==
  /\ Checked(q, "remove")
  /\ LET u == req[q].asked.user
     IN  /\ users' = [users EXCEPT ![u] = "gone"]
         /\ sessions' = {s \in sessions : s.user # u}
         /\ links' = {l \in links : l.user # u}
  /\ Done(q, Idle, {})
  /\ UNCHANGED minted

\* issueResetLink: the deletion sees the links of its own moment, the new one
\* appears with the commit.
IssueBegin(q) ==
  /\ Checked(q, "link")
  /\ Becomes(q, [at |-> "issue", user |-> req[q].asked.user,
                 old |-> {l \in links : l.user = req[q].asked.user}])
  /\ UNCHANGED <<users, sessions, links, minted>>

IssueResetLink(q) ==
  /\ req[q].at = "issue"
  /\ \/ /\ Exists(req[q].user) /\ minted < MaxTokens
        /\ minted' = minted + 1
        /\ links' = (links \ req[q].old) \cup
             {[token |-> minted + 1, user |-> req[q].user, left |-> RESET_TTL]}
     \/ ~Exists(req[q].user) /\ UNCHANGED <<minted, links>>
  /\ Becomes(q, Idle)
  /\ UNCHANGED <<users, sessions>>

\* findReset: an expired link is dropped on the way.
FindReset(q, l) ==
  /\ req[q] = Idle /\ l \in links
  /\ \/ l.left = 0 /\ links' = links \ {l} /\ UNCHANGED req
     \/ l.left > 0 /\ Becomes(q, [at |-> "found", user |-> l.user])
                      /\ UNCHANGED links
  /\ UNCHANGED <<users, sessions, minted>>

\* The link is spent in one transaction: password, sessions, links.
ConsumeResetLink(q) ==
  /\ req[q].at = "found"
  /\ UNCHANGED <<users, minted>>
  /\ IF Exists(req[q].user)
     THEN /\ sessions' = {s \in sessions : s.user # req[q].user}
          /\ links' = {l \in links : l.user # req[q].user}
          /\ Done(q, Idle, {req[q].user})
     ELSE Becomes(q, Idle) /\ UNCHANGED <<sessions, links>>

\* What a request awaits throws, or the process dies with it: the sessions it was
\* about to close, and no other request is, stay.
Break(q) ==
  /\ req[q] # Idle
  /\ sessions' =
       {IF /\ s.pass = "past" /\ Closes(q, s)
           /\ \A p \in Requests \ {q} : ~Closes(p, s)
        THEN [s EXCEPT !.pass = "left"] ELSE s : s \in sessions}
  /\ Becomes(q, Idle)
  /\ UNCHANGED <<users, links, minted>>

Next ==
  \/ Tick
  \/ \E q \in Requests :
       \/ \E s \in sessions : Resolve(q, s)
       \/ Refresh(q) \/ UpdateSelf(q) \/ SetupAsked(q) \/ OpenSession(q)
       \/ \E asked \in Asked : Guarded(q, asked)
       \/ \E u \in Users :
            \/ Setup(q, u) \/ Login(q, u)
            \/ \E role \in Roles : CreateUser(q, u, role)
       \/ Check(q) \/ Update(q) \/ Revoke(q) \/ RemoveUser(q)
       \/ IssueBegin(q) \/ IssueResetLink(q) \/ ConsumeResetLink(q) \/ Break(q)
       \/ \E l \in links : FindReset(q, l)
  \/ \E s \in sessions : Logout(s)

Spec == Init /\ [][Next]_vars

----------------------------------------------------------------------------
(* Properties.                                                             *)

\* An install that has accounts keeps an admin: "no route can bring one back".
AdminIsLeft == (\E u \in Users : Exists(u)) => Admins # {}

\* The last admin goes only when two withdrawals overlapped: a request that
\* checked and was not overtaken always leaves one (assertNotLastAdmin).
LastAdminOnlyByRace ==
  Admins # {} /\ Admins' = {} =>
    \E q \in Requests : /\ req[q].at = "checked" /\ req[q].raced
                         /\ req'[q] # req[q]

\* A session that was revoked, closed or swept never answers again, whatever a
\* request that had resolved it was about to write (resolve's refresh).
RevokedStaysRevoked ==
  \A t \in TokensOf(sessions') : t \in TokensOf(sessions) \/ t > minted

\* A session opened on access that was changed since stays only until the request
\* that changed it has closed it: what is left of before is what a sign-in that
\* had verified the old password opened afterwards, or what a request that broke
\* half way never closed, and the next change of access takes these too
\* (updateUser).
OldSessionsRevoked ==
  \A s \in sessions : s.pass = "past" => \E q \in Requests : Closes(q, s)
=============================================================================
