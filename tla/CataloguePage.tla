--------------------------- MODULE CataloguePage ---------------------------
(***************************************************************************)
(* The administration pages: a list read from the API, a dialog to create  *)
(* or change a row, a confirmation to remove one.  Unlike the filtered     *)
(* pages, nothing here cancels a request: every answer is applied when it  *)
(* arrives, whatever the page shows by then, and the load that follows a   *)
(* write asks the question of the render the write was started from.       *)
(***************************************************************************)
EXTENDS Integers, FiniteSets

CONSTANTS
  Tabs,         \* the targets of the rules, the sources of the declarations
  Ids,          \* the rows, numbered in the order a list gives them
  Calls,        \* the requests that can be in flight
  MaxVersion,   \* how often a row is written
  MaxClicks     \* how many requests the reader starts

VARIABLES
  page,         \* the page that is open
  rows,         \* what is stored: the version of each row of each tab, 0 for none
  tab, window,  \* what the page is asking for
  shown,        \* the last answer it was given
  dialog,       \* the dialog that is open
  msg,          \* the banner
  calls,        \* the requests in flight
  clicks,
  excused       \* answers may have come in another order than their questions

vars == <<page, rows, tab, window, shown, dialog, msg, calls, clicks, excused>>

\* What sets the pages apart: whether the list has tabs, whether it is read a
\* window at a time, whether a new question clears the banner, and whether a
\* row has an action of its own (make it the default).
EnvRulesPage == [tabbed |-> TRUE, paged |-> TRUE, clears |-> TRUE, acts |-> FALSE]
DeclaredPanel == [tabbed |-> TRUE, paged |-> TRUE, clears |-> TRUE, acts |-> FALSE]
RulesPanel == [tabbed |-> FALSE, paged |-> TRUE, clears |-> TRUE, acts |-> FALSE]
TicketRulesPage == [tabbed |-> FALSE, paged |-> TRUE, clears |-> TRUE, acts |-> FALSE]
VersionRulesPage == [tabbed |-> FALSE, paged |-> TRUE, clears |-> TRUE, acts |-> FALSE]
SourcesPage == [tabbed |-> FALSE, paged |-> TRUE, clears |-> FALSE, acts |-> TRUE]
LlmProvidersPage == [tabbed |-> FALSE, paged |-> FALSE, clears |-> FALSE, acts |-> TRUE]
TrackersPage == [tabbed |-> FALSE, paged |-> FALSE, clears |-> FALSE, acts |-> FALSE]
UsersSettings == [tabbed |-> FALSE, paged |-> FALSE, clears |-> FALSE, acts |-> FALSE]
Pages == {EnvRulesPage, DeclaredPanel, RulesPanel, TicketRulesPage, VersionRulesPage, SourcesPage,
          LlmProvidersPage, TrackersPage, UsersSettings}

NoCall == "no call"
NoDialog == [kind |-> "none", id |-> 0, call |-> NoCall]
Question == [tab: Tabs, window: Nat]
Stored(t) == {i \in Ids : rows[t][i] # 0}

\* What a list answers: one row per window where the page has windows, every
\* row where it has not.
Listed(q) ==
  [tab     |-> q.tab,
   window  |-> q.window,
   total   |-> Cardinality(Stored(q.tab)),
   rows    |-> {<<i, rows[q.tab][i]>> : i \in
                  {i \in Stored(q.tab) :
                     page.paged => Cardinality({j \in Stored(q.tab) : j < i}) = q.window}}]
NothingYet == [tab |-> "none", window |-> 0, total |-> 0, rows |-> {}]

Idle == [kind |-> "idle", id |-> 0, q |-> [tab |-> "none", window |-> 0],
         stage |-> "idle", answer |-> NothingYet]
Sent(kind, id, q) == [Idle EXCEPT !.kind = kind, !.id = id, !.q = q, !.stage = "sent"]
Here == [tab |-> tab, window |-> window]
Free(c) == calls[c] = Idle
Quiet == \A c \in Calls : Free(c)

Init ==
  /\ page \in Pages
  /\ rows \in [Tabs -> [Ids -> {0, 1}]]
  /\ tab \in Tabs
  /\ window = 0
  /\ shown = NothingYet
  /\ dialog = NoDialog
  /\ msg = "none"
  /\ \E c \in Calls :
       calls = [d \in Calls |-> IF d = c THEN Sent("list", 0, [tab |-> tab, window |-> 0]) ELSE Idle]
  /\ clicks = 0
  /\ excused = FALSE

\* A list asked for alone, of what the page asks for, is answered as it was
\* asked; several requests may cross, and a write may be lost on the way back.
Alone(c) == \A d \in Calls \ {c} : Free(d)
Crossing == excused' = (excused \/ ~Quiet)

Click == clicks < MaxClicks /\ clicks' = clicks + 1

\* The effect of a changed question: a load, and the banner cleared.
Reload(c, q) ==
  /\ Free(c)
  /\ calls' = [calls EXCEPT ![c] = Sent("list", 0, q)]
  /\ msg' = IF page.clears THEN "none" ELSE msg

\* Another tab: the new tab is asked for at the window of the old one, and
\* again at the first once the window is reset.
setTarget(t, c, d) ==
  /\ Click
  /\ page.tabbed
  /\ dialog = NoDialog
  /\ t # tab
  /\ tab' = t
  /\ window' = 0
  /\ msg' = "none"
  /\ IF window = 0
     THEN Reload(c, [tab |-> t, window |-> 0]) /\ excused' = ~Quiet
     ELSE /\ Free(c) /\ Free(d) /\ c # d
          /\ calls' = [calls EXCEPT ![c] = Sent("list", 0, [tab |-> t, window |-> window]),
                                    ![d] = Sent("list", 0, [tab |-> t, window |-> 0])]
          /\ excused' = TRUE
  /\ UNCHANGED <<page, rows, shown, dialog>>

\* The pagination moves from the window on screen, not from the one asked for.
setPage(c) ==
  /\ Click
  /\ page.paged
  /\ dialog = NoDialog
  /\ window' \in {w \in {shown.window + 1} : w < shown.total} \cup {w \in {shown.window - 1} : w >= 0}
  /\ window' # window
  /\ Reload(c, [tab |-> tab, window |-> window'])
  /\ excused' = ~Quiet
  /\ UNCHANGED <<page, rows, tab, shown, dialog>>

\* A row on screen is opened, or a new one.
Open(kind, i) ==
  /\ dialog = NoDialog
  /\ \/ \E v \in 1..MaxVersion : <<i, v>> \in shown.rows
     \/ kind = "edit" /\ rows[tab][i] = 0
  /\ dialog' = [kind |-> kind, id |-> i, call |-> NoCall]
  /\ UNCHANGED <<page, clicks, rows, tab, window, shown, msg, calls, excused>>

\* Escape, the cross, the cancel button or the backdrop: also while saving.
Close ==
  /\ dialog # NoDialog
  /\ dialog' = NoDialog
  /\ UNCHANGED <<page, clicks, rows, tab, window, shown, msg, calls, excused>>

\* The dialog is submitted, and stays open until the answer.
submit(c) ==
  /\ Click
  /\ dialog.kind = "edit"
  /\ dialog.call = NoCall
  /\ Free(c)
  /\ rows[tab][dialog.id] < MaxVersion
  /\ calls' = [calls EXCEPT ![c] = Sent("save", dialog.id, Here)]
  /\ dialog' = [dialog EXCEPT !.call = c]
  /\ Crossing
  /\ UNCHANGED <<page, rows, tab, window, shown, msg>>

\* The removal is confirmed: the dialog closes at once.
remove(c) ==
  /\ Click
  /\ dialog.kind = "delete"
  /\ Free(c)
  /\ calls' = [calls EXCEPT ![c] = Sent("remove", dialog.id, Here)]
  /\ dialog' = NoDialog
  /\ Crossing
  /\ UNCHANGED <<page, rows, tab, window, shown, msg>>

\* A row's own action, which needs no dialog.
makeDefault(c) ==
  /\ Click
  /\ page.acts
  /\ dialog = NoDialog
  /\ Free(c)
  /\ \E row \in shown.rows :
       /\ rows[tab][row[1]] < MaxVersion
       /\ calls' = [calls EXCEPT ![c] = Sent("act", row[1], Here)]
  /\ Crossing
  /\ UNCHANGED <<page, rows, tab, window, shown, dialog, msg>>

\* The API handles a request: a write takes place, a list is read.  Writing a
\* row that is gone is refused, and any request can fail, or be handled and its
\* answer lost.
Serve(c) ==
  LET call == calls[c]
      t    == call.q.tab
  IN /\ call.stage = "sent"
     /\ \/ /\ calls' = [calls EXCEPT ![c].stage = "failed"]
           /\ UNCHANGED <<rows, excused>>
        \/ /\ call.kind = "list"
           /\ calls' = [calls EXCEPT ![c].stage = "done", ![c].answer = Listed(call.q)]
           /\ UNCHANGED <<rows, excused>>
        \/ /\ call.kind \in {"save", "act", "remove"}
           /\ call.kind = "save" \/ rows[t][call.id] # 0
           /\ rows' = [rows EXCEPT ![t][call.id] =
                         IF call.kind = "remove" THEN 0 ELSE rows[t][call.id] + 1]
           /\ rows'[t][call.id] <= MaxVersion
           /\ \E stage \in {"done", "failed"} :
                /\ calls' = [calls EXCEPT ![c].stage = stage]
                /\ excused' = (excused \/ stage = "failed")
     /\ UNCHANGED <<page, clicks, tab, window, shown, dialog, msg>>

\* A list arrives: it is shown, whatever the page asks for by now.
setRules(c) ==
  /\ calls[c].kind = "list"
  /\ calls[c].stage = "done"
  /\ shown' = calls[c].answer
  /\ calls' = [calls EXCEPT ![c] = Idle]
  /\ UNCHANGED <<page, clicks, rows, tab, window, dialog, msg, excused>>

\* A list fails: the banner says so, and the old one stays.
ListFails(c) ==
  /\ calls[c].kind = "list"
  /\ calls[c].stage = "failed"
  /\ msg' = "err"
  /\ excused' = TRUE
  /\ calls' = [calls EXCEPT ![c] = Idle]
  /\ UNCHANGED <<page, clicks, rows, tab, window, shown, dialog>>

\* A mutation: what was written is not read again.
Again_Never(c) ==
  /\ calls' = [calls EXCEPT ![c] = Idle]
  /\ UNCHANGED excused

\* The load after a write: the question of the render it was started from.
Again(c) ==
  /\ calls' = [calls EXCEPT ![c] = Sent("list", 0, calls[c].q)]
  /\ excused' = ~(Alone(c) /\ calls[c].q = Here)

\* A save went through: the editor closes, whichever it is by now.
saved(c) ==
  /\ calls[c].kind = "save"
  /\ calls[c].stage = "done"
  /\ dialog' = IF dialog.kind = "edit" THEN NoDialog ELSE dialog
  /\ msg' = "ok"
  /\ Again(c)
  /\ UNCHANGED <<page, clicks, rows, tab, window, shown>>

\* A save was refused: its dialog, if still open, says so and can try again.
refused(c) ==
  /\ calls[c].kind = "save"
  /\ calls[c].stage = "failed"
  /\ dialog' = IF dialog.call = c THEN [dialog EXCEPT !.call = NoCall] ELSE dialog
  /\ calls' = [calls EXCEPT ![c] = Idle]
  /\ UNCHANGED <<page, clicks, rows, tab, window, shown, msg, excused>>

\* A removal or a row's own action went through, or did not.
acted(c) ==
  /\ calls[c].kind \in {"remove", "act"}
  /\ \/ /\ calls[c].stage = "done"
        /\ msg' = IF calls[c].kind = "remove" THEN "ok" ELSE msg
        /\ Again(c)
     \/ /\ calls[c].stage = "failed"
        /\ msg' = "err"
        /\ calls' = [calls EXCEPT ![c] = Idle]
        /\ UNCHANGED excused
  /\ UNCHANGED <<page, clicks, rows, tab, window, shown, dialog>>

Next ==
  \/ \E t \in Tabs, c, d \in Calls : setTarget(t, c, d)
  \/ \E kind \in {"edit", "delete"}, i \in Ids : Open(kind, i)
  \/ Close
  \/ \E c \in Calls :
       \/ setPage(c) \/ submit(c) \/ remove(c) \/ makeDefault(c)
       \/ Serve(c) \/ setRules(c) \/ ListFails(c)
       \/ saved(c) \/ refused(c) \/ acted(c)

Spec == Init /\ [][Next]_vars

\* A reader who lets each request be answered before the next always has the
\* stored rows of the tab and the window on screen: after every save, removal
\* and row action, and after walking the windows, the list is the one that
\* would be read now (EnvRulesPage.tsx:62-108).
ListIsCurrent ==
  (Quiet /\ ~excused) => shown = Listed(Here)

\* Environment names on one side, repository names on the other: they never
\* mix (EnvRulesPage.tsx:42-44).  Once every answer is in, the list on screen
\* is that of the tab it is shown under, unless a list could not be read.
TabsNeverMix ==
  (Quiet /\ msg # "err" /\ shown # NothingYet) => shown.tab = tab

=============================================================================
