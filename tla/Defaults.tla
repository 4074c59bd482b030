------------------------------ MODULE Defaults ------------------------------
(***************************************************************************)
(* The one row callers get when they name none: the default source         *)
(* (sources.service.ts, makeDefault) and the default LLM provider          *)
(* (llm/llm.service.ts), with the key an LLM provider owns.  Taking the    *)
(* default is a transaction whose second statement clears the rows it can  *)
(* see; two of them do not see each other's.                               *)
(***************************************************************************)
EXTENDS Naturals, Sequences, FiniteSets

CONSTANTS
  Ids,       \* ids rows are created under, each once
  Requests,  \* admins saving
  Promotes,  \* are these the LLM providers, of which one is always the default
  MaxCrashes \* bound: requests that die halfway

VARIABLES
  rows,     \* the rows, oldest first
  default,  \* the ones flagged isDefault
  keys,     \* the ids holding a credential
  req,      \* what each request is doing
  crashes,
  raced     \* observation: some write landed between another request's reading
            \* and its writing

vars == <<rows, default, keys, req, crashes, raced>>

Idle == [at |-> "idle"]

Rows == {rows[n] : n \in DOMAIN rows}

Init ==
  /\ rows = <<>> /\ default = {} /\ keys = {}
  /\ req = [q \in Requests |-> Idle]
  /\ crashes = 0
  /\ raced = FALSE

Becomes(q, r) == req' = [req EXCEPT ![q] = r]

\* A write of q lands, perhaps between two steps of somebody else.
Lands(q) == raced' = (raced \/ \E p \in Requests \ {q} : req[p] # Idle)

Fresh(i) == i \notin Rows /\ i \notin keys /\ \A q \in Requests : req[q] # Idle => req[q].id # i

\* create: the first row is the default whatever the form says; of sources,
\* none is until it is chosen.
Create(q, i, chosen) ==
  /\ req[q] = Idle /\ Fresh(i)
  /\ LET takes == Promotes /\ (rows = <<>> \/ chosen)
     IN  Becomes(q, [at |-> "create", id |-> i, takes |-> takes,
                     others |-> IF takes THEN default ELSE {}])
  /\ UNCHANGED <<rows, default, keys, crashes, raced>>

\* The row, its key and the cleared rows appear together.
CommitCreate(q) ==
  /\ req[q].at = "create"
  /\ rows' = Append(rows, req[q].id)
  /\ keys' = keys \cup {req[q].id}
  /\ default' = (default \ req[q].others) \cup (IF req[q].takes THEN {req[q].id} ELSE {})
  /\ Becomes(q, Idle) /\ Lands(q)
  /\ UNCHANGED crashes

\* makeDefault, and an update that asks for the default: nothing to do for the
\* provider that has it already.
Take(q, i) ==
  /\ req[q] = Idle /\ i \in Rows
  /\ Promotes => i \notin default
  /\ Becomes(q, [at |-> "take", id |-> i, others |-> default \ {i}])
  /\ UNCHANGED <<rows, default, keys, crashes, raced>>

\* Mutant: the others keep their flag.
CommitTake_KeepsOthers(q) ==
  /\ req[q].at = "take"
  /\ default' = IF req[q].id \in Rows THEN default \cup {req[q].id} ELSE default
  /\ Becomes(q, Idle) /\ Lands(q)
  /\ UNCHANGED <<rows, keys, crashes>>

\* A row that is gone refuses the whole transaction.
CommitTake(q) ==
  /\ req[q].at = "take"
  /\ default' = IF req[q].id \in Rows
                THEN (default \ req[q].others) \cup {req[q].id} ELSE default
  /\ Becomes(q, Idle) /\ Lands(q)
  /\ UNCHANGED <<rows, keys, crashes>>

\* update with a new key: one transaction with the row it belongs to.
SaveKey(q, i) ==
  /\ req[q] = Idle /\ i \in Rows
  /\ keys' = keys \cup {i}
  /\ UNCHANGED <<rows, default, req, crashes, raced>>

\* The rows without the n-th.
Without(n) == [m \in 1 .. Len(rows) - 1 |-> IF m < n THEN rows[m] ELSE rows[m + 1]]

\* remove: the row, then its credential, then an heir for what it was.
RemoveRow(q, i) ==
  /\ req[q] = Idle
  /\ \E n \in DOMAIN rows : rows[n] = i /\ rows' = Without(n)
  /\ default' = default \ {i}
  /\ Becomes(q, [at |-> "forget", id |-> i, was |-> i \in default])
  /\ Lands(q)
  /\ UNCHANGED <<keys, crashes>>

\* Mutant: the credential is left to a cascade that does not reach it.
Forget_Nothing(q) ==
  /\ req[q].at = "forget"
  /\ Becomes(q, IF Promotes /\ req[q].was THEN [at |-> "heir", id |-> req[q].id] ELSE Idle)
  /\ UNCHANGED <<rows, default, keys, crashes, raced>>

Forget(q) ==
  /\ req[q].at = "forget"
  /\ keys' = keys \ {req[q].id}
  /\ Becomes(q, IF Promotes /\ req[q].was THEN [at |-> "heir", id |-> req[q].id] ELSE Idle)
  /\ UNCHANGED <<rows, default, crashes, raced>>

\* The oldest survivor is promoted; nobody else's flag is looked at.
Promote(q) ==
  /\ req[q].at = "heir"
  /\ default' = IF rows = <<>> THEN default ELSE default \cup {Head(rows)}
  /\ Becomes(q, Idle) /\ Lands(q)
  /\ UNCHANGED <<rows, keys, crashes>>

\* The process dies between two statements.
Crash(q) ==
  /\ crashes < MaxCrashes /\ req[q] # Idle
  /\ crashes' = crashes + 1
  /\ Becomes(q, Idle)
  /\ UNCHANGED <<rows, default, keys, raced>>

Next ==
  \E q \in Requests :
    \/ CommitCreate(q) \/ CommitTake(q) \/ Forget(q) \/ Promote(q) \/ Crash(q)
    \/ \E i \in Ids :
         \/ Take(q, i) \/ SaveKey(q, i) \/ RemoveRow(q, i)
         \/ \E chosen \in BOOLEAN : Create(q, i, chosen)

Spec == Init /\ [][Next]_vars

Busy == \E q \in Requests : req[q] # Idle

\* One default among the LLM providers, as long as the saves came one at a time
\* and none died: whatever was created, taken over and removed in between.
OneDefault ==
  ~raced /\ ~Busy /\ crashes = 0 =>
    /\ Cardinality(default) <= 1 /\ default \subseteq Rows
    /\ Promotes /\ rows # <<>> => default # {}

\* A key outlives its provider only while the removal that drops it is under
\* way, or died on the way there: a key saved meanwhile never brings it back.
KeysHaveOwners ==
  crashes = 0 =>
    \A k \in keys : k \in Rows \/ \E q \in Requests : req[q].at = "forget" /\ req[q].id = k
=============================================================================
