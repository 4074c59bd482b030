---------------------------- MODULE RuleCatalogue ----------------------------
(***************************************************************************)
(* The four catalogues an admin edits: classification rules                *)
(* (env-rules.service.ts), version rules with the secret each may own      *)
(* (version-rules.service.ts), ticket rules (ticket-rules.service.ts) and  *)
(* addresses with the environments declared by hand (env-urls.service.ts). *)
(*                                                                         *)
(* A patch of the first two is checked on the rule as it will be: the row  *)
(* is read, the patch laid over it, the result judged - and only the       *)
(* patch is written, over whatever the row has become.  The other two      *)
(* judge the request alone and write at once.                              *)
(*                                                                         *)
(* Of a pattern or a template only what the checks ask of it is kept.      *)
(***************************************************************************)
EXTENDS Naturals, FiniteSets

CONSTANTS
  EnvRules, VersionRules, TicketRules, UrlRules,  \* ids, per catalogue
  Declared,        \* pairs (repo, environment) that may be declared
  Ids,             \* ids of the declarations
  Requests,        \* admins saving
  MaxKeys          \* bound: the keys a patch carries

VARIABLES
  envRule,      \* EnvRule rows
  versionRule,  \* VersionRule rows
  secrets,      \* version rules a Credential is held for
  ticketRule,   \* TicketRule: the texts each one reads, {} where there is none
  urlRule,      \* EnvUrlRule: whether each one's template leads somewhere
  declared,     \* ManualEnvironment: the pair each id declares
  req           \* what each request is doing
vars == <<envRule, versionRule, secrets, ticketRule, urlRule, declared, req>>

None == "none"
Keep == "keep"
Idle == [at |-> "idle"]
TICKET_SOURCES == {"title", "commit"}
EnvRow == [kind : {"simple", "meta"}, captures : BOOLEAN, attributes : BOOLEAN]
VersionRow == [format : {"json", "text"}, pattern : BOOLEAN,
               authKind : {"none", "header"}, authHeader : BOOLEAN]
NoEnvRow == [kind |-> None, captures |-> FALSE, attributes |-> FALSE]
NoVersionRow == [format |-> None, pattern |-> FALSE, authKind |-> "none", authHeader |-> FALSE]

Init ==
  /\ envRule = [i \in EnvRules |-> NoEnvRow]
  /\ versionRule = [i \in VersionRules |-> NoVersionRow]
  /\ secrets = {}
  /\ ticketRule = [i \in TicketRules |-> {}]
  /\ urlRule = [i \in UrlRules |-> None]
  /\ declared = [i \in Ids |-> None]
  /\ req = [q \in Requests |-> Idle]

Becomes(q, r) == req' = [req EXCEPT ![q] = r]
\* A write landed on i: whoever has judged i and not written is overtaken.
Landed(q, i, r) ==
  req' = [p \in Requests |->
    IF p = q THEN r
    ELSE IF req[p] # Idle /\ req[p].id = i THEN [req[p] EXCEPT !.raced = TRUE]
    ELSE req[p]]
\* Prisma ignores the keys a patch leaves out.
Laid(row, patch) ==
  [k \in DOMAIN row |-> IF k \in DOMAIN patch THEN patch[k] ELSE row[k]]
\* What a request may carry: any of the row's keys, MaxKeys at most.
Patches(Rows) ==
  UNION {{[k \in keys |-> r[k]] : r \in Rows} :
           keys \in {K \in SUBSET (DOMAIN CHOOSE r \in Rows : TRUE) : Cardinality(K) <= MaxKeys}}
EnvPatches == Patches(EnvRow)
VersionPatches == Patches(VersionRow)

----------------------------------------------------------------------------
(* Classification rules.                                                   *)

\* assertContributes: a simple rule captures something or forces something.
Contributes(row) == row.kind = "simple" => row.captures \/ row.attributes

CreateEnvRule(i, row) ==
  /\ envRule[i] = NoEnvRow /\ Contributes(row)
  /\ \A q \in Requests : req[q] # Idle => req[q].id # i
  /\ envRule' = [envRule EXCEPT ![i] = row]
  /\ UNCHANGED <<versionRule, secrets, ticketRule, urlRule, declared, req>>

\* Mutant: only the keys the request carried are judged.
EnvAllowed_RequestOnly(row, patch) ==
  DOMAIN patch = DOMAIN row => Contributes(patch)

\* The patched rule is judged, not the keys the request carried.
EnvAllowed(row, patch) == Contributes(Laid(row, patch))

JudgeEnvRule(q, i, patch) ==
  /\ req[q] = Idle /\ envRule[i] # NoEnvRow
  /\ EnvAllowed(envRule[i], patch)
  /\ Becomes(q, [at |-> "env", id |-> i, patch |-> patch, raced |-> FALSE])
  /\ UNCHANGED <<envRule, versionRule, secrets, ticketRule, urlRule, declared>>

WriteEnvRule(q) ==
  /\ req[q].at = "env"
  /\ LET i == req[q].id
     IN  IF envRule[i] = NoEnvRow
         THEN Becomes(q, Idle) /\ UNCHANGED envRule
         ELSE /\ envRule' = [envRule EXCEPT ![i] = Laid(envRule[i], req[q].patch)]
              /\ Landed(q, i, Idle)
  /\ UNCHANGED <<versionRule, secrets, ticketRule, urlRule, declared>>

RemoveEnvRule(q, i) ==
  /\ req[q] = Idle /\ envRule[i] # NoEnvRow
  /\ envRule' = [envRule EXCEPT ![i] = NoEnvRow]
  /\ UNCHANGED <<versionRule, secrets, ticketRule, urlRule, declared, req>>

----------------------------------------------------------------------------
(* Version rules.                                                          *)

\* assertWritable: a text format needs a pattern, a header a name.
Writable(row) ==
  /\ row.format = "text" => row.pattern
  /\ row.authKind = "header" => row.authHeader

\* create: the row and its secret in one transaction, under a minted id.
CreateVersionRule(i, row, secret) ==
  /\ versionRule[i] = NoVersionRow /\ i \notin secrets /\ Writable(row)
  /\ \A q \in Requests : req[q] # Idle => req[q].id # i
  /\ versionRule' = [versionRule EXCEPT ![i] = row]
  /\ secrets' = IF secret THEN secrets \cup {i} ELSE secrets
  /\ UNCHANGED <<envRule, ticketRule, urlRule, declared, req>>

JudgeVersionRule(q, i, patch, secret) ==
  /\ req[q] = Idle /\ versionRule[i] # NoVersionRow
  /\ Writable(Laid(versionRule[i], patch))
  /\ Becomes(q, [at |-> "version", id |-> i, patch |-> patch, secret |-> secret,
                 raced |-> FALSE])
  /\ UNCHANGED <<envRule, versionRule, secrets, ticketRule, urlRule, declared>>

\* What a patch does to the secret: a new one replaces it, an empty one or
\* no authentication at all erases it, an omitted one keeps it.
OnSecret(patch, secret) ==
  IF secret = "new" THEN "set"
  ELSE IF secret = "empty" \/ ("authKind" \in DOMAIN patch /\ patch.authKind = "none")
  THEN "forget" ELSE Keep

\* The row in one statement, the secret in another.
WriteVersionRule(q) ==
  /\ req[q].at = "version"
  /\ LET i == req[q].id
         next == OnSecret(req[q].patch, req[q].secret)
     IN  IF versionRule[i] = NoVersionRow
         THEN Becomes(q, Idle) /\ UNCHANGED versionRule
         ELSE /\ versionRule' = [versionRule EXCEPT ![i] = Laid(versionRule[i], req[q].patch)]
              /\ Landed(q, i, IF next = Keep THEN Idle
                              ELSE [at |-> next, id |-> i, raced |-> FALSE])
  /\ UNCHANGED <<envRule, secrets, ticketRule, urlRule, declared>>

WriteSecret(q) ==
  /\ req[q].at \in {"set", "forget"}
  /\ secrets' = IF req[q].at = "set" THEN secrets \cup {req[q].id}
                ELSE secrets \ {req[q].id}
  /\ Becomes(q, Idle)
  /\ UNCHANGED <<envRule, versionRule, ticketRule, urlRule, declared>>

\* Mutant: no cascade reaches the secret, and neither does the removal.
RemoveVersionRule_KeepsSecret(q, i) ==
  /\ req[q] = Idle /\ versionRule[i] # NoVersionRow
  /\ versionRule' = [versionRule EXCEPT ![i] = NoVersionRow]
  /\ UNCHANGED <<envRule, secrets, ticketRule, urlRule, declared, req>>

\* remove: the row, then the secret no cascade reaches.
RemoveVersionRule(q, i) ==
  /\ req[q] = Idle /\ versionRule[i] # NoVersionRow
  /\ versionRule' = [versionRule EXCEPT ![i] = NoVersionRow]
  /\ Landed(q, i, [at |-> "forget", id |-> i, raced |-> FALSE])
  /\ UNCHANGED <<envRule, secrets, ticketRule, urlRule, declared>>

----------------------------------------------------------------------------
(* Ticket rules, addresses and declarations: judged and written at once.   *)

\* assertReadsSomething: what is asked for, out of what can be read.
Reads(asked) == TICKET_SOURCES \cap asked

SaveTicketRule(i, asked) ==
  /\ Reads(asked) # {}
  /\ ticketRule' = [ticketRule EXCEPT ![i] = Reads(asked)]
  /\ UNCHANGED <<envRule, versionRule, secrets, urlRule, declared, req>>

\* Removed by hand, or with its tracker.
RemoveTicketRule(i) ==
  /\ ticketRule[i] # {}
  /\ ticketRule' = [ticketRule EXCEPT ![i] = {}]
  /\ UNCHANGED <<envRule, versionRule, secrets, urlRule, declared, req>>

\* assertWritableRule: only a template that opens on http(s) is taken; a patch
\* without one keeps the stored one.
SaveUrlRule(i, template) ==
  /\ template = "absolute" \/ (template = Keep /\ urlRule[i] # None)
  /\ urlRule' = [urlRule EXCEPT ![i] = IF template = Keep THEN urlRule[i] ELSE template]
  /\ UNCHANGED <<envRule, versionRule, secrets, ticketRule, declared, req>>

RemoveUrlRule(i) ==
  /\ urlRule[i] # None
  /\ urlRule' = [urlRule EXCEPT ![i] = None]
  /\ UNCHANGED <<envRule, versionRule, secrets, ticketRule, declared, req>>

\* The unique index on (source, repo, environment).
Free(i, pair) == \A j \in Ids \ {i} : declared[j] # pair

\* createEnvironment and updateEnvironment: the index has the last word.
SaveEnvironment(i, pair) ==
  /\ Free(i, pair)
  /\ declared' = [declared EXCEPT ![i] = pair]
  /\ UNCHANGED <<envRule, versionRule, secrets, ticketRule, urlRule, req>>

RemoveEnvironment(i) ==
  /\ declared[i] # None
  /\ declared' = [declared EXCEPT ![i] = None]
  /\ UNCHANGED <<envRule, versionRule, secrets, ticketRule, urlRule, req>>

----------------------------------------------------------------------------
Next ==
  \/ \E i \in EnvRules : \E row \in EnvRow : CreateEnvRule(i, row)
  \/ \E i \in VersionRules : \E row \in VersionRow, s \in BOOLEAN : CreateVersionRule(i, row, s)
  \/ \E q \in Requests :
       \/ WriteEnvRule(q) \/ WriteVersionRule(q) \/ WriteSecret(q)
       \/ \E i \in EnvRules :
            \/ RemoveEnvRule(q, i)
            \/ \E p \in EnvPatches : JudgeEnvRule(q, i, p)
       \/ \E i \in VersionRules :
            \/ RemoveVersionRule(q, i)
            \/ \E p \in VersionPatches, s \in {Keep, "new", "empty"} : JudgeVersionRule(q, i, p, s)
  \/ \E i \in TicketRules :
       RemoveTicketRule(i) \/ \E asked \in SUBSET (TICKET_SOURCES \cup {"other"}) : SaveTicketRule(i, asked)
  \/ \E i \in UrlRules :
       RemoveUrlRule(i) \/ \E t \in {"absolute", "relative", Keep} : SaveUrlRule(i, t)
  \/ \E i \in Ids :
       RemoveEnvironment(i) \/ \E pair \in Declared : SaveEnvironment(i, pair)

Spec == Init /\ [][Next]_vars

----------------------------------------------------------------------------
(* Properties.                                                             *)

TypeOK ==
  /\ \A i \in EnvRules : envRule[i] \in EnvRow \cup {NoEnvRow}
  /\ \A i \in VersionRules : versionRule[i] \in VersionRow \cup {NoVersionRow}
  /\ secrets \subseteq VersionRules
  /\ \A i \in TicketRules : ticketRule[i] \subseteq TICKET_SOURCES

Silent(i) == envRule[i] # NoEnvRow /\ ~Contributes(envRule[i])
\* A classification rule that produces nothing is stored only when two patches
\* overlapped: neither half was enough for the check to refuse (update).
SilentOnlyByRace ==
  \A i \in EnvRules : ~Silent(i) /\ Silent(i)' =>
    \E q \in Requests : req[q].at = "env" /\ req[q].id = i /\ req[q].raced

\* A version rule cannot come to need what it does not have, a pattern or a
\* header's name, but by two patches that overlapped (update).
UnwritableOnlyByRace ==
  \A i \in VersionRules : Writable(versionRule[i]) /\ ~Writable(versionRule'[i]) =>
    \E q \in Requests : req[q].at = "version" /\ req[q].id = i /\ req[q].raced

Orphan(i) == i \in secrets /\ versionRule[i] = NoVersionRow
\* A secret outlives its rule only while the removal is on its way to it, or
\* when a patch that had its row written stores the secret afterwards.
OrphanOnlyByRace ==
  \A i \in VersionRules : ~Orphan(i) /\ Orphan(i)' =>
    \E q \in Requests : \/ req'[q].at = "forget" /\ req'[q].id = i
                        \/ req[q].at = "set" /\ req[q].raced
=============================================================================
