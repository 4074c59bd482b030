----------------------------- MODULE MCServices -----------------------------
(* RunStore and the services around it, each on a small instance of its own. *)
(* `which` says which part a behaviour is about and never changes; the       *)
(* variables of the other parts are at rest.  Writers stands for the         *)
(* concurrent requests, updaters and runs of each.  Two services are run as  *)
(* two parts each, which keep apart what would multiply: the catalogues of   *)
(* rules, and the readings of a quota from the ceilings declared for it.     *)
EXTENDS RunStore, FiniteSets, TLC

CONSTANTS
  Parts,                                        \* what the behaviours are about
  Users, MaxTokens,                             \* Accounts
  Emails, Ips, EMAIL_LIMIT, IP_LIMIT, WINDOW, PRUNE_AT,  \* LoginThrottle
  Jobs, Patterns, Fallback, MaxFaults,          \* Settings
  Sources, Trackers,                            \* SourceRegistry
  MaxSecrets,                                   \* WebhookSecret
  Providers, Promotes,                          \* Defaults
  EnvRules, VersionRules, TicketRules, UrlRules, Declared, Declarations, MaxKeys,  \* RuleCatalogue
  Envs, Claimed, Rules, Versions, MaxDeployments,  \* VersionReadings
  Last,                                         \* Changelogs
  Buckets, BudgetBucket, MaxCalls, MaxWindows,  \* ApiQuota
  Batch,                                        \* of readings, and of changelogs
  MaxCrashes                                    \* of requests, and of the process

VARIABLES
  which,
  users, sessions, links, minted,
  buckets, attempt,
  schedules, updater, task, up, faults, settled,
  source, secret, tracker, broken,
  enabled, hook, issued, admin, stale, left,
  table, default, keys, raced,
  envRule, versionRule, secrets, ticketRule, urlRule, declared,
  app, latest, shown, newest, frozen, job, ask, reader,
  status, gone, from, archive, run,
  window, spent, inflight, current, dirty, metered, timer, flush, budget, forgets, context, lost, late,
  req, stored, crashes   \* of several parts

\* The pairs that are read, and the rules, in their order.
MCEnvs == <<"e1">>
MCRules == <<"r1", "r2">>

\* Callers stand for each other, and so do accounts.
WriterSymmetry == Permutations(Writers) \cup Permutations(Users)

Accounts == INSTANCE Accounts WITH Requests <- Writers
Throttle == INSTANCE LoginThrottle WITH Attempts <- Writers
Settings == INSTANCE Settings WITH Updaters <- Writers
Registry == INSTANCE SourceRegistry WITH Requests <- Writers
Webhook == INSTANCE WebhookSecret WITH Admins <- Writers, secret <- hook
Defaults == INSTANCE Defaults WITH Ids <- Providers, Requests <- Writers, rows <- table
Catalogue == INSTANCE RuleCatalogue WITH Ids <- Declarations, Requests <- Writers
Readings == INSTANCE VersionReadings WITH row <- shown
Logs == INSTANCE Changelogs WITH Runs <- Writers
Quota == INSTANCE ApiQuota WITH Flushes <- Writers

-----------------------------------------------------------------------------
\* The variables of each part that no other part has.
ofAccounts == <<users, sessions, links, minted>>
ofThrottle == <<buckets, attempt>>
ofSettings == <<schedules, updater, task, up, faults, settled>>
ofRegistry == <<source, secret, tracker, broken>>
ofWebhook == <<enabled, hook, issued, admin, stale, left>>
ofDefaults == <<table, default, keys, raced>>
ofCatalogue == <<envRule, versionRule, secrets, ticketRule, urlRule, declared>>
ofReadings == <<app, latest, shown, newest, frozen, job, ask, reader>>
ofLogs == <<status, gone, from, archive, run>>
ofQuota == <<window, spent, inflight, current, dirty, metered, timer, flush, budget, forgets,
             context, lost, late>>
all == <<which, vars, ofAccounts, ofThrottle, ofSettings, ofRegistry, ofWebhook, ofDefaults,
         ofCatalogue, ofReadings, ofLogs, ofQuota, req, stored, crashes>>

NoAccounts == users = 0 /\ sessions = 0 /\ links = 0 /\ minted = 0
NoThrottle == buckets = 0 /\ attempt = 0
NoSettings == schedules = 0 /\ updater = 0 /\ task = 0 /\ up = 0 /\ faults = 0 /\ settled = 0
NoRegistry == source = 0 /\ secret = 0 /\ tracker = 0 /\ broken = 0
NoWebhook == enabled = 0 /\ hook = 0 /\ issued = 0 /\ admin = 0 /\ stale = 0 /\ left = 0
NoDefaults == table = 0 /\ default = 0 /\ keys = 0 /\ raced = 0
NoCatalogue == /\ envRule = 0 /\ versionRule = 0 /\ secrets = 0 /\ ticketRule = 0 /\ urlRule = 0
               /\ declared = 0
NoReadings == /\ app = 0 /\ latest = 0 /\ shown = 0 /\ newest = 0 /\ frozen = 0 /\ job = 0
              /\ ask = 0 /\ reader = 0
NoLogs == status = 0 /\ gone = 0 /\ from = 0 /\ archive = 0 /\ run = 0
NoQuota == /\ window = 0 /\ spent = 0 /\ inflight = 0 /\ current = 0 /\ dirty = 0 /\ metered = 0
           /\ timer = 0 /\ flush = 0 /\ budget = 0 /\ forgets = 0 /\ context = 0
           /\ lost = 0 /\ late = 0

\* The parts each service is run as.
OfRules == {"environment rules", "version rules", "addresses"}
OfQuota == {"quota", "budget"}

Start ==
  /\ IF which = "accounts" THEN Accounts!Init ELSE NoAccounts
  /\ IF which = "throttle" THEN Throttle!Init ELSE NoThrottle
  /\ IF which = "settings" THEN Settings!Init ELSE NoSettings
  /\ IF which = "registry" THEN Registry!Init ELSE NoRegistry
  /\ IF which = "webhook secret" THEN Webhook!Init ELSE NoWebhook
  /\ IF which = "defaults" THEN Defaults!Init ELSE NoDefaults
  /\ IF which \in OfRules THEN Catalogue!Init ELSE NoCatalogue
  /\ IF which = "readings" THEN Readings!Init ELSE NoReadings
  /\ IF which = "changelogs" THEN Logs!Init ELSE NoLogs
  /\ IF which \in OfQuota THEN Quota!Init ELSE NoQuota
  /\ IF which \in {"accounts", "registry", "defaults"} \cup OfRules THEN TRUE ELSE req = 0
  /\ IF which \in {"settings"} \cup OfQuota THEN TRUE ELSE stored = 0
  /\ IF which \in {"defaults"} \cup OfQuota THEN TRUE ELSE crashes = 0

MCInit ==
  /\ which \in Parts
  /\ Init /\ (which # "runs" => pipelines = {})
  /\ Start

\* What a part keeps of its service.  Of the rules, one catalogue at a time, and
\* one key at a time of the version rules; of a quota, the readings without
\* declared ceilings, or the ceilings within one window, one flush and no
\* restart.
Kept ==
  /\ which = "environment rules" =>
       <<versionRule, urlRule, declared>>' = <<versionRule, urlRule, declared>>
  /\ which = "version rules" =>
       /\ <<envRule, ticketRule, urlRule, declared>>' = <<envRule, ticketRule, urlRule, declared>>
       /\ \A w \in Writers : req'[w].at = "version" => Cardinality(DOMAIN req'[w].patch) <= 1
  /\ which = "addresses" =>
       <<envRule, versionRule, ticketRule>>' = <<envRule, versionRule, ticketRule>>
  /\ which = "quota" => budget'.declaring = "no" /\ ~budget'.withdrawing
  /\ which = "budget" =>
       /\ window' = 1 /\ crashes' = 0
       /\ \A f, g \in Writers : flush'[f] # Quota!NoFlush /\ flush'[g] # Quota!NoFlush => f = g

Service ==
  \/ /\ which = "accounts" /\ Accounts!Next
     /\ UNCHANGED <<ofThrottle, ofSettings, ofRegistry, ofWebhook, ofDefaults, ofCatalogue,
                    ofReadings, ofLogs, ofQuota, stored, crashes>>
  \/ /\ which = "throttle" /\ Throttle!Next
     /\ UNCHANGED <<ofAccounts, ofSettings, ofRegistry, ofWebhook, ofDefaults, ofCatalogue,
                    ofReadings, ofLogs, ofQuota, req, stored, crashes>>
  \/ /\ which = "settings" /\ Settings!Next
     /\ UNCHANGED <<ofAccounts, ofThrottle, ofRegistry, ofWebhook, ofDefaults, ofCatalogue,
                    ofReadings, ofLogs, ofQuota, req, crashes>>
  \/ /\ which = "registry" /\ Registry!Next
     /\ UNCHANGED <<ofAccounts, ofThrottle, ofSettings, ofWebhook, ofDefaults, ofCatalogue,
                    ofReadings, ofLogs, ofQuota, stored, crashes>>
  \/ /\ which = "webhook secret" /\ Webhook!Next
     /\ UNCHANGED <<ofAccounts, ofThrottle, ofSettings, ofRegistry, ofDefaults, ofCatalogue,
                    ofReadings, ofLogs, ofQuota, req, stored, crashes>>
  \/ /\ which = "defaults" /\ Defaults!Next
     /\ UNCHANGED <<ofAccounts, ofThrottle, ofSettings, ofRegistry, ofWebhook, ofCatalogue,
                    ofReadings, ofLogs, ofQuota, stored>>
  \/ /\ which \in OfRules /\ Catalogue!Next
     /\ UNCHANGED <<ofAccounts, ofThrottle, ofSettings, ofRegistry, ofWebhook, ofDefaults,
                    ofReadings, ofLogs, ofQuota, stored, crashes>>
  \/ /\ which = "readings" /\ Readings!Next
     /\ UNCHANGED <<ofAccounts, ofThrottle, ofSettings, ofRegistry, ofWebhook, ofDefaults,
                    ofCatalogue, ofLogs, ofQuota, req, stored, crashes>>
  \/ /\ which = "changelogs" /\ Logs!Next
     /\ UNCHANGED <<ofAccounts, ofThrottle, ofSettings, ofRegistry, ofWebhook, ofDefaults,
                    ofCatalogue, ofReadings, ofQuota, req, stored, crashes>>
  \/ /\ which \in OfQuota /\ Quota!Next
     /\ UNCHANGED <<ofAccounts, ofThrottle, ofSettings, ofRegistry, ofWebhook, ofDefaults,
                    ofCatalogue, ofReadings, ofLogs, req>>

MCNext ==
  \/ /\ which = "runs" /\ Next
     /\ UNCHANGED <<ofAccounts, ofThrottle, ofSettings, ofRegistry, ofWebhook, ofDefaults,
                    ofCatalogue, ofReadings, ofLogs, ofQuota, req, stored, crashes>>
     /\ UNCHANGED which
  \/ Service /\ Kept /\ UNCHANGED <<which, vars>>

MCSpec == MCInit /\ [][MCNext]_all

-----------------------------------------------------------------------------
\* No route takes the last admin away unless two withdrawals overlapped, and a
\* session that was closed never answers again (Accounts).
AccountsAreKept ==
  [][which = "accounts" =>
       Accounts!LastAdminOnlyByRace /\ Accounts!RevokedStaysRevoked]_all

\* A session of before a change of access stays only while the request that made
\* the change is about to close it (Accounts), and a sign-in goes past a limit only
\* while another is in flight (LoginThrottle).
OldSessionsAreClosed ==
  /\ which = "accounts" => Accounts!OldSessionsRevoked
  /\ which = "throttle" => Throttle!LimitIsPassedOnlyInFlight

\* The schedules in Redis are those of the settings once an update has settled
\* (Settings); a table has one default, and every key its owner (Defaults).
SettledStateIsExact ==
  /\ which = "settings" => Settings!SettledIsExact
  /\ which = "defaults" => Defaults!OneDefault /\ Defaults!KeysHaveOwners

\* What may not hold after an accepted write holds unless two writes
\* overlapped: incidents have their label (Settings), a rule contributes
\* something and can be written, and no secret is left without its rule
\* (RuleCatalogue), a source signs in with its own secret (SourceRegistry).
BrokenOnlyByRace ==
  [][/\ which = "settings" => Settings!UnlabelledOnlyByRace
     /\ which \in OfRules => /\ Catalogue!SilentOnlyByRace /\ Catalogue!UnwritableOnlyByRace
                             /\ Catalogue!OrphanOnlyByRace
     /\ which = "registry" => Registry!WrongSecretOnlyByRace]_all

\* Only a source which is stored listens for events, and the secret of a source
\* outlives it only by a removal that is under way or broke (SourceRegistry).
SourcesLeaveNothing ==
  which = "registry" => Registry!OnlyStoredListens /\ Registry!NothingOutlives

\* A webhook secret outlives the switch only by a deletion which is to come or
\* never ran, or by a request that read the flag before it (WebhookSecret).
SecretFollowsSwitch == which = "webhook secret" => Webhook!SecretFollowsSwitch

\* A deployment's row and the version frozen for it agree, and its timeline
\* parts from them only by a race (VersionReadings); a changelog is filed for a
\* deployment that went out, and once filed is never rewritten (Changelogs).
HistoryIsFinal ==
  [][/\ which = "readings" => Readings!TimelinePartsOnlyByRace /\ Readings!RowAndFrozenAgree'
     /\ which = "changelogs" => Logs!FiledIsFinal /\ Logs!FiledWentOut']_all

\* Within a window the held count of calls never goes down, whatever order the
\* answers come back in, and a call the provider has counted is not counted
\* again; what is held is marked or on disk, but for what came in during a
\* write; and what was held of a forgotten source never comes back (ApiQuota).
QuotaIsKept ==
  [][/\ which \in OfQuota => Quota!CountNeverShrinks /\ Quota!ObservedIsNotRecounted
     /\ (which \in OfQuota => Quota!StoredLagsOnlyByRace /\ Quota!NothingHeldComesBack)']_all
============================================================================
