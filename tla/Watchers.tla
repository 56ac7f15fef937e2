------------------------------- MODULE Watchers -------------------------------
(***************************************************************************)
(* The passes that look at the engine from outside and write down what     *)
(* they saw, so that the next pass need not say it again:                  *)
(*                                                                         *)
(*   deadman          announces how long nothing has been dispatched       *)
(*   oauth_watch      announces that the credentials run out               *)
(*   ci_issue_filer   files each failing check of a task's pull request    *)
(*   auto_external    proposes repositories found outside, once per window *)
(*                                                                         *)
(* Each asks the ledger whether the thing was said, acts, and records it,  *)
(* in separate transactions.  An operator's cron runs them, so two of one  *)
(* kind can overlap and one can be killed half way.  They read only their  *)
(* own kinds of event: a behaviour is about one job, and the unit of its   *)
(* clock is that job's (minutes, hours, days).                             *)
(***************************************************************************)
EXTENDS Naturals, FiniteSets, Sequences, SequencesExt

CONSTANTS
  NULL,           \* "None": no pass, never dispatched, no readable credentials
  Runners,        \* processes that cron starts
  Jobs,           \* the passes in use, a subset of AllJobs
  InfoAt, WarnAt, AlertAt, DeadAt, \* deadman's thresholds: silence
  SoonAt, UrgentAt, CriticalAt,    \* oauth_watch's thresholds: time left
  NoticeWindow,   \* notification_rate_limit of both
  ProposalWindow, \* TEMPORAL_WINDOW_DAYS
  Tasks, Checks,  \* task rows and the names of their check runs
  Sources, Repos, \* organisations and topics asked, and what they list
  MinStarsPerDay, VelocityWindow, \* the star filter of GitHubSource
  Wired,          \* whether scan asks the sources: at this commit it does not
  MaxFaults       \* bound: killed runners and unanswered requests

AllJobs == {"deadman", "oauth", "ci", "external"}

ASSUME WatcherConstants ==
  /\ IsFiniteSet(Runners)
  /\ Jobs \subseteq AllJobs
  /\ InfoAt \in Nat \ {0} /\ WarnAt \in Nat /\ AlertAt \in Nat /\ DeadAt \in Nat
  /\ InfoAt <= WarnAt /\ WarnAt <= AlertAt /\ AlertAt <= DeadAt
  /\ CriticalAt \in Nat \ {0} /\ UrgentAt \in Nat /\ SoonAt \in Nat
  /\ CriticalAt <= UrgentAt /\ UrgentAt <= SoonAt
  /\ NoticeWindow \in Nat \ {0} /\ ProposalWindow \in Nat \ {0}
  /\ MinStarsPerDay \in Nat \ {0} /\ VelocityWindow \in Nat \ {0}
  /\ Wired \in BOOLEAN
  /\ MaxFaults \in Nat

-----------------------------------------------------------------------------
(* What is said and recorded *)

Levels == {"info", "warn", "alert", "dead"}
Statuses == {"expiring_soon", "expiring_urgently", "critical", "expired"}
Notices == Levels \cup Statuses

\* The run that stands for a pull request when its runs cannot be listed.
Rollup == "ci"
Failures == Tasks \X (Checks \cup {Rollup})
RunStates == {"running", "passed", "failed"}

VARIABLES
  job,      \* what cron runs
  stopping, \* EngineState
  silence,  \* time since the last dispatch_started event, NULL if there is none
  left,     \* time left in the credentials file, NULL if it says nothing
  row,      \* per task: dispatched with a pull request, or anything else
  runs,     \* per task: the check runs at the head of its pull request
  said,     \* per notice: ages of its deliveries in the window, newest first
  noted,    \* per notice: ages of its events in the window, newest first
  filed,    \* per failing check: number of ci_failure_observed events
  proposed, \* per repository: ages of its proposals in the window, newest first
  pass,     \* per runner: where it is and what it holds in memory
  faults

vars == <<job, stopping, silence, left, row, runs,
          said, noted, filed, proposed, pass, faults>>
world == <<job, stopping, silence, left, row, runs>>
ledger == <<said, noted, filed, proposed>>

\* What a pass holds: the notice it decided on, the rows it has not inspected and
\* the failures it found unfiled, the candidates it has yet to look up and those
\* it will propose.
Passes ==
         [at : {"deciding", "delivered"}, key : Notices]
    \cup [at : {"filing"}, rows : SUBSET Tasks, unfiled : SUBSET Failures]
    \cup [at : {"dedup"}, left : SUBSET Repos, kept : SUBSET Repos]
    \cup [at : {"emitting"}, kept : SUBSET Repos]

ASSUME NoPass == NULL \notin Passes

Ages(window) == BoundedSeq(0..window, Cardinality(Runners) + MaxFaults)

TypeOK ==
  /\ job \in Jobs
  /\ stopping \in BOOLEAN
  /\ silence \in 0..DeadAt \cup {NULL}
  /\ left \in 0..(SoonAt + 1) \cup {NULL}
  /\ row \in [Tasks -> {"dispatched", "other"}]
  /\ runs \in [Tasks -> [Checks -> RunStates]]
  /\ said \in [Notices -> Ages(NoticeWindow)]
  /\ noted \in [Notices -> Ages(NoticeWindow)]
  /\ filed \in [Failures -> 0..Cardinality(Runners)]
  /\ proposed \in [Repos -> Ages(ProposalWindow)]
  /\ pass \in [Runners -> Passes \cup {NULL}]
  /\ faults \in 0..MaxFaults

\* What a job does not read stays as it is here.
Init ==
  /\ job \in Jobs
  /\ stopping = FALSE
  /\ silence = NULL /\ left = NULL
  /\ row = [t \in Tasks |-> "other"]
  /\ runs = [t \in Tasks |-> [c \in Checks |-> "running"]]
  /\ said = [k \in Notices |-> <<>>] /\ noted = said
  /\ filed = [f \in Failures |-> 0]
  /\ proposed = [r \in Repos |-> <<>>]
  /\ pass = [p \in Runners |-> NULL]
  /\ faults = 0

-----------------------------------------------------------------------------
(* Helpers *)

At(p, place) == pass[p] # NULL /\ pass[p].at = place
Goto(p, m) == pass' = [pass EXCEPT ![p] = m] /\ UNCHANGED <<world, faults>>
EndPass(p) == Goto(p, NULL)

Now(f, k) == [f EXCEPT ![k] = <<0>> \o @]

-----------------------------------------------------------------------------
(* deadman and oauth_watch: run and check *)

LevelFor(t) ==
  IF t >= DeadAt THEN "dead"
  ELSE IF t >= AlertAt THEN "alert"
  ELSE IF t >= WarnAt THEN "warn"
  ELSE IF t >= InfoAt THEN "info" ELSE NULL

StatusFor(t) ==
  IF t = 0 THEN "expired"
  ELSE IF t <= CriticalAt THEN "critical"
  ELSE IF t <= UrgentAt THEN "expiring_urgently"
  ELSE IF t <= SoonAt THEN "expiring_soon" ELSE NULL

\* A plausible slip: an event of the boundary does not count.
AlreadyNotifiedSince(k) == \E n \in DOMAIN noted[k] : noted[k][n] < NoticeWindow

\* _already_notified_within: `created_at >= now - window`, so that an event of
\* the boundary still counts.
AlreadyNotifiedWithin(k) == noted[k] # <<>>

Decide(p, k) ==
  /\ pass[p] = NULL
  /\ k # NULL /\ ~AlreadyNotifiedWithin(k)
  /\ Goto(p, [at |-> "deciding", key |-> k])
  /\ UNCHANGED ledger

\* An engine that never dispatched is taken for a fresh install.
RunDeadman(p) == job = "deadman" /\ ~stopping /\ silence # NULL /\ Decide(p, LevelFor(silence))

\* A plausible slip: `if not hours_remaining`.
CheckCredentialsLeft(p) ==
  job = "oauth" /\ left # NULL /\ left > 0 /\ Decide(p, StatusFor(left))

\* oauth_watch does not ask whether the engine is stopping.
CheckCredentials(p) == job = "oauth" /\ left # NULL /\ Decide(p, StatusFor(left))

Send(p) ==
  /\ At(p, "deciding")
  /\ said' = Now(said, pass[p].key)
  /\ Goto(p, [pass[p] EXCEPT !.at = "delivered"])
  /\ UNCHANGED <<noted, filed, proposed>>

EmitNotice(p) ==
  /\ At(p, "delivered")
  /\ noted' = Now(noted, pass[p].key)
  /\ EndPass(p)
  /\ UNCHANGED <<said, filed, proposed>>

-----------------------------------------------------------------------------
(* ci_issue_filer: file_failures *)

\* A plausible slip: the names filed are looked up over all tasks.
AlreadyFiledAnywhere(f) == \E t \in Tasks : filed[<<t, f[2]>>] > 0

AlreadyFiled(f) == filed[f] > 0

LoadDispatchedWithPR(p) ==
  /\ job = "ci" /\ ~stopping /\ pass[p] = NULL
  /\ \E t \in Tasks : row[t] = "dispatched"
  /\ Goto(p, [at |-> "filing", rows |-> {t \in Tasks : row[t] = "dispatched"}, unfiled |-> {}])
  /\ UNCHANGED ledger

\* _rollup_to_status: one failure decides, then one run that is not over.
RollupToStatus(rs) ==
  CASE "failed" \in Range(rs)  -> "failure"
    [] "running" \in Range(rs) -> "pending"
    [] Range(rs) = {}          -> "unknown"
    [] OTHER                   -> "success"

\* list_check_runs: the names of the runs that failed.
FailedRuns(rs) == {c \in DOMAIN rs : rs[c] = "failed"}

\* ... and where `gh pr checks` answers with an error, the status of the PR.
FailedRunsFromStatus(rs) == IF RollupToStatus(rs) = "failure" THEN {Rollup} ELSE {}

\* The failures of one row that nobody has filed.  The row's own status is not
\* asked again.
Inspect(p, t, failed) ==
  /\ At(p, "filing") /\ pass[p].unfiled = {} /\ ~stopping
  /\ t \in pass[p].rows
  /\ pass' = [pass EXCEPT ![p].rows = @ \ {t},
                          ![p].unfiled = {f \in {t} \X failed : ~AlreadyFiled(f)}]
  /\ UNCHANGED <<world, ledger>>

InspectPR(p) == \E t \in Tasks : Inspect(p, t, FailedRuns(runs[t])) /\ UNCHANGED faults

InspectRollup(p) ==
  /\ faults < MaxFaults /\ faults' = faults + 1
  /\ \E t \in Tasks : Inspect(p, t, FailedRunsFromStatus(runs[t]))

\* get_pr answers None, or the PR is not open: the row is skipped.
SkipPR(p) ==
  /\ At(p, "filing") /\ pass[p].unfiled = {} /\ ~stopping
  /\ faults < MaxFaults /\ faults' = faults + 1
  /\ \E t \in pass[p].rows : pass' = [pass EXCEPT ![p].rows = @ \ {t}]
  /\ UNCHANGED <<world, ledger>>

\* The row may have gone to a terminal state since it was loaded: the event and
\* the freshness stamp are written all the same.
FileFailure(p) ==
  /\ At(p, "filing")
  /\ \E f \in pass[p].unfiled :
       /\ filed' = [filed EXCEPT ![f] = @ + 1]
       /\ Goto(p, [pass[p] EXCEPT !.unfiled = @ \ {f}])
  /\ UNCHANGED <<said, noted, proposed>>

FilingEnds(p) ==
  /\ At(p, "filing") /\ pass[p].unfiled = {}
  /\ pass[p].rows = {} \/ stopping
  /\ EndPass(p)
  /\ UNCHANGED ledger

-----------------------------------------------------------------------------
(* auto_external: scan *)

\* What the sources list; NULL for one that raises.  The gh client itself takes an
\* error for an empty list.
SourceAnswers == [Sources -> SUBSET Repos \cup {NULL}]

\* A repository's stars, and the days since its last push (NULL: not told).
RepoFacts == [stars : 0..(MinStarsPerDay * VelocityWindow), pushed : 0..(VelocityWindow + 1) \cup {NULL}]

\* _star_velocity, against the threshold: the days since the last push stand for
\* the age of the repository.
GainsStars(r) ==
  /\ r.stars > 0 /\ r.pushed # NULL
  /\ \E days \in 1..VelocityWindow :
       /\ \/ days = r.pushed
          \/ days = 1 /\ r.pushed = 0
          \/ days = VelocityWindow /\ r.pushed > days
       /\ r.stars >= MinStarsPerDay * days

\* get_recent_commits: of which repositories it returns a commit; an error is none.
RecentCommits == SUBSET Repos

\* GitHubSource.fetch: a source that raises costs only its own answer, a
\* repository listed twice counts once, and it must gain stars and have commits.
Fetch(answers, facts, active) ==
  {r \in active : /\ \E s \in Sources : answers[s] # NULL /\ r \in answers[s]
                  /\ GainsStars(facts[r])}

Fetches == {Fetch(answers, facts, active) :
              answers \in SourceAnswers, facts \in [Repos -> RepoFacts], active \in RecentCommits}

\* The idempotency guard: a proposal dated today.
ScanAlreadyRanToday == \E r \in Repos : Contains(proposed[r], 0)

\* _run_sources: a stub that returns nothing until a deployment overrides it with
\* the fetch of its sources.
RunSources == IF Wired THEN Fetches ELSE {{}}

\* Guard, sources, ranking and judge, of which the last two pass everything on.
BeginScan(p) ==
  /\ job = "external" /\ ~stopping /\ pass[p] = NULL
  /\ ~ScanAlreadyRanToday
  /\ \E found \in RunSources \ {{}} : Goto(p, [at |-> "dedup", left |-> found, kept |-> {}])
  /\ UNCHANGED ledger

\* dedup_temporal: the key of a proposal of the window.
DuplicateInTime(r) == proposed[r] # <<>>

\* dedup_semantic: whether the words of a candidate are close to those of an
\* active front or a recent task, which a similarity of words can say either way.
DuplicateInWords == BOOLEAN

Duplicate(r, close) == close \/ DuplicateInTime(r)

\* Candidates are looked up one by one; nothing is emitted before the last.
DedupOne(p) ==
  /\ At(p, "dedup")
  /\ \E r \in pass[p].left, close \in DuplicateInWords :
       Goto(p, [pass[p] EXCEPT !.left = @ \ {r},
                               !.kept = IF Duplicate(r, close) THEN @ ELSE @ \cup {r}])
  /\ UNCHANGED ledger

DedupEnds(p) ==
  /\ At(p, "dedup") /\ pass[p].left = {}
  /\ IF stopping \/ pass[p].kept = {}
       THEN EndPass(p)
       ELSE Goto(p, [at |-> "emitting", kept |-> pass[p].kept])
  /\ UNCHANGED ledger

\* One transaction per proposal.
EmitExternal(p) ==
  /\ At(p, "emitting")
  /\ \E r \in pass[p].kept :
       /\ proposed' = Now(proposed, r)
       /\ IF pass[p].kept = {r} THEN EndPass(p)
                                ELSE Goto(p, [pass[p] EXCEPT !.kept = @ \ {r}])
  /\ UNCHANGED <<said, noted, filed>>

-----------------------------------------------------------------------------
(* Time, the engine, GitHub and the operator *)

\* A plausible slip: no window.
OlderKept(ages, w) == [i \in DOMAIN ages |-> ages[i] + 1]

\* Events leave a window of w when they are older than it: the newest come first,
\* so that those that stay do.
Older(ages, w) ==
  LET stay == {i \in DOMAIN ages : ages[i] < w}
  IN  [i \in 1..Cardinality(stay) |-> ages[i] + 1]

\* What the ledgers count as time passes; ci_issue_filer reads no clock.
Tick ==
  /\ job # "ci"
  /\ silence' = IF silence = NULL \/ silence = DeadAt THEN silence ELSE silence + 1
  /\ left' = IF left = NULL \/ left = 0 THEN left ELSE left - 1
  /\ said' = [k \in Notices |-> Older(said[k], NoticeWindow)]
  /\ noted' = [k \in Notices |-> Older(noted[k], NoticeWindow)]
  /\ proposed' = [r \in Repos |-> Older(proposed[r], ProposalWindow)]
  /\ UNCHANGED <<job, stopping, row, runs, filed, pass, faults>>

Dispatched ==
  /\ job = "deadman" /\ ~stopping
  /\ silence' = 0
  /\ UNCHANGED <<job, stopping, left, row, runs, ledger, pass, faults>>

\* Logging in again, or a file that says nothing of expiry.
Authenticate ==
  /\ job = "oauth"
  /\ left' \in {SoonAt + 1, NULL}
  /\ UNCHANGED <<job, stopping, silence, row, runs, ledger, pass, faults>>

\* A task gets its pull request, or leaves the state dispatched.
RowChanges ==
  /\ job = "ci"
  /\ \E t \in Tasks, s \in {"dispatched", "other"} : row' = [row EXCEPT ![t] = s]
  /\ UNCHANGED <<job, stopping, silence, left, runs, ledger, pass, faults>>

CheckRuns ==
  /\ job = "ci"
  /\ \E t \in Tasks, c \in Checks, s \in RunStates : runs' = [runs EXCEPT ![t][c] = s]
  /\ UNCHANGED <<job, stopping, silence, left, row, ledger, pass, faults>>

StopOrResume ==
  /\ job # "oauth" /\ stopping' = ~stopping
  /\ UNCHANGED <<job, silence, left, row, runs, ledger, pass, faults>>

\* A runner is killed, or the notification backend raises; cron starts another.
Crash(p) ==
  /\ pass[p] # NULL /\ faults < MaxFaults
  /\ pass' = [pass EXCEPT ![p] = NULL]
  /\ faults' = faults + 1
  /\ UNCHANGED <<world, ledger>>

WorldStep == Dispatched \/ Authenticate \/ RowChanges \/ CheckRuns \/ StopOrResume

NoticeStep(p) == RunDeadman(p) \/ CheckCredentials(p) \/ Send(p) \/ EmitNotice(p)

FilerStep(p) == LoadDispatchedWithPR(p) \/ InspectPR(p) \/ FileFailure(p) \/ FilingEnds(p)

ScanStep(p) == BeginScan(p) \/ DedupOne(p) \/ DedupEnds(p) \/ EmitExternal(p)

PassStep(p) == NoticeStep(p) \/ FilerStep(p) \/ ScanStep(p)

Next ==
  \/ Tick
  \/ WorldStep
  \/ \E p \in Runners : PassStep(p) \/ SkipPR(p) \/ InspectRollup(p) \/ Crash(p)

Spec == Init /\ [][Next]_vars

\* Time passes, cron keeps starting each runner, and a pass that started goes on.
FairSpec ==
  /\ Spec
  /\ WF_vars(Tick)
  /\ \A p \in Runners : WF_vars(NoticeStep(p) \/ FilerStep(p))
===============================================================================
