# A formal model of oxi

`oxi` (the Python package `src/oxi-core`) is an engine that turns roadmap items
into merged pull requests: it seeds *tasks* into a SQLite database, starts a
coding agent on each of them in a git worktree of its own, follows the pull
request the agent opens, has a critic review it, merges it, and retries what
failed.  This directory holds TLA+ specifications of that engine, the TLC
configurations that check them on small instances, and theorems whose proofs
TLAPS checks.

    tlc -workers 4 -config engine_tick.cfg MCEngine.tla     # one run
    tlapm MergeProofs.tla                                   # one proof module

## 1. Inventory

| component (under `src/oxi-core/src/oxi_core/`) | state it keeps | operations | talks to | what makes it correct |
|---|---|---|---|---|
| **task table** `db.py` | rows of `task`: `status`, `pr_number`, `failure_reason`, `failed_at`, `last_progress_at`, `cost_usd`, `updated_at`; append-only `event` rows | one UPDATE per transition, most of them with a `WHERE status = ...` | every pass, every process (WAL, 5 s busy timeout) | a transition fires only from the status it is meant for; `merged` is final |
| **dispatch** `v3/dispatch.py`, `dispatch_invoke.py` | none of its own; the picked row in memory across a session of up to 1800 s | `dispatch_one` (gates, pick, provision, claim, session, outcome), `dispatch_loop` (sequential, parallel) | worktrees, agent subprocess, health, budget | one session per task; an outcome overwrites nothing that happened meanwhile |
| **heartbeat** `v3/heartbeat.py` | none | `reap`: rows `dispatched`, without PR, without progress for 600 s become `abandoned` | task table | never reaps work that shipped |
| **pr_watcher** `v3/pr_watcher.py` | none | stamp `pr_number` of the open PR whose branch carries the task's slug; follow the PR to `merged`/`failed` | GitHub through `gh` | a landed PR is recorded in the end |
| **auto_merge** `v3/auto_merge.py` | none | critic review of PRs with green CI, merge or reject | critic, `gh pr merge` | `merged` is written only when the PR landed |
| **auto_recover** `v3/auto_recover.py` | number of attempts, as events | failed rows past their cooldown go back to `planned`, `max_retries` times | task table | the retry budget is kept; a retry starts clean |
| **seed_from_roadmap** `v3/seed_from_roadmap.py` | cursor over the roadmap, cooldowns of fronts | fills the queue up to `target_planned_count` | roadmap, task table | no item twice |
| **tick** `cli.py: cmd_tick` | none | heartbeat, auto_recover, seed, and with `--real-claude` dispatch, pr_watcher, auto_merge | all of the above | the order of the passes |
| **saturate** `v3/saturate.py`, `kill.py`, `engine_state.py`, `engine_health.py`, `budget.py` | PID file, kill file, stop flag, failure counter in memory, spend, sticky hard-stop event | the daemon's main loop: gates, seed, `dispatch_loop`, sleep | dispatch, seed | stops when told; starts no work behind a closed gate; bounded overspend |
| **deep_fix** `v3/deep_fix.py` | its escalations, as events | plan a task that failed often again with the next recipe; tell dispatch which recipe that is; call a person when all are used up | task table, dispatch | budgets add up; a person is called once, and in the end |
| **worktrees** `v3/worktree_provision.py`, **ship_recovery**, **branch_janitor** | worktree directories, local and remote branches | provision; commit and push what a session left; delete merged remote branches | git, GitHub, task table | no work is lost; no row is kept alive for ever |
| **roadmap** `planner.py`, `v3/spec_ingest.py`, `v3/ingest_roadmap.py`, `v3/seed_from_roadmap.py` | roadmap file, `front` rows with `last_seeded_at` | render a spec, upsert fronts, seed tasks | database, operator | every front becomes one task |
| **auto_observe** `v3/auto_observe.py` | proposals and acceptances, as events | scan the ledger for failure clusters, list, accept | ledger, `front`, operator | one pending proposal a signal; an accepted one is injected |
| **deadman**, **oauth_watch** | their own notices, as events | announce silence, announce credentials that run out, both rate limited | notifier, cron | no silence, no flood |
| **ci_issue_filer** `v3/ci_issue_filer.py` | filed check names, as events | file each failing check of each PR | GitHub, cron | each failure filed, and once |
| **auto_external** `v3/auto_external/`, `v3/github_source.py` | proposals, as events | fetch, dedup, propose once a day | GitHub, cron, `front` | nothing proposed twice within the window |
| **critic** `v3/critic.py` | none | one session over a diff, its answer parsed to approve or reject | `invoke`, auto_merge | no answer is not an approval |
| dispatch_pool, routing, ranking, pr_overlap, handoff, tail, reports, agent backends, setup | outside world or none | | | not modelled, section 8 |

How they interact.  There is no server: every command is an OS process, and what
they share is the database and GitHub.  `docs/manual/running-dispatch.md`
describes cron-driven ticks, `tick --times N`, the `saturate` daemon, and the two
together.  A worker session is a child in a process group of its own, so it
outlives a parent that dies.

Which behaviours are hard.

* Every pass loads rows, then works through that snapshot while other processes,
  GitHub users and worker sessions go on.  Some UPDATEs ask again for the status,
  some do not, none asks again for the `pr_number`.
* A session runs for up to half an hour between the claim and the UPDATE of its
  outcome, which asks for nothing but the row's id.
* A crash between two steps (claim and outcome; the merge on GitHub and its
  UPDATE) leaves rows that some later pass has to pick up.
* The daemon's slots are coroutines: their claims do not race as long as nothing
  between SELECT and claim awaits.  Two processes have no such protection.
* Retries: a row lives several attempts, with several sessions and PRs, and three
  parts of the engine retry it by budgets of their own.
* A worktree and its branches are worked on by the session, by `provision`,
  `ship_recovery` and the janitor, each in several git calls.
* Whatever asks the ledger "was this done?", acts and records it does so in separate
  transactions: two of a kind can overlap, and one can be killed half way.

`PROJECT.json` lists each hazard at its line, with the properties that cover it.

## 2. Modules

| module | what it is |
|---|---|
| `TaskRow` | one row of the `task` table and each UPDATE as an operator from the row before to the row after; its `IF` is the statement's `WHERE` |
| `Engine` | the processes (ticks, daemon slots), worker sessions and GitHub around a table of such rows |
| `TaskLifecycle` | abstract specification: the life of a task when one engine drives it |
| `EngineProperties` | invariants, action properties, liveness, the refinement mapping to `TaskLifecycle`, and the statements of the sources that do not hold |
| `MCEngine` | model values for TLC |
| `EngineProofs` | type correctness, `TypeCorrect` |
| `MergeProofs` | `MergeCorrect` |
| `LifecycleProofs` | `SnapshotsCorrect`, `SessionCorrect`, `PlannedRowsCorrect`, `WatcherCorrect`; `SessionsCorrect`; `LifecycleCorrect`; `RetriesCorrect` |
| `Supervisor` | the daemon `oxi v3 saturate`: main loop, dispatch loop and its coroutines, PID file, kill file, SIGTERM, health counter, the two daily caps |
| `SupervisorProperties`, `MCSupervisor` | its properties; model values for TLC |
| `SupervisorProofs` | `SupervisorTypeCorrect`, `FailureStreaksEnd`, `LateSessionsEnd`, `OneDaemon`, `CapsCorrect` |
| `Escalation`, `EscalationProperties`, `MCEscalation` | one task's retries: sessions and how they end, model and recipe, auto_recover, deep_fix, heartbeat, pr_watcher and the critic over its row and its events |
| `EscalationProofs` | `EscalationTypeCorrect`, `SessionsPaidCorrect`, `LastResortCorrect`, `DeadPRCorrect`, `DecomposeFirstCorrect` |
| `Worktrees`, `WorktreeProperties`, `MCWorktrees` | the work of sessions: directory, branches, PRs; provision, ship_recovery and branch_janitor call by call, beside heartbeat, pr_watcher and replanning |
| `WorktreeProofs` | `WorktreeTypeCorrect`, `WorkKept`, `BranchesCorrect` |
| `Intake`, `IntakeProperties`, `MCIntake` | spec, roadmap, fronts, tasks; seeding and self-observation by several processes |
| `IntakeProofs` | `IntakeTypeCorrect`, `SeededCorrect`, `OvershootCorrect`, `PendingCorrect`, `InjectionCorrect` |
| `Watchers`, `WatcherProperties`, `MCWatchers` | the cron passes deadman, oauth_watch, ci_issue_filer and auto_external |
| `WatcherProofs` | `WatcherTypeCorrect`, `RepeatsCorrect` |

`Escalation` and `Worktrees` use the same `TaskRow` operators as `Engine`: whatever
transition of a row they take is the statement `Engine` takes.  `Engine` knows
processes and no ledger, `Escalation` one process and the whole ledger of one
task, `Worktrees` the file system and git below them.  `Intake` ends where
`Engine` begins, at a planned row, and sees the rest of the engine as the steps
`TakeUp`, `PlanAgain` (rows come back by a retryable outcome, a reset, an escalation) and
`Strike`.  `Watchers` reads what the others write and writes only
events of its own kinds.

`Engine` and `Supervisor` look at the same daemon from two sides.  `Engine` keeps
what its slots do to the tasks and lets the gates be open or closed as they please;
`Supervisor` keeps the gates and only counts the sessions, and whether a task
is planned is its free choice.

Correspondence.  `row` is the `task` table, `attempts` the number of
`auto_recover_attempted` events per task, `pr` the pull requests on GitHub, each with
the task whose slug its branch carries and whether it is the engine's own branch of that
task: the agent's session and anybody else can open one.  `pc` is where a process stands; `todo` the rows the current pass has fetched and not
visited; `held` the row it is working on with what it has read about it (the
Python locals); `orphans` sessions whose parent is gone.  A step is what others
can come between: one SQLite transaction or SELECT, one answer of `gh`, the end of
a session.

| code | actions |
|---|---|
| `cli.cmd_tick` | `BeginTick`, and the `pc` each pass ends in |
| `heartbeat.reap` | `ReapLoad`, `ReapOne` |
| `auto_recover.run` | `RecoverLoad`, `CountRetries`, `Reset`, `Exhausted` |
| `seed_from_roadmap.seed` | `Seed`, `DaemonSeed` (`SeedRow`) |
| `dispatch.dispatch_one` | `PickNextPlanned`, `SkipDispatch`, `ProvisionFails`, `Claim`, `FinishSession` |
| `dispatch.dispatch_loop` | `Slots`, `EventLoopFree` |
| `pr_watcher.watch` | `ListOpenPRs`, `StampLoad`, `StampOne`; `WatchLoad`, `WatchGet`, `GetUnanswered`, `WatchApply` |
| `auto_merge.run` | `MergeLoad`, `SkipMerge`, `MergeGet`, `AlreadyMerged`, `NotACandidate`, `CriticRejects`, `CriticApproves`, `MergeRefused`, `RecordMerge` |
| process death | `CrashTick`, `CrashDaemon` |
| outside | `OpenPR`, of the engine's own branch or of any other with the slug; `HumanMerges`, `HumanCloses`, `HumanReopens`, `OrphanEnds`, `GoStale`, `CoolDown` |

In `Supervisor`, `main` is where `saturate.run` stands, `mem` its `EngineState` and
`EngineHealth` (with two history counters, sessions started after SIGTERM and under
the kill file), `loop` the coroutines of the `dispatch_loop` that is awaited (created,
past the gates, in a session, and whether one has raised), `loose` the sessions of
loops that raised.  `spend` and `carried` are the two parts of
`SUM(cost_usd) ... WHERE updated_at >= midnight`: what sessions recorded today, and
what rows stamped today had cost before.

| code | actions |
|---|---|
| `cli.cmd_saturate` | `CheckPid` |
| `saturate.run` | `WritePid`, `Iterate`, `StopRun`, `FatalError` (`Exit`), guard `MayContinue` |
| `dispatch.dispatch_one` | `Decline`, `Admit`, `ProvisionFails`, `StartSession`, `EndSession`, `LoseOutcome`, `LoseHealthEvent` |
| `dispatch._dispatch_loop_parallel`, `_serial` | `LoopReturns`, `LoopRaises` |
| `engine_health` | `RecordSuccess`, `RecordFailure` |
| `budget`, `saturate._day_spend_exceeds_cap` | `IsHardStopped`, `DaySpendExceedsCap` |
| `cmd_kill`, `cmd_unkill`, the SIGTERM handler | `Kill`, `Unkill`, `Sigterm` |
| process death, other processes, the clock | `Crash`, `Touch`, `Midnight` |

A coroutine past the gates (`gated`) runs to its first await before any other does,
so at most one is there, but signals and files change at any time.  Since `saturate`
passes its concurrency as `max_iterations`, no slot is filled twice in one loop.

In `Escalation`, `log` is the task's events in the order of their ids, each with an
age that stands for its `created_at`.  In `Worktrees`, `git` says from where commits
can be reached: the local branch, the branch on the remote and the default branch, the
copies of these two that the last fetch left (`seen`, `seenMain`), and other branches
(`stray`); `disk` says what the task's directory is, what is uncommitted in it, and what
only its detached HEAD reaches (`head`); `pc`, `todo`, `held`, `branch` and `checked` where
the one upkeep process stands and what it has found out there.  In
`Intake` and `Watchers`, `pass` holds per process the place in its pass and the locals
it has loaded; everything else is a table, a file or the world.

| code | actions |
|---|---|
| `dispatch_one`, `_pick_model`, `get_escalation_override`, the `_count_*` queries | `Escalation`: `Dispatch` (`Start`, `Override`, `PickModel`, `FailuresInRow`) |
| `dispatch_invoke.invoke`, `_maybe_upgrade_to_success`, `_record_outcome` | `Escalation`: `FinishSession` (`Exits`, `Classify`, `MaybeUpgrade`, `OutcomeKind`) |
| `deep_fix.run`, `auto_recover.run` | `Escalation`: `Escalate`, `Exhausted`; `Recover` |
| `ClaudeCriticBackend.review`, `parse_critic_response` | `Escalation`: `Review`, `CriticRejects`, `CriticApproves` |
| `worktree_provision.provision` | `Worktrees`: `Dispatch` (`Provision`), `ProvisionFails` |
| `ship_recovery.run` | `LoadUnshipped`, `SkipShip`, `ShipNoBranch`, `BeginShip`, `ShipCommit`, `ShipCommitFails`, `ShipPush`, `ShipPushFails`, `ShipRaises` |
| `branch_janitor.run` | `ListBranches`, `ListOpenPRs`, `KeepBranch`, `CheckBranch`, `DeleteBranch` |
| sessions and people on the branches | `Edit`, `WorkerCommits`, `WorkerPushes`, `WorkerPulls`, `WorkerDrifts`, `OpenPR`; `OthersPush`, `MergePR`, `ClosePR` |
| `spec_ingest.ingest_to_file`, `ingest_roadmap.ingest` | `Intake`: `IngestSpec` (`RenderRoadmap`), `Ingest` |
| `seed_from_roadmap.seed` | `Intake`: `CountPlanned`, `LoadFronts`, `SeedOne`, `SeedCollides`, `SeedEnds` |
| `auto_observe.scan`, `accept` | `BeginScan`, `LoadSignals`, `EmitProposal`, `ScanEnds`; `CheckProposal`, `RecordAcceptance`, `InjectFront` |
| `deadman.run`, `oauth_watch.check` | `Watchers`: `RunDeadman`, `CheckCredentials`, `Send`, `EmitNotice` |
| `ci_issue_filer.file_failures`, `GhCliClient.list_check_runs` | `LoadDispatchedWithPR`, `InspectPR`, `InspectRollup`, `SkipPR`, `FileFailure`, `FilingEnds` |
| `auto_external.scan`, `GitHubSource.fetch`, `run_dedup` | `BeginScan` (`RunSources`, `Fetch`), `DedupOne` (`Duplicate`), `DedupEnds`, `EmitExternal` |

Abstractions.

* *Time.*  Three clocks matter to a row: heartbeat's grace period, kept as
  `fresh`; auto_recover's cooldown, kept as `failed_at` = NULL, recent or cooled;
  and the session timeout, kept as `FinishSession` with any outcome.  Nothing
  relates the three, so the model allows the code's default values (600 s of
  grace, 1800 s of session) and any others.
* *Gates* (health, budget, policy) are free choices: `SkipDispatch`, `SkipMerge`.
  So is the critic's verdict, and the classification of a session.
* *Seeding* is one step per pass and inserts one item or none; the code inserts
  several, each in a transaction of its own.  Seeding several is several
  passes here.
* *Events* are kept only where code reads them back, as `attempts`.
* *Order.*  A pass visits its snapshot in any order; the code's order
  (`ORDER BY`) is one of them.  `PickNextPlanned` keeps the order, by task number:
  it decides which task starves.
* *Escalation* and the model, prompt and cost of a session are left out of `Engine`.
* *Work* in `Worktrees` is the number of the attempt that did it: which files
  it touches is left out, so commits never conflict.  An attempt writes its work once (a
  bound), and what other people push to the branch is one unit of work, `Others`.
  Sessions neither force a push nor come back to the task's branch after they have
  checked out another one.
* *Names.*  A repository, a check or a signal stands for its own text, a roadmap item is
  its number; the identifiers of two tasks have different slugs.  Whether `dedup_semantic`
  finds a candidate's words close to those of an active front or a recent task is a
  free choice for each candidate (`DuplicateInWords`).
* *Sources.*  `auto_external.scan._run_sources` is a stub that returns nothing at this commit
  and names `GitHubSource.fetch` as what replaces it.  The constant `Wired` says which of the
  two is in force; with `FALSE` no scan has a candidate.
* *Clocks* of `Watchers`: one unit per behaviour, minutes for deadman, hours for
  oauth_watch, days for auto_external; the passes never read each other's events, so a
  behaviour has one kind of job.

## 3. Runs

| run | instance | checks | states |
|---|---|---|---|
| `engine_tick` | one real-claude tick; 2 tasks, 1 PR, 1 retry, 2 faults; fairness | `TypeOK`, `SnapshotsAgree`, `SessionOwnsRow`, `PlannedRowsAreClean`, `WatcherOwnsPRRows`, refinement `LifecycleSpec`, `LandedPRIsRecorded`, `UnshippedRowsAreReleased`, `FailedPRIsRetried` | 226 k |
| `engine_daemon` | two slots; 3 tasks, 1 PR, 2 faults | `AtMostOneSession`, `LifecycleSpec` | 96 k |
| `engine_shared` | two real-claude ticks, symmetric; 1 task, 2 PRs, 1 retry | `MergedMeansLanded`, `RetriesBounded` | 5.1 M |
| `supervisor` | one daemon; 3 slots, threshold 2, caps 3 and 2, cost 0 or 1, 1 carried, 2 faults; fairness | `TypeOK`, `CapsHold`, `FailureStreakBounded`, `LateSessionsBounded`, `StopsWhenTold` | 102 k |
| `escalation` | one task, 5 sessions, 2 PRs; threshold 2, 2 recipes, 1 retry, 2 models; fairness | `TypeOK`, `SessionsArePaidFor`, `HumanIsLastResort`, `DeadPRMeansEscalated`, `StuckTaskIsEscalated` | 573 k |
| `worktrees` | one task, 2 sessions, 1 PR, 1 fault; fairness | `TypeOK`, `WorkIsKept`, `ReleasedUnlessShippingFails` | 1.4 M |
| `intake` | 2 processes, 2 roadmap items, 1 signal, target and batch 1, 3 proposals, 1 crash; fairness | `TypeOK`, `QueueOvershootBounded`, `SeededMeansTask`, `PendingProposalsBounded`, `AcceptedProposalIsInjected`, `FrontsReachTheQueue` | 1.9 M |
| `watchers` | 2 processes of one kind out of 4, 2 tasks, 1 check, 2 sources, 2 repositories, sources wired, 1 fault; fairness | `TypeOK`, `RepeatsAreBounded`, `TroubleKeepsBeingAnnounced`, `FailingCheckIsFiled` | 417 k |
| `inflight_dropped` | one daemon; 2 slots, 1 fault | a statement of `saturate.py` | violated |
| `decompose_first` | one task, 4 sessions, 3 recipes, the code's decompose-first threshold of 3 | a statement of `dispatch.py` | violated |
| `claim_race`, `stalled_row` | smallest instance with a counterexample | one statement of the sources each | violated |

What they show.

* **One process at a time is safe.**  Under a single tick the missing `WHERE`
  clauses do no harm: what a pass has loaded still holds when it writes
  (`SnapshotsAgree`), a session's outcome overwrites nothing (`SessionOwnsRow`), and
  the whole engine, crashes and GitHub users included, implements the small state
  machine of `TaskLifecycle`: merged is final and has landed, every retry is
  counted and there are at most `MaxRetries` of them.
* **The daemon's slots are safe too**, for a reason worth keeping: nothing between
  the SELECT of a planned row and its claim gives way to another coroutine
  (`EventLoopFree`).  The mutant that drops this breaks both properties.
* **Several processes** still never record a merge that did not land, whatever they
  have in memory, and exceed the retry budget by no more than one reset for each
  further tick (`RetriesBounded`).
* **Nothing gets stuck** under one tick that runs again and again, except the rows
  of `stalled_row` below and rows that are not recoverable by design
  (`failed`, `timeout`).  A PR that has landed is recorded as merged
  (`LandedPRIsRecorded`), unless a critic's review or an observation of the PR had begun
  before the merge: then the row can end as rejected (section 4).
* **The daemon can be stopped and cannot run away**, within bounds that the code does
  not state.  A cap is checked before a session and its cost known after it, so the
  day's recorded cost passes the cap by what the sessions in flight can cost; three
  slots give up to three sessions too many, and every loop that raised leaves up to
  two more behind (`CapsHold`, `FailureStreakBounded`).  After SIGTERM one session
  can still start, after `oxi v3 kill` one per slot (`LateSessionsBounded`), since
  only the main loop looks at the kill file.  Told to stop, it ends (`StopsWhenTold`),
  unless the kill file is removed before the loop has looked.
* **Retries end.**  However the three budgets over a row mix, each session after the
  first is paid for by a counted reset, a counted escalation or a transient failure
  (`SessionsArePaidFor`; transient failures are bounded by nothing in the code).  A
  task past the threshold is escalated or a person is called, once, after every
  recipe (`StuckTaskIsEscalated`, `HumanIsLastResort`).  An escalated row keeps the PR
  of its failed attempt, and only an escalated row does (`DeadPRMeansEscalated`).
  The decompose-first prompt is never used, whatever the thresholds are (section 4, run
  `decompose_first`, theorem `DecomposeFirstCorrect`): a failed session leaves its row
  `failed` with a reason that auto_recover passes over, so only deep_fix plans it again, and
  from then on its recipe is in force.
* **Work survives**, with two exceptions.  Nothing that a session wrote disappears,
  whatever provision, ship_recovery, the janitor and a second session do between each
  other's git calls (`WorkIsKept`), but for a worktree that was left on another branch or on
  none: `provision` discards its uncommitted files, as it says, and with them the commits
  that only its detached HEAD reached.  The janitor may delete a remote branch with a
  session's commit on it, since the local one has it; what *other people* pushed after
  the janitor's fetch is deleted with the branch.
* **A row without a PR is released unless shipping fails on it for ever**
  (`ReleasedUnlessShippingFails`).  Each refused commit, rejected push and detached worktree is
  stamped as progress, so a hook that always refuses keeps its row from heartbeat; a
  shipment that succeeds, or a PR that nobody saw, does not.
* **The queue's door holds.**  The queue exceeds its target by the rows that were started
  and came back, which nobody counts, and by one batch for each further process
  (`QueueOvershootBounded`); a kill can lose the front of one accepted proposal and nothing
  else does; every front becomes a task as long as passes find room in the queue again and
  again.  Whether there is room is up to dispatch: a task at the head of the queue that
  cannot be provisioned keeps it full, and no front is seeded any more.
* **Nothing is said too often and nothing that lasts stays unsaid.**  Overlapping
  watchers repeat themselves at most once per process and kill
  (`RepeatsAreBounded`), and the rate limit only delays (`TroubleKeepsBeingAnnounced`).

Bounds.  The properties speak of one row and its PRs, or of one row and two
processes.  Two tasks let a pass interleave the visit of one row with events of
another; three let both slots hold a task while one is queued.  `engine_shared` has two
PRs, so that one of a former attempt or of somebody's branch and one of the present
attempt meet; `engine_tick` has one, since a row under one tick watches one at a time, and
leaves more to the theorems.  `MaxRetries = 1` reaches both the retry and its exhaustion.  `MaxFaults` is a bound
of the model only: it caps crashes, failed provisions and unanswered reads.
`engine_shared` has no faults and one task because two whole ticks at every
interleaving are the expensive part; the two are alike, so that they may change places
(`LikeTicks`), and a daemon beside them is left to `MergeCorrect` and `RetriesCorrect`; `engine_daemon` runs with
`CHECK_DEADLOCK FALSE` because a daemon whose tasks are all at rest has nothing
to do until a tick revives one.
In `supervisor` three slots are the fewest where a loop that raised leaves *two*
sessions behind and a batch of three fails past a threshold of two; the caps differ so
that each is the one that closes first in some behaviours; `MaxCarried` and
`MaxFaults` are bounds of the model only.  Two daemons multiply the states by
themselves and meet only in the PID file and the cost, so several are left to the
theorems, `OneDaemon` and `CapsCorrect`.
`escalation` has five sessions because one retry, two escalations and a transient
failure are four more than the first, so that every budget is used up and every
mix of them occurs; the recipes, at two, let an escalation meet the override of an
earlier one.  `worktrees` has a second session, started while the first one still
runs, since that is what attempts do to one another; the upkeep process is
one because an operator's caller runs those passes in sequence; `MaxFaults` is a bound of
the model and caps fetches, provisions and answers of `gh` that fail.  Commits and pushes
of ship_recovery fail as often as they like: a hook that refuses refuses every time.  In `intake` two processes are enough
for each of the races and target and batch of one make the overshoot visible;
`Flaky` is empty, since per-task signals differ from the global one only in their
key.  In `watchers` the thresholds and windows are the smallest that keep two levels
apart and let a notice leave its window while the trouble lasts; two tasks share a
check's name, two repositories are in one scan.  `decompose_first` has as many recipes as
the decompose-first threshold asks for failures, so that deep_fix does not run out first.  `escalation`, `worktrees` and
`intake` run with `CHECK_DEADLOCK FALSE`: when the sessions and proposals that the
bounds allow are used up and the roadmap is worked off, there is nothing left to do.

Fairness (`engine_tick` and `stalled_row`).  Weak fairness of each tick's
next step: the tick is run again and again, by cron or `--times`, and sessions end
because `invoke` kills a session after its wall-clock limit.  Weak
fairness of `GoStale` and `CoolDown`: time passes.  No fairness of GitHub users, of
workers opening PRs, or of crashes; a PR may stay open forever, and then its row
stays dispatched forever, which is what pr_watcher intends.

Fairness (`supervisor`).  Weak fairness of a running daemon's own steps: the event
loop runs whatever coroutine is ready, its sleeps and its sessions (`invoke`'s
wall-clock limit) are of bounded length.  None of starts, signals, operators,
crashes, and none that picks among the steps.

Fairness (`escalation`, `worktrees`, `intake`, `watchers`).  Weak fairness of what an
engine that keeps running does next: a pass that has begun goes on, a session ends
at its wall-clock limit at the latest, cron starts each pass again and again, time passes.
In `intake` it is only that a pass which has begun goes on.
Strong fairness of two steps of `worktrees` that are tried again and again but cannot always
be taken: `Reap` and `LoadUnshipped` need the one upkeep process to be idle, which is the
schedule itself, since the passes take turns.  Nothing is assumed of dispatch in `intake`: it
picks by tier and identifier, and a first task that cannot be provisioned blocks the
others for ever; `FrontsReachTheQueue` has the room in the queue as its premise instead.
None of operators, GitHub users, workers, kills or failing calls.

## 4. Where the sources say something else

* `claim_race`.  `dispatch.py:659` says that the claim is atomic in SQLite and that
  concurrent calls never race onto one task.  The claim's UPDATE has the right
  WHERE clause but its row count is not looked at (`dispatch.py:582`), so the
  loser of the race starts a second session on the same row and branch.  Only the
  event loop prevents this inside one daemon; `running-dispatch.md` shows a daemon
  and a `tick --real-claude` side by side.
* `stalled_row`.  `auto_recover.py:47` lists `stale_no_progress` among what it
  recovers, but heartbeat does not stamp `failed_at`, and rows without it are
  never selected.
* `inflight_dropped`.  `saturate.py:19`: "In-flight workers are never killed - saturate
  waits for them before writing the PID-file tombstone and exiting."  When one slot
  raises (a `WorktreeError` is enough), the loop is left with the other slots still
  running, and nothing waits for those any more: an exit cancels their coroutines and
  their outcomes, costs included, are never recorded.
* `decompose_first`.  `dispatch.py:76`: "Number of consecutive terminal failures before
  decompose-first mode kicks in", which `test_repeat_failure_escalation.py:277` repeats ("a
  task with 3 prior dispatch_failed events gets decompose-first treatment").  The prompt is
  for tasks without an override (`dispatch.py:511-515`), and a task whose sessions failed is
  planned again by deep_fix alone, which gives it one for good; the test writes
  `status = 'planned'` by hand (line 295).

Smaller disagreements that have no run of their own.

* *Tick and daemon.*  `running-dispatch.md:162`: "The engine will not dispatch new
  sessions while the killswitch is set" (up to one per slot, see
  `LateSessionsBounded`).  `running-dispatch.md:204`: after `unkill`, "saturate detects
  the cleared killswitch on the next iteration and resumes" (it has exited).
  `budget.py:25`: a hard stop holds "even if the window rolls" (the event is looked up
  for the current day only).  A `SIGTERM` during the dispatch loop ends the run with
  `stop_reason` "unknown".  `cmd_heal` prints "Dispatch will resume on next tick", which
  does not reach the memory of a running daemon; `engine_health.py:20` says that
  `unkill` heals, too, and it does not.
* *PRs.*  `auto_merge.py:19` and `:221`: "a MERGED PR is never rejected", but the PR is read
  before the critic's review, a person can merge it during the review, and what the critic
  then rejects has landed and is recorded as `failed`: `LandedPRIsRecorded` has to leave out
  a review begun before the merge (`HeldBeforeMerge`).  `pr_watcher.py:33` expects the engine's
  own branch names, but its pattern takes any prefix and any session tag before the task's
  slug (`pr_watcher.py:59`, `258-268`), so a person's branch that carries the slug is stamped
  and decides the task.  `dispatch.py:421`: "never abandon a task with an open PR", but
  heartbeat knows a PR only by `pr_number`, which pr_watcher stamps later.  The critic is
  shown an empty diff (`auto_merge.py:243`), and what it rejects because its own session
  failed is not left to auto_merge's next pass, as `critic.py:142` says: the row is `failed`
  with the reason `critic_rejected`, and auto_recover plans it for a session of its own.
* *Retries.*  `deep_fix.py:15`: below the threshold "`dispatch` will retry it on the next
  tick", but nothing dispatches a failed row.  `get_escalation_override` is said to be
  for the next dispatch and holds for all later ones.
* *Work.*  `ship_recovery.py:16` says that it opens a PR (nothing does), and
  `ship_recovery.py:176` that no state beyond the event is mutated and that heartbeat takes
  over: it stamps `last_progress_at` with each failure (`ship_recovery.py:157`), so a row with
  a detached worktree, a hook that refuses its commit or a remote that rejects its push is
  stamped in every pass and never reaped.  `worktree_provision.py:297` removes a drifted
  worktree by force, and with a detached one the commits that ship_recovery or a session
  made there.  `branch_janitor.py:204` claims that a squash-merged branch becomes reachable
  from the default branch (it does not); rule 2(a) of its docstring is not implemented;
  and "a human who happens to push ... keeps their work" (`branch_janitor.py:14`) does not
  hold of what was pushed since the janitor's fetch, which is deleted with the branch.
  `_branch_has_commits_ahead` counts the symmetric difference (three dots), so a branch
  that is only behind counts as ahead.
* *Intake.*  `spec_ingest.py` says that an existing roadmap keeps its items and their
  identifiers; with `force` the numbers are passed over and the file is replaced by the
  new items alone.  `seed` ignores a front's `active`, and its cooldown never decides,
  since an identifier in the task table is passed over first.  A recurring signal gets
  the same synthetic identifier: accepting it a second time injects nothing.
  "In the recent window" (`auto_observe.py:41`): proposals of any age are considered.
* *Watchers.*  `dedup.py:11`: a "stable monotonic proposal counter" is read from the
  payload field `counter` and written as `_proposal_counter`, so it starts at 1 in every
  scan.  Two equal candidates of one batch both survive dedup.  A scan killed half way
  through its proposals is not resumed that day, and one that proposes nothing does
  not count as run.  `GhCliSourceClient` takes an error for an empty list, so
  `AUTO_IMPROVE_SOURCE_FAILED` is hardly ever written.  `_star_velocity` divides by the
  days since the last push.  `ci_issue_filer.py:36`: "Never operates on tasks in
  terminal states", but the row may have become terminal since it was loaded;
  `ci_issue_filer.py:185`: failures to fetch "do not raise", but `get_pr`'s do; the
  roll-up fallback files a failure a second time under the name "ci"; a check filed
  for one PR is not filed for the PR of the retry.  oauth_watch limits notices per
  status and not per token.
* *Not wired.*  No command runs deep_fix, ship_recovery, branch_janitor, deadman,
  oauth_watch, ci_issue_filer, auto_external, pr_overlap, the pool or the routing,
  although `src/README.md:94` counts ship_recovery and deadman among what every tick does.
  The models assume a caller of an operator's own.

## 5. Theorems

Every safety invariant and every safety action property of the passing runs is a theorem
here, for every value of the constants that the modules' assumptions allow: any tasks,
PRs, processes, thresholds and bounds.  The assumptions are named in the module that
declares the constants (`EngineConstants`, `SupervisorConstants`, `IntakeConstants`,
`WorktreeConstants`, `EscalationConstants`, `WatcherConstants`): numbers are naturals,
processes are finitely many, NULL is none of the values it stands beside.  TLC
checked each inductive invariant below on small instances before it was proved.

**`Engine`, any mix of ticks and daemon slots.**

* `EngineProofs!TypeCorrect`: `Spec => []TypeOK`.  Besides types, `TypeOK` says that a
  process holds what its place asks for: a task where it is about to write a row, a
  PR number where it is about to write a PR's fate.  One lemma per kind of step.
* `MergeProofs!MergeCorrect`: `Spec => []MergedMeansLanded`, with any mix of processes,
  hence also with the races of section 4.  `MergedMeansLanded` alone is not
  inductive: `RecordMerge` and `WatchApply` write `merged` on the strength of what a
  process remembers.  The strengthening `MergeInv` adds what every memory says of
  GitHub (`Knows`): a PR in a snapshot is of a branch with the row's slug, whoever opened it,
  and a remembered merge did happen.  Memories stay true because PRs never change their branch and
  a merge is never undone (`PRStep`, `PRsProgress`), so another process's step cannot
  spoil them (`KnowsStable`, `OthersKeep`).
* `LifecycleProofs!RetriesCorrect`: `RetriesBounded` for any number of ticks.  The bound
  alone is not inductive; `RetriesInv` counts next to the resets made those that ticks
  have already been granted (`Resetting`): a tick is granted one only while the
  budget lasts, and it may be the last of several.

**`Engine`, one engine on the database** (`LifecycleProofs`).  Each of these fails with two
processes (section 4), so they assume what they are about: `OneTick`, a single tick
process and no slot; `DaemonAlone`, no tick and any number of slots; `OneEngine`, either.

* `SnapshotsCorrect`, `SessionCorrect`, `PlannedRowsCorrect`, `WatcherCorrect` (`OneTick`).
  `TickInv` says of a pass that what it has loaded of its rows still holds (`Agrees`):
  of the rows it has not visited, of the one it holds, and that it visits none twice
  (`VisitedOnce`), since the first visit is what makes the snapshot stale.  It needs
  `MergeInv` and planned rows without a PR.  A task may have several open PRs; that the
  stamping pass visits a row once is due to `ListOpenPRs`, whose dict keeps one PR a task.
* `SessionsCorrect` (`DaemonAlone`): `AtMostOneSession`.  `DaemonInv` adds the reason: one
  slot at a time is between the SELECT and the claim, and the row it picked is still planned
  (`ClaimIsExclusive`); whatever has a session is dispatched, sessions of a daemon that
  crashed included.
* `LifecycleCorrect` (`OneEngine`): `Spec => LifecycleSpec`.  Each step of `Engine` is mapped
  to a step of `TaskLifecycle` or to a stutter, statement by statement
  (`RowOperatorsEffect`); what the mapping needs of either engine is `LifecycleInv`, which
  `TickInv` and `DaemonInv` each imply.

**`Supervisor`, any number of daemons, slots, failures and faults.**

* `SupervisorTypeCorrect`, `FailureStreaksEnd`, `LateSessionsEnd`: `TypeOK`,
  `FailureStreakBounded` and `LateSessionsBounded` are invariants.  None is
  inductive alone.  `DaemonInv` adds where the slots are (`SlotsInv`: a loop
  holds at most `Concurrency` coroutines, one less once one has raised, and every
  session left behind is paid for by a fault), what of them may still fail once the
  threshold is reached (`HealthInv`), and how many may still start (`LateInv`).
  One step per action of a daemon; a frame lemma for the other daemons.
* `OneDaemon`: `Spec => []OneDaemonUnlessRaced`.  Without a race the PID
  file names the daemon that runs, and no two are past the check (`PidInv`).
* `CapsCorrect`: `Spec => []CapsHold`, for any number of daemons that share the database.
  `CapInv` counts what all of them owe: a day past its cap has spent less than the cap plus
  what the sessions that are no longer pending can have cost.  Every action either adds to
  nothing, or is `Iterate`, which no closed cap lets happen, or ends a session
  (`PendingSteps`).  Sums over the daemons are cardinalities of sets of tokens
  (`TotalMoves`, `TotalMonotone`), for which no induction is needed; `ReserveInv` bounds
  them, since only faults add to what the daemons can have pending in all.

**`Escalation`.**  `EscalationInv` is one invariant for all five theorems:
`EscalationTypeCorrect`, `SessionsPaidCorrect`, `LastResortCorrect`, `DeadPRCorrect`,
`DecomposeFirstCorrect`.

* `PaidInAdvance`: the event that plans a row again is written before its next session
  starts, so a planned row counts as a session already.
* `PRIsInherited`: a planned or running row that carries a PR was planned last by an
  escalation; auto_recover's reset clears it, and a closed PR stays the row's only then.
* `FailureStays`: as long as nothing was escalated, a session that failed leaves its row
  failed for the reason `failed`, which auto_recover passes over.  This is why
  `DecomposeFirstCorrect` holds at any thresholds: the decompose-first branch is dead.

**`Worktrees`.**  `WorktreeTypeCorrect`.

* `WorkKept`: the action property `WorkIsKept`, with its two exceptions, action by action.  It
  rests on `BranchesCorrect`.
* `BranchesCorrect`: `Spec => [](BranchesNested /\ CheckedHasLanded)`, both defined with their
  proof.  Whatever sessions and people push, pull, merge and delete, a *session's* commits
  that are on the remote or have landed are on the task's local branch too, and what the
  janitor's check of a branch covered has landed, whoever pushed it.  So a deletion can
  only take what was pushed by others since the fetch.  The copy of the default branch
  matters here: `seenMain` holds no more than has landed.

**`Intake`, any number of processes.**

* `IntakeTypeCorrect`; `SeededCorrect`, inductive with the types.
* `OvershootCorrect`: `QueueInv` counts the planned rows that were never started and what the
  passes in flight may still insert (`OpenSlots`), as pairs of a process and one of its slots.  A pass opens
  slots only when it finds the queue below its target, at most a batch of them.
* `PendingCorrect`: `PendingInv` counts for each signal its pending copies and the scans that
  have not seen them and may still emit one (`Blind`).
* `InjectionCorrect`: `LostInv`: a proposal that is accepted and lacks its front, and is in no
  process's hands, was lost by a kill.

**`Watchers`, any number of processes.**  `WatcherInv` serves `WatcherTypeCorrect` and
`RepeatsCorrect`.

* For each notice, failing check and repository, the records within the window and the
  processes that have one more in hand are together at most as many as there are
  processes (`NoticesCounted`, `FailuresCounted`, `ProposalsCounted`): a process takes
  something in hand only when it finds nothing recorded.
* Deliveries run ahead of their records by no more than the faults and the processes about
  to record one: counted from the oldest, all but the newest few are matched by a record
  that is no older (`DeliveriesRecorded`, by `Lag`), so that the window that withholds a
  notice also bounds what was said.  Ages are sorted (`AgesOK`), hence what leaves a
  window is a suffix (`OlderPrefix`).
* The ledger's sequences are bounded by these counts, so that even `TypeOK` is a theorem
  about the passes and no mere matter of types.

**Only model-checked**, and why: the liveness properties, since fairness and ENABLED are out
of this prover's reach (`LandedPRIsRecorded`, `UnshippedRowsAreReleased`, `FailedPRIsRetried`,
`StopsWhenTold`, `StuckTaskIsEscalated`, `ReleasedUnlessShippingFails`, `FrontsReachTheQueue`,
`TroubleKeepsBeingAnnounced`, `FailingCheckIsFiled`), and the statements of the sources
that do not hold.

## 6. Mutants

For each property of a passing run `PROJECT.json` names a change of one modelled
definition, such as a plausible slip of the code would be (a dropped WHERE clause, a
forgotten reset, an `await` too many), under which TLC finds that property violated.
The mutated forms stand next to the definitions and are marked `Mutant` or `A plausible
slip`.

## 7. Plan

1. `TaskRow`, `Engine`, `TaskLifecycle`: tasks, passes, sessions, PRs.  *Done.*
2. `Supervisor`: `saturate`, its gates and its stop conditions.  *Done.*
3. `Escalation`, `Worktrees`: `deep_fix`, the critic, `ship_recovery`, provisioning and
   the janitor over `TaskRow`, beside heartbeat, pr_watcher and auto_recover.  *Done.*
4. `Intake`: spec, roadmap, fronts, seeding, proposals and acceptance.  *Done.*
5. `Watchers`: the cron passes that read the ledger and write to it.  *Done.*
6. Theorems: type correctness, every safety invariant and safety action property of the
   runs, and the refinement to `TaskLifecycle` (section 5).  *Done.*
7. More theorems: what several processes on one database still guarantee beyond
   `MergeCorrect` and `RetriesCorrect` (which statuses an outdated UPDATE can
   overwrite, and which it never can); the ladder of models in
   `Escalation`; a bound on the number of sessions in terms of the budgets and the
   transient failures; that the steps on which `Supervisor` and `Engine` both have a say
   agree.

## 8. Not modelled

* Git itself, the file system and GitHub: external, modelled by what the engine's calls
  do to branches, directories and PRs.  The language models behind sessions and critic:
  how they exit and what they answer are free choices.
* Reports, dashboards, brief, `status_json`, `query_helpers`, `handoff`, `tail_dispatch`:
  read only, or written for people; nothing in the engine reads them back.
* `dispatch_pool`, `routing`, `ranking`, `pr_overlap`, `compute_probe`, `cto_verdict`, the
  `agentic` and `inference` backends: nothing in the engine calls them at this commit.
  They are functions of their arguments, or counters of a caller that does not
  exist yet, so there is no use of theirs to be faithful to.
* Setup wizard, adapters, prompts, skills: no lasting state of their own, no concurrency.
  So, too, `worktree_provision.reap` and `planner.plan`, which nothing calls.
* In `Supervisor`, the ledger events: the sticky hard stop of `budget.check` adds nothing
  to the sum it was raised by, which only grows within a day; `oxi v3 heal` and
  `clear_today` change the ledger and not a running daemon.  `CapsHold` speaks of
  recorded cost: what an unfinished or dropped session spent is not in any sum of the
  code either.
* In `Watchers`, the freshness stamp that ci_issue_filer gives a row (nothing there reads
  it; `Engine` would see it as one more stamp), the proposal counter, and the ranking and
  judge stages of auto_external, which are stubs that pass everything on.  Its source
  stage is a stub that returns nothing; `Wired` chooses between it and the
  `GitHubSource.fetch` that its docstring announces.
* In `Intake`, weights and `active` of fronts (the seed ignores both), titles, and roadmaps
  or specs that do not parse.
