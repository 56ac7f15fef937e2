-------------------------------- MODULE Engine --------------------------------
(***************************************************************************)
(* The OS processes that share one oxi database, the worker sessions they  *)
(* start, and the pull requests those sessions open.                       *)
(*                                                                         *)
(* A tick process (`oxi v3 tick`, cli.py) runs, one after the other,       *)
(*                                                                         *)
(*   heartbeat -> auto_recover -> seed                                     *)
(*       [ -> dispatch_one -> pr_watcher -> auto_merge ]  (--real-claude)  *)
(*                                                                         *)
(* The daemon (`oxi v3 saturate`) runs dispatch_one in parallel slots of   *)
(* one asyncio event loop and none of the other passes.                    *)
(*                                                                         *)
(* A step is one SQLite transaction or SELECT, one answer of GitHub, or    *)
(* the end of one worker session: what other processes, GitHub users and   *)
(* the clock can come between.  A pass loads its rows once and then works  *)
(* through that snapshot (`todo`, `held`).                                 *)
(***************************************************************************)
EXTENDS Naturals, FiniteSets, TaskRow

CONSTANTS
  Tasks,        \* roadmap items, numbered in (tier, identifier) order
  Ticks,        \* tick processes
  RealClaude,   \* the ticks that were started with --real-claude
  Slots,        \* the daemon's parallel dispatch slots
  SeedTarget,   \* seed_from_roadmap's target_planned_count
  MaxRetries,   \* auto_recover's max_retries
  MaxFaults     \* bound: crashes, failed provisions and unanswered PR reads

ASSUME EngineConstants ==
  /\ Tasks \subseteq Nat
  /\ PRNumbers \subseteq Nat
  /\ IsFiniteSet(Ticks)
  /\ RealClaude \subseteq Ticks
  /\ Ticks \cap Slots = {}
  /\ SeedTarget \in Nat
  /\ MaxRetries \in Nat
  /\ MaxFaults \in Nat
  /\ NULL \notin Tasks

Procs == Ticks \cup Slots

VARIABLES
  row,      \* the task table
  attempts, \* how many auto_recover_attempted events each task has
  pr,       \* pull requests on GitHub
  pc,       \* where each process stands
  todo,     \* the rows its current pass has loaded and not yet visited
  held,     \* the row it is working on, and what it has read about it
  orphans,  \* tasks whose session outlived the process that started it
  faults    \* faults so far

vars == <<row, attempts, pr, pc, todo, held, orphans, faults>>
local == <<pc, todo, held>>
external == <<pr, orphans, faults>>

-----------------------------------------------------------------------------

PRStates == {"none", "open", "merged", "closed"}

\* A branch is named <prefix><tag>-<slug>.  A PR is known by the task whose slug
\* its branch carries, and by whether the branch is the one the engine gave that
\* task (its session tag) or another one.
PRs == [task : Tasks \cup {NULL}, own : BOOLEAN, state : PRStates]

Items == [task : Tasks, pr : PRNumbers \cup {NULL}]
Holds == [task : Tasks \cup {NULL}, pr : PRNumbers \cup {NULL},
          seen : PRStates, retries : Nat]
NoHold == [task |-> NULL, pr |-> NULL, seen |-> "none", retries |-> 0]

Places == {"idle", "reap", "reaping", "recover", "recovering", "resetting", "seed",
           "dispatch", "provision", "session", "stamp", "listed", "stamping", "watch",
           "watching", "observed", "merge", "merging", "reviewing", "approved"}

\* Where a process holds a row, and where its snapshot names a PR for each row.
HoldingPlaces == {"resetting", "provision", "session", "observed", "reviewing", "approved"}
PRPlaces == {"listed", "stamping", "watching", "observed", "merging", "reviewing", "approved"}

TableOK ==
  /\ row \in [Tasks -> Rows]
  /\ attempts \in [Tasks -> Nat]

GitHubOK ==
  /\ pr \in [PRNumbers -> PRs]
  /\ orphans \subseteq Tasks
  /\ faults \in 0..MaxFaults

LocalOK ==
  /\ pc \in [Procs -> Places]
  /\ todo \in [Procs -> SUBSET Items]
  /\ held \in [Procs -> Holds]
  /\ \A p \in Procs :
       /\ pc[p] \in HoldingPlaces => held[p].task \in Tasks
       /\ pc[p] \in PRPlaces => \A i \in todo[p] : i.pr \in PRNumbers
       /\ pc[p] \in {"observed", "reviewing", "approved"} => held[p].pr \in PRNumbers

\* Everything has its type, and a process holds what its place asks for.
TypeOK == TableOK /\ GitHubOK /\ LocalOK

Init ==
  /\ row = [t \in Tasks |-> NoRow]
  /\ attempts = [t \in Tasks |-> 0]
  /\ pr = [n \in PRNumbers |-> [task |-> NULL, own |-> FALSE, state |-> "none"]]
  /\ pc = [p \in Procs |-> "idle"]
  /\ todo = [p \in Procs |-> {}]
  /\ held = [p \in Procs |-> NoHold]
  /\ orphans = {}
  /\ faults = 0

-----------------------------------------------------------------------------

WithStatus(s) == {t \in Tasks : row[t].status = s}
OpenPRs(t) == {n \in PRNumbers : pr[n].task = t /\ pr[n].state = "open"}
OpenOnOwnBranch(t) == {n \in OpenPRs(t) : pr[n].own}
Landed(t) == \E n \in PRNumbers : pr[n].task = t /\ pr[n].state = "merged"

At(p, place) == pc[p] = place
Goto(p, place) == pc' = [pc EXCEPT ![p] = place]
Update(t, r) == row' = [row EXCEPT ![t] = r]

\* A pass begins: it loads the rows S and works through them, in any order.
Load(p, place, next, S) ==
  /\ At(p, place)
  /\ Goto(p, next)
  /\ todo' = [todo EXCEPT ![p] = S]
  /\ UNCHANGED <<row, attempts, held, external>>

\* A pass that has visited every row it loaded ends.
EndPass(p, place, next) ==
  /\ At(p, place)
  /\ todo[p] = {}
  /\ Goto(p, next)
  /\ UNCHANGED <<row, attempts, todo, held, external>>

\* The pass turns to item i and remembers what it has just read about it.
Take(p, place, next, i, seen, retries) ==
  /\ At(p, place)
  /\ todo' = [todo EXCEPT ![p] = @ \ {i}]
  /\ held' = [held EXCEPT ![p] = [task |-> i.task, pr |-> i.pr,
                                  seen |-> seen, retries |-> retries]]
  /\ Goto(p, next)
  /\ UNCHANGED <<row, attempts, external>>

\* The pass is done with the row it held.
Release(p, next) ==
  /\ Goto(p, next)
  /\ held' = [held EXCEPT ![p] = NoHold]

-----------------------------------------------------------------------------
(* cli.cmd_tick *)

BeginTick(p) ==
  /\ At(p, "idle")
  /\ Goto(p, "reap")
  /\ UNCHANGED <<row, attempts, todo, held, external>>

(* heartbeat.reap *)

ReapLoad(p) ==
  Load(p, "reap", "reaping",
       {[task |-> t, pr |-> NULL] : t \in {u \in Tasks : Reapable(row[u])}})

ReapOne(p) ==
  /\ At(p, "reaping")
  /\ \E i \in todo[p] :
       /\ Update(i.task, Abandon(row[i.task]))
       /\ todo' = [todo EXCEPT ![p] = @ \ {i}]
  /\ UNCHANGED <<attempts, pc, held, external>>

(* auto_recover.run *)

RecoverLoad(p) ==
  Load(p, "recover", "recovering",
       {[task |-> t, pr |-> NULL] : t \in {u \in Tasks : RecoveryDue(row[u])}})

\* SELECT COUNT(*) of the auto_recover_attempted events of the row.
CountRetries(p) ==
  \E i \in todo[p] : Take(p, "recovering", "resetting", i, "none", attempts[i.task])

\* Mutant: the attempt is not recorded.
ResetUncounted(p) ==
  LET t == held[p].task IN
  /\ At(p, "resetting")
  /\ held[p].retries < MaxRetries
  /\ Update(t, ResetToPlanned(row[t]))
  /\ Release(p, "recovering")
  /\ UNCHANGED <<attempts, todo, external>>

\* Mutant: off by one in the retry budget.
ResetOnceMore(p) ==
  LET t == held[p].task IN
  /\ At(p, "resetting")
  /\ held[p].retries <= MaxRetries
  /\ Update(t, ResetToPlanned(row[t]))
  /\ attempts' = [attempts EXCEPT ![t] = @ + 1]
  /\ Release(p, "recovering")
  /\ UNCHANGED <<todo, external>>

\* Back to planned; the event that counts as an attempt is written even if
\* the UPDATE matched nothing.
Reset(p) ==
  LET t == held[p].task IN
  /\ At(p, "resetting")
  /\ held[p].retries < MaxRetries
  /\ Update(t, ResetToPlanned(row[t]))
  /\ attempts' = [attempts EXCEPT ![t] = @ + 1]
  /\ Release(p, "recovering")
  /\ UNCHANGED <<todo, external>>

\* auto_recover_exhausted: the row is only stamped.
Exhausted(p) ==
  LET t == held[p].task IN
  /\ At(p, "resetting")
  /\ held[p].retries >= MaxRetries
  /\ Update(t, StampProgress(row[t]))
  /\ Release(p, "recovering")
  /\ UNCHANGED <<attempts, todo, external>>

(* seed_from_roadmap.seed, one item a pass *)

\* Nothing is seeded when the queue is full, when no item is past its cooldown,
\* or when another process has just seeded the same item.
SeedRow ==
  \/ UNCHANGED row
  \/ /\ Cardinality(WithStatus("planned")) < SeedTarget
     /\ \E t \in WithStatus("absent") : Update(t, SeedOne(row[t]))

Seed(p) ==
  /\ At(p, "seed")
  /\ SeedRow
  /\ Goto(p, IF p \in RealClaude THEN "dispatch" ELSE "idle")
  /\ UNCHANGED <<attempts, todo, held, external>>

-----------------------------------------------------------------------------
(* dispatch.dispatch_one, by a tick or by a slot of the daemon *)

AfterDispatch(p) == IF p \in Slots THEN "idle" ELSE "stamp"

\* Mutant: an await between the pick and the claim.
EventLoopAlwaysFree(p) == TRUE

\* Picking, provisioning and claiming have no await between them: within the
\* daemon's event loop no other slot runs meanwhile.
EventLoopFree(p) ==
  p \in Slots => \A q \in Slots \ {p} : ~At(q, "provision")

PickNextPlanned(p) ==
  /\ At(p, IF p \in Slots THEN "idle" ELSE "dispatch")
  /\ EventLoopFree(p)
  /\ \E t \in WithStatus("planned") :
       /\ \A u \in WithStatus("planned") : t <= u
       /\ held' = [held EXCEPT ![p] = [NoHold EXCEPT !.task = t]]
  /\ Goto(p, "provision")
  /\ UNCHANGED <<row, attempts, todo, external>>

\* The health or the budget gate is closed, or nothing is planned.
SkipDispatch(p) ==
  /\ At(p, "dispatch")
  /\ Goto(p, "stamp")
  /\ UNCHANGED <<row, attempts, todo, held, external>>

\* WorktreeError: a tick dies of it, a slot ends.
ProvisionFails(p) ==
  /\ At(p, "provision")
  /\ faults < MaxFaults
  /\ faults' = faults + 1
  /\ Release(p, "idle")
  /\ UNCHANGED <<row, attempts, todo, pr, orphans>>

\* Mutant: the row is marked dispatched only when the session has ended.
ClaimAfterSession(p) ==
  /\ At(p, "provision")
  /\ Goto(p, "session")
  /\ UNCHANGED <<row, attempts, todo, held, external>>

\* The claim; the session starts whether or not the UPDATE matched the row.
Claim(p) ==
  LET t == held[p].task IN
  /\ At(p, "provision")
  /\ Update(t, TransitionToDispatched(row[t]))
  /\ Goto(p, "session")
  /\ UNCHANGED <<attempts, todo, held, external>>

\* A failed session counts as a success if its branch has commits and an open PR.
MaybeUpgrade(t, c) ==
  IF c = "failed" /\ OpenOnOwnBranch(t) # {} THEN {"failed", "success"} ELSE {c}

FinishSession(p) ==
  LET t == held[p].task IN
  /\ At(p, "session")
  /\ EventLoopFree(p)
  /\ \E c \in Classifications : \E e \in MaybeUpgrade(t, c) :
       Update(t, RecordOutcome(row[t], e))
  /\ Release(p, AfterDispatch(p))
  /\ UNCHANGED <<attempts, todo, external>>

\* The daemon seeds between two dispatch loops; a loop that ends in an error
\* leaves its other sessions running.
DaemonSeed ==
  /\ Slots # {}
  /\ \A q \in Slots : ~At(q, "provision")
  /\ SeedRow
  /\ UNCHANGED <<attempts, local, external>>

-----------------------------------------------------------------------------
(* pr_watcher.watch *)

\* Phase 1: list the open PRs, then match their slugs to rows without a PR.  The
\* session tag is dropped, so any branch with the slug will do; of several PRs
\* with one slug the dict keeps one, and `gh` lists no more than 100.
ListOpenPRs(p) ==
  \E L \in SUBSET {i \in Items : i.pr \in OpenPRs(i.task)} :
    /\ \A i, j \in L : i.task = j.task => i = j
    /\ Load(p, "stamp", "listed", L)

StampLoad(p) ==
  /\ At(p, "listed")
  /\ Goto(p, "stamping")
  /\ todo' = [todo EXCEPT ![p] = {i \in @ : /\ row[i.task].status = "dispatched"
                                             /\ row[i.task].pr_number = NULL}]
  /\ UNCHANGED <<row, attempts, held, external>>

StampOne(p) ==
  /\ At(p, "stamping")
  /\ \E i \in todo[p] :
       /\ Update(i.task, StampPRNumber(row[i.task], i.pr))
       /\ todo' = [todo EXCEPT ![p] = @ \ {i}]
  /\ UNCHANGED <<attempts, pc, held, external>>

\* Mutant: the SELECT does not ask for status = 'dispatched'.
RowsOfAnyStatusWithPR ==
  {[task |-> t, pr |-> row[t].pr_number] : t \in {u \in Tasks : row[u].pr_number # NULL}}

\* Mutant: a row that has gone stale is left to heartbeat.
FreshRowsWithPR ==
  {[task |-> t, pr |-> row[t].pr_number] :
     t \in {u \in WithStatus("dispatched") : row[u].pr_number # NULL /\ row[u].fresh}}

RowsWithPR ==
  {[task |-> t, pr |-> row[t].pr_number] :
     t \in {u \in WithStatus("dispatched") : row[u].pr_number # NULL}}

\* Phase 2: ask GitHub for the state of each row's PR.
WatchLoad(p) == Load(p, "watch", "watching", RowsWithPR)

WatchGet(p) ==
  \E i \in todo[p] : Take(p, "watching", "observed", i, pr[i.pr].state, 0)

\* get_pr answers None: the row is skipped.
GetUnanswered(p, place) ==
  /\ At(p, place)
  /\ faults < MaxFaults
  /\ faults' = faults + 1
  /\ \E i \in todo[p] : todo' = [todo EXCEPT ![p] = @ \ {i}]
  /\ UNCHANGED <<row, attempts, pr, pc, held, orphans>>

WatchApply(p) ==
  LET t == held[p].task IN
  /\ At(p, "observed")
  /\ \/ held[p].seen = "merged" /\ Update(t, TransitionToMerged(row[t]))
     \/ held[p].seen = "closed" /\ Update(t, TransitionToFailed(row[t], "pr_closed_unmerged"))
     \/ held[p].seen = "open"   /\ Update(t, StampProgress(row[t]))
  /\ Release(p, "watching")
  /\ UNCHANGED <<attempts, todo, external>>

-----------------------------------------------------------------------------
(* auto_merge.run *)

MergeLoad(p) == Load(p, "merge", "merging", RowsWithPR)

\* policy().auto_merge is off, or the budget gate is closed.
SkipMerge(p) ==
  /\ At(p, "merge")
  /\ Goto(p, "idle")
  /\ UNCHANGED <<row, attempts, todo, held, external>>

MergeGet(p) ==
  \E i \in todo[p] : Take(p, "merging", "reviewing", i, pr[i.pr].state, 0)

AlreadyMerged(p) ==
  LET t == held[p].task IN
  /\ At(p, "reviewing")
  /\ held[p].seen = "merged"
  /\ Update(t, TransitionToMerged(row[t]))
  /\ Release(p, "merging")
  /\ UNCHANGED <<attempts, todo, external>>

\* The PR is closed, or open and its CI is not green.
NotACandidate(p) ==
  /\ At(p, "reviewing")
  /\ held[p].seen # "merged"
  /\ Release(p, "merging")
  /\ UNCHANGED <<row, attempts, todo, external>>

CriticRejects(p) ==
  LET t == held[p].task IN
  /\ At(p, "reviewing")
  /\ held[p].seen = "open"
  /\ Update(t, TransitionToFailed(row[t], "critic_rejected"))
  /\ Release(p, "merging")
  /\ UNCHANGED <<attempts, todo, external>>

\* `gh pr merge` succeeds on an open PR, and on one that was merged meanwhile.
CriticApproves(p) ==
  LET n == held[p].pr IN
  /\ At(p, "reviewing")
  /\ held[p].seen = "open"
  /\ pr[n].state \in {"open", "merged"}
  /\ pr' = [pr EXCEPT ![n].state = "merged"]
  /\ Goto(p, "approved")
  /\ UNCHANGED <<row, attempts, todo, held, orphans, faults>>

\* Mutant: the result of merge_pr is not looked at.
MergeRefusalIgnored(p) ==
  /\ At(p, "reviewing")
  /\ held[p].seen = "open"
  /\ Goto(p, "approved")
  /\ UNCHANGED <<row, attempts, todo, held, external>>

MergeRefused(p) ==
  /\ At(p, "reviewing")
  /\ held[p].seen = "open"
  /\ Release(p, "merging")
  /\ UNCHANGED <<row, attempts, todo, external>>

RecordMerge(p) ==
  LET t == held[p].task IN
  /\ At(p, "approved")
  /\ Update(t, TransitionToMerged(row[t]))
  /\ Release(p, "merging")
  /\ UNCHANGED <<attempts, todo, external>>

-----------------------------------------------------------------------------
(* Crashes.  A session runs in a process group of its own and outlives its *)
(* parent; what it holds in memory is gone.  An error of `gh` ends a tick  *)
(* the same way.                                                           *)

CrashAll(P) ==
  /\ faults < MaxFaults
  /\ faults' = faults + 1
  /\ orphans' = orphans \cup {held[p].task : p \in {q \in P : pc[q] = "session"}}
  /\ pc' = [p \in Procs |-> IF p \in P THEN "idle" ELSE pc[p]]
  /\ todo' = [p \in Procs |-> IF p \in P THEN {} ELSE todo[p]]
  /\ held' = [p \in Procs |-> IF p \in P THEN NoHold ELSE held[p]]
  /\ UNCHANGED <<row, attempts, pr>>

CrashTick(p) == ~At(p, "idle") /\ CrashAll({p})
CrashDaemon == (\E p \in Slots : ~At(p, "idle")) /\ CrashAll(Slots)

-----------------------------------------------------------------------------
(* What the engine does not control: workers, GitHub users, the clock. *)

\* A worker ships, or somebody opens a PR of any branch with the task's slug.
\* GitHub accepts one open PR per branch, and numbers PRs upwards.
OpenPR(t, own) ==
  /\ own => OpenOnOwnBranch(t) = {}
  /\ \E n \in PRNumbers :
       /\ pr[n].state = "none"
       /\ \A m \in PRNumbers : pr[m].state = "none" => n <= m
       /\ pr' = [pr EXCEPT ![n] = [task |-> t, own |-> own, state |-> "open"]]
  /\ UNCHANGED <<row, attempts, local, orphans, faults>>

SetPRState(n, from, to) ==
  /\ pr[n].state = from
  /\ pr' = [pr EXCEPT ![n].state = to]
  /\ UNCHANGED <<row, attempts, local, orphans, faults>>

HumanMerges(n) == SetPRState(n, "open", "merged")
HumanCloses(n) == SetPRState(n, "open", "closed")
HumanReopens(n) ==
  /\ pr[n].own => OpenOnOwnBranch(pr[n].task) = {}
  /\ SetPRState(n, "closed", "open")

OrphanEnds(t) ==
  /\ t \in orphans
  /\ orphans' = orphans \ {t}
  /\ UNCHANGED <<row, attempts, pr, local, faults>>

\* Nothing has stamped the row for longer than the grace period.
GoStale(t) ==
  /\ row[t].status = "dispatched"
  /\ row[t].fresh
  /\ Update(t, [row[t] EXCEPT !.fresh = FALSE])
  /\ UNCHANGED <<attempts, local, external>>

CoolDown(t) ==
  /\ row[t].failed_at = "recent"
  /\ Update(t, [row[t] EXCEPT !.failed_at = "cooled"])
  /\ UNCHANGED <<attempts, local, external>>

-----------------------------------------------------------------------------

DispatchStep(p) ==
  PickNextPlanned(p) \/ ProvisionFails(p) \/ Claim(p) \/ FinishSession(p)

TickStep(p) ==
  \/ BeginTick(p)
  \/ ReapLoad(p) \/ ReapOne(p) \/ EndPass(p, "reaping", "recover")
  \/ RecoverLoad(p) \/ CountRetries(p) \/ Reset(p) \/ Exhausted(p)
  \/ EndPass(p, "recovering", "seed")
  \/ Seed(p)
  \/ SkipDispatch(p)
  \/ ListOpenPRs(p) \/ StampLoad(p) \/ StampOne(p) \/ EndPass(p, "stamping", "watch")
  \/ WatchLoad(p) \/ WatchGet(p) \/ GetUnanswered(p, "watching") \/ WatchApply(p)
  \/ EndPass(p, "watching", "merge")
  \/ MergeLoad(p) \/ SkipMerge(p) \/ MergeGet(p) \/ GetUnanswered(p, "merging")
  \/ AlreadyMerged(p) \/ NotACandidate(p) \/ CriticRejects(p)
  \/ CriticApproves(p) \/ MergeRefused(p) \/ RecordMerge(p)
  \/ EndPass(p, "merging", "idle")

Environment ==
  \/ \E t \in Tasks : OrphanEnds(t) \/ GoStale(t) \/ CoolDown(t)
  \/ \E t \in Tasks, own \in BOOLEAN : OpenPR(t, own)
  \/ \E n \in PRNumbers : HumanMerges(n) \/ HumanCloses(n) \/ HumanReopens(n)

Next ==
  \/ \E p \in Procs : DispatchStep(p)
  \/ \E p \in Ticks : TickStep(p) \/ CrashTick(p)
  \/ DaemonSeed
  \/ CrashDaemon
  \/ Environment

Spec == Init /\ [][Next]_vars

=============================================================================
