------------------------------- MODULE Worktrees -------------------------------
(***************************************************************************)
(* What happens to the work of a session: in its worktree, on the branch,  *)
(* on the remote, on the default branch; and the passes that handle it.    *)
(*                                                                         *)
(* The daemon provisions a worktree and dispatches (worktree_provision.py, *)
(* dispatch.py); its sessions run beside one upkeep process, which runs,   *)
(* one after another and in any order,                                     *)
(*                                                                         *)
(*   ship_recovery   uncommitted work of dispatched rows is committed and  *)
(*                   pushed                                                *)
(*   branch_janitor  merged branches are deleted from the remote           *)
(*   heartbeat, pr_watcher, and the two passes that plan a row again       *)
(*                                                                         *)
(* The first two are modelled call by call, the others, which modules      *)
(* Engine and Escalation model, as one step for each row.  Work is named   *)
(* by the attempt that did it; people push to the branches, too.  The      *)
(* worktrees share one repository and its copies of the remote's branches. *)
(***************************************************************************)
EXTENDS Naturals, FiniteSets, TaskRow

CONSTANTS
  Tasks,        \* in (tier, identifier) order; each has a branch of its own
  MaxAttempts,  \* bound: sessions for one task
  MaxFaults     \* bound: fetches, provisions and answers of gh that fail

ASSUME WorktreeConstants ==
  /\ Tasks \subseteq Nat
  /\ PRNumbers \subseteq Nat
  /\ MaxAttempts \in Nat
  /\ MaxFaults \in Nat
  /\ NULL \notin Tasks

VARIABLES
  row,      \* the task table
  disk,     \* the task's worktree directory
  git,      \* where the task's commits are
  pr,       \* the pull requests of the branch, in the order they were opened
  session,  \* the attempts whose session still runs
  started,  \* how many sessions each task has had
  pc, todo, held,  \* the upkeep process: its pass, the rows left, the row held
  branch,   \* what ship_recovery found checked out in the directory it holds
  checked,  \* history: what branch_janitor's check of the branch it holds covered
  faults

vars == <<row, disk, git, pr, session, started, pc, todo, held, branch, checked, faults>>
upkeep == <<pc, todo, held, branch, checked>>
world == <<disk, git, pr, session, started>>

Attempts == 1..MaxAttempts
Others == 0   \* what a person, or GitHub updating the branch, has pushed
Work == Attempts \cup {Others}

Dirs == {"none", "ours", "drifted", "detached", "clutter"}
PRStates == {"none", "open", "merged", "closed"}
Places == {"idle", "shipping", "committing", "pushing", "listing", "pruning", "deleting"}

\* dirty: not committed; head: committed while HEAD was detached, and reachable
\* from there alone.
Directories == [dir : Dirs, dirty : SUBSET Attempts, head : SUBSET Attempts]

\* local: reachable from the local branch; remote: from the branch on the
\* remote, as far as it exists (`pushed`); main: from the default branch;
\* seen, seenMain: from the copies of these two that the last fetch left;
\* landed: in the default branch, be it squashed; stray: on some other branch.
Branches == [local : SUBSET Work, remote : SUBSET Work, pushed : BOOLEAN,
             main : SUBSET Work, seen : SUBSET Work, seenMain : SUBSET Work,
             landed : SUBSET Work, stray : SUBSET Attempts]

\* Everything has its type, and the upkeep process holds a row exactly where it
\* is between two calls about that row.
TypeOK ==
  /\ row \in [Tasks -> Rows]
  /\ disk \in [Tasks -> Directories]
  /\ git \in [Tasks -> Branches]
  /\ pr \in [Tasks -> [PRNumbers -> PRStates]]
  /\ session \in [Tasks -> SUBSET Attempts]
  /\ started \in [Tasks -> 0..MaxAttempts]
  /\ \A t \in Tasks : session[t] \subseteq 1..started[t]
  /\ pc \in Places
  /\ todo \subseteq Tasks
  /\ held \in Tasks \cup {NULL}
  /\ pc \in {"committing", "pushing", "deleting"} <=> held # NULL
  /\ branch \in {"ours", "drifted", NULL}
  /\ checked \subseteq Work
  /\ faults \in 0..MaxFaults

\* Rows start planned; a directory may hold what somebody left there.
Init ==
  /\ row = [t \in Tasks |-> SeedOne(NoRow)]
  /\ disk \in [Tasks -> {[dir |-> d, dirty |-> {}, head |-> {}] : d \in {"none", "clutter"}}]
  /\ git = [t \in Tasks |-> [local |-> {}, remote |-> {}, pushed |-> FALSE,
                             main |-> {}, seen |-> {}, seenMain |-> {},
                             landed |-> {}, stray |-> {}]]
  /\ pr = [t \in Tasks |-> [n \in PRNumbers |-> "none"]]
  /\ session = [t \in Tasks |-> {}]
  /\ started = [t \in Tasks |-> 0]
  /\ pc = "idle" /\ todo = {} /\ held = NULL /\ branch = NULL /\ checked = {}
  /\ faults = 0

-----------------------------------------------------------------------------

\* Why and when a row failed is not kept: nothing here asks for it.
Update(t, r) ==
  row' = [row EXCEPT ![t] = [r EXCEPT !.failure_reason = "none", !.failed_at = "none"]]

Planned == {t \in Tasks : row[t].status = "planned"}
OpenPRs(t) == {n \in PRNumbers : pr[t][n] = "open"}
Least(x, S) == x \in S /\ \A y \in S : x <= y

\* Bound: a row that could not have another session is not planned again.
MayRunAgain(t) == started[t] < MaxAttempts

-----------------------------------------------------------------------------
(* worktree_provision.provision and dispatch.dispatch_one *)

\* _existing_worktree_for_branch: the branch is checked out in the directory.
Existing(d) == d.dir = "ours"

\* _head_branch: a worktree, but on another branch or on none.
Drifted(d) == d.dir \in {"drifted", "detached"}

Emptied(d) == [dir |-> d, dirty |-> {}, head |-> {}]

\* _force_remove_worktree, with what has not been committed and the commits that
\* only its detached HEAD reaches.
ForceRemove(d) == IF Drifted(d) THEN Emptied("none") ELSE d

\* `git fetch origin`, for the repository and hence for every task.
Fetched == [t \in Tasks |-> [git[t] EXCEPT !.seen = git[t].remote, !.seenMain = git[t].main]]

\* A worktree on our branch is returned as it is, leftovers included.  One on
\* another branch, or on none, is removed, and like a missing one added again: on
\* the branch there is, or on a new one off the default branch.
Provision(t) ==
  IF Existing(disk[t]) THEN [disk |-> disk[t], git |-> git]
  ELSE [disk |-> [ForceRemove(disk[t]) EXCEPT !.dir = "ours"], git |-> Fetched]

\* Content that is no worktree makes provision raise, before anything is claimed.
Provisionable(t) == disk[t].dir # "clutter"

\* Provision, claim the row and start the session.  Nothing else touches a
\* planned row, so that nothing comes between these.
Dispatch(t) ==
  LET new == Provision(t) IN
  /\ Least(t, Planned)
  /\ Provisionable(t)
  /\ MayRunAgain(t)
  /\ Update(t, TransitionToDispatched(row[t]))
  /\ disk' = [disk EXCEPT ![t] = new.disk]
  /\ git' = new.git
  /\ started' = [started EXCEPT ![t] = @ + 1]
  /\ session' = [session EXCEPT ![t] = @ \cup {started[t] + 1}]
  /\ UNCHANGED <<pr, upkeep, faults>>

Fault == faults < MaxFaults /\ faults' = faults + 1

\* `git fetch` or what follows it raises: by then a drifted worktree is gone.
ProvisionFails(t) ==
  /\ Least(t, Planned)
  /\ Provisionable(t) /\ ~Existing(disk[t])
  /\ Fault
  /\ disk' = [disk EXCEPT ![t] = ForceRemove(@)]
  /\ git' \in {git, Fetched}
  /\ UNCHANGED <<row, pr, session, started, upkeep>>

Outcomes(t) == {c \in Classifications : c = "retryable_transient" => MayRunAgain(t)}

\* _maybe_upgrade_to_success: with an open PR there are commits ahead of the default
\* branch, and a failure counts as a success, unless git or gh does not answer.
MaybeUpgrade(t, c) ==
  IF c = "failed" /\ OpenPRs(t) # {}
    THEN \/ Update(t, RecordOutcome(row[t], "success")) /\ UNCHANGED faults
         \/ Update(t, RecordOutcome(row[t], "failed")) /\ Fault
    ELSE Update(t, RecordOutcome(row[t], c)) /\ UNCHANGED faults

FinishSession(t) ==
  /\ \E a \in session[t] : session' = [session EXCEPT ![t] = @ \ {a}]
  /\ \E c \in Outcomes(t) : MaybeUpgrade(t, c)
  /\ UNCHANGED <<disk, git, pr, started, upkeep>>

-----------------------------------------------------------------------------
(* A worker in its worktree, and GitHub *)

Edit(t) ==
  /\ disk[t].dir \in {"ours", "drifted", "detached"}
  /\ \E a \in session[t] :
       /\ a \notin git[t].local \cup git[t].stray \cup disk[t].head
       /\ disk' = [disk EXCEPT ![t].dirty = @ \cup {a}]
  /\ UNCHANGED <<row, git, pr, session, started, upkeep, faults>>

\* What `git add -A; git commit` does in the directory of t: the commit goes to
\* the branch that is checked out, if any is.
CommitWork(t) ==
  LET d == disk[t] IN
  CASE d.dir = "detached" ->
         disk' = [disk EXCEPT ![t].dirty = {}, ![t].head = @ \cup d.dirty] /\ UNCHANGED git
    [] d.dir = "ours" ->
         disk' = [disk EXCEPT ![t].dirty = {}] /\ git' = [git EXCEPT ![t].local = @ \cup d.dirty]
    [] OTHER ->
         disk' = [disk EXCEPT ![t].dirty = {}] /\ git' = [git EXCEPT ![t].stray = @ \cup d.dirty]

WorkerCommits(t) ==
  /\ session[t] # {}
  /\ disk[t].dirty # {} /\ disk[t].dir \in {"ours", "drifted", "detached"}
  /\ CommitWork(t)
  /\ UNCHANGED <<row, pr, session, started, upkeep, faults>>

\* The remote takes nothing that is not ahead of what it has.
FastForward(t) == git[t].remote \subseteq git[t].local

PushBranch(t) ==
  /\ FastForward(t)
  /\ git' = [git EXCEPT ![t].remote = git[t].local, ![t].seen = git[t].local, ![t].pushed = TRUE]

WorkerPushes(t) ==
  /\ session[t] # {}
  /\ disk[t].dir = "ours"
  /\ PushBranch(t)
  /\ UNCHANGED <<row, disk, pr, session, started, upkeep, faults>>

WorkerPulls(t) ==
  /\ session[t] # {}
  /\ disk[t].dir = "ours" /\ git[t].pushed
  /\ git' = [Fetched EXCEPT ![t].local = @ \cup git[t].remote]
  /\ UNCHANGED <<row, disk, pr, session, started, upkeep, faults>>

\* The worker checks out another branch, or a bare commit.
WorkerDrifts(t) ==
  /\ session[t] # {}
  /\ disk[t].dir = "ours"
  /\ \E d \in {"drifted", "detached"} : disk' = [disk EXCEPT ![t].dir = d]
  /\ UNCHANGED <<row, git, pr, session, started, upkeep, faults>>

\* GitHub wants commits to review, and one open PR a branch.
OpenPR(t) ==
  /\ session[t] # {}
  /\ git[t].pushed /\ git[t].remote \ git[t].main # {}
  /\ OpenPRs(t) = {}
  /\ \E n \in PRNumbers : /\ Least(n, {m \in PRNumbers : pr[t][m] = "none"})
                          /\ pr' = [pr EXCEPT ![t][n] = "open"]
  /\ UNCHANGED <<row, disk, git, session, started, upkeep, faults>>

OthersPush(t) ==
  /\ git[t].pushed
  /\ git' = [git EXCEPT ![t].remote = @ \cup {Others}]
  /\ UNCHANGED <<row, disk, pr, session, started, upkeep, faults>>

\* auto_merge or a person merges: the commits themselves, or one squashed copy.
MergePR(t, n) ==
  /\ pr[t][n] = "open"
  /\ pr' = [pr EXCEPT ![t][n] = "merged"]
  /\ \E reachable \in {{}, git[t].remote} :
       git' = [git EXCEPT ![t].main = @ \cup reachable, ![t].landed = @ \cup git[t].remote]
  /\ UNCHANGED <<row, disk, session, started, upkeep, faults>>

ClosePR(t, n) ==
  /\ pr[t][n] = "open"
  /\ pr' = [pr EXCEPT ![t][n] = "closed"]
  /\ UNCHANGED <<row, disk, git, session, started, upkeep, faults>>

-----------------------------------------------------------------------------
(* The upkeep process: passes of other modules, one step for each row *)

RowStep(t, r) ==
  /\ pc = "idle"
  /\ Update(t, r)
  /\ UNCHANGED <<world, upkeep, faults>>

Reap(t) == Reapable(row[t]) /\ RowStep(t, Abandon(row[t]))

Stamp(t, n) ==
  /\ n \in OpenPRs(t)
  /\ row[t].status = "dispatched" /\ row[t].pr_number = NULL
  /\ RowStep(t, StampPRNumber(row[t], n))

Watch(t) ==
  /\ row[t].status = "dispatched" /\ row[t].pr_number # NULL
  /\ \E state \in {pr[t][row[t].pr_number]} :
       RowStep(t, CASE state = "merged" -> TransitionToMerged(row[t])
                    [] state = "closed" -> TransitionToFailed(row[t], "pr_closed_unmerged")
                    [] OTHER            -> StampProgress(row[t]))

\* auto_recover or deep_fix.
PlanAgain(t) ==
  /\ row[t].status \in {"failed", "abandoned"}
  /\ MayRunAgain(t)
  /\ \/ RowStep(t, ResetToPlanned(row[t]))
     \/ row[t].status = "failed" /\ RowStep(t, EmitEscalated(row[t]))

-----------------------------------------------------------------------------
(* Passes of the upkeep process, call by call *)

BeginPass(place, S) ==
  /\ pc = "idle"
  /\ pc' = place /\ todo' = S
  /\ UNCHANGED <<row, disk, pr, session, started, held, branch, checked>>

EndPass ==
  /\ pc \in {"shipping", "pruning"} /\ todo = {}
  /\ pc' = "idle"
  /\ UNCHANGED <<row, world, todo, held, branch, checked, faults>>

\* The pass turns to task t and is done with it at once ...
Visit(t, place) ==
  /\ pc = place /\ t \in todo
  /\ todo' = todo \ {t}
  /\ UNCHANGED <<pc, held, branch, checked>>

\* ... or holds it and goes on to the next call ...
Hold(t, place, next) ==
  /\ pc = place /\ t \in todo
  /\ todo' = todo \ {t} /\ held' = t /\ pc' = next

\* A plausible slip: the task is not let go.
DoneButHolding(place) == UNCHANGED <<held, todo>> /\ pc' = place /\ branch' = NULL /\ checked' = {}

\* ... until it is done with the task it holds.
DoneWith(place) ==
  held' = NULL /\ pc' = place /\ branch' = NULL /\ checked' = {} /\ UNCHANGED todo

(* ship_recovery.run *)

LoadUnshipped ==
  /\ BeginPass("shipping",
               {t \in Tasks : row[t].status = "dispatched" /\ row[t].pr_number = NULL})
  /\ UNCHANGED <<git, faults>>

\* No directory, no repository, or nothing uncommitted.
NothingToShip(t) == disk[t].dir \in {"none", "clutter"} \/ disk[t].dirty = {}

\* A plausible slip: a skipped row is stamped, too.
SkipShipStamped(t) ==
  /\ Visit(t, "shipping")
  /\ NothingToShip(t)
  /\ Update(t, StampProgress(row[t]))
  /\ UNCHANGED <<world, faults>>

SkipShip(t) ==
  /\ Visit(t, "shipping")
  /\ NothingToShip(t)
  /\ UNCHANGED <<row, world, faults>>

\* _emit_event: a failure stamps the row as a success does, WHERE id = ?.
EmitShipEvent(t) == Update(t, StampProgress(row[t]))

\* HEAD is detached: there is no branch to push.
ShipNoBranch(t) ==
  /\ Visit(t, "shipping")
  /\ ~NothingToShip(t) /\ disk[t].dir = "detached"
  /\ EmitShipEvent(t)
  /\ UNCHANGED <<world, faults>>

BeginShip(t) ==
  /\ Hold(t, "shipping", "committing")
  /\ ~NothingToShip(t) /\ disk[t].dir # "detached"
  /\ branch' = disk[t].dir
  /\ UNCHANGED <<row, world, checked, faults>>

ShipCommit ==
  /\ pc = "committing"
  /\ disk[held].dirty # {}
  /\ CommitWork(held)
  /\ pc' = "pushing"
  /\ UNCHANGED <<row, pr, session, started, todo, held, branch, checked, faults>>

\* A hook refuses the commit, as often as it is tried, or the worker was faster
\* and left nothing.
ShipCommitFails ==
  /\ pc = "committing" /\ disk[held].dir # "none"
  /\ EmitShipEvent(held)
  /\ DoneWith("shipping")
  /\ UNCHANGED <<world, faults>>

\* The branch that was checked out goes to the remote, whatever is checked out
\* now.  No PR is opened; the event says so.
ShipPush ==
  /\ pc = "pushing" /\ disk[held].dir # "none"
  /\ IF branch = "ours" THEN PushBranch(held) ELSE UNCHANGED git
  /\ EmitShipEvent(held)
  /\ DoneWith("shipping")
  /\ UNCHANGED <<disk, pr, session, started, faults>>

\* The remote cannot be reached, or refuses the push.
ShipPushFails ==
  /\ pc = "pushing" /\ disk[held].dir # "none"
  /\ EmitShipEvent(held)
  /\ DoneWith("shipping")
  /\ UNCHANGED <<world, faults>>

\* provision has removed the directory meanwhile: the exception ends the pass.
ShipRaises ==
  /\ pc \in {"committing", "pushing"} /\ disk[held].dir = "none"
  /\ pc' = "idle" /\ todo' = {} /\ held' = NULL /\ branch' = NULL
  /\ UNCHANGED <<row, world, checked, faults>>

(* branch_janitor.run *)

\* `fetch --prune`, whose failure goes unnoticed, and the branches there are; then
\* the open PRs, once for all.
ListBranches ==
  /\ BeginPass("listing", {t \in Tasks : git[t].pushed})
  /\ \/ git' = Fetched /\ UNCHANGED faults
     \/ UNCHANGED git /\ Fault

OpenHeads == {t \in Tasks : OpenPRs(t) # {}}

ListOpenPRs ==
  /\ pc = "listing"
  /\ pc' = "pruning" /\ todo' = todo \ OpenHeads
  /\ UNCHANGED <<row, world, held, branch, checked, faults>>

\* A plausible slip: `rev-list --count branch..main`.
HasMissingCommits(t) == git[t].seenMain \ git[t].seen # {}

\* `rev-list --count main..branch`, of the copies that the last fetch or push left:
\* squashed commits count as unmerged.
HasUnmergedCommits(t) == git[t].seen \ git[t].seenMain # {}

KeepBranch(t) ==
  /\ Visit(t, "pruning")
  /\ HasUnmergedCommits(t)
  /\ UNCHANGED <<row, world, faults>>

CheckBranch(t) ==
  /\ Hold(t, "pruning", "deleting")
  /\ ~HasUnmergedCommits(t)
  /\ checked' = git[t].seen
  /\ UNCHANGED <<row, world, branch, faults>>

\* What has been pushed since that fetch goes too, and GitHub closes its PR.
DeleteBranch ==
  /\ pc = "deleting"
  /\ git' = [git EXCEPT ![held].remote = {}, ![held].seen = {}, ![held].pushed = FALSE]
  /\ pr' = [pr EXCEPT ![held] = [n \in PRNumbers |-> IF @[n] = "open" THEN "closed" ELSE @[n]]]
  /\ DoneWith("pruning")
  /\ UNCHANGED <<row, disk, session, started, faults>>

-----------------------------------------------------------------------------

\* Nothing has stamped the row for longer than heartbeat's grace period.
GoStale(t) ==
  /\ row[t].status = "dispatched" /\ row[t].fresh
  /\ Update(t, [row[t] EXCEPT !.fresh = FALSE])
  /\ UNCHANGED <<world, upkeep, faults>>

WorkerStep(t) ==
  Edit(t) \/ WorkerCommits(t) \/ WorkerPushes(t) \/ WorkerPulls(t)
  \/ WorkerDrifts(t) \/ OpenPR(t)

GitHubStep(t) == OthersPush(t) \/ \E n \in PRNumbers : MergePR(t, n) \/ ClosePR(t, n)

\* The calls of a pass that has begun.
PassStep ==
  \/ \E t \in Tasks : \/ SkipShip(t) \/ ShipNoBranch(t) \/ BeginShip(t)
                      \/ KeepBranch(t) \/ CheckBranch(t)
  \/ ShipCommit \/ ShipCommitFails \/ ShipPush \/ ShipPushFails \/ ShipRaises
  \/ ListOpenPRs \/ DeleteBranch
  \/ EndPass

Next ==
  \/ \E t \in Tasks : \/ Dispatch(t) \/ ProvisionFails(t) \/ FinishSession(t)
                      \/ WorkerStep(t) \/ GitHubStep(t)
                      \/ Reap(t) \/ Watch(t) \/ PlanAgain(t) \/ GoStale(t)
                      \/ \E n \in PRNumbers : Stamp(t, n)
  \/ LoadUnshipped \/ ListBranches
  \/ PassStep

Spec == Init /\ [][Next]_vars

=============================================================================
