---------------------------- MODULE WorktreeProofs ----------------------------
(***************************************************************************)
(* Proofs about module Worktrees, for any tasks, attempts, pull requests   *)
(* and faults: its types, how the commits of a branch are nested, and that *)
(* no step loses work.                                                     *)
(***************************************************************************)
EXTENDS WorktreeProperties, TLAPS

-----------------------------------------------------------------------------
(* Rows *)

\* Every statement that writes a row writes a row of the table's type.
LEMMA RowOperatorsType ==
  ASSUME NEW r \in Rows
  PROVE  /\ TransitionToDispatched(r) \in Rows
         /\ \A c \in Classifications : RecordOutcome(r, c) \in Rows
         /\ Abandon(r) \in Rows
         /\ \A n \in PRNumbers : StampPRNumber(r, n) \in Rows
         /\ StampProgress(r) \in Rows
         /\ TransitionToMerged(r) \in Rows
         /\ TransitionToFailed(r, "pr_closed_unmerged") \in Rows
         /\ ResetToPlanned(r) \in Rows
         /\ EmitEscalated(r) \in Rows
         /\ [r EXCEPT !.fresh = FALSE] \in Rows
<1> USE DEF Rows, Statuses, FailureReasons, Ages
<1>1. TransitionToDispatched(r) \in Rows
  BY DEF TransitionToDispatched
<1>2. \A c \in Classifications : RecordOutcome(r, c) \in Rows
  BY DEF RecordOutcome, OutcomeStatus, Classifications
<1>3. Abandon(r) \in Rows
  BY DEF Abandon
<1>4. \A n \in PRNumbers : StampPRNumber(r, n) \in Rows
  BY DEF StampPRNumber
<1>5. StampProgress(r) \in Rows
  BY DEF StampProgress
<1>6. TransitionToMerged(r) \in Rows
  BY DEF TransitionToMerged
<1>7. TransitionToFailed(r, "pr_closed_unmerged") \in Rows
  BY DEF TransitionToFailed
<1>8. ResetToPlanned(r) \in Rows
  BY DEF ResetToPlanned
<1>9. EmitEscalated(r) \in Rows /\ [r EXCEPT !.fresh = FALSE] \in Rows
  BY DEF EmitEscalated
<1>. QED
  BY <1>1, <1>2, <1>3, <1>4, <1>5, <1>6, <1>7, <1>8, <1>9

\* An update keeps the table's type.
LEMMA UpdateType ==
  ASSUME row \in [Tasks -> Rows], NEW t \in Tasks, NEW r \in Rows, Update(t, r)
  PROVE  row' \in [Tasks -> Rows]
<1>1. [r EXCEPT !.failure_reason = "none", !.failed_at = "none"] \in Rows
  BY DEF Rows
<1>. QED
  BY <1>1 DEF Update

-----------------------------------------------------------------------------
(* Types *)

\* The five kinds of state that TypeOK speaks about.
WorldOK ==
  /\ disk \in [Tasks -> Directories]
  /\ git \in [Tasks -> Branches]
  /\ pr \in [Tasks -> [PRNumbers -> PRStates]]
SessionsOK ==
  /\ session \in [Tasks -> SUBSET Attempts]
  /\ started \in [Tasks -> 0..MaxAttempts]
  /\ \A t \in Tasks : session[t] \subseteq 1..started[t]
UpkeepOK ==
  /\ pc \in Places
  /\ todo \subseteq Tasks
  /\ held \in Tasks \cup {NULL}
  /\ pc \in {"committing", "pushing", "deleting"} <=> held # NULL
  /\ branch \in {"ours", "drifted", NULL}
  /\ checked \subseteq Work

\* What a fetch leaves, and what is left where a worktree was.
LEMMA FetchedType ==
  ASSUME git \in [Tasks -> Branches]
  PROVE  /\ Fetched \in [Tasks -> Branches]
         /\ \A t \in Tasks : /\ Fetched[t].local = git[t].local
                            /\ Fetched[t].remote = git[t].remote
                            /\ Fetched[t].pushed = git[t].pushed
                            /\ Fetched[t].main = git[t].main
                            /\ Fetched[t].landed = git[t].landed
                            /\ Fetched[t].stray = git[t].stray
                            /\ Fetched[t].seen = git[t].remote
                            /\ Fetched[t].seenMain = git[t].main
  BY DEF Fetched, Branches

LEMMA DirectoriesType ==
  ASSUME NEW d \in Directories
  PROVE  /\ d.dir \in Dirs /\ d.dirty \subseteq Attempts /\ d.head \subseteq Attempts
         /\ ForceRemove(d) \in Directories
         /\ [ForceRemove(d) EXCEPT !.dir = "ours"] \in Directories
  BY DEF Directories, ForceRemove, Emptied, Dirs

\* The parts make up TypeOK.
LEMMA TypeParts ==
  /\ TypeOK <=> /\ row \in [Tasks -> Rows] /\ WorldOK /\ SessionsOK /\ UpkeepOK
                /\ faults \in 0..MaxFaults
  /\ TypeOK' <=> /\ (row \in [Tasks -> Rows])' /\ WorldOK' /\ SessionsOK' /\ UpkeepOK'
                 /\ (faults \in 0..MaxFaults)'
  BY DEF TypeOK, WorldOK, SessionsOK, UpkeepOK

\* Dispatching, failing to provision and finishing a session keep the types.
LEMMA DispatchType ==
  ASSUME TypeOK, NEW t \in Tasks, Dispatch(t) \/ ProvisionFails(t) \/ FinishSession(t)
  PROVE  TypeOK'
<1>0. /\ row \in [Tasks -> Rows] /\ row[t] \in Rows
      /\ disk \in [Tasks -> Directories] /\ disk[t] \in Directories
      /\ git \in [Tasks -> Branches] /\ Fetched \in [Tasks -> Branches]
      /\ ForceRemove(disk[t]) \in Directories
  BY FetchedType, DirectoriesType DEF TypeOK
<1>1. CASE Dispatch(t)
  <2>1. row' \in [Tasks -> Rows]
    BY <1>0, <1>1, RowOperatorsType, UpdateType DEF Dispatch
  <2>2. /\ Provision(t).disk \in Directories
        /\ Provision(t).git \in [Tasks -> Branches]
    BY <1>0, DirectoriesType DEF Provision
  <2>3. WorldOK'
    BY <1>0, <1>1, <2>2 DEF Dispatch, WorldOK, TypeOK
  <2>4. SessionsOK'
    <3>1. started[t] + 1 \in 1..MaxAttempts /\ started[t] \in Nat
      BY <1>1, WorktreeConstants DEF Dispatch, MayRunAgain, TypeOK
    <3>2. \A u \in Tasks : started[u] \in Nat
      BY WorktreeConstants DEF TypeOK
    <3>. QED
      BY <1>1, <3>1, <3>2, WorktreeConstants DEF Dispatch, SessionsOK, TypeOK, Attempts
  <2>. QED
    BY <1>1, <2>1, <2>3, <2>4, TypeParts DEF Dispatch, upkeep, UpkeepOK
<1>2. CASE ProvisionFails(t)
  <2>1. WorldOK'
    BY <1>0, <1>2 DEF ProvisionFails, WorldOK, TypeOK
  <2>2. faults' \in 0..MaxFaults
    BY <1>2, WorktreeConstants DEF ProvisionFails, Fault, TypeOK
  <2>. QED
    BY <1>2, <2>1, <2>2, TypeParts DEF ProvisionFails, SessionsOK, upkeep, UpkeepOK
<1>3. CASE FinishSession(t)
  <2>1. row' \in [Tasks -> Rows] /\ faults' \in 0..MaxFaults
    <3>1. PICK c \in Outcomes(t) : MaybeUpgrade(t, c)
      BY <1>3 DEF FinishSession
    <3>2. /\ RecordOutcome(row[t], c) \in Rows /\ RecordOutcome(row[t], "success") \in Rows
          /\ RecordOutcome(row[t], "failed") \in Rows
      BY <1>0, RowOperatorsType DEF Outcomes, Classifications
    <3>3. row' \in [Tasks -> Rows]
      BY <1>0, <3>1, <3>2, UpdateType DEF MaybeUpgrade
    <3>4. faults' \in 0..MaxFaults
      BY <3>1, WorktreeConstants DEF MaybeUpgrade, Fault, TypeOK
    <3>. QED
      BY <3>3, <3>4
  <2>2. SessionsOK'
    BY <1>3 DEF FinishSession, SessionsOK, TypeOK
  <2>. QED
    BY <1>3, <2>1, <2>2, TypeParts DEF FinishSession, WorldOK, upkeep, UpkeepOK
<1>. QED
  BY <1>1, <1>2, <1>3

\* A commit keeps the types of directories and branches.
LEMMA CommitType ==
  ASSUME WorldOK, NEW t \in Tasks, CommitWork(t), pr' = pr
  PROVE  WorldOK'
<1>0. /\ disk[t] \in Directories /\ git[t] \in Branches
      /\ disk[t].dirty \in SUBSET Attempts /\ disk[t].head \in SUBSET Attempts
  BY DirectoriesType DEF WorldOK
<1>1. /\ [git[t] EXCEPT !.local = @ \cup disk[t].dirty] \in Branches
      /\ [git[t] EXCEPT !.stray = @ \cup disk[t].dirty] \in Branches
  BY <1>0 DEF Branches, Work
<1>2. /\ [disk[t] EXCEPT !.dirty = {}] \in Directories
      /\ [disk[t] EXCEPT !.dirty = {}, !.head = @ \cup disk[t].dirty] \in Directories
  BY <1>0 DEF Directories
<1>3. CASE disk[t].dir = "detached"
  <2>1. /\ disk' = [disk EXCEPT ![t] = [disk[t] EXCEPT !.dirty = {}, !.head = @ \cup disk[t].dirty]]
        /\ git' = git
    BY <1>3 DEF CommitWork, WorldOK
  <2>. QED
    BY <1>2, <2>1 DEF WorldOK
<1>4. CASE disk[t].dir # "detached"
  <2>1. /\ disk' = [disk EXCEPT ![t] = [disk[t] EXCEPT !.dirty = {}]]
        /\ \/ git' = [git EXCEPT ![t] = [git[t] EXCEPT !.local = @ \cup disk[t].dirty]]
           \/ git' = [git EXCEPT ![t] = [git[t] EXCEPT !.stray = @ \cup disk[t].dirty]]
    BY <1>4 DEF CommitWork, WorldOK
  <2>. QED
    BY <1>1, <1>2, <2>1 DEF WorldOK
<1>. QED
  BY <1>3, <1>4

\* So does a push.
LEMMA PushType ==
  ASSUME WorldOK, NEW t \in Tasks, PushBranch(t), disk' = disk, pr' = pr
  PROVE  WorldOK'
<1>. DEFINE g == [git[t] EXCEPT !.remote = git[t].local, !.seen = git[t].local, !.pushed = TRUE]
<1>1. git \in [Tasks -> Branches] /\ git' = [git EXCEPT ![t] = g]
  BY DEF PushBranch, WorldOK
<1>2. g \in Branches
  BY <1>1 DEF Branches
<1>. HIDE DEF g
<1>3. git' \in [Tasks -> Branches]
  BY <1>1, <1>2
<1>. QED
  BY <1>3 DEF WorldOK

\* A worker's steps and GitHub's keep the types.
LEMMA WorldStepType ==
  ASSUME TypeOK, NEW t \in Tasks, WorkerStep(t) \/ GitHubStep(t)
  PROVE  TypeOK'
<1>0. WorldOK /\ UNCHANGED <<row, session, started, upkeep, faults>>
  BY DEF TypeOK, WorldOK, WorkerStep, GitHubStep, Edit, WorkerCommits, WorkerPushes, WorkerPulls,
     WorkerDrifts, OpenPR, OthersPush, MergePR, ClosePR
<1> SUFFICES WorldOK'
  BY <1>0, TypeParts DEF SessionsOK, upkeep, UpkeepOK
<1>1. CASE Edit(t)
  <2>1. session[t] \subseteq Attempts
    BY DEF TypeOK
  <2>. QED
    BY <1>0, <1>1, <2>1 DEF Edit, WorldOK, Directories
<1>2. CASE WorkerCommits(t)
  BY <1>0, <1>2, CommitType DEF WorkerCommits
<1>3. CASE WorkerPushes(t)
  BY <1>0, <1>3, PushType DEF WorkerPushes
<1>4. CASE WorkerDrifts(t)
  BY <1>0, <1>4 DEF WorkerDrifts, WorldOK, Directories, Dirs
<1>5. CASE OpenPR(t)
  BY <1>0, <1>5 DEF OpenPR, WorldOK, PRStates
<1>6. ASSUME NEW n \in PRNumbers, MergePR(t, n) PROVE WorldOK'
  <2>1. PICK reachable \in {{}, git[t].remote} :
          git' = [git EXCEPT ![t].main = @ \cup reachable, ![t].landed = @ \cup git[t].remote]
    BY <1>6 DEF MergePR
  <2>2. git[t] \in Branches /\ git[t].remote \in SUBSET Work /\ reachable \in SUBSET Work
    BY <2>1 DEF TypeOK, Branches
  <2>3. git' \in [Tasks -> Branches]
    BY <2>1, <2>2 DEF TypeOK, Branches
  <2>4. pr' \in [Tasks -> [PRNumbers -> PRStates]] /\ UNCHANGED disk
    BY <1>6 DEF MergePR, TypeOK, PRStates
  <2>. QED
    BY <2>3, <2>4 DEF TypeOK, WorldOK
<1>7. ASSUME NEW n \in PRNumbers, ClosePR(t, n) PROVE WorldOK'
  BY <1>7 DEF ClosePR, TypeOK, WorldOK, PRStates
<1>8. CASE WorkerPulls(t)
  <2>. DEFINE g == [Fetched[t] EXCEPT !.local = @ \cup git[t].remote]
  <2>1. /\ Fetched \in [Tasks -> Branches] /\ Fetched[t] \in Branches
        /\ git[t].remote \in SUBSET Work
    BY <1>0, FetchedType DEF WorldOK, Branches
  <2>2. [Fetched EXCEPT ![t].local = @ \cup git[t].remote] \in [Tasks -> Branches]
    <3>1. g \in Branches
      BY <2>1 DEF Branches
    <3>2. [Fetched EXCEPT ![t].local = @ \cup git[t].remote] = [Fetched EXCEPT ![t] = g]
      BY <2>1
    <3>. HIDE DEF g
    <3>. QED
      BY <2>1, <3>1, <3>2
  <2>. QED
    BY <1>0, <1>8, <2>2 DEF WorkerPulls, WorldOK
<1>9. CASE OthersPush(t)
  <2>1. git' \in [Tasks -> Branches]
    BY <1>0, <1>9 DEF OthersPush, WorldOK, Branches, Work
  <2>. QED
    BY <1>0, <1>9, <2>1 DEF OthersPush, WorldOK
<1>. QED
  BY <1>1, <1>2, <1>3, <1>4, <1>5, <1>6, <1>7, <1>8, <1>9 DEF WorkerStep, GitHubStep

\* The passes of other modules, one step for each row, keep the types.
LEMMA RowStepType ==
  ASSUME TypeOK, NEW t \in Tasks,
         \/ Reap(t) \/ Watch(t) \/ PlanAgain(t) \/ GoStale(t)
         \/ \E n \in PRNumbers : Stamp(t, n)
  PROVE  TypeOK'
<1>0. row \in [Tasks -> Rows] /\ row[t] \in Rows /\ WorldOK /\ SessionsOK /\ UpkeepOK
  BY TypeParts DEF TypeOK
<1>1. row' \in [Tasks -> Rows]
  <2>1. \E r \in Rows : Update(t, r)
    <3>1. CASE Reap(t) \/ PlanAgain(t)
      BY <1>0, <3>1, RowOperatorsType DEF Reap, PlanAgain, RowStep
    <3>2. CASE Watch(t)
      <4>1. row[t].pr_number \in PRNumbers
        BY <1>0, <3>2 DEF Watch, Rows
      <4>2. PICK state \in PRStates :
              Update(t, CASE state = "merged" -> TransitionToMerged(row[t])
                          [] state = "closed" -> TransitionToFailed(row[t], "pr_closed_unmerged")
                          [] OTHER            -> StampProgress(row[t]))
        BY <3>2, <4>1 DEF Watch, RowStep, TypeOK
      <4>3. CASE state = "merged"
        BY <1>0, <4>2, <4>3, RowOperatorsType
      <4>4. CASE state = "closed"
        BY <1>0, <4>2, <4>4, RowOperatorsType
      <4>5. CASE state \notin {"merged", "closed"}
        BY <1>0, <4>2, <4>5, RowOperatorsType
      <4>. QED
        BY <4>3, <4>4, <4>5
    <3>3. CASE GoStale(t)
      BY <1>0, <3>3, RowOperatorsType DEF GoStale
    <3>4. CASE \E n \in PRNumbers : Stamp(t, n)
      BY <1>0, <3>4, RowOperatorsType DEF Stamp, RowStep
    <3>. QED
      BY <3>1, <3>2, <3>3, <3>4
  <2>. QED
    BY <1>0, <2>1, UpdateType
<1>2. UNCHANGED <<world, upkeep, faults>>
  BY DEF Reap, Watch, PlanAgain, GoStale, Stamp, RowStep
<1>. QED
  BY <1>0, <1>1, <1>2, TypeParts DEF TypeOK, WorldOK, SessionsOK, UpkeepOK, world, upkeep

\* Every call of ship_recovery and branch_janitor keeps the types.
LEMMA PassStepType ==
  ASSUME TypeOK, LoadUnshipped \/ ListBranches \/ PassStep
  PROVE  TypeOK'
<1>0. row \in [Tasks -> Rows] /\ WorldOK /\ SessionsOK /\ UpkeepOK /\ NULL \notin Tasks
  BY TypeParts, WorktreeConstants
<1>1. CASE LoadUnshipped \/ ListBranches \/ EndPass \/ ListOpenPRs \/ ShipRaises
  <2>1. UpkeepOK'
    BY <1>0, <1>1 DEF LoadUnshipped, ListBranches, EndPass, ListOpenPRs, ShipRaises, BeginPass,
       UpkeepOK, Places
  <2>2. UNCHANGED <<row, disk, pr, session, started>>
    BY <1>1 DEF LoadUnshipped, ListBranches, EndPass, ListOpenPRs, ShipRaises, BeginPass, world
  <2>3. git' \in {git, Fetched} /\ faults' \in 0..MaxFaults
    BY <1>1, WorktreeConstants DEF LoadUnshipped, ListBranches, EndPass, ListOpenPRs, ShipRaises,
       BeginPass, Fault, world, TypeOK
  <2>4. WorldOK'
    BY <1>0, <2>2, <2>3, FetchedType DEF WorldOK
  <2>. QED
    BY <1>0, <2>1, <2>2, <2>3, <2>4, TypeParts DEF SessionsOK
<1>2. ASSUME NEW t \in Tasks, SkipShip(t) \/ BeginShip(t) \/ KeepBranch(t) \/ CheckBranch(t)
      PROVE  TypeOK'
  <2>1. UpkeepOK'
    <3>1. CASE SkipShip(t) \/ KeepBranch(t)
      BY <1>0, <3>1 DEF SkipShip, KeepBranch, Visit, UpkeepOK
    <3>2. CASE BeginShip(t)
      <4>1. disk[t].dir \in {"ours", "drifted"}
        BY <1>0, <3>2 DEF BeginShip, NothingToShip, WorldOK, Directories, Dirs
      <4>. QED
        BY <1>0, <3>2, <4>1 DEF BeginShip, Hold, UpkeepOK, Places
    <3>3. CASE CheckBranch(t)
      <4>1. git[t].seen \subseteq Work
        BY <1>0 DEF WorldOK, Branches
      <4>. QED
        BY <1>0, <3>3, <4>1 DEF CheckBranch, Hold, UpkeepOK, Places
    <3>. QED
      BY <1>2, <3>1, <3>2, <3>3
  <2>2. UNCHANGED <<row, world, faults>>
    BY <1>2 DEF SkipShip, BeginShip, KeepBranch, CheckBranch
  <2>. QED
    BY <1>0, <2>1, <2>2, TypeParts DEF TypeOK, WorldOK, SessionsOK, world
<1>3. ASSUME NEW t \in Tasks, EmitShipEvent(t) PROVE row' \in [Tasks -> Rows]
  <2>1. StampProgress(row[t]) \in Rows
    BY <1>0, <1>3, RowOperatorsType
  <2>. QED
    BY <1>0, <1>3, <2>1, UpdateType DEF EmitShipEvent
<1>4. ASSUME NEW t \in Tasks, ShipNoBranch(t) PROVE TypeOK'
  <2>1. UpkeepOK' /\ row' \in [Tasks -> Rows]
    BY <1>0, <1>3, <1>4 DEF ShipNoBranch, Visit, UpkeepOK, Places
  <2>2. UNCHANGED <<world, faults>>
    BY <1>4 DEF ShipNoBranch
  <2>. QED
    BY <1>0, <2>1, <2>2, TypeParts DEF TypeOK, WorldOK, SessionsOK, world
<1>5. ASSUME pc \in {"committing", "pushing", "deleting"} PROVE held \in Tasks
  BY <1>0, <1>5 DEF UpkeepOK
<1>6. CASE ShipCommit
  <2>1. UpkeepOK' /\ WorldOK'
    BY <1>0, <1>5, <1>6, CommitType DEF ShipCommit, UpkeepOK, Places
  <2>2. UNCHANGED <<row, session, started, faults>>
    BY <1>6 DEF ShipCommit
  <2>. QED
    BY <1>0, <2>1, <2>2, TypeParts DEF TypeOK, SessionsOK
<1>7. CASE ShipCommitFails \/ ShipPushFails
  <2>1. UpkeepOK' /\ row' \in [Tasks -> Rows]
    BY <1>0, <1>3, <1>5, <1>7 DEF ShipCommitFails, ShipPushFails, DoneWith, UpkeepOK, Places
  <2>2. faults' \in 0..MaxFaults
    BY <1>7 DEF ShipCommitFails, ShipPushFails, TypeOK
  <2>3. UNCHANGED world
    BY <1>7 DEF ShipCommitFails, ShipPushFails
  <2>. QED
    BY <1>0, <2>1, <2>2, <2>3, TypeParts DEF WorldOK, SessionsOK, world
<1>8. CASE ShipPush
  <2>1. UpkeepOK' /\ row' \in [Tasks -> Rows]
    BY <1>0, <1>3, <1>5, <1>8 DEF ShipPush, DoneWith, UpkeepOK, Places
  <2>2. WorldOK'
    <3>1. CASE branch = "ours"
      BY <1>0, <1>5, <1>8, <3>1, PushType DEF ShipPush
    <3>2. CASE branch # "ours"
      BY <1>0, <1>8, <3>2 DEF ShipPush, WorldOK
    <3>. QED
      BY <3>1, <3>2
  <2>3. UNCHANGED <<session, started, faults>>
    BY <1>8 DEF ShipPush
  <2>. QED
    BY <1>0, <2>1, <2>2, <2>3, TypeParts DEF TypeOK, SessionsOK
<1>9. CASE DeleteBranch
  <2>1. UpkeepOK'
    BY <1>0, <1>9 DEF DeleteBranch, DoneWith, UpkeepOK, Places
  <2>2. WorldOK'
    <3>. DEFINE g == [git[held] EXCEPT !.remote = {}, !.seen = {}, !.pushed = FALSE]
    <3>0. git' = [git EXCEPT ![held] = g] /\ held \in Tasks /\ git \in [Tasks -> Branches]
      BY <1>0, <1>5, <1>9 DEF DeleteBranch, WorldOK
    <3>1. git' \in [Tasks -> Branches]
      <4>1. g \in Branches
        BY <3>0 DEF Branches
      <4>. HIDE DEF g
      <4>. QED
        BY <3>0, <4>1
    <3>2. pr' \in [Tasks -> [PRNumbers -> PRStates]]
      BY <1>0, <1>5, <1>9 DEF DeleteBranch, WorldOK, PRStates
    <3>. QED
      BY <1>0, <1>9, <3>1, <3>2 DEF DeleteBranch, WorldOK
  <2>3. UNCHANGED <<row, session, started, faults>>
    BY <1>9 DEF DeleteBranch
  <2>. QED
    BY <1>0, <2>1, <2>2, <2>3, TypeParts DEF TypeOK, SessionsOK
<1>. QED
  BY <1>1, <1>2, <1>4, <1>6, <1>7, <1>8, <1>9 DEF PassStep

\* The types hold at first, and every step keeps them.
LEMMA InitType == Init => TypeOK
<1> SUFFICES ASSUME Init PROVE TypeOK
  OBVIOUS
<1>1. SeedOne(NoRow) \in Rows
  BY DEF SeedOne, NoRow, Rows, Statuses, FailureReasons, Ages
<1>2. row \in [Tasks -> Rows]
  BY <1>1 DEF Init
<1>3. WorldOK
  BY DEF Init, WorldOK, Branches, Directories, PRStates, Dirs
<1>4. SessionsOK /\ UpkeepOK /\ faults \in 0..MaxFaults
  BY WorktreeConstants DEF Init, SessionsOK, UpkeepOK, Places
<1>. QED
  BY <1>2, <1>3, <1>4, TypeParts

LEMMA NextType == TypeOK /\ [Next]_vars => TypeOK'
<1> SUFFICES ASSUME TypeOK, [Next]_vars PROVE TypeOK'
  OBVIOUS
<1>1. CASE UNCHANGED vars
  BY <1>1 DEF vars, TypeOK
<1>. QED
  BY <1>1, DispatchType, WorldStepType, RowStepType, PassStepType DEF Next

\* Every variable keeps its type, the upkeep process holds a task exactly between
\* two calls about it, and only sessions that were started ever run.
THEOREM WorktreeTypeCorrect == Spec => []TypeOK
  BY InitType, NextType, PTL DEF Spec

-----------------------------------------------------------------------------
(* Where the commits of a branch are *)

\* A session's commits that are on the remote or have landed are on the local
\* branch as well; what a fetch has seen of the default branch is there; and a
\* branch that does not exist has no commits.
Nested(g) ==
  /\ g.main \subseteq g.landed
  /\ g.landed \cap Attempts \subseteq g.local
  /\ g.remote \cap Attempts \subseteq g.local
  /\ g.seenMain \subseteq g.main
  /\ ~g.pushed => g.remote = {}

BranchesNested == \A t \in Tasks : Nested(git[t])

\* What the janitor deletes a branch for has landed.
CheckedHasLanded == pc = "deleting" => checked \subseteq git[held].landed

\* Fetches, commits, pushes, pulls and merges keep a task's commits nested and the
\* default branch as it is or grown.
LEMMA GitStep ==
  ASSUME TypeOK, BranchesNested, [Next]_vars, ~DeleteBranch, NEW u \in Tasks
  PROVE  /\ Nested(git'[u])
         /\ git[u].landed \subseteq git'[u].landed
         /\ git[u].local \subseteq git'[u].local
         /\ git[u].remote \subseteq git'[u].remote
         /\ git[u].stray \subseteq git'[u].stray
<1>. DEFINE Grown == /\ Nested(git'[u])
                     /\ git[u].landed \subseteq git'[u].landed
                     /\ git[u].local \subseteq git'[u].local
                     /\ git[u].remote \subseteq git'[u].remote
                     /\ git[u].stray \subseteq git'[u].stray
<1>. SUFFICES Grown
  OBVIOUS
<1>0. git \in [Tasks -> Branches] /\ Nested(git[u]) /\ disk \in [Tasks -> Directories]
  BY DEF TypeOK, BranchesNested
<1>1. CASE git' = git
  BY <1>0, <1>1
<1>2. CASE git' = Fetched
  BY <1>0, <1>2, FetchedType DEF Nested
<1>3. ASSUME NEW t \in Tasks, CommitWork(t) PROVE Grown
  <2>1. \/ git' = git
        \/ git' = [git EXCEPT ![t].local = @ \cup disk[t].dirty]
        \/ git' = [git EXCEPT ![t].stray = @ \cup disk[t].dirty]
    BY <1>3 DEF CommitWork
  <2>. QED
    BY <1>0, <2>1 DEF Nested, Branches
<1>4. ASSUME NEW t \in Tasks, PushBranch(t) PROVE Grown
  BY <1>0, <1>4 DEF PushBranch, FastForward, Nested, Branches
<1>5. ASSUME NEW t \in Tasks, WorkerPulls(t) PROVE Grown
  <2>1. git' = [Fetched EXCEPT ![t].local = @ \cup git[t].remote]
    BY <1>5 DEF WorkerPulls
  <2>. QED
    BY <1>0, <2>1, FetchedType DEF Nested, Branches
<1>6. ASSUME NEW t \in Tasks, OthersPush(t) PROVE Grown
  <2>1. Others \notin Attempts
    BY DEF Others, Attempts
  <2>. QED
    BY <1>0, <1>6, <2>1 DEF OthersPush, Nested, Branches
<1>7. ASSUME NEW t \in Tasks, NEW n \in PRNumbers, MergePR(t, n) PROVE Grown
  BY <1>0, <1>7 DEF MergePR, Nested, Branches
<1>8. ASSUME pc \in {"committing", "pushing", "deleting"} PROVE held \in Tasks
  BY <1>8 DEF TypeOK
<1>9. ASSUME NEW t \in Tasks, Dispatch(t) \/ ProvisionFails(t) PROVE git' \in {git, Fetched}
  BY <1>9 DEF Dispatch, Provision, ProvisionFails
<1>10. CASE ShipCommit
  BY <1>3, <1>8, <1>10 DEF ShipCommit
<1>11. CASE ShipPush
  BY <1>1, <1>4, <1>8, <1>11 DEF ShipPush
<1>12. ASSUME NEW t \in Tasks,
              \/ FinishSession(t) \/ Edit(t) \/ WorkerDrifts(t) \/ OpenPR(t)
              \/ Reap(t) \/ Watch(t) \/ PlanAgain(t) \/ GoStale(t)
              \/ \E n \in PRNumbers : Stamp(t, n) \/ ClosePR(t, n)
              \/ SkipShip(t) \/ ShipNoBranch(t) \/ BeginShip(t) \/ KeepBranch(t) \/ CheckBranch(t)
       PROVE  git' = git
  BY <1>12 DEF FinishSession, Edit, WorkerDrifts, OpenPR, Reap, Watch, PlanAgain, GoStale, Stamp,
     RowStep, ClosePR, SkipShip, ShipNoBranch, BeginShip, KeepBranch, CheckBranch, world
<1>13. CASE \/ LoadUnshipped \/ ListBranches \/ ListOpenPRs \/ EndPass
             \/ ShipCommitFails \/ ShipPushFails \/ ShipRaises \/ UNCHANGED vars
  <2>1. git' \in {git, Fetched}
    BY <1>13 DEF LoadUnshipped, ListBranches, ListOpenPRs, EndPass, BeginPass,
       ShipCommitFails, ShipPushFails, ShipRaises, world, vars
  <2>. QED
    BY <1>1, <1>2, <2>1
<1>. QED
  BY <1>1, <1>2, <1>3, <1>4, <1>5, <1>6, <1>7, <1>9, <1>10, <1>11, <1>12, <1>13
     DEF Next, PassStep, WorkerStep, GitHubStep, WorkerCommits, WorkerPushes

\* Each step keeps the branches nested and what the janitor's check covered landed.
LEMMA BranchStep ==
  ASSUME TypeOK, BranchesNested, CheckedHasLanded, [Next]_vars
  PROVE  BranchesNested' /\ CheckedHasLanded'
<1>0. git \in [Tasks -> Branches] /\ (pc = "deleting" => held \in Tasks)
  BY DEF TypeOK
<1>1. CASE DeleteBranch
  <2>1. /\ git' = [git EXCEPT ![held].remote = {}, ![held].seen = {}, ![held].pushed = FALSE]
        /\ pc' = "pruning" /\ held \in Tasks
    BY <1>0, <1>1 DEF DeleteBranch, DoneWith
  <2>2. BranchesNested'
    BY <1>0, <2>1 DEF BranchesNested, Nested, Branches
  <2>. QED
    BY <2>1, <2>2 DEF CheckedHasLanded
<1>2. CASE ~DeleteBranch
  <2>1. BranchesNested'
    BY <1>2, GitStep DEF BranchesNested
  <2>2. ASSUME pc' = "deleting" PROVE checked' \subseteq git'[held'].landed
    <3>1. CASE \E t \in Tasks : CheckBranch(t)
      <4>1. PICK t \in Tasks : CheckBranch(t)
        BY <3>1
      <4>2. /\ held' = t /\ checked' = git[t].seen /\ git' = git
            /\ git[t].seen \subseteq git[t].seenMain
        BY <4>1 DEF CheckBranch, Hold, HasUnmergedCommits, world
      <4>. QED
        BY <4>2 DEF BranchesNested, Nested
    <3>2. CASE ~\E t \in Tasks : CheckBranch(t)
      <4>1. pc = "deleting" /\ UNCHANGED <<held, checked>>
        BY <1>2, <2>2, <3>2 DEF Next, PassStep, WorkerStep, GitHubStep, Dispatch, ProvisionFails,
           FinishSession, Edit, WorkerCommits, WorkerPushes, WorkerPulls, WorkerDrifts, OpenPR,
           OthersPush, MergePR, ClosePR, Reap, Watch, PlanAgain, GoStale, Stamp, RowStep,
           SkipShip, ShipNoBranch, BeginShip, KeepBranch, Visit, Hold, DoneWith,
           LoadUnshipped, ListBranches, ListOpenPRs, EndPass, BeginPass,
           ShipCommit, ShipCommitFails, ShipPush, ShipPushFails, ShipRaises, upkeep, vars
      <4>2. git[held].landed \subseteq git'[held].landed
        BY <1>0, <1>2, <4>1, GitStep
      <4>. QED
        BY <4>1, <4>2 DEF CheckedHasLanded
    <3>. QED
      BY <3>1, <3>2
  <2>. QED
    BY <2>1, <2>2 DEF CheckedHasLanded
<1>. QED
  BY <1>1, <1>2

\* Whatever sessions, people, passes and GitHub push, pull, merge and delete, a
\* session's commits that are on the remote or have landed are on the task's local
\* branch too; and a branch is deleted only for commits that have landed, whoever
\* made them (branch_janitor.py:178-189).
THEOREM BranchesCorrect == Spec => [](BranchesNested /\ CheckedHasLanded)
<1>1. Init => BranchesNested /\ CheckedHasLanded
  BY DEF Init, BranchesNested, Nested, CheckedHasLanded
<1>2. TypeOK /\ (BranchesNested /\ CheckedHasLanded) /\ [Next]_vars
        => (BranchesNested /\ CheckedHasLanded)'
  BY BranchStep
<1>. QED
  BY <1>1, <1>2, WorktreeTypeCorrect, PTL DEF Spec

-----------------------------------------------------------------------------
(* Work is kept *)

\* Where a directory loses something, a branch or the directory's HEAD gains it, or
\* the directory is removed.
LEMMA DiskStep ==
  ASSUME TypeOK, [Next]_vars, NEW u \in Tasks
  PROVE  disk[u].dirty \cup disk[u].head
           \subseteq disk'[u].dirty \cup disk'[u].head \cup git'[u].local \cup git'[u].stray
                       \cup Removed(u)
<1>. DEFINE Safe == disk[u].dirty \cup disk[u].head
           \subseteq disk'[u].dirty \cup disk'[u].head \cup git'[u].local \cup git'[u].stray
                       \cup Removed(u)
<1>. SUFFICES Safe
  OBVIOUS
<1>0. /\ disk \in [Tasks -> Directories] /\ git \in [Tasks -> Branches]
      /\ \A t \in Tasks : disk[t] \in Directories
  BY DEF TypeOK
<1>1. CASE disk' = disk
  BY <1>1
<1>2. ASSUME NEW t \in Tasks, Dispatch(t) PROVE Safe
  <2>1. disk' = [disk EXCEPT ![t] = Provision(t).disk] /\ disk[t].dir # "clutter"
    BY <1>2 DEF Dispatch, Provisionable
  <2>2. CASE u # t
    BY <1>0, <2>1, <2>2
  <2>3. CASE u = t /\ Existing(disk[t])
    BY <1>0, <2>1, <2>3 DEF Provision
  <2>4. CASE u = t /\ ~Existing(disk[t])
    <3>1. disk'[u] = [ForceRemove(disk[u]) EXCEPT !.dir = "ours"]
      BY <1>0, <2>1, <2>4 DEF Provision
    <3>2. CASE Drifted(disk[u])
      <4>1. disk'[u].dir = "ours" /\ disk[u].dir # "ours"
        BY <3>1, <3>2 DEF ForceRemove, Emptied, Drifted
      <4>. QED
        BY <3>2, <4>1 DEF Removed
    <3>3. CASE ~Drifted(disk[u])
      <4>1. disk'[u].dirty = disk[u].dirty /\ disk'[u].head = disk[u].head
        BY <1>0, <3>1, <3>3 DEF ForceRemove, Directories
      <4>. QED
        BY <4>1
    <3>. QED
      BY <3>2, <3>3
  <2>. QED
    BY <2>2, <2>3, <2>4
<1>3. ASSUME NEW t \in Tasks, ProvisionFails(t) PROVE Safe
  <2>1. disk' = [disk EXCEPT ![t] = ForceRemove(disk[t])]
    BY <1>3 DEF ProvisionFails
  <2>2. CASE u = t /\ Drifted(disk[t])
    <3>1. disk'[u].dir = "none" /\ disk[u].dir # "none"
      BY <1>0, <2>1, <2>2 DEF ForceRemove, Emptied, Drifted
    <3>. QED
      BY <2>2, <3>1 DEF Removed
  <2>3. CASE u # t \/ ~Drifted(disk[t])
    BY <1>0, <2>1, <2>3 DEF ForceRemove
  <2>. QED
    BY <2>2, <2>3
<1>4. ASSUME NEW t \in Tasks, Edit(t) \/ WorkerDrifts(t) PROVE Safe
  BY <1>0, <1>4 DEF Edit, WorkerDrifts, Directories
<1>5. ASSUME NEW t \in Tasks, CommitWork(t) PROVE Safe
  <2>1. CASE disk[t].dir = "detached"
    <3>1. disk' = [disk EXCEPT ![t].dirty = {}, ![t].head = @ \cup disk[t].dirty]
      BY <1>5, <2>1 DEF CommitWork
    <3>. QED
      BY <1>0, <3>1 DEF Directories
  <2>2. CASE disk[t].dir # "detached"
    <3>1. /\ disk' = [disk EXCEPT ![t].dirty = {}]
          /\ \/ git' = [git EXCEPT ![t].local = @ \cup disk[t].dirty]
             \/ git' = [git EXCEPT ![t].stray = @ \cup disk[t].dirty]
      BY <1>5, <2>2 DEF CommitWork
    <3>. QED
      BY <1>0, <3>1 DEF Directories, Branches
  <2>. QED
    BY <2>1, <2>2
<1>6. CASE ShipCommit
  <2>1. held \in Tasks
    BY <1>6 DEF ShipCommit, TypeOK
  <2>. QED
    BY <1>5, <1>6, <2>1 DEF ShipCommit
<1>7. ASSUME NEW t \in Tasks,
              \/ FinishSession(t) \/ WorkerPushes(t) \/ WorkerPulls(t) \/ OpenPR(t) \/ OthersPush(t)
              \/ Reap(t) \/ Watch(t) \/ PlanAgain(t) \/ GoStale(t)
              \/ \E n \in PRNumbers : Stamp(t, n) \/ MergePR(t, n) \/ ClosePR(t, n)
              \/ SkipShip(t) \/ ShipNoBranch(t) \/ BeginShip(t) \/ KeepBranch(t) \/ CheckBranch(t)
      PROVE  disk' = disk
  BY <1>7 DEF FinishSession, WorkerPushes, WorkerPulls, OpenPR, OthersPush, Reap, Watch, PlanAgain,
     GoStale, Stamp, RowStep, MergePR, ClosePR, SkipShip, ShipNoBranch, BeginShip, KeepBranch,
     CheckBranch, world
<1>8. CASE \/ LoadUnshipped \/ ListBranches \/ ListOpenPRs \/ EndPass \/ DeleteBranch
           \/ ShipCommitFails \/ ShipPush \/ ShipPushFails \/ ShipRaises \/ UNCHANGED vars
  BY <1>1, <1>8 DEF LoadUnshipped, ListBranches, ListOpenPRs, EndPass, BeginPass, DeleteBranch,
     ShipCommitFails, ShipPush, ShipPushFails, ShipRaises, world, vars
<1>. QED
  BY <1>1, <1>2, <1>3, <1>4, <1>5, <1>6, <1>7, <1>8
     DEF Next, PassStep, WorkerStep, GitHubStep, WorkerCommits

\* Each step leaves a task's work where it is or moves it on: from the directory
\* to a branch, from the branch to the remote and to the default branch.
LEMMA WorkStep ==
  ASSUME TypeOK, BranchesNested, CheckedHasLanded, [Next]_vars, NEW u \in Tasks
  PROVE  Kept(u) \subseteq Kept(u)' \cup Removed(u) \cup PushedTooLate(u)
<1>1. CASE ~DeleteBranch
  BY <1>1, GitStep, DiskStep DEF Kept
<1>2. CASE DeleteBranch
  <2>1. /\ git' = [git EXCEPT ![held].remote = {}, ![held].seen = {}, ![held].pushed = FALSE]
        /\ pc = "deleting" /\ held \in Tasks /\ disk' = disk /\ git \in [Tasks -> Branches]
    BY <1>2 DEF DeleteBranch, TypeOK
  <2>2. CASE u # held
    BY <2>1, <2>2 DEF Kept
  <2>3. CASE u = held
    <3>1. /\ git'[u].local = git[u].local /\ git'[u].landed = git[u].landed
          /\ git'[u].stray = git[u].stray /\ ~git'[u].pushed
      BY <2>1, <2>3 DEF Branches
    <3>2. git[u].remote \subseteq git[u].local \cup git[u].landed \cup PushedTooLate(u)
      <4>1. git[u].remote \cap Attempts \subseteq git[u].local /\ (~git[u].pushed => git[u].remote = {})
        BY DEF BranchesNested, Nested
      <4>2. checked \subseteq git[u].landed
        BY <2>1, <2>3 DEF CheckedHasLanded
      <4>3. git[u].pushed => PushedTooLate(u) = git[u].remote \ (checked \cup Attempts)
        BY <3>1 DEF PushedTooLate
      <4>. QED
        BY <4>1, <4>2, <4>3
    <3>. QED
      BY <2>1, <3>1, <3>2 DEF Kept
  <2>. QED
    BY <2>2, <2>3
<1>. QED
  BY <1>1, <1>2

\* No step of any process loses work that was written, committed or pushed, except
\* what provision throws away with a worktree it finds on another branch or on none,
\* and what other people push after the fetch that a deletion was decided by
\* (worktree_provision.py:295-307, branch_janitor.py:164-189).
THEOREM WorkKept == Spec => WorkIsKept
<1>1. TypeOK /\ (BranchesNested /\ CheckedHasLanded) /\ [Next]_vars
        => [\A t \in Tasks : Kept(t) \subseteq Kept(t)' \cup Removed(t) \cup PushedTooLate(t)]_vars
  BY WorkStep
<1>. QED
  BY <1>1, WorktreeTypeCorrect, BranchesCorrect, PTL DEF Spec, WorkIsKept

===============================================================================
