---------------------------- MODULE LifecycleProofs ----------------------------
(***************************************************************************)
(* One engine on the database, be it a tick process or a daemon, takes     *)
(* every task through the life that module TaskLifecycle describes.  With  *)
(* a single tick the snapshots of its passes agree with the table; with    *)
(* the daemon alone no two sessions work on one task.  Both are needed for *)
(* the refinement: an UPDATE without a status check would otherwise take a *)
(* row back to a status that it has left.                                  *)
(***************************************************************************)
EXTENDS MergeProofs, FiniteSetTheorems

-----------------------------------------------------------------------------
(* What a step does to rows, whatever processes share the database *)

\* What each statement does to the status and the PR of the row it is run on.
LEMMA RowOperatorsEffect ==
  ASSUME NEW r \in Rows
  PROVE  /\ SeedOne(r).pr_number = r.pr_number
         /\ SeedOne(r).status = IF r.status = "absent" THEN "planned" ELSE r.status
         /\ TransitionToDispatched(r).pr_number = r.pr_number
         /\ TransitionToDispatched(r).status =
              IF r.status = "planned" THEN "dispatched" ELSE r.status
         /\ \A c \in Classifications :
              /\ RecordOutcome(r, c).pr_number = r.pr_number
              /\ RecordOutcome(r, c).status \in {"dispatched", "planned", "abandoned", "failed"}
         /\ Abandon(r).pr_number = r.pr_number
         /\ Abandon(r).status = IF r.status = "dispatched" THEN "abandoned" ELSE r.status
         /\ \A n \in PRNumbers :
              /\ StampPRNumber(r, n).pr_number = IF r.pr_number = NULL THEN n ELSE r.pr_number
              /\ StampPRNumber(r, n).status = r.status
         /\ StampProgress(r).pr_number = r.pr_number
         /\ StampProgress(r).status = r.status
         /\ TransitionToMerged(r).pr_number = r.pr_number
         /\ TransitionToMerged(r).status =
              IF r.status = "dispatched" THEN "merged" ELSE r.status
         /\ \A reason \in FailureReasons :
              /\ TransitionToFailed(r, reason).pr_number = r.pr_number
              /\ TransitionToFailed(r, reason).status =
                   IF r.status = "dispatched" THEN "failed" ELSE r.status
         /\ ResetToPlanned(r).pr_number =
              IF r.status \in {"failed", "abandoned"} THEN NULL ELSE r.pr_number
         /\ ResetToPlanned(r).status =
              IF r.status \in {"failed", "abandoned"} THEN "planned" ELSE r.status
<1> USE DEF Rows
<1>1. /\ SeedOne(r).pr_number = r.pr_number
      /\ SeedOne(r).status = IF r.status = "absent" THEN "planned" ELSE r.status
  BY DEF SeedOne
<1>2. /\ TransitionToDispatched(r).pr_number = r.pr_number
      /\ TransitionToDispatched(r).status =
           IF r.status = "planned" THEN "dispatched" ELSE r.status
  BY DEF TransitionToDispatched
<1>3. \A c \in Classifications :
        /\ RecordOutcome(r, c).pr_number = r.pr_number
        /\ RecordOutcome(r, c).status \in {"dispatched", "planned", "abandoned", "failed"}
  BY DEF RecordOutcome, OutcomeStatus, Classifications
<1>4. /\ Abandon(r).pr_number = r.pr_number
      /\ Abandon(r).status = IF r.status = "dispatched" THEN "abandoned" ELSE r.status
  BY DEF Abandon
<1>5. \A n \in PRNumbers :
        /\ StampPRNumber(r, n).pr_number = IF r.pr_number = NULL THEN n ELSE r.pr_number
        /\ StampPRNumber(r, n).status = r.status
  BY DEF StampPRNumber
<1>6. /\ StampProgress(r).pr_number = r.pr_number
      /\ StampProgress(r).status = r.status
  BY DEF StampProgress
<1>7. /\ TransitionToMerged(r).pr_number = r.pr_number
      /\ TransitionToMerged(r).status = IF r.status = "dispatched" THEN "merged" ELSE r.status
  BY DEF TransitionToMerged
<1>8. \A reason \in FailureReasons :
        /\ TransitionToFailed(r, reason).pr_number = r.pr_number
        /\ TransitionToFailed(r, reason).status =
             IF r.status = "dispatched" THEN "failed" ELSE r.status
  BY DEF TransitionToFailed
<1>9. /\ ResetToPlanned(r).pr_number =
           IF r.status \in {"failed", "abandoned"} THEN NULL ELSE r.pr_number
      /\ ResetToPlanned(r).status =
           IF r.status \in {"failed", "abandoned"} THEN "planned" ELSE r.status
  BY DEF ResetToPlanned
<1>. QED
  BY <1>1, <1>2, <1>3, <1>4, <1>5, <1>6, <1>7, <1>8, <1>9

LEMMA UpdateEffect ==
  ASSUME row \in [Tasks -> Rows], NEW t \in Tasks, NEW r, Update(t, r)
  PROVE  row'[t] = r /\ \A u \in Tasks \ {t} : row'[u] = row[u]
BY DEF Update

-----------------------------------------------------------------------------
(* A single tick process *)

OneTick == Slots = {} /\ \E p : Ticks = {p}

\* The rows that p has loaded and not visited yet.
ItemsAgree(p) ==
  \A i \in todo[p] :
    /\ pc[p] \in {"reaping", "stamping"} =>
         row[i.task].status = "dispatched" /\ row[i.task].pr_number = NULL
    /\ pc[p] = "recovering" => row[i.task].status \in {"failed", "abandoned"}
    /\ pc[p] \in {"watching", "merging"} =>
         row[i.task].status = "dispatched" /\ row[i.task].pr_number = i.pr

\* No row is visited twice in a pass.
VisitedOnce(p) ==
  /\ \A i, j \in todo[p] : i.task = j.task => i = j
  /\ pc[p] \in {"resetting", "observed", "reviewing", "approved"} =>
       \A i \in todo[p] : i.task # held[p].task

\* The rows that are left in a snapshot and have not been taken out of their pass
\* by the row that p holds.
OthersAgree(p) ==
  \A i \in todo[p] :
    /\ pc[p] = "resetting" => row[i.task].status \in {"failed", "abandoned"}
    /\ pc[p] \in {"observed", "reviewing", "approved"} =>
         row[i.task].status = "dispatched" /\ row[i.task].pr_number = i.pr

\* The row that p holds.
HoldAgrees(p) ==
  /\ pc[p] = "resetting" =>
       /\ row[held[p].task].status \in {"failed", "abandoned"}
       /\ attempts[held[p].task] = held[p].retries
  /\ pc[p] \in {"observed", "reviewing", "approved"} =>
       /\ row[held[p].task].status = "dispatched"
       /\ row[held[p].task].pr_number = held[p].pr

\* The row that p dispatches.
DispatchAgrees(p) ==
  /\ pc[p] = "provision" => row[held[p].task].status = "planned"
  /\ pc[p] = "session" => /\ row[held[p].task].status = "dispatched"
                          /\ row[held[p].task].pr_number = NULL

Agrees(p) ==
  ItemsAgree(p) /\ VisitedOnce(p) /\ OthersAgree(p) /\ HoldAgrees(p) /\ DispatchAgrees(p)

TickInv ==
  /\ MergeInv
  /\ PlannedRowsAreClean
  /\ \A p \in Procs : Agrees(p)

\* The pass has just loaded its rows.
LEMMA TickLoads ==
  ASSUME TickInv, NEW p \in Ticks,
         \/ ReapLoad(p) \/ RecoverLoad(p) \/ ListOpenPRs(p) \/ StampLoad(p)
         \/ WatchLoad(p) \/ MergeLoad(p)
  PROVE  Agrees(p)'
<1>0. /\ p \in Procs
      /\ row \in [Tasks -> Rows]
      /\ pc \in [Procs -> Places]
      /\ todo \in [Procs -> SUBSET Items]
      /\ UNCHANGED row
  BY DEF Procs, TickInv, MergeInv, TypeOK, TableOK, LocalOK, ReapLoad, RecoverLoad, ListOpenPRs,
         StampLoad, WatchLoad, MergeLoad, Load
<1>1. CASE ReapLoad(p) \/ RecoverLoad(p)
  <2>1. \/ /\ pc'[p] = "reaping"
           /\ todo'[p] = {[task |-> t, pr |-> NULL] : t \in {u \in Tasks : Reapable(row[u])}}
        \/ /\ pc'[p] = "recovering"
           /\ todo'[p] = {[task |-> t, pr |-> NULL] : t \in {u \in Tasks : RecoveryDue(row[u])}}
    BY <1>0, <1>1 DEF ReapLoad, RecoverLoad, Load, Goto
  <2>. QED
    BY <1>0, <2>1 DEF Agrees, ItemsAgree, VisitedOnce, OthersAgree, HoldAgrees, DispatchAgrees,
                      Reapable, IsOrphanReapable, RecoveryDue
<1>2. CASE ListOpenPRs(p)
  <2>1. /\ pc'[p] = "listed"
        /\ \A i, j \in todo'[p] : i.task = j.task => i = j
    BY <1>0, <1>2 DEF ListOpenPRs, Load, Goto
  <2>. QED
    BY <2>1 DEF Agrees, ItemsAgree, VisitedOnce, OthersAgree, HoldAgrees, DispatchAgrees
<1>3. CASE StampLoad(p)
  <2>1. /\ pc'[p] = "stamping"
        /\ todo'[p] = {i \in todo[p] : /\ row[i.task].status = "dispatched"
                                       /\ row[i.task].pr_number = NULL}
    BY <1>0, <1>3 DEF StampLoad, Goto
  <2>2. \A i, j \in todo[p] : i.task = j.task => i = j
    BY <1>0 DEF TickInv, Agrees, VisitedOnce
  <2>. QED
    BY <1>0, <2>1, <2>2 DEF Agrees, ItemsAgree, VisitedOnce, OthersAgree, HoldAgrees, DispatchAgrees
<1>4. CASE WatchLoad(p) \/ MergeLoad(p)
  <2>1. pc'[p] \in {"watching", "merging"} /\ todo'[p] = RowsWithPR
    BY <1>0, <1>4 DEF WatchLoad, MergeLoad, Load, Goto
  <2>2. \A i \in RowsWithPR : /\ row[i.task].status = "dispatched"
                              /\ row[i.task].pr_number = i.pr
                              /\ i = [task |-> i.task, pr |-> row[i.task].pr_number]
    BY DEF RowsWithPR, WithStatus
  <2>3. \A i, j \in RowsWithPR : i.task = j.task => i = j
    BY <2>2
  <2>. QED
    BY <1>0, <2>1, <2>2, <2>3
    DEF Agrees, ItemsAgree, VisitedOnce, OthersAgree, HoldAgrees, DispatchAgrees
<1>. QED
  BY <1>1, <1>2, <1>3, <1>4

\* The pass turns to a row, or goes on without having written one.
LEMMA TickReads ==
  ASSUME TickInv, NEW p \in Ticks,
         \/ CountRetries(p) \/ WatchGet(p) \/ MergeGet(p)
         \/ GetUnanswered(p, "watching") \/ GetUnanswered(p, "merging")
         \/ NotACandidate(p) \/ MergeRefused(p) \/ CriticApproves(p)
         \/ BeginTick(p) \/ SkipDispatch(p) \/ SkipMerge(p)
         \/ EndPass(p, "reaping", "recover") \/ EndPass(p, "recovering", "seed")
         \/ EndPass(p, "stamping", "watch") \/ EndPass(p, "watching", "merge")
         \/ EndPass(p, "merging", "idle")
  PROVE  Agrees(p)'
<1>0. /\ p \in Procs
      /\ row \in [Tasks -> Rows]
      /\ pc \in [Procs -> Places]
      /\ todo \in [Procs -> SUBSET Items]
      /\ held \in [Procs -> Holds]
      /\ Agrees(p)
  BY DEF Procs, TickInv, MergeInv, TypeOK, TableOK, LocalOK
<1>r. UNCHANGED <<row, attempts>>
  BY DEF CountRetries, WatchGet, MergeGet, Take, GetUnanswered, NotACandidate, MergeRefused,
         CriticApproves, BeginTick, SkipDispatch, SkipMerge, EndPass
<1>1. CASE CountRetries(p) \/ WatchGet(p) \/ MergeGet(p)
  <2>1. PICK i \in todo[p] :
          \/ Take(p, "recovering", "resetting", i, "none", attempts[i.task])
          \/ Take(p, "watching", "observed", i, pr[i.pr].state, 0)
          \/ Take(p, "merging", "reviewing", i, pr[i.pr].state, 0)
    BY <1>1 DEF CountRetries, WatchGet, MergeGet
  <2>2. /\ todo'[p] = todo[p] \ {i}
        /\ held'[p].task = i.task /\ held'[p].pr = i.pr
        /\ \/ /\ pc[p] = "recovering" /\ pc'[p] = "resetting"
              /\ held'[p].retries = attempts[i.task]
           \/ pc[p] = "watching" /\ pc'[p] = "observed"
           \/ pc[p] = "merging" /\ pc'[p] = "reviewing"
    BY <1>0, <2>1 DEF Take, At, Goto
  <2>3. \A j \in todo'[p] : j \in todo[p] /\ j.task # i.task
    BY <1>0, <2>2 DEF Agrees, VisitedOnce
  <2>4. ItemsAgree(p)' /\ DispatchAgrees(p)'
    BY <2>2 DEF ItemsAgree, DispatchAgrees
  <2>5. VisitedOnce(p)'
    BY <1>0, <2>2, <2>3 DEF Agrees, VisitedOnce
  <2>6. OthersAgree(p)'
    BY <1>0, <1>r, <2>2, <2>3 DEF Agrees, ItemsAgree, OthersAgree
  <2>7. HoldAgrees(p)'
    BY <1>0, <1>r, <2>1, <2>2 DEF Agrees, ItemsAgree, HoldAgrees
  <2>. QED
    BY <2>4, <2>5, <2>6, <2>7 DEF Agrees
<1>2. CASE GetUnanswered(p, "watching") \/ GetUnanswered(p, "merging")
  <2>1. /\ todo'[p] \subseteq todo[p]
        /\ UNCHANGED <<pc, held>>
    BY <1>0, <1>2 DEF GetUnanswered
  <2>. QED
    BY <1>0, <1>r, <2>1 DEF Agrees, ItemsAgree, VisitedOnce, OthersAgree, HoldAgrees, DispatchAgrees
<1>3. CASE NotACandidate(p) \/ MergeRefused(p)
  <2>1. pc[p] = "reviewing" /\ pc'[p] = "merging" /\ UNCHANGED todo
    BY <1>0, <1>3 DEF NotACandidate, MergeRefused, At, Release, Goto
  <2>. QED
    BY <1>0, <1>r, <2>1
    DEF Agrees, ItemsAgree, VisitedOnce, OthersAgree, HoldAgrees, DispatchAgrees
<1>4. CASE CriticApproves(p)
  <2>1. pc[p] = "reviewing" /\ pc'[p] = "approved" /\ UNCHANGED <<todo, held>>
    BY <1>0, <1>4 DEF CriticApproves, At, Goto
  <2>. QED
    BY <1>0, <1>r, <2>1
    DEF Agrees, ItemsAgree, VisitedOnce, OthersAgree, HoldAgrees, DispatchAgrees
<1>5. CASE \/ BeginTick(p) \/ SkipDispatch(p) \/ SkipMerge(p)
           \/ EndPass(p, "reaping", "recover") \/ EndPass(p, "recovering", "seed")
           \/ EndPass(p, "stamping", "watch") \/ EndPass(p, "watching", "merge")
           \/ EndPass(p, "merging", "idle")
  <2>1. /\ pc'[p] \in {"reap", "stamp", "idle", "recover", "seed", "watch", "merge"}
        /\ UNCHANGED todo
    BY <1>0, <1>5 DEF BeginTick, SkipDispatch, SkipMerge, EndPass, Goto
  <2>. QED
    BY <1>0, <2>1 DEF Agrees, ItemsAgree, VisitedOnce, OthersAgree, HoldAgrees, DispatchAgrees
<1>. QED
  BY <1>1, <1>2, <1>3, <1>4, <1>5

\* The pass writes the row of an item and strikes the item out.
LEMMA TickVisits ==
  ASSUME TickInv, NEW p \in Ticks, ReapOne(p) \/ StampOne(p)
  PROVE  Agrees(p)' /\ PlannedRowsAreClean'
<1>0. /\ p \in Procs
      /\ row \in [Tasks -> Rows]
      /\ todo \in [Procs -> SUBSET Items]
      /\ Agrees(p)
      /\ PlannedRowsAreClean
  BY DEF Procs, TickInv, MergeInv, TypeOK, TableOK, LocalOK
<1>1. PICK i \in todo[p] :
        /\ \/ pc[p] = "reaping" /\ Update(i.task, Abandon(row[i.task]))
           \/ pc[p] = "stamping" /\ Update(i.task, StampPRNumber(row[i.task], i.pr))
        /\ todo' = [todo EXCEPT ![p] = @ \ {i}]
        /\ UNCHANGED <<pc, held>>
  BY DEF ReapOne, StampOne, At
<1>2. i.task \in Tasks /\ (pc[p] = "stamping" => i.pr \in PRNumbers)
  BY <1>0, <1>1 DEF TickInv, MergeInv, TypeOK, LocalOK, Items, PRPlaces
<1>3. \A j \in todo'[p] : j \in todo[p] /\ j.task # i.task /\ j.task \in Tasks
  BY <1>0, <1>1 DEF Agrees, VisitedOnce, Items
<1>4. /\ \A u \in Tasks \ {i.task} : row'[u] = row[u]
      /\ row'[i.task].status \in {"dispatched", "abandoned"}
  <2>1. row[i.task].status = "dispatched"
    BY <1>0, <1>1 DEF Agrees, ItemsAgree
  <2>. QED
    BY <1>0, <1>1, <1>2, <2>1, UpdateEffect, RowOperatorsEffect
<1>5. Agrees(p)'
  <2>1. ItemsAgree(p)'
    BY <1>0, <1>1, <1>3, <1>4 DEF Agrees, ItemsAgree
  <2>2. VisitedOnce(p)'
    BY <1>0, <1>1, <1>3 DEF Agrees, VisitedOnce
  <2>3. pc'[p] \in {"reaping", "stamping"}
    BY <1>1
  <2>. QED
    BY <2>1, <2>2, <2>3 DEF Agrees, OthersAgree, HoldAgrees, DispatchAgrees
<1>6. PlannedRowsAreClean'
  BY <1>0, <1>2, <1>4 DEF PlannedRowsAreClean
<1>. QED
  BY <1>5, <1>6

\* The pass writes the row that it holds and lets it go.
LEMMA TickDecides ==
  ASSUME TickInv, NEW p \in Ticks,
         \/ Reset(p) \/ Exhausted(p) \/ WatchApply(p) \/ AlreadyMerged(p)
         \/ CriticRejects(p) \/ RecordMerge(p)
  PROVE  Agrees(p)' /\ PlannedRowsAreClean'
<1> DEFINE t == held[p].task
<1>0. /\ p \in Procs
      /\ row \in [Tasks -> Rows]
      /\ pc \in [Procs -> Places]
      /\ todo \in [Procs -> SUBSET Items]
      /\ Agrees(p)
      /\ PlannedRowsAreClean
  BY DEF Procs, TickInv, MergeInv, TypeOK, TableOK, LocalOK
<1>1. t \in Tasks
  BY <1>0 DEF TickInv, MergeInv, TypeOK, LocalOK, HoldingPlaces, Reset, Exhausted, WatchApply,
              AlreadyMerged, CriticRejects, RecordMerge, At
<1>2. /\ \/ pc[p] = "resetting" /\ pc'[p] = "recovering"
         \/ /\ pc[p] \in {"observed", "reviewing", "approved"}
            /\ pc'[p] \in {"watching", "merging"}
      /\ UNCHANGED todo
  BY <1>0 DEF Reset, Exhausted, WatchApply, AlreadyMerged, CriticRejects, RecordMerge, At, Release, Goto
<1>3. PICK reason \in {"pr_closed_unmerged", "critic_rejected"} :
        \/ pc[p] = "resetting" /\ Update(t, ResetToPlanned(row[t]))
        \/ Update(t, StampProgress(row[t]))
        \/ pc[p] # "resetting" /\ Update(t, TransitionToMerged(row[t]))
        \/ pc[p] # "resetting" /\ Update(t, TransitionToFailed(row[t], reason))
  BY DEF Reset, Exhausted, WatchApply, AlreadyMerged, CriticRejects, RecordMerge, At
<1>4. /\ \A u \in Tasks \ {t} : row'[u] = row[u]
      /\ \/ row'[t].pr_number = NULL
         \/ row'[t].status \notin {"absent", "planned"}
  <2>1. IF pc[p] = "resetting" THEN row[t].status \in {"failed", "abandoned"}
                               ELSE row[t].status = "dispatched"
    BY <1>0, <1>2 DEF Agrees, HoldAgrees
  <2>2. row[t] \in Rows /\ reason \in FailureReasons
    BY <1>0, <1>1 DEF FailureReasons
  <2>3. CASE pc[p] = "resetting" /\ Update(t, ResetToPlanned(row[t]))
    BY <1>0, <1>1, <2>1, <2>2, <2>3, UpdateEffect, RowOperatorsEffect
  <2>4. CASE Update(t, StampProgress(row[t]))
    BY <1>0, <1>1, <2>1, <2>2, <2>4, UpdateEffect, RowOperatorsEffect
  <2>5. CASE pc[p] # "resetting" /\ Update(t, TransitionToMerged(row[t]))
    BY <1>0, <1>1, <2>1, <2>2, <2>5, UpdateEffect, RowOperatorsEffect
  <2>6. CASE pc[p] # "resetting" /\ Update(t, TransitionToFailed(row[t], reason))
    BY <1>0, <1>1, <2>1, <2>2, <2>6, UpdateEffect, RowOperatorsEffect
  <2>. QED
    BY <1>3, <2>3, <2>4, <2>5, <2>6
<1>5. \A i \in todo[p] : i.task \in Tasks /\ i.task # t /\ row'[i.task] = row[i.task]
  BY <1>0, <1>2, <1>4 DEF Agrees, VisitedOnce, Items
<1>6. Agrees(p)'
  BY <1>0, <1>2, <1>5
  DEF Agrees, ItemsAgree, VisitedOnce, OthersAgree, HoldAgrees, DispatchAgrees
<1>7. PlannedRowsAreClean'
  BY <1>0, <1>1, <1>4 DEF PlannedRowsAreClean
<1>. QED
  BY <1>6, <1>7

\* A task is seeded between two passes, when the tick holds nothing.
LEMMA TickSeeds ==
  ASSUME TickInv, NEW p \in Ticks, Seed(p)
  PROVE  Agrees(p)' /\ PlannedRowsAreClean'
<1>0. /\ p \in Procs
      /\ row \in [Tasks -> Rows]
      /\ pc \in [Procs -> Places]
      /\ Agrees(p)
      /\ PlannedRowsAreClean
  BY DEF Procs, TickInv, MergeInv, TypeOK, TableOK, LocalOK
<1>1. pc'[p] \in {"dispatch", "idle"} /\ UNCHANGED todo
  BY <1>0 DEF Seed, Goto
<1>2. Agrees(p)'
  BY <1>0, <1>1 DEF Agrees, ItemsAgree, VisitedOnce, OthersAgree, HoldAgrees, DispatchAgrees
<1>3. CASE UNCHANGED row
  BY <1>0, <1>2, <1>3 DEF PlannedRowsAreClean
<1>4. CASE \E t \in WithStatus("absent") : Update(t, SeedOne(row[t]))
  <2>1. PICK t \in Tasks : row[t].status = "absent" /\ Update(t, SeedOne(row[t]))
    BY <1>4 DEF WithStatus
  <2>2. row'[t].pr_number = NULL /\ \A u \in Tasks \ {t} : row'[u] = row[u]
    BY <1>0, <2>1, UpdateEffect, RowOperatorsEffect DEF PlannedRowsAreClean
  <2>. QED
    BY <1>0, <1>2, <2>2 DEF PlannedRowsAreClean
<1>. QED
  BY <1>3, <1>4 DEF Seed, SeedRow

\* The tick picks a row, claims it, and writes what its session came to.
LEMMA TickDispatches ==
  ASSUME TickInv, NEW p \in Ticks, DispatchStep(p)
  PROVE  Agrees(p)' /\ PlannedRowsAreClean'
<1> DEFINE t == held[p].task
<1>0. /\ p \in Procs
      /\ row \in [Tasks -> Rows]
      /\ pc \in [Procs -> Places]
      /\ held \in [Procs -> Holds]
      /\ Agrees(p)
      /\ PlannedRowsAreClean
      /\ UNCHANGED <<todo, attempts>>
  BY DEF Procs, TickInv, MergeInv, TypeOK, TableOK, LocalOK, DispatchStep, PickNextPlanned,
         ProvisionFails, Claim, FinishSession
<1>t. pc[p] \in {"provision", "session"} => t \in Tasks
  BY <1>0 DEF TickInv, MergeInv, TypeOK, LocalOK, HoldingPlaces
<1>1. CASE PickNextPlanned(p)
  <2>1. PICK u \in Tasks : /\ row[u].status = "planned"
                           /\ held' = [held EXCEPT ![p] = [NoHold EXCEPT !.task = u]]
    BY <1>1 DEF PickNextPlanned, WithStatus
  <2>2. held'[p].task = u
    BY <1>0, <2>1 DEF NoHold
  <2>3. pc'[p] = "provision" /\ UNCHANGED row
    BY <1>0, <1>1 DEF PickNextPlanned, Goto
  <2>. QED
    BY <1>0, <2>1, <2>2, <2>3 DEF Agrees, ItemsAgree, VisitedOnce, OthersAgree, HoldAgrees,
                                  DispatchAgrees, PlannedRowsAreClean
<1>2. CASE ProvisionFails(p)
  <2>1. pc'[p] = "idle" /\ UNCHANGED row
    BY <1>0, <1>2 DEF ProvisionFails, Release, Goto
  <2>. QED
    BY <1>0, <2>1 DEF Agrees, ItemsAgree, VisitedOnce, OthersAgree, HoldAgrees,
                      DispatchAgrees, PlannedRowsAreClean
<1>3. CASE Claim(p)
  <2>1. /\ pc[p] = "provision" /\ pc'[p] = "session"
        /\ Update(t, TransitionToDispatched(row[t]))
        /\ UNCHANGED held
    BY <1>0, <1>3 DEF Claim, At, Goto
  <2>2. row[t].status = "planned" /\ row[t].pr_number = NULL
    BY <1>0, <1>t, <2>1 DEF Agrees, DispatchAgrees, PlannedRowsAreClean
  <2>3. /\ row'[t].status = "dispatched" /\ row'[t].pr_number = NULL
        /\ \A u \in Tasks \ {t} : row'[u] = row[u]
    BY <1>0, <1>t, <2>1, <2>2, UpdateEffect, RowOperatorsEffect
  <2>4. Agrees(p)'
    BY <1>0, <2>1, <2>3 DEF Agrees, ItemsAgree, VisitedOnce, OthersAgree, HoldAgrees, DispatchAgrees
  <2>5. PlannedRowsAreClean'
    BY <1>0, <2>3 DEF PlannedRowsAreClean
  <2>. QED
    BY <2>4, <2>5
<1>4. CASE FinishSession(p)
  <2>1. pc[p] = "session" /\ pc'[p] \in {"idle", "stamp"}
    BY <1>0, <1>4 DEF FinishSession, At, AfterDispatch, Release, Goto
  <2>2. PICK c \in Classifications : Update(t, RecordOutcome(row[t], c))
    BY <1>4 DEF FinishSession, MaybeUpgrade, Classifications
  <2>3. row[t].pr_number = NULL
    BY <1>0, <2>1 DEF Agrees, DispatchAgrees
  <2>4. row'[t].pr_number = NULL /\ \A u \in Tasks \ {t} : row'[u] = row[u]
    BY <1>0, <1>t, <2>1, <2>2, <2>3, UpdateEffect, RowOperatorsEffect
  <2>5. Agrees(p)'
    BY <1>0, <2>1 DEF Agrees, ItemsAgree, VisitedOnce, OthersAgree, HoldAgrees, DispatchAgrees
  <2>6. PlannedRowsAreClean'
    BY <1>0, <2>4 DEF PlannedRowsAreClean
  <2>. QED
    BY <2>5, <2>6
<1>. QED
  BY <1>1, <1>2, <1>3, <1>4 DEF DispatchStep

\* Workers, users and the clock change neither status nor PR of a row.
LEMMA EnvironmentKeeps ==
  ASSUME TypeOK, Environment
  PROVE  /\ UNCHANGED <<attempts, local>>
         /\ \A t \in Tasks : /\ row'[t].status = row[t].status
                             /\ row'[t].pr_number = row[t].pr_number
<1>0. row \in [Tasks -> Rows]
  BY DEF TypeOK, TableOK
<1>1. UNCHANGED <<attempts, local>>
  BY DEF Environment, OpenPR, OrphanEnds, GoStale, CoolDown, HumanMerges, HumanCloses,
         HumanReopens, SetPRState, local
<1>2. CASE UNCHANGED row
  BY <1>1, <1>2
<1>3. CASE \E t \in Tasks : GoStale(t) \/ CoolDown(t)
  BY <1>0, <1>1, <1>3 DEF GoStale, CoolDown, Update, Rows
<1>. QED
  BY <1>2, <1>3
  DEF Environment, OpenPR, OrphanEnds, HumanMerges, HumanCloses, HumanReopens, SetPRState

LEMMA TickInvStep ==
  ASSUME OneTick, TickInv, [Next]_vars
  PROVE  TickInv'
<1>0. MergeInv'
  BY MergeInvStep DEF TickInv
<1>1. SUFFICES PlannedRowsAreClean' /\ \A p \in Procs : Agrees(p)'
  BY <1>0 DEF TickInv
<1>2. Slots = {} /\ \A p, q \in Procs : p = q
  BY DEF OneTick, Procs
<1>3. ASSUME NEW p \in Ticks, TickStep(p) \/ DispatchStep(p)
      PROVE  Agrees(p)' /\ PlannedRowsAreClean'
  <2>1. CASE DispatchStep(p)
    BY <2>1, TickDispatches
  <2>2. CASE ReapOne(p) \/ StampOne(p)
    BY <2>2, TickVisits
  <2>3. CASE \/ Reset(p) \/ Exhausted(p) \/ WatchApply(p) \/ AlreadyMerged(p)
             \/ CriticRejects(p) \/ RecordMerge(p)
    BY <2>3, TickDecides
  <2>4. CASE Seed(p)
    BY <2>4, TickSeeds
  <2>5. UNCHANGED row => PlannedRowsAreClean'
    BY DEF TickInv, PlannedRowsAreClean
  <2>6. CASE \/ ReapLoad(p) \/ RecoverLoad(p) \/ ListOpenPRs(p) \/ StampLoad(p)
             \/ WatchLoad(p) \/ MergeLoad(p)
    <3>1. UNCHANGED row
      BY <2>6 DEF ReapLoad, RecoverLoad, ListOpenPRs, StampLoad, WatchLoad, MergeLoad, Load
    <3>. QED
      BY <2>5, <2>6, <3>1, TickLoads
  <2>7. CASE \/ CountRetries(p) \/ WatchGet(p) \/ MergeGet(p)
             \/ GetUnanswered(p, "watching") \/ GetUnanswered(p, "merging")
             \/ NotACandidate(p) \/ MergeRefused(p) \/ CriticApproves(p)
             \/ BeginTick(p) \/ SkipDispatch(p) \/ SkipMerge(p)
             \/ EndPass(p, "reaping", "recover") \/ EndPass(p, "recovering", "seed")
             \/ EndPass(p, "stamping", "watch") \/ EndPass(p, "watching", "merge")
             \/ EndPass(p, "merging", "idle")
    <3>1. UNCHANGED row
      BY <2>7 DEF CountRetries, WatchGet, MergeGet, Take, GetUnanswered, NotACandidate,
                  MergeRefused, CriticApproves, BeginTick, SkipDispatch, SkipMerge, EndPass
    <3>. QED
      BY <2>5, <2>7, <3>1, TickReads
  <2>. QED
    BY <1>3, <2>1, <2>2, <2>3, <2>4, <2>6, <2>7 DEF TickStep
<1>4. CASE (\E p \in Procs : DispatchStep(p)) \/ (\E p \in Ticks : TickStep(p))
  BY <1>2, <1>3, <1>4 DEF Procs
<1>5. CASE (\E p \in Ticks : CrashTick(p)) \/ CrashDaemon
  <2>1. PICK p \in Procs : CrashAll({p})
    BY <1>2, <1>5 DEF CrashTick, CrashDaemon, Procs
  <2>2. \A q \in Procs : pc'[q] = "idle" /\ todo'[q] = {}
    BY <1>2, <2>1 DEF CrashAll
  <2>3. UNCHANGED row
    BY <2>1 DEF CrashAll
  <2>. QED
    BY <2>2, <2>3 DEF TickInv, PlannedRowsAreClean, Agrees, ItemsAgree, VisitedOnce,
                      OthersAgree, HoldAgrees, DispatchAgrees
<1>6. CASE DaemonSeed
  BY <1>2, <1>6 DEF DaemonSeed
<1>7. CASE Environment \/ UNCHANGED vars
  <2>1. /\ UNCHANGED <<attempts, pc, todo, held>>
        /\ \A t \in Tasks : /\ row'[t].status = row[t].status
                            /\ row'[t].pr_number = row[t].pr_number
    BY <1>7, EnvironmentKeeps DEF TickInv, MergeInv, vars, local
  <2>2. PlannedRowsAreClean'
    BY <2>1 DEF TickInv, PlannedRowsAreClean
  <2>3. ASSUME NEW p \in Procs PROVE Agrees(p)'
    <3>1. /\ Agrees(p)
          /\ \A i \in todo[p] : i.task \in Tasks
          /\ pc[p] \in HoldingPlaces => held[p].task \in Tasks
      BY DEF TickInv, MergeInv, TypeOK, LocalOK, Items
    <3>. QED
      BY <2>1, <3>1 DEF Agrees, ItemsAgree, VisitedOnce, OthersAgree, HoldAgrees,
                        DispatchAgrees, HoldingPlaces
  <2>. QED
    BY <2>2, <2>3
<1>. QED
  BY <1>4, <1>5, <1>6, <1>7 DEF Next

LEMMA TickInvInit == Init => TickInv
<1> SUFFICES ASSUME Init PROVE TickInv
  OBVIOUS
<1>1. PlannedRowsAreClean
  BY DEF Init, NoRow, PlannedRowsAreClean
<1>2. \A p \in Procs : Agrees(p)
  BY DEF Init, Agrees, ItemsAgree, VisitedOnce, OthersAgree, HoldAgrees, DispatchAgrees
<1>. QED
  BY <1>1, <1>2, MergeInvInit DEF TickInv

\* While one tick process runs, the snapshot of each pass agrees with the table
\* when the pass acts on it, whatever crashes, workers and users do: the missing
\* status checks of heartbeat.py, pr_watcher.py, auto_merge.py and auto_recover.py
\* do no harm.
THEOREM SnapshotsCorrect ==
  ASSUME OneTick
  PROVE  Spec => []SnapshotsAgree
<1>1. TickInv => SnapshotsAgree
  BY DEF TickInv, SnapshotsAgree, Agrees, ItemsAgree, HoldAgrees
<1>2. TickInv /\ [Next]_vars => TickInv'
  BY TickInvStep
<1>. QED
  BY <1>1, <1>2, TickInvInit, PTL DEF Spec

\* The outcome that dispatch.py writes without a status check overwrites nothing.
THEOREM SessionCorrect ==
  ASSUME OneTick
  PROVE  Spec => []SessionOwnsRow
<1>1. TickInv => SessionOwnsRow
  BY DEF TickInv, SessionOwnsRow, Agrees, DispatchAgrees
<1>2. TickInv /\ [Next]_vars => TickInv'
  BY TickInvStep
<1>. QED
  BY <1>1, <1>2, TickInvInit, PTL DEF Spec

\* No attempt at a task can be decided by the pull request of an earlier one.
THEOREM PlannedRowsCorrect ==
  ASSUME OneTick
  PROVE  Spec => []PlannedRowsAreClean
<1>1. TickInv => PlannedRowsAreClean
  BY DEF TickInv
<1>2. TickInv /\ [Next]_vars => TickInv'
  BY TickInvStep
<1>. QED
  BY <1>1, <1>2, TickInvInit, PTL DEF Spec

\* heartbeat.py and dispatch.py leave a row with a recorded PR to pr_watcher.py
\* and auto_merge.py, although neither asks for the PR when it writes.
THEOREM WatcherCorrect ==
  ASSUME OneTick
  PROVE  Spec => WatcherOwnsPRRows
<1> DEFINE Owned == \A t \in Tasks :
                      row[t].status = "dispatched" /\ row[t].pr_number # NULL
                        => row'[t].status \in {"dispatched", "merged", "failed"}
<1>1. TickInv /\ [Next]_vars => [Owned]_vars
  <2> SUFFICES ASSUME TickInv, Next PROVE Owned
    OBVIOUS
  <2>0. row \in [Tasks -> Rows] /\ TypeOK
    BY DEF TickInv, MergeInv, TypeOK, TableOK
  <2>1. ASSUME NEW t \in Tasks, NEW r, Update(t, r),
               \/ row[t].status # "dispatched" \/ row[t].pr_number = NULL
               \/ r.status \in {"dispatched", "merged", "failed"}
        PROVE  Owned
    BY <2>0, <2>1, UpdateEffect
  <2>2. CASE DaemonSeed \/ \E p \in Ticks : Seed(p)
    <3>1. UNCHANGED row \/ \E t \in Tasks : row[t].status = "absent" /\ Update(t, SeedOne(row[t]))
      BY <2>2 DEF DaemonSeed, Seed, SeedRow, WithStatus
    <3>. QED
      BY <2>1, <3>1
  <2>3. CASE \E p \in Procs : Claim(p) \/ FinishSession(p)
    <3>1. PICK p \in Procs : Claim(p) \/ FinishSession(p)
      BY <2>3
    <3>2. held[p].task \in Tasks /\ row[held[p].task].pr_number = NULL
      BY <2>0, <3>1 DEF Claim, FinishSession, At, TypeOK, LocalOK, HoldingPlaces,
                        TickInv, Agrees, DispatchAgrees, PlannedRowsAreClean
    <3>3. \E r : Update(held[p].task, r)
      BY <3>1 DEF Claim, FinishSession
    <3>. QED
      BY <2>1, <3>2, <3>3
  <2>4. CASE \E p \in Ticks : ReapOne(p) \/ StampOne(p)
    <3>1. PICK p \in Ticks : ReapOne(p) \/ StampOne(p)
      BY <2>4
    <3>2. PICK i \in todo[p] : \E r : Update(i.task, r)
      BY <3>1 DEF ReapOne, StampOne
    <3>3. i.task \in Tasks /\ row[i.task].pr_number = NULL
      BY <2>0, <3>1, <3>2 DEF ReapOne, StampOne, At, TypeOK, LocalOK, Items, Procs,
                              TickInv, Agrees, ItemsAgree
    <3>. QED
      BY <2>1, <3>2, <3>3
  <2>5. CASE \E p \in Ticks : \/ Reset(p) \/ Exhausted(p) \/ WatchApply(p)
                              \/ AlreadyMerged(p) \/ CriticRejects(p) \/ RecordMerge(p)
    <3>1. PICK p \in Ticks : \/ Reset(p) \/ Exhausted(p) \/ WatchApply(p)
                             \/ AlreadyMerged(p) \/ CriticRejects(p) \/ RecordMerge(p)
      BY <2>5
    <3> DEFINE t == held[p].task
    <3>2. t \in Tasks
      BY <2>0, <3>1 DEF Reset, Exhausted, WatchApply, AlreadyMerged, CriticRejects, RecordMerge,
                        At, TypeOK, LocalOK, HoldingPlaces, Procs
    <3>3. CASE Reset(p) \/ Exhausted(p)
      <4>1. row[t].status # "dispatched"
        BY <3>3 DEF Reset, Exhausted, At, Procs, TickInv, Agrees, HoldAgrees
      <4>2. \E r : Update(t, r)
        BY <3>3 DEF Reset, Exhausted
      <4>. QED
        BY <2>1, <3>2, <4>1, <4>2
    <3>4. CASE WatchApply(p) \/ AlreadyMerged(p) \/ CriticRejects(p) \/ RecordMerge(p)
      <4>1. PICK reason \in FailureReasons :
              \/ Update(t, StampProgress(row[t]))
              \/ Update(t, TransitionToMerged(row[t]))
              \/ Update(t, TransitionToFailed(row[t], reason))
        BY <3>4 DEF WatchApply, AlreadyMerged, CriticRejects, RecordMerge, FailureReasons
      <4>2. row[t].status = "dispatched" /\ row[t] \in Rows
        BY <2>0, <3>2, <3>4 DEF WatchApply, AlreadyMerged, CriticRejects, RecordMerge, At, Procs,
                                TickInv, Agrees, HoldAgrees
      <4>. QED
        BY <2>1, <3>2, <4>1, <4>2, RowOperatorsEffect
    <3>. QED
      BY <3>1, <3>3, <3>4
  <2>6. CASE Environment \/ UNCHANGED row
    BY <2>0, <2>6, EnvironmentKeeps
  <2>. QED
    BY <2>2, <2>3, <2>4, <2>5, <2>6
    DEF Next, DispatchStep, PickNextPlanned, ProvisionFails, TickStep, BeginTick, ReapLoad,
        RecoverLoad, CountRetries, SkipDispatch, ListOpenPRs, StampLoad, WatchLoad, WatchGet,
        GetUnanswered, MergeLoad, SkipMerge, MergeGet, NotACandidate, CriticApproves, MergeRefused,
        Load, EndPass, Take, CrashTick, CrashDaemon, CrashAll
<1>2. TickInv /\ [Next]_vars => TickInv'
  BY TickInvStep
<1>. QED
  BY <1>1, <1>2, TickInvInit, PTL DEF Spec, WatcherOwnsPRRows

-----------------------------------------------------------------------------
(* The daemon alone *)

DaemonAlone == Ticks = {}

\* Picking, provisioning and claiming are one section of the event loop: one slot
\* at a time is in it, and the row it has picked is still planned.
ClaimIsExclusive ==
  \A p \in Procs : pc[p] = "provision" =>
    /\ row[held[p].task].status = "planned"
    /\ \A q \in Procs \ {p} : pc[q] # "provision"

HasSession(t) ==
  \/ t \in orphans
  \/ \E p \in Procs : pc[p] = "session" /\ held[p].task = t

\* A task that has a session is dispatched, that of a crashed daemon included.
SessionsAreDispatched ==
  \A t \in Tasks : HasSession(t) => row[t].status = "dispatched"

DaemonInv ==
  /\ TypeOK
  /\ \A p \in Procs : pc[p] \in {"idle", "provision", "session"}
  /\ ClaimIsExclusive
  /\ SessionsAreDispatched
  /\ AtMostOneSession

\* A slot's own steps.
LEMMA SlotStep ==
  ASSUME DaemonAlone, DaemonInv, NEW p \in Procs, DispatchStep(p)
  PROVE  DaemonInv'
<1> DEFINE t == held[p].task
<1>0. /\ p \in Slots
      /\ row \in [Tasks -> Rows]
      /\ pc \in [Procs -> Places]
      /\ held \in [Procs -> Holds]
      /\ \A q \in Procs : pc[q] \in {"idle", "provision", "session"}
  BY DEF DaemonAlone, DaemonInv, Procs, TypeOK, TableOK, LocalOK
<1>1. TypeOK'
  BY DispatchStepType DEF DaemonInv
<1>2. /\ \A q \in Procs \ {p} : pc'[q] = pc[q] /\ held'[q] = held[q]
      /\ UNCHANGED orphans
  BY <1>0 DEF DispatchStep, PickNextPlanned, ProvisionFails, Claim, FinishSession, Release, Goto, external
<1>t. pc[p] \in {"provision", "session"} => t \in Tasks
  BY DEF DaemonInv, TypeOK, LocalOK, HoldingPlaces
<1>3. CASE PickNextPlanned(p)
  <2>1. PICK u \in Tasks : /\ row[u].status = "planned"
                           /\ held' = [held EXCEPT ![p] = [NoHold EXCEPT !.task = u]]
    BY <1>3 DEF PickNextPlanned, WithStatus
  <2>2. held'[p].task = u
    BY <1>0, <2>1 DEF NoHold
  <2>3. /\ pc[p] = "idle" /\ pc'[p] = "provision" /\ UNCHANGED row
        /\ \A q \in Procs \ {p} : pc[q] # "provision"
    BY <1>0, <1>3 DEF PickNextPlanned, At, Goto, EventLoopFree, DaemonAlone, Procs
  <2>4. ClaimIsExclusive'
    BY <1>2, <2>1, <2>2, <2>3 DEF ClaimIsExclusive
  <2>5. \A u1 \in Tasks : HasSession(u1)' => HasSession(u1)
    BY <1>2, <2>3 DEF HasSession
  <2>6. SessionsAreDispatched'
    BY <2>3, <2>5 DEF DaemonInv, SessionsAreDispatched
  <2>7. AtMostOneSession'
    BY <1>2, <2>3 DEF DaemonInv, AtMostOneSession
  <2>8. \A q \in Procs : pc'[q] \in {"idle", "provision", "session"}
    BY <1>0, <1>2, <2>3
  <2>. QED
    BY <1>1, <2>4, <2>6, <2>7, <2>8 DEF DaemonInv
<1>4. CASE ProvisionFails(p)
  <2>1. pc[p] = "provision" /\ pc'[p] = "idle" /\ UNCHANGED row
    BY <1>0, <1>4 DEF ProvisionFails, At, Release, Goto
  <2>2. ClaimIsExclusive'
    BY <1>2, <2>1 DEF DaemonInv, ClaimIsExclusive
  <2>3. \A u \in Tasks : HasSession(u)' => HasSession(u)
    BY <1>2, <2>1 DEF HasSession
  <2>4. SessionsAreDispatched'
    BY <2>1, <2>3 DEF DaemonInv, SessionsAreDispatched
  <2>5. AtMostOneSession'
    BY <1>2, <2>1 DEF DaemonInv, AtMostOneSession
  <2>6. \A q \in Procs : pc'[q] \in {"idle", "provision", "session"}
    BY <1>0, <1>2, <2>1
  <2>. QED
    BY <1>1, <2>2, <2>4, <2>5, <2>6 DEF DaemonInv
<1>5. CASE Claim(p)
  <2>1. /\ pc[p] = "provision" /\ pc'[p] = "session"
        /\ Update(t, TransitionToDispatched(row[t]))
        /\ UNCHANGED held
    BY <1>0, <1>5 DEF Claim, At, Goto
  <2>2. /\ row[t].status = "planned" /\ t \in Tasks
        /\ \A q \in Procs \ {p} : pc[q] # "provision"
    BY <1>t, <2>1 DEF DaemonInv, ClaimIsExclusive
  <2>3. /\ row'[t].status = "dispatched"
        /\ \A u \in Tasks \ {t} : row'[u] = row[u]
    BY <1>0, <2>1, <2>2, UpdateEffect, RowOperatorsEffect
  <2>4. ~HasSession(t)
    BY <2>2 DEF DaemonInv, SessionsAreDispatched
  <2>5. ClaimIsExclusive'
    BY <1>2, <2>1, <2>2 DEF ClaimIsExclusive
  <2>6. \A u \in Tasks : HasSession(u)' => u = t \/ HasSession(u)
    BY <1>2, <2>1 DEF HasSession
  <2>7. SessionsAreDispatched'
    BY <2>3, <2>6 DEF DaemonInv, SessionsAreDispatched
  <2>8. AtMostOneSession'
    BY <1>2, <2>1, <2>4 DEF DaemonInv, AtMostOneSession, HasSession
  <2>9. \A q \in Procs : pc'[q] \in {"idle", "provision", "session"}
    BY <1>0, <1>2, <2>1
  <2>. QED
    BY <1>1, <2>5, <2>7, <2>8, <2>9 DEF DaemonInv
<1>6. CASE FinishSession(p)
  <2>1. /\ pc[p] = "session" /\ pc'[p] = "idle"
        /\ \A q \in Procs \ {p} : pc[q] # "provision"
    BY <1>0, <1>6 DEF FinishSession, At, AfterDispatch, Release, Goto, EventLoopFree,
                      DaemonAlone, Procs
  <2>2. PICK c \in Classifications : Update(t, RecordOutcome(row[t], c))
    BY <1>6 DEF FinishSession, MaybeUpgrade, Classifications
  <2>3. \A u \in Tasks \ {t} : row'[u] = row[u]
    BY <1>0, <1>t, <2>1, <2>2, UpdateEffect
  <2>4. ClaimIsExclusive'
    BY <1>2, <2>1 DEF ClaimIsExclusive
  <2>5. \A u \in Tasks : HasSession(u)' => u # t /\ HasSession(u)
    BY <1>t, <1>2, <2>1 DEF DaemonInv, AtMostOneSession, HasSession
  <2>6. SessionsAreDispatched'
    BY <2>3, <2>5 DEF DaemonInv, SessionsAreDispatched
  <2>7. AtMostOneSession'
    BY <1>2, <2>1 DEF DaemonInv, AtMostOneSession
  <2>8. \A q \in Procs : pc'[q] \in {"idle", "provision", "session"}
    BY <1>0, <1>2, <2>1
  <2>. QED
    BY <1>1, <2>4, <2>6, <2>7, <2>8 DEF DaemonInv
<1>. QED
  BY <1>3, <1>4, <1>5, <1>6 DEF DispatchStep

LEMMA DaemonInvStep ==
  ASSUME DaemonAlone, DaemonInv, [Next]_vars
  PROVE  DaemonInv'
<1>0. /\ TypeOK /\ TypeOK'
      /\ row \in [Tasks -> Rows]
      /\ \A p \in Procs : pc[p] \in HoldingPlaces => held[p].task \in Tasks
  BY NextType DEF DaemonInv, TypeOK, TableOK, LocalOK
<1>1. CASE \E p \in Procs : DispatchStep(p)
  BY <1>1, SlotStep
<1>2. CASE CrashDaemon
  <2>1. \A p \in Procs : pc'[p] = "idle"
    BY <1>2 DEF CrashDaemon, CrashAll, Procs, DaemonAlone
  <2>2. \A t \in orphans' : HasSession(t)
    BY <1>2 DEF CrashDaemon, CrashAll, HasSession, Procs
  <2>3. UNCHANGED row
    BY <1>2 DEF CrashDaemon, CrashAll
  <2>4. \A t \in Tasks : HasSession(t)' => HasSession(t)
    BY <2>1, <2>2 DEF HasSession
  <2>5. ClaimIsExclusive' /\ AtMostOneSession'
    BY <2>1 DEF ClaimIsExclusive, AtMostOneSession
  <2>6. SessionsAreDispatched'
    BY <2>3, <2>4 DEF DaemonInv, SessionsAreDispatched
  <2>. QED
    BY <1>0, <2>1, <2>5, <2>6 DEF DaemonInv
<1>3. CASE DaemonSeed
  <2>1. /\ UNCHANGED <<pc, held, orphans>>
        /\ \A p \in Procs : pc[p] # "provision"
    BY <1>3 DEF DaemonSeed, At, local, external, DaemonAlone, Procs
  <2>2. \A t \in Tasks : row[t].status = "dispatched" => row'[t].status = "dispatched"
    <3>1. UNCHANGED row \/ \E t \in Tasks : row[t].status = "absent" /\ Update(t, SeedOne(row[t]))
      BY <1>3 DEF DaemonSeed, SeedRow, WithStatus
    <3>. QED
      BY <1>0, <3>1, UpdateEffect
  <2>3. SessionsAreDispatched'
    BY <2>1, <2>2 DEF DaemonInv, SessionsAreDispatched, HasSession
  <2>4. ClaimIsExclusive' /\ AtMostOneSession' /\ \A p \in Procs : pc'[p] \in {"idle", "provision", "session"}
    BY <2>1 DEF DaemonInv, ClaimIsExclusive, AtMostOneSession
  <2>. QED
    BY <1>0, <2>3, <2>4 DEF DaemonInv
<1>4. CASE Environment \/ UNCHANGED vars
  <2>1. /\ UNCHANGED <<pc, held>>
        /\ orphans' \subseteq orphans
        /\ \A t \in Tasks : row'[t].status = row[t].status
    BY <1>0, <1>4, EnvironmentKeeps
    DEF vars, local, Environment, OpenPR, OrphanEnds, GoStale, CoolDown, HumanMerges, HumanCloses,
        HumanReopens, SetPRState, external
  <2>2. SessionsAreDispatched'
    BY <2>1 DEF DaemonInv, SessionsAreDispatched, HasSession
  <2>3. ClaimIsExclusive'
    BY <1>0, <2>1 DEF DaemonInv, ClaimIsExclusive, HoldingPlaces
  <2>4. AtMostOneSession' /\ \A p \in Procs : pc'[p] \in {"idle", "provision", "session"}
    BY <2>1 DEF DaemonInv, AtMostOneSession
  <2>. QED
    BY <1>0, <2>2, <2>3, <2>4 DEF DaemonInv
<1>. QED
  BY <1>1, <1>2, <1>3, <1>4 DEF Next, DaemonAlone

LEMMA DaemonInvInit == Init => DaemonInv
<1> SUFFICES ASSUME Init PROVE DaemonInv
  OBVIOUS
<1>1. \A p \in Procs : pc[p] = "idle"
  BY DEF Init
<1>2. orphans = {}
  BY DEF Init
<1>. QED
  BY <1>1, <1>2, InitType
  DEF DaemonInv, ClaimIsExclusive, SessionsAreDispatched, AtMostOneSession, HasSession

\* The daemon alone never has two sessions on one task, for any number of slots
\* and tasks: not through the await-free claim of dispatch_loop, nor through its
\* restarts, which leave sessions running.
THEOREM SessionsCorrect ==
  ASSUME DaemonAlone
  PROVE  Spec => []AtMostOneSession
<1>1. DaemonInv => AtMostOneSession
  BY DEF DaemonInv
<1>2. DaemonInv /\ [Next]_vars => DaemonInv'
  BY DaemonInvStep
<1>. QED
  BY <1>1, <1>2, DaemonInvInit, PTL DEF Spec

-----------------------------------------------------------------------------
(* One engine implements the life of a task *)

OneEngine == OneTick \/ DaemonAlone

\* What the refinement needs of either engine: an outcome is written over a row
\* that is dispatched, a reset over one that has failed, at the retry it counted.
LifecycleInv ==
  /\ MergeInv
  /\ \A p \in Procs : pc[p] = "session" => row[held[p].task].status = "dispatched"
  /\ \A p \in Procs : pc[p] = "resetting" =>
       /\ row[held[p].task].status \in {"failed", "abandoned"}
       /\ attempts[held[p].task] = held[p].retries

LifecycleStep == [Lifecycle!Next]_(Lifecycle!vars)

\* A row moves as the life of its task allows.
LEMMA RowMoves ==
  ASSUME TypeOK, NEW t \in Tasks, NEW r, Update(t, r), UNCHANGED <<attempts, pr>>,
         \/ r.status = row[t].status
         \/ row[t].status = "absent" /\ r.status = "planned"
         \/ row[t].status = "planned" /\ r.status = "dispatched"
         \/ row[t].status = "dispatched" /\ r.status \in {"planned", "failed", "abandoned"}
         \/ row[t].status = "dispatched" /\ r.status = "merged" /\ Landed(t)
  PROVE  LifecycleStep
<1> DEFINE status == [u \in Tasks |-> row[u].status]
           landed == {u \in Tasks : Landed(u)}
<1>1. status' = [status EXCEPT ![t] = r.status] /\ landed' = landed
  BY DEF TypeOK, TableOK, Update, Landed
<1>2. CASE r.status = row[t].status
  <2>1. status' = status
    BY <1>1, <1>2
  <2>. QED
    BY <1>1, <2>1 DEF LifecycleStep, Lifecycle!vars
<1>3. CASE row[t].status = "absent" /\ r.status = "planned"
  <2>1. Lifecycle!Seed(t)
    BY <1>1, <1>3 DEF Lifecycle!Seed, Lifecycle!Move
  <2>. QED
    BY <2>1 DEF LifecycleStep, Lifecycle!Next
<1>4. CASE row[t].status = "planned" /\ r.status = "dispatched"
  <2>1. Lifecycle!Claim(t)
    BY <1>1, <1>4 DEF Lifecycle!Claim, Lifecycle!Move
  <2>. QED
    BY <2>1 DEF LifecycleStep, Lifecycle!Next
<1>5. CASE row[t].status = "dispatched" /\ r.status = "planned"
  <2>1. Lifecycle!GiveBack(t)
    BY <1>1, <1>5 DEF Lifecycle!GiveBack, Lifecycle!Move
  <2>. QED
    BY <2>1 DEF LifecycleStep, Lifecycle!Next
<1>6. CASE row[t].status = "dispatched" /\ r.status \in {"failed", "abandoned"}
  <2>1. Lifecycle!GiveUp(t)
    BY <1>1, <1>6 DEF Lifecycle!GiveUp, Lifecycle!Move
  <2>. QED
    BY <2>1 DEF LifecycleStep, Lifecycle!Next
<1>7. CASE row[t].status = "dispatched" /\ r.status = "merged" /\ Landed(t)
  <2>1. Lifecycle!Confirm(t)
    BY <1>1, <1>7 DEF Lifecycle!Confirm, Lifecycle!Move
  <2>. QED
    BY <2>1 DEF LifecycleStep, Lifecycle!Next
<1>. QED
  BY <1>2, <1>3, <1>4, <1>5, <1>6, <1>7

\* A step that leaves statuses, attempts and landed tasks alone is a stutter.
LEMMA Stutters ==
  ASSUME \A t \in Tasks : row'[t].status = row[t].status, UNCHANGED <<attempts, pr>>
  PROVE  LifecycleStep
BY DEF LifecycleStep, Lifecycle!vars, Landed

\* A PR is merged on GitHub: its task lands, or had landed before.
LEMMA Lands ==
  ASSUME TypeOK, UNCHANGED <<row, attempts>>,
         NEW n \in PRNumbers, pr' = [pr EXCEPT ![n].state = "merged"]
  PROVE  LifecycleStep
<1>1. /\ pr \in [PRNumbers -> PRs]
      /\ \A m \in PRNumbers : /\ pr'[m].task = pr[m].task
                              /\ pr'[m].state = IF m = n THEN "merged" ELSE pr[m].state
  BY DEF TypeOK, GitHubOK, PRs
<1>2. \A t \in Tasks : Landed(t)' <=> Landed(t) \/ pr[n].task = t
  BY <1>1 DEF Landed
<1>3. CASE pr[n].task = NULL
  <2>1. \A t \in Tasks : Landed(t)' <=> Landed(t)
    BY <1>2, <1>3, EngineConstants
  <2>. QED
    BY <2>1 DEF LifecycleStep, Lifecycle!vars
<1>4. CASE pr[n].task # NULL
  <2>1. pr[n].task \in Tasks
    BY <1>1, <1>4 DEF PRs
  <2>2. Lifecycle!Land(pr[n].task)
    BY <1>2, <2>1 DEF Lifecycle!Land
  <2>. QED
    BY <2>1, <2>2 DEF LifecycleStep, Lifecycle!Next
<1>. QED
  BY <1>3, <1>4

LEMMA DispatchImplements ==
  ASSUME LifecycleInv, NEW p \in Procs, DispatchStep(p)
  PROVE  LifecycleStep
<1> DEFINE t == held[p].task
<1>0. TypeOK /\ row \in [Tasks -> Rows]
  BY DEF LifecycleInv, MergeInv, TypeOK, TableOK
<1>1. UNCHANGED <<attempts, pr>>
  BY DEF DispatchStep, PickNextPlanned, ProvisionFails, Claim, FinishSession, external
<1>2. CASE UNCHANGED row
  BY <1>1, <1>2, Stutters
<1>3. CASE Claim(p)
  <2>1. t \in Tasks /\ Update(t, TransitionToDispatched(row[t]))
    BY <1>0, <1>3 DEF Claim, At, TypeOK, LocalOK, HoldingPlaces
  <2>. QED
    BY <1>0, <1>1, <2>1, RowOperatorsEffect, RowMoves
<1>4. CASE FinishSession(p)
  <2>1. t \in Tasks /\ row[t].status = "dispatched"
    BY <1>0, <1>4 DEF FinishSession, At, TypeOK, LocalOK, HoldingPlaces, LifecycleInv
  <2>2. PICK c \in Classifications : Update(t, RecordOutcome(row[t], c))
    BY <1>4 DEF FinishSession, MaybeUpgrade, Classifications
  <2>. QED
    BY <1>0, <1>1, <2>1, <2>2, RowOperatorsEffect, RowMoves
<1>. QED
  BY <1>2, <1>3, <1>4 DEF DispatchStep, PickNextPlanned, ProvisionFails

LEMMA SeedImplements ==
  ASSUME TypeOK, SeedRow, UNCHANGED <<attempts, pr>>
  PROVE  LifecycleStep
<1>1. CASE UNCHANGED row
  BY <1>1, Stutters
<1>2. CASE \E t \in Tasks : Update(t, SeedOne(row[t]))
  BY <1>2, RowOperatorsEffect, RowMoves DEF TypeOK, TableOK
<1>. QED
  BY <1>1, <1>2 DEF SeedRow, WithStatus

LEMMA TickImplements ==
  ASSUME LifecycleInv, NEW p \in Ticks, TickStep(p)
  PROVE  LifecycleStep
<1> DEFINE t == held[p].task
<1>0. TypeOK /\ p \in Procs /\ row \in [Tasks -> Rows] /\ Knows(p)
  BY DEF LifecycleInv, MergeInv, TypeOK, TableOK, Procs
<1>1. CASE ReapOne(p) \/ StampOne(p)
  <2>1. PICK i \in todo[p] : \/ Update(i.task, Abandon(row[i.task]))
                             \/ /\ pc[p] = "stamping"
                                /\ Update(i.task, StampPRNumber(row[i.task], i.pr))
    BY <1>1 DEF ReapOne, StampOne, At
  <2>2. i.task \in Tasks /\ (pc[p] = "stamping" => i.pr \in PRNumbers)
    BY <1>0, <2>1 DEF TypeOK, LocalOK, Items, PRPlaces
  <2>3. UNCHANGED <<attempts, pr>>
    BY <1>1 DEF ReapOne, StampOne, external
  <2>. QED
    BY <1>0, <2>1, <2>2, <2>3, RowOperatorsEffect, RowMoves
<1>2. CASE Reset(p)
  <2>1. PICK u \in Tasks : u = t
    BY <1>0, <1>2 DEF Reset, At, TypeOK, LocalOK, HoldingPlaces
  <2>2. /\ row[u].status \in {"failed", "abandoned"}
        /\ attempts[u] < MaxRetries
        /\ row' = [row EXCEPT ![u] = ResetToPlanned(row[u])]
        /\ attempts' = [attempts EXCEPT ![u] = @ + 1]
        /\ UNCHANGED pr
    BY <1>0, <1>2, <2>1 DEF Reset, At, LifecycleInv, Update, external
  <2> DEFINE status == [v \in Tasks |-> row[v].status]
  <2>3. ResetToPlanned(row[u]).status = "planned"
    BY <1>0, <2>2, RowOperatorsEffect
  <2>4. status' = [status EXCEPT ![u] = "planned"]
    BY <1>0, <2>2, <2>3
  <2>5. \A v \in Tasks : Landed(v)' <=> Landed(v)
    BY <2>2 DEF Landed
  <2>6. Lifecycle!Retry(u)
    BY <2>2, <2>4, <2>5 DEF Lifecycle!Retry, Lifecycle!Move
  <2>. QED
    BY <2>6 DEF LifecycleStep, Lifecycle!Next
<1>3. CASE Exhausted(p) \/ WatchApply(p) \/ AlreadyMerged(p) \/ CriticRejects(p) \/ RecordMerge(p)
  <2>1. t \in Tasks /\ UNCHANGED <<attempts, pr>>
    BY <1>0, <1>3 DEF Exhausted, WatchApply, AlreadyMerged, CriticRejects, RecordMerge,
                      At, TypeOK, LocalOK, HoldingPlaces, external
  <2>2. PICK reason \in FailureReasons :
          \/ Update(t, StampProgress(row[t]))
          \/ /\ Update(t, TransitionToMerged(row[t]))
             /\ pc[p] \in {"observed", "reviewing", "approved"}
             /\ held[p].seen = "merged" \/ pc[p] = "approved"
          \/ Update(t, TransitionToFailed(row[t], reason))
    BY <1>3 DEF Exhausted, WatchApply, AlreadyMerged, CriticRejects, RecordMerge, At, FailureReasons
  <2>3. CASE /\ Update(t, TransitionToMerged(row[t]))
             /\ pc[p] \in {"observed", "reviewing", "approved"}
             /\ held[p].seen = "merged" \/ pc[p] = "approved"
    <3>1. Landed(t)
      BY <1>0, <2>1, <2>3 DEF Knows, Landed, TypeOK, LocalOK
    <3>. QED
      BY <1>0, <2>1, <2>3, <3>1, RowOperatorsEffect, RowMoves
  <2>4. CASE \/ Update(t, StampProgress(row[t]))
             \/ Update(t, TransitionToFailed(row[t], reason))
    BY <1>0, <2>1, <2>4, RowOperatorsEffect, RowMoves
  <2>. QED
    BY <2>2, <2>3, <2>4
<1>4. CASE CriticApproves(p)
  <2>1. held[p].pr \in PRNumbers
    BY <1>0, <1>4 DEF CriticApproves, At, TypeOK, LocalOK
  <2>. QED
    BY <1>0, <1>4, <2>1, Lands DEF CriticApproves, LifecycleInv
<1>5. CASE Seed(p)
  BY <1>0, <1>5, SeedImplements DEF Seed, external
<1>6. CASE UNCHANGED <<row, attempts, pr>>
  BY <1>6, Stutters
<1>. QED
  BY <1>1, <1>2, <1>3, <1>4, <1>5, <1>6
  DEF TickStep, BeginTick, ReapLoad, RecoverLoad, CountRetries, SkipDispatch, ListOpenPRs,
      StampLoad, WatchLoad, WatchGet, GetUnanswered, MergeLoad, SkipMerge, MergeGet,
      NotACandidate, MergeRefused, Load, EndPass, Take, external

LEMMA NextImplements ==
  ASSUME LifecycleInv, [Next]_vars
  PROVE  LifecycleStep
<1>0. TypeOK /\ pr \in [PRNumbers -> PRs]
  BY DEF LifecycleInv, MergeInv, TypeOK, GitHubOK
<1>1. CASE \E p \in Procs : DispatchStep(p)
  BY <1>1, DispatchImplements
<1>2. CASE \E p \in Ticks : TickStep(p)
  BY <1>2, TickImplements
<1>3. CASE DaemonSeed
  BY <1>0, <1>3, SeedImplements DEF DaemonSeed, external
<1>4. CASE (\E p \in Ticks : CrashTick(p)) \/ CrashDaemon \/ UNCHANGED vars
  BY <1>4, Stutters DEF CrashTick, CrashDaemon, CrashAll, vars
<1>5. CASE Environment
  <2>1. CASE \E n \in PRNumbers : HumanMerges(n)
    BY <1>0, <2>1, Lands DEF HumanMerges, SetPRState
  <2>2. ASSUME UNCHANGED attempts,
               \A t \in Tasks : row'[t].status = row[t].status,
               \A t \in Tasks : Landed(t)' <=> Landed(t)
        PROVE  LifecycleStep
    BY <2>2 DEF LifecycleStep, Lifecycle!vars
  <2>3. CASE \/ \E t \in Tasks, own \in BOOLEAN : OpenPR(t, own)
             \/ \E n \in PRNumbers : HumanCloses(n) \/ HumanReopens(n)
    <3>1. \A t \in Tasks : Landed(t)' <=> Landed(t)
      BY <1>0, <2>3 DEF OpenPR, HumanCloses, HumanReopens, SetPRState, Landed, PRs
    <3>. QED
      BY <1>0, <1>5, <2>2, <3>1, EnvironmentKeeps
  <2>4. CASE \E t \in Tasks : OrphanEnds(t) \/ GoStale(t) \/ CoolDown(t)
    <3>1. UNCHANGED pr
      BY <2>4 DEF OrphanEnds, GoStale, CoolDown, external
    <3>. QED
      BY <1>0, <1>5, <3>1, EnvironmentKeeps, Stutters
  <2>. QED
    BY <1>5, <2>1, <2>3, <2>4 DEF Environment
<1>. QED
  BY <1>1, <1>2, <1>3, <1>4, <1>5 DEF Next

\* What holds of whichever engine there is.
EngineInv ==
  /\ MergeInv
  /\ OneTick => TickInv
  /\ DaemonAlone => DaemonInv

LEMMA EngineInvImplements ==
  ASSUME OneEngine, EngineInv
  PROVE  LifecycleInv
<1>1. CASE OneTick
  BY <1>1 DEF EngineInv, LifecycleInv, TickInv, Agrees, DispatchAgrees, HoldAgrees
<1>2. CASE DaemonAlone
  <2>1. \A p \in Procs : pc[p] = "session" => held[p].task \in Tasks
    BY DEF EngineInv, MergeInv, TypeOK, LocalOK, HoldingPlaces
  <2>. QED
    BY <1>2, <2>1 DEF EngineInv, LifecycleInv, DaemonInv, SessionsAreDispatched, HasSession
<1>. QED
  BY <1>1, <1>2 DEF OneEngine

\* One engine takes every task through the life of module TaskLifecycle, for any
\* tasks, slots and bounds: a merge is final and has landed, a retry is counted
\* and within max_retries, and no UPDATE takes a row back to where it was.
THEOREM LifecycleCorrect ==
  ASSUME OneEngine
  PROVE  Spec => LifecycleSpec
<1>1. Init => EngineInv
  BY MergeInvInit, TickInvInit, DaemonInvInit DEF EngineInv
<1>2. EngineInv /\ [Next]_vars => EngineInv'
  BY MergeInvStep, TickInvStep, DaemonInvStep DEF EngineInv
<1>3. Init => Lifecycle!Init
  BY DEF Init, NoRow, Lifecycle!Init, Landed
<1>4. EngineInv /\ [Next]_vars => [Lifecycle!Next]_(Lifecycle!vars)
  BY EngineInvImplements, NextImplements DEF LifecycleStep
<1>. QED
  BY <1>1, <1>2, <1>3, <1>4, PTL DEF Spec, LifecycleSpec, Lifecycle!Spec

-----------------------------------------------------------------------------
(* The retry budget, whatever processes share the database *)

\* The ticks that have counted the retries of t and will reset it.
Resetting(t) ==
  {p \in Ticks : pc[p] = "resetting" /\ held[p].task = t /\ held[p].retries < MaxRetries}

RetriesInv ==
  /\ TypeOK
  /\ \A t \in Tasks : Ticks # {} =>
       attempts[t] + Cardinality(Resetting(t)) + 1 <= MaxRetries + Cardinality(Ticks)

\* Only counting retries makes a tick one that will reset, only resetting counts.
LEMMA RetriesStep ==
  ASSUME TypeOK, [Next]_vars
  PROVE  \/ \E p \in Ticks : CountRetries(p) \/ Reset(p)
         \/ UNCHANGED attempts /\ \A t \in Tasks : Resetting(t)' \subseteq Resetting(t)
<1> SUFFICES ASSUME ~ \E p \in Ticks : CountRetries(p) \/ Reset(p)
             PROVE  /\ UNCHANGED attempts
                    /\ \A p \in Ticks : pc'[p] = "resetting" =>
                         pc[p] = "resetting" /\ held'[p] = held[p]
  BY DEF Resetting
<1>0. /\ pc \in [Procs -> Places]
      /\ held \in [Procs -> Holds]
      /\ Ticks \subseteq Procs
  BY DEF TypeOK, LocalOK, Procs
<1>1. ASSUME NEW p \in Procs, DispatchStep(p)
      PROVE  /\ UNCHANGED attempts
             /\ pc'[p] # "resetting"
             /\ \A q \in Procs \ {p} : pc'[q] = pc[q] /\ held'[q] = held[q]
  BY <1>0, <1>1 DEF DispatchStep, PickNextPlanned, ProvisionFails, Claim, FinishSession,
                    AfterDispatch, Release, Goto
<1>2. ASSUME NEW p \in Ticks, TickStep(p)
      PROVE  /\ UNCHANGED attempts
             /\ pc'[p] # "resetting"
             /\ \A q \in Procs \ {p} : pc'[q] = pc[q] /\ held'[q] = held[q]
  <2>1. \A q \in Procs \ {p} : pc'[q] = pc[q] /\ held'[q] = held[q]
    BY <1>2, TickOthersKeep DEF OthersKeep
  <2>2. UNCHANGED attempts /\ pc'[p] # "resetting"
    BY <1>0, <1>2 DEF TickStep, BeginTick, ReapLoad, ReapOne, RecoverLoad, CountRetries, Reset,
       Exhausted, Seed, SkipDispatch, ListOpenPRs, StampLoad, StampOne, WatchLoad, WatchGet,
       GetUnanswered, WatchApply, MergeLoad, SkipMerge, MergeGet, AlreadyMerged, NotACandidate,
       CriticRejects, CriticApproves, MergeRefused, RecordMerge, Load, EndPass, Take, Release,
       Goto, At
  <2>. QED
    BY <2>1, <2>2
<1>3. CASE (\E p \in Procs : DispatchStep(p)) \/ (\E p \in Ticks : TickStep(p))
  BY <1>0, <1>1, <1>2, <1>3
<1>4. CASE (\E p \in Ticks : CrashTick(p)) \/ CrashDaemon
  BY <1>0, <1>4 DEF CrashTick, CrashDaemon, CrashAll
<1>5. CASE DaemonSeed \/ Environment \/ UNCHANGED vars
  <2>1. UNCHANGED <<attempts, local>>
    BY <1>5, EnvironmentKeeps DEF DaemonSeed, vars, local
  <2>. QED
    BY <2>1 DEF local
<1>. QED
  BY <1>3, <1>4, <1>5 DEF Next

LEMMA RetriesInvStep ==
  ASSUME RetriesInv, [Next]_vars
  PROVE  RetriesInv'
<1>0. /\ TypeOK /\ TypeOK'
      /\ attempts \in [Tasks -> Nat]
      /\ pc \in [Procs -> Places] /\ held \in [Procs -> Holds]
      /\ Ticks \subseteq Procs /\ MaxRetries \in Nat
  BY NextType, EngineConstants DEF RetriesInv, TypeOK, TableOK, LocalOK, Procs
<1>1. ASSUME NEW t \in Tasks
      PROVE  /\ IsFiniteSet(Ticks) /\ IsFiniteSet(Resetting(t)) /\ IsFiniteSet(Resetting(t)')
             /\ Cardinality(Ticks) \in Nat
             /\ Cardinality(Resetting(t)) \in Nat
             /\ Cardinality(Resetting(t)') \in Nat
             /\ Cardinality(Resetting(t)') <= Cardinality(Ticks)
  <2>1. Resetting(t) \in SUBSET Ticks /\ Resetting(t)' \in SUBSET Ticks
    BY DEF Resetting
  <2>. QED
    BY <2>1, EngineConstants, FS_Subset, FS_CardinalityType
<1> SUFFICES ASSUME NEW t \in Tasks, Ticks # {}
             PROVE  attempts'[t] + Cardinality(Resetting(t)') + 1 <= MaxRetries + Cardinality(Ticks)
  BY <1>0 DEF RetriesInv
<1>2. attempts[t] + Cardinality(Resetting(t)) + 1 <= MaxRetries + Cardinality(Ticks)
  BY DEF RetriesInv
<1>3. ASSUME attempts'[t] = attempts[t], Resetting(t)' \subseteq Resetting(t)
      PROVE  attempts'[t] + Cardinality(Resetting(t)') + 1 <= MaxRetries + Cardinality(Ticks)
  <2>1. Cardinality(Resetting(t)') <= Cardinality(Resetting(t))
    BY <1>1, <1>3, FS_Subset
  <2>. QED
    BY <1>0, <1>1, <1>2, <1>3, <2>1
<1>4. CASE \E p \in Ticks : CountRetries(p)
  <2>1. PICK p \in Ticks : CountRetries(p)
    BY <1>4
  <2>2. PICK i \in todo[p] : Take(p, "recovering", "resetting", i, "none", attempts[i.task])
    BY <2>1 DEF CountRetries
  <2>3. /\ UNCHANGED attempts
        /\ held'[p].task = i.task /\ held'[p].retries = attempts[i.task]
        /\ \A q \in Ticks \ {p} : pc'[q] = pc[q] /\ held'[q] = held[q]
    BY <1>0, <2>2 DEF Take, Goto
  <2>4. CASE p \in Resetting(t)'
    <3>1. attempts[t] < MaxRetries
      BY <2>3, <2>4 DEF Resetting
    <3>. QED
      BY <1>0, <1>1, <2>3, <3>1
  <2>5. CASE p \notin Resetting(t)'
    <3>1. Resetting(t)' \subseteq Resetting(t)
      BY <2>3, <2>5 DEF Resetting
    <3>. QED
      BY <1>3, <2>3, <3>1
  <2>. QED
    BY <2>4, <2>5
<1>5. CASE \E p \in Ticks : Reset(p)
  <2>1. PICK p \in Ticks : Reset(p)
    BY <1>5
  <2>2. /\ pc[p] = "resetting" /\ held[p].retries < MaxRetries
        /\ pc'[p] = "recovering"
        /\ attempts' = [attempts EXCEPT ![held[p].task] = @ + 1]
        /\ \A q \in Ticks \ {p} : pc'[q] = pc[q] /\ held'[q] = held[q]
    BY <1>0, <2>1 DEF Reset, At, Release, Goto
  <2>3. Resetting(t)' = Resetting(t) \ {p}
    BY <2>2 DEF Resetting
  <2>4. CASE held[p].task = t
    <3>1. p \in Resetting(t)
      BY <2>2, <2>4 DEF Resetting
    <3>2. Cardinality(Resetting(t)') = Cardinality(Resetting(t)) - 1
      BY <1>1, <2>3, <3>1, FS_RemoveElement
    <3>3. attempts'[t] = attempts[t] + 1
      BY <1>0, <2>2, <2>4
    <3>. QED
      BY <1>0, <1>1, <1>2, <3>2, <3>3
  <2>5. CASE held[p].task # t
    BY <1>0, <1>3, <2>2, <2>3, <2>5
  <2>. QED
    BY <2>4, <2>5
<1>. QED
  BY <1>0, <1>3, <1>4, <1>5, RetriesStep

\* However many tick processes share the database, a task is retried no more
\* often than max_retries and once for each further process (auto_recover.py).
THEOREM RetriesCorrect == Spec => []RetriesBounded
<1>1. Init => RetriesInv
  <2> SUFFICES ASSUME Init PROVE RetriesInv
    OBVIOUS
  <2>1. ASSUME NEW t \in Tasks, Ticks # {}
        PROVE  attempts[t] = 0 /\ Resetting(t) = {} /\ 1 <= Cardinality(Ticks)
    <3>1. attempts[t] = 0 /\ Resetting(t) = {}
      BY DEF Init, Resetting, Procs
    <3>2. Cardinality(Ticks) \in Nat /\ Cardinality(Ticks) # 0
      BY <2>1, EngineConstants, FS_EmptySet, FS_CardinalityType
    <3>. QED
      BY <3>1, <3>2
  <2>2. ASSUME NEW t \in Tasks, Ticks # {}
        PROVE  attempts[t] + Cardinality(Resetting(t)) + 1 <= MaxRetries + Cardinality(Ticks)
    <3>1. attempts[t] + Cardinality(Resetting(t)) + 1 = 1
      BY <2>1, <2>2, FS_EmptySet
    <3>2. 1 <= Cardinality(Ticks) /\ Cardinality(Ticks) \in Nat /\ MaxRetries \in Nat
      BY <2>1, <2>2, EngineConstants, FS_CardinalityType
    <3>. QED
      BY <3>1, <3>2
  <2>. QED
    BY <2>2, InitType DEF RetriesInv
<1>2. RetriesInv /\ [Next]_vars => RetriesInv'
  BY RetriesInvStep
<1>3. RetriesInv => RetriesBounded
  <2> SUFFICES ASSUME RetriesInv, NEW t \in Tasks, Ticks # {}
               PROVE  attempts[t] + 1 <= MaxRetries + Cardinality(Ticks)
    BY DEF RetriesBounded
  <2>1. Resetting(t) \in SUBSET Ticks
    BY DEF Resetting
  <2>2. Cardinality(Resetting(t)) \in Nat /\ Cardinality(Ticks) \in Nat
    BY <2>1, EngineConstants, FS_Subset, FS_CardinalityType
  <2>3. attempts[t] \in Nat /\ MaxRetries \in Nat
    BY EngineConstants DEF RetriesInv, TypeOK, TableOK
  <2>. QED
    BY <2>2, <2>3 DEF RetriesInv
<1>. QED
  BY <1>1, <1>2, <1>3, PTL DEF Spec

=============================================================================
