----------------------------- MODULE EngineProofs -----------------------------
(***************************************************************************)
(* Theorems about module Engine, for any tasks, pull requests, ticks,      *)
(* slots and bounds.                                                       *)
(***************************************************************************)
EXTENDS EngineProperties, TLAPS

-----------------------------------------------------------------------------
(* The row operators *)

\* Every statement that writes a row writes a row of the table's type.
LEMMA RowOperatorsType ==
  ASSUME NEW r \in Rows
  PROVE  /\ SeedOne(r) \in Rows
         /\ TransitionToDispatched(r) \in Rows
         /\ \A c \in Classifications : RecordOutcome(r, c) \in Rows
         /\ Abandon(r) \in Rows
         /\ \A n \in PRNumbers : StampPRNumber(r, n) \in Rows
         /\ StampProgress(r) \in Rows
         /\ TransitionToMerged(r) \in Rows
         /\ \A reason \in FailureReasons : TransitionToFailed(r, reason) \in Rows
         /\ ResetToPlanned(r) \in Rows
<1> USE DEF Rows, Statuses, FailureReasons, Ages
<1>1. SeedOne(r) \in Rows
  BY DEF SeedOne
<1>2. TransitionToDispatched(r) \in Rows
  BY DEF TransitionToDispatched
<1>3. \A c \in Classifications : RecordOutcome(r, c) \in Rows
  BY DEF RecordOutcome, OutcomeStatus, Classifications
<1>4. Abandon(r) \in Rows
  BY DEF Abandon
<1>5. \A n \in PRNumbers : StampPRNumber(r, n) \in Rows
  BY DEF StampPRNumber
<1>6. StampProgress(r) \in Rows
  BY DEF StampProgress
<1>7. TransitionToMerged(r) \in Rows
  BY DEF TransitionToMerged
<1>8. \A reason \in FailureReasons : TransitionToFailed(r, reason) \in Rows
  BY DEF TransitionToFailed
<1>9. ResetToPlanned(r) \in Rows
  BY DEF ResetToPlanned
<1>. QED
  BY <1>1, <1>2, <1>3, <1>4, <1>5, <1>6, <1>7, <1>8, <1>9

LEMMA UpdateType ==
  ASSUME row \in [Tasks -> Rows], NEW t \in Tasks, NEW r \in Rows, Update(t, r)
  PROVE  row' \in [Tasks -> Rows]
BY DEF Update

-----------------------------------------------------------------------------
(* Type correctness *)

LEMMA LoadType ==
  ASSUME LocalOK, NEW p \in Procs, NEW place, NEW next \in Places \ HoldingPlaces,
         NEW S \in SUBSET Items, next \in PRPlaces => \A i \in S : i.pr \in PRNumbers,
         Load(p, place, next, S)
  PROVE  LocalOK'
BY DEF LocalOK, Load, Goto, HoldingPlaces, PRPlaces

LEMMA EndPassType ==
  ASSUME LocalOK, NEW p \in Procs, NEW place, NEW next \in Places \ HoldingPlaces,
         EndPass(p, place, next)
  PROVE  LocalOK'
BY DEF LocalOK, EndPass, Goto, HoldingPlaces, PRPlaces

LEMMA TakeType ==
  ASSUME LocalOK, NEW p \in Procs, NEW place \in Places, NEW next \in Places, NEW i \in todo[p],
         NEW seen \in PRStates, NEW retries \in Nat,
         next \in PRPlaces => place \in PRPlaces,
         Take(p, place, next, i, seen, retries)
  PROVE  LocalOK'
<1> DEFINE h == [task |-> i.task, pr |-> i.pr, seen |-> seen, retries |-> retries]
<1>1. /\ i \in Items
      /\ h \in Holds
      /\ h.task \in Tasks
      /\ next \in PRPlaces => h.pr \in PRNumbers
  BY DEF LocalOK, Items, Holds, Take, At
<1>2. /\ pc' = [pc EXCEPT ![p] = next]
      /\ todo' = [todo EXCEPT ![p] = @ \ {i}]
      /\ held' = [held EXCEPT ![p] = h]
      /\ pc[p] = place
  BY DEF Take, Goto, At
<1> HIDE DEF h
<1>. QED
  BY <1>1, <1>2 DEF LocalOK, PRPlaces

LEMMA ReleaseType ==
  ASSUME LocalOK, NEW p \in Procs, NEW next \in Places \ HoldingPlaces,
         next \in PRPlaces => pc[p] \in PRPlaces,
         Release(p, next), UNCHANGED todo
  PROVE  LocalOK'
<1>1. NoHold \in Holds
  BY DEF NoHold, Holds, PRStates
<1>. QED
  BY <1>1 DEF LocalOK, Release, Goto, HoldingPlaces, PRPlaces

\* Visiting an item of the snapshot without leaving the pass.
LEMMA VisitType ==
  ASSUME LocalOK, NEW p \in Procs, NEW i, UNCHANGED <<pc, held>>,
         todo' = [todo EXCEPT ![p] = @ \ {i}]
  PROVE  LocalOK'
BY DEF LocalOK

\* Init, and every action, keep the types.
LEMMA InitType == Init => TypeOK
<1>1. ASSUME Init PROVE TableOK
  BY <1>1 DEF Init, TableOK, NoRow, Rows, Statuses, FailureReasons, Ages
<1>2. ASSUME Init PROVE GitHubOK
  BY <1>2, EngineConstants DEF Init, GitHubOK, PRs, PRStates
<1>3. ASSUME Init PROVE LocalOK
  BY <1>3 DEF Init, LocalOK, Places, NoHold, Holds, PRStates, HoldingPlaces, PRPlaces
<1>. QED
  BY <1>1, <1>2, <1>3 DEF TypeOK

LEMMA DispatchStepType ==
  ASSUME TypeOK, NEW p \in Procs, DispatchStep(p)
  PROVE  TypeOK'
<1> USE DEF TypeOK
<1> DEFINE t == held[p].task
<1>1. CASE PickNextPlanned(p)
  <2>1. TableOK' /\ GitHubOK'
    BY <1>1 DEF PickNextPlanned, TableOK, GitHubOK, external
  <2>2. PICK u \in Tasks : held' = [held EXCEPT ![p] = [NoHold EXCEPT !.task = u]]
    BY <1>1 DEF PickNextPlanned, WithStatus
  <2>3. [NoHold EXCEPT !.task = u] \in Holds /\ [NoHold EXCEPT !.task = u].task = u
    BY DEF NoHold, Holds, PRStates
  <2>4. pc' = [pc EXCEPT ![p] = "provision"] /\ UNCHANGED todo
    BY <1>1 DEF PickNextPlanned, Goto
  <2>5. LocalOK'
    BY <2>2, <2>3, <2>4 DEF LocalOK, Places, HoldingPlaces, PRPlaces
  <2>. QED
    BY <2>1, <2>5
<1>2. CASE ProvisionFails(p)
  <2>1. TableOK'
    BY <1>2 DEF ProvisionFails, TableOK
  <2>2. GitHubOK'
    BY <1>2, EngineConstants DEF ProvisionFails, GitHubOK
  <2>3. LocalOK'
    BY <1>2, ReleaseType DEF ProvisionFails, Places, HoldingPlaces, PRPlaces
  <2>. QED
    BY <2>1, <2>2, <2>3
<1>3. CASE Claim(p)
  <2>1. t \in Tasks
    BY <1>3 DEF Claim, At, LocalOK, HoldingPlaces
  <2>2. TableOK'
    BY <1>3, <2>1, RowOperatorsType, UpdateType DEF Claim, TableOK
  <2>3. GitHubOK'
    BY <1>3 DEF Claim, GitHubOK, external
  <2>4. LocalOK'
    BY <1>3, <2>1 DEF Claim, Goto, LocalOK, Places, HoldingPlaces, PRPlaces
  <2>. QED
    BY <2>2, <2>3, <2>4
<1>4. CASE FinishSession(p)
  <2>1. t \in Tasks
    BY <1>4 DEF FinishSession, At, LocalOK, HoldingPlaces
  <2>2. PICK e \in Classifications : Update(t, RecordOutcome(row[t], e))
    BY <1>4 DEF FinishSession, MaybeUpgrade, Classifications
  <2>3. TableOK'
    BY <1>4, <2>1, <2>2, RowOperatorsType, UpdateType DEF FinishSession, TableOK
  <2>4. GitHubOK'
    BY <1>4 DEF FinishSession, GitHubOK, external
  <2>5. LocalOK'
    BY <1>4, ReleaseType
    DEF FinishSession, AfterDispatch, Places, HoldingPlaces, PRPlaces
  <2>. QED
    BY <2>3, <2>4, <2>5
<1>. QED
  BY <1>1, <1>2, <1>3, <1>4 DEF DispatchStep

LEMMA SeedRowType ==
  ASSUME TableOK, SeedRow, UNCHANGED attempts
  PROVE  TableOK'
<1>1. CASE UNCHANGED row
  BY <1>1 DEF TableOK
<1>2. CASE \E t \in Tasks : Update(t, SeedOne(row[t]))
  BY <1>2, RowOperatorsType, UpdateType DEF TableOK
<1>. QED
  BY <1>1, <1>2 DEF SeedRow, WithStatus

\* The passes of a tick that only read rows and GitHub.
LEMMA ReadStepType ==
  ASSUME TypeOK, NEW p \in Ticks,
         \/ BeginTick(p) \/ SkipDispatch(p) \/ SkipMerge(p) \/ NotACandidate(p) \/ MergeRefused(p)
         \/ ReapLoad(p) \/ RecoverLoad(p) \/ ListOpenPRs(p) \/ StampLoad(p) \/ WatchLoad(p) \/ MergeLoad(p)
         \/ CountRetries(p) \/ WatchGet(p) \/ MergeGet(p)
         \/ EndPass(p, "reaping", "recover") \/ EndPass(p, "recovering", "seed")
         \/ EndPass(p, "stamping", "watch") \/ EndPass(p, "watching", "merge")
         \/ EndPass(p, "merging", "idle")
  PROVE  TypeOK'
<1> USE DEF TypeOK
<1>0. p \in Procs
  BY DEF Procs
<1>1. TableOK' /\ GitHubOK'
  BY DEF TableOK, GitHubOK, external, BeginTick, SkipDispatch, SkipMerge, NotACandidate,
         MergeRefused, ReapLoad, RecoverLoad, ListOpenPRs, StampLoad, WatchLoad, MergeLoad, CountRetries,
         WatchGet, MergeGet, Load, EndPass, Take
<1>2. CASE BeginTick(p) \/ SkipDispatch(p) \/ SkipMerge(p)
  BY <1>0, <1>1, <1>2
  DEF BeginTick, SkipDispatch, SkipMerge, Goto, LocalOK, Places, HoldingPlaces, PRPlaces
<1>3. CASE NotACandidate(p) \/ MergeRefused(p)
  <2>1. pc[p] \in PRPlaces /\ Release(p, "merging") /\ UNCHANGED todo
    BY <1>3 DEF NotACandidate, MergeRefused, At, PRPlaces
  <2>2. "merging" \in Places \ HoldingPlaces
    BY DEF Places, HoldingPlaces
  <2>. QED
    BY <1>0, <1>1, <2>1, <2>2, ReleaseType
<1>4. CASE ReapLoad(p) \/ RecoverLoad(p)
  <2>1. PICK S \in SUBSET Tasks, next \in {"reaping", "recovering"},
          place \in {"reap", "recover"} :
          Load(p, place, next, {[task |-> t, pr |-> NULL] : t \in S})
    <3>1. \A u : {t \in Tasks : Reapable(row[t])} \in SUBSET Tasks
                 /\ {t \in Tasks : RecoveryDue(row[t])} \in SUBSET Tasks
      OBVIOUS
    <3>. QED
      BY <1>4, <3>1 DEF ReapLoad, RecoverLoad
  <2>2. {[task |-> t, pr |-> NULL] : t \in S} \in SUBSET Items
    BY DEF Items
  <2>3. next \in Places \ HoldingPlaces /\ next \notin PRPlaces
    BY DEF Places, HoldingPlaces, PRPlaces
  <2>. QED
    BY <1>0, <1>1, <2>1, <2>2, <2>3, LoadType
<1>5. CASE ListOpenPRs(p)
  <2>1. PICK S \in SUBSET {i \in Items : i.pr \in OpenPRs(i.task)} :
          Load(p, "stamp", "listed", S)
    BY <1>5 DEF ListOpenPRs
  <2>2. S \in SUBSET Items /\ \A i \in S : i.pr \in PRNumbers
    BY DEF OpenPRs
  <2>3. "listed" \in Places \ HoldingPlaces
    BY DEF Places, HoldingPlaces
  <2>. QED
    BY <1>0, <1>1, <2>1, <2>2, <2>3, LoadType
<1>a. CASE StampLoad(p)
  BY <1>0, <1>1, <1>a DEF StampLoad, At, Goto, LocalOK, Places, HoldingPlaces, PRPlaces
<1>6. CASE WatchLoad(p) \/ MergeLoad(p)
  <2>1. RowsWithPR \in SUBSET Items /\ \A i \in RowsWithPR : i.pr \in PRNumbers
    BY DEF RowsWithPR, WithStatus, Items, TableOK, Rows
  <2>2. {"watching", "merging"} \subseteq Places \ HoldingPlaces
    BY DEF Places, HoldingPlaces
  <2>3. \/ Load(p, "watch", "watching", RowsWithPR)
        \/ Load(p, "merge", "merging", RowsWithPR)
    BY <1>6 DEF WatchLoad, MergeLoad
  <2>. QED
    BY <1>0, <1>1, <2>1, <2>2, <2>3, LoadType
<1>7. CASE CountRetries(p)
  <2>1. PICK i \in todo[p] : Take(p, "recovering", "resetting", i, "none", attempts[i.task])
    BY <1>7 DEF CountRetries
  <2>2. "none" \in PRStates /\ attempts[i.task] \in Nat
    BY <1>0, <2>1 DEF PRStates, LocalOK, TableOK, Items
  <2>3. /\ "recovering" \in Places
        /\ "resetting" \in Places
        /\ "resetting" \notin PRPlaces
    BY DEF Places, PRPlaces
  <2>. QED
    BY <1>0, <1>1, <2>1, <2>2, <2>3, TakeType
<1>8. CASE WatchGet(p) \/ MergeGet(p)
  <2>1. PICK i \in todo[p] :
          \/ Take(p, "watching", "observed", i, pr[i.pr].state, 0)
          \/ Take(p, "merging", "reviewing", i, pr[i.pr].state, 0)
    BY <1>8 DEF WatchGet, MergeGet
  <2>2. pc[p] \in PRPlaces
    BY <2>1 DEF Take, At, PRPlaces
  <2>3. pr[i.pr].state \in PRStates
    BY <1>0, <2>1, <2>2 DEF LocalOK, GitHubOK, PRs
  <2>4. /\ "watching" \in Places \cap PRPlaces
        /\ "merging" \in Places \cap PRPlaces
        /\ "observed" \in Places
        /\ "reviewing" \in Places
    BY DEF Places, PRPlaces
  <2>. QED
    BY <1>0, <1>1, <2>1, <2>3, <2>4, TakeType
<1>9. CASE \/ EndPass(p, "reaping", "recover") \/ EndPass(p, "recovering", "seed")
           \/ EndPass(p, "stamping", "watch") \/ EndPass(p, "watching", "merge")
           \/ EndPass(p, "merging", "idle")
  <2>1. {"recover", "seed", "watch", "merge", "idle"} \subseteq Places \ HoldingPlaces
    BY DEF Places, HoldingPlaces
  <2>. QED
    BY <1>0, <1>1, <1>9, <2>1, EndPassType
<1>. QED
  BY <1>2, <1>3, <1>4, <1>5, <1>a, <1>6, <1>7, <1>8, <1>9

\* The steps of a tick that visit a row of the snapshot or write the row held.
LEMMA WriteStepType ==
  ASSUME TypeOK, NEW p \in Ticks,
         \/ ReapOne(p) \/ StampOne(p)
         \/ GetUnanswered(p, "watching") \/ GetUnanswered(p, "merging")
         \/ Reset(p) \/ Exhausted(p) \/ WatchApply(p) \/ AlreadyMerged(p)
         \/ CriticRejects(p) \/ RecordMerge(p) \/ CriticApproves(p) \/ Seed(p)
  PROVE  TypeOK'
<1> USE DEF TypeOK
<1> DEFINE t == held[p].task
<1>0. p \in Procs
  BY DEF Procs
<1>1. CASE ReapOne(p) \/ StampOne(p)
  <2>1. PICK i \in todo[p] :
          /\ \/ Update(i.task, Abandon(row[i.task]))
             \/ pc[p] \in PRPlaces /\ Update(i.task, StampPRNumber(row[i.task], i.pr))
          /\ todo' = [todo EXCEPT ![p] = @ \ {i}]
    BY <1>1 DEF ReapOne, StampOne, At, PRPlaces
  <2>2. i.task \in Tasks /\ (pc[p] \in PRPlaces => i.pr \in PRNumbers)
    BY <1>0, <2>1 DEF LocalOK, Items
  <2>3. UNCHANGED <<attempts, pc, held, pr, orphans, faults>>
    BY <1>1 DEF ReapOne, StampOne, external
  <2>4. TableOK'
    BY <2>1, <2>2, <2>3, RowOperatorsType, UpdateType DEF TableOK
  <2>5. LocalOK'
    BY <1>0, <2>1, <2>3, VisitType
  <2>. QED
    BY <2>3, <2>4, <2>5 DEF GitHubOK
<1>2. CASE GetUnanswered(p, "watching") \/ GetUnanswered(p, "merging")
  <2>1. PICK i \in todo[p] : todo' = [todo EXCEPT ![p] = @ \ {i}]
    BY <1>2 DEF GetUnanswered
  <2>2. /\ faults < MaxFaults
        /\ faults' = faults + 1
        /\ UNCHANGED <<row, attempts, pr, orphans>>
    BY <1>2 DEF GetUnanswered
  <2>4. TableOK' /\ GitHubOK'
    BY <2>2, EngineConstants DEF TableOK, GitHubOK
  <2>3. UNCHANGED <<pc, held>>
    BY <1>2 DEF GetUnanswered
  <2>. QED
    BY <1>0, <2>1, <2>3, <2>4, VisitType
<1>3. CASE \/ Reset(p) \/ Exhausted(p) \/ WatchApply(p) \/ AlreadyMerged(p)
           \/ CriticRejects(p) \/ RecordMerge(p)
  <2>1. t \in Tasks
    BY <1>0, <1>3
    DEF Reset, Exhausted, WatchApply, AlreadyMerged, CriticRejects, RecordMerge,
        At, LocalOK, HoldingPlaces
  <2>2. PICK r \in Rows : Update(t, r)
    <3>1. row[t] \in Rows /\ {"pr_closed_unmerged", "critic_rejected"} \subseteq FailureReasons
      BY <2>1 DEF TableOK, FailureReasons
    <3>. QED
      BY <1>3, <3>1, RowOperatorsType
      DEF Reset, Exhausted, WatchApply, AlreadyMerged, CriticRejects, RecordMerge
  <2>3. attempts' \in [Tasks -> Nat]
    BY <1>3, <2>1
    DEF Reset, Exhausted, WatchApply, AlreadyMerged, CriticRejects, RecordMerge, TableOK
  <2>4. TableOK'
    BY <2>1, <2>2, <2>3, UpdateType DEF TableOK
  <2>5. UNCHANGED <<todo, pr, orphans, faults>>
    BY <1>3
    DEF Reset, Exhausted, WatchApply, AlreadyMerged, CriticRejects, RecordMerge, external
  <2>6. \/ Release(p, "recovering")
        \/ pc[p] \in PRPlaces /\ (Release(p, "watching") \/ Release(p, "merging"))
    BY <1>3
    DEF Reset, Exhausted, WatchApply, AlreadyMerged, CriticRejects, RecordMerge, At, PRPlaces
  <2>7. /\ {"recovering", "watching", "merging"} \subseteq Places \ HoldingPlaces
        /\ "recovering" \notin PRPlaces
    BY DEF Places, HoldingPlaces, PRPlaces
  <2>8. LocalOK'
    BY <1>0, <2>5, <2>6, <2>7, ReleaseType
  <2>. QED
    BY <2>4, <2>5, <2>8 DEF GitHubOK
<1>4. CASE CriticApproves(p)
  <2>1. TableOK'
    BY <1>4 DEF CriticApproves, TableOK
  <2>2. GitHubOK'
    BY <1>4 DEF CriticApproves, GitHubOK, PRs, PRStates
  <2>3. LocalOK'
    BY <1>0, <1>4 DEF CriticApproves, At, Goto, LocalOK, Places, HoldingPlaces, PRPlaces
  <2>. QED
    BY <2>1, <2>2, <2>3
<1>5. CASE Seed(p)
  <2>1. TableOK'
    BY <1>5, SeedRowType DEF Seed
  <2>2. GitHubOK'
    BY <1>5 DEF Seed, GitHubOK, external
  <2>3. LocalOK'
    BY <1>0, <1>5 DEF Seed, Goto, LocalOK, Places, HoldingPlaces, PRPlaces
  <2>. QED
    BY <2>1, <2>2, <2>3
<1>. QED
  BY <1>1, <1>2, <1>3, <1>4, <1>5

LEMMA CrashType ==
  ASSUME TypeOK, NEW P \in SUBSET Procs, CrashAll(P)
  PROVE  TypeOK'
<1> USE DEF TypeOK
<1>1. TableOK'
  BY DEF CrashAll, TableOK
<1>2. orphans' \subseteq Tasks
  <2>1. \A p \in P : pc[p] = "session" => held[p].task \in Tasks
    BY DEF LocalOK, HoldingPlaces
  <2>. QED
    BY <2>1 DEF CrashAll, GitHubOK
<1>3. GitHubOK'
  BY <1>2, EngineConstants DEF CrashAll, GitHubOK
<1>4. NoHold \in Holds /\ "idle" \in Places \ (HoldingPlaces \cup PRPlaces)
  BY DEF NoHold, Holds, PRStates, Places, HoldingPlaces, PRPlaces
<1>5. /\ pc' \in [Procs -> Places]
      /\ todo' \in [Procs -> SUBSET Items]
      /\ held' \in [Procs -> Holds]
  BY <1>4 DEF CrashAll, LocalOK
<1>6. LocalOK'
  BY <1>4, <1>5 DEF CrashAll, LocalOK, HoldingPlaces, PRPlaces
<1>. QED
  BY <1>1, <1>3, <1>6

LEMMA EnvironmentType ==
  ASSUME TypeOK, Environment
  PROVE  TypeOK'
<1> USE DEF TypeOK
<1>1. CASE \E t \in Tasks : GoStale(t) \/ CoolDown(t)
  <2>1. PICK t \in Tasks, r \in Rows :
          Update(t, r) /\ UNCHANGED <<attempts, local, external>>
    BY <1>1 DEF GoStale, CoolDown, TableOK, Rows, Ages
  <2>2. TableOK'
    BY <2>1, UpdateType DEF TableOK
  <2>. QED
    BY <2>1, <2>2 DEF GitHubOK, LocalOK, local, external
<1>2. CASE \/ \E t \in Tasks : OrphanEnds(t)
           \/ \E t \in Tasks, own \in BOOLEAN : OpenPR(t, own)
           \/ \E n \in PRNumbers : HumanMerges(n) \/ HumanCloses(n) \/ HumanReopens(n)
  <2>1. UNCHANGED <<row, attempts, local, faults>>
    BY <1>2 DEF OpenPR, OrphanEnds, HumanMerges, HumanCloses, HumanReopens, SetPRState, local
  <2>2. pr' \in [PRNumbers -> PRs] /\ orphans' \subseteq Tasks
    BY <1>2 DEF OpenPR, OrphanEnds, HumanMerges, HumanCloses, HumanReopens, SetPRState,
                GitHubOK, PRs, PRStates
  <2>. QED
    BY <2>1, <2>2 DEF TableOK, GitHubOK, LocalOK, local
<1>. QED
  BY <1>1, <1>2 DEF Environment

LEMMA NextType ==
  ASSUME TypeOK, [Next]_vars
  PROVE  TypeOK'
<1>1. CASE \E p \in Procs : DispatchStep(p)
  BY <1>1, DispatchStepType
<1>2. CASE \E p \in Ticks : TickStep(p)
  BY <1>2, ReadStepType, WriteStepType DEF TickStep
<1>3. CASE (\E p \in Ticks : CrashTick(p)) \/ CrashDaemon
  <2>1. PICK P \in SUBSET Procs : CrashAll(P)
    BY <1>3 DEF CrashTick, CrashDaemon, Procs
  <2>. QED
    BY <2>1, CrashType
<1>4. CASE DaemonSeed
  <2>1. TableOK'
    BY <1>4, SeedRowType DEF DaemonSeed, TypeOK
  <2>. QED
    BY <1>4, <2>1 DEF DaemonSeed, TypeOK, GitHubOK, LocalOK, local, external
<1>5. CASE Environment
  BY <1>5, EnvironmentType
<1>6. CASE UNCHANGED vars
  BY <1>6 DEF vars, TypeOK, TableOK, GitHubOK, LocalOK
<1>. QED
  BY <1>1, <1>2, <1>3, <1>4, <1>5, <1>6 DEF Next

\* Every variable keeps its type, and a process holds what its place needs,
\* for any mix of ticks and daemon slots.
THEOREM TypeCorrect == Spec => []TypeOK
<1>1. Init => TypeOK
  BY InitType
<1>2. TypeOK /\ [Next]_vars => TypeOK'
  BY NextType
<1>. QED
  BY <1>1, <1>2, PTL DEF Spec

=============================================================================
