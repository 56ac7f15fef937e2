------------------------------ MODULE MergeProofs ------------------------------
(***************************************************************************)
(* A task recorded as merged has landed, whatever processes share the      *)
(* database: the passes act on stale snapshots, but what they remember of  *)
(* a pull request stays true, because a PR never changes its branch and a  *)
(* merge is never undone.  Whose branch it is nobody asks: a PR "of" a     *)
(* task is one whose branch carries the task's slug.                       *)
(***************************************************************************)
EXTENDS EngineProofs

-----------------------------------------------------------------------------
(* The inductive invariant *)

\* A row's pr_number is a PR whose branch carries the row's slug.
PRBelongsToTask ==
  \A t \in Tasks : row[t].pr_number # NULL => pr[row[t].pr_number].task = t

\* A PR number that was not handed out yet belongs to no task.
UnusedPRs == \A n \in PRNumbers : pr[n].state = "none" => pr[n].task = NULL

\* What process p remembers of PRs: their branches, and that one was merged.
Knows(p) ==
  /\ pc[p] \in PRPlaces => \A i \in todo[p] : pr[i.pr].task = i.task
  /\ pc[p] \in {"observed", "reviewing", "approved"} =>
       /\ pr[held[p].pr].task = held[p].task
       /\ held[p].seen = "merged" \/ pc[p] = "approved" => pr[held[p].pr].state = "merged"

MergeInv ==
  /\ TypeOK
  /\ UnusedPRs
  /\ PRBelongsToTask
  /\ \A p \in Procs : Knows(p)
  /\ MergedMeansLanded

\* What a step may do to PRs.
PRsProgress ==
  \A n \in PRNumbers :
    /\ pr[n].task # NULL => pr'[n].task = pr[n].task
    /\ pr[n].state = "merged" => pr'[n].state = "merged"

\* What a step may do to rows.
RowsFollowPRs ==
  \A t \in Tasks :
    /\ \/ row'[t].pr_number \in {row[t].pr_number, NULL}
       \/ row'[t].pr_number \in PRNumbers /\ pr[row'[t].pr_number].task = t
    /\ row'[t].status = "merged" => row[t].status = "merged" \/ Landed(t)

-----------------------------------------------------------------------------

LEMMA PRStep ==
  ASSUME TypeOK, UnusedPRs, [Next]_vars
  PROVE  PRsProgress /\ UnusedPRs'
<1>0. pr \in [PRNumbers -> PRs] /\ NULL \notin Tasks
  BY EngineConstants DEF TypeOK, GitHubOK
<1>1. CASE UNCHANGED pr
  BY <1>1 DEF PRsProgress, UnusedPRs
<1>2. CASE \E t \in Tasks, own \in BOOLEAN : OpenPR(t, own)
  BY <1>0, <1>2 DEF OpenPR, PRsProgress, UnusedPRs, PRs
<1>3. CASE \E n \in PRNumbers : HumanMerges(n) \/ HumanCloses(n) \/ HumanReopens(n)
  BY <1>0, <1>3
  DEF HumanMerges, HumanCloses, HumanReopens, SetPRState, PRsProgress, UnusedPRs, PRs
<1>4. CASE \E p \in Ticks : CriticApproves(p)
  <2>1. PICK p \in Ticks : CriticApproves(p)
    BY <1>4
  <2>2. held[p].pr \in PRNumbers
    BY <2>1 DEF CriticApproves, At, TypeOK, LocalOK, Procs
  <2>. QED
    BY <1>0, <2>1, <2>2 DEF CriticApproves, PRsProgress, UnusedPRs, PRs
<1>5. UNCHANGED pr \/ (\E t \in Tasks, own \in BOOLEAN : OpenPR(t, own))
        \/ (\E n \in PRNumbers : HumanMerges(n) \/ HumanCloses(n) \/ HumanReopens(n))
        \/ (\E p \in Ticks : CriticApproves(p))
  <2>1. CASE \E p \in Procs : DispatchStep(p)
    BY <2>1 DEF DispatchStep, PickNextPlanned, ProvisionFails, Claim, FinishSession, external
  <2>2. CASE \E p \in Ticks : TickStep(p) /\ ~CriticApproves(p)
    BY <2>2 DEF TickStep, BeginTick, ReapLoad, ReapOne, RecoverLoad, CountRetries, Reset,
       Exhausted, Seed, SkipDispatch, ListOpenPRs, StampLoad, StampOne, WatchLoad, WatchGet,
       GetUnanswered, WatchApply, MergeLoad, SkipMerge, MergeGet, AlreadyMerged,
       NotACandidate, CriticRejects, MergeRefused, RecordMerge, Load, EndPass, Take, external
  <2>3. CASE (\E p \in Ticks : CrashTick(p)) \/ CrashDaemon \/ DaemonSeed
    BY <2>3 DEF CrashTick, CrashDaemon, CrashAll, DaemonSeed, external
  <2>4. CASE Environment
    BY <2>4 DEF Environment, OrphanEnds, GoStale, CoolDown, external
  <2>. QED
    BY <2>1, <2>2, <2>3, <2>4 DEF Next, vars
<1>. QED
  BY <1>1, <1>2, <1>3, <1>4, <1>5

\* Knowledge about PRs outlives any step that leaves the process alone.
LEMMA KnowsStable ==
  ASSUME TypeOK, PRsProgress, NEW p \in Procs, Knows(p),
         pc'[p] = pc[p], todo'[p] \subseteq todo[p], held'[p] = held[p]
  PROVE  Knows(p)'
<1>0. NULL \notin Tasks
  BY EngineConstants
<1>1. pc[p] \in PRPlaces => \A i \in todo[p] : i.pr \in PRNumbers /\ i.task \in Tasks
  BY DEF TypeOK, LocalOK, Items
<1>2. pc[p] \in {"observed", "reviewing", "approved"} =>
        held[p].pr \in PRNumbers /\ held[p].task \in Tasks
  BY DEF TypeOK, LocalOK, HoldingPlaces
<1>. QED
  BY <1>0, <1>1, <1>2 DEF Knows, PRsProgress

\* The statements that neither record a PR nor a merge.
LEMMA RowOperatorsFrame ==
  ASSUME NEW r \in Rows, NEW c \in Classifications, NEW reason,
         NEW s \in {SeedOne(r), TransitionToDispatched(r), RecordOutcome(r, c), Abandon(r),
                    StampProgress(r), TransitionToFailed(r, reason), ResetToPlanned(r)}
  PROVE  /\ s.pr_number \in {r.pr_number, NULL}
         /\ s.status = "merged" => r.status = "merged"
BY DEF Rows, SeedOne, TransitionToDispatched, RecordOutcome, OutcomeStatus, Classifications,
       Abandon, StampProgress, TransitionToFailed, ResetToPlanned

LEMMA UpdateFollowsPRs ==
  ASSUME row \in [Tasks -> Rows], NEW t \in Tasks, NEW r, Update(t, r),
         \/ r.pr_number \in {row[t].pr_number, NULL}
         \/ r.pr_number \in PRNumbers /\ pr[r.pr_number].task = t,
         r.status = "merged" => row[t].status = "merged" \/ Landed(t)
  PROVE  RowsFollowPRs
BY DEF Update, RowsFollowPRs

\* A step of p leaves what the other processes remember.
OthersKeep(p) ==
  \A q \in Procs \ {p} : pc'[q] = pc[q] /\ todo'[q] = todo[q] /\ held'[q] = held[q]

LEMMA DispatchMergeStep ==
  ASSUME MergeInv, NEW p \in Procs, DispatchStep(p)
  PROVE  OthersKeep(p) /\ Knows(p)' /\ RowsFollowPRs
<1> DEFINE t == held[p].task
<1>0. /\ row \in [Tasks -> Rows]
      /\ pc \in [Procs -> Places]
      /\ todo \in [Procs -> SUBSET Items]
      /\ held \in [Procs -> Holds]
  BY DEF MergeInv, TypeOK, TableOK, LocalOK
<1>1. OthersKeep(p)
  BY <1>0 DEF DispatchStep, PickNextPlanned, ProvisionFails, Claim, FinishSession,
              Release, Goto, OthersKeep
<1>2. Knows(p)'
  <2>1. pc'[p] \in {"provision", "session", "idle", "stamp"}
    BY <1>0 DEF DispatchStep, PickNextPlanned, ProvisionFails, Claim, FinishSession,
                AfterDispatch, Release, Goto
  <2>. QED
    BY <2>1 DEF Knows, PRPlaces
<1>3. RowsFollowPRs
  <2>1. CASE UNCHANGED row
    BY <2>1 DEF RowsFollowPRs
  <2>2. CASE Claim(p)
    <3>1. t \in Tasks
      BY <2>2 DEF MergeInv, TypeOK, LocalOK, HoldingPlaces, Claim, At
    <3>2. Update(t, TransitionToDispatched(row[t]))
      BY <2>2 DEF Claim
    <3>3. PICK c \in Classifications : TRUE
      BY DEF Classifications
    <3>. QED
      BY <1>0, <3>1, <3>2, <3>3, RowOperatorsFrame, UpdateFollowsPRs
  <2>3. CASE FinishSession(p)
    <3>1. t \in Tasks
      BY <2>3 DEF MergeInv, TypeOK, LocalOK, HoldingPlaces, FinishSession, At
    <3>2. PICK c \in Classifications : Update(t, RecordOutcome(row[t], c))
      BY <2>3 DEF FinishSession, MaybeUpgrade, Classifications
    <3>. QED
      BY <1>0, <3>1, <3>2, RowOperatorsFrame, UpdateFollowsPRs
  <2>. QED
    BY <2>1, <2>2, <2>3 DEF DispatchStep, PickNextPlanned, ProvisionFails
<1>. QED
  BY <1>1, <1>2, <1>3

LEMMA TickOthersKeep ==
  ASSUME TypeOK, NEW p \in Ticks, TickStep(p)
  PROVE  OthersKeep(p)
<1>0. /\ pc \in [Procs -> Places]
      /\ todo \in [Procs -> SUBSET Items]
      /\ held \in [Procs -> Holds]
  BY DEF TypeOK, LocalOK
<1>1. /\ \A q \in Procs \ {p} : pc'[q] = pc[q]
      /\ \A q \in Procs \ {p} : todo'[q] = todo[q]
      /\ \A q \in Procs \ {p} : held'[q] = held[q]
  BY <1>0 DEF TickStep, BeginTick, ReapLoad, ReapOne, RecoverLoad, CountRetries, Reset,
       Exhausted, Seed, SkipDispatch, ListOpenPRs, StampLoad, StampOne, WatchLoad, WatchGet,
       GetUnanswered, WatchApply, MergeLoad, SkipMerge, MergeGet, AlreadyMerged,
       NotACandidate, CriticRejects, CriticApproves, MergeRefused, RecordMerge,
       Load, EndPass, Take, Release, Goto
<1>. QED
  BY <1>1 DEF OthersKeep

\* The rows a tick writes follow the PRs: its stamps name PRs of the row's
\* branch, its merges are merges it has seen or made.
LEMMA TickRowsFollowPRs ==
  ASSUME MergeInv, NEW p \in Ticks, TickStep(p)
  PROVE  RowsFollowPRs
<1> DEFINE t == held[p].task
<1>0. p \in Procs /\ row \in [Tasks -> Rows] /\ Knows(p)
  BY DEF Procs, MergeInv, TypeOK, TableOK
<1>a. PICK c \in Classifications : TRUE
  BY DEF Classifications
<1>1. CASE ReapOne(p)
  <2>1. PICK i \in todo[p] : Update(i.task, Abandon(row[i.task]))
    BY <1>1 DEF ReapOne
  <2>2. i.task \in Tasks
    BY <1>0, <2>1 DEF MergeInv, TypeOK, LocalOK, Items
  <2>. QED
    BY <1>0, <1>a, <2>1, <2>2, RowOperatorsFrame, UpdateFollowsPRs
<1>2. CASE StampOne(p)
  <2>1. PICK i \in todo[p] : Update(i.task, StampPRNumber(row[i.task], i.pr))
    BY <1>2 DEF StampOne
  <2>2. i.task \in Tasks /\ i.pr \in PRNumbers /\ pr[i.pr].task = i.task
    BY <1>0, <1>2, <2>1 DEF StampOne, At, PRPlaces, Knows, MergeInv, TypeOK, LocalOK, Items
  <2>3. LET s == StampPRNumber(row[i.task], i.pr) IN
        /\ s.pr_number \in {row[i.task].pr_number, i.pr}
        /\ s.status = row[i.task].status
    BY <1>0, <2>2 DEF StampPRNumber, Rows
  <2>. QED
    BY <1>0, <2>1, <2>2, <2>3, UpdateFollowsPRs
<1>3. CASE Reset(p) \/ Exhausted(p) \/ CriticRejects(p)
  <2>1. t \in Tasks
    BY <1>0, <1>3 DEF MergeInv, TypeOK, LocalOK, HoldingPlaces, Reset, Exhausted, CriticRejects, At
  <2>2. \/ Update(t, ResetToPlanned(row[t]))
        \/ Update(t, StampProgress(row[t]))
        \/ Update(t, TransitionToFailed(row[t], "critic_rejected"))
    BY <1>3 DEF Reset, Exhausted, CriticRejects
  <2>. QED
    BY <1>0, <1>a, <2>1, <2>2, RowOperatorsFrame, UpdateFollowsPRs
<1>4. CASE WatchApply(p) \/ AlreadyMerged(p) \/ RecordMerge(p)
  <2>1. /\ t \in Tasks
        /\ held[p].pr \in PRNumbers
        /\ pr[held[p].pr].task = t
    BY <1>0, <1>4
    DEF MergeInv, TypeOK, LocalOK, HoldingPlaces, Knows, WatchApply, AlreadyMerged, RecordMerge, At
  <2>2. CASE Update(t, TransitionToMerged(row[t])) /\ Landed(t)
    <3>1. /\ TransitionToMerged(row[t]).pr_number = row[t].pr_number
      BY <1>0, <2>1 DEF TransitionToMerged, Rows
    <3>. QED
      BY <1>0, <2>1, <2>2, <3>1, UpdateFollowsPRs
  <2>3. CASE \/ Update(t, StampProgress(row[t]))
             \/ Update(t, TransitionToFailed(row[t], "pr_closed_unmerged"))
    BY <1>0, <1>a, <2>1, <2>3, RowOperatorsFrame, UpdateFollowsPRs
  <2>4. held[p].seen = "merged" \/ pc[p] = "approved" => Landed(t)
    BY <1>0, <1>4, <2>1 DEF Knows, Landed, WatchApply, AlreadyMerged, RecordMerge, At
  <2>. QED
    BY <1>4, <2>2, <2>3, <2>4 DEF WatchApply, AlreadyMerged, RecordMerge, At
<1>5. CASE Seed(p)
  <2>1. CASE UNCHANGED row
    BY <2>1 DEF RowsFollowPRs
  <2>2. CASE \E u \in Tasks : Update(u, SeedOne(row[u]))
    BY <1>0, <1>a, <2>2, RowOperatorsFrame, UpdateFollowsPRs
  <2>. QED
    BY <1>5, <2>1, <2>2 DEF Seed, SeedRow, WithStatus
<1>6. CASE UNCHANGED row
  BY <1>6 DEF RowsFollowPRs
<1>. QED
  BY <1>1, <1>2, <1>3, <1>4, <1>5, <1>6
  DEF TickStep, BeginTick, ReapLoad, RecoverLoad, CountRetries, SkipDispatch, ListOpenPRs, StampLoad,
      WatchLoad, WatchGet, GetUnanswered, MergeLoad, SkipMerge, MergeGet, NotACandidate,
      CriticApproves, MergeRefused, Load, EndPass, Take

\* What a tick remembers of PRs, it has just read or made so.
LEMMA TickKnows ==
  ASSUME MergeInv, NEW p \in Ticks, TickStep(p), PRsProgress
  PROVE  Knows(p)'
<1>0. p \in Procs /\ Knows(p) /\ TypeOK
  BY DEF Procs, MergeInv
<1>t. /\ pc \in [Procs -> Places]
      /\ todo \in [Procs -> SUBSET Items]
      /\ held \in [Procs -> Holds]
  BY <1>0 DEF TypeOK, LocalOK
<1>1. CASE /\ pc'[p] \notin PRPlaces
  BY <1>1 DEF Knows, PRPlaces
<1>2. CASE ListOpenPRs(p)
  <2>1. /\ pc'[p] = "listed"
        /\ \A i \in todo'[p] : pr[i.pr].task = i.task
        /\ UNCHANGED pr
    BY <1>0, <1>t, <1>2 DEF ListOpenPRs, Load, Goto, OpenPRs, external
  <2>. QED
    BY <2>1 DEF Knows
<1>3. CASE WatchLoad(p) \/ MergeLoad(p)
  <2>1. \A i \in RowsWithPR : pr[i.pr].task = i.task
    BY DEF RowsWithPR, WithStatus, MergeInv, PRBelongsToTask
  <2>2. /\ pc'[p] \in {"watching", "merging"}
        /\ todo'[p] = RowsWithPR
        /\ UNCHANGED pr
    BY <1>0, <1>t, <1>3 DEF WatchLoad, MergeLoad, Load, Goto, external
  <2>. QED
    BY <2>1, <2>2 DEF Knows
<1>4. CASE WatchGet(p) \/ MergeGet(p)
  <2>1. PICK i \in todo[p] :
          /\ \/ Take(p, "watching", "observed", i, pr[i.pr].state, 0)
             \/ Take(p, "merging", "reviewing", i, pr[i.pr].state, 0)
    BY <1>4 DEF WatchGet, MergeGet
  <2>2. /\ pc[p] \in PRPlaces
        /\ pc'[p] \in {"observed", "reviewing"}
        /\ todo'[p] \subseteq todo[p]
        /\ held'[p].pr = i.pr
        /\ held'[p].task = i.task
        /\ held'[p].seen = pr[i.pr].state
        /\ UNCHANGED pr
    BY <1>0, <1>t, <2>1 DEF Take, At, Goto, PRPlaces, external
  <2>. QED
    BY <1>0, <2>1, <2>2 DEF Knows, PRPlaces
<1>5. CASE CriticApproves(p)
  <2>1. /\ pc[p] = "reviewing" /\ pc'[p] = "approved"
        /\ held[p].pr \in PRNumbers /\ held[p].task \in Tasks
        /\ pr' = [pr EXCEPT ![held[p].pr].state = "merged"]
        /\ UNCHANGED <<todo, held>>
    BY <1>0, <1>t, <1>5 DEF CriticApproves, At, Goto, TypeOK, LocalOK, HoldingPlaces
  <2>2. \A n \in PRNumbers : pr'[n].task = pr[n].task
    BY <1>0, <2>1 DEF TypeOK, GitHubOK, PRs
  <2>3. \A i \in todo[p] : i.pr \in PRNumbers
    BY <1>0, <2>1 DEF TypeOK, LocalOK, PRPlaces
  <2>4. pr'[held[p].pr].state = "merged"
    BY <1>0, <2>1 DEF TypeOK, GitHubOK, PRs
  <2>. QED
    BY <1>0, <2>1, <2>2, <2>3, <2>4 DEF Knows, PRPlaces
<1>6. CASE /\ pc[p] \in PRPlaces
           /\ todo'[p] \subseteq todo[p]
           /\ pc'[p] \in {"stamping", "watching", "merging"}
           /\ UNCHANGED pr
  BY <1>0, <1>6 DEF Knows
<1>7. CASE \/ StampLoad(p) \/ StampOne(p) \/ GetUnanswered(p, "watching") \/ GetUnanswered(p, "merging")
           \/ WatchApply(p) \/ AlreadyMerged(p) \/ NotACandidate(p) \/ CriticRejects(p)
           \/ MergeRefused(p) \/ RecordMerge(p)
  BY <1>0, <1>t, <1>6, <1>7
  DEF StampLoad, StampOne, GetUnanswered, WatchApply, AlreadyMerged, NotACandidate, CriticRejects,
      MergeRefused, RecordMerge, Release, Goto, At, PRPlaces, external
<1>8. CASE \/ BeginTick(p) \/ ReapLoad(p) \/ ReapOne(p) \/ RecoverLoad(p) \/ CountRetries(p)
           \/ Reset(p) \/ Exhausted(p) \/ Seed(p) \/ SkipDispatch(p) \/ SkipMerge(p)
           \/ EndPass(p, "reaping", "recover") \/ EndPass(p, "recovering", "seed")
           \/ EndPass(p, "stamping", "watch") \/ EndPass(p, "watching", "merge")
           \/ EndPass(p, "merging", "idle")
  BY <1>0, <1>t, <1>1, <1>8
  DEF BeginTick, ReapLoad, ReapOne, RecoverLoad, CountRetries, Reset, Exhausted, Seed,
      SkipDispatch, SkipMerge, Load, EndPass, Take, Release, Goto, At, PRPlaces
<1>. QED
  BY <1>2, <1>3, <1>4, <1>5, <1>7, <1>8 DEF TickStep

-----------------------------------------------------------------------------
(* The invariant is inductive *)

LEMMA MergeInvStep ==
  ASSUME MergeInv, [Next]_vars
  PROVE  MergeInv'
<1>1. TypeOK' /\ UnusedPRs' /\ PRsProgress
  BY NextType, PRStep DEF MergeInv
<1>2. RowsFollowPRs /\ \A p \in Procs : Knows(p)'
  <2>1. ASSUME NEW p \in Procs, DispatchStep(p) \/ (p \in Ticks /\ TickStep(p))
        PROVE  RowsFollowPRs /\ \A q \in Procs : Knows(q)'
    <3>1. OthersKeep(p) /\ Knows(p)' /\ RowsFollowPRs
      BY <1>1, <2>1, DispatchMergeStep, TickOthersKeep, TickKnows, TickRowsFollowPRs DEF MergeInv
    <3>2. \A q \in Procs \ {p} : Knows(q)'
      BY <1>1, <3>1, KnowsStable DEF OthersKeep, MergeInv
    <3>. QED
      BY <3>1, <3>2
  <2>2. ASSUME NEW P \in SUBSET Procs, CrashAll(P)
        PROVE  RowsFollowPRs /\ \A q \in Procs : Knows(q)'
    <3>1. \A q \in P : Knows(q)'
      BY <2>2 DEF CrashAll, Knows, PRPlaces
    <3>2. \A q \in Procs \ P : pc'[q] = pc[q] /\ todo'[q] = todo[q] /\ held'[q] = held[q]
      BY <2>2 DEF CrashAll
    <3>3. RowsFollowPRs
      BY <2>2 DEF CrashAll, RowsFollowPRs
    <3>. QED
      BY <1>1, <3>1, <3>2, <3>3, KnowsStable DEF MergeInv
  <2>3. ASSUME DaemonSeed \/ Environment \/ UNCHANGED vars
        PROVE  RowsFollowPRs /\ \A q \in Procs : Knows(q)'
    <3>1. UNCHANGED local
      BY <2>3 DEF DaemonSeed, Environment, OpenPR, OrphanEnds, GoStale, CoolDown,
                  HumanMerges, HumanCloses, HumanReopens, SetPRState, vars, local
    <3>2. \A q \in Procs : Knows(q)'
      BY <1>1, <3>1, KnowsStable DEF MergeInv, local
    <3>3. row \in [Tasks -> Rows]
      BY DEF MergeInv, TypeOK, TableOK
    <3>4. ASSUME DaemonSeed PROVE RowsFollowPRs
      <4>1. PICK c \in Classifications : TRUE
        BY DEF Classifications
      <4>2. CASE UNCHANGED row
        BY <4>2 DEF RowsFollowPRs
      <4>3. CASE \E u \in Tasks : Update(u, SeedOne(row[u]))
        BY <3>3, <4>1, <4>3, RowOperatorsFrame, UpdateFollowsPRs
      <4>. QED
        BY <3>4, <4>2, <4>3 DEF DaemonSeed, SeedRow, WithStatus
    <3>5. ASSUME NEW t \in Tasks, GoStale(t) \/ CoolDown(t) PROVE RowsFollowPRs
      <4>1. \/ Update(t, [row[t] EXCEPT !.fresh = FALSE])
            \/ Update(t, [row[t] EXCEPT !.failed_at = "cooled"])
        BY <3>5 DEF GoStale, CoolDown
      <4>2. \A u \in Tasks : /\ row'[u].pr_number = row[u].pr_number
                             /\ row'[u].status = row[u].status
        BY <3>3, <4>1 DEF Update, Rows
      <4>. QED
        BY <4>2 DEF RowsFollowPRs
    <3>6. UNCHANGED row => RowsFollowPRs
      BY DEF RowsFollowPRs
    <3>7. RowsFollowPRs
      BY <2>3, <3>4, <3>5, <3>6 DEF Environment, OpenPR, OrphanEnds, HumanMerges,
         HumanCloses, HumanReopens, SetPRState, vars
    <3>. QED
      BY <3>2, <3>7
  <2>4. CASE (\E p \in Ticks : CrashTick(p)) \/ CrashDaemon
    <3>1. PICK P \in SUBSET Procs : CrashAll(P)
      BY <2>4 DEF CrashTick, CrashDaemon, Procs
    <3>. QED
      BY <3>1, <2>2
  <2>. QED
    BY <2>1, <2>3, <2>4 DEF Next, Procs
<1>3. PRBelongsToTask'
  <2>1. ASSUME NEW t \in Tasks, row'[t].pr_number # NULL
        PROVE  pr'[row'[t].pr_number].task = t
    <3>1. row'[t].pr_number \in PRNumbers
      BY <1>1, <2>1 DEF TypeOK, TableOK, Rows
    <3>2. pr[row'[t].pr_number].task = t
      BY <1>2, <2>1, <3>1 DEF RowsFollowPRs, MergeInv, PRBelongsToTask
    <3>. QED
      BY <1>1, <3>1, <3>2, EngineConstants DEF PRsProgress
  <2>. QED
    BY <2>1 DEF PRBelongsToTask
<1>4. MergedMeansLanded'
  <2>1. \A t \in Tasks : Landed(t) => Landed(t)'
    BY <1>1, EngineConstants DEF Landed, PRsProgress
  <2>. QED
    BY <1>2, <2>1 DEF MergedMeansLanded, RowsFollowPRs, MergeInv
<1>. QED
  BY <1>1, <1>2, <1>3, <1>4 DEF MergeInv

LEMMA MergeInvInit == Init => MergeInv
<1> SUFFICES ASSUME Init PROVE MergeInv
  OBVIOUS
<1>1. TypeOK
  BY InitType
<1>2. UnusedPRs
  BY DEF Init, UnusedPRs
<1>3. PRBelongsToTask /\ MergedMeansLanded
  BY DEF Init, NoRow, PRBelongsToTask, MergedMeansLanded
<1>4. \A p \in Procs : Knows(p)
  BY DEF Init, Knows, PRPlaces
<1>. QED
  BY <1>1, <1>2, <1>3, <1>4 DEF MergeInv

\* For any number of ticks, slots, tasks and PRs, and through any crashes, the
\* task table never says merged of a task whose PR has not landed.
THEOREM MergeCorrect == Spec => []MergedMeansLanded
<1>1. MergeInv => MergedMeansLanded
  BY DEF MergeInv
<1>. QED
  BY <1>1, MergeInvInit, MergeInvStep, PTL DEF Spec

=============================================================================
