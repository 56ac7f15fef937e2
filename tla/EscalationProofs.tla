--------------------------- MODULE EscalationProofs ---------------------------
(***************************************************************************)
(* Proofs about module Escalation, for any thresholds, recipes, model      *)
(* chains and bounds on retries and sessions.                              *)
(***************************************************************************)
EXTENDS EscalationProperties, FiniteSetTheorems, TLAPS

-----------------------------------------------------------------------------
(* The ledger *)

\* The places of the events of a kind.
Where(K) == {i \in DOMAIN log : log[i].kind \in K}

\* Where an event is told from others by its kind alone, its age does not count.
KindsKept ==
  /\ DOMAIN log' = DOMAIN log
  /\ \A i \in DOMAIN log : log'[i].kind = log[i].kind

\* Counts are numbers.
LEMMA CountIsNat ==
  ASSUME log \in Seq(Events)
  PROVE  /\ \A K : Count(K) \in Nat /\ IsFiniteSet(Where(K)) /\ Count(K) = Cardinality(Where(K))
         /\ Strikes \in Nat
         /\ FailuresInRow \in Nat
         /\ FailuresInRow <= Count({"dispatch_failed"})
<1>1. IsFiniteSet(DOMAIN log)
  <2>1. DOMAIN log = 1..Len(log) /\ Len(log) \in Nat
    OBVIOUS
  <2>. QED
    BY <2>1, FS_Interval
<1>2. \A S \in SUBSET DOMAIN log : IsFiniteSet(S) /\ Cardinality(S) \in Nat
  BY <1>1, FS_Subset, FS_CardinalityType
<1>3. \A K : Where(K) \in SUBSET DOMAIN log
  BY DEF Where
<1>4. \A K : Count(K) = Cardinality(Where(K))
  BY DEF Count, Where
<1>5. Strikes \in Nat
  BY <1>2 DEF Strikes
<1>. DEFINE last == {i \in DOMAIN log :
                       /\ log[i].kind = "dispatch_failed"
                       /\ \A j \in {n \in DOMAIN log : log[n].kind = "dispatch_succeeded"} : j < i}
<1>6. last \in SUBSET Where({"dispatch_failed"}) /\ last \in SUBSET DOMAIN log
  BY DEF Where
<1>7. FailuresInRow = Cardinality(last)
  BY DEF FailuresInRow
<1>. HIDE DEF last
<1>8. Cardinality(last) <= Cardinality(Where({"dispatch_failed"}))
  BY <1>2, <1>3, <1>6, FS_Subset
<1>. QED
  BY <1>2, <1>3, <1>4, <1>5, <1>6, <1>7, <1>8

\* Time does not change what is counted by kind.
LEMMA CountKept ==
  ASSUME KindsKept
  PROVE  \A K : Count(K)' = Count(K) /\ Where(K)' = Where(K)
<1>1. \A K : {i \in DOMAIN log : log[i].kind \in K}' = {i \in DOMAIN log : log[i].kind \in K}
  BY DEF KindsKept
<1>. QED
  BY <1>1 DEF Count, Where

\* A new event adds one to the counts it belongs to.
LEMMA CountEmit ==
  ASSUME log \in Seq(Events), NEW k \in Kinds, Emit(k)
  PROVE  /\ log' \in Seq(Events) /\ Len(log') = Len(log) + 1
         /\ \A i \in DOMAIN log : log'[i] = log[i]
         /\ log'[Len(log) + 1].kind = k
         /\ \A K : k \in K => Count(K)' = Count(K) + 1
         /\ \A K : k \notin K => Count(K)' = Count(K) /\ Where(K)' = Where(K)
<1>. DEFINE e == [kind |-> k, age |-> "hot"]
            n == Len(log) + 1
<1>1. e \in Events /\ e.kind = k
  BY DEF Events, EventAges
<1>2. log' = Append(log, e)
  BY DEF Emit
<1>. HIDE DEF e
<1>3. /\ log' \in Seq(Events) /\ Len(log') = n /\ Len(log) \in Nat
      /\ DOMAIN log = 1..Len(log) /\ DOMAIN log' = 1..n
      /\ \A i \in DOMAIN log : log'[i] = log[i]
      /\ log'[n] = e
  BY <1>1, <1>2
<1>4. n \notin DOMAIN log /\ DOMAIN log' = DOMAIN log \cup {n}
  BY <1>3
<1>. HIDE DEF n
<1>5. ASSUME NEW K, k \in K PROVE Count(K)' = Count(K) + 1
  <2>1. {i \in DOMAIN log' : log'[i].kind \in K} = Where(K) \cup {n} /\ n \notin Where(K)
    BY <1>1, <1>3, <1>4, <1>5 DEF Where
  <2>2. IsFiniteSet(Where(K)) /\ Count(K) = Cardinality(Where(K))
    BY CountIsNat
  <2>3. Cardinality(Where(K) \cup {n}) = Cardinality(Where(K)) + 1
    BY <2>1, <2>2, FS_AddElement
  <2>4. Count(K)' = Cardinality({i \in DOMAIN log' : log'[i].kind \in K})
    BY DEF Count
  <2>. QED
    BY <2>1, <2>2, <2>3, <2>4
<1>6. ASSUME NEW K, k \notin K PROVE Count(K)' = Count(K) /\ Where(K)' = Where(K)
  <2>1. {i \in DOMAIN log' : log'[i].kind \in K} = {i \in DOMAIN log : log[i].kind \in K}
    BY <1>1, <1>3, <1>4, <1>6
  <2>. QED
    BY <2>1 DEF Count, Where
<1>. QED
  BY <1>1, <1>3, <1>5, <1>6 DEF n

-----------------------------------------------------------------------------
(* The invariant *)

\* TypeOK, but for the places where a count must be bounded first.
RowOK == row \in Rows /\ log \in Seq(Events) /\ started \in 0..MaxAttempts
PROK ==
  /\ pr \in [PRNumbers -> PRStates]
  /\ dead \subseteq PRNumbers
  /\ \A n \in dead : pr[n] \in {"closed", "merged"}
SessionOK ==
  /\ running \in Starts \cup {NULL}
  /\ running # NULL => row.status = "dispatched"

Paid == {"auto_recover_attempted", "deep_fix_escalated", "dispatch_retryable", "rate_limited"}

\* A row that is planned has its next session paid for.
Planned == IF row.status = "planned" THEN 1 ELSE 0
PaidInAdvance ==
  /\ started + Planned <= 1 + Count(Paid)
  /\ Count({"auto_recover_attempted"}) <= MaxRetries
  /\ Escalations <= Recipes

\* An escalation that no reset of auto_recover came after.
EscalatedLast ==
  \E i \in DOMAIN log :
    /\ log[i].kind = "deep_fix_escalated"
    /\ \A j \in DOMAIN log : j > i => log[j].kind # "auto_recover_attempted"

\* Who is planned or at work with a PR on record was escalated with it.
PRIsInherited ==
  /\ row.pr_number # NULL
  /\ \/ row.status = "planned"
     \/ running # NULL
     \/ row.status = "dispatched" /\ row.pr_number \in dead
  => EscalatedLast

\* A failure of the session keeps the row failed until it is escalated.
FailureStays ==
  Count({"dispatch_failed"}) > 0 /\ Escalations = 0 =>
    row.status = "failed" /\ row.failure_reason = "failed" /\ running = NULL

EscalationInv ==
  /\ RowOK /\ PROK /\ SessionOK
  /\ PaidInAdvance /\ HumanIsLastResort /\ PRIsInherited /\ FailureStays
  /\ DecomposeFirstIsNeverChosen

-----------------------------------------------------------------------------
(* Parts that depend on the kinds of the events alone *)

\* The escalations before the i-th event.
Tried(i) == {j \in 1..(i - 1) : log[j].kind = "deep_fix_escalated"}

\* HumanIsLastResort, without the sequences in it.
LastResort ==
  \A i \in DOMAIN log :
    log[i].kind = "deep_fix_exhausted" =>
      /\ Cardinality(Tried(i)) = Recipes
      /\ \A j \in 1..(i - 1) : log[j].kind # "deep_fix_exhausted"

\* The two say the same.
LEMMA LastResortMeans ==
  log \in Seq(Events) => (HumanIsLastResort <=> LastResort)
<1>. SUFFICES ASSUME log \in Seq(Events) PROVE HumanIsLastResort <=> LastResort
  OBVIOUS
<1>1. ASSUME NEW i \in DOMAIN log
      PROVE  /\ DOMAIN SubSeq(log, 1, i - 1) = 1..(i - 1)
             /\ \A j \in 1..(i - 1) : SubSeq(log, 1, i - 1)[j] = log[j]
  OBVIOUS
<1>2. ASSUME NEW i \in DOMAIN log
      PROVE  {j \in DOMAIN SubSeq(log, 1, i - 1) :
                SubSeq(log, 1, i - 1)[j].kind = "deep_fix_escalated"} = Tried(i)
  BY <1>1 DEF Tried
<1>. QED
  BY <1>1, <1>2 DEF HumanIsLastResort, LastResort

\* ... also after a step.
LEMMA LastResortMeansNext ==
  log' \in Seq(Events) => (HumanIsLastResort' <=> LastResort')
<1>1. (log \in Seq(Events) => (HumanIsLastResort <=> LastResort))'
  BY LastResortMeans, PTL
<1>. QED
  BY <1>1

\* Time does not change who was called, nor what came last.
LEMMA OrderKept ==
  ASSUME log \in Seq(Events), log' \in Seq(Events), KindsKept
  PROVE  /\ HumanIsLastResort => HumanIsLastResort'
         /\ EscalatedLast => EscalatedLast'
<1>1. DOMAIN log = 1..Len(log) /\ Len(log) \in Nat
  OBVIOUS
<1>2. ASSUME NEW i \in DOMAIN log PROVE Tried(i)' = Tried(i)
  BY <1>1 DEF Tried, KindsKept
<1>3. LastResort => LastResort'
  BY <1>1, <1>2 DEF LastResort, KindsKept
<1>4. EscalatedLast => EscalatedLast'
  BY DEF EscalatedLast, KindsKept
<1>. QED
  BY <1>3, <1>4, LastResortMeans, LastResortMeansNext

\* An event that calls nobody, and one that resets nothing.
LEMMA OrderEmit ==
  ASSUME log \in Seq(Events), NEW k \in Kinds, Emit(k)
  PROVE  /\ HumanIsLastResort /\ k # "deep_fix_exhausted" => HumanIsLastResort'
         /\ EscalatedLast /\ k # "auto_recover_attempted" => EscalatedLast'
         /\ k = "deep_fix_escalated" => EscalatedLast'
<1>. DEFINE n == Len(log) + 1
<1>1. /\ DOMAIN log = 1..Len(log) /\ Len(log) \in Nat
      /\ log' \in Seq(Events) /\ DOMAIN log' = 1..n
      /\ \A i \in DOMAIN log : log'[i] = log[i]
      /\ log'[n].kind = k
  BY CountEmit
<1>2. n \in DOMAIN log' /\ \A i \in DOMAIN log' : i = n \/ i \in DOMAIN log
  BY <1>1
<1>3. ASSUME NEW i \in DOMAIN log PROVE Tried(i)' = Tried(i)
  BY <1>1 DEF Tried
<1>4. LastResort /\ k # "deep_fix_exhausted" => LastResort'
  <2>. SUFFICES ASSUME LastResort, k # "deep_fix_exhausted",
                       NEW i \in DOMAIN log', log'[i].kind = "deep_fix_exhausted"
                PROVE  /\ Cardinality(Tried(i)') = Recipes
                       /\ \A j \in 1..(i - 1) : log'[j].kind # "deep_fix_exhausted"
    BY DEF LastResort
  <2>1. i \in DOMAIN log
    BY <1>1, <1>2
  <2>. QED
    BY <1>1, <1>3, <2>1 DEF LastResort
<1>5. ASSUME EscalatedLast, k # "auto_recover_attempted" PROVE EscalatedLast'
  <2>1. PICK i \in DOMAIN log :
          /\ log[i].kind = "deep_fix_escalated"
          /\ \A j \in DOMAIN log : j > i => log[j].kind # "auto_recover_attempted"
    BY <1>5 DEF EscalatedLast
  <2>2. i \in DOMAIN log' /\ log'[i].kind = "deep_fix_escalated"
    BY <1>1, <2>1
  <2>3. \A j \in DOMAIN log' : j > i => log'[j].kind # "auto_recover_attempted"
    BY <1>1, <1>2, <1>5, <2>1
  <2>. QED
    BY <2>2, <2>3 DEF EscalatedLast
<1>6. k = "deep_fix_escalated" => EscalatedLast'
  <2>1. \A j \in DOMAIN log' : ~(j > n)
    BY <1>1
  <2>. QED
    BY <1>1, <1>2, <2>1 DEF EscalatedLast
<1>. QED
  BY <1>1, <1>4, <1>5, <1>6, LastResortMeans, LastResortMeansNext

\* A person is called for the first time, after every recipe.
LEMMA OrderExhausted ==
  ASSUME log \in Seq(Events), Emit("deep_fix_exhausted"), HumanIsLastResort,
         Escalations = Recipes, Count({"deep_fix_exhausted"}) = 0
  PROVE  HumanIsLastResort'
<1>. PICK n \in Nat : n = Len(log) + 1
  OBVIOUS
<1>1. /\ DOMAIN log = 1..Len(log) /\ Len(log) \in Nat
      /\ log' \in Seq(Events) /\ DOMAIN log' = 1..n
      /\ \A i \in DOMAIN log : log'[i] = log[i]
  BY CountEmit DEF Kinds
<1>2. Where({"deep_fix_exhausted"}) = {}
  <2>1. /\ IsFiniteSet(Where({"deep_fix_exhausted"}))
        /\ Cardinality(Where({"deep_fix_exhausted"})) = 0
    BY CountIsNat
  <2>. QED
    BY <2>1, FS_EmptySet
<1>3. \A j \in DOMAIN log : log[j].kind # "deep_fix_exhausted"
  BY <1>2 DEF Where
<1>4. Cardinality(Tried(n)') = Recipes
  <2>1. Tried(n)' = Where({"deep_fix_escalated"})
    BY <1>1 DEF Tried, Where
  <2>2. Escalations = Cardinality(Where({"deep_fix_escalated"}))
    BY CountIsNat DEF Escalations
  <2>. QED
    BY <2>1, <2>2
<1>5. LastResort'
  <2>. SUFFICES ASSUME NEW i \in DOMAIN log', log'[i].kind = "deep_fix_exhausted"
                PROVE  /\ Cardinality(Tried(i)') = Recipes
                       /\ \A j \in 1..(i - 1) : log'[j].kind # "deep_fix_exhausted"
    BY DEF LastResort
  <2>1. i = n
    BY <1>1, <1>3
  <2>. QED
    BY <1>1, <1>3, <1>4, <2>1
<1>. QED
  BY <1>1, <1>5, LastResortMeansNext

-----------------------------------------------------------------------------
(* Steps that write no event *)

\* What has to be shown of a step that only lets time pass over the ledger.
LEMMA QuietStep ==
  ASSUME EscalationInv, KindsKept, log' \in Seq(Events),
         row' \in Rows, PROK', SessionOK', DecomposeFirstIsNeverChosen',
         started' \in 0..MaxAttempts, started' + Planned' <= started + Planned,
         row'.pr_number # NULL /\ \/ row'.status = "planned"
                                  \/ running' # NULL
                                  \/ row'.status = "dispatched" /\ row'.pr_number \in dead'
           => row.pr_number # NULL /\ \/ row.status = "planned"
                                      \/ running # NULL
                                      \/ row.status = "dispatched" /\ row.pr_number \in dead,
         row.status = "failed" /\ row.failure_reason = "failed" /\ running = NULL
           => \/ row'.status = "failed" /\ row'.failure_reason = "failed" /\ running' = NULL
              \/ ~(Count({"dispatch_failed"}) > 0 /\ Escalations = 0)
  PROVE  EscalationInv'
<1>1. \A K : Count(K)' = Count(K)
  BY CountKept
<1>2. Escalations' = Escalations
  BY <1>1 DEF Escalations
<1>3. /\ Count(Paid) \in Nat /\ Count({"auto_recover_attempted"})' = Count({"auto_recover_attempted"})
      /\ Count(Paid)' = Count(Paid) /\ Count({"dispatch_failed"})' = Count({"dispatch_failed"})
  BY <1>1, CountIsNat DEF EscalationInv, RowOK
<1>4. started \in Nat /\ started' \in Nat /\ Planned \in Nat /\ Planned' \in Nat
  BY EscalationConstants DEF EscalationInv, RowOK, Planned
<1>5. PaidInAdvance'
  <2>1. started + Planned <= 1 + Count(Paid)
    BY DEF EscalationInv, PaidInAdvance
  <2>2. started' + Planned' <= 1 + Count(Paid)
    BY <1>3, <1>4, <2>1
  <2>3. Paid' = Paid
    BY DEF Paid
  <2>. QED
    BY <1>2, <1>3, <2>2 DEF EscalationInv, PaidInAdvance
<1>6. HumanIsLastResort' /\ (EscalatedLast => EscalatedLast')
  BY OrderKept DEF EscalationInv, RowOK
<1>7. PRIsInherited'
  BY <1>6 DEF EscalationInv, PRIsInherited
<1>8. FailureStays'
  BY <1>2, <1>3 DEF EscalationInv, FailureStays
<1>. QED
  BY <1>5, <1>6, <1>7, <1>8 DEF EscalationInv, RowOK

\* A ledger that stays as it is.
LEMMA LogKept ==
  ASSUME EscalationInv, UNCHANGED log
  PROVE  KindsKept /\ log' \in Seq(Events)
  BY DEF EscalationInv, RowOK, KindsKept

\* A session is started without the decompose-first prompt: the task has been
\* escalated, or none of its sessions has failed.
LEMMA DispatchStep ==
  ASSUME EscalationInv, Dispatch
  PROVE  EscalationInv'
<1>1. /\ running = NULL /\ row.status = "planned" /\ started < MaxAttempts
      /\ row' = TransitionToDispatched(row) /\ running' = Start /\ started' = started + 1
      /\ dead' = {n \in PRNumbers : pr[n] \in {"closed", "merged"}}
      /\ UNCHANGED <<log, pr>>
  BY DEF Dispatch, MayRunAgain
<1>2. /\ row \in Rows /\ log \in Seq(Events) /\ started \in Nat /\ started \in 0..MaxAttempts
      /\ MaxAttempts \in Nat
  BY EscalationConstants DEF EscalationInv, RowOK
<1>3. /\ row' \in Rows /\ row'.status = "dispatched" /\ row'.pr_number = row.pr_number
  BY <1>1, <1>2 DEF TransitionToDispatched, Rows, Statuses
<1>4. PROK'
  BY <1>1 DEF EscalationInv, PROK
<1>5. /\ Strikes \in Nat /\ FailuresInRow \in Nat
      /\ FailuresInRow <= Count({"dispatch_failed"}) /\ Count({"dispatch_failed"}) \in Nat
      /\ Escalations \in Nat /\ Escalations <= Recipes
  BY <1>2, CountIsNat DEF Escalations, EscalationInv, PaidInAdvance
<1>6. ~(Override = 0 /\ FailuresInRow >= DecomposeAfter)
  <2>1. Escalations = 0 => Count({"dispatch_failed"}) = 0
    BY <1>1, <1>5 DEF EscalationInv, FailureStays
  <2>. QED
    BY <1>5, <2>1, EscalationConstants DEF Override
<1>7. Start \in Starts /\ ~Start.decompose
  <2>1. Override \in 0..Recipes
    BY <1>5, EscalationConstants DEF Override
  <2>2. PickModel \in 0..(Chain - 1) /\ 0 \in 0..(Chain - 1)
    BY <1>5, EscalationConstants DEF PickModel
  <2>3. PICK g : g = IF Override = 0 THEN PickModel ELSE 0
    OBVIOUS
  <2>4. (Override = 0 /\ FailuresInRow >= DecomposeAfter) = FALSE
    BY <1>6
  <2>5. Start = [recipe |-> Override, rung |-> g, decompose |-> FALSE]
    BY <2>3, <2>4, Zenon DEF Start
  <2>6. g \in 0..(Chain - 1)
    BY <2>2, <2>3
  <2>. QED
    BY <2>1, <2>5, <2>6 DEF Starts
<1>8. SessionOK' /\ DecomposeFirstIsNeverChosen'
  BY <1>1, <1>3, <1>7 DEF SessionOK, DecomposeFirstIsNeverChosen
<1>9. started' + Planned' <= started + Planned /\ started' \in 0..MaxAttempts
  BY <1>1, <1>2, <1>3 DEF Planned
<1>. QED
  BY <1>1, <1>2, <1>3, <1>4, <1>8, <1>9, LogKept, QuietStep

\* A pass that ends the row's life as dispatched, whatever the reason.
LEMMA LeaveDispatched ==
  ASSUME EscalationInv, running = NULL, UNCHANGED <<log, running, started, dead>>, PROK',
         row.status = "dispatched", row' \in Rows, row'.status \in {"merged", "failed", "abandoned"}
  PROVE  EscalationInv'
<1>1. SessionOK' /\ DecomposeFirstIsNeverChosen'
  BY DEF EscalationInv, SessionOK, DecomposeFirstIsNeverChosen
<1>2. started' \in 0..MaxAttempts /\ started' + Planned' <= started + Planned
  BY EscalationConstants DEF EscalationInv, RowOK, Planned
<1>. QED
  BY <1>1, <1>2, LogKept, QuietStep

\* heartbeat, pr_watcher and auto_merge.
LEMMA PassSteps ==
  ASSUME EscalationInv, Reap \/ Stamp \/ Watch \/ CriticApproves
  PROVE  EscalationInv'
<1>1. row \in Rows /\ PROK
  BY DEF EscalationInv, RowOK
<1>2. UNCHANGED pr /\ UNCHANGED dead => PROK'
  BY <1>1 DEF PROK
<1>3. CASE Reap
  <2>1. row.status = "dispatched" /\ row' = Abandon(row)
    BY <1>3 DEF Reap, Reapable
  <2>2. row' \in Rows /\ row'.status = "abandoned"
    BY <1>1, <2>1 DEF Abandon, Rows, Statuses, FailureReasons
  <2>. QED
    BY <1>2, <1>3, <2>1, <2>2, LeaveDispatched DEF Reap, PassStep
<1>4. CASE Watch
  <2>1. /\ row.status = "dispatched"
        /\ row' = TransitionToMerged(row) \/ row' = TransitionToFailed(row, "pr_closed_unmerged")
    BY <1>4 DEF Watch, Watched
  <2>2. row' \in Rows /\ row'.status \in {"merged", "failed"}
    BY <1>1, <2>1 DEF TransitionToMerged, TransitionToFailed, Rows, Statuses, FailureReasons, Ages
  <2>. QED
    BY <1>2, <1>4, <2>1, <2>2, LeaveDispatched DEF Watch, PassStep
<1>5. CASE CriticApproves
  <2>1. /\ row.status = "dispatched" /\ row.pr_number # NULL /\ pr[row.pr_number] = "open"
        /\ pr' = [pr EXCEPT ![row.pr_number] = "merged"]
        /\ row' = TransitionToMerged(row)
    BY <1>5 DEF CriticApproves, Watched
  <2>2. row' \in Rows /\ row'.status = "merged" /\ row.pr_number \in PRNumbers
    BY <1>1, <2>1 DEF TransitionToMerged, Rows, Statuses
  <2>3. PROK'
    BY <1>1, <1>5, <2>1, <2>2 DEF PROK, PRStates, CriticApproves
  <2>. QED
    BY <1>5, <2>1, <2>2, <2>3, LeaveDispatched DEF CriticApproves
<1>6. CASE Stamp
  <2>1. PICK n \in OpenPRs : row' = StampPRNumber(row, n)
    BY <1>6 DEF Stamp
  <2>2. /\ row.status = "dispatched" /\ row.pr_number = NULL
        /\ running = NULL /\ UNCHANGED <<log, pr, running, started, dead>>
    BY <1>6 DEF Stamp, PassStep
  <2>3. n \in PRNumbers /\ n \notin dead
    BY <1>1, <2>1 DEF OpenPRs, PROK
  <2>4. /\ row' \in Rows /\ row'.status = "dispatched" /\ row'.pr_number = n
    BY <1>1, <2>1, <2>2, <2>3 DEF StampPRNumber, Rows
  <2>5. SessionOK' /\ DecomposeFirstIsNeverChosen'
    BY <2>2, <2>4 DEF EscalationInv, SessionOK, DecomposeFirstIsNeverChosen
  <2>6. started' \in 0..MaxAttempts /\ started' + Planned' <= started + Planned
    BY <2>2, <2>4, EscalationConstants DEF EscalationInv, RowOK, Planned
  <2>. QED
    BY <1>2, <2>2, <2>3, <2>4, <2>5, <2>6, LogKept, QuietStep
<1>. QED
  BY <1>3, <1>4, <1>5, <1>6

\* The worker, GitHub and the clock.
LEMMA OutsideSteps ==
  ASSUME EscalationInv,
         OpenPR \/ EndPR \/ GoStale \/ CoolDown \/ ForgetRateLimits \/ UNCHANGED vars
  PROVE  EscalationInv'
<1>1. row \in Rows /\ PROK /\ log \in Seq(Events)
  BY DEF EscalationInv, RowOK
<1>2. UNCHANGED <<running, started, dead>>
  BY DEF OpenPR, EndPR, GoStale, CoolDown, ForgetRateLimits, vars
<1>3. /\ row' \in Rows /\ row'.status = row.status /\ row'.pr_number = row.pr_number
      /\ row'.failure_reason = row.failure_reason
  <2>1. CASE UNCHANGED row
    BY <1>1, <2>1
  <2>2. CASE GoStale
    BY <1>1, <2>2 DEF GoStale, Rows
  <2>3. CASE CoolDown
    <3>1. PICK a : row' = [row EXCEPT !.failed_at = a] /\ a \in Ages \cup {"none"}
      <4>. DEFINE a == IF row.failed_at = "recent" THEN "cooled" ELSE row.failed_at
      <4>1. row' = [row EXCEPT !.failed_at = a]
        BY <2>3 DEF CoolDown
      <4>2. a \in Ages \cup {"none"}
        BY <1>1 DEF Rows, Ages
      <4>. QED
        BY <4>1, <4>2
    <3>. QED
      BY <1>1, <3>1 DEF Rows
  <2>. QED
    BY <2>1, <2>2, <2>3 DEF OpenPR, EndPR, ForgetRateLimits, vars
<1>4. KindsKept /\ log' \in Seq(Events)
  <2>1. CASE UNCHANGED log
    BY <2>1, LogKept
  <2>2. ASSUME NEW new \in [DOMAIN log -> EventAges],
               log' = [i \in DOMAIN log |-> [log[i] EXCEPT !.age = new[i]]]
        PROVE  KindsKept /\ log' \in Seq(Events)
    <3>1. DOMAIN log = 1..Len(log) /\ Len(log) \in Nat /\ \A i \in DOMAIN log : log[i] \in Events
      BY <1>1
    <3>2. \A i \in DOMAIN log : /\ [log[i] EXCEPT !.age = new[i]] \in Events
                                /\ [log[i] EXCEPT !.age = new[i]].kind = log[i].kind
      BY <2>2, <3>1 DEF Events
    <3>. DEFINE e(i) == [log[i] EXCEPT !.age = new[i]]
    <3>. HIDE DEF e
    <3>3. /\ log' = [i \in DOMAIN log |-> e(i)]
          /\ \A i \in DOMAIN log : e(i) \in Events /\ e(i).kind = log[i].kind
      BY <2>2, <3>2 DEF e
    <3>4. log' \in [1..Len(log) -> Events]
      BY <3>1, <3>3
    <3>. QED
      BY <3>1, <3>3, <3>4 DEF KindsKept
  <2>3. CASE CoolDown
    <3>. DEFINE new == [i \in DOMAIN log |-> IF log[i].age = "hot" THEN "warm" ELSE log[i].age]
    <3>1. new \in [DOMAIN log -> EventAges]
      <4>1. \A i \in DOMAIN log : log[i] \in Events
        BY <1>1
      <4>2. \A i \in DOMAIN log : log[i].age \in EventAges
        BY <4>1 DEF Events
      <4>. QED
        BY <4>2 DEF EventAges
    <3>2. log' = [i \in DOMAIN log |-> [log[i] EXCEPT !.age = new[i]]]
      BY <2>3 DEF CoolDown
    <3>. HIDE DEF new
    <3>. QED
      BY <2>2, <3>1, <3>2
  <2>4. CASE ForgetRateLimits
    <3>. DEFINE new == [i \in DOMAIN log |-> "old"]
    <3>1. new \in [DOMAIN log -> EventAges]
      BY DEF EventAges
    <3>2. log' = [i \in DOMAIN log |-> [log[i] EXCEPT !.age = new[i]]]
      BY <2>4 DEF ForgetRateLimits
    <3>. HIDE DEF new
    <3>. QED
      BY <2>2, <3>1, <3>2
  <2>. QED
    BY <2>1, <2>3, <2>4 DEF OpenPR, EndPR, GoStale, vars
<1>5. PROK'
  <2>1. CASE UNCHANGED pr
    BY <1>1, <1>2, <2>1 DEF PROK
  <2>2. CASE OpenPR
    <3>1. PICK n \in PRNumbers : pr[n] = "none" /\ pr' = [pr EXCEPT ![n] = "open"]
      BY <2>2 DEF OpenPR
    <3>. QED
      BY <1>1, <1>2, <3>1 DEF PROK, PRStates
  <2>3. CASE EndPR
    <3>1. PICK n \in OpenPRs, s \in {"merged", "closed"} : pr' = [pr EXCEPT ![n] = s]
      BY <2>3 DEF EndPR
    <3>. QED
      BY <1>1, <1>2, <3>1 DEF PROK, PRStates, OpenPRs
  <2>. QED
    BY <2>1, <2>2, <2>3 DEF GoStale, CoolDown, ForgetRateLimits, vars
<1>6. SessionOK' /\ DecomposeFirstIsNeverChosen'
  BY <1>2, <1>3 DEF EscalationInv, SessionOK, DecomposeFirstIsNeverChosen
<1>7. started' \in 0..MaxAttempts /\ started' + Planned' <= started + Planned
  BY <1>2, <1>3, EscalationConstants DEF EscalationInv, RowOK, Planned
<1>. QED
  BY <1>2, <1>3, <1>4, <1>5, <1>6, <1>7, QuietStep

-----------------------------------------------------------------------------
(* Steps that write an event *)

\* The next session of a row that is planned by the step is paid for by its event.
LEMMA PaidStep ==
  ASSUME EscalationInv, NEW k \in Kinds, Emit(k), UNCHANGED started, row' \in Rows,
         row'.status = "planned" => row.status = "planned" \/ k \in Paid,
         k = "auto_recover_attempted" => Count({"auto_recover_attempted"}) < MaxRetries,
         k = "deep_fix_escalated" => Escalations < Recipes
  PROVE  PaidInAdvance' /\ RowOK'
<1>1. log \in Seq(Events) /\ started \in Nat /\ row \in Rows
  BY EscalationConstants DEF EscalationInv, RowOK
<1>2. \A K : Count(K) \in Nat
  BY <1>1, CountIsNat
<1>3. \A K : (k \in K => Count(K)' = Count(K) + 1) /\ (k \notin K => Count(K)' = Count(K))
  BY <1>1, CountEmit
<1>4. /\ Count(Paid)' = IF k \in Paid THEN Count(Paid) + 1 ELSE Count(Paid)
      /\ Count(Paid) \in Nat
  <2>1. Paid' = Paid
    BY DEF Paid
  <2>. QED
    BY <1>2, <1>3, <2>1
<1>5. started' + Planned' <= 1 + Count(Paid)'
  <2>1. started + Planned <= 1 + Count(Paid)
    BY DEF EscalationInv, PaidInAdvance
  <2>2. Planned' <= IF k \in Paid THEN Planned + 1 ELSE Planned
    BY DEF Planned
  <2>3. Planned \in Nat /\ Planned' \in Nat
    BY DEF Planned
  <2>. QED
    BY <1>1, <1>4, <2>1, <2>2, <2>3
<1>6. Count({"auto_recover_attempted"})' <= MaxRetries
  BY <1>2, <1>3, EscalationConstants DEF EscalationInv, PaidInAdvance
<1>7. Escalations' <= Recipes
  BY <1>2, <1>3, EscalationConstants DEF EscalationInv, PaidInAdvance, Escalations
<1>. QED
  BY <1>1, <1>5, <1>6, <1>7, CountEmit DEF PaidInAdvance, EscalationInv, RowOK

\* What the end of a session writes: only a failure is a dispatch_failed event, and
\* only a transient one plans the row.
LEMMA Outcomes ==
  ASSUME NEW e \in Exits, NEW c \in MaybeUpgrade(Classify(e))
  PROVE  \E k \in Kinds :
           /\ k = IF RateLimitExhausted(e) THEN "rate_limited" ELSE OutcomeKind(c)
           /\ k \notin {"auto_recover_attempted", "deep_fix_escalated", "deep_fix_exhausted"}
           /\ k = "dispatch_failed" => c = "failed"
           /\ c = "retryable_transient" => k \in Paid
           /\ c \in Classifications
<1>1. Classify(e) \in Classifications
  BY DEF Classify, Classifications
<1>2. c = Classify(e) \/ (Classify(e) = "failed" /\ c \in {"failed", "success"})
  BY DEF MaybeUpgrade
<1>3. RateLimitExhausted(e) => Classify(e) = "retryable_transient"
  BY DEF RateLimitExhausted, Classify
<1>4. c \in Classifications
  BY <1>1, <1>2 DEF Classifications
<1>. QED
  BY <1>2, <1>3, <1>4 DEF OutcomeKind, Classifications, Kinds, FailureKinds, Paid

\* A session ends.
LEMMA FinishStep ==
  ASSUME EscalationInv, FinishSession
  PROVE  EscalationInv'
<1>1. /\ running # NULL /\ running' = NULL /\ UNCHANGED <<pr, started, dead>>
      /\ row.status = "dispatched" /\ row \in Rows /\ log \in Seq(Events)
  BY DEF FinishSession, EscalationInv, RowOK, SessionOK
<1>. PICK e \in Exits : \E c \in MaybeUpgrade(Classify(e)) :
        /\ row' = RecordOutcome(row, c)
        /\ Emit(IF RateLimitExhausted(e) THEN "rate_limited" ELSE OutcomeKind(c))
  BY DEF FinishSession
<1>2. PICK c \in MaybeUpgrade(Classify(e)) :
        /\ row' = RecordOutcome(row, c)
        /\ Emit(IF RateLimitExhausted(e) THEN "rate_limited" ELSE OutcomeKind(c))
  OBVIOUS
<1>3. PICK k \in Kinds :
        /\ k = IF RateLimitExhausted(e) THEN "rate_limited" ELSE OutcomeKind(c)
        /\ k \notin {"auto_recover_attempted", "deep_fix_escalated", "deep_fix_exhausted"}
        /\ k = "dispatch_failed" => c = "failed"
        /\ c = "retryable_transient" => k \in Paid
        /\ c \in Classifications
  BY Outcomes
<1>4. Emit(k)
  BY <1>2, <1>3
<1>5. /\ row' \in Rows /\ row'.pr_number = row.pr_number
      /\ row'.status = OutcomeStatus(c)
      /\ c = "failed" => row'.failure_reason = "failed"
  BY <1>1, <1>2, <1>3 DEF RecordOutcome, OutcomeStatus, Classifications, Rows, Statuses,
                          FailureReasons
<1>6. /\ row'.status = "planned" => c = "retryable_transient"
      /\ c = "failed" => row'.status = "failed"
  BY <1>5 DEF OutcomeStatus
<1>7. PaidInAdvance' /\ RowOK'
  BY <1>1, <1>3, <1>4, <1>5, <1>6, PaidStep
<1>8. PROK' /\ SessionOK' /\ DecomposeFirstIsNeverChosen'
  BY <1>1 DEF EscalationInv, PROK, SessionOK, DecomposeFirstIsNeverChosen
<1>9. HumanIsLastResort' /\ (EscalatedLast => EscalatedLast')
  BY <1>1, <1>3, <1>4, OrderEmit DEF EscalationInv
<1>10. PRIsInherited'
  BY <1>1, <1>5, <1>9 DEF EscalationInv, PRIsInherited
<1>11. FailureStays'
  <2>1. CASE k = "dispatch_failed"
    BY <1>1, <1>3, <1>5, <1>6, <2>1 DEF FailureStays
  <2>2. CASE k # "dispatch_failed"
    <3>1. /\ Count({"dispatch_failed"})' = Count({"dispatch_failed"})
          /\ Escalations' = Escalations
      BY <1>1, <1>3, <1>4, <2>2, CountEmit DEF Escalations
    <3>. QED
      BY <1>1, <3>1 DEF EscalationInv, FailureStays
  <2>. QED
    BY <2>1, <2>2
<1>. QED
  BY <1>7, <1>8, <1>9, <1>10, <1>11 DEF EscalationInv

\* What a pass over the row leaves alone.
LEMMA PassFrame ==
  ASSUME EscalationInv, PassStep
  PROVE  /\ running = NULL /\ running' = NULL
         /\ PROK' /\ SessionOK' /\ DecomposeFirstIsNeverChosen' /\ UNCHANGED started
         /\ row \in Rows /\ log \in Seq(Events)
         /\ UNCHANGED <<pr, dead>>
  BY DEF PassStep, EscalationInv, RowOK, PROK, SessionOK, DecomposeFirstIsNeverChosen

\* deep_fix plans the row again.
LEMMA EscalateStep ==
  ASSUME EscalationInv, Escalate
  PROVE  EscalationInv'
<1>. DEFINE k == "deep_fix_escalated"
<1>1. /\ PassStep /\ Escalations < Recipes /\ row' = EmitEscalated(row)
      /\ Emit(k) /\ k \in Kinds /\ k \in Paid
  BY DEF Escalate, EscalationDue, Kinds, Paid
<1>2. row' \in Rows
  BY <1>1, PassFrame DEF EmitEscalated, Rows, Statuses, FailureReasons
<1>3. PaidInAdvance' /\ RowOK'
  BY <1>1, <1>2, PassFrame, PaidStep
<1>4. HumanIsLastResort' /\ EscalatedLast'
  BY <1>1, PassFrame, OrderEmit DEF EscalationInv
<1>5. FailureStays'
  <2>1. Escalations' = Escalations + 1 /\ Escalations \in Nat
    BY <1>1, PassFrame, CountEmit, CountIsNat DEF Escalations
  <2>. QED
    BY <2>1 DEF FailureStays
<1>. QED
  BY <1>1, <1>3, <1>4, <1>5, PassFrame DEF EscalationInv, PRIsInherited

\* deep_fix calls a person.
LEMMA ExhaustedStep ==
  ASSUME EscalationInv, Exhausted
  PROVE  EscalationInv'
<1>. DEFINE k == "deep_fix_exhausted"
<1>1. /\ PassStep /\ Escalations >= Recipes /\ Count({k}) = 0 /\ row' = row
      /\ Emit(k) /\ k \in Kinds
  BY DEF Exhausted, Kinds
<1>2. PaidInAdvance' /\ RowOK'
  BY <1>1, PassFrame, PaidStep
<1>3. Escalations = Recipes
  BY <1>1, PassFrame, CountIsNat, EscalationConstants DEF EscalationInv, PaidInAdvance, Escalations
<1>4. HumanIsLastResort'
  BY <1>1, <1>3, PassFrame, OrderExhausted DEF EscalationInv
<1>5. EscalatedLast => EscalatedLast'
  BY <1>1, PassFrame, OrderEmit
<1>6. PRIsInherited'
  BY <1>1, <1>5, PassFrame DEF EscalationInv, PRIsInherited
<1>7. FailureStays'
  <2>1. Count({"dispatch_failed"})' = Count({"dispatch_failed"}) /\ Escalations' = Escalations
    BY <1>1, PassFrame, CountEmit DEF Escalations
  <2>. QED
    BY <1>1, <2>1, PassFrame DEF EscalationInv, FailureStays
<1>. QED
  BY <1>1, <1>2, <1>4, <1>6, <1>7, PassFrame DEF EscalationInv

\* auto_recover resets the row: what a failed session left behind it does not touch.
LEMMA RecoverStep ==
  ASSUME EscalationInv, Recover
  PROVE  EscalationInv'
<1>. DEFINE k == "auto_recover_attempted"
<1>1. /\ PassStep /\ RecoveryDue(row) /\ Count({k}) < MaxRetries
      /\ row' = ResetToPlanned(row) /\ Emit(k) /\ k \in Kinds /\ k \in Paid
  BY DEF Recover, Kinds, Paid
<1>2. row' \in Rows /\ row'.pr_number = NULL
  BY <1>1, PassFrame DEF ResetToPlanned, RecoveryDue, Rows, Statuses, FailureReasons
<1>3. PaidInAdvance' /\ RowOK'
  BY <1>1, <1>2, PassFrame, PaidStep
<1>4. HumanIsLastResort'
  BY <1>1, PassFrame, OrderEmit DEF EscalationInv
<1>5. PRIsInherited'
  BY <1>2 DEF PRIsInherited
<1>6. FailureStays'
  <2>1. Count({"dispatch_failed"})' = Count({"dispatch_failed"}) /\ Escalations' = Escalations
    BY <1>1, PassFrame, CountEmit DEF Escalations
  <2>2. row.failure_reason # "failed"
    BY <1>1 DEF RecoveryDue, RecoverableReasons
  <2>. QED
    BY <2>1, <2>2 DEF EscalationInv, FailureStays
<1>. QED
  BY <1>1, <1>3, <1>4, <1>5, <1>6, PassFrame DEF EscalationInv

\* The critic rejects the row's pull request.
LEMMA RejectStep ==
  ASSUME EscalationInv, CriticRejects
  PROVE  EscalationInv'
<1>. DEFINE k == "auto_merge_rejected"
<1>1. /\ PassStep /\ row.status = "dispatched"
      /\ row' = TransitionToFailed(row, "critic_rejected") /\ Emit(k) /\ k \in Kinds
  BY DEF CriticRejects, Watched, Kinds, FailureKinds
<1>2. row' \in Rows /\ row'.status = "failed"
  BY <1>1, PassFrame DEF TransitionToFailed, Rows, Statuses, FailureReasons, Ages
<1>3. PaidInAdvance' /\ RowOK'
  BY <1>1, <1>2, PassFrame, PaidStep
<1>4. HumanIsLastResort'
  BY <1>1, PassFrame, OrderEmit DEF EscalationInv
<1>5. PRIsInherited'
  BY <1>1, <1>2, PassFrame DEF PRIsInherited
<1>6. FailureStays'
  <2>1. Count({"dispatch_failed"})' = Count({"dispatch_failed"}) /\ Escalations' = Escalations
    BY <1>1, PassFrame, CountEmit DEF Escalations
  <2>. QED
    BY <1>1, <2>1 DEF EscalationInv, FailureStays
<1>. QED
  BY <1>1, <1>3, <1>4, <1>5, <1>6, PassFrame DEF EscalationInv

-----------------------------------------------------------------------------
(* Theorems *)

\* A new task fulfils the invariant.
LEMMA EscalationInvInit == Init => EscalationInv
<1>. SUFFICES ASSUME Init PROVE EscalationInv
  OBVIOUS
<1>1. /\ row = [status |-> "planned", pr_number |-> NULL, failure_reason |-> "none",
                failed_at |-> "none", fresh |-> TRUE]
      /\ log = <<>> /\ running = NULL /\ started = 0 /\ dead = {}
      /\ pr = [n \in PRNumbers |-> "none"]
  BY DEF Init, SeedOne, NoRow
<1>2. RowOK /\ PROK /\ SessionOK
  BY <1>1, EscalationConstants DEF RowOK, PROK, SessionOK, Rows, Statuses, PRStates
<1>3. \A K : Count(K) = 0
  <2>1. \A K : {i \in DOMAIN log : log[i].kind \in K} = {}
    BY <1>1
  <2>. QED
    BY <2>1, FS_EmptySet DEF Count
<1>4. PaidInAdvance /\ FailureStays
  BY <1>1, <1>3, EscalationConstants DEF PaidInAdvance, FailureStays, Escalations, Planned
<1>5. HumanIsLastResort /\ PRIsInherited /\ DecomposeFirstIsNeverChosen
  BY <1>1 DEF HumanIsLastResort, PRIsInherited, DecomposeFirstIsNeverChosen
<1>. QED
  BY <1>2, <1>4, <1>5 DEF EscalationInv

\* The invariant is inductive.
LEMMA EscalationInvNext == EscalationInv /\ [Next]_vars => EscalationInv'
<1>. SUFFICES ASSUME EscalationInv, [Next]_vars PROVE EscalationInv'
  OBVIOUS
<1>1. CASE Dispatch
  BY <1>1, DispatchStep
<1>2. CASE FinishSession
  BY <1>2, FinishStep
<1>3. CASE Escalate
  BY <1>3, EscalateStep
<1>4. CASE Exhausted
  BY <1>4, ExhaustedStep
<1>5. CASE Recover
  BY <1>5, RecoverStep
<1>6. CASE Reap \/ Stamp \/ Watch \/ CriticApproves
  BY <1>6, PassSteps
<1>7. CASE CriticRejects
  BY <1>7, RejectStep
<1>8. CASE OpenPR \/ EndPR \/ GoStale \/ CoolDown \/ ForgetRateLimits \/ UNCHANGED vars
  BY <1>8, OutsideSteps
<1>. QED
  BY <1>1, <1>2, <1>3, <1>4, <1>5, <1>6, <1>7, <1>8 DEF Next, EngineStep

\* The invariant holds in every state.
LEMMA EscalationInvHolds == Spec => []EscalationInv
  BY EscalationInvInit, EscalationInvNext, PTL DEF Spec

\* The types: the recipe a session is started with is one of the list, and the
\* model one of the chain (dispatch.py).
THEOREM EscalationTypeCorrect == Spec => []TypeOK
<1>1. EscalationInv => TypeOK
  BY DEF EscalationInv, RowOK, PROK, SessionOK, TypeOK
<1>. QED
  BY <1>1, EscalationInvHolds, PTL

\* Each session beyond the first is paid for by an event that is limited in
\* number, or by a transient failure (deep_fix.py, auto_recover.py).
THEOREM SessionsPaidCorrect == Spec => []SessionsArePaidFor
<1>1. EscalationInv => SessionsArePaidFor
  <2>. SUFFICES ASSUME EscalationInv PROVE SessionsArePaidFor
    OBVIOUS
  <2>1. started \in Nat /\ Count(Paid) \in Nat /\ Planned \in {0, 1}
    BY CountIsNat, EscalationConstants DEF EscalationInv, RowOK, Planned
  <2>2. started <= 1 + Count(Paid)
    BY <2>1 DEF EscalationInv, PaidInAdvance
  <2>. QED
    BY <2>2 DEF EscalationInv, PaidInAdvance, SessionsArePaidFor, Paid
<1>. QED
  BY <1>1, EscalationInvHolds, PTL

\* A person is called once, and only when every recipe has been handed out
\* (deep_fix.py).
THEOREM LastResortCorrect == Spec => []HumanIsLastResort
<1>1. EscalationInv => HumanIsLastResort
  BY DEF EscalationInv
<1>. QED
  BY <1>1, EscalationInvHolds, PTL

\* A row that watches a PR which was closed before its session began got there by
\* an escalation that no reset came after (deep_fix.py, auto_recover.py).
THEOREM DeadPRCorrect == Spec => []DeadPRMeansEscalated
<1>1. EscalationInv => DeadPRMeansEscalated
  <2>. SUFFICES ASSUME EscalationInv, row.status = "dispatched", row.pr_number \in dead
                PROVE  EscalatedLast
    BY DEF DeadPRMeansEscalated, EscalatedLast
  <2>1. row.pr_number # NULL
    BY NullIsNoNumber DEF EscalationInv, PROK
  <2>. QED
    BY <2>1 DEF EscalationInv, PRIsInherited
<1>. QED
  BY <1>1, EscalationInvHolds, PTL

\* The decompose-first prompt is never used, whatever the thresholds of deep_fix
\* and of the prompt are: a session that failed keeps its row failed until deep_fix
\* escalates it, and from then on its recipe is used (dispatch.py, deep_fix.py).
THEOREM DecomposeFirstCorrect == Spec => []DecomposeFirstIsNeverChosen
<1>1. EscalationInv => DecomposeFirstIsNeverChosen
  BY DEF EscalationInv
<1>. QED
  BY <1>1, EscalationInvHolds, PTL
===============================================================================
