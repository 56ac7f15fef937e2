----------------------------- MODULE IntakeProofs -----------------------------
(***************************************************************************)
(* Proofs about module Intake: its types, how far the queue overshoots its *)
(* target, that no kill hides a front, how many copies of a proposal are   *)
(* ever pending, and how many accepted proposals can lose their front.     *)
(***************************************************************************)
EXTENDS IntakeProperties, FiniteSetTheorems, SequenceTheorems, TLAPS

-----------------------------------------------------------------------------
(* Data *)

\* The bounded sequences are the sequences of at most that length.
LEMMA BoundedSeqs ==
  ASSUME NEW S, NEW n \in Nat, NEW s
  PROVE  s \in BoundedSeq(S, n) <=> s \in Seq(S) /\ Len(s) <= n
  BY DEF BoundedSeq, SeqOf

\* There are finitely many signals and identifiers.
LEMMA IdentsAreFinite == IsFiniteSet(Signals) /\ IsFiniteSet(Idents)
<1>1. IsFiniteSet(Kinds)
  <2>1. Kinds \subseteq {"dispatch_failure_cluster", "critic_rejection_cluster"}
                          \cup {"worktree_drift_cluster"}
    BY IntakeConstants DEF ToSet, SignalKinds
  <2>2. IsFiniteSet({"dispatch_failure_cluster"} \cup {"critic_rejection_cluster"})
    BY FS_Singleton, FS_Union
  <2>3. IsFiniteSet({"dispatch_failure_cluster", "critic_rejection_cluster"}
                      \cup {"worktree_drift_cluster"})
    <3>1. {"dispatch_failure_cluster", "critic_rejection_cluster"}
            = {"dispatch_failure_cluster"} \cup {"critic_rejection_cluster"}
      OBVIOUS
    <3>. QED
      BY <2>2, <3>1, FS_Singleton, FS_Union
  <2>. QED
    BY <2>1, <2>3, FS_Subset
<1>2. IsFiniteSet(Flaky \cup {0})
  BY IntakeConstants, FS_Subset, FS_AddElement
<1>3. IsFiniteSet(Kinds \X (Flaky \cup {0}))
  BY <1>1, <1>2, FS_Product
<1>4. Signals \in SUBSET (Kinds \X (Flaky \cup {0}))
  BY DEF Signals
<1>5. IsFiniteSet(Signals)
  BY <1>3, <1>4, FS_Subset
<1>6. IsFiniteSet(RoadmapIdents)
  <2>1. IsFiniteSet({"T1"} \X Numbers)
    BY IntakeConstants, FS_Singleton, FS_Product
  <2>2. RoadmapIdents \in SUBSET ({"T1"} \X Numbers)
    BY DEF RoadmapIdents
  <2>. QED
    BY <2>1, <2>2, FS_Subset
<1>. QED
  BY <1>5, <1>6, FS_Union DEF Idents

\* What a pass holds, place by place.
LEMMA PassFields ==
  ASSUME NEW m \in Passes
  PROVE  /\ m.at \in {"counted", "seeding", "scanning", "checked", "recorded"}
         /\ m.at = "counted" => m \in [at : {"counted"}, slots : 1..BatchSize]
         /\ m.at = "seeding" =>
              m \in [at : {"seeding"}, rows : Seq(Idents)] /\ Len(m.rows) <= BatchSize
         /\ m.at = "scanning" =>
              m \in [at : {"scanning"}, seen : SUBSET Signals, left : 0..Len(SignalKinds),
                     rows : SUBSET Signals]
         /\ m.at \in {"checked", "recorded"} =>
              m \in [at : {"checked", "recorded"}, id : 1..MaxProposals]
  BY BoundedSeqs, IntakeConstants DEF Passes

-----------------------------------------------------------------------------
(* Types *)

\* A step that changes the passes of some runners to what fits the tables, and
\* takes no front and no proposal away, keeps the types.
LEMMA TypeStep ==
  ASSUME TypeOK,
         roadmap' \subseteq Numbers,
         front' \in [Idents -> {"none", "never", "seeded"}],
         task' \in [Idents -> {"absent", "planned", "taken", "again"}],
         strikes' \in [Signals -> 0..Threshold],
         proposals' \in BoundedSeq([signal : Signals, accepted : BOOLEAN], MaxProposals),
         crashes' \in 0..MaxCrashes,
         DOMAIN pass' = Runners,
         \A i \in Idents : front[i] # "none" => front'[i] # "none",
         DOMAIN proposals \subseteq DOMAIN proposals',
         \A p \in Runners :
           \/ pass'[p] \in {pass[p], NULL}
           \/ /\ pass'[p] \in Passes
              /\ pass'[p].at \in {"checked", "recorded"} => pass'[p].id \in DOMAIN proposals'
              /\ pass'[p].at = "seeding" =>
                   \A j \in DOMAIN pass'[p].rows : front'[pass'[p].rows[j]] # "none"
  PROVE  TypeOK'
<1>1. ASSUME NEW p \in Runners, pass'[p] = pass[p]
      PROVE  /\ pass'[p] \in Passes \cup {NULL}
             /\ pass'[p] # NULL /\ pass'[p].at \in {"checked", "recorded"} =>
                  pass'[p].id \in DOMAIN proposals'
             /\ pass'[p] # NULL /\ pass'[p].at = "seeding" =>
                  \A j \in DOMAIN pass'[p].rows : front'[pass'[p].rows[j]] # "none"
  <2>1. CASE pass[p] # NULL /\ pass[p].at = "seeding"
    <3>1. \A j \in DOMAIN pass[p].rows : pass[p].rows[j] \in Idents
      BY <2>1, PassFields DEF TypeOK
    <3>. QED
      BY <1>1, <2>1, <3>1 DEF TypeOK
  <2>. QED
    BY <1>1, <2>1 DEF TypeOK
<1>. QED
  BY <1>1 DEF TypeOK

\* What the proposals are, as a sequence.
LEMMA ProposalsType ==
  ASSUME TypeOK
  PROVE  /\ proposals \in Seq([signal : Signals, accepted : BOOLEAN])
         /\ Len(proposals) \in 0..MaxProposals
         /\ DOMAIN proposals = 1..Len(proposals)
         /\ DOMAIN proposals \subseteq 1..MaxProposals
         /\ \A j \in DOMAIN proposals :
              /\ proposals[j] \in [signal : Signals, accepted : BOOLEAN]
              /\ proposals[j].signal \in Signals /\ proposals[j].accepted \in BOOLEAN
<1>1. /\ proposals \in Seq([signal : Signals, accepted : BOOLEAN])
      /\ Len(proposals) \in 0..MaxProposals
  BY BoundedSeqs, IntakeConstants DEF TypeOK
<1>2. DOMAIN proposals = 1..Len(proposals) /\ DOMAIN proposals \subseteq 1..MaxProposals
  BY <1>1, IntakeConstants
<1>3. \A j \in DOMAIN proposals : proposals[j] \in [signal : Signals, accepted : BOOLEAN]
  BY <1>1, <1>2, ElementOfSeq
<1>4. \A m \in [signal : Signals, accepted : BOOLEAN] : m.signal \in Signals /\ m.accepted \in BOOLEAN
  OBVIOUS
<1>. QED
  BY <1>1, <1>2, <1>3, <1>4

\* The numbers of planned rows are natural numbers.
LEMMA QueueIsFinite ==
  /\ IsFiniteSet(Planned) /\ Cardinality(Planned) \in Nat
  /\ IsFiniteSet(Unstarted) /\ Cardinality(Unstarted) \in Nat
  /\ IsFiniteSet(Unstarted') /\ Cardinality(Unstarted') \in Nat
  /\ IsFiniteSet(Returned) /\ Cardinality(Returned) \in Nat
  /\ Cardinality(Unstarted) <= Cardinality(Planned)
  /\ Cardinality(Planned) <= Cardinality(Unstarted) + Cardinality(Returned)
<1>1. /\ Unstarted \in SUBSET Idents /\ Unstarted' \in SUBSET Idents
      /\ Returned \in SUBSET Idents /\ Unstarted \in SUBSET Planned
  BY DEF Planned, Unstarted, Returned
<1>2. IsFiniteSet(Unstarted) /\ IsFiniteSet(Unstarted') /\ IsFiniteSet(Returned)
  BY <1>1, IdentsAreFinite, FS_Subset
<1>3. /\ IsFiniteSet(Planned)
      /\ Cardinality(Planned) = Cardinality(Unstarted) + Cardinality(Returned)
                                  - Cardinality(Unstarted \cap Returned)
  BY <1>2, FS_Union DEF Planned
<1>4. Cardinality(Unstarted \cap Returned) \in Nat
  BY <1>2, FS_Intersection, FS_CardinalityType
<1>5. /\ Cardinality(Planned) \in Nat /\ Cardinality(Returned) \in Nat
      /\ Cardinality(Unstarted) \in Nat /\ Cardinality(Unstarted') \in Nat
  BY <1>2, <1>3, FS_CardinalityType
<1>6. Cardinality(Unstarted) <= Cardinality(Planned)
  BY <1>1, <1>3, FS_Subset
<1>. QED
  BY <1>2, <1>3, <1>4, <1>5, <1>6

\* Every seed step keeps the types.
LEMMA SeedType ==
  ASSUME TypeOK, NEW p \in Runners, CountPlanned(p) \/ SeedStep(p)
  PROVE  TypeOK'
<1>1. CASE CountPlanned(p)
  <2>1. PICK slots \in 1..BatchSize : Goto(p, [at |-> "counted", slots |-> slots])
    <3>1. Target - Cardinality(Planned) \in Nat
      BY <1>1, QueueIsFinite, IntakeConstants DEF CountPlanned
    <3>. QED
      BY <1>1, <3>1, IntakeConstants DEF CountPlanned
  <2>2. [at |-> "counted", slots |-> slots] \in Passes
    BY DEF Passes
  <2>. QED
    BY <1>1, <2>1, <2>2, TypeStep DEF CountPlanned, Goto, tables, TypeOK
<1>2. CASE LoadFronts(p)
  <2>0. PICK cool \in SUBSET {i \in Eligible : front[i] = "seeded"} :
               \E rows \in BoundedSeq({i \in Eligible : front[i] = "never"} \cup cool, pass[p].slots) :
                 Goto(p, [at |-> "seeding", rows |-> rows])
    BY <1>2 DEF LoadFronts
  <2>1. PICK rows \in BoundedSeq({i \in Eligible : front[i] = "never"} \cup cool, pass[p].slots) :
               Goto(p, [at |-> "seeding", rows |-> rows])
    BY <2>0
  <2>2. pass[p] \in Passes /\ pass[p].slots \in 1..BatchSize
    BY <1>2, PassFields DEF LoadFronts, At, TypeOK
  <2>3. rows \in Seq({i \in Eligible : front[i] = "never"} \cup cool) /\ Len(rows) <= pass[p].slots
    BY <2>1, <2>2, BoundedSeqs
  <2>4. {i \in Eligible : front[i] = "never"} \cup cool \subseteq Idents
    BY DEF Eligible
  <2>5. /\ rows \in Seq(Idents) /\ Len(rows) <= BatchSize
        /\ \A j \in DOMAIN rows : front[rows[j]] # "none"
    BY <2>2, <2>3, <2>4, IntakeConstants DEF Eligible
  <2>6. [at |-> "seeding", rows |-> rows] \in Passes
    BY <2>5, BoundedSeqs, IntakeConstants DEF Passes
  <2>. QED
    BY <1>2, <2>1, <2>5, <2>6, TypeStep DEF LoadFronts, Goto, tables, TypeOK
<1>3. CASE SeedOne(p)
  <2>1. /\ pass[p] \in Passes /\ pass[p].rows \in Seq(Idents) /\ Len(pass[p].rows) <= BatchSize
        /\ pass[p] \in [at : {"seeding"}, rows : Seq(Idents)] /\ pass[p].rows # <<>>
        /\ \A j \in DOMAIN pass[p].rows : front[pass[p].rows[j]] # "none"
    BY <1>3, PassFields DEF SeedOne, At, TypeOK
  <2>2. /\ Tail(pass[p].rows) \in Seq(Idents) /\ Len(Tail(pass[p].rows)) <= BatchSize
        /\ Head(pass[p].rows) \in Idents
        /\ \A j \in DOMAIN Tail(pass[p].rows) : front[Tail(pass[p].rows)[j]] # "none"
    BY <2>1, IntakeConstants
  <2>3. /\ [pass[p] EXCEPT !.rows = Tail(@)] = [at |-> "seeding", rows |-> Tail(pass[p].rows)]
        /\ [at |-> "seeding", rows |-> Tail(pass[p].rows)] \in Passes
    <3>1. [pass[p] EXCEPT !.rows = Tail(@)] = [at |-> "seeding", rows |-> Tail(pass[p].rows)]
      BY <2>1
    <3>2. Tail(pass[p].rows) \in BoundedSeq(Idents, BatchSize)
      BY <2>2, BoundedSeqs, IntakeConstants
    <3>. QED
      BY <2>1, <3>1, <3>2 DEF Passes
  <2>4. /\ front' = [front EXCEPT ![Head(pass[p].rows)] = "seeded"]
        /\ task' = [task EXCEPT ![Head(pass[p].rows)] = "planned"]
        /\ pass' = [pass EXCEPT ![p] = [at |-> "seeding", rows |-> Tail(pass[p].rows)]]
        /\ UNCHANGED <<roadmap, strikes, proposals, crashes>>
    BY <1>3, <2>3 DEF SeedOne, Goto
  <2>5. /\ front' \in [Idents -> {"none", "never", "seeded"}]
        /\ task' \in [Idents -> {"absent", "planned", "taken", "again"}]
        /\ \A i \in Idents : front[i] # "none" => front'[i] # "none"
        /\ \A j \in DOMAIN Tail(pass[p].rows) : front'[Tail(pass[p].rows)[j]] # "none"
    BY <2>2, <2>4 DEF TypeOK
  <2>. QED
    BY <2>3, <2>4, <2>5, TypeStep DEF TypeOK
<1>4. CASE SeedCollides(p) \/ SeedEnds(p)
  BY <1>4, TypeStep DEF SeedCollides, SeedEnds, EndPass, Goto, tables, TypeOK
<1>. QED
  BY <1>1, <1>2, <1>3, <1>4 DEF SeedStep

\* Every step of a scan keeps the types.
LEMMA ScanType ==
  ASSUME TypeOK, NEW p \in Runners, BeginScan(p) \/ ScanStep(p)
  PROVE  TypeOK'
<1>1. CASE BeginScan(p)
  <2>1. [at |-> "scanning", seen |-> Pending, left |-> Len(SignalKinds), rows |-> {}] \in Passes
    <3>1. Pending \in SUBSET Signals
      BY ProposalsType DEF Pending
    <3>. QED
      BY <3>1 DEF Passes, SignalKinds
  <2>. QED
    BY <1>1, <2>1, TypeStep DEF BeginScan, Goto, tables, TypeOK
<1>2. CASE LoadSignals(p)
  <2>1. pass[p] \in [at : {"scanning"}, seen : SUBSET Signals, left : 0..Len(SignalKinds),
                     rows : SUBSET Signals] /\ pass[p].left > 0
    BY <1>2, PassFields DEF LoadSignals, At, TypeOK
  <2>2. PICK loud \in SUBSET Signals :
          Goto(p, [pass[p] EXCEPT !.left = @ - 1, !.rows = loud \ pass[p].seen])
    BY <1>2 DEF LoadSignals
  <2>3. [pass[p] EXCEPT !.left = @ - 1, !.rows = loud \ pass[p].seen]
          \in [at : {"scanning"}, seen : SUBSET Signals, left : 0..Len(SignalKinds),
               rows : SUBSET Signals]
    <3>1. pass[p].left - 1 \in 0..Len(SignalKinds)
      BY <2>1 DEF SignalKinds
    <3>2. loud \ pass[p].seen \in SUBSET Signals
      BY <2>1
    <3>. QED
      BY <2>1, <3>1, <3>2
  <2>4. [pass[p] EXCEPT !.left = @ - 1, !.rows = loud \ pass[p].seen] \in Passes
    BY <2>3 DEF Passes
  <2>. QED
    BY <1>2, <2>2, <2>3, <2>4, TypeStep DEF LoadSignals, Goto, tables, TypeOK
<1>3. CASE EmitProposal(p)
  <2>1. pass[p] \in [at : {"scanning"}, seen : SUBSET Signals, left : 0..Len(SignalKinds),
                     rows : SUBSET Signals]
    BY <1>3, PassFields DEF EmitProposal, At, TypeOK
  <2>2. PICK s \in pass[p].rows :
          /\ proposals' = Append(proposals, [signal |-> s, accepted |-> FALSE])
          /\ Goto(p, [pass[p] EXCEPT !.rows = @ \ {s}, !.seen = @ \cup {s}])
    BY <1>3 DEF EmitProposal
  <2>3. [pass[p] EXCEPT !.rows = @ \ {s}, !.seen = @ \cup {s}]
          \in [at : {"scanning"}, seen : SUBSET Signals, left : 0..Len(SignalKinds),
               rows : SUBSET Signals]
    BY <2>1, <2>2
  <2>4. [pass[p] EXCEPT !.rows = @ \ {s}, !.seen = @ \cup {s}] \in Passes
    BY <2>3 DEF Passes
  <2>5. [signal |-> s, accepted |-> FALSE] \in [signal : Signals, accepted : BOOLEAN]
    BY <2>1, <2>2
  <2>6. /\ proposals' \in BoundedSeq([signal : Signals, accepted : BOOLEAN], MaxProposals)
        /\ DOMAIN proposals \subseteq DOMAIN proposals'
    <3>1. Len(proposals) < MaxProposals
      BY <1>3 DEF EmitProposal
    <3>2. /\ proposals' \in Seq([signal : Signals, accepted : BOOLEAN])
          /\ Len(proposals') = Len(proposals) + 1
      BY <2>2, <2>5, ProposalsType
    <3>3. DOMAIN proposals' = 1..Len(proposals')
      BY <3>2
    <3>. QED
      BY <3>1, <3>2, <3>3, ProposalsType, BoundedSeqs, IntakeConstants
  <2>. QED
    BY <1>3, <2>2, <2>3, <2>4, <2>6, TypeStep DEF EmitProposal, Goto, TypeOK
<1>4. CASE ScanEnds(p)
  BY <1>4, TypeStep DEF ScanEnds, EndPass, Goto, tables, TypeOK
<1>. QED
  BY <1>1, <1>2, <1>3, <1>4 DEF ScanStep

\* Every step of an acceptance keeps the types.
LEMMA AcceptType ==
  ASSUME TypeOK, NEW p \in Runners, CheckProposal(p) \/ AcceptStep(p)
  PROVE  TypeOK'
<1>1. CASE CheckProposal(p)
  <2>1. PICK id \in DOMAIN proposals : Goto(p, [at |-> "checked", id |-> id])
    BY <1>1 DEF CheckProposal, ListProposals
  <2>2. [at |-> "checked", id |-> id] \in Passes
    BY <2>1, ProposalsType DEF Passes
  <2>. QED
    BY <1>1, <2>1, <2>2, TypeStep DEF CheckProposal, Goto, tables, TypeOK
<1>2. CASE RecordAcceptance(p)
  <2>1. /\ pass[p] \in [at : {"checked", "recorded"}, id : 1..MaxProposals]
        /\ pass[p].id \in DOMAIN proposals
    BY <1>2, PassFields DEF RecordAcceptance, At, TypeOK
  <2>2. /\ [pass[p] EXCEPT !.at = "recorded"] = [at |-> "recorded", id |-> pass[p].id]
        /\ [at |-> "recorded", id |-> pass[p].id] \in Passes
    BY <2>1 DEF Passes
  <2>3. /\ proposals' \in BoundedSeq([signal : Signals, accepted : BOOLEAN], MaxProposals)
        /\ DOMAIN proposals = DOMAIN proposals'
    <3>1. proposals' = [proposals EXCEPT ![pass[p].id].accepted = TRUE]
      BY <1>2 DEF RecordAcceptance
    <3>2. /\ proposals' \in Seq([signal : Signals, accepted : BOOLEAN])
          /\ Len(proposals') = Len(proposals) /\ DOMAIN proposals = DOMAIN proposals'
      <4>1. proposals \in [1..Len(proposals) -> [signal : Signals, accepted : BOOLEAN]]
        BY ProposalsType
      <4>2. proposals' \in [1..Len(proposals) -> [signal : Signals, accepted : BOOLEAN]]
        <5>1. [proposals[pass[p].id] EXCEPT !.accepted = TRUE]
                \in [signal : Signals, accepted : BOOLEAN]
          BY <2>1, ProposalsType
        <5>. QED
          BY <2>1, <3>1, <4>1, <5>1
      <4>. QED
        BY <4>1, <4>2, ProposalsType
    <3>. QED
      BY <3>2, ProposalsType, BoundedSeqs, IntakeConstants
  <2>. QED
    BY <1>2, <2>1, <2>2, <2>3, TypeStep DEF RecordAcceptance, Goto, TypeOK
<1>3. CASE InjectFront(p)
  BY <1>3, TypeStep DEF InjectFront, EndPass, Goto, TypeOK
<1>. QED
  BY <1>1, <1>2, <1>3 DEF AcceptStep

\* The spec and roadmap commands, the rest of the engine and a kill keep the types.
LEMMA OtherType ==
  ASSUME TypeOK,
         \/ IngestSpec \/ Ingest
         \/ \E p \in Runners : Crash(p)
         \/ \E i \in Idents : TakeUp(i) \/ PlanAgain(i)
         \/ \E s \in Signals : Strike(s) \/ Forget(s)
  PROVE  TypeOK'
<1>1. CASE IngestSpec
  BY <1>1, TypeStep DEF IngestSpec, RenderRoadmap, TypeOK
<1>2. CASE Ingest
  BY <1>2, TypeStep DEF Ingest, TypeOK
<1>3. CASE \E p \in Runners : Crash(p)
  BY <1>3, IntakeConstants, TypeStep DEF Crash, tables, TypeOK
<1>4. CASE \E i \in Idents : TakeUp(i) \/ PlanAgain(i)
  BY <1>4, TypeStep DEF TakeUp, PlanAgain, TypeOK
<1>5. CASE \E s \in Signals : Strike(s) \/ Forget(s)
  <2>1. PICK s \in Signals : Strike(s) \/ Forget(s)
    BY <1>5
  <2>2. strikes' \in [Signals -> 0..Threshold]
    BY <2>1, IntakeConstants DEF Strike, Forget, TypeOK
  <2>. QED
    BY <2>1, <2>2, TypeStep DEF Strike, Forget, TypeOK
<1>. QED
  BY <1>1, <1>2, <1>3, <1>4, <1>5

\* The types hold at first.
LEMMA InitType == Init => TypeOK
<1>1. <<>> \in BoundedSeq([signal : Signals, accepted : BOOLEAN], MaxProposals)
  <2>1. /\ <<>> \in Seq([signal : Signals, accepted : BOOLEAN])
        /\ Len(<<>>) <= MaxProposals
    BY EmptySeq, IntakeConstants
  <2>. QED
    BY <2>1, BoundedSeqs, IntakeConstants
<1>2. Init => strikes \in [Signals -> 0..Threshold] /\ crashes \in 0..MaxCrashes
  BY IntakeConstants DEF Init
<1>3. Init => \A p \in Runners : pass[p] = NULL
  BY DEF Init
<1>4. Init => proposals \in BoundedSeq([signal : Signals, accepted : BOOLEAN], MaxProposals)
  BY <1>1 DEF Init
<1>. QED
  BY <1>2, <1>3, <1>4 DEF Init, TypeOK

\* Every step keeps the types.
LEMMA NextType == TypeOK /\ [Next]_vars => TypeOK'
<1> SUFFICES ASSUME TypeOK, [Next]_vars PROVE TypeOK'
  OBVIOUS
<1>1. CASE UNCHANGED vars
  BY <1>1 DEF vars, TypeOK
<1>2. ASSUME NEW p \in Runners, BeginPass(p) \/ SeedStep(p) \/ ScanStep(p) \/ AcceptStep(p)
      PROVE  TypeOK'
  BY <1>2, SeedType, ScanType, AcceptType DEF BeginPass
<1>. QED
  BY <1>1, <1>2, OtherType DEF Next

\* Every variable keeps its type: a pass only ever holds rows of table front and
\* proposals that exist, however passes interleave and are killed
\* (seed_from_roadmap.py, auto_observe.py).
THEOREM IntakeTypeCorrect == Spec => []TypeOK
  BY InitType, NextType, PTL DEF Spec

-----------------------------------------------------------------------------
(* No kill hides a front *)

\* Each step keeps the fronts that are seeded without a task from coming about.
LEMMA SeededStep ==
  ASSUME TypeOK, SeededMeansTask, [Next]_vars
  PROVE  SeededMeansTask'
<1> SUFFICES ASSUME NEW i \in Idents, front'[i] = "seeded", front[i] # "seeded" \/ task[i] # "absent"
             PROVE  task'[i] # "absent"
  BY DEF SeededMeansTask
<1>1. CASE \E p \in Runners : SeedOne(p)
  <2>1. PICK p \in Runners : SeedOne(p)
    BY <1>1
  <2>2. /\ front' = [front EXCEPT ![Head(pass[p].rows)] = "seeded"]
        /\ task' = [task EXCEPT ![Head(pass[p].rows)] = "planned"]
    BY <2>1 DEF SeedOne
  <2>. QED
    BY <2>2 DEF TypeOK
<1>2. CASE \E p \in Runners : InjectFront(p)
  BY <1>2 DEF InjectFront, TypeOK
<1>3. CASE Ingest
  BY <1>3 DEF Ingest, TypeOK
<1>4. CASE \E j \in Idents : TakeUp(j) \/ PlanAgain(j)
  BY <1>4 DEF TakeUp, PlanAgain, TypeOK
<1>5. CASE UNCHANGED <<front, task>>
  BY <1>5
<1>. QED
  BY <1>1, <1>2, <1>3, <1>4, <1>5 DEF Next, vars, tables, BeginPass, SeedStep, ScanStep, AcceptStep,
     IngestSpec, Strike, Forget, Crash, CountPlanned, LoadFronts, SeedCollides, SeedEnds,
     BeginScan, LoadSignals, EmitProposal, ScanEnds, CheckProposal, RecordAcceptance

\* A front counts as seeded only with its task row in the table: wherever a pass is
\* killed, no front is passed over for want of the row it is stamped for.
THEOREM SeededCorrect == Spec => []SeededMeansTask
<1>1. Init => SeededMeansTask
  BY DEF Init, SeededMeansTask
<1>2. TypeOK /\ SeededMeansTask /\ [Next]_vars => SeededMeansTask'
  BY SeededStep
<1>. QED
  BY <1>1, <1>2, IntakeTypeCorrect, PTL DEF Spec

-----------------------------------------------------------------------------
(* How far the queue overshoots its target *)

\* The rows that the passes under way may still insert, one pair for each.
Slots(p) == IF At(p, "counted") THEN pass[p].slots
            ELSE IF At(p, "seeding") THEN Len(pass[p].rows) ELSE 0
OpenSlots == {s \in Runners \X (1..BatchSize) : s[2] <= Slots(s[1])}

\* The rows never taken up and those that may still come on top of them stay within
\* the bound together: a pass takes its slots only when the whole queue has room.
QueueInv ==
  /\ TypeOK
  /\ Cardinality(Unstarted) + Cardinality(OpenSlots)
       <= Target + (Cardinality(Runners) - 1) * BatchSize

\* The open slots are finitely many pairs, and each pass has at most a batch.
LEMMA SlotsType ==
  ASSUME TypeOK
  PROVE  /\ IsFiniteSet(OpenSlots) /\ Cardinality(OpenSlots) \in Nat
         /\ \A p \in Runners : Slots(p) \in 0..BatchSize /\ Slots(p) \in Int
<1>1. IsFiniteSet(Runners \X (1..BatchSize))
  <2>1. IsFiniteSet(1..BatchSize) /\ IsFiniteSet(Runners)
    BY IntakeConstants, FS_Interval
  <2>. QED
    BY <2>1, FS_Product
<1>2. OpenSlots \in SUBSET (Runners \X (1..BatchSize))
  BY DEF OpenSlots
<1>3. \A p \in Runners : Slots(p) \in 0..BatchSize
  <2> SUFFICES ASSUME NEW p \in Runners PROVE Slots(p) \in 0..BatchSize
    OBVIOUS
  <2>1. CASE At(p, "counted")
    <3>1. pass[p].slots \in 1..BatchSize
      BY <2>1, PassFields DEF At, TypeOK
    <3>. QED
      BY <2>1, <3>1, IntakeConstants DEF Slots
  <2>2. CASE At(p, "seeding")
    <3>1. pass[p].rows \in Seq(Idents) /\ Len(pass[p].rows) <= BatchSize
      BY <2>2, PassFields DEF At, TypeOK
    <3>2. Len(pass[p].rows) \in Nat
      BY <3>1
    <3>3. Slots(p) = Len(pass[p].rows)
      BY <2>2 DEF Slots, At
    <3>. QED
      BY <3>1, <3>2, <3>3, IntakeConstants
  <2>. QED
    BY <2>1, <2>2, IntakeConstants DEF Slots
<1>. QED
  <2>1. IsFiniteSet(OpenSlots)
    BY <1>1, <1>2, FS_Subset
  <2>. QED
    BY <1>3, <2>1, FS_CardinalityType

\* The same in the next state.
LEMMA SlotsTypeNext ==
  TypeOK' => /\ (IsFiniteSet(OpenSlots) /\ Cardinality(OpenSlots) \in Nat)'
             /\ (\A p \in Runners : Slots(p) \in 0..BatchSize /\ Slots(p) \in Int)'
<1>1. TypeOK => /\ IsFiniteSet(OpenSlots) /\ Cardinality(OpenSlots) \in Nat
                /\ \A p \in Runners : Slots(p) \in 0..BatchSize /\ Slots(p) \in Int
  BY SlotsType
<1>. QED
  BY <1>1, PTL

\* Only counting takes slots, and only seeding adds to the queue.
LEMMA QueueStep ==
  ASSUME TypeOK, [Next]_vars
  PROVE  \/ \E p \in Runners : CountPlanned(p) \/ SeedOne(p)
         \/ Unstarted' \subseteq Unstarted /\ \A p \in Runners : Slots(p)' <= Slots(p)
<1> SUFFICES ASSUME ~ \E p \in Runners : CountPlanned(p) \/ SeedOne(p)
             PROVE  Unstarted' \subseteq Unstarted /\ \A p \in Runners : Slots(p)' <= Slots(p)
  OBVIOUS
<1>0. \A p \in Runners : Slots(p) \in 0..BatchSize
  BY SlotsType
<1>1. ASSUME NEW p \in Runners, LoadFronts(p)
      PROVE  \A q \in Runners : Slots(q)' <= Slots(q)
  <2>1. PICK cool \in SUBSET {i \in Eligible : front[i] = "seeded"} :
               \E rows \in BoundedSeq({i \in Eligible : front[i] = "never"} \cup cool, pass[p].slots) :
                 Goto(p, [at |-> "seeding", rows |-> rows])
    BY <1>1 DEF LoadFronts
  <2>2. PICK rows \in BoundedSeq({i \in Eligible : front[i] = "never"} \cup cool, pass[p].slots) :
               pass' = [pass EXCEPT ![p] = [at |-> "seeding", rows |-> rows]]
    BY <2>1 DEF Goto
  <2>3. pass[p].slots \in 1..BatchSize /\ At(p, "counted")
    BY <1>1, PassFields DEF LoadFronts, At, TypeOK
  <2>4. Len(rows) <= pass[p].slots /\ Len(rows) \in Nat
    BY <2>2, <2>3, BoundedSeqs, LenProperties
  <2>5. Slots(p) = pass[p].slots /\ Slots(p)' \in {0, Len(rows)}
    BY <2>2, <2>3 DEF Slots, At, TypeOK
  <2>6. \A q \in Runners \ {p} : Slots(q)' = Slots(q)
    BY <2>2 DEF Slots, At, TypeOK
  <2>. QED
    BY <1>0, <2>3, <2>4, <2>5, <2>6
<1>2. ASSUME NEW p \in Runners,
             \/ pass' = [pass EXCEPT ![p] = NULL]
             \/ ScanStep(p) \/ BeginScan(p) \/ AcceptStep(p) \/ CheckProposal(p)
      PROVE  \A q \in Runners : Slots(q)' <= Slots(q)
  <2>1. \A q \in Runners \ {p} : Slots(q)' = Slots(q)
    BY <1>2 DEF Slots, At, TypeOK, ScanStep, BeginScan, AcceptStep, CheckProposal, Goto, EndPass,
       LoadSignals, EmitProposal, ScanEnds, RecordAcceptance, InjectFront
  <2>2. pass'[p] = NULL \/ pass'[p].at \notin {"counted", "seeding"}
    <3>1. CASE LoadSignals(p) \/ EmitProposal(p)
      <4>1. pass[p] \in [at : {"scanning"}, seen : SUBSET Signals, left : 0..Len(SignalKinds),
                         rows : SUBSET Signals]
        BY <3>1, PassFields DEF LoadSignals, EmitProposal, At, TypeOK
      <4>2. CASE LoadSignals(p)
        BY <4>1, <4>2 DEF LoadSignals, Goto, TypeOK
      <4>3. CASE EmitProposal(p)
        BY <4>1, <4>3 DEF EmitProposal, Goto, TypeOK
      <4>. QED
        BY <3>1, <4>2, <4>3
    <3>2. CASE RecordAcceptance(p)
      <4>1. pass[p] \in [at : {"checked", "recorded"}, id : 1..MaxProposals]
        BY <3>2, PassFields DEF RecordAcceptance, At, TypeOK
      <4>. QED
        BY <3>2, <4>1 DEF RecordAcceptance, Goto, TypeOK
    <3>3. CASE BeginScan(p) \/ CheckProposal(p)
      BY <3>3 DEF BeginScan, CheckProposal, Goto, TypeOK
    <3>4. CASE pass' = [pass EXCEPT ![p] = NULL] \/ InjectFront(p) \/ ScanEnds(p)
      BY <3>4 DEF InjectFront, ScanEnds, EndPass, Goto, TypeOK
    <3>. QED
      BY <1>2, <3>1, <3>2, <3>3, <3>4 DEF ScanStep, AcceptStep
  <2>3. Slots(p)' = 0
    <3>1. ~At(p, "counted")' /\ ~At(p, "seeding")'
      BY <2>2 DEF At
    <3>. QED
      BY <3>1 DEF Slots
  <2>. QED
    BY <1>0, <2>1, <2>3
<1>3. ASSUME NEW p \in Runners, BeginPass(p) \/ SeedStep(p) \/ ScanStep(p) \/ AcceptStep(p) \/ Crash(p)
      PROVE  UNCHANGED task /\ \A q \in Runners : Slots(q)' <= Slots(q)
  <2>1. UNCHANGED task
    BY <1>3 DEF BeginPass, SeedStep, ScanStep, AcceptStep, tables, LoadFronts, SeedCollides,
       SeedEnds, BeginScan, LoadSignals, EmitProposal, ScanEnds, CheckProposal, RecordAcceptance,
       InjectFront, Crash
  <2>. QED
    BY <1>1, <1>2, <1>3, <2>1 DEF BeginPass, SeedStep, SeedCollides, SeedEnds, EndPass, Goto, Crash
<1>4. CASE UNCHANGED <<task, pass>>
  BY <1>0, <1>4 DEF Unstarted, Slots, At
<1>5. CASE \E i \in Idents : TakeUp(i) \/ PlanAgain(i)
  BY <1>0, <1>5 DEF TakeUp, PlanAgain, Unstarted, Slots, At, TypeOK
<1>. QED
  BY <1>3, <1>4, <1>5 DEF Next, vars, Unstarted, IngestSpec, Ingest, Strike, Forget

\* Taking slots: the others hold a batch each at most, and the queue and the new
\* slots together stay within the target.
LEMMA CountStep ==
  ASSUME TypeOK, TypeOK', NEW p \in Runners, CountPlanned(p)
  PROVE  Cardinality(Unstarted') + Cardinality(OpenSlots')
           <= Target + (Cardinality(Runners) - 1) * BatchSize
<1>1. PICK slots \in 1..BatchSize : /\ slots <= Target - Cardinality(Unstarted)
                                    /\ Goto(p, [at |-> "counted", slots |-> slots])
  <2>1. /\ Target - Cardinality(Planned) \in Nat
        /\ Target - Cardinality(Planned) <= Target - Cardinality(Unstarted)
    BY QueueIsFinite, IntakeConstants DEF CountPlanned
  <2>. QED
    BY <2>1, QueueIsFinite, IntakeConstants DEF CountPlanned
<1> DEFINE others == (Runners \ {p}) \X (1..BatchSize)
           own == {p} \X (1..slots)
<1>2. /\ IsFiniteSet(others)
      /\ Cardinality(others) = (Cardinality(Runners) - 1) * BatchSize
      /\ Cardinality(others) \in Nat
  <2>1. IsFiniteSet(Runners \ {p}) /\ Cardinality(Runners \ {p}) = Cardinality(Runners) - 1
    BY IntakeConstants, FS_RemoveElement
  <2>2. IsFiniteSet(1..BatchSize) /\ Cardinality(1..BatchSize) = BatchSize
    BY IntakeConstants, FS_Interval
  <2>. QED
    BY <2>1, <2>2, FS_Product, FS_CardinalityType
<1>3. IsFiniteSet(own) /\ Cardinality(own) = slots
  <2>1. IsFiniteSet(1..slots) /\ Cardinality(1..slots) = slots
    BY FS_Interval
  <2>2. IsFiniteSet({p}) /\ Cardinality({p}) = 1
    BY FS_Singleton
  <2>. QED
    BY <2>1, <2>2, FS_Product
<1>4. OpenSlots' \in SUBSET (others \cup own)
  <2>1. Slots(p)' <= slots /\ Slots(p)' \in 0..BatchSize
    BY <1>1, SlotsType, IntakeConstants DEF Slots, At, Goto, TypeOK
  <2>2. SUFFICES ASSUME NEW s \in OpenSlots' PROVE s \in others \cup own
    OBVIOUS
  <2>3. s = <<s[1], s[2]>> /\ s[1] \in Runners /\ s[2] \in 1..BatchSize /\ s[2] <= Slots(s[1])'
    BY DEF OpenSlots
  <2>4. CASE s[1] = p
    <3>1. s[2] \in 1..slots
      BY <2>1, <2>3, <2>4
    <3>. QED
      BY <2>3, <2>4, <3>1
  <2>5. CASE s[1] # p
    BY <2>3, <2>5
  <2>. QED
    BY <2>4, <2>5
<1>5. IsFiniteSet(others \cup own) /\ Cardinality(others \cup own) <= Cardinality(others) + slots
  <2>1. Cardinality(others \cap own) \in Nat
    BY <1>2, FS_Intersection, FS_CardinalityType
  <2>2. IsFiniteSet(others \cup own)
    BY <1>2, <1>3, FS_Union
  <2>3. Cardinality(others \cup own)
          = Cardinality(others) + Cardinality(own) - Cardinality(others \cap own)
    BY <1>2, <1>3, FS_Union
  <2>. QED
    BY <1>2, <1>3, <2>1, <2>2, <2>3
<1>6. Cardinality(OpenSlots') <= Cardinality(others \cup own) /\ Cardinality(OpenSlots') \in Nat
  BY <1>4, <1>5, FS_Subset, FS_CardinalityType
<1>7. Cardinality(others \cup own) \in Nat
  BY <1>5, FS_CardinalityType
<1>8. Unstarted' = Unstarted
  BY DEF CountPlanned, tables, Unstarted
<1>. HIDE DEF others, own
<1>. QED
  BY <1>1, <1>2, <1>5, <1>6, <1>7, <1>8, QueueIsFinite, IntakeConstants

\* Seeding turns one open slot into one planned row.
LEMMA SeedStepKeeps ==
  ASSUME TypeOK, TypeOK', NEW p \in Runners, SeedOne(p)
  PROVE  Cardinality(Unstarted') + Cardinality(OpenSlots') <= Cardinality(Unstarted) + Cardinality(OpenSlots)
<1>1. /\ pass[p] \in [at : {"seeding"}, rows : Seq(Idents)] /\ At(p, "seeding")
      /\ Len(pass[p].rows) <= BatchSize /\ pass[p].rows # <<>>
  BY PassFields DEF SeedOne, At, TypeOK
<1> DEFINE k == Len(pass[p].rows)
<1>2. k \in 1..BatchSize /\ Slots(p) = k /\ Head(pass[p].rows) \in Idents
      /\ Len(Tail(pass[p].rows)) = k - 1
  BY <1>1, IntakeConstants DEF Slots, At
<1>3. [pass[p] EXCEPT !.rows = Tail(@)] = [at |-> "seeding", rows |-> Tail(pass[p].rows)]
  BY <1>1
<1>4. pass' = [pass EXCEPT ![p] = [at |-> "seeding", rows |-> Tail(pass[p].rows)]]
  BY <1>3 DEF SeedOne, Goto
<1>5. Slots(p)' \in {0, k - 1} /\ \A q \in Runners \ {p} : Slots(q)' = Slots(q)
  BY <1>2, <1>4 DEF Slots, At, TypeOK
<1>6. OpenSlots' \in SUBSET (OpenSlots \ {<<p, k>>}) /\ <<p, k>> \in OpenSlots
  <2>1. <<p, k>> \in OpenSlots
    BY <1>2 DEF OpenSlots
  <2>2. ASSUME NEW s \in OpenSlots' PROVE s \in OpenSlots \ {<<p, k>>}
    <3>1. s = <<s[1], s[2]>> /\ s[1] \in Runners /\ s[2] \in 1..BatchSize /\ s[2] <= Slots(s[1])'
      BY DEF OpenSlots
    <3>2. CASE s[1] = p
      BY <1>2, <1>5, <3>1, <3>2, IntakeConstants DEF OpenSlots
    <3>3. CASE s[1] # p
      BY <1>5, <3>1, <3>3 DEF OpenSlots
    <3>. QED
      BY <3>2, <3>3
  <2>. QED
    BY <2>1, <2>2
<1>7. /\ Cardinality(OpenSlots \ {<<p, k>>}) = Cardinality(OpenSlots) - 1
      /\ Cardinality(OpenSlots') <= Cardinality(OpenSlots) - 1
  <2>1. IsFiniteSet(OpenSlots \ {<<p, k>>})
        /\ Cardinality(OpenSlots \ {<<p, k>>}) = Cardinality(OpenSlots) - 1
    BY <1>6, SlotsType, FS_RemoveElement
  <2>. QED
    BY <1>6, <2>1, FS_Subset
<1>8. Unstarted' = Unstarted \cup {Head(pass[p].rows)}
  BY <1>2 DEF SeedOne, Unstarted, TypeOK
<1>9. Cardinality(Unstarted') <= Cardinality(Unstarted) + 1
  <2>1. Cardinality(Unstarted \cup {Head(pass[p].rows)})
          = IF Head(pass[p].rows) \in Unstarted THEN Cardinality(Unstarted) ELSE Cardinality(Unstarted) + 1
    BY QueueIsFinite, FS_AddElement
  <2>. QED
    BY <1>8, <2>1, QueueIsFinite
<1>10. Cardinality(OpenSlots) \in Nat /\ Cardinality(OpenSlots') \in Nat
  BY SlotsType, SlotsTypeNext
<1>. QED
  BY <1>7, <1>9, <1>10, QueueIsFinite

\* Every step keeps the queue and the open slots within the bound.
LEMMA QueueInvStep == QueueInv /\ [Next]_vars => QueueInv'
<1> SUFFICES ASSUME QueueInv, [Next]_vars PROVE QueueInv'
  OBVIOUS
<1>0. TypeOK /\ TypeOK'
  BY NextType DEF QueueInv
<1> DEFINE others == (Cardinality(Runners) - 1) * BatchSize
<1>1. others \in Int /\ Target \in Nat
  BY IntakeConstants, FS_CardinalityType
<1>2. /\ Cardinality(Unstarted) \in Nat /\ Cardinality(OpenSlots) \in Nat
      /\ Cardinality(Unstarted') \in Nat /\ Cardinality(OpenSlots') \in Nat
  BY <1>0, SlotsType, SlotsTypeNext, QueueIsFinite
<1>3. CASE \E p \in Runners : CountPlanned(p)
  BY <1>0, <1>3, CountStep DEF QueueInv
<1>4. CASE \E p \in Runners : SeedOne(p)
  <2>1. Cardinality(Unstarted') + Cardinality(OpenSlots') <= Cardinality(Unstarted) + Cardinality(OpenSlots)
    BY <1>0, <1>4, SeedStepKeeps
  <2>2. Cardinality(Unstarted) + Cardinality(OpenSlots) <= Target + others
    BY DEF QueueInv
  <2>3. Cardinality(Unstarted') + Cardinality(OpenSlots') <= Target + others
    <3>. HIDE DEF others
    <3>. QED
      BY <1>1, <1>2, <2>1, <2>2
  <2>. QED
    BY <1>0, <2>3 DEF QueueInv
<1>5. CASE Unstarted' \subseteq Unstarted /\ \A p \in Runners : Slots(p)' <= Slots(p)
  <2>1. OpenSlots' \in SUBSET OpenSlots
    <3>1. \A p \in Runners : Slots(p) \in Int /\ Slots(p)' \in Int
      BY <1>0, SlotsType, SlotsTypeNext
    <3>. QED
      BY <1>5, <3>1 DEF OpenSlots
  <2>2. Cardinality(Unstarted') <= Cardinality(Unstarted) /\ Cardinality(OpenSlots') <= Cardinality(OpenSlots)
    BY <1>0, <1>5, <2>1, SlotsType, QueueIsFinite, FS_Subset
  <2>3. Cardinality(Unstarted) + Cardinality(OpenSlots) <= Target + others
    BY DEF QueueInv
  <2>4. Cardinality(Unstarted') + Cardinality(OpenSlots') <= Target + others
    <3>. HIDE DEF others
    <3>. QED
      BY <1>1, <1>2, <2>2, <2>3
  <2>. QED
    BY <1>0, <2>4 DEF QueueInv
<1>. QED
  BY <1>0, <1>3, <1>4, <1>5, QueueStep

\* However many processes seed at the same time, the queue exceeds its target by the
\* rows that came back to it and one batch for each further process at most
\* (seed_from_roadmap.py).
THEOREM OvershootCorrect == Spec => []QueueOvershootBounded
<1>1. Cardinality(Runners) - 1 \in Nat /\ (Cardinality(Runners) - 1) * BatchSize \in Nat
  <2>1. Cardinality(Runners) \in Nat /\ Cardinality(Runners) # 0
    BY IntakeConstants, FS_CardinalityType, FS_EmptySet
  <2>. QED
    BY <2>1, IntakeConstants
<1>2. Init => QueueInv
  <2> SUFFICES ASSUME Init PROVE QueueInv
    OBVIOUS
  <2>1. Unstarted = {} /\ OpenSlots = {}
    BY IntakeConstants DEF Init, Unstarted, OpenSlots, Slots, At
  <2>2. Cardinality(Unstarted) = 0 /\ Cardinality(OpenSlots) = 0
    BY <2>1, FS_EmptySet
  <2>. QED
    BY <1>1, <2>2, InitType, IntakeConstants DEF QueueInv
<1>3. QueueInv => QueueOvershootBounded
  BY <1>1, SlotsType, QueueIsFinite, IntakeConstants DEF QueueInv, QueueOvershootBounded
<1>. QED
  BY <1>2, <1>3, QueueInvStep, PTL DEF Spec

-----------------------------------------------------------------------------
(* How many copies of a proposal are pending *)

\* The pending copies of a signal's proposal, and the scans that would add one.
Copies(s) == {j \in DOMAIN proposals : proposals[j] = [signal |-> s, accepted |-> FALSE]}
Blind(s) == {p \in Runners : At(p, "scanning") /\ s \notin pass[p].seen}

\* Each pending copy used up a scan that had not seen the signal pending.
PendingInv ==
  /\ TypeOK
  /\ \A p \in Runners : At(p, "scanning") => pass[p].rows \cap pass[p].seen = {}
  /\ \A s \in Signals : Cardinality(Copies(s)) + Cardinality(Blind(s)) <= Cardinality(Runners)

\* Copies and scans are finitely many.
LEMMA PendingType ==
  ASSUME TypeOK, NEW s \in Signals
  PROVE  /\ IsFiniteSet(Copies(s)) /\ Cardinality(Copies(s)) \in Nat
         /\ IsFiniteSet(Blind(s)) /\ Cardinality(Blind(s)) \in Nat
<1>1. Copies(s) \in SUBSET (1..MaxProposals) /\ Blind(s) \in SUBSET Runners
  BY ProposalsType DEF Copies, Blind
<1>2. IsFiniteSet(1..MaxProposals) /\ IsFiniteSet(Runners)
  BY IntakeConstants, FS_Interval
<1>3. IsFiniteSet(Copies(s)) /\ IsFiniteSet(Blind(s))
  BY <1>1, <1>2, FS_Subset
<1>. QED
  BY <1>3, FS_CardinalityType

\* What a runner that is scanning holds.
LEMMA ScanFields ==
  ASSUME TypeOK, NEW p \in Runners, At(p, "scanning")
  PROVE  /\ pass[p] \in [at : {"scanning"}, seen : SUBSET Signals, left : 0..Len(SignalKinds),
                         rows : SUBSET Signals]
         /\ pass[p] # NULL
  BY PassFields DEF At, TypeOK

\* A pass that ends or goes on outside a scan is no scan, and the others stay.
LEMMA NotScanning ==
  ASSUME TypeOK, NEW p \in Runners, NEW m, pass' = [pass EXCEPT ![p] = m],
         m = NULL \/ m.at # "scanning"
  PROVE  /\ ~At(p, "scanning")'
         /\ \A q \in Runners \ {p} : pass'[q] = pass[q]
  BY DEF At, TypeOK

\* What a step does to the scans and to the proposals: one scan begins, reads a
\* kind or emits a proposal, or else no scan begins and no proposal is added.
LEMMA ScanSteps ==
  ASSUME TypeOK, [Next]_vars
  PROVE  \/ \E p \in Runners : BeginScan(p) \/ LoadSignals(p) \/ EmitProposal(p)
         \/ /\ \A p \in Runners : At(p, "scanning")' => pass'[p] = pass[p]
            /\ \A s \in Signals : Copies(s)' \subseteq Copies(s)
<1> SUFFICES ASSUME ~ \E p \in Runners : BeginScan(p) \/ LoadSignals(p) \/ EmitProposal(p)
             PROVE  /\ \A p \in Runners : At(p, "scanning")' => pass'[p] = pass[p]
                    /\ \A s \in Signals : Copies(s)' \subseteq Copies(s)
  OBVIOUS
<1>1. ASSUME NEW p \in Runners, RecordAcceptance(p)
      PROVE  /\ \A q \in Runners : At(q, "scanning")' => pass'[q] = pass[q]
             /\ \A s \in Signals : Copies(s)' \subseteq Copies(s)
  <2>1. /\ pass[p] \in [at : {"checked", "recorded"}, id : 1..MaxProposals]
        /\ pass[p].id \in DOMAIN proposals
    BY <1>1, PassFields DEF RecordAcceptance, At, TypeOK
  <2>2. [pass[p] EXCEPT !.at = "recorded"] = [at |-> "recorded", id |-> pass[p].id]
    BY <2>1
  <2>3. pass' = [pass EXCEPT ![p] = [at |-> "recorded", id |-> pass[p].id]]
    BY <1>1, <2>2 DEF RecordAcceptance, Goto
  <2>4. \A q \in Runners : At(q, "scanning")' => pass'[q] = pass[q]
    BY <2>3, NotScanning
  <2>5. /\ proposals' = [proposals EXCEPT ![pass[p].id].accepted = TRUE]
        /\ proposals[pass[p].id] \in [signal : Signals, accepted : BOOLEAN]
    BY <1>1, <2>1, ProposalsType DEF RecordAcceptance
  <2>6. /\ DOMAIN proposals' = DOMAIN proposals
        /\ proposals'[pass[p].id].accepted = TRUE
        /\ \A j \in DOMAIN proposals \ {pass[p].id} : proposals'[j] = proposals[j]
    BY <2>1, <2>5, ProposalsType
  <2>. QED
    BY <2>4, <2>6 DEF Copies
<1>2. ASSUME NEW p \in Runners, NEW m, pass' = [pass EXCEPT ![p] = m],
             m = NULL \/ m.at # "scanning", UNCHANGED proposals
      PROVE  /\ \A q \in Runners : At(q, "scanning")' => pass'[q] = pass[q]
             /\ \A s \in Signals : Copies(s)' \subseteq Copies(s)
  BY <1>2, NotScanning DEF Copies
<1>3. ASSUME NEW p \in Runners, CountPlanned(p) \/ LoadFronts(p)
      PROVE  /\ \A q \in Runners : At(q, "scanning")' => pass'[q] = pass[q]
             /\ \A s \in Signals : Copies(s)' \subseteq Copies(s)
  BY <1>2, <1>3 DEF CountPlanned, LoadFronts, Goto, tables
<1>4. ASSUME NEW p \in Runners, SeedOne(p)
      PROVE  /\ \A q \in Runners : At(q, "scanning")' => pass'[q] = pass[q]
             /\ \A s \in Signals : Copies(s)' \subseteq Copies(s)
  <2>1. pass[p] \in [at : {"seeding"}, rows : Seq(Idents)]
    BY <1>4, PassFields DEF SeedOne, At, TypeOK
  <2>2. [pass[p] EXCEPT !.rows = Tail(@)].at # "scanning"
    BY <2>1
  <2>. QED
    BY <1>2, <1>4, <2>2 DEF SeedOne, Goto
<1>5. ASSUME NEW p \in Runners,
             \/ SeedCollides(p) \/ SeedEnds(p) \/ ScanEnds(p)
             \/ CheckProposal(p) \/ InjectFront(p) \/ Crash(p)
      PROVE  /\ \A q \in Runners : At(q, "scanning")' => pass'[q] = pass[q]
             /\ \A s \in Signals : Copies(s)' \subseteq Copies(s)
  BY <1>2, <1>5 DEF SeedCollides, SeedEnds, ScanEnds, CheckProposal, InjectFront, Crash,
     EndPass, Goto, tables
<1>6. CASE UNCHANGED <<pass, proposals>>
  BY <1>6 DEF Copies
<1>. QED
  BY <1>1, <1>3, <1>4, <1>5, <1>6 DEF Next, vars, BeginPass, SeedStep, ScanStep, AcceptStep,
     IngestSpec, Ingest, TakeUp, PlanAgain, Strike, Forget

\* Every step keeps the balance of pending copies and scans that would add one.
LEMMA PendingInvStep == PendingInv /\ [Next]_vars => PendingInv'
<1> SUFFICES ASSUME PendingInv, [Next]_vars PROVE PendingInv'
  OBVIOUS
<1>0. TypeOK /\ TypeOK'
  BY NextType DEF PendingInv
<1> DEFINE Fresh == \A p \in Runners : At(p, "scanning") => pass[p].rows \cap pass[p].seen = {}
           Balance(s) == Cardinality(Copies(s)) + Cardinality(Blind(s)) <= Cardinality(Runners)
<1>1. Cardinality(Runners) \in Nat /\ IsFiniteSet(Runners)
  BY IntakeConstants, FS_CardinalityType
<1>2. ASSUME NEW s \in Signals, Copies(s)' \subseteq Copies(s), Blind(s)' \subseteq Blind(s)
      PROVE  Balance(s)'
  <2>1. /\ IsFiniteSet(Copies(s)) /\ Cardinality(Copies(s)) \in Nat
        /\ IsFiniteSet(Blind(s)) /\ Cardinality(Blind(s)) \in Nat
    BY <1>0, PendingType
  <2>2. /\ Cardinality(Copies(s)') \in Nat /\ Cardinality(Copies(s)') <= Cardinality(Copies(s))
        /\ Cardinality(Blind(s)') \in Nat /\ Cardinality(Blind(s)') <= Cardinality(Blind(s))
    BY <1>2, <2>1, FS_Subset, FS_CardinalityType
  <2>3. Cardinality(Copies(s)) + Cardinality(Blind(s)) <= Cardinality(Runners)
    BY DEF PendingInv
  <2>. QED
    BY <1>1, <2>1, <2>2, <2>3
<1>3. ASSUME NEW p \in Runners, BeginScan(p) PROVE Fresh' /\ \A s \in Signals : Balance(s)'
  <2>1. /\ pass[p] = NULL /\ UNCHANGED proposals
        /\ pass' = [pass EXCEPT ![p] = [at |-> "scanning", seen |-> Pending,
                                        left |-> Len(SignalKinds), rows |-> {}]]
    BY <1>3 DEF BeginScan, Goto, tables
  <2>2. /\ pass'[p] = [at |-> "scanning", seen |-> Pending, left |-> Len(SignalKinds), rows |-> {}]
        /\ \A q \in Runners \ {p} : pass'[q] = pass[q]
    BY <1>0, <2>1 DEF TypeOK
  <2>3. Fresh'
    BY <2>2 DEF PendingInv, At
  <2>4. ASSUME NEW s \in Signals PROVE Balance(s)'
    <3>1. Copies(s)' = Copies(s)
      BY <2>1 DEF Copies
    <3>2. CASE s \in Pending
      <4>1. Blind(s)' \subseteq Blind(s)
        BY <2>2, <3>2 DEF Blind, At
      <4>. QED
        BY <1>2, <3>1, <4>1
    <3>3. CASE s \notin Pending
      <4>1. Copies(s)' = {}
        <5>1. \A j \in DOMAIN proposals : proposals[j] # [signal |-> s, accepted |-> FALSE]
          BY <3>3 DEF Pending
        <5>. QED
          BY <3>1, <5>1 DEF Copies
      <4>2. Cardinality(Copies(s)') = 0
        BY <4>1, FS_EmptySet
      <4>3. Blind(s)' \in SUBSET Runners
        BY DEF Blind
      <4>4. Cardinality(Blind(s)') <= Cardinality(Runners) /\ Cardinality(Blind(s)') \in Nat
        BY <1>1, <4>3, FS_Subset, FS_CardinalityType
      <4>. QED
        BY <1>1, <4>2, <4>4
    <3>. QED
      BY <3>2, <3>3
  <2>. QED
    BY <2>3, <2>4
<1>4. ASSUME NEW p \in Runners, LoadSignals(p) PROVE Fresh' /\ \A s \in Signals : Balance(s)'
  <2>1. PICK loud \in SUBSET Signals :
          /\ UNCHANGED proposals
          /\ pass' = [pass EXCEPT ![p] = [pass[p] EXCEPT !.left = @ - 1, !.rows = loud \ pass[p].seen]]
    BY <1>4 DEF LoadSignals, Goto, tables
  <2>2. /\ pass[p] \in [at : {"scanning"}, seen : SUBSET Signals, left : 0..Len(SignalKinds),
                        rows : SUBSET Signals]
        /\ At(p, "scanning")
    BY <1>0, <1>4, ScanFields DEF LoadSignals
  <2>3. /\ pass'[p].seen = pass[p].seen /\ pass'[p].rows = loud \ pass[p].seen
        /\ \A q \in Runners \ {p} : pass'[q] = pass[q]
    BY <1>0, <2>1, <2>2 DEF TypeOK
  <2>4. Fresh'
    BY <2>3 DEF PendingInv, At
  <2>5. ASSUME NEW s \in Signals PROVE Copies(s)' \subseteq Copies(s) /\ Blind(s)' \subseteq Blind(s)
    BY <2>1, <2>2, <2>3 DEF Copies, Blind, At
  <2>. QED
    BY <1>2, <2>4, <2>5
<1>5. ASSUME NEW p \in Runners, EmitProposal(p) PROVE Fresh' /\ \A s \in Signals : Balance(s)'
  <2>1. /\ pass[p] \in [at : {"scanning"}, seen : SUBSET Signals, left : 0..Len(SignalKinds),
                        rows : SUBSET Signals]
        /\ At(p, "scanning")
    BY <1>0, <1>5, ScanFields DEF EmitProposal
  <2>2. PICK e \in pass[p].rows :
          /\ proposals' = Append(proposals, [signal |-> e, accepted |-> FALSE])
          /\ pass' = [pass EXCEPT ![p] = [pass[p] EXCEPT !.rows = @ \ {e}, !.seen = @ \cup {e}]]
    BY <1>5 DEF EmitProposal, Goto
  <2>3. /\ pass'[p].seen = pass[p].seen \cup {e} /\ pass'[p].rows = pass[p].rows \ {e}
        /\ \A q \in Runners \ {p} : pass'[q] = pass[q]
    BY <1>0, <2>1, <2>2 DEF TypeOK
  <2>4. e \notin pass[p].seen /\ e \in Signals
    BY <2>1, <2>2 DEF PendingInv
  <2>5. Fresh'
    BY <2>1, <2>3 DEF PendingInv, At
  <2>6. /\ DOMAIN proposals' = DOMAIN proposals \cup {Len(proposals) + 1}
        /\ proposals'[Len(proposals) + 1] = [signal |-> e, accepted |-> FALSE]
        /\ \A j \in DOMAIN proposals : proposals'[j] = proposals[j]
    BY <2>2, <2>4, ProposalsType, <1>0
  <2>7. ASSUME NEW s \in Signals, s # e PROVE Balance(s)'
    <3>1. Copies(s)' \subseteq Copies(s)
      BY <2>6, <2>7 DEF Copies
    <3>2. Blind(s)' \subseteq Blind(s)
      BY <2>1, <2>3 DEF Blind, At
    <3>. QED
      BY <1>2, <3>1, <3>2
  <2>8. Balance(e)'
    <3>1. Copies(e)' \subseteq Copies(e) \cup {Len(proposals) + 1}
      BY <2>6 DEF Copies
    <3>2. p \in Blind(e) /\ Blind(e)' \subseteq Blind(e) \ {p}
      BY <2>1, <2>3, <2>4 DEF Blind, At
    <3>3. /\ IsFiniteSet(Copies(e)) /\ Cardinality(Copies(e)) \in Nat
          /\ IsFiniteSet(Blind(e)) /\ Cardinality(Blind(e)) \in Nat
      BY <1>0, <2>4, PendingType
    <3>4. Cardinality(Copies(e)') <= Cardinality(Copies(e)) + 1 /\ Cardinality(Copies(e)') \in Nat
      <4>1. /\ IsFiniteSet(Copies(e) \cup {Len(proposals) + 1})
            /\ Cardinality(Copies(e) \cup {Len(proposals) + 1}) \in Nat
            /\ Cardinality(Copies(e) \cup {Len(proposals) + 1}) <= Cardinality(Copies(e)) + 1
        <5>1. /\ IsFiniteSet(Copies(e) \cup {Len(proposals) + 1})
              /\ \/ Cardinality(Copies(e) \cup {Len(proposals) + 1}) = Cardinality(Copies(e))
                 \/ Cardinality(Copies(e) \cup {Len(proposals) + 1}) = Cardinality(Copies(e)) + 1
          BY <3>3, FS_AddElement
        <5>. QED
          BY <3>3, <5>1
      <4>2. /\ IsFiniteSet(Copies(e)')
            /\ Cardinality(Copies(e)') <= Cardinality(Copies(e) \cup {Len(proposals) + 1})
        BY <3>1, <4>1, FS_Subset
      <4>3. Cardinality(Copies(e)') \in Nat
        BY <4>2, FS_CardinalityType
      <4>. QED
        BY <3>3, <4>1, <4>2, <4>3
    <3>5. Cardinality(Blind(e)') <= Cardinality(Blind(e)) - 1 /\ Cardinality(Blind(e)') \in Nat
      <4>1. /\ IsFiniteSet(Blind(e) \ {p})
            /\ Cardinality(Blind(e) \ {p}) = Cardinality(Blind(e)) - 1
        BY <3>2, <3>3, FS_RemoveElement
      <4>2. IsFiniteSet(Blind(e)') /\ Cardinality(Blind(e)') <= Cardinality(Blind(e) \ {p})
        BY <3>2, <4>1, FS_Subset
      <4>3. Cardinality(Blind(e)') \in Nat
        BY <4>2, FS_CardinalityType
      <4>. QED
        BY <4>1, <4>2, <4>3
    <3>6. Cardinality(Copies(e)) + Cardinality(Blind(e)) <= Cardinality(Runners)
      BY <2>4 DEF PendingInv
    <3>. QED
      BY <1>1, <3>3, <3>4, <3>5, <3>6
  <2>. QED
    BY <2>5, <2>7, <2>8
<1>6. ASSUME \A p \in Runners : At(p, "scanning")' => pass'[p] = pass[p],
             \A s \in Signals : Copies(s)' \subseteq Copies(s)
      PROVE  Fresh' /\ \A s \in Signals : Balance(s)'
  <2>1. Fresh'
    BY <1>6 DEF PendingInv, At
  <2>2. \A s \in Signals : Blind(s)' \subseteq Blind(s)
    BY <1>6 DEF Blind, At
  <2>. QED
    BY <1>2, <1>6, <2>1, <2>2
<1>7. Fresh' /\ \A s \in Signals : Balance(s)'
  <2>. HIDE DEF Fresh, Balance
  <2>. QED
    BY <1>0, <1>3, <1>4, <1>5, <1>6, ScanSteps
<1>. QED
  BY <1>0, <1>7 DEF PendingInv

\* A signal's proposal never has more pending copies than there are processes that
\* scan, for any signals, threshold and kills (auto_observe.py).
THEOREM PendingCorrect == Spec => []PendingProposalsBounded
<1>1. Init => PendingInv
  <2> SUFFICES ASSUME Init PROVE PendingInv
    OBVIOUS
  <2>1. ASSUME NEW s \in Signals PROVE Copies(s) = {} /\ Blind(s) = {}
    BY DEF Init, Copies, Blind, At
  <2>2. Cardinality({}) = 0 /\ Cardinality(Runners) \in Nat
    BY IntakeConstants, FS_EmptySet, FS_CardinalityType
  <2>3. ASSUME NEW s \in Signals
        PROVE  Cardinality(Copies(s)) + Cardinality(Blind(s)) <= Cardinality(Runners)
    BY <2>1, <2>2
  <2>. QED
    BY <2>3, InitType DEF PendingInv, Init, At
<1>2. PendingInv => PendingProposalsBounded
  <2> SUFFICES ASSUME PendingInv, NEW s \in Signals
               PROVE  Cardinality(Copies(s)) <= Cardinality(Runners)
    BY DEF PendingProposalsBounded, Copies
  <2>1. Cardinality(Copies(s)) \in Nat /\ Cardinality(Blind(s)) \in Nat
    BY PendingType DEF PendingInv
  <2>. QED
    BY <2>1, IntakeConstants, FS_CardinalityType DEF PendingInv
<1>. QED
  BY <1>1, <1>2, PendingInvStep, PTL DEF Spec

-----------------------------------------------------------------------------
(* How many accepted proposals lose their front *)

\* The accepted proposals whose front is missing and that nobody is injecting.
Injecting(j) == \E p \in Runners : At(p, "recorded") /\ pass[p].id = j
Lost == {j \in DOMAIN proposals : /\ proposals[j].accepted
                                  /\ front[proposals[j].signal] = "none"
                                  /\ ~Injecting(j)}
LostInv == TypeOK /\ Cardinality(Lost) <= crashes

\* The lost proposals are finitely many.
LEMMA LostType == TypeOK => IsFiniteSet(Lost) /\ Cardinality(Lost) \in Nat
<1>1. TypeOK => Lost \in SUBSET (1..MaxProposals)
  BY ProposalsType DEF Lost
<1>2. IsFiniteSet(1..MaxProposals)
  BY IntakeConstants, FS_Interval
<1>3. TypeOK => IsFiniteSet(Lost)
  BY <1>1, <1>2, FS_Subset
<1>. QED
  BY <1>3, FS_CardinalityType

\* A step without a kill loses no proposal: what stays recorded is still being
\* injected, what ends has injected its front, and no front leaves the table.
LEMMA LostStep ==
  ASSUME TypeOK, TypeOK', [Next]_vars, ~ \E p \in Runners : Crash(p)
  PROVE  Lost' \subseteq Lost
<1>1. ASSUME NEW i \in Idents, front[i] # "none" PROVE front'[i] # "none"
  <2>1. CASE \E p \in Runners : SeedOne(p)
    BY <1>1, <2>1 DEF SeedOne, TypeOK
  <2>2. CASE \E p \in Runners : InjectFront(p)
    BY <1>1, <2>2 DEF InjectFront, TypeOK
  <2>3. CASE Ingest
    BY <1>1, <2>3 DEF Ingest, TypeOK
  <2>4. CASE UNCHANGED front
    BY <1>1, <2>4
  <2>. QED
    BY <2>1, <2>2, <2>3, <2>4 DEF Next, vars, tables, BeginPass, SeedStep, ScanStep, AcceptStep,
       IngestSpec, TakeUp, PlanAgain, Strike, Forget, Crash, CountPlanned, LoadFronts, SeedCollides, SeedEnds,
       BeginScan, LoadSignals, EmitProposal, ScanEnds, CheckProposal, RecordAcceptance
<1>2. ASSUME NEW p \in Runners, At(p, "recorded"), pass'[p] # pass[p] PROVE InjectFront(p)
  <2> SUFFICES ASSUME ~InjectFront(p) PROVE FALSE
    OBVIOUS
  <2>1. PICK q \in Runners : BeginPass(q) \/ SeedStep(q) \/ ScanStep(q) \/ AcceptStep(q)
    BY <1>2 DEF Next, vars, IngestSpec, Ingest, TakeUp, PlanAgain, Strike, Forget
  <2>2. \E m : pass' = [pass EXCEPT ![q] = m]
    BY <2>1 DEF BeginPass, SeedStep, ScanStep, AcceptStep, Goto, EndPass, CountPlanned, LoadFronts,
       SeedOne, SeedCollides, SeedEnds, BeginScan, LoadSignals, EmitProposal, ScanEnds,
       CheckProposal, RecordAcceptance, InjectFront
  <2>3. q = p
    BY <1>2, <2>2 DEF TypeOK
  <2>. QED
    BY <1>2, <2>1, <2>3 DEF At, BeginPass, SeedStep, ScanStep, AcceptStep, CountPlanned,
       LoadFronts, SeedOne, SeedCollides, SeedEnds, BeginScan, LoadSignals, EmitProposal, ScanEnds,
       CheckProposal, RecordAcceptance
<1>3. ASSUME NEW p \in Runners, RecordAcceptance(p)
      PROVE  Lost' \subseteq Lost
  <2>1. /\ pass[p] \in [at : {"checked", "recorded"}, id : 1..MaxProposals]
        /\ pass[p].id \in DOMAIN proposals
    BY <1>3, PassFields DEF RecordAcceptance, At, TypeOK
  <2>2. /\ [pass[p] EXCEPT !.at = "recorded"] = [at |-> "recorded", id |-> pass[p].id]
        /\ [at |-> "recorded", id |-> pass[p].id] \in Passes
    BY <2>1 DEF Passes
  <2>3. pass' = [pass EXCEPT ![p] = [at |-> "recorded", id |-> pass[p].id]] /\ UNCHANGED front
    BY <1>3, <2>2 DEF RecordAcceptance, Goto
  <2>4. At(p, "recorded")' /\ pass'[p].id = pass[p].id
    BY <2>2, <2>3, NoPass DEF At, TypeOK
  <2>5. /\ proposals' = [proposals EXCEPT ![pass[p].id].accepted = TRUE]
        /\ proposals[pass[p].id] \in [signal : Signals, accepted : BOOLEAN]
    BY <1>3, <2>1, ProposalsType DEF RecordAcceptance
  <2>6. /\ DOMAIN proposals' = DOMAIN proposals
        /\ \A j \in DOMAIN proposals \ {pass[p].id} : proposals'[j] = proposals[j]
    BY <2>1, <2>5, ProposalsType
  <2>7. ASSUME NEW j \in DOMAIN proposals, j = pass[p].id PROVE Injecting(j)'
    BY <2>4, <2>7 DEF Injecting
  <2>8. ASSUME NEW j \in DOMAIN proposals, j # pass[p].id, Injecting(j) PROVE Injecting(j)'
    BY <1>3, <2>1, <2>3, <2>8 DEF Injecting, At, RecordAcceptance, TypeOK
  <2>9. ASSUME NEW j \in Lost' PROVE j \in Lost
    <3>0. j \in DOMAIN proposals /\ ~Injecting(j)'
      BY <2>6 DEF Lost
    <3>1. j # pass[p].id /\ proposals'[j] = proposals[j]
      BY <2>6, <2>7, <3>0
    <3>2. ~Injecting(j)
      BY <2>8, <3>0, <3>1
    <3>. QED
      BY <2>3, <3>0, <3>1, <3>2 DEF Lost
  <2>. QED
    BY <2>9
<1>4. ASSUME NEW p \in Runners, EmitProposal(p)
      PROVE  Lost' \subseteq Lost
  <2>1. At(p, "scanning") /\ UNCHANGED front
    BY <1>4 DEF EmitProposal
  <2>2. PICK s \in pass[p].rows : proposals' = Append(proposals, [signal |-> s, accepted |-> FALSE])
    BY <1>4 DEF EmitProposal
  <2>3. s \in Signals
    BY <2>1, ScanFields
  <2>4. /\ DOMAIN proposals' = DOMAIN proposals \cup {Len(proposals) + 1}
        /\ proposals'[Len(proposals) + 1] = [signal |-> s, accepted |-> FALSE]
        /\ \A j \in DOMAIN proposals : proposals'[j] = proposals[j]
    BY <2>2, <2>3, ProposalsType
  <2>5. \A q \in Runners : At(q, "recorded") => pass'[q] = pass[q]
    BY <1>4 DEF EmitProposal, Goto, At, TypeOK
  <2>6. ASSUME NEW j, Injecting(j) PROVE Injecting(j)'
    BY <2>5, <2>6 DEF Injecting, At
  <2>. QED
    BY <2>1, <2>4, <2>6 DEF Lost
<1>5. CASE UNCHANGED proposals
  <2> SUFFICES ASSUME NEW j \in Lost' PROVE j \in Lost
    OBVIOUS
  <2>1. /\ j \in DOMAIN proposals /\ proposals[j].accepted /\ proposals[j].signal \in Idents
        /\ front'[proposals[j].signal] = "none" /\ ~Injecting(j)'
    BY <1>5, ProposalsType DEF Lost, Idents
  <2>2. front[proposals[j].signal] = "none"
    BY <1>1, <2>1 DEF TypeOK
  <2>3. SUFFICES ASSUME Injecting(j) PROVE FALSE
    BY <2>1, <2>2 DEF Lost
  <2>4. PICK p \in Runners : At(p, "recorded") /\ pass[p].id = j
    BY <2>3 DEF Injecting
  <2>5. pass'[p] # pass[p]
    BY <2>1, <2>4 DEF Injecting, At
  <2>6. InjectFront(p)
    BY <1>2, <2>4, <2>5
  <2>. QED
    BY <2>1, <2>2, <2>4, <2>6 DEF InjectFront, TypeOK
<1>. QED
  BY <1>3, <1>4, <1>5 DEF Next, vars, tables, BeginPass, SeedStep, ScanStep, AcceptStep,
     IngestSpec, Ingest, TakeUp, PlanAgain, Strike, Forget, Crash, CountPlanned, LoadFronts, SeedOne,
     SeedCollides, SeedEnds, BeginScan, LoadSignals, ScanEnds, CheckProposal, InjectFront

\* Each kill between the two transactions of accept loses the front of one accepted
\* proposal, and nothing else in the system loses any (auto_observe.py).
THEOREM InjectionCorrect == Spec => []AcceptedProposalIsInjected
<1>1. Init => LostInv
  <2> SUFFICES ASSUME Init PROVE LostInv
    OBVIOUS
  <2>1. Lost = {} /\ crashes = 0
    BY DEF Init, Lost
  <2>. QED
    BY <2>1, InitType, FS_EmptySet DEF LostInv
<1>2. LostInv /\ [Next]_vars => LostInv'
  <2> SUFFICES ASSUME LostInv, [Next]_vars PROVE LostInv'
    OBVIOUS
  <2>1. TypeOK /\ TypeOK' /\ crashes \in Nat /\ IsFiniteSet(Lost) /\ Cardinality(Lost) \in Nat
    BY NextType, LostType, IntakeConstants DEF LostInv, TypeOK
  <2>2. ASSUME NEW p \in Runners, Crash(p) PROVE Cardinality(Lost') <= crashes'
    <3>1. Lost' \subseteq Lost \cup {pass[p].id}
      BY <2>1, <2>2 DEF Lost, Injecting, At, Crash, tables, TypeOK
    <3>2. /\ IsFiniteSet(Lost \cup {pass[p].id})
          /\ \/ Cardinality(Lost \cup {pass[p].id}) = Cardinality(Lost)
             \/ Cardinality(Lost \cup {pass[p].id}) = Cardinality(Lost) + 1
      BY <2>1, FS_AddElement
    <3>3. /\ IsFiniteSet(Lost')
          /\ Cardinality(Lost') <= Cardinality(Lost \cup {pass[p].id})
      BY <3>1, <3>2, FS_Subset
    <3>4. Cardinality(Lost') \in Nat
      BY <3>3, FS_CardinalityType
    <3>5. crashes' = crashes + 1 /\ Cardinality(Lost) <= crashes
      BY <2>2 DEF Crash, LostInv
    <3>. QED
      BY <2>1, <3>2, <3>3, <3>4, <3>5
  <2>3. CASE ~ \E p \in Runners : Crash(p)
    <3>1. Lost' \subseteq Lost
      BY <2>1, <2>3, LostStep
    <3>2. IsFiniteSet(Lost') /\ Cardinality(Lost') <= Cardinality(Lost)
      BY <2>1, <3>1, FS_Subset
    <3>3. Cardinality(Lost') \in Nat
      BY <3>2, FS_CardinalityType
    <3>4. UNCHANGED crashes
      BY <2>3 DEF Next, vars, tables, BeginPass, SeedStep, ScanStep, AcceptStep, Goto, EndPass,
         IngestSpec, Ingest, TakeUp, PlanAgain, Strike, Forget, CountPlanned, LoadFronts, SeedOne,
         SeedCollides, SeedEnds, BeginScan, LoadSignals, EmitProposal, ScanEnds, CheckProposal,
         RecordAcceptance, InjectFront
    <3>. QED
      BY <2>1, <3>2, <3>3, <3>4 DEF LostInv
  <2>. QED
    BY <2>1, <2>2, <2>3 DEF LostInv
<1>3. LostInv => AcceptedProposalIsInjected
  BY DEF LostInv, Lost, Injecting, AcceptedProposalIsInjected
<1>. QED
  BY <1>1, <1>2, <1>3, PTL DEF Spec

===============================================================================
