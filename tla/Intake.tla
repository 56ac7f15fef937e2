-------------------------------- MODULE Intake --------------------------------
(***************************************************************************)
(* How work gets into the queue: spec, roadmap, fronts, tasks, and the     *)
(* proposals the engine makes about itself.                                *)
(*                                                                         *)
(*   spec_ingest        renders a spec into the roadmap file               *)
(*   ingest_roadmap     upserts the roadmap's items into table front       *)
(*   seed_from_roadmap  turns fronts into planned tasks                    *)
(*   auto_observe       proposes a front for each recurring failure signal *)
(*                      and injects it when an operator accepts            *)
(*                                                                         *)
(* Ticks, the daemon and `oxi v3 observe` run these on one database.  Each *)
(* runner works on one pass at a time; a step of a pass is one transaction *)
(* or one SELECT, and a runner can be killed between two of them.          *)
(***************************************************************************)
EXTENDS Naturals, FiniteSets, Sequences, SequencesExt

CONSTANTS
  NULL,         \* "None": no pass
  Runners,      \* processes that run passes
  Numbers,      \* the N of the roadmap identifiers T1-N
  Kinds,        \* the signal kinds in use, a subset of SignalKinds
  Flaky,        \* tasks whose failures are counted, a subset of Numbers
  Threshold,    \* ObserveConfig.failure_threshold and drift_threshold
  Target,       \* seed's target_planned_count
  BatchSize,    \* seed's batch_size
  MaxProposals, \* bound: proposals
  MaxCrashes    \* bound: killed runners

\* The order in which a scan goes through its signals.
SignalKinds == <<"dispatch_failure_cluster", "critic_rejection_cluster",
                 "worktree_drift_cluster">>

ASSUME IntakeConstants ==
  /\ IsFiniteSet(Runners) /\ Runners # {}
  /\ Numbers \subseteq Nat \ {0} /\ IsFiniteSet(Numbers)
  /\ Kinds \subseteq ToSet(SignalKinds)
  /\ Flaky \subseteq Numbers
  /\ Threshold \in Nat \ {0}
  /\ Target \in Nat /\ BatchSize \in Nat
  /\ MaxProposals \in Nat /\ MaxCrashes \in Nat

-----------------------------------------------------------------------------
(* Names *)

\* Failures and rejections are counted per task, drift over all tasks (0 is "*").
Signals == {<<k, n>> : k \in Kinds, n \in Flaky \cup {0}}
             \ ({<<"worktree_drift_cluster", n>> : n \in Flaky}
                  \cup {<<k, 0>> : k \in Kinds \ {"worktree_drift_cluster"}})

\* A front or task is named by its roadmap identifier or by the synthetic one
\* that accept derives from the signal, which is the same each time.
RoadmapIdents == {<<"T1", n>> : n \in Numbers}
Idents == RoadmapIdents \cup Signals
Tier(i) == IF i \in RoadmapIdents THEN 1 ELSE 99

VARIABLES
  roadmap,   \* the numbers in the roadmap file; {} while there is no file
  front,     \* per identifier: no row, a row never seeded, or seeded
  task,      \* per identifier: no row, planned, taken up by the engine, or planned again
  strikes,   \* per signal: its events in the window, counted up to Threshold
  proposals, \* the observe_proposal events, with whether they were accepted
  pass,      \* per runner: where it is and what it holds in memory
  crashes

vars == <<roadmap, front, task, strikes, proposals, pass, crashes>>
tables == <<front, task, proposals>>

\* The queue: rows that were never taken up, and rows that came back to it.
Unstarted == {i \in Idents : task[i] = "planned"}
Returned == {i \in Idents : task[i] = "again"}
Planned == Unstarted \cup Returned
Pending == {proposals[j].signal : j \in {j \in DOMAIN proposals : ~proposals[j].accepted}}

\* What a pass holds: the seed's slots or rows, the scan's pending keys, position
\* and rows, the proposal that is being accepted.
Passes ==
         [at : {"counted"}, slots : 1..BatchSize]
    \cup [at : {"seeding"}, rows : BoundedSeq(Idents, BatchSize)]
    \cup [at : {"scanning"}, seen : SUBSET Signals, left : 0..Len(SignalKinds),
          rows : SUBSET Signals]
    \cup [at : {"checked", "recorded"}, id : 1..MaxProposals]

ASSUME NoPass == NULL \notin Passes

TypeOK ==
  /\ roadmap \subseteq Numbers
  /\ front \in [Idents -> {"none", "never", "seeded"}]
  /\ task \in [Idents -> {"absent", "planned", "taken", "again"}]
  /\ strikes \in [Signals -> 0..Threshold]
  /\ proposals \in BoundedSeq([signal : Signals, accepted : BOOLEAN], MaxProposals)
  /\ \A p \in Runners :
       /\ pass[p] \in Passes \cup {NULL}
       /\ pass[p] # NULL /\ pass[p].at \in {"checked", "recorded"} =>
            pass[p].id \in DOMAIN proposals
       /\ pass[p] # NULL /\ pass[p].at = "seeding" =>
            \A j \in DOMAIN pass[p].rows : front[pass[p].rows[j]] # "none"
  /\ DOMAIN pass = Runners
  /\ crashes \in 0..MaxCrashes

Init ==
  /\ roadmap = {}
  /\ front = [i \in Idents |-> "none"]
  /\ task = [i \in Idents |-> "absent"]
  /\ strikes = [s \in Signals |-> 0]
  /\ proposals = <<>>
  /\ pass = [p \in Runners |-> NULL]
  /\ crashes = 0

At(p, place) == pass[p] # NULL /\ pass[p].at = place
Goto(p, m) == pass' = [pass EXCEPT ![p] = m] /\ UNCHANGED <<roadmap, strikes, crashes>>
EndPass(p) == Goto(p, NULL)

-----------------------------------------------------------------------------
(* spec_ingest: ingest_to_file, by an operator *)

\* parse_spec: a spec counts by its items, and one without any is refused.
ParseSpec == 1..Cardinality(Numbers)

\* `taken` are the numbers in use and each of n items gets the next free one:
\* the one way to do so, and none once the model runs out of numbers.
RenderRoadmap(taken, n) ==
  {S \in SUBSET (Numbers \ taken) :
    /\ Cardinality(S) = n
    /\ \A x \in S, y \in Numbers \ taken : y < x => y \in S}

\* The numbers of an existing file are passed over (force = True), and the file
\* is replaced by what was rendered: its items are not kept.
IngestSpec ==
  /\ \E n \in ParseSpec : roadmap' \in RenderRoadmap(roadmap, n)
  /\ UNCHANGED <<front, task, strikes, proposals, pass, crashes>>

-----------------------------------------------------------------------------
(* ingest_roadmap: ingest, in one transaction *)

\* A plausible slip: the table made equal to the file.
IngestAnew ==
  /\ roadmap # {}
  /\ front' = [i \in Idents |->
                 IF i \in RoadmapIdents /\ i[2] \in roadmap
                   THEN IF front[i] = "none" THEN "never" ELSE front[i]
                   ELSE "none"]
  /\ UNCHANGED <<roadmap, task, strikes, proposals, pass, crashes>>

\* A row that exists keeps its last_seeded_at, and one whose item has left the
\* roadmap stays.
Ingest ==
  /\ roadmap # {}
  /\ front' = [i \in Idents |->
                 IF i \in RoadmapIdents /\ i[2] \in roadmap /\ front[i] = "none"
                   THEN "never" ELSE front[i]]
  /\ UNCHANGED <<roadmap, task, strikes, proposals, pass, crashes>>

-----------------------------------------------------------------------------
(* seed_from_roadmap: seed *)

\* A plausible slip: the batch is not cut to what the queue has room for.
CountPlannedRoughly(p) ==
  /\ pass[p] = NULL
  /\ Cardinality(Planned) <= Target
  /\ BatchSize > 0
  /\ Goto(p, [at |-> "counted", slots |-> BatchSize])
  /\ UNCHANGED tables

CountPlanned(p) ==
  /\ pass[p] = NULL
  /\ Cardinality(Planned) < Target
  /\ LET room == Target - Cardinality(Planned)
         slots == IF BatchSize < room THEN BatchSize ELSE room
     IN  slots > 0 /\ Goto(p, [at |-> "counted", slots |-> slots])
  /\ UNCHANGED tables

\* A plausible slip: the task table is not asked.
AnyFront == {i \in Idents : front[i] # "none"}

\* A front is passed over while the task table has its identifier, in any status.
\* A seeded front without a task would have to have cooled down as well.
Eligible == {i \in Idents : front[i] # "none" /\ task[i] = "absent"}

\* The lower tier first, and in a tier the rows never seeded first.
Before(i, j) == \/ Tier(i) < Tier(j)
                \/ Tier(i) = Tier(j) /\ front[i] = "never" /\ front[j] = "seeded"

LoadFronts(p) ==
  /\ At(p, "counted")
  /\ \E cool \in SUBSET {i \in Eligible : front[i] = "seeded"} :
       LET open == {i \in Eligible : front[i] = "never"} \cup cool
       IN  \E rows \in BoundedSeq(open, pass[p].slots) :
             /\ IsInjective(rows)
             /\ Len(rows) = pass[p].slots \/ ToSet(rows) = open
             /\ \A j \in DOMAIN rows, i \in open :
                  Before(i, rows[j]) => \E h \in 1..(j - 1) : rows[h] = i
             /\ Goto(p, [at |-> "seeding", rows |-> rows])
  /\ UNCHANGED tables

\* A plausible slip: the stamp in a transaction of its own, before the row.
SeedOneStampFirst(p) ==
  /\ At(p, "seeding") /\ pass[p].rows # <<>>
  /\ LET i == Head(pass[p].rows) IN
       IF front[i] = "never"
         THEN front' = [front EXCEPT ![i] = "seeded"] /\ UNCHANGED <<task, pass>>
         ELSE /\ task' = [task EXCEPT ![i] = IF @ = "absent" THEN "planned" ELSE @]
              /\ pass' = [pass EXCEPT ![p].rows = Tail(@)]
              /\ UNCHANGED front
  /\ UNCHANGED <<roadmap, strikes, crashes, proposals>>

\* The task row and the front's stamp in one transaction.
SeedOne(p) ==
  /\ At(p, "seeding") /\ pass[p].rows # <<>>
  /\ LET i == Head(pass[p].rows) IN
       /\ task[i] = "absent"
       /\ task' = [task EXCEPT ![i] = "planned"]
       /\ front' = [front EXCEPT ![i] = "seeded"]
       /\ Goto(p, [pass[p] EXCEPT !.rows = Tail(@)])
  /\ UNCHANGED proposals

\* Another pass was faster: identifier is UNIQUE, the error ends the pass.
SeedCollides(p) ==
  /\ At(p, "seeding") /\ pass[p].rows # <<>>
  /\ task[Head(pass[p].rows)] # "absent"
  /\ EndPass(p)
  /\ UNCHANGED tables

SeedEnds(p) ==
  /\ At(p, "seeding") /\ pass[p].rows = <<>>
  /\ EndPass(p)
  /\ UNCHANGED tables

-----------------------------------------------------------------------------
(* auto_observe: scan *)

\* The keys of the proposals that nobody has accepted are read once.
BeginScan(p) ==
  /\ pass[p] = NULL
  /\ Goto(p, [at |-> "scanning", seen |-> Pending, left |-> Len(SignalKinds), rows |-> {}])
  /\ UNCHANGED tables

\* A plausible slip: the pending keys are not asked.
LoadAllSignals(p) ==
  /\ At(p, "scanning") /\ pass[p].rows = {} /\ pass[p].left > 0
  /\ LET kind == SignalKinds[Len(SignalKinds) + 1 - pass[p].left]
     IN  Goto(p, [pass[p] EXCEPT !.left = @ - 1,
                    !.rows = {s \in Signals : s[1] = kind /\ strikes[s] >= Threshold}])
  /\ UNCHANGED tables

\* The counts of the next kind; below the threshold or already pending: skipped.
LoadSignals(p) ==
  /\ At(p, "scanning") /\ pass[p].rows = {} /\ pass[p].left > 0
  /\ LET kind == SignalKinds[Len(SignalKinds) + 1 - pass[p].left]
         loud == {s \in Signals : s[1] = kind /\ strikes[s] >= Threshold}
     IN  Goto(p, [pass[p] EXCEPT !.left = @ - 1, !.rows = loud \ pass[p].seen])
  /\ UNCHANGED tables

\* One proposal, one transaction.
EmitProposal(p) ==
  /\ At(p, "scanning")
  /\ Len(proposals) < MaxProposals
  /\ \E s \in pass[p].rows :
       /\ proposals' = Append(proposals, [signal |-> s, accepted |-> FALSE])
       /\ Goto(p, [pass[p] EXCEPT !.rows = @ \ {s}, !.seen = @ \cup {s}])
  /\ UNCHANGED <<front, task>>

\* All kinds are done; MaxProposals ends a scan early.
ScanEnds(p) ==
  /\ At(p, "scanning")
  /\ \/ pass[p].rows = {} /\ pass[p].left = 0
     \/ Len(proposals) = MaxProposals
  /\ EndPass(p)
  /\ UNCHANGED tables

-----------------------------------------------------------------------------
(* auto_observe: accept, by an operator *)

\* What the operator is shown: the proposals without an observe_accepted event.
ListProposals == {id \in DOMAIN proposals : ~proposals[id].accepted}

\* The proposal exists and is not accepted yet.
CheckProposal(p) ==
  /\ pass[p] = NULL
  /\ \E id \in ListProposals : Goto(p, [at |-> "checked", id |-> id])
  /\ UNCHANGED tables

RecordAcceptance(p) ==
  /\ At(p, "checked")
  /\ proposals' = [proposals EXCEPT ![pass[p].id].accepted = TRUE]
  /\ Goto(p, [pass[p] EXCEPT !.at = "recorded"])
  /\ UNCHANGED <<front, task>>

\* INSERT OR IGNORE, in a transaction of its own.
InjectFront(p) ==
  /\ At(p, "recorded")
  /\ front' = [front EXCEPT ![proposals[pass[p].id].signal] = IF @ = "none" THEN "never" ELSE @]
  /\ EndPass(p)
  /\ UNCHANGED <<task, proposals>>

-----------------------------------------------------------------------------
(* The rest of the engine, time, and crashes *)

\* The engine takes a planned task up; its row stays in the table for good.  Any may
\* be the next: of several engines, each takes what it found first.
TakeUp(i) ==
  /\ i \in Planned
  /\ task' = [task EXCEPT ![i] = "taken"]
  /\ UNCHANGED <<roadmap, front, strikes, proposals, pass, crashes>>

\* A retryable outcome, a reset by auto_recover, an escalation.
PlanAgain(i) ==
  /\ task[i] = "taken"
  /\ task' = [task EXCEPT ![i] = "again"]
  /\ UNCHANGED <<roadmap, front, strikes, proposals, pass, crashes>>

\* A session fails, a critic rejects, heartbeat reaps.
Strike(s) ==
  /\ strikes[s] < Threshold
  /\ s[2] # 0 => task[<<"T1", s[2]>>] = "taken"
  /\ strikes' = [strikes EXCEPT ![s] = @ + 1]
  /\ UNCHANGED <<roadmap, front, task, proposals, pass, crashes>>

\* The oldest event leaves the window.
Forget(s) ==
  /\ strikes[s] > 0
  /\ strikes' = [strikes EXCEPT ![s] = @ - 1]
  /\ UNCHANGED <<roadmap, front, task, proposals, pass, crashes>>

\* A runner is killed, or its engine is stopping and the pass breaks off.
Crash(p) ==
  /\ pass[p] # NULL
  /\ crashes < MaxCrashes
  /\ crashes' = crashes + 1
  /\ pass' = [pass EXCEPT ![p] = NULL]
  /\ UNCHANGED <<roadmap, strikes, tables>>

SeedStep(p) == LoadFronts(p) \/ SeedOne(p) \/ SeedCollides(p) \/ SeedEnds(p)
ScanStep(p) == LoadSignals(p) \/ EmitProposal(p) \/ ScanEnds(p)
AcceptStep(p) == RecordAcceptance(p) \/ InjectFront(p)
BeginPass(p) == CountPlanned(p) \/ BeginScan(p) \/ CheckProposal(p)

Next ==
  \/ IngestSpec \/ Ingest
  \/ \E p \in Runners : BeginPass(p) \/ SeedStep(p) \/ ScanStep(p) \/ AcceptStep(p) \/ Crash(p)
  \/ \E i \in Idents : TakeUp(i) \/ PlanAgain(i)
  \/ \E s \in Signals : Strike(s) \/ Forget(s)

Spec == Init /\ [][Next]_vars
===============================================================================
