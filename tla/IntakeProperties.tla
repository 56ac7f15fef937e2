--------------------------- MODULE IntakeProperties ---------------------------
(***************************************************************************)
(* What module Intake promises about work on its way into the queue.       *)
(***************************************************************************)
EXTENDS Intake

-----------------------------------------------------------------------------

\* seed_from_roadmap.py counts the queue in one statement and inserts in others, and
\* rows come back to the queue behind its back: it exceeds its target by the rows that
\* came back and by one batch for each further runner, and no more.
QueueOvershootBounded ==
  Cardinality(Planned)
    <= Target + (Cardinality(Runners) - 1) * BatchSize + Cardinality(Returned)

\* A front is stamped as seeded only together with its task row, so no kill
\* between the two makes seed_from_roadmap.py pass over a front for ever.
SeededMeansTask == \A i \in Idents : front[i] = "seeded" => task[i] # "absent"

\* auto_observe.py reads the pending keys once a scan: as many scans as run at the
\* same time can propose the same signal, and no more are ever pending.
PendingProposalsBounded ==
  \A s \in Signals :
    Cardinality({j \in DOMAIN proposals : proposals[j] = [signal |-> s, accepted |-> FALSE]})
      <= Cardinality(Runners)

\* auto_observe.py records the acceptance before it injects the front, and accepts
\* nothing twice: each kill in between loses the front of one accepted proposal,
\* and nothing else does.
AcceptedProposalIsInjected ==
  Cardinality({j \in DOMAIN proposals :
                 /\ proposals[j].accepted
                 /\ front[proposals[j].signal] = "none"
                 /\ \A p \in Runners : ~(At(p, "recorded") /\ pass[p].id = j)}) <= crashes

-----------------------------------------------------------------------------
(* Liveness: a runner that is not killed goes on with its pass.  That it    *)
(* begins passes, and that the engine takes tasks up, is not assumed.       *)

Fairness ==
  \A p \in Runners : WF_vars(SeedStep(p)) /\ WF_vars(ScanStep(p)) /\ WF_vars(AcceptStep(p))

FairSpec == Spec /\ Fairness

\* A front is passed over neither for those of a lower tier nor by passes that fail
\* on a row another one has inserted: if passes find room in the queue again and
\* again, then again and again every front has a task (seed_from_roadmap.py).  That
\* there is room is dispatch's part, and a task that it cannot start blocks it.
FrontsReachTheQueue ==
  []<><<\E p \in Runners : CountPlanned(p)>>_vars
    => []<>(\A i \in Idents : front[i] # "none" => task[i] # "absent")

===============================================================================
