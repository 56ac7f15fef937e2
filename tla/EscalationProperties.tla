------------------------- MODULE EscalationProperties -------------------------
(***************************************************************************)
(* What module Escalation promises about the retries of a task.            *)
(***************************************************************************)
EXTENDS Escalation

-----------------------------------------------------------------------------

\* Each session beyond the first is paid for by an event that is limited in
\* number, or by a transient failure: retries, escalations and time-outs together
\* cannot keep a hopeless task running (deep_fix.py, auto_recover.py).
SessionsArePaidFor ==
  /\ started <= 1 + Count({"auto_recover_attempted", "deep_fix_escalated",
                           "dispatch_retryable", "rate_limited"})
  /\ Count({"auto_recover_attempted"}) <= MaxRetries
  /\ Escalations <= Recipes

\* A person is called once, and only when every recipe has been handed out
\* (deep_fix.py), however the escalations mix with auto_recover's resets.
HumanIsLastResort ==
  \A i \in DOMAIN log :
    log[i].kind = "deep_fix_exhausted" =>
      LET before == SubSeq(log, 1, i - 1)
          tried  == {j \in DOMAIN before : before[j].kind = "deep_fix_escalated"}
      IN  /\ Cardinality(tried) = Recipes
          /\ \A j \in DOMAIN before : before[j].kind # "deep_fix_exhausted"

\* A row that watches a PR which was closed before its session began got there by
\* an escalation: deep_fix.py keeps pr_number, auto_recover.py clears it.
DeadPRMeansEscalated ==
  (row.status = "dispatched" /\ row.pr_number \in dead) =>
    \E i \in DOMAIN log :
      /\ log[i].kind = "deep_fix_escalated"
      /\ \A j \in DOMAIN log : j > i => log[j].kind # "auto_recover_attempted"

\* What dispatch.py says of its prompt for a task that failed so often in a row, and
\* a test of a row that was planned again by hand.
DecomposeFirstKicksIn ==
  (running # NULL /\ FailuresInRow >= DecomposeAfter) => running.decompose

\* What the code does: by then deep_fix has escalated the task, whose recipe is used
\* in that prompt's place, now and in every later session.
DecomposeFirstIsNeverChosen == running # NULL => ~running.decompose

-----------------------------------------------------------------------------
(* Liveness: the engine's process runs its passes again and again, sessions *)
(* end, time passes.                                                        *)

Fairness ==
  /\ WF_vars(Dispatch) /\ WF_vars(FinishSession)
  /\ WF_vars(Escalate) /\ WF_vars(Exhausted)
  /\ WF_vars(CoolDown)

FairSpec == Spec /\ Fairness

\* A task that has failed often enough does not stay failed in silence: it is
\* planned again, or a person is called (deep_fix.py).
StuckTaskIsEscalated ==
  (row.status = "failed" /\ Count(FailureKinds) >= Threshold)
    ~> (row.status # "failed" \/ Count({"deep_fix_exhausted"}) > 0 \/ ~MayRunAgain)

=============================================================================
