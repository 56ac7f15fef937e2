---------------------------- MODULE TaskLifecycle ----------------------------
(***************************************************************************)
(* What oxi promises about a task when one engine process drives it: the   *)
(* life of a row of the `task` table, without passes, snapshots, sessions  *)
(* or pull request numbers.  Module Engine implements it                   *)
(* (EngineProperties!LifecycleSpec).                                       *)
(***************************************************************************)
EXTENDS Naturals

CONSTANTS Tasks, MaxRetries

VARIABLES
  status,   \* where each task stands
  retries,  \* how often it was given back to the queue after a failure
  landed    \* the tasks of which a PR has been merged

vars == <<status, retries, landed>>

Init ==
  /\ status = [t \in Tasks |-> "absent"]
  /\ retries = [t \in Tasks |-> 0]
  /\ landed = {}

Move(t, from, to) ==
  /\ status[t] \in from
  /\ status' = [status EXCEPT ![t] = to]

Seed(t) == Move(t, {"absent"}, "planned") /\ UNCHANGED <<retries, landed>>

Claim(t) == Move(t, {"planned"}, "dispatched") /\ UNCHANGED <<retries, landed>>

\* A transient failure: the task goes back to the queue, at no charge.
GiveBack(t) == Move(t, {"dispatched"}, "planned") /\ UNCHANGED <<retries, landed>>

GiveUp(t) ==
  /\ \E s \in {"failed", "abandoned"} : Move(t, {"dispatched"}, s)
  /\ UNCHANGED <<retries, landed>>

\* A PR with the task's slug is merged on GitHub, at any time.
Land(t) ==
  /\ landed' = landed \cup {t}
  /\ UNCHANGED <<status, retries>>

\* Only what has landed is recorded as merged.
Confirm(t) ==
  /\ t \in landed
  /\ Move(t, {"dispatched"}, "merged")
  /\ UNCHANGED <<retries, landed>>

Retry(t) ==
  /\ retries[t] < MaxRetries
  /\ Move(t, {"failed", "abandoned"}, "planned")
  /\ retries' = [retries EXCEPT ![t] = @ + 1]
  /\ UNCHANGED landed

Next ==
  \E t \in Tasks :
    \/ Seed(t) \/ Claim(t) \/ GiveBack(t) \/ GiveUp(t)
    \/ Land(t) \/ Confirm(t) \/ Retry(t)

Spec == Init /\ [][Next]_vars

=============================================================================
