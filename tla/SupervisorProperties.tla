------------------------- MODULE SupervisorProperties -------------------------
(***************************************************************************)
(* What the daemons of module Supervisor promise to the operator who pays  *)
(* for their sessions and wants to stop them.                              *)
(***************************************************************************)
EXTENDS Supervisor

-----------------------------------------------------------------------------

\* The most sessions that all daemons have at once: a loop that raises leaves
\* up to Concurrency - 1 behind and the next iteration starts Concurrency more.
MaxSessions == Cardinality(Daemons) * Concurrency + (Concurrency - 1) * faults

\* A cap is checked before a session starts and its cost is known when it ends
\* (budget.py, saturate.py): the day's cost passes either cap by less than what
\* the sessions that run at once can spend, across midnight too.
CapsHold ==
  \A cap \in {HardCap, DayCap} \ {NoCap} :
    cap > 0 => spend < cap + PerTask * MaxSessions

\* The health gate (engine_health.py) stops a daemon whose sessions keep
\* failing: after Threshold failures in a row only those already running fail.
FailureStreakBounded ==
  \A d \in Daemons :
    mem[d].failures < Threshold + Concurrency + (Concurrency - 1) * faults

\* After SIGTERM at most the one session still starts that was past the gates
\* of dispatch_one; after `oxi v3 kill` at most those of the present iteration,
\* since only the main loop looks at the kill file (saturate.py).
LateSessionsBounded ==
  \A d \in Daemons : mem[d].afterStop <= 1 /\ mem[d].afterKill <= Concurrency

\* The PID file keeps a second daemon from running next to the first, except
\* when both were between the check (cli.py) and the write (saturate.py).
OneDaemonUnlessRaced ==
  ~raced => \A d, e \in Daemons : Running(d) /\ Running(e) => d = e

-----------------------------------------------------------------------------
(* Liveness: the event loop runs on, and sessions end (wall-clock timeout). *)

Fairness == \A d \in Daemons : WF_vars(Running(d) /\ DaemonStep(d))

FairSpec == Spec /\ Fairness

\* A daemon that is told to stop, or that is unhealthy, ends, unless the kill
\* file is taken away before the daemon has looked.
Ending(d) == mem[d].stopping \/ mem[d].unhealthy \/ killfile
StopsWhenTold ==
  \A d \in Daemons : (Running(d) /\ Ending(d)) ~> ~(Running(d) /\ Ending(d))

-----------------------------------------------------------------------------
(* What the sources say and the daemon does not do *)

\* saturate.py: "In-flight workers are never killed - saturate waits for them
\* before writing the PID-file tombstone and exiting."
InFlightWorkersAreAwaited ==
  [][\A d \in Daemons : main[d] = "idle" /\ main'[d] = "stopped" => loose[d] = 0]_vars

=============================================================================
