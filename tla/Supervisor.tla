------------------------------ MODULE Supervisor ------------------------------
(***************************************************************************)
(* The daemon `oxi v3 saturate`: its PID file, its stop conditions, and    *)
(* the coroutines that its parallel dispatch loop starts                   *)
(* (saturate.py, kill.py, engine_state.py, engine_health.py, budget.py,    *)
(* dispatch.py).  What happens to the tasks is module Engine; here a       *)
(* session is only counted, and whether a task is planned is a free        *)
(* choice.                                                                 *)
(*                                                                         *)
(* A daemon is one asyncio event loop: between two awaits nothing else of  *)
(* it runs.  SIGTERM, the kill file, the clock and the other processes     *)
(* come at any time.                                                       *)
(***************************************************************************)
EXTENDS Naturals, FiniteSets

CONSTANTS
  Daemons,      \* processes started as `oxi v3 saturate`
  Concurrency,  \* --concurrency
  Threshold,    \* EngineHealth.consecutive_failure_threshold
  HardCap,      \* the adapter's daily_hard_cap
  DayCap,       \* --max-cost-per-day, or NoCap
  PerTask,      \* the most that one session spends (--max-budget-usd)
  NoCap,
  Nobody,       \* no live process: no PID file, or one that names a dead process
  MaxCarried,   \* bound: cost of earlier days that stamps count as today's
  MaxFaults     \* bound: failed provisions, lost outcomes, errors and crashes

ASSUME SupervisorConstants ==
  /\ IsFiniteSet(Daemons)
  /\ Nobody \notin Daemons
  /\ Concurrency \in Nat \ {0}
  /\ Threshold \in Nat \ {0}
  /\ HardCap \in Nat
  /\ DayCap \in Nat \cup {NoCap}
  /\ NoCap \notin Nat
  /\ PerTask \in Nat
  /\ MaxCarried \in Nat
  /\ MaxFaults \in Nat

VARIABLES
  main,     \* where each daemon's main loop stands
  mem,      \* EngineState and EngineHealth, in memory
  loop,     \* the coroutines of the dispatch_loop that is running
  loose,    \* sessions of loops that ended in an error; nobody awaits them
  killfile, \* the killswitch file exists
  pidfile,  \* the live process that the PID file names
  raced,    \* two daemons have been between the PID check and the PID file
  spend,    \* cost recorded today
  carried,  \* cost recorded on earlier days, of rows that were touched today
  faults    \* faults so far

vars == <<main, mem, loop, loose, killfile, pidfile, raced, spend, carried, faults>>
money == <<spend, carried>>
files == <<killfile, pidfile, raced>>

-----------------------------------------------------------------------------

\* "idle" is the top of the main loop and the sleep before it, "loop" an await
\* of dispatch_loop; "off" is a crash, "stopped" a return from run().
Places == {"off", "checked", "idle", "loop", "stopped"}

\* The last two are history: sessions that started after SIGTERM, and while the
\* kill file was there.
Memories == [stopping : BOOLEAN, unhealthy : BOOLEAN, failures : Nat,
             afterStop : Nat, afterKill : Nat]
NewMemory == [stopping |-> FALSE, unhealthy |-> FALSE, failures |-> 0,
              afterStop |-> 0, afterKill |-> 0]

\* Coroutines of one dispatch_loop: created; past the gates of dispatch_one;
\* with a session; and whether one has ended in an exception.
Loops == [ready : 0..Concurrency, gated : BOOLEAN, running : 0..Concurrency,
          broken : BOOLEAN]
NoLoop == [ready |-> 0, gated |-> FALSE, running |-> 0, broken |-> FALSE]

TypeOK ==
  /\ main \in [Daemons -> Places]
  /\ mem \in [Daemons -> Memories]
  /\ loop \in [Daemons -> Loops]
  /\ loose \in [Daemons -> Nat]
  /\ killfile \in BOOLEAN
  /\ pidfile \in Daemons \cup {Nobody}
  /\ raced \in BOOLEAN
  /\ spend \in Nat
  /\ carried \in 0..MaxCarried
  /\ faults \in 0..MaxFaults

Init ==
  /\ main = [d \in Daemons |-> "off"]
  /\ mem = [d \in Daemons |-> NewMemory]
  /\ loop = [d \in Daemons |-> NoLoop]
  /\ loose = [d \in Daemons |-> 0]
  /\ killfile = FALSE
  /\ pidfile = Nobody
  /\ raced = FALSE
  /\ spend = 0
  /\ carried = 0
  /\ faults = 0

Running(d) == main[d] \in {"idle", "loop"}

Fault == faults < MaxFaults /\ faults' = faults + 1

-----------------------------------------------------------------------------
(* budget.py *)

\* Sum of cost_usd over the rows whose updated_at is today.  It never falls
\* within a day, so the sticky budget_hard_stop event adds nothing to it.
TodaySpend == spend + carried

IsHardStopped == TodaySpend >= HardCap

\* Mutant: a day that has reached its cap may go on.
DaySpendIsOverCap == DayCap # NoCap /\ TodaySpend > DayCap

DaySpendExceedsCap == DayCap # NoCap /\ TodaySpend >= DayCap

\* An UPDATE stamps updated_at: what its row cost on earlier days counts today.
Stamp == carried' \in carried..MaxCarried

-----------------------------------------------------------------------------
(* cli.cmd_saturate and saturate.run *)

\* Refuses to start if the PID file names a live process.
CheckPid(d) ==
  /\ main[d] \in {"off", "stopped"}
  /\ pidfile = Nobody
  /\ main' = [main EXCEPT ![d] = "checked"]
  /\ raced' = (raced \/ \E e \in Daemons \ {d} : main[e] = "checked")
  /\ UNCHANGED <<mem, loop, loose, killfile, pidfile, money, faults>>

WritePid(d) ==
  /\ main[d] = "checked"
  /\ main' = [main EXCEPT ![d] = "idle"]
  /\ pidfile' = d
  /\ UNCHANGED <<mem, loop, loose, killfile, raced, money, faults>>

\* Mutant: the kill file is not looked at.
MayContinueWhenKilled(d) ==
  /\ ~mem[d].stopping
  /\ ~DaySpendExceedsCap
  /\ ~IsHardStopped
  /\ ~mem[d].unhealthy

\* Mutant: the health is not looked at.
MayContinueWhenSick(d) ==
  /\ ~mem[d].stopping
  /\ ~killfile
  /\ ~DaySpendExceedsCap
  /\ ~IsHardStopped

\* The stop conditions at the top of the main loop.
MayContinue(d) ==
  /\ ~mem[d].stopping
  /\ ~killfile
  /\ ~DaySpendExceedsCap
  /\ ~IsHardStopped
  /\ ~mem[d].unhealthy

\* One iteration up to the await of dispatch_loop, which creates a coroutine
\* per slot.  saturate allows as many iterations as slots: none is refilled.
Iterate(d) ==
  /\ main[d] = "idle"
  /\ MayContinue(d)
  /\ main' = [main EXCEPT ![d] = "loop"]
  /\ loop' = [loop EXCEPT ![d].ready = Concurrency]
  /\ UNCHANGED <<mem, loose, files, money, faults>>

\* run() returns or raises: its finally clause removes the PID file, whoever
\* wrote it, and the end of the event loop cancels what nobody awaits.
Exit(d) ==
  /\ main[d] = "idle"
  /\ main' = [main EXCEPT ![d] = "stopped"]
  /\ pidfile' = Nobody
  /\ loose' = [loose EXCEPT ![d] = 0]
  /\ mem' = [mem EXCEPT ![d] = NewMemory]
  /\ UNCHANGED <<loop, killfile, raced, money>>

StopRun(d) == ~MayContinue(d) /\ Exit(d) /\ UNCHANGED faults

\* A database error outside the try blocks of the main loop.
FatalError(d) == Fault /\ Exit(d)

-----------------------------------------------------------------------------
(* dispatch_one, in a coroutine of the loop *)

LeaveReady(d) ==
  /\ main[d] = "loop"
  /\ loop[d].ready > 0
  /\ ~loop[d].gated

\* A gate is closed or no task is planned: the coroutine returns None.
Decline(d) ==
  /\ LeaveReady(d)
  /\ loop' = [loop EXCEPT ![d].ready = @ - 1]
  /\ UNCHANGED <<main, mem, loose, files, money, faults>>

Admit(d) ==
  /\ LeaveReady(d)
  /\ ~mem[d].stopping
  /\ ~mem[d].unhealthy
  /\ ~IsHardStopped
  /\ loop' = [loop EXCEPT ![d].ready = @ - 1, ![d].gated = TRUE]
  /\ UNCHANGED <<main, mem, loose, files, money, faults>>

\* WorktreeError, or the claim finds the database locked.
ProvisionFails(d) ==
  /\ loop[d].gated
  /\ Fault
  /\ loop' = [loop EXCEPT ![d].gated = FALSE, ![d].broken = TRUE]
  /\ UNCHANGED <<main, mem, loose, files, money>>

\* The claim, and `invoke` up to its first await.
StartSession(d) ==
  /\ loop[d].gated
  /\ loop' = [loop EXCEPT ![d].gated = FALSE, ![d].running = @ + 1]
  /\ mem' = [mem EXCEPT ![d].afterStop = IF mem[d].stopping THEN @ + 1 ELSE @,
                        ![d].afterKill = IF killfile THEN @ + 1 ELSE @]
  /\ Stamp
  /\ UNCHANGED <<main, loose, files, spend, faults>>

(* engine_health.py *)

RecordSuccess(m) == [m EXCEPT !.failures = 0]

\* Mutant: one failure more than the threshold.
RecordFailureLate(m) ==
  [m EXCEPT !.failures = @ + 1, !.unhealthy = @ \/ m.failures + 1 > Threshold]

RecordFailure(m) ==
  [m EXCEPT !.failures = @ + 1, !.unhealthy = @ \/ m.failures + 1 >= Threshold]

\* Mutant: the end of a session is counted although none runs.
TakeAnySession(d, raises) ==
  /\ ~loop[d].gated
  /\ main[d] = "loop"
  /\ loop' = [loop EXCEPT ![d].running = @ - 1, ![d].broken = @ \/ raises]
  /\ UNCHANGED loose

\* A session ends: in the loop, or one that nobody awaits any more.
TakeSession(d, raises) ==
  /\ ~loop[d].gated
  /\ \/ /\ main[d] = "loop"
        /\ loop[d].running > 0
        /\ loop' = [loop EXCEPT ![d].running = @ - 1, ![d].broken = @ \/ raises]
        /\ UNCHANGED loose
     \/ /\ Running(d)
        /\ loose[d] > 0
        /\ loose' = [loose EXCEPT ![d] = @ - 1]
        /\ UNCHANGED loop

\* Its cost is added to its row, then its outcome counts for the engine's health.
EndSession(d) ==
  /\ TakeSession(d, FALSE)
  /\ \E c \in 0..PerTask : spend' = spend + c
  /\ \E m \in {mem[d], RecordSuccess(mem[d]), RecordFailure(mem[d])} :
       mem' = [mem EXCEPT ![d] = m]
  /\ Stamp
  /\ UNCHANGED <<main, files, faults>>

\* The UPDATE of the outcome finds the database locked: its cost is lost, and
\* the loop will raise, if the session is one of the loop's.
LoseOutcome(d) ==
  /\ TakeSession(d, TRUE)
  /\ Fault
  /\ UNCHANGED <<main, mem, files, money>>

\* The outcome is recorded, but the INSERT of engine_unhealthy raises after the
\* counter has made the engine unhealthy.
LoseHealthEvent(d) ==
  /\ ~mem[d].unhealthy
  /\ RecordFailure(mem[d]).unhealthy
  /\ TakeSession(d, TRUE)
  /\ Fault
  /\ \E c \in 0..PerTask : spend' = spend + c
  /\ Stamp
  /\ mem' = [mem EXCEPT ![d] = RecordFailure(mem[d])]
  /\ UNCHANGED <<main, files>>

(* dispatch_loop *)

\* asyncio runs each new coroutine to its first await before it resumes the loop.
LoopAwakes(d) ==
  /\ main[d] = "loop"
  /\ loop[d].ready = 0
  /\ ~loop[d].gated

LoopReturns(d) ==
  /\ LoopAwakes(d)
  /\ loop[d] = NoLoop
  /\ main' = [main EXCEPT ![d] = "idle"]
  /\ UNCHANGED <<mem, loop, loose, files, money, faults>>

\* `await finished` raises; saturate logs it and goes on to its next iteration.
LoopRaises(d) ==
  /\ LoopAwakes(d)
  /\ loop[d].broken
  /\ main' = [main EXCEPT ![d] = "idle"]
  /\ loop' = [loop EXCEPT ![d] = NoLoop]
  /\ loose' = [loose EXCEPT ![d] = @ + loop[d].running]
  /\ UNCHANGED <<mem, files, money, faults>>

-----------------------------------------------------------------------------
(* Operators, other processes and the clock *)

Sigterm(d) ==
  /\ Running(d)
  /\ ~mem[d].stopping
  /\ mem' = [mem EXCEPT ![d].stopping = TRUE]
  /\ UNCHANGED <<main, loop, loose, files, money, faults>>

\* SIGKILL, or SIGTERM before its handler is installed.
Crash(d) ==
  /\ main[d] \in {"checked", "idle", "loop"}
  /\ Fault
  /\ main' = [main EXCEPT ![d] = "off"]
  /\ mem' = [mem EXCEPT ![d] = NewMemory]
  /\ loop' = [loop EXCEPT ![d] = NoLoop]
  /\ loose' = [loose EXCEPT ![d] = 0]
  /\ pidfile' = IF pidfile = d THEN Nobody ELSE pidfile
  /\ UNCHANGED <<killfile, raced, money>>

Kill ==
  /\ ~killfile
  /\ killfile' = TRUE
  /\ UNCHANGED <<main, mem, loop, loose, pidfile, raced, money, faults>>

Unkill ==
  /\ killfile
  /\ killfile' = FALSE
  /\ mem' = [d \in Daemons |-> [mem[d] EXCEPT !.afterKill = 0]]
  /\ UNCHANGED <<main, loop, loose, pidfile, raced, money, faults>>

\* The passes of other processes stamp rows too.
Touch ==
  /\ Stamp
  /\ UNCHANGED <<main, mem, loop, loose, files, spend, faults>>

Midnight ==
  /\ TodaySpend > 0
  /\ spend' = 0
  /\ carried' = 0
  /\ UNCHANGED <<main, mem, loop, loose, files, faults>>

-----------------------------------------------------------------------------

DaemonStep(d) ==
  \/ CheckPid(d) \/ WritePid(d)
  \/ Iterate(d) \/ StopRun(d) \/ FatalError(d)
  \/ Decline(d) \/ Admit(d) \/ ProvisionFails(d) \/ StartSession(d)
  \/ EndSession(d) \/ LoseOutcome(d) \/ LoseHealthEvent(d)
  \/ LoopReturns(d) \/ LoopRaises(d)

Environment ==
  \/ \E d \in Daemons : Sigterm(d) \/ Crash(d)
  \/ Kill \/ Unkill \/ Touch \/ Midnight

Next == (\E d \in Daemons : DaemonStep(d)) \/ Environment

Spec == Init /\ [][Next]_vars

=============================================================================
