--------------------------- MODULE SupervisorProofs ---------------------------
(***************************************************************************)
(* Theorems about module Supervisor, for any number of daemons, slots and  *)
(* faults.                                                                 *)
(***************************************************************************)
EXTENDS SupervisorProperties, FiniteSetTheorems, TLAPS

\* What the faults so far have cost: slots of loops that have raised.
Slack == (Concurrency - 1) * faults

\* Sessions of the running loop, the one that is about to start included.
Live(l) == l.running + (IF l.gated THEN 1 ELSE 0)

\* A loop has no more coroutines than slots, one less if one has raised, and
\* what raised loops have left behind was paid for with faults.
SlotsInv(d) ==
  /\ main[d] # "loop" => loop[d] = NoLoop
  /\ loop[d].ready + Live(loop[d]) <= Concurrency
  /\ loop[d].broken => loop[d].ready + Live(loop[d]) <= Concurrency - 1
  /\ loose[d] + (IF loop[d].broken THEN Concurrency - 1 ELSE 0) <= Slack

\* Once the threshold is reached nothing is admitted any more.
HealthInv(d) ==
  mem[d].failures >= Threshold =>
    /\ mem[d].unhealthy
    /\ mem[d].failures + Live(loop[d]) + loose[d] < Threshold + Concurrency + Slack

LateInv(d) ==
  /\ mem[d].stopping => mem[d].afterStop + (IF loop[d].gated THEN 1 ELSE 0) <= 1
  /\ ~mem[d].stopping => mem[d].afterStop = 0
  /\ mem[d].afterKill + loop[d].ready + (IF loop[d].gated THEN 1 ELSE 0) <= Concurrency
       \/ ~killfile
  /\ ~killfile => mem[d].afterKill = 0

DaemonInv(d) == SlotsInv(d) /\ HealthInv(d) /\ LateInv(d)

-----------------------------------------------------------------------------

\* Slack grows by Concurrency - 1 with each fault, so that what follows is linear.
LEMMA SlackSteps ==
  ASSUME TypeOK
  PROVE  /\ Slack \in Nat
         /\ faults' = faults => Slack' = Slack
         /\ faults' = faults + 1 => Slack' = Slack + (Concurrency - 1)
<1> DEFINE c == Concurrency - 1
<1>1. c \in Nat /\ faults \in Nat
  BY SupervisorConstants DEF TypeOK
<1>2. c * faults \in Nat /\ c * (faults + 1) = c * faults + c
  BY <1>1
<1>. QED
  BY <1>1, <1>2 DEF Slack

LEMMA InitOK == Init => TypeOK /\ \A d \in Daemons : DaemonInv(d)
<1> SUFFICES ASSUME Init
    PROVE  TypeOK /\ \A d \in Daemons : DaemonInv(d)
  OBVIOUS
<1>1. TypeOK
  <2>1. NewMemory \in Memories /\ NoLoop \in Loops /\ 0 \in 0..MaxFaults /\ 0 \in 0..MaxCarried
    BY SupervisorConstants DEF Memories, NewMemory, Loops, NoLoop
  <2>. QED
    BY <2>1 DEF Init, TypeOK, Places
<1>2. Slack \in Nat
  BY <1>1, SlackSteps
<1>. QED
  BY <1>1, <1>2, SupervisorConstants
  DEF Init, DaemonInv, SlotsInv, HealthInv, LateInv, Live, NoLoop, NewMemory

-----------------------------------------------------------------------------
(* Types *)

\* The slots of SlotsInv are what keeps a loop's counts within their bounds.
LEMMA DaemonType ==
  ASSUME TypeOK, NEW d \in Daemons, DaemonInv(d), DaemonStep(d)
  PROVE  TypeOK'
<1>0. /\ main \in [Daemons -> Places] /\ mem \in [Daemons -> Memories]
      /\ loop \in [Daemons -> Loops] /\ loose \in [Daemons -> Nat]
      /\ mem[d] \in Memories /\ loop[d] \in Loops
      /\ Concurrency \in Nat \ {0} /\ spend \in Nat /\ PerTask \in Nat
  BY SupervisorConstants DEF TypeOK
<1>f. Fault => faults' \in 0..MaxFaults
  BY SupervisorConstants DEF TypeOK, Fault
<1>s. Stamp => carried' \in 0..MaxCarried
  BY SupervisorConstants DEF TypeOK, Stamp
<1>1. CASE CheckPid(d) \/ WritePid(d)
  BY <1>1, <1>0 DEF CheckPid, WritePid, TypeOK, Places, money
<1>2. CASE Iterate(d)
  <2>1. [loop[d] EXCEPT !.ready = Concurrency] \in Loops
    BY <1>0 DEF Loops
  <2>. QED
    BY <1>2, <1>0, <2>1 DEF Iterate, TypeOK, Places, money, files
<1>3. CASE StopRun(d) \/ FatalError(d)
  <2>1. NewMemory \in Memories
    BY DEF NewMemory, Memories
  <2>. QED
    BY <1>3, <1>0, <1>f, <2>1 DEF StopRun, FatalError, Exit, TypeOK, Places, money
<1>4. CASE Decline(d) \/ Admit(d)
  <2>1. loop[d].ready > 0
    BY <1>4 DEF Decline, Admit, LeaveReady
  <2>2. loop[d].ready \in 0..Concurrency /\ loop[d].ready - 1 \in 0..Concurrency
    BY <1>0, <2>1 DEF Loops
  <2>3. [loop[d] EXCEPT !.ready = @ - 1, !.gated = TRUE] \in Loops
    BY <1>0, <2>2 DEF Loops
  <2>4. [loop[d] EXCEPT !.ready = @ - 1] \in Loops
    BY <1>0, <2>2 DEF Loops
  <2>5. CASE Admit(d)
    BY <2>5, <1>0, <2>3 DEF Admit, TypeOK, money, files
  <2>6. CASE Decline(d)
    BY <2>6, <1>0, <2>4 DEF Decline, TypeOK, money, files
  <2>. QED
    BY <1>4, <2>5, <2>6
<1>5. CASE ProvisionFails(d)
  <2>1. [loop[d] EXCEPT !.gated = FALSE, !.broken = TRUE] \in Loops
    BY <1>0 DEF Loops
  <2>. QED
    BY <1>5, <1>0, <1>f, <2>1 DEF ProvisionFails, TypeOK, money, files
<1>6. CASE StartSession(d)
  <2>1. loop[d].running + 1 <= Concurrency
    BY <1>6, <1>0 DEF StartSession, DaemonInv, SlotsInv, Live, Loops
  <2>2. [loop[d] EXCEPT !.gated = FALSE, !.running = @ + 1] \in Loops
    <3>1. loop[d].running + 1 \in 0..Concurrency
      BY <1>0, <2>1 DEF Loops
    <3>. QED
      BY <1>0, <3>1 DEF Loops
  <2>3. \A i, j \in Nat :
          [mem[d] EXCEPT !.afterStop = i, !.afterKill = j] \in Memories
    BY <1>0 DEF Memories
  <2>4. mem' \in [Daemons -> Memories]
    <3> DEFINE i == IF mem[d].stopping THEN mem[d].afterStop + 1 ELSE mem[d].afterStop
               j == IF killfile THEN mem[d].afterKill + 1 ELSE mem[d].afterKill
    <3>1. i \in Nat /\ j \in Nat
      BY <1>0 DEF Memories
    <3>2. mem' = [mem EXCEPT ![d] = [mem[d] EXCEPT !.afterStop = i, !.afterKill = j]]
      BY <1>6 DEF StartSession
    <3>. QED
      BY <1>0, <2>3, <3>1, <3>2
  <2>. QED
    BY <1>6, <1>0, <1>s, <2>2, <2>4 DEF StartSession, TypeOK, files
<1>7. CASE EndSession(d) \/ LoseOutcome(d) \/ LoseHealthEvent(d)
  <2>1. PICK raises \in BOOLEAN : TakeSession(d, raises)
    BY <1>7 DEF EndSession, LoseOutcome, LoseHealthEvent
  <2>2. loop' \in [Daemons -> Loops] /\ loose' \in [Daemons -> Nat]
    BY <1>0, <2>1 DEF TakeSession, Loops
  <2>3. spend' \in Nat /\ mem' \in [Daemons -> Memories]
    <3>1. RecordSuccess(mem[d]) \in Memories
      BY <1>0 DEF RecordSuccess, Memories
    <3>2. RecordFailure(mem[d]) \in Memories
      <4>1. mem[d].failures + 1 \in Nat /\ (mem[d].failures + 1 >= Threshold) \in BOOLEAN
        BY <1>0 DEF Memories
      <4>2. (mem[d].unhealthy \/ mem[d].failures + 1 >= Threshold) \in BOOLEAN
        OBVIOUS
      <4>. QED
        BY <1>0, <4>1, <4>2 DEF RecordFailure, Memories
    <3>3. CASE EndSession(d)
      <4>1. PICK m \in Memories : mem' = [mem EXCEPT ![d] = m]
        BY <1>0, <3>1, <3>2, <3>3 DEF EndSession
      <4>2. spend' \in Nat
        BY <1>0, <3>3 DEF EndSession
      <4>. QED
        BY <1>0, <4>1, <4>2
    <3>4. CASE LoseHealthEvent(d)
      BY <1>0, <3>2, <3>4 DEF LoseHealthEvent
    <3>. QED
      BY <1>7, <1>0, <3>3, <3>4 DEF LoseOutcome, money
  <2>4. carried' \in 0..MaxCarried
    BY <1>7, <1>s DEF EndSession, LoseOutcome, LoseHealthEvent, money, TypeOK
  <2>. QED
    BY <1>7, <1>f, <2>2, <2>3, <2>4 DEF EndSession, LoseOutcome, LoseHealthEvent, TypeOK, files
<1>8. CASE LoopReturns(d) \/ LoopRaises(d)
  <2>1. NoLoop \in Loops /\ loop[d].running \in Nat
    BY <1>0 DEF NoLoop, Loops
  <2>. QED
    BY <1>8, <1>0, <2>1 DEF LoopReturns, LoopRaises, TypeOK, Places, money, files
<1>. QED
  BY <1>1, <1>2, <1>3, <1>4, <1>5, <1>6, <1>7, <1>8 DEF DaemonStep

LEMMA EnvironmentType ==
  ASSUME TypeOK, Environment
  PROVE  TypeOK'
<1>0. /\ NewMemory \in Memories /\ NoLoop \in Loops
      /\ mem \in [Daemons -> Memories]
  BY SupervisorConstants DEF TypeOK, NewMemory, Memories, NoLoop, Loops
<1>1. ASSUME NEW d \in Daemons, Sigterm(d)
      PROVE  TypeOK'
  <2>1. [mem[d] EXCEPT !.stopping = TRUE] \in Memories
    BY <1>0 DEF Memories
  <2>. QED
    BY <1>1, <2>1 DEF Sigterm, TypeOK, files, money
<1>2. ASSUME NEW d \in Daemons, Crash(d)
      PROVE  TypeOK'
  BY <1>2, <1>0, SupervisorConstants DEF Crash, Fault, TypeOK, Places, money
<1>3. CASE Unkill
  <2>1. \A d \in Daemons : [mem[d] EXCEPT !.afterKill = 0] \in Memories
    BY <1>0 DEF Memories
  <2>. QED
    BY <1>3, <2>1 DEF Unkill, TypeOK, money
<1>4. CASE Kill
  BY <1>4 DEF Kill, TypeOK, money
<1>5. CASE Touch \/ Midnight
  <2>1. spend' \in Nat /\ carried' \in 0..MaxCarried
    BY <1>5, SupervisorConstants DEF Touch, Stamp, Midnight, TypeOK
  <2>. QED
    BY <1>5, <2>1 DEF Touch, Midnight, TypeOK, files
<1>. QED
  BY <1>1, <1>2, <1>3, <1>4, <1>5 DEF Environment

-----------------------------------------------------------------------------
(* The invariant of a daemon *)

\* What a daemon's invariant is made of, as facts about numbers.
LEMMA Numbers ==
  ASSUME TypeOK, NEW d \in Daemons
  PROVE  /\ Concurrency \in Nat \ {0} /\ Threshold \in Nat \ {0} /\ Slack \in Nat
         /\ main \in [Daemons -> Places] /\ mem \in [Daemons -> Memories]
         /\ loop \in [Daemons -> Loops] /\ loose \in [Daemons -> Nat]
         /\ loop[d].ready \in Nat /\ loop[d].running \in Nat /\ loose[d] \in Nat
         /\ mem[d].failures \in Nat /\ mem[d].afterStop \in Nat /\ mem[d].afterKill \in Nat
         /\ loop[d].gated \in BOOLEAN /\ loop[d].broken \in BOOLEAN
         /\ mem[d].stopping \in BOOLEAN /\ mem[d].unhealthy \in BOOLEAN
BY SlackSteps, SupervisorConstants DEF TypeOK, Loops, Memories

\* A daemon that does nothing is disturbed by nobody: faults only add slack.
LEMMA Undisturbed ==
  ASSUME TypeOK, NEW d \in Daemons, DaemonInv(d),
         main'[d] = main[d], mem'[d] = mem[d], loop'[d] = loop[d], loose'[d] = loose[d],
         killfile' = killfile, faults' \in {faults, faults + 1}
  PROVE  DaemonInv(d)'
<1>1. Slack' \in {Slack, Slack + (Concurrency - 1)}
  BY SlackSteps
<1>. QED
  BY <1>1, Numbers DEF DaemonInv, SlotsInv, HealthInv, LateInv, Live

LEMMA DaemonKeepsInv ==
  ASSUME TypeOK, NEW d \in Daemons, DaemonInv(d), DaemonStep(d)
  PROVE  DaemonInv(d)'
<1> USE DEF DaemonInv, SlotsInv, HealthInv, LateInv, Live
<1>0. /\ faults' = faults => Slack' = Slack
      /\ faults' = faults + 1 => Slack' = Slack + (Concurrency - 1)
  BY SlackSteps
<1>1. CASE CheckPid(d) \/ WritePid(d) \/ LoopReturns(d)
  <2>1. /\ loop' = loop /\ mem' = mem /\ loose' = loose /\ killfile' = killfile
        /\ faults' = faults /\ loop[d] = NoLoop
    BY <1>1, Numbers DEF CheckPid, WritePid, LoopReturns, files, money
  <2>. QED
    BY <2>1, <1>0, Numbers
<1>2. CASE Iterate(d)
  <2>1. /\ loop'[d] = [NoLoop EXCEPT !.ready = Concurrency] /\ mem' = mem
        /\ loose' = loose /\ killfile' = killfile /\ ~killfile
        /\ faults' = faults /\ main'[d] = "loop" /\ loop[d] = NoLoop
    BY <1>2, Numbers DEF Iterate, MayContinue, files, money
  <2>2. /\ loop'[d].ready = Concurrency /\ loop'[d].running = 0
        /\ ~loop'[d].gated /\ ~loop'[d].broken
    BY <2>1 DEF NoLoop
  <2>3. loop[d].running = 0 /\ ~loop[d].gated /\ ~loop[d].broken
    BY <2>1 DEF NoLoop
  <2>4. SlotsInv(d)'
    BY <2>1, <2>2, <2>3, <1>0, Numbers
  <2>5. HealthInv(d)'
    BY <2>1, <2>2, <2>3, <1>0, Numbers
  <2>6. LateInv(d)'
    BY <2>1, <2>2, <2>3, <1>0, Numbers
  <2> HIDE DEF SlotsInv, HealthInv, LateInv
  <2>. QED
    BY <2>4, <2>5, <2>6
<1>3. CASE StopRun(d) \/ FatalError(d)
  <2>1. /\ loop'[d] = NoLoop /\ mem'[d] = NewMemory /\ loose'[d] = 0
        /\ killfile' = killfile /\ faults' \in {faults, faults + 1}
    BY <1>3, Numbers DEF StopRun, FatalError, Exit, Fault
  <2>2. /\ loop'[d].ready = 0 /\ loop'[d].running = 0
        /\ ~loop'[d].gated /\ ~loop'[d].broken
        /\ mem'[d].failures = 0 /\ ~mem'[d].stopping
        /\ mem'[d].afterStop = 0 /\ mem'[d].afterKill = 0
    BY <2>1 DEF NoLoop, NewMemory
  <2>3. Slack' \in Nat
    <3>1. faults' = faults \/ faults' = faults + 1
      BY <2>1
    <3>. QED
      BY <3>1, <1>0, SlackSteps, SupervisorConstants
  <2>4. SlotsInv(d)'
    BY <2>1, <2>2, <2>3, Numbers
  <2>5. HealthInv(d)' /\ LateInv(d)'
    BY <2>2, Numbers
  <2> HIDE DEF SlotsInv, HealthInv, LateInv
  <2>. QED
    BY <2>4, <2>5
<1>4. CASE Decline(d)
  <2>1. /\ loop'[d] = [loop[d] EXCEPT !.ready = @ - 1] /\ loop[d].ready > 0
        /\ mem' = mem /\ loose' = loose /\ killfile' = killfile
        /\ faults' = faults /\ main' = main /\ main[d] = "loop"
    BY <1>4, Numbers DEF Decline, LeaveReady, files, money
  <2>. QED
    BY <2>1, <1>0, Numbers DEF Loops
<1>5. CASE Admit(d)
  <2>1. /\ loop'[d] = [loop[d] EXCEPT !.ready = @ - 1, !.gated = TRUE] /\ loop[d].ready > 0
        /\ ~loop[d].gated /\ ~mem[d].stopping /\ ~mem[d].unhealthy
        /\ mem' = mem /\ loose' = loose /\ killfile' = killfile
        /\ faults' = faults /\ main' = main /\ main[d] = "loop"
    BY <1>5, Numbers DEF Admit, LeaveReady, files, money
  <2>. QED
    BY <2>1, <1>0, Numbers DEF Loops
<1>6. CASE ProvisionFails(d)
  <2>1. /\ loop'[d] = [loop[d] EXCEPT !.gated = FALSE, !.broken = TRUE] /\ loop[d].gated
        /\ mem' = mem /\ loose' = loose /\ killfile' = killfile
        /\ faults' = faults + 1 /\ main' = main
    BY <1>6, Numbers DEF ProvisionFails, Fault, files, money
  <2>. QED
    BY <2>1, <1>0, Numbers DEF Loops, NoLoop
<1>7. CASE StartSession(d)
  <2>1. /\ loop'[d] = [loop[d] EXCEPT !.gated = FALSE, !.running = @ + 1] /\ loop[d].gated
        /\ loose' = loose /\ killfile' = killfile /\ faults' = faults /\ main' = main
    BY <1>7, Numbers DEF StartSession, files, money
  <2>2. /\ mem'[d].failures = mem[d].failures
        /\ mem'[d].unhealthy = mem[d].unhealthy
        /\ mem'[d].stopping = mem[d].stopping
        /\ mem'[d].afterStop = IF mem[d].stopping THEN mem[d].afterStop + 1 ELSE mem[d].afterStop
        /\ mem'[d].afterKill = IF killfile THEN mem[d].afterKill + 1 ELSE mem[d].afterKill
    BY <1>7, Numbers DEF StartSession, Memories
  <2>. QED
    BY <2>1, <2>2, <1>0, Numbers DEF Loops, NoLoop
<1>8. CASE EndSession(d) \/ LoseOutcome(d) \/ LoseHealthEvent(d)
  <2>1. PICK raises \in BOOLEAN :
          /\ TakeSession(d, raises)
          /\ raises => faults' = faults + 1
          /\ ~raises => faults' = faults
    BY <1>8 DEF EndSession, LoseOutcome, LoseHealthEvent, Fault
  <2>2. main' = main /\ killfile' = killfile
    BY <1>8 DEF EndSession, LoseOutcome, LoseHealthEvent, files
  <2>3. /\ mem'[d].stopping = mem[d].stopping
        /\ mem'[d].afterStop = mem[d].afterStop
        /\ mem'[d].afterKill = mem[d].afterKill
        /\ mem'[d].failures >= Threshold =>
             /\ mem'[d].unhealthy
             /\ \/ mem'[d].failures = mem[d].failures
                \/ mem'[d].failures = mem[d].failures + 1
    <3>1. mem'[d] \in {mem[d], RecordSuccess(mem[d]), RecordFailure(mem[d])}
      BY <1>8, Numbers DEF EndSession, LoseOutcome, LoseHealthEvent
    <3>2. mem[d] \in Memories
      BY Numbers
    <3>3. CASE mem'[d] = mem[d]
      BY <3>3, Numbers
    <3>4. CASE mem'[d] = RecordSuccess(mem[d])
      BY <3>2, <3>4, Numbers DEF RecordSuccess, Memories
    <3>5. CASE mem'[d] = RecordFailure(mem[d])
      BY <3>2, <3>5, Numbers DEF RecordFailure, Memories
    <3>. QED
      BY <3>1, <3>3, <3>4, <3>5
  <2>4. CASE main[d] = "loop" /\ loop[d].running > 0
             /\ loop'[d] = [loop[d] EXCEPT !.running = @ - 1, !.broken = @ \/ raises]
             /\ loose'[d] = loose[d]
    <3>1. /\ loop'[d].running = loop[d].running - 1
          /\ loop'[d].ready = loop[d].ready /\ loop'[d].gated = loop[d].gated
          /\ loop'[d].broken = (loop[d].broken \/ raises)
      BY <2>4, Numbers DEF Loops
    <3>2. SlotsInv(d)'
      BY <2>1, <2>2, <2>4, <3>1, <1>0, Numbers
    <3>3. HealthInv(d)' /\ LateInv(d)'
      BY <2>1, <2>2, <2>3, <2>4, <3>1, <1>0, Numbers
    <3>. QED
      BY <3>2, <3>3
  <2>5. CASE loose[d] > 0 /\ loop'[d] = loop[d] /\ loose'[d] = loose[d] - 1
    <3>1. SlotsInv(d)'
      BY <2>1, <2>2, <2>5, <1>0, Numbers
    <3>2. HealthInv(d)'
      <4>1. Live(loop[d]) \in Nat /\ Live(loop[d]) + loose[d] <= Concurrency + Slack
        BY Numbers
      <4>2. Slack' \in {Slack, Slack + (Concurrency - 1)} /\ Slack' >= Slack
        BY <2>1, <1>0, Numbers
      <4> HIDE DEF Live
      <4>3. Live(loop'[d]) = Live(loop[d])
        BY <2>5
      <4>. QED
        BY <2>3, <2>5, <4>1, <4>2, <4>3, Numbers
    <3>3. LateInv(d)'
      BY <2>1, <2>2, <2>3, <2>5, <1>0, Numbers
    <3>. QED
      BY <3>1, <3>2, <3>3
  <2>. QED
    BY <2>1, <2>4, <2>5, Numbers DEF TakeSession
<1>9. CASE LoopRaises(d)
  <2>1. /\ loop'[d] = NoLoop /\ loop[d].broken /\ loop[d].ready = 0 /\ ~loop[d].gated
        /\ loose'[d] = loose[d] + loop[d].running
        /\ mem' = mem /\ killfile' = killfile /\ faults' = faults
    BY <1>9, Numbers DEF LoopRaises, LoopAwakes, files, money
  <2>. QED
    BY <2>1, <1>0, Numbers DEF NoLoop
<1>. QED
  BY <1>1, <1>2, <1>3, <1>4, <1>5, <1>6, <1>7, <1>8, <1>9 DEF DaemonStep

\* A daemon's step is its own: of what the others have it changes nothing.
LEMMA OthersUndisturbed ==
  ASSUME TypeOK, NEW d \in Daemons, NEW e \in Daemons \ {d}, DaemonStep(d)
  PROVE  /\ main'[e] = main[e] /\ mem'[e] = mem[e]
         /\ loop'[e] = loop[e] /\ loose'[e] = loose[e]
         /\ killfile' = killfile /\ faults' \in {faults, faults + 1}
<1>0. /\ main \in [Daemons -> Places] /\ mem \in [Daemons -> Memories]
      /\ loop \in [Daemons -> Loops] /\ loose \in [Daemons -> Nat]
  BY DEF TypeOK
<1>1. CASE CheckPid(d) \/ WritePid(d) \/ Iterate(d)
  BY <1>0, <1>1 DEF CheckPid, WritePid, Iterate, files, money
<1>2. CASE StopRun(d) \/ FatalError(d)
  BY <1>0, <1>2 DEF StopRun, FatalError, Exit, Fault
<1>3. CASE Decline(d) \/ Admit(d) \/ ProvisionFails(d) \/ StartSession(d)
  BY <1>0, <1>3 DEF Decline, Admit, ProvisionFails, Fault, StartSession, files, money
<1>4. CASE EndSession(d) \/ LoseOutcome(d) \/ LoseHealthEvent(d)
  <2>1. loop'[e] = loop[e] /\ loose'[e] = loose[e]
    BY <1>0, <1>4 DEF EndSession, LoseOutcome, LoseHealthEvent, TakeSession
  <2>. QED
    BY <1>0, <1>4, <2>1 DEF EndSession, LoseOutcome, LoseHealthEvent, Fault, files
<1>5. CASE LoopReturns(d) \/ LoopRaises(d)
  BY <1>0, <1>5 DEF LoopReturns, LoopRaises, files, money
<1>. QED
  BY <1>1, <1>2, <1>3, <1>4, <1>5 DEF DaemonStep

LEMMA EnvironmentKeepsInv ==
  ASSUME TypeOK, NEW d \in Daemons, DaemonInv(d), Environment
  PROVE  DaemonInv(d)'
<1>0. /\ faults' = faults => Slack' = Slack
      /\ faults' = faults + 1 => Slack' = Slack + (Concurrency - 1)
  BY SlackSteps
<1>1. ASSUME NEW e \in Daemons, e # d, Sigterm(e) \/ Crash(e)
      PROVE  DaemonInv(d)'
  BY <1>1, Undisturbed, Numbers DEF Sigterm, Crash, Fault, files, money
<1>2. CASE Touch \/ Midnight
  BY <1>2, Undisturbed DEF Touch, Midnight, files
<1> USE DEF DaemonInv, SlotsInv, HealthInv, LateInv, Live
<1>3. CASE Sigterm(d)
  <2>1. /\ main' = main /\ loop' = loop /\ loose' = loose
        /\ killfile' = killfile /\ faults' = faults
        /\ mem'[d] = [mem[d] EXCEPT !.stopping = TRUE] /\ ~mem[d].stopping
    BY <1>3, Numbers DEF Sigterm, files, money
  <2>2. /\ mem'[d].stopping
        /\ mem'[d].unhealthy = mem[d].unhealthy /\ mem'[d].failures = mem[d].failures
        /\ mem'[d].afterStop = mem[d].afterStop /\ mem'[d].afterKill = mem[d].afterKill
    BY <2>1, Numbers DEF Memories
  <2>. QED
    BY <2>1, <2>2, <1>0, Numbers
<1>4. CASE Crash(d)
  <2>1. /\ loop'[d] = NoLoop /\ mem'[d] = NewMemory /\ loose'[d] = 0
        /\ killfile' = killfile /\ faults' = faults + 1
    BY <1>4, Numbers DEF Crash, Fault
  <2>2. /\ loop'[d].ready = 0 /\ loop'[d].running = 0
        /\ ~loop'[d].gated /\ ~loop'[d].broken
        /\ mem'[d].failures = 0 /\ ~mem'[d].stopping
        /\ mem'[d].afterStop = 0 /\ mem'[d].afterKill = 0
    BY <2>1 DEF NoLoop, NewMemory
  <2>3. Slack' \in Nat
    BY <2>1, <1>0, SlackSteps, SupervisorConstants
  <2>4. SlotsInv(d)'
    BY <2>1, <2>2, <2>3, Numbers
  <2>5. HealthInv(d)' /\ LateInv(d)'
    BY <2>2, Numbers
  <2> HIDE DEF SlotsInv, HealthInv, LateInv
  <2>. QED
    BY <2>4, <2>5
<1>5. CASE Kill
  BY <1>5, <1>0, Numbers DEF Kill, money
<1>6. CASE Unkill
  <2>1. /\ main' = main /\ loop' = loop /\ loose' = loose
        /\ ~killfile' /\ faults' = faults
        /\ mem'[d] = [mem[d] EXCEPT !.afterKill = 0]
    BY <1>6, Numbers DEF Unkill, money
  <2>2. /\ mem'[d].stopping = mem[d].stopping
        /\ mem'[d].unhealthy = mem[d].unhealthy /\ mem'[d].failures = mem[d].failures
        /\ mem'[d].afterStop = mem[d].afterStop /\ mem'[d].afterKill = 0
    BY <2>1, Numbers DEF Memories
  <2>. QED
    BY <2>1, <2>2, <1>0, Numbers
<1>. QED
  BY <1>1, <1>2, <1>3, <1>4, <1>5, <1>6 DEF Environment

Inv == TypeOK /\ \A d \in Daemons : DaemonInv(d)

LEMMA InvStep ==
  ASSUME Inv, [Next]_vars
  PROVE  Inv'
<1>1. ASSUME NEW d \in Daemons, DaemonStep(d)
      PROVE  Inv'
  <2>1. TypeOK'
    BY <1>1, DaemonType DEF Inv
  <2>2. DaemonInv(d)'
    BY <1>1, DaemonKeepsInv DEF Inv
  <2>3. ASSUME NEW e \in Daemons \ {d}
        PROVE  DaemonInv(e)'
    <3>1. /\ main'[e] = main[e] /\ mem'[e] = mem[e]
          /\ loop'[e] = loop[e] /\ loose'[e] = loose[e]
          /\ killfile' = killfile /\ faults' \in {faults, faults + 1}
      BY <1>1, <2>3, OthersUndisturbed DEF Inv
    <3>. QED
      BY <3>1, Undisturbed DEF Inv
  <2>. QED
    BY <2>1, <2>2, <2>3 DEF Inv
<1>2. CASE Environment
  BY <1>2, EnvironmentType, EnvironmentKeepsInv DEF Inv
<1>3. CASE UNCHANGED vars
  <2>1. TypeOK'
    BY <1>3 DEF Inv, TypeOK, vars
  <2>2. ASSUME NEW d \in Daemons
        PROVE  DaemonInv(d)'
    BY <1>3, Undisturbed DEF Inv, vars
  <2>. QED
    BY <2>1, <2>2 DEF Inv
<1>. QED
  BY <1>1, <1>2, <1>3 DEF Next

LEMMA InvHolds == Spec => []Inv
<1>1. Init => Inv
  BY InitOK DEF Inv
<1>2. Inv /\ [Next]_vars => Inv'
  BY InvStep
<1>. QED
  BY <1>1, <1>2, PTL DEF Spec

-----------------------------------------------------------------------------

\* Every count of a daemon stays within its bounds: dispatch.py never starts
\* more sessions in one loop than --concurrency allows.
THEOREM SupervisorTypeCorrect == Spec => []TypeOK
<1>1. Inv => TypeOK
  BY DEF Inv
<1>. QED
  BY <1>1, InvHolds, PTL

\* The health gate (engine_health.py): however the sessions of however many
\* daemons interleave, a streak of failures ends with those already running.
THEOREM FailureStreaksEnd == Spec => []FailureStreakBounded
<1>1. Inv => FailureStreakBounded
  <2> SUFFICES ASSUME Inv, NEW d \in Daemons
      PROVE  mem[d].failures < Threshold + Concurrency + Slack
    BY DEF FailureStreakBounded, Slack
  <2>1. TypeOK /\ HealthInv(d)
    BY DEF Inv, DaemonInv
  <2>. QED
    BY <2>1, Numbers DEF HealthInv, Live
<1>. QED
  BY <1>1, InvHolds, PTL

\* SIGTERM and the kill file (saturate.py, kill.py): one late session after the
\* first, at most an iteration's after the second.
THEOREM LateSessionsEnd == Spec => []LateSessionsBounded
<1>1. Inv => LateSessionsBounded
  <2> SUFFICES ASSUME Inv, NEW d \in Daemons
      PROVE  mem[d].afterStop <= 1 /\ mem[d].afterKill <= Concurrency
    BY DEF LateSessionsBounded
  <2>1. TypeOK /\ LateInv(d)
    BY DEF Inv, DaemonInv
  <2>. QED
    BY <2>1, Numbers DEF LateInv
<1>. QED
  BY <1>1, InvHolds, PTL

-----------------------------------------------------------------------------
(* The PID file *)

Alive(d) == main[d] \in {"checked", "idle", "loop"}

\* Without a race only one daemon is past the check, and the file is its own.
PidInv ==
  ~raced =>
    /\ \A d \in Daemons : Running(d) => pidfile = d
    /\ \A d, e \in Daemons : Alive(d) /\ Alive(e) => d = e

LEMMA PidStep ==
  ASSUME TypeOK, PidInv, [Next]_vars
  PROVE  PidInv'
<1> USE DEF PidInv, Alive, Running
<1>0. main \in [Daemons -> Places] /\ Nobody \notin Daemons
  BY SupervisorConstants DEF TypeOK
<1>1. ASSUME NEW d \in Daemons, CheckPid(d)
      PROVE  PidInv'
  BY <1>0, <1>1 DEF CheckPid
<1>2. ASSUME NEW d \in Daemons, WritePid(d)
      PROVE  PidInv'
  BY <1>0, <1>2 DEF WritePid, money
<1>3. ASSUME NEW d \in Daemons, Exit(d)
      PROVE  PidInv'
  BY <1>0, <1>3 DEF Exit
<1>4. ASSUME NEW d \in Daemons, Crash(d)
      PROVE  PidInv'
  BY <1>0, <1>4 DEF Crash
<1>5. ASSUME NEW d \in Daemons, Iterate(d) \/ LoopReturns(d) \/ LoopRaises(d)
      PROVE  PidInv'
  <2>1. /\ Running(d) /\ raced' = raced /\ pidfile' = pidfile
        /\ main' = [main EXCEPT ![d] = "idle"] \/ main' = [main EXCEPT ![d] = "loop"]
    BY <1>5 DEF Iterate, LoopReturns, LoopRaises, LoopAwakes, files
  <2>. QED
    BY <1>0, <2>1
<1>6. ASSUME UNCHANGED <<main, pidfile, raced>>
      PROVE  PidInv'
  BY <1>6
<1>7. ASSUME NEW d \in Daemons,
             Decline(d) \/ Admit(d) \/ ProvisionFails(d) \/ StartSession(d)
               \/ EndSession(d) \/ LoseOutcome(d) \/ LoseHealthEvent(d) \/ Sigterm(d)
      PROVE  UNCHANGED <<main, pidfile, raced>>
  BY <1>7 DEF Decline, Admit, ProvisionFails, StartSession, EndSession, LoseOutcome,
              LoseHealthEvent, Sigterm, files
<1>8. ASSUME Kill \/ Unkill \/ Touch \/ Midnight \/ UNCHANGED vars
      PROVE  UNCHANGED <<main, pidfile, raced>>
  BY <1>8 DEF Kill, Unkill, Touch, Midnight, vars, files
<1> HIDE DEF PidInv, Alive, Running
<1>. QED
  BY <1>1, <1>2, <1>3, <1>4, <1>5, <1>6, <1>7, <1>8
  DEF Next, Environment, DaemonStep, StopRun, FatalError

\* The PID file (cli.py, saturate.py): two daemons run at once only if both
\* were started between the check and the write, a window of the start alone.
THEOREM OneDaemon == Spec => []OneDaemonUnlessRaced
<1>1. Init => PidInv
  BY DEF Init, PidInv, Running, Alive
<1>2. TypeOK /\ TypeOK' /\ PidInv /\ [Next]_vars => PidInv'
  BY PidStep
<1>3. PidInv => OneDaemonUnlessRaced
  BY DEF PidInv, OneDaemonUnlessRaced, Alive, Running
<1>. QED
  BY <1>1, <1>2, <1>3, SupervisorTypeCorrect, PTL DEF Spec

-----------------------------------------------------------------------------
(* The caps *)

\* The sum of f over the daemons, as the number of tokens that they hold.
Tokens(f) == {t \in Daemons \X (Nat \ {0}) : t[2] <= f[t[1]]}
Total(f) == Cardinality(Tokens(f))

\* Tokens that are not d's.
Elsewhere(f, d) == {t \in Tokens(f) : t[1] # d}

LEMMA TokensFinite ==
  ASSUME NEW n \in Nat, NEW f \in [Daemons -> 0..n]
  PROVE  /\ IsFiniteSet(Tokens(f)) /\ Total(f) \in Nat
         /\ Total(f) <= Cardinality(Daemons) * n
<1>1. IsFiniteSet(1..n) /\ Cardinality(1..n) = n
  BY FS_Interval
<1>2. /\ IsFiniteSet(Daemons \X (1..n))
      /\ Cardinality(Daemons \X (1..n)) = Cardinality(Daemons) * n
  BY <1>1, SupervisorConstants, FS_Product
<1>3. Tokens(f) \in SUBSET (Daemons \X (1..n))
  <2> SUFFICES ASSUME NEW t \in Tokens(f)
      PROVE  t \in Daemons \X (1..n)
    OBVIOUS
  <2>1. t \in Daemons \X (Nat \ {0}) /\ t[2] <= f[t[1]]
    BY DEF Tokens
  <2>2. t = <<t[1], t[2]>> /\ t[1] \in Daemons /\ t[2] \in Nat \ {0}
    BY <2>1
  <2>3. t[2] \in 1..n
    BY <2>1, <2>2
  <2>. QED
    BY <2>2, <2>3
<1>. QED
  BY <1>2, <1>3, FS_Subset, FS_CardinalityType DEF Total

\* Summand by summand.
LEMMA TotalMonotone ==
  ASSUME NEW n \in Nat, NEW f \in [Daemons -> 0..n], NEW g \in [Daemons -> 0..n],
         \A d \in Daemons : f[d] <= g[d]
  PROVE  Total(f) <= Total(g)
<1>1. Tokens(f) \in SUBSET Tokens(g)
  BY DEF Tokens
<1>. QED
  BY <1>1, TokensFinite, FS_Subset DEF Total

LEMMA TotalConstant ==
  ASSUME NEW n \in Nat
  PROVE  Total([d \in Daemons |-> n]) = Cardinality(Daemons) * n
<1> DEFINE f == [d \in Daemons |-> n]
<1>1. IsFiniteSet(1..n) /\ Cardinality(1..n) = n
  BY FS_Interval
<1>2. Tokens(f) = Daemons \X (1..n)
  BY DEF Tokens
<1>. QED
  BY <1>1, <1>2, SupervisorConstants, FS_Product DEF Total

\* What one daemon holds, and the others.
LEMMA TotalSplits ==
  ASSUME NEW n \in Nat, NEW f \in [Daemons -> 0..n], NEW d \in Daemons
  PROVE  /\ Cardinality(Elsewhere(f, d)) \in Nat
         /\ Total(f) = Cardinality(Elsewhere(f, d)) + f[d]
<1> DEFINE own == {d} \X (1..f[d])
<1>1. f[d] \in 0..n
  OBVIOUS
<1>2. IsFiniteSet(1..f[d]) /\ Cardinality(1..f[d]) = f[d]
  BY <1>1, FS_Interval
<1>3. IsFiniteSet(own) /\ Cardinality(own) = f[d]
  <2>1. IsFiniteSet({d}) /\ Cardinality({d}) = 1
    BY FS_Singleton
  <2>2. IsFiniteSet(own) /\ Cardinality(own) = 1 * f[d]
    BY <1>2, <2>1, FS_Product
  <2>. QED
    BY <1>1, <2>2
<1>4. IsFiniteSet(Elsewhere(f, d)) /\ Cardinality(Elsewhere(f, d)) \in Nat
  <2>1. Elsewhere(f, d) \in SUBSET Tokens(f) /\ IsFiniteSet(Tokens(f))
    BY TokensFinite DEF Elsewhere
  <2>. QED
    BY <2>1, FS_Subset, FS_CardinalityType
<1>5. Tokens(f) = Elsewhere(f, d) \cup own /\ Elsewhere(f, d) \cap own = {}
  BY <1>1 DEF Tokens, Elsewhere
<1>6. Cardinality(Elsewhere(f, d) \cap own) = 0
  BY <1>5, FS_EmptySet
<1> HIDE DEF own
<1>7. Cardinality(Elsewhere(f, d) \cup own) = Cardinality(Elsewhere(f, d)) + Cardinality(own)
  <2>1. Cardinality(Elsewhere(f, d) \cup own)
          = Cardinality(Elsewhere(f, d)) + Cardinality(own) - Cardinality(Elsewhere(f, d) \cap own)
    BY <1>3, <1>4, FS_Union
  <2>. QED
    BY <1>1, <1>3, <1>4, <1>6, <2>1
<1>. QED
  BY <1>1, <1>3, <1>4, <1>5, <1>7 DEF Total

\* A step of one daemon moves the total by what it moves that daemon's summand.
LEMMA TotalMoves ==
  ASSUME NEW n \in Nat, NEW f \in [Daemons -> 0..n], NEW g \in [Daemons -> 0..n],
         NEW d \in Daemons, \A e \in Daemons \ {d} : g[e] = f[e]
  PROVE  Total(g) + f[d] = Total(f) + g[d]
<1>1. Elsewhere(g, d) = Elsewhere(f, d)
  BY DEF Elsewhere, Tokens
<1>2. /\ Total(f) = Cardinality(Elsewhere(f, d)) + f[d]
      /\ Total(g) = Cardinality(Elsewhere(g, d)) + g[d]
      /\ Cardinality(Elsewhere(f, d)) \in Nat
  BY TotalSplits
<1>. QED
  BY <1>1, <1>2

\* What a daemon may still have to pay for.
Pending(d) == loop[d].ready + Live(loop[d]) + loose[d]
PendingOf == [d \in Daemons |-> Pending(d)]
Owed == Total(PendingOf)

\* The most that a daemon can have pending before the next fault: a full loop next
\* to what raised loops have left behind and what a broken one will leave.
Reserve(d) == Concurrency + loose[d] + (IF loop[d].broken THEN Concurrency - 1 ELSE 0)
ReserveOf == [d \in Daemons |-> Reserve(d)]

\* Only faults add to the reserves of all daemons together.
ReserveInv == Total(ReserveOf) <= MaxSessions

\* A day that has reached its cap pays only for what was pending when it did.
CapInv(cap) ==
  cap > 0 /\ spend >= cap => spend < cap + PerTask * (MaxSessions - Owed)

\* What one iteration of each daemon starts, and what faults have left behind.
Batches == Cardinality(Daemons) * Concurrency
Counted == /\ Slack \in Nat /\ Batches \in Nat
           /\ MaxSessions \in Nat /\ MaxSessions = Batches + Slack

LEMMA Sessions == TypeOK => Counted
<1> SUFFICES ASSUME TypeOK
    PROVE  Slack \in Nat /\ Batches \in Nat /\ MaxSessions = Batches + Slack
  BY DEF Counted
<1>1. Cardinality(Daemons) \in Nat /\ Concurrency \in Nat
  BY SupervisorConstants, FS_CardinalityType
<1>2. \A m, n \in Nat : m * n \in Nat
  OBVIOUS
<1>. QED
  BY <1>1, <1>2, SlackSteps DEF MaxSessions, Slack, Batches

LEMMA SessionsNext == TypeOK' => Counted'
<1>1. (TypeOK => Counted)'
  BY Sessions, PTL
<1>. QED
  BY <1>1

\* What is pending fits into the reserve, daemon by daemon.
Fits == /\ Concurrency + Slack \in Nat
        /\ PendingOf \in [Daemons -> 0..(Concurrency + Slack)]
        /\ ReserveOf \in [Daemons -> 0..(Concurrency + Slack)]
        /\ \A d \in Daemons : PendingOf[d] <= ReserveOf[d]

LEMMA Summands == Inv => Fits
<1> SUFFICES ASSUME Inv PROVE Fits
  OBVIOUS
<1>1. Concurrency + Slack \in Nat
  BY SlackSteps, SupervisorConstants DEF Inv
<1>2. ASSUME NEW d \in Daemons
      PROVE  /\ Pending(d) \in 0..(Concurrency + Slack)
             /\ Reserve(d) \in 0..(Concurrency + Slack)
             /\ Pending(d) <= Reserve(d)
  BY Numbers DEF Inv, DaemonInv, SlotsInv, Pending, Reserve, Live
<1>. QED
  BY <1>1, <1>2 DEF PendingOf, ReserveOf, Fits

LEMMA SummandsNext == Inv' => Fits'
<1>1. (Inv => Fits)'
  BY Summands, PTL
<1>. QED
  BY <1>1

\* A larger fault count only widens the range.
LEMMA Widen ==
  ASSUME NEW c \in Nat, NEW m \in Nat, NEW n \in Nat, m <= n, NEW f \in [Daemons -> 0..(c + m)]
  PROVE  f \in [Daemons -> 0..(c + n)]
OBVIOUS

LEMMA OwedBound ==
  Inv /\ ReserveInv => Owed \in Nat /\ Owed <= MaxSessions
<1> SUFFICES ASSUME Inv, ReserveInv
    PROVE  Owed \in Nat /\ Owed <= MaxSessions
  OBVIOUS
<1>1. Total(PendingOf) \in Nat /\ Total(ReserveOf) \in Nat /\ Total(PendingOf) <= Total(ReserveOf)
  BY Summands, TokensFinite, TotalMonotone DEF Fits
<1>. QED
  BY <1>1, Sessions DEF Owed, ReserveInv, Inv, Counted

LEMMA OwedBoundNext ==
  Inv' /\ ReserveInv' => Owed' \in Nat /\ Owed' <= MaxSessions'
<1>1. (Inv /\ ReserveInv => Owed \in Nat /\ Owed <= MaxSessions)'
  BY OwedBound, PTL
<1>. QED
  BY <1>1

\* PerTask * n in the two forms that the steps need.
LEMMA Products ==
  ASSUME NEW p \in Nat, NEW m \in Nat, NEW n \in Nat
  PROVE  /\ p * m \in Nat
         /\ m <= n => p * m <= p * n
         /\ p * (m + 1) = p * m + p
<1>1. ASSUME m <= n
      PROVE  p * m <= p * n
  <2>1. n - m \in Nat /\ n = m + (n - m)
    BY <1>1
  <2>2. p * (m + (n - m)) = p * m + p * (n - m) /\ p * (n - m) \in Nat /\ p * m \in Nat
    BY <2>1
  <2>. QED
    BY <2>1, <2>2
<1>. QED
  BY <1>1

\* Only Iterate adds to what is pending, and it passes the caps first; a cost is
\* recorded only of a session that is pending no more.
LEMMA PendingSteps ==
  ASSUME TypeOK, NEW d \in Daemons, DaemonInv(d), TypeOK',
         DaemonStep(d) \/ Environment \/ UNCHANGED vars
  PROVE  \/ /\ spend' = spend \/ spend' = 0
            /\ Pending(d)' - Slack' <= Pending(d) - Slack
         \/ /\ spend' = spend
            /\ ~IsHardStopped /\ ~DaySpendExceedsCap
         \/ /\ spend' \in spend .. spend + PerTask
            /\ Slack' >= Slack
            /\ Pending(d)' = Pending(d) - 1
<1> USE DEF Pending, Live
<1>0. /\ faults' = faults => Slack' = Slack
      /\ faults' = faults + 1 => Slack' = Slack + (Concurrency - 1)
      /\ Slack \in Nat /\ Concurrency \in Nat \ {0} /\ PerTask \in Nat /\ spend \in Nat
  BY SlackSteps, SupervisorConstants DEF TypeOK
<1>p. Pending(d) \in Nat
  BY Numbers
<1>1. ASSUME loop'[d] = loop[d], loose'[d] = loose[d], faults' \in {faults, faults + 1}
      PROVE  Pending(d)' - Slack' <= Pending(d) - Slack
  BY <1>1, <1>0, <1>p, Numbers
<1>2. ASSUME loop'[d] = NoLoop, loose'[d] = 0, faults' \in {faults, faults + 1}
      PROVE  Pending(d)' - Slack' <= Pending(d) - Slack
  <2>1. Pending(d)' = 0
    BY <1>2 DEF NoLoop
  <2>. QED
    BY <1>2, <2>1, <1>0, <1>p
<1>3. CASE CheckPid(d) \/ WritePid(d) \/ LoopReturns(d)
  BY <1>3, <1>1 DEF CheckPid, WritePid, LoopReturns, files, money
<1>4. CASE Iterate(d)
  BY <1>4 DEF Iterate, MayContinue, money
<1>5. CASE StopRun(d) \/ FatalError(d)
  <2>1. main[d] # "loop"
    BY <1>5 DEF StopRun, FatalError, Exit
  <2>2. loop'[d] = NoLoop /\ loose'[d] = 0 /\ faults' \in {faults, faults + 1} /\ spend' = spend
    BY <1>5, <2>1, Numbers DEF StopRun, FatalError, Exit, Fault, money, DaemonInv, SlotsInv
  <2>. QED
    BY <2>2, <1>2
<1>6. CASE Decline(d) \/ Admit(d)
  <2>1. /\ loop'[d].ready = loop[d].ready - 1 /\ loop'[d].running = loop[d].running
        /\ loose' = loose /\ faults' = faults /\ spend' = spend /\ ~loop[d].gated
    BY <1>6, Numbers DEF Decline, Admit, LeaveReady, files, money, Loops
  <2>. QED
    BY <2>1, <1>0, Numbers
<1>7. CASE ProvisionFails(d) \/ StartSession(d)
  <2>1. /\ loop'[d].ready = loop[d].ready /\ ~loop'[d].gated /\ loop[d].gated
        /\ loop'[d].running \in {loop[d].running, loop[d].running + 1}
        /\ loose' = loose /\ faults' \in {faults, faults + 1} /\ spend' = spend
    BY <1>7, Numbers DEF ProvisionFails, StartSession, Fault, files, money, Loops
  <2>. QED
    BY <2>1, <1>0, Numbers
<1>8. CASE EndSession(d) \/ LoseOutcome(d) \/ LoseHealthEvent(d)
  <2>1. PICK raises \in BOOLEAN : TakeSession(d, raises)
    BY <1>8 DEF EndSession, LoseOutcome, LoseHealthEvent
  <2>2. Pending(d)' = Pending(d) - 1
    <3>1. \/ /\ loop'[d].ready = loop[d].ready /\ loop'[d].gated = loop[d].gated
             /\ loop'[d].running = loop[d].running - 1 /\ loose'[d] = loose[d]
          \/ loop' = loop /\ loose'[d] = loose[d] - 1
      BY <2>1, Numbers DEF TakeSession, Loops
    <3>. QED
      BY <3>1, Numbers
  <2>3. CASE EndSession(d)
    <3>1. spend' \in spend .. spend + PerTask /\ faults' = faults
      BY <1>0, <2>3 DEF EndSession
    <3>. QED
      BY <1>0, <2>2, <3>1
  <2>4. CASE LoseOutcome(d)
    <3>1. spend' = spend /\ faults' = faults + 1
      BY <2>4 DEF LoseOutcome, Fault, money
    <3>. QED
      BY <1>0, <1>p, <2>2, <3>1
  <2>5. CASE LoseHealthEvent(d)
    <3>1. spend' \in spend .. spend + PerTask /\ faults' = faults + 1
      BY <1>0, <2>5 DEF LoseHealthEvent, Fault
    <3>. QED
      BY <1>0, <2>2, <3>1
  <2>. QED
    BY <1>8, <2>3, <2>4, <2>5
<1>9. CASE LoopRaises(d)
  <2>1. /\ loop'[d] = NoLoop /\ loop[d].ready = 0 /\ ~loop[d].gated
        /\ loose'[d] = loose[d] + loop[d].running /\ faults' = faults /\ spend' = spend
    BY <1>9, Numbers DEF LoopRaises, LoopAwakes, files, money
  <2>2. loop'[d].ready = 0 /\ loop'[d].running = 0 /\ ~loop'[d].gated
    BY <2>1 DEF NoLoop
  <2>. QED
    BY <2>1, <2>2, <1>0, Numbers
<1>10. CASE Environment
  <2>1. ASSUME NEW e \in Daemons, Crash(e), e = d
        PROVE  loop'[d] = NoLoop /\ loose'[d] = 0 /\ faults' = faults + 1 /\ spend' = spend
    BY <2>1, Numbers DEF Crash, Fault, money
  <2>2. ASSUME NEW e \in Daemons, Sigterm(e) \/ (Crash(e) /\ e # d)
        PROVE  /\ loop'[d] = loop[d] /\ loose'[d] = loose[d]
               /\ faults' \in {faults, faults + 1} /\ spend' = spend
    BY <2>2, Numbers DEF Sigterm, Crash, Fault, money
  <2>3. ASSUME Kill \/ Unkill \/ Touch \/ Midnight
        PROVE  loop' = loop /\ loose' = loose /\ faults' = faults /\ spend' \in {spend, 0}
    BY <2>3 DEF Kill, Unkill, Touch, Midnight, money
  <2> HIDE DEF Pending
  <2>. QED
    BY <1>10, <1>1, <1>2, <2>1, <2>2, <2>3 DEF Environment
<1>11. CASE UNCHANGED vars
  BY <1>11, <1>1 DEF vars
<1>. QED
  BY <1>3, <1>4, <1>5, <1>6, <1>7, <1>8, <1>9, <1>10, <1>11 DEF DaemonStep

\* A fault adds Concurrency - 1 to the reserve at most, nothing else adds to it.
LEMMA ReserveSteps ==
  ASSUME TypeOK, NEW d \in Daemons, DaemonInv(d), TypeOK', DaemonStep(d) \/ Environment
  PROVE  Reserve(d)' - Slack' <= Reserve(d) - Slack
<1> USE DEF Reserve
<1>0. /\ faults' = faults => Slack' = Slack
      /\ faults' = faults + 1 => Slack' = Slack + (Concurrency - 1)
      /\ Slack \in Nat /\ Concurrency \in Nat \ {0}
  BY SlackSteps, SupervisorConstants DEF TypeOK
<1>1. ASSUME loose'[d] = loose[d] \/ loose'[d] = 0,
             loop'[d].broken => loop[d].broken,
             faults' \in {faults, faults + 1}
      PROVE  Reserve(d)' - Slack' <= Reserve(d) - Slack
  BY <1>1, <1>0, Numbers
<1>2. CASE CheckPid(d) \/ WritePid(d) \/ LoopReturns(d)
  BY <1>2, <1>1 DEF CheckPid, WritePid, LoopReturns, files, money
<1>3. CASE Iterate(d) \/ Decline(d) \/ Admit(d) \/ StartSession(d)
  <2>1. loose' = loose /\ faults' = faults /\ loop'[d].broken = loop[d].broken
    BY <1>3, Numbers DEF Iterate, Decline, Admit, LeaveReady, StartSession, files, money, Loops
  <2>. QED
    BY <2>1, <1>1
<1>4. CASE StopRun(d) \/ FatalError(d)
  <2>1. loose'[d] = 0 /\ loop' = loop /\ faults' \in {faults, faults + 1}
    BY <1>4, Numbers DEF StopRun, FatalError, Exit, Fault
  <2>. QED
    BY <2>1, <1>1
<1>5. CASE ProvisionFails(d)
  <2>1. loose' = loose /\ faults' = faults + 1
    BY <1>5 DEF ProvisionFails, Fault
  <2>. QED
    BY <2>1, <1>0, Numbers
<1>6. CASE EndSession(d)
  <2>1. faults' = faults /\ TakeSession(d, FALSE)
    BY <1>6 DEF EndSession
  <2>2. loop'[d].broken = loop[d].broken /\ loose'[d] \in {loose[d], loose[d] - 1}
    BY <2>1, Numbers DEF TakeSession, Loops
  <2>. QED
    BY <2>1, <2>2, <1>0, Numbers
<1>7. CASE LoseOutcome(d) \/ LoseHealthEvent(d)
  <2>1. faults' = faults + 1 /\ TakeSession(d, TRUE)
    BY <1>7 DEF LoseOutcome, LoseHealthEvent, Fault
  <2>2. loose'[d] \in {loose[d], loose[d] - 1}
    BY <2>1, Numbers DEF TakeSession
  <2>. QED
    BY <2>1, <2>2, <1>0, Numbers
<1>8. CASE LoopRaises(d)
  <2>1. /\ loop[d].broken /\ loop'[d] = NoLoop /\ faults' = faults
        /\ loose'[d] = loose[d] + loop[d].running
    BY <1>8, Numbers DEF LoopRaises, LoopAwakes
  <2>2. ~loop'[d].broken /\ loop[d].running <= Concurrency - 1
    BY <2>1, Numbers DEF NoLoop, DaemonInv, SlotsInv, Live
  <2>. QED
    BY <2>1, <2>2, <1>0, Numbers
<1>9. CASE Environment
  <2>1. ASSUME NEW e \in Daemons, Crash(e), e = d
        PROVE  loop'[d] = NoLoop /\ loose'[d] = 0 /\ faults' = faults + 1
    BY <2>1, Numbers DEF Crash, Fault
  <2>2. ASSUME NEW e \in Daemons, Sigterm(e) \/ (Crash(e) /\ e # d)
        PROVE  loop'[d] = loop[d] /\ loose'[d] = loose[d] /\ faults' \in {faults, faults + 1}
    BY <2>2, Numbers DEF Sigterm, Crash, Fault
  <2>3. ASSUME Kill \/ Unkill \/ Touch \/ Midnight
        PROVE  loop' = loop /\ loose' = loose /\ faults' = faults
    BY <2>3 DEF Kill, Unkill, Touch, Midnight
  <2>4. ~NoLoop.broken
    BY DEF NoLoop
  <2> HIDE DEF Reserve
  <2>. QED
    BY <1>9, <1>1, <2>1, <2>2, <2>3, <2>4 DEF Environment
<1>. QED
  BY <1>2, <1>3, <1>4, <1>5, <1>6, <1>7, <1>8, <1>9 DEF DaemonStep

\* What a step changes of loops and sessions is one daemon's.
LEMMA OneMoves ==
  ASSUME Inv, [Next]_vars
  PROVE  \/ /\ loop' = loop /\ loose' = loose /\ faults' = faults
            /\ spend' = spend \/ spend' = 0
         \/ \E d \in Daemons :
              /\ DaemonStep(d) \/ Environment
              /\ \A e \in Daemons \ {d} : loop'[e] = loop[e] /\ loose'[e] = loose[e]
<1>1. ASSUME NEW d \in Daemons, DaemonStep(d)
      PROVE  \A e \in Daemons \ {d} : loop'[e] = loop[e] /\ loose'[e] = loose[e]
  BY <1>1, OthersUndisturbed DEF Inv
<1>2. ASSUME NEW d \in Daemons, Sigterm(d) \/ Crash(d)
      PROVE  \A e \in Daemons \ {d} : loop'[e] = loop[e] /\ loose'[e] = loose[e]
  BY <1>2 DEF Sigterm, Crash, Inv, TypeOK
<1>3. ASSUME Kill \/ Unkill \/ Touch \/ Midnight \/ UNCHANGED vars
      PROVE  /\ loop' = loop /\ loose' = loose /\ faults' = faults
             /\ spend' = spend \/ spend' = 0
  BY <1>3 DEF Kill, Unkill, Touch, Midnight, vars, money
<1>. QED
  BY <1>1, <1>2, <1>3 DEF Next, Environment

\* Slack never falls.
LEMMA SlackGrows ==
  ASSUME Inv, Inv', [Next]_vars
  PROVE  Slack \in Nat /\ Slack' \in Nat /\ Slack <= Slack'
<1>1. faults' \in {faults, faults + 1}
  <2>1. ASSUME NEW d \in Daemons, DaemonStep(d)
        PROVE  faults' \in {faults, faults + 1}
    BY <2>1 DEF DaemonStep, CheckPid, WritePid, Iterate, StopRun, FatalError, Exit, Decline,
                Admit, LeaveReady, ProvisionFails, StartSession, EndSession, LoseOutcome,
                LoseHealthEvent, LoopReturns, LoopRaises, Fault
  <2>2. ASSUME Environment \/ UNCHANGED vars
        PROVE  faults' \in {faults, faults + 1}
    BY <2>2 DEF Environment, Sigterm, Crash, Fault, Kill, Unkill, Touch, Midnight, vars
  <2>. QED
    BY <2>1, <2>2 DEF Next
<1>. QED
  BY <1>1, SlackSteps, SupervisorConstants DEF Inv

LEMMA ReserveKept ==
  ASSUME Inv, Inv', [Next]_vars, ReserveInv
  PROVE  ReserveInv'
<1> DEFINE n == Concurrency + Slack'
           f == ReserveOf
           g == ReserveOf'
<1>1. Slack \in Nat /\ Slack' \in Nat /\ Slack <= Slack' /\ Concurrency \in Nat
  BY SlackGrows, SupervisorConstants
<1>2. n \in Nat /\ f \in [Daemons -> 0..n] /\ g \in [Daemons -> 0..n]
  <2>1. n \in Nat /\ ReserveOf' \in [Daemons -> 0..n]
    BY SummandsNext DEF Fits
  <2>2. ReserveOf \in [Daemons -> 0..(Concurrency + Slack)]
    BY Summands DEF Fits
  <2>3. ReserveOf \in [Daemons -> 0..n]
    BY <1>1, <2>2, Widen, Zenon
  <2> HIDE DEF n
  <2>. QED
    BY <2>1, <2>3
<1>3. MaxSessions = Batches + Slack /\ MaxSessions' = Batches + Slack' /\ Batches \in Nat
  BY Sessions, SessionsNext DEF Inv, Counted, Batches
<1>4. Total(f) <= MaxSessions /\ Total(f) \in Nat /\ Total(g) \in Nat
  BY <1>2, TokensFinite DEF ReserveInv
<1>5. SUFFICES Total(g) <= MaxSessions'
  BY DEF ReserveInv
<1>6. CASE loop' = loop /\ loose' = loose
  <2>1. g = f
    BY <1>6 DEF ReserveOf, Reserve
  <2>. QED
    BY <1>1, <1>3, <1>4, <2>1
<1>7. ASSUME NEW d \in Daemons, DaemonStep(d) \/ Environment,
             \A e \in Daemons \ {d} : loop'[e] = loop[e] /\ loose'[e] = loose[e]
      PROVE  Total(g) <= MaxSessions'
  <2>1. \A e \in Daemons \ {d} : g[e] = f[e]
    BY <1>7 DEF ReserveOf, Reserve
  <2>2. g[d] - Slack' <= f[d] - Slack
    BY <1>7, ReserveSteps DEF Inv, ReserveOf
  <2>3. f[d] \in Nat /\ g[d] \in Nat
    BY <1>2
  <2> HIDE DEF f, g, n
  <2>4. Total(g) + f[d] = Total(f) + g[d]
    BY <1>2, <2>1, TotalMoves
  <2>. QED
    BY <1>1, <1>3, <1>4, <2>2, <2>3, <2>4
<1>. QED
  BY <1>6, <1>7, OneMoves

\* PendingSteps, for all daemons together.
LEMMA OwedSteps ==
  ASSUME Inv, Inv', [Next]_vars
  PROVE  \/ /\ spend' = spend \/ spend' = 0
            /\ Owed' - Slack' <= Owed - Slack
         \/ /\ spend' = spend
            /\ ~IsHardStopped /\ ~DaySpendExceedsCap
         \/ /\ spend' \in spend .. spend + PerTask
            /\ Slack' >= Slack
            /\ Owed' = Owed - 1
<1> DEFINE n == Concurrency + Slack'
           f == PendingOf
           g == PendingOf'
<1>1. Slack \in Nat /\ Slack' \in Nat /\ Slack <= Slack' /\ Concurrency \in Nat
  BY SlackGrows, SupervisorConstants
<1>2. n \in Nat /\ f \in [Daemons -> 0..n] /\ g \in [Daemons -> 0..n]
  <2>1. n \in Nat /\ PendingOf' \in [Daemons -> 0..n]
    BY SummandsNext DEF Fits
  <2>2. PendingOf \in [Daemons -> 0..(Concurrency + Slack)]
    BY Summands DEF Fits
  <2>3. PendingOf \in [Daemons -> 0..n]
    BY <1>1, <2>2, Widen, Zenon
  <2> HIDE DEF n
  <2>. QED
    BY <2>1, <2>3
<1>3. Owed = Total(f) /\ Owed' = Total(g) /\ Total(f) \in Nat /\ Total(g) \in Nat
  BY <1>2, TokensFinite DEF Owed
<1>4. CASE loop' = loop /\ loose' = loose /\ faults' = faults /\ (spend' = spend \/ spend' = 0)
  <2>1. g = f /\ Slack' = Slack
    BY <1>4, SlackSteps DEF PendingOf, Pending, Inv
  <2>. QED
    BY <1>1, <1>3, <1>4, <2>1
<1>5. ASSUME NEW d \in Daemons, DaemonStep(d) \/ Environment,
             \A e \in Daemons \ {d} : loop'[e] = loop[e] /\ loose'[e] = loose[e]
      PROVE  \/ /\ spend' = spend \/ spend' = 0
                /\ Owed' - Slack' <= Owed - Slack
             \/ /\ spend' = spend
                /\ ~IsHardStopped /\ ~DaySpendExceedsCap
             \/ /\ spend' \in spend .. spend + PerTask
                /\ Slack' >= Slack
                /\ Owed' = Owed - 1
  <2>1. \A e \in Daemons \ {d} : g[e] = f[e]
    BY <1>5 DEF PendingOf, Pending
  <2>2. f[d] = Pending(d) /\ g[d] = Pending(d)'
    BY DEF PendingOf
  <2>3. f[d] \in Nat /\ g[d] \in Nat
    BY <1>2
  <2>4. \/ /\ spend' = spend \/ spend' = 0
           /\ g[d] - Slack' <= f[d] - Slack
        \/ /\ spend' = spend
           /\ ~IsHardStopped /\ ~DaySpendExceedsCap
        \/ /\ spend' \in spend .. spend + PerTask
           /\ Slack' >= Slack
           /\ g[d] = f[d] - 1
    BY <1>5, <2>2, PendingSteps DEF Inv
  <2> HIDE DEF f, g, n
  <2>5. Total(g) + f[d] = Total(f) + g[d]
    BY <1>2, <2>1, TotalMoves
  <2>. QED
    BY <1>1, <1>3, <2>3, <2>4, <2>5
<1>. QED
  BY <1>4, <1>5, OneMoves

\* What is left to be spent shrinks only with a session that ends.
LEMMA Rooms ==
  ASSUME NEW b \in Nat, NEW s \in Nat, NEW t \in Nat, NEW o \in Nat, NEW p \in Nat,
         NEW m, NEW n, m = b + s, n = b + t, o <= m, p <= n
  PROVE  /\ m - o \in Nat /\ n - p \in Nat
         /\ p - t <= o - s => m - o <= n - p
         /\ t >= s /\ p = o - 1 => (m - o) + 1 <= n - p
OBVIOUS

LEMMA CapStep ==
  ASSUME Inv, Inv', [Next]_vars, ReserveInv, ReserveInv',
         NEW cap \in {HardCap, DayCap} \ {NoCap}, CapInv(cap)
  PROVE  CapInv(cap)'
<1> DEFINE room == MaxSessions - Owed
           next == MaxSessions' - Owed'
<1>0. /\ cap \in Nat /\ PerTask \in Nat
      /\ spend \in Nat /\ spend' \in Nat /\ carried \in Nat
  BY SupervisorConstants DEF Inv, TypeOK
<1>1. /\ Slack \in Nat /\ Slack' \in Nat /\ Batches \in Nat
      /\ MaxSessions = Batches + Slack /\ MaxSessions' = Batches + Slack'
      /\ Owed \in Nat /\ Owed <= MaxSessions
      /\ Owed' \in Nat /\ Owed' <= MaxSessions'
  BY Sessions, SessionsNext, OwedBound, OwedBoundNext DEF Inv, Counted, Batches
<1>2. /\ room \in Nat /\ next \in Nat
      /\ Owed' - Slack' <= Owed - Slack => room <= next
      /\ Slack' >= Slack /\ Owed' = Owed - 1 => room + 1 <= next
  <2>1. \A m, n : m = Batches + Slack /\ n = Batches + Slack' /\ Owed <= m /\ Owed' <= n
          => /\ m - Owed \in Nat /\ n - Owed' \in Nat
             /\ Owed' - Slack' <= Owed - Slack => m - Owed <= n - Owed'
             /\ Slack' >= Slack /\ Owed' = Owed - 1 => (m - Owed) + 1 <= n - Owed'
    BY <1>1, Rooms
  <2>. QED
    BY <1>1, <2>1, Zenon
<1>3. cap > 0 /\ spend >= cap => spend < cap + PerTask * room
  BY DEF CapInv
<1>4. SUFFICES ASSUME cap > 0, spend' >= cap
      PROVE  spend' < cap + PerTask * next
  BY DEF CapInv
<1>5. CASE (spend' = spend \/ spend' = 0) /\ Owed' - Slack' <= Owed - Slack
  <2>1. spend' = spend /\ spend >= cap
    BY <1>0, <1>4, <1>5
  <2>2. room <= next
    BY <1>2, <1>5, Zenon
  <2>3. PerTask * room <= PerTask * next /\ PerTask * room \in Nat /\ PerTask * next \in Nat
    BY <1>0, <1>2, <2>2, Products
  <2> HIDE DEF room, next
  <2>. QED
    BY <1>0, <1>3, <1>4, <2>1, <2>3
<1>6. CASE spend' = spend /\ ~IsHardStopped /\ ~DaySpendExceedsCap
  <2>1. spend < cap
    BY <1>0, <1>6 DEF IsHardStopped, DaySpendExceedsCap, TodaySpend
  <2>. QED
    BY <1>0, <1>4, <1>6, <2>1
<1>7. CASE spend' \in spend .. spend + PerTask /\ Slack' >= Slack /\ Owed' = Owed - 1
  <2>1. room + 1 <= next
    BY <1>2, <1>7, Zenon
  <2>2. /\ PerTask * room + PerTask <= PerTask * next
        /\ PerTask * room \in Nat /\ PerTask * next \in Nat
    <3>1. room + 1 \in Nat
      BY <1>2
    <3> HIDE DEF room, next
    <3>2. PerTask * (room + 1) <= PerTask * next
      BY <1>0, <1>2, <2>1, <3>1, Products
    <3>. QED
      BY <1>0, <1>2, <3>2, Products
  <2>3. spend' <= spend + PerTask
    BY <1>0, <1>7
  <2> DEFINE paid == PerTask * room
             total == PerTask * next
  <2>4. /\ paid \in Nat /\ total \in Nat /\ paid + PerTask <= total
        /\ spend >= cap => spend < cap + paid
    BY <1>3, <1>4, <2>2
  <2> HIDE DEF room, next, paid, total
  <2>5. spend' < cap + total
    BY <1>0, <1>4, <2>3, <2>4
  <2>. QED
    BY <2>5 DEF total
<1>. QED
  BY <1>5, <1>6, <1>7, OwedSteps

Caps == \A cap \in {HardCap, DayCap} \ {NoCap} : CapInv(cap)

\* For any number of daemons, raced starts included: the day's cost passes the
\* adapter's hard cap and --max-cost-per-day by less than the sessions of one
\* iteration of each can spend, and those that loops which raised have left
\* behind (saturate.py, budget.py).
THEOREM CapsCorrect == Spec => []CapsHold
<1>1. Init => ReserveInv /\ Caps
  <2> SUFFICES ASSUME Init
      PROVE  ReserveInv /\ Caps
    OBVIOUS
  <2>1. ReserveOf = [d \in Daemons |-> Concurrency]
    BY SupervisorConstants DEF Init, ReserveOf, Reserve, NoLoop
  <2>2. Total(ReserveOf) = Cardinality(Daemons) * Concurrency
    BY <2>1, TotalConstant, SupervisorConstants
  <2>3. ReserveInv
    BY <2>2, InitOK, Sessions DEF ReserveInv, Counted, Batches
  <2>4. Caps
    BY SupervisorConstants DEF Init, Caps, CapInv
  <2>. QED
    BY <2>3, <2>4
<1>2. Inv /\ Inv' /\ ReserveInv /\ Caps /\ [Next]_vars => ReserveInv' /\ Caps'
  BY ReserveKept, CapStep DEF Caps
<1>3. Inv /\ ReserveInv /\ Caps => CapsHold
  <2> SUFFICES ASSUME Inv, ReserveInv, NEW cap \in {HardCap, DayCap} \ {NoCap}, cap > 0,
                      CapInv(cap)
      PROVE  spend < cap + PerTask * MaxSessions
    BY DEF CapsHold, Caps
  <2>1. /\ cap \in Nat /\ PerTask \in Nat /\ spend \in Nat
        /\ MaxSessions \in Nat /\ Owed \in Nat /\ Owed <= MaxSessions
    BY OwedBound, Sessions, SupervisorConstants DEF Inv, TypeOK, Counted
  <2>2. MaxSessions - Owed \in Nat /\ MaxSessions - Owed <= MaxSessions
    BY <2>1
  <2>3. PerTask * (MaxSessions - Owed) <= PerTask * MaxSessions
    BY <2>1, <2>2, Products
  <2>4. PerTask * (MaxSessions - Owed) \in Nat /\ PerTask * MaxSessions \in Nat
    BY <2>1, <2>2, Products
  <2>5. CASE spend >= cap
    BY <2>1, <2>3, <2>4, <2>5 DEF CapInv
  <2>6. CASE spend < cap
    BY <2>1, <2>4, <2>6
  <2>. QED
    BY <2>1, <2>5, <2>6
<1>. QED
  BY <1>1, <1>2, <1>3, InvHolds, PTL DEF Spec

=============================================================================
