-------------------------- MODULE TimeLimitProofs --------------------------
(***************************************************************************)
(* Proofs about the two limits on the time of an emulation: the timer of a *)
(* start (StartTimer), for every set of thread identities and every choice *)
(* of the timing constants, and the wall limit and Ctrl-C of the command   *)
(* line (CommandLine), for any number of Ctrl-C.                           *)
(***************************************************************************)
EXTENDS StartTimer, CommandLine, TLAPS

\* The deadline that is set is the one of the start in progress: the part of
\* the inductive invariant that no run needs but the induction does.
DeadlineOfStart ==
  deadline # NoDeadline => timed /\ deadline = left /\ start # "idle"

\* _thread never names a thread that exited.
HandleLive ==
  handle # NoThread => tpc[handle] # "absent"

IInv ==
  /\ TypeOK
  /\ DeadlineOfStart
  /\ HandleLive
  /\ ArmedHasThread
  /\ OneTimerThread
  /\ NoLateWake
  /\ StoppedAtDeadline

-----------------------------------------------------------------------------
\* A tick never makes a count negative, and leaves a count that ran out.
LEMMA LessType ==
  ASSUME NEW n \in Nat
  PROVE  Less(n) \in Nat /\ (n = 0 => Less(n) = 0)
BY DEF Less

\* Initially nothing is armed and no thread exists.
LEMMA InitIInv == Init => IInv
<1> SUFFICES ASSUME Init PROVE IInv
  OBVIOUS
<1> USE NoneAssumption DEF Init
<1>1. TypeOK
  <2>1. tpc \in [Threads -> ThreadStates] /\ wake \in [Threads -> Nat]
    BY DEF ThreadStates
  <2> QED BY <2>1 DEF TypeOK
<1>2. DeadlineOfStart /\ HandleLive /\ ArmedHasThread /\ StoppedAtDeadline
  BY DEF DeadlineOfStart, HandleLive, ArmedHasThread, StoppedAtDeadline
<1>3. OneTimerThread /\ NoLateWake
  BY DEF OneTimerThread, NoLateWake
<1> QED BY <1>1, <1>2, <1>3 DEF IInv

\* arm() keeps the invariant: the thread it creates or wakes will read the new
\* deadline before it waits again.
LEMMA ArmIInv ==
  ASSUME IInv, NEW timeout \in 1..MaxTimeout, Arm(timeout)
  PROVE  IInv'
<1> USE TimingAssumption, NoneAssumption
<1> USE DEF IInv
<1>0. timeout \in Nat
  OBVIOUS
<1>1. CASE handle = NoThread
  <2>1. PICK t \in Threads : /\ tpc[t] = "absent"
                             /\ handle' = t
                             /\ tpc' = [tpc EXCEPT ![t] = "loop"]
    BY <1>1 DEF Arm
  <2>2. \A u \in Threads : tpc[u] = "absent"
    BY <1>1 DEF OneTimerThread
  <2>3. TypeOK'
    BY <1>0, <2>1 DEF Arm, TypeOK, ThreadStates
  <2>4. \A u \in Threads : tpc'[u] \in {"absent", "loop"} /\ (tpc'[u] = "loop" <=> u = t)
    BY <2>1, <2>2 DEF TypeOK
  <2>5. DeadlineOfStart' /\ StoppedAtDeadline'
    BY <1>0 DEF Arm, DeadlineOfStart, StoppedAtDeadline
  <2>6. HandleLive' /\ ArmedHasThread' /\ OneTimerThread'
    BY <2>1, <2>4 DEF HandleLive, ArmedHasThread, OneTimerThread
  <2>7. NoLateWake'
    BY <2>4 DEF NoLateWake, Waiting
  <2> QED BY <2>3, <2>5, <2>6, <2>7
<1>2. CASE handle # NoThread
  <2>1. /\ handle' = handle
        /\ handle \in Threads
        /\ tpc' = [tpc EXCEPT ![handle] = Notified(handle)]
    BY <1>2 DEF Arm, TypeOK
  <2>2. Notified(handle) \in ThreadStates \ Waiting /\ Notified(handle) # "absent"
    BY <1>2, <2>1 DEF Notified, TypeOK, ThreadStates, Waiting, HandleLive
  <2>3. \A u \in Threads : u # handle => tpc[u] = "absent"
    BY DEF OneTimerThread
  <2>4. TypeOK'
    BY <1>0, <2>1, <2>2 DEF Arm, TypeOK
  <2>5. \A u \in Threads : tpc'[u] \notin Waiting /\ (tpc'[u] # "absent" <=> u = handle)
    BY <2>1, <2>2, <2>3 DEF TypeOK, Waiting
  <2>6. DeadlineOfStart' /\ StoppedAtDeadline'
    BY <1>0 DEF Arm, DeadlineOfStart, StoppedAtDeadline
  <2>7. HandleLive' /\ ArmedHasThread' /\ OneTimerThread' /\ NoLateWake'
    BY <2>1, <2>5 DEF HandleLive, ArmedHasThread, OneTimerThread, NoLateWake
  <2> QED BY <2>4, <2>6, <2>7
<1> QED BY <1>1, <1>2

\* The other steps of the emulator thread.
LEMMA EmulatorIInv ==
  ASSUME IInv, StartUntimed \/ EmuStart \/ EmuReturn \/ Disarm
  PROVE  IInv'
<1> USE NoneAssumption
<1> USE DEF IInv, TypeOK, DeadlineOfStart, HandleLive, ArmedHasThread,
            OneTimerThread, NoLateWake, StoppedAtDeadline
<1>1. CASE StartUntimed BY <1>1 DEF StartUntimed
<1>2. CASE EmuStart     BY <1>2 DEF EmuStart
<1>3. CASE EmuReturn    BY <1>3 DEF EmuReturn
<1>4. CASE Disarm       BY <1>4 DEF Disarm
<1> QED BY <1>1, <1>2, <1>3, <1>4

\* The steps of a timer thread.
LEMMA TimerIInv ==
  ASSUME IInv, NEW t \in Threads, TimerStep(t)
  PROVE  IInv'
<1> USE TimingAssumption, NoneAssumption
<1> USE DEF IInv, TypeOK, DeadlineOfStart, HandleLive, ArmedHasThread,
            OneTimerThread, NoLateWake, StoppedAtDeadline, Waiting, ThreadStates
<1>1. CASE WaitExpires(t)   BY <1>1 DEF WaitExpires
<1>2. CASE Exit(t)          BY <1>2 DEF Exit
<1>3. CASE Continue(t)      BY <1>3 DEF Continue
<1>4. CASE WaitIdle(t)      BY <1>4 DEF WaitIdle, WaitFor
<1>5. CASE WaitDeadline(t)  BY <1>5 DEF WaitDeadline, WaitFor
<1>6. CASE StopDelivered(t) BY <1>6 DEF StopDelivered, WaitFor
<1>7. CASE StopLost(t)      BY <1>7 DEF StopLost, WaitFor
<1> QED BY <1>1, <1>2, <1>3, <1>4, <1>5, <1>6, <1>7 DEF TimerStep

\* A tick: the sleeping thread and its deadline count down together.
LEMMA TickIInv ==
  ASSUME IInv, Tick
  PROVE  IInv'
<1> USE NoneAssumption
<1>1. left \in Nat /\ Less(left) \in Nat /\ (left = 0 => Less(left) = 0)
  BY LessType DEF IInv, TypeOK
<1>2. \A t \in Threads : wake[t] \in Nat /\ Less(wake[t]) \in Nat
  BY LessType DEF IInv, TypeOK
<1>3. deadline # NoDeadline => deadline \in Nat /\ Less(deadline) \in Nat
                               /\ (deadline = 0 => Less(deadline) = 0)
  BY LessType DEF IInv, TypeOK
<1>4. deadline' # NoDeadline <=> deadline # NoDeadline
  BY <1>3 DEF Tick
<1>5. TypeOK'
  BY <1>1, <1>2, <1>3 DEF Tick, IInv, TypeOK
<1>6. DeadlineOfStart' /\ StoppedAtDeadline'
  BY <1>1, <1>3, <1>4 DEF Tick, IInv, DeadlineOfStart, StoppedAtDeadline
<1>7. HandleLive' /\ ArmedHasThread' /\ OneTimerThread'
  BY <1>4 DEF Tick, IInv, HandleLive, ArmedHasThread, OneTimerThread
<1>8. NoLateWake'
  BY <1>3, <1>4 DEF Tick, IInv, NoLateWake
<1> QED BY <1>5, <1>6, <1>7, <1>8 DEF IInv

\* IInv is inductive.
THEOREM Invariance == Spec => []IInv
<1>1. IInv /\ [Next]_vars => IInv'
  <2> SUFFICES ASSUME IInv, [Next]_vars PROVE IInv'
    OBVIOUS
  <2>1. CASE Next
    BY <2>1, ArmIInv, EmulatorIInv, TimerIInv, TickIInv DEF Next
  <2>2. CASE UNCHANGED vars
    BY <2>2 DEF vars, IInv, TypeOK, DeadlineOfStart, HandleLive, ArmedHasThread,
                OneTimerThread, NoLateWake, StoppedAtDeadline
  <2> QED BY <2>1, <2>2
<1> QED BY InitIInv, <1>1, PTL DEF Spec

\* Type correctness of the timer and of the start that uses it.
THEOREM TypeCorrect == Spec => []TypeOK
BY Invariance, PTL DEF IInv

\* An armed timer always has its thread (start_timer.py, arm and _run).
THEOREM ArmedTimerHasThread == Spec => []ArmedHasThread
BY Invariance, PTL DEF IInv

\* There is at most one timer thread (start_timer.py, arm and _run).
THEOREM AtMostOneTimer == Spec => []OneTimerThread
BY Invariance, PTL DEF IInv

\* No wakeup is lost (start_timer.py: arm notifies, disarm does not).
THEOREM NoLostWakeup == Spec => []NoLateWake
BY Invariance, PTL DEF IInv

\* A start is stopped only at its own deadline (start_timer.py, disarm).
THEOREM StopsOwnStart == Spec => []StoppedAtDeadline
BY Invariance, PTL DEF IInv

\* Without fairness, every behaviour of the timer and its thread is one of the
\* promise that start() makes to the run loop: a step is a step of TimedStart or
\* leaves the start alone.  A delivered stop finds the start's own timeout at 0,
\* which is DeadlineOfStart.
THEOREM Refinement == Spec => Promise!Spec
<1>1. Init => Promise!Init
  BY DEF Init, Promise!Init
<1>2. ASSUME IInv, [Next]_vars
      PROVE  [Promise!Next]_(Promise!vars)
  <2> USE TimingAssumption, NoneAssumption
  <2> USE DEF Promise!Next, Promise!vars
  <2>1. CASE \E timeout \in 1..MaxTimeout : Arm(timeout)
    BY <2>1 DEF Arm, Promise!Begin
  <2>2. CASE StartUntimed
    BY <2>2 DEF StartUntimed, Promise!Begin
  <2>3. CASE EmuStart
    BY <2>3 DEF EmuStart, Promise!Run
  <2>4. CASE EmuReturn
    BY <2>4 DEF EmuReturn, Promise!End
  <2>5. CASE Disarm
    BY <2>5 DEF Disarm, Promise!Return
  <2>6. CASE \E t \in Threads : TimerStep(t)
    <3>1. PICK t \in Threads : TimerStep(t)
      BY <2>6
    <3>2. CASE StopDelivered(t)
      <4>1. timed /\ left = 0
        BY <1>2, <3>2 DEF StopDelivered, IInv, DeadlineOfStart
      <4> QED BY <3>2, <4>1 DEF StopDelivered, Promise!Stop
    <3>3. CASE ~StopDelivered(t)
      BY <3>1, <3>3 DEF TimerStep, WaitExpires, Exit, Continue, WaitIdle, WaitDeadline, StopLost
    <3> QED BY <3>2, <3>3
  <2>7. CASE Tick
    BY <1>2, <2>7 DEF Tick, Less, Promise!Pass, IInv, TypeOK
  <2>8. CASE UNCHANGED vars
    BY <2>8 DEF vars
  <2> QED BY <1>2, <2>1, <2>2, <2>3, <2>4, <2>5, <2>6, <2>7, <2>8 DEF Next
<1> QED BY <1>1, <1>2, Invariance, PTL DEF Spec, Promise!Spec

-----------------------------------------------------------------------------
(* The command line: the parent and the child. *)

\* A child that a Ctrl-C reached before it had an emulator.
Silent == hist.interrupts # 0 /\ ~child.has_emulator
\* What a child puts into the queue: a report or an error, unless it is silent.
Sound(r) == r.is /\ r.error = "none" => r.report = "report" \/ Silent

\* What the two processes rely on.  The child puts once, at the end; after the last wait
\* the queue is empty for good, unless the wait ended on its deadline; the grace and a
\* termination follow the event; and the program ends well only with a sound result.
PutInv ==
  child.pc \notin {"archiving", "exiting", "dead"} => ~q.buffer.is /\ ~q.pipe.is /\ ~parent.result.is

DeadInv ==
  /\ hist.gaveup = "dead" => child.pc = "dead" /\ ~q.pipe.is
  /\ parent.pc \in {"check", "give up", "join", "output"} /\ hist.gaveup = "no" =>
       child.pc \in {"archiving", "exiting", "dead"} /\ ~q.buffer.is /\ ~q.pipe.is
  /\ parent.pc = "start" => child.pc = "new" /\ hist.gaveup = "no"
  /\ child.pc = "new" => parent.pc \in {"start", "done"}

StopInv ==
  /\ parent.where = "grace" => evt
  /\ parent.pc = "give up" => evt \/ child.pc = "dead"
  /\ hist.terminated => evt

StatusInv ==
  /\ parent.pc = "output" => parent.result.is
  /\ parent.exit = 0 => parent.pc = "done" /\ parent.result.is /\ parent.result.error = "none"

SoundInv ==
  /\ Sound(q.buffer) /\ Sound(q.pipe) /\ Sound(parent.result)
  /\ child.pc = "putting" /\ child.error = "none" => child.report = "report" \/ Silent

HeardInv == PutInv /\ DeadInv /\ StopInv /\ StatusInv /\ SoundInv

\* Every step keeps the types and the invariant.
LEMMA HeardStep == CliTypeOK /\ HeardInv /\ [NextCli]_cli_vars => CliTypeOK' /\ HeardInv'
<1> SUFFICES ASSUME CliTypeOK, HeardInv, [NextCli]_cli_vars
             PROVE  CliTypeOK' /\ HeardInv'
  OBVIOUS
<1>a. /\ cli \in [no_mp : BOOLEAN, limit : BOOLEAN, archive : BOOLEAN]
      /\ child \in Children /\ q \in Queues /\ evt \in BOOLEAN /\ parent \in Parents
      /\ hist \in Histories
      /\ q.buffer.is => ~q.pipe.is
  BY DEF CliTypeOK
<1>b. /\ None \in Results /\ None.is = FALSE
      /\ \A r \in {"none", "report"}, e \in {"none", "error", "sent no report"} :
           /\ Result(r, e) \in Results
           /\ Result(r, e).is = TRUE /\ Result(r, e).report = r /\ Result(r, e).error = e
  BY DEF None, Result, Results
<1>c. /\ hist.interrupts \in Nat /\ child.report \in {"none", "report"}
      /\ child.error \in {"none", "error"}
      /\ child.pc \in {"new", "emulating", "reporting", "putting", "archiving", "exiting", "dead"}
      /\ parent.where \in {"loop", "grace"}
  BY <1>a DEF Histories, Children, Parents
<1>d. /\ hist.interrupts + 1 \in Nat /\ hist.interrupts + 1 # 0
      /\ hist.interrupts > 0 => hist.interrupts # 0
  BY <1>c
<1>p. PutInv /\ DeadInv /\ StopInv /\ StatusInv /\ SoundInv
  BY DEF HeardInv
<1>1. CASE run_main
  <2>1. CASE parent' = [parent EXCEPT !.pc = "done", !.exit = 2] /\ UNCHANGED child
    <3>1. /\ parent.pc = "start" /\ UNCHANGED <<cli, q, evt, hist, child>>
          /\ parent'.pc = "done" /\ parent'.exit = 2
          /\ parent'.where = parent.where /\ parent'.result = parent.result
      BY <1>1, <2>1, <1>a, <1>b, <1>d DEF run_main, ParentGoes, ChildGoes, Parents
    <3>e. parent'.exit # 0
      BY <3>1
    <3>2. parent' \in Parents
      BY <1>1, <2>1, <1>a, <1>b, <1>d DEF run_main, ParentGoes, ChildGoes, Parents, Queues
    <3>3. CliTypeOK'
      BY <3>1, <3>2, <1>a, <1>b, <1>p DEF CliTypeOK, PutInv
    <3>4. PutInv'
      BY <3>1, <1>a, <1>b, <1>c, <1>p DEF PutInv, DeadInv
    <3>5. DeadInv'
      BY <3>1, <1>a, <1>b, <1>c, <1>p DEF PutInv, DeadInv
    <3>6. StopInv'
      BY <3>1, <1>a, <1>b, <1>c, <1>p DEF StopInv, DeadInv
    <3>7. StatusInv'
      BY <3>1, <3>e, <1>a, <1>b, <1>c, <1>p DEF StatusInv, DeadInv
    <3>8. SoundInv'
      BY <3>1, <1>a, <1>b, <1>c, <1>p DEF SoundInv, PutInv, Sound, Silent
    <3> QED BY <3>3, <3>4, <3>5, <3>6, <3>7, <3>8 DEF HeardInv
  <2>2. CASE ParentGoes(IF cli.no_mp THEN "inline" ELSE "top") /\ ChildGoes("emulating")
    <3>1. /\ parent.pc = "start" /\ UNCHANGED <<cli, q, evt, hist>>
          /\ parent'.pc \in {"inline", "top"}
          /\ parent'.where = parent.where /\ parent'.result = parent.result
          /\ parent'.exit = parent.exit
          /\ child'.pc = "emulating"
          /\ child'.report = child.report /\ child'.error = child.error /\ child'.has_emulator = child.has_emulator
      BY <1>1, <2>2, <1>a, <1>b, <1>d DEF run_main, ParentGoes, ChildGoes, Parents, Children
    <3>2. parent' \in Parents
      BY <1>1, <2>2, <1>a, <1>b, <1>d, ZenonT(60) DEF run_main, ParentGoes, ChildGoes, Parents, Queues
    <3>3. child' \in Children
      BY <1>1, <2>2, <1>a, <1>b, <1>d DEF run_main, ParentGoes, ChildGoes, Children
    <3>4. CliTypeOK'
      BY <3>1, <3>2, <3>3, <1>a, <1>b, <1>p DEF CliTypeOK, PutInv
    <3>5. PutInv'
      BY <3>1, <1>a, <1>b, <1>c, <1>p DEF PutInv, DeadInv
    <3>6. DeadInv'
      BY <3>1, <1>a, <1>b, <1>c, <1>p DEF PutInv, DeadInv
    <3>7. StopInv'
      BY <3>1, <1>a, <1>b, <1>c, <1>p DEF StopInv, DeadInv
    <3>8. StatusInv'
      BY <3>1, <1>a, <1>b, <1>c, <1>p DEF StatusInv, DeadInv
    <3>9. SoundInv'
      BY <3>1, <1>a, <1>b, <1>c, <1>p DEF SoundInv, PutInv, Sound, Silent
    <3> QED BY <3>4, <3>5, <3>6, <3>7, <3>8, <3>9 DEF HeardInv
  <2> QED BY <1>1, <2>1, <2>2 DEF run_main
<1>2. CASE run_inline
  <2>1. /\ parent.pc = "inline" /\ q.pipe.is /\ UNCHANGED <<cli, child, evt, hist>>
        /\ parent'.pc = "output" /\ parent'.result = q.pipe
        /\ parent'.where = parent.where /\ parent'.exit = parent.exit
        /\ q'.buffer = q.buffer /\ q'.pipe = None
    BY <1>2, <1>a, <1>b, <1>d DEF run_inline, Parents, Queues
  <2>2. parent' \in Parents
    BY <1>2, <1>a, <1>b, <1>d DEF run_inline, Parents, Queues
  <2>3. q' \in Queues
    BY <1>2, <1>a, <1>b, <1>d DEF run_inline, Queues, Children
  <2>4. CliTypeOK'
    BY <2>1, <2>2, <2>3, <1>a, <1>b, <1>p DEF CliTypeOK, PutInv
  <2>5. PutInv'
    BY <2>1, <1>a, <1>b, <1>c, <1>p DEF PutInv, DeadInv
  <2>6. DeadInv'
    BY <2>1, <1>a, <1>b, <1>c, <1>p DEF PutInv, DeadInv
  <2>7. StopInv'
    BY <2>1, <1>a, <1>b, <1>c, <1>p DEF StopInv, DeadInv
  <2>8. StatusInv'
    BY <2>1, <1>a, <1>b, <1>c, <1>p DEF StatusInv, DeadInv
  <2>9. SoundInv'
    BY <2>1, <1>a, <1>b, <1>c, <1>p, ZenonT(60) DEF SoundInv, PutInv, Sound, Silent
  <2> QED BY <2>4, <2>5, <2>6, <2>7, <2>8, <2>9 DEF HeardInv
<1>3. CASE main
  <2>0. PICK broken \in BOOLEAN :
          parent' = [parent EXCEPT !.pc = "done",
                                   !.exit = IF broken \/ parent.result.error # "none" THEN 1 ELSE 0]
    BY <1>3 DEF main
  <2>x. /\ parent.pc = "output" /\ UNCHANGED <<cli, child, q, evt, hist>>
        /\ \/ parent' = [parent EXCEPT !.pc = "done", !.exit = 1]
           \/ parent' = [parent EXCEPT !.pc = "done", !.exit = 0] /\ parent.result.error = "none"
    <3>1. CASE broken \/ parent.result.error # "none"
      BY <1>3, <2>0, <3>1 DEF main
    <3>2. CASE ~(broken \/ parent.result.error # "none")
      BY <1>3, <2>0, <3>2 DEF main
    <3> QED BY <3>1, <3>2
  <2>y. PICK x \in {0, 1} :
        /\ parent.pc = "output" /\ UNCHANGED <<cli, child, q, evt, hist>>
        /\ parent' = [parent EXCEPT !.pc = "done", !.exit = x]
        /\ (x = 0 => parent.result.error = "none")
    BY <2>x
  <2>1. /\ parent.pc = "output" /\ UNCHANGED <<cli, child, q, evt, hist>>
        /\ parent'.pc = "done"
        /\ parent'.where = parent.where /\ parent'.result = parent.result
        /\ (parent'.exit = 0 => parent.result.error = "none")
    BY <2>y, <1>a, <1>b, <1>d DEF Parents
  <2>2. parent' \in Parents
    BY <2>y, <1>a, <1>b, <1>d DEF Parents, Queues
  <2>3. CliTypeOK'
    BY <2>1, <2>2, <1>a, <1>b, <1>p DEF CliTypeOK, PutInv
  <2>4. PutInv'
    BY <2>1, <1>a, <1>b, <1>c, <1>p DEF PutInv, DeadInv
  <2>5. DeadInv'
    BY <2>1, <1>a, <1>b, <1>c, <1>p DEF PutInv, DeadInv
  <2>6. StopInv'
    BY <2>1, <1>a, <1>b, <1>c, <1>p DEF StopInv, DeadInv
  <2>7. StatusInv'
    BY <2>1, <1>a, <1>b, <1>c, <1>p DEF StatusInv, DeadInv
  <2>8. SoundInv'
    BY <2>1, <1>a, <1>b, <1>c, <1>p DEF SoundInv, PutInv, Sound, Silent
  <2> QED BY <2>3, <2>4, <2>5, <2>6, <2>7, <2>8 DEF HeardInv
<1>4. CASE emulate
  <2>1. /\ child.pc = "emulating" /\ UNCHANGED <<cli, q, evt, parent, hist>>
        /\ child'.pc \in {"reporting", "putting"}
        /\ (child'.pc = "putting" => child'.error = "error" \/ (hist.interrupts # 0 /\ ~child'.has_emulator))
    BY <1>4, <1>a, <1>b, <1>d DEF emulate, Children
  <2>2. child' \in Children
    BY <1>4, <1>a, <1>b, <1>d DEF emulate, Children
  <2>3. CliTypeOK'
    BY <2>1, <2>2, <1>a, <1>b, <1>p DEF CliTypeOK, PutInv
  <2>4. PutInv'
    BY <2>1, <1>a, <1>b, <1>c, <1>p DEF PutInv, DeadInv
  <2>5. DeadInv'
    BY <2>1, <1>a, <1>b, <1>c, <1>p DEF PutInv, DeadInv
  <2>6. StopInv'
    BY <2>1, <1>a, <1>b, <1>c, <1>p DEF StopInv, DeadInv
  <2>7. StatusInv'
    BY <2>1, <1>a, <1>b, <1>c, <1>p DEF StatusInv, DeadInv
  <2>8. SoundInv'
    BY <2>1, <1>a, <1>b, <1>c, <1>p DEF SoundInv, PutInv, Sound, Silent
  <2> QED BY <2>3, <2>4, <2>5, <2>6, <2>7, <2>8 DEF HeardInv
<1>5. CASE build_report
  <2>1. /\ child.pc = "reporting" /\ UNCHANGED <<cli, q, evt, parent, hist>>
        /\ (child'.pc = "putting" /\ (child'.report = "report" \/ child'.error = "error"))
        /\ child'.has_emulator = child.has_emulator
    BY <1>5, <1>a, <1>b, <1>d DEF build_report, Children
  <2>2. child' \in Children
    BY <1>5, <1>a, <1>b, <1>d DEF build_report, Children
  <2>3. CliTypeOK'
    BY <2>1, <2>2, <1>a, <1>b, <1>p DEF CliTypeOK, PutInv
  <2>4. PutInv'
    BY <2>1, <1>a, <1>b, <1>c, <1>p DEF PutInv, DeadInv
  <2>5. DeadInv'
    BY <2>1, <1>a, <1>b, <1>c, <1>p DEF PutInv, DeadInv
  <2>6. StopInv'
    BY <2>1, <1>a, <1>b, <1>c, <1>p DEF StopInv, DeadInv
  <2>7. StatusInv'
    BY <2>1, <1>a, <1>b, <1>c, <1>p DEF StatusInv, DeadInv
  <2>8. SoundInv'
    BY <2>1, <1>a, <1>b, <1>c, <1>p DEF SoundInv, PutInv, Sound, Silent
  <2> QED BY <2>3, <2>4, <2>5, <2>6, <2>7, <2>8 DEF HeardInv
<1>6. CASE put_result
  <2>1. /\ child.pc = "putting" /\ UNCHANGED <<cli, evt, parent, hist>>
        /\ child'.pc \in {"archiving", "exiting"} /\ child'.report = child.report
        /\ child'.error = child.error /\ child'.has_emulator = child.has_emulator
        /\ q'.pipe = q.pipe /\ q'.buffer.is
        /\ q'.buffer.report = child.report /\ q'.buffer.error = child.error
    BY <1>6, <1>a, <1>b, <1>d, ZenonT(60) DEF put_result, ChildGoes, Children, Queues
  <2>2. child' \in Children
    BY <1>6, <1>a, <1>b, <1>d DEF put_result, ChildGoes, Children
  <2>3. q' \in Queues
    BY <1>6, <1>a, <1>b, <1>d DEF put_result, ChildGoes, Queues, Children
  <2>4. CliTypeOK'
    BY <2>1, <2>2, <2>3, <1>a, <1>b, <1>p DEF CliTypeOK, PutInv
  <2>5. PutInv'
    BY <2>1, <1>a, <1>b, <1>c, <1>p DEF PutInv, DeadInv
  <2>6. DeadInv'
    BY <2>1, <1>a, <1>b, <1>c, <1>p DEF PutInv, DeadInv
  <2>7. StopInv'
    BY <2>1, <1>a, <1>b, <1>c, <1>p DEF StopInv, DeadInv
  <2>8. StatusInv'
    BY <2>1, <1>a, <1>b, <1>c, <1>p DEF StatusInv, DeadInv
  <2>9. SoundInv'
    BY <2>1, <1>a, <1>b, <1>c, <1>p DEF SoundInv, PutInv, Sound, Silent
  <2> QED BY <2>4, <2>5, <2>6, <2>7, <2>8, <2>9 DEF HeardInv
<1>7. CASE save_archive
  <2>1. CASE UNCHANGED parent
    <3>1. /\ child.pc = "archiving" /\ UNCHANGED <<cli, q, evt, hist, parent>>
          /\ child'.pc = "exiting" /\ child'.report = child.report /\ child'.error = child.error /\ child'.has_emulator = child.has_emulator
      BY <1>7, <2>1, <1>a, <1>b, <1>d DEF save_archive, ChildGoes, Children
    <3>2. child' \in Children
      BY <1>7, <2>1, <1>a, <1>b, <1>d DEF save_archive, ChildGoes, Children
    <3>3. CliTypeOK'
      BY <3>1, <3>2, <1>a, <1>b, <1>p DEF CliTypeOK, PutInv
    <3>4. PutInv'
      BY <3>1, <1>a, <1>b, <1>c, <1>p DEF PutInv, DeadInv
    <3>5. DeadInv'
      BY <3>1, <1>a, <1>b, <1>c, <1>p DEF PutInv, DeadInv
    <3>6. StopInv'
      BY <3>1, <1>a, <1>b, <1>c, <1>p DEF StopInv, DeadInv
    <3>7. StatusInv'
      BY <3>1, <1>a, <1>b, <1>c, <1>p DEF StatusInv, DeadInv
    <3>8. SoundInv'
      BY <3>1, <1>a, <1>b, <1>c, <1>p DEF SoundInv, PutInv, Sound, Silent
    <3> QED BY <3>3, <3>4, <3>5, <3>6, <3>7, <3>8 DEF HeardInv
  <2>2. CASE parent' = [parent EXCEPT !.pc = "done", !.exit = 1]
    <3>1. /\ child.pc = "archiving" /\ UNCHANGED <<cli, q, evt, hist>>
          /\ parent'.pc = "done" /\ parent'.exit = 1
          /\ parent'.where = parent.where /\ parent'.result = parent.result
          /\ child'.pc = "exiting" /\ child'.report = child.report /\ child'.error = child.error /\ child'.has_emulator = child.has_emulator
      BY <1>7, <2>2, <1>a, <1>b, <1>d DEF save_archive, ChildGoes, Children, Parents
    <3>e. parent'.exit # 0
      BY <3>1
    <3>2. child' \in Children
      BY <1>7, <2>2, <1>a, <1>b, <1>d DEF save_archive, ChildGoes, Children
    <3>3. parent' \in Parents
      BY <1>7, <2>2, <1>a, <1>b, <1>d DEF save_archive, ChildGoes, Parents, Queues
    <3>4. CliTypeOK'
      BY <3>1, <3>2, <3>3, <1>a, <1>b, <1>p DEF CliTypeOK, PutInv
    <3>5. PutInv'
      BY <3>1, <1>a, <1>b, <1>c, <1>p DEF PutInv, DeadInv
    <3>6. DeadInv'
      BY <3>1, <1>a, <1>b, <1>c, <1>p DEF PutInv, DeadInv
    <3>7. StopInv'
      BY <3>1, <1>a, <1>b, <1>c, <1>p DEF StopInv, DeadInv
    <3>8. StatusInv'
      BY <3>1, <3>e, <1>a, <1>b, <1>c, <1>p DEF StatusInv, DeadInv
    <3>9. SoundInv'
      BY <3>1, <1>a, <1>b, <1>c, <1>p DEF SoundInv, PutInv, Sound, Silent
    <3> QED BY <3>4, <3>5, <3>6, <3>7, <3>8, <3>9 DEF HeardInv
  <2> QED BY <1>7, <2>1, <2>2 DEF save_archive
<1>8. CASE feed
  <2>1. /\ child.pc \notin {"new", "dead"} /\ q.buffer.is
        /\ UNCHANGED <<cli, child, evt, parent, hist>>
        /\ q'.buffer = None /\ q'.pipe = q.buffer
    BY <1>8, <1>a, <1>b, <1>d DEF feed, Alive, Queues
  <2>2. q' \in Queues
    BY <1>8, <1>a, <1>b, <1>d DEF feed, Alive, Queues, Children
  <2>3. CliTypeOK'
    BY <2>1, <2>2, <1>a, <1>b, <1>p DEF CliTypeOK, PutInv
  <2>4. PutInv'
    BY <2>1, <1>a, <1>b, <1>c, <1>p DEF PutInv, DeadInv
  <2>5. DeadInv'
    BY <2>1, <1>a, <1>b, <1>c, <1>p DEF PutInv, DeadInv
  <2>6. StopInv'
    BY <2>1, <1>a, <1>b, <1>c, <1>p DEF StopInv, DeadInv
  <2>7. StatusInv'
    BY <2>1, <1>a, <1>b, <1>c, <1>p DEF StatusInv, DeadInv
  <2>8. SoundInv'
    BY <2>1, <1>a, <1>b, <1>c, <1>p, ZenonT(60) DEF SoundInv, PutInv, Sound, Silent
  <2> QED BY <2>3, <2>4, <2>5, <2>6, <2>7, <2>8 DEF HeardInv
<1>9. CASE exit_child
  <2>1. /\ child.pc = "exiting" /\ UNCHANGED <<cli, q, evt, parent, hist>>
        /\ child'.pc = "dead" /\ child'.report = child.report /\ child'.error = child.error /\ child'.has_emulator = child.has_emulator
    BY <1>9, <1>a, <1>b, <1>d DEF exit_child, ChildGoes, Children
  <2>2. child' \in Children
    BY <1>9, <1>a, <1>b, <1>d DEF exit_child, ChildGoes, Children
  <2>3. CliTypeOK'
    BY <2>1, <2>2, <1>a, <1>b, <1>p DEF CliTypeOK, PutInv
  <2>4. PutInv'
    BY <2>1, <1>a, <1>b, <1>c, <1>p DEF PutInv, DeadInv
  <2>5. DeadInv'
    BY <2>1, <1>a, <1>b, <1>c, <1>p DEF PutInv, DeadInv
  <2>6. StopInv'
    BY <2>1, <1>a, <1>b, <1>c, <1>p DEF StopInv, DeadInv
  <2>7. StatusInv'
    BY <2>1, <1>a, <1>b, <1>c, <1>p DEF StatusInv, DeadInv
  <2>8. SoundInv'
    BY <2>1, <1>a, <1>b, <1>c, <1>p DEF SoundInv, PutInv, Sound, Silent
  <2> QED BY <2>3, <2>4, <2>5, <2>6, <2>7, <2>8 DEF HeardInv
<1>10. CASE crash
  <2>1. CASE UNCHANGED parent
    <3>1. /\ child.pc \notin {"new", "dead"} /\ UNCHANGED <<cli, evt, hist, parent>>
          /\ child'.pc = "dead" /\ child'.report = child.report /\ child'.error = child.error /\ child'.has_emulator = child.has_emulator
          /\ q'.buffer = None /\ q'.pipe = q.pipe
      BY <1>10, <2>1, <1>a, <1>b, <1>d DEF crash, ChildGoes, Alive, Children, Queues
    <3>2. child' \in Children
      BY <1>10, <2>1, <1>a, <1>b, <1>d DEF crash, ChildGoes, Alive, Children
    <3>3. q' \in Queues
      BY <1>10, <2>1, <1>a, <1>b, <1>d DEF crash, ChildGoes, Alive, Queues, Children
    <3>4. CliTypeOK'
      BY <3>1, <3>2, <3>3, <1>a, <1>b, <1>p DEF CliTypeOK, PutInv
    <3>5. PutInv'
      BY <3>1, <1>a, <1>b, <1>c, <1>p DEF PutInv, DeadInv
    <3>6. DeadInv'
      BY <3>1, <1>a, <1>b, <1>c, <1>p DEF PutInv, DeadInv
    <3>7. StopInv'
      BY <3>1, <1>a, <1>b, <1>c, <1>p DEF StopInv, DeadInv
    <3>8. StatusInv'
      BY <3>1, <1>a, <1>b, <1>c, <1>p DEF StatusInv, DeadInv
    <3>9. SoundInv'
      BY <3>1, <1>a, <1>b, <1>c, <1>p DEF SoundInv, PutInv, Sound, Silent
    <3> QED BY <3>4, <3>5, <3>6, <3>7, <3>8, <3>9 DEF HeardInv
  <2>2. CASE parent' = [parent EXCEPT !.pc = "done", !.exit = 139]
    <3>1. /\ child.pc \notin {"new", "dead"} /\ UNCHANGED <<cli, evt, hist>>
          /\ parent'.pc = "done" /\ parent'.exit = 139
          /\ parent'.where = parent.where /\ parent'.result = parent.result
          /\ child'.pc = "dead" /\ child'.report = child.report /\ child'.error = child.error /\ child'.has_emulator = child.has_emulator
          /\ q'.buffer = None /\ q'.pipe = q.pipe
      BY <1>10, <2>2, <1>a, <1>b, <1>d, ZenonT(60) DEF crash, ChildGoes, Alive, Children, Queues, Parents
    <3>e. parent'.exit # 0
      BY <3>1
    <3>2. child' \in Children
      BY <1>10, <2>2, <1>a, <1>b, <1>d DEF crash, ChildGoes, Alive, Children
    <3>3. q' \in Queues
      BY <1>10, <2>2, <1>a, <1>b, <1>d DEF crash, ChildGoes, Alive, Queues, Children
    <3>4. parent' \in Parents
      BY <1>10, <2>2, <1>a, <1>b, <1>d, ZenonT(60) DEF crash, ChildGoes, Alive, Parents, Queues
    <3>5. CliTypeOK'
      BY <3>1, <3>2, <3>3, <3>4, <1>a, <1>b, <1>p DEF CliTypeOK, PutInv
    <3>6. PutInv'
      BY <3>1, <1>a, <1>b, <1>c, <1>p DEF PutInv, DeadInv
    <3>7. DeadInv'
      BY <3>1, <1>a, <1>b, <1>c, <1>p DEF PutInv, DeadInv
    <3>8. StopInv'
      BY <3>1, <1>a, <1>b, <1>c, <1>p DEF StopInv, DeadInv
    <3>9. StatusInv'
      BY <3>1, <3>e, <1>a, <1>b, <1>c, <1>p DEF StatusInv, DeadInv
    <3>10. SoundInv'
      BY <3>1, <1>a, <1>b, <1>c, <1>p, ZenonT(60) DEF SoundInv, PutInv, Sound, Silent
    <3> QED BY <3>5, <3>6, <3>7, <3>8, <3>9, <3>10 DEF HeardInv
  <2> QED BY <1>10, <2>1, <2>2 DEF crash
<1>11. CASE wait_for_child
  <2>1. CASE evt' = TRUE /\ parent' = [parent EXCEPT !.pc = "get", !.where = "grace"]
    <3>1. /\ parent.pc = "top" /\ UNCHANGED <<cli, child, q>> /\ evt' = TRUE
          /\ parent'.pc = "get" /\ parent'.where = "grace"
          /\ parent'.result = parent.result /\ parent'.exit = parent.exit
          /\ hist'.gaveup = "no" /\ hist'.interrupts = hist.interrupts /\ hist'.terminated = hist.terminated
      BY <1>11, <2>1, <1>a, <1>b, <1>d DEF wait_for_child, Asks, Parents, Histories
    <3>2. parent' \in Parents
      BY <1>11, <2>1, <1>a, <1>b, <1>d DEF wait_for_child, Parents, Queues
    <3>h. hist' \in Histories
      BY <1>11, <1>a, <1>b, <1>d DEF wait_for_child, Asks, Histories
    <3>3. CliTypeOK'
      BY <3>1, <3>2, <3>h, <1>a, <1>b, <1>p DEF CliTypeOK, PutInv
    <3>4. PutInv'
      BY <3>1, <1>a, <1>b, <1>c, <1>p DEF PutInv, DeadInv
    <3>5. DeadInv'
      BY <3>1, <1>a, <1>b, <1>c, <1>p DEF PutInv, DeadInv
    <3>6. StopInv'
      BY <3>1, <1>a, <1>b, <1>c, <1>p DEF StopInv, DeadInv
    <3>7. StatusInv'
      BY <3>1, <1>a, <1>b, <1>c, <1>p DEF StatusInv, DeadInv
    <3>8. SoundInv'
      BY <3>1, <1>a, <1>b, <1>c, <1>p DEF SoundInv, PutInv, Sound, Silent
    <3> QED BY <3>3, <3>4, <3>5, <3>6, <3>7, <3>8 DEF HeardInv
  <2>2. CASE evt' = evt /\ parent' = [parent EXCEPT !.pc = "get", !.where = "loop"]
    <3>1. /\ parent.pc = "top" /\ UNCHANGED <<cli, child, q, evt>>
          /\ parent'.pc = "get" /\ parent'.where = "loop"
          /\ parent'.result = parent.result /\ parent'.exit = parent.exit
          /\ hist'.gaveup = "no" /\ hist'.interrupts = hist.interrupts /\ hist'.terminated = hist.terminated
      BY <1>11, <2>2, <1>a, <1>b, <1>d DEF wait_for_child, Asks, Parents, Histories
    <3>2. parent' \in Parents
      BY <1>11, <2>2, <1>a, <1>b, <1>d DEF wait_for_child, Parents, Queues
    <3>h. hist' \in Histories
      BY <1>11, <1>a, <1>b, <1>d DEF wait_for_child, Asks, Histories
    <3>3. CliTypeOK'
      BY <3>1, <3>2, <3>h, <1>a, <1>b, <1>p DEF CliTypeOK, PutInv
    <3>4. PutInv'
      BY <3>1, <1>a, <1>b, <1>c, <1>p DEF PutInv, DeadInv
    <3>5. DeadInv'
      BY <3>1, <1>a, <1>b, <1>c, <1>p DEF PutInv, DeadInv
    <3>6. StopInv'
      BY <3>1, <1>a, <1>b, <1>c, <1>p DEF StopInv, DeadInv
    <3>7. StatusInv'
      BY <3>1, <1>a, <1>b, <1>c, <1>p DEF StatusInv, DeadInv
    <3>8. SoundInv'
      BY <3>1, <1>a, <1>b, <1>c, <1>p DEF SoundInv, PutInv, Sound, Silent
    <3> QED BY <3>3, <3>4, <3>5, <3>6, <3>7, <3>8 DEF HeardInv
  <2> QED BY <1>11, <2>1, <2>2 DEF wait_for_child
<1>12. CASE get_result
  <2>1. /\ parent.pc = "get" /\ q.pipe.is /\ UNCHANGED <<cli, child, evt, hist>>
        /\ parent'.pc = "join" /\ parent'.result = q.pipe
        /\ parent'.where = parent.where /\ parent'.exit = parent.exit
        /\ q'.buffer = q.buffer /\ q'.pipe = None
    BY <1>12, <1>a, <1>b, <1>d DEF get_result, Returned, Parents, Queues
  <2>2. parent' \in Parents
    BY <1>12, <1>a, <1>b, <1>d DEF get_result, Returned, Parents, Queues
  <2>3. q' \in Queues
    BY <1>12, <1>a, <1>b, <1>d DEF get_result, Returned, Queues, Children
  <2>4. CliTypeOK'
    BY <2>1, <2>2, <2>3, <1>a, <1>b, <1>p DEF CliTypeOK, PutInv
  <2>5. PutInv'
    BY <2>1, <1>a, <1>b, <1>c, <1>p DEF PutInv, DeadInv
  <2>6. DeadInv'
    BY <2>1, <1>a, <1>b, <1>c, <1>p DEF PutInv, DeadInv
  <2>7. StopInv'
    BY <2>1, <1>a, <1>b, <1>c, <1>p DEF StopInv, DeadInv
  <2>8. StatusInv'
    BY <2>1, <1>a, <1>b, <1>c, <1>p DEF StatusInv, DeadInv
  <2>9. SoundInv'
    BY <2>1, <1>a, <1>b, <1>c, <1>p, ZenonT(60) DEF SoundInv, PutInv, Sound, Silent
  <2> QED BY <2>4, <2>5, <2>6, <2>7, <2>8, <2>9 DEF HeardInv
<1>13. CASE get_empty
  <2>1. /\ parent.pc = "get" /\ UNCHANGED <<cli, child, q, evt, hist>>
        /\ parent'.pc = "empty"
        /\ parent'.where = parent.where /\ parent'.result = parent.result
        /\ parent'.exit = parent.exit
    BY <1>13, <1>a, <1>b, <1>d DEF get_empty, ParentGoes, Parents
  <2>2. parent' \in Parents
    BY <1>13, <1>a, <1>b, <1>d DEF get_empty, ParentGoes, Parents, Queues
  <2>3. CliTypeOK'
    BY <2>1, <2>2, <1>a, <1>b, <1>p DEF CliTypeOK, PutInv
  <2>4. PutInv'
    BY <2>1, <1>a, <1>b, <1>c, <1>p DEF PutInv, DeadInv
  <2>5. DeadInv'
    BY <2>1, <1>a, <1>b, <1>c, <1>p DEF PutInv, DeadInv
  <2>6. StopInv'
    BY <2>1, <1>a, <1>b, <1>c, <1>p DEF StopInv, DeadInv
  <2>7. StatusInv'
    BY <2>1, <1>a, <1>b, <1>c, <1>p DEF StatusInv, DeadInv
  <2>8. SoundInv'
    BY <2>1, <1>a, <1>b, <1>c, <1>p DEF SoundInv, PutInv, Sound, Silent
  <2> QED BY <2>3, <2>4, <2>5, <2>6, <2>7, <2>8 DEF HeardInv
<1>14. CASE get_expired
  <2>1. CASE ParentGoes("get") /\ UNCHANGED hist
    <3>1. /\ parent.pc = "empty" /\ UNCHANGED <<cli, child, q, evt, hist>>
          /\ parent'.pc = "get"
          /\ parent'.where = parent.where /\ parent'.result = parent.result
          /\ parent'.exit = parent.exit
      BY <1>14, <2>1, <1>a, <1>b, <1>d DEF get_expired, ParentGoes, Returned, Alive, Parents
    <3>2. parent' \in Parents
      BY <1>14, <2>1, <1>a, <1>b, <1>d DEF get_expired, ParentGoes, Returned, Alive, Parents,
         Queues
    <3>3. CliTypeOK'
      BY <3>1, <3>2, <1>a, <1>b, <1>p DEF CliTypeOK, PutInv
    <3>4. PutInv'
      BY <3>1, <1>a, <1>b, <1>c, <1>p DEF PutInv, DeadInv
    <3>5. DeadInv'
      BY <3>1, <1>a, <1>b, <1>c, <1>p DEF PutInv, DeadInv
    <3>6. StopInv'
      BY <3>1, <1>a, <1>b, <1>c, <1>p DEF StopInv, DeadInv
    <3>7. StatusInv'
      BY <3>1, <1>a, <1>b, <1>c, <1>p DEF StatusInv, DeadInv
    <3>8. SoundInv'
      BY <3>1, <1>a, <1>b, <1>c, <1>p DEF SoundInv, PutInv, Sound, Silent
    <3> QED BY <3>3, <3>4, <3>5, <3>6, <3>7, <3>8 DEF HeardInv
  <2>2. CASE Returned(None) /\ hist' = [hist EXCEPT !.gaveup = "deadline"]
    <3>1. /\ parent.pc = "empty" /\ child.pc # "dead" /\ UNCHANGED <<cli, child, q, evt>>
          /\ (parent'.pc = IF parent.where = "loop" THEN "check" ELSE "give up")
          /\ parent'.result = None /\ parent'.where = parent.where /\ parent'.exit = parent.exit
          /\ hist'.gaveup = "deadline" /\ hist'.interrupts = hist.interrupts
          /\ hist'.terminated = hist.terminated
      BY <1>14, <2>2, <1>a, <1>b, <1>d DEF get_expired, ParentGoes, Returned, Alive, Parents,
         Histories
    <3>2. parent' \in Parents
      BY <1>14, <2>2, <1>a, <1>b, <1>d, ZenonT(60) DEF get_expired, ParentGoes, Returned, Alive, Parents,
         Queues
    <3>3. hist' \in Histories
      BY <1>14, <2>2, <1>a, <1>b, <1>d DEF get_expired, ParentGoes, Returned, Alive, Histories
    <3>4. CliTypeOK'
      BY <3>1, <3>2, <3>3, <1>a, <1>b, <1>p DEF CliTypeOK, PutInv
    <3>5. PutInv'
      BY <3>1, <1>a, <1>b, <1>c, <1>p DEF PutInv, DeadInv
    <3>6. DeadInv'
      BY <3>1, <1>a, <1>b, <1>c, <1>p DEF PutInv, DeadInv
    <3>7. StopInv'
      BY <3>1, <1>a, <1>b, <1>c, <1>p DEF StopInv, DeadInv
    <3>8. StatusInv'
      BY <3>1, <1>a, <1>b, <1>c, <1>p DEF StatusInv, DeadInv
    <3>9. SoundInv'
      BY <3>1, <1>a, <1>b, <1>c, <1>p DEF SoundInv, PutInv, Sound, Silent
    <3> QED BY <3>4, <3>5, <3>6, <3>7, <3>8, <3>9 DEF HeardInv
  <2> QED BY <1>14, <2>1, <2>2 DEF get_expired
<1>15. CASE get_last
  <2>1. CASE q.pipe.is
    <3>0. /\ q' = [q EXCEPT !.pipe = None] /\ Returned(q.pipe) /\ UNCHANGED hist
          /\ parent.pc = "empty" /\ UNCHANGED <<cli, child, evt>>
      BY <1>15, <2>1 DEF get_last
    <3>1. /\ parent.pc = "empty" /\ q.pipe.is /\ UNCHANGED <<cli, child, evt, hist>>
          /\ parent'.pc = "join" /\ parent'.result = q.pipe
          /\ parent'.where = parent.where /\ parent'.exit = parent.exit
          /\ q'.buffer = q.buffer /\ q'.pipe = None
      BY <3>0, <2>1, <1>a, <1>b, <1>d DEF Returned, Alive, Parents, Queues
    <3>2. parent' \in Parents
      BY <3>0, <2>1, <1>a, <1>b, <1>d DEF Returned, Alive, Parents, Queues
    <3>3. q' \in Queues
      BY <3>0, <2>1, <1>a, <1>b, <1>d DEF Returned, Alive, Queues, Children
    <3>4. CliTypeOK'
      BY <3>1, <3>2, <3>3, <1>a, <1>b, <1>p DEF CliTypeOK, PutInv
    <3>5. PutInv'
      BY <3>1, <1>a, <1>b, <1>c, <1>p DEF PutInv, DeadInv
    <3>6. DeadInv'
      BY <3>1, <1>a, <1>b, <1>c, <1>p DEF PutInv, DeadInv
    <3>7. StopInv'
      BY <3>1, <1>a, <1>b, <1>c, <1>p DEF StopInv, DeadInv
    <3>8. StatusInv'
      BY <3>1, <1>a, <1>b, <1>c, <1>p DEF StatusInv, DeadInv
    <3>9. SoundInv'
      BY <3>1, <1>a, <1>b, <1>c, <1>p, ZenonT(60) DEF SoundInv, PutInv, Sound, Silent
    <3> QED BY <3>4, <3>5, <3>6, <3>7, <3>8, <3>9 DEF HeardInv
  <2>2. CASE ~q.pipe.is
    <3>0. /\ Returned(None) /\ hist' = [hist EXCEPT !.gaveup = "dead"]
          /\ parent.pc = "empty" /\ ~Alive /\ UNCHANGED <<cli, child, evt, q>>
      BY <1>15, <2>2 DEF get_last
    <3>1. /\ parent.pc = "empty" /\ child.pc \in {"new", "dead"}
          /\ UNCHANGED <<cli, child, evt, q>> /\ ~q.pipe.is
          /\ (parent'.pc = IF parent.where = "loop" THEN "check" ELSE "give up")
          /\ parent'.result = None /\ parent'.where = parent.where /\ parent'.exit = parent.exit
          /\ hist'.gaveup = "dead" /\ hist'.interrupts = hist.interrupts
          /\ hist'.terminated = hist.terminated
      BY <3>0, <2>2, <1>a, <1>b, <1>d DEF Returned, Alive, Parents, Histories
    <3>2. parent' \in Parents
      BY <3>0, <2>2, <1>a, <1>b, <1>d, ZenonT(60) DEF Returned, Alive, Parents, Queues
    <3>3. hist' \in Histories
      BY <3>0, <2>2, <1>a, <1>b, <1>d DEF Returned, Alive, Histories
    <3>4. CliTypeOK'
      BY <3>1, <3>2, <3>3, <1>a, <1>b, <1>p DEF CliTypeOK, PutInv
    <3>5. PutInv'
      BY <3>1, <1>a, <1>b, <1>c, <1>p DEF PutInv, DeadInv
    <3>6. DeadInv'
      BY <3>1, <1>a, <1>b, <1>c, <1>p DEF PutInv, DeadInv
    <3>7. StopInv'
      BY <3>1, <1>a, <1>b, <1>c, <1>p DEF StopInv, DeadInv
    <3>8. StatusInv'
      BY <3>1, <1>a, <1>b, <1>c, <1>p DEF StatusInv, DeadInv
    <3>9. SoundInv'
      BY <3>1, <1>a, <1>b, <1>c, <1>p DEF SoundInv, PutInv, Sound, Silent
    <3> QED BY <3>4, <3>5, <3>6, <3>7, <3>8, <3>9 DEF HeardInv
  <2> QED BY <1>15, <2>1, <2>2 DEF get_last
<1>16. CASE check_child
  <2>1. /\ parent.pc = "check" /\ UNCHANGED <<cli, child, q, evt, hist>>
        /\ (parent'.pc = IF child.pc \notin {"new", "dead"} THEN "top" ELSE "give up")
        /\ parent'.where = parent.where /\ parent'.result = parent.result
        /\ parent'.exit = parent.exit
    BY <1>16, <1>a, <1>b, <1>d DEF check_child, ParentGoes, Alive, Parents
  <2>2. parent' \in Parents
    BY <1>16, <1>a, <1>b, <1>d, ZenonT(60) DEF check_child, ParentGoes, Alive, Parents, Queues
  <2>3. CliTypeOK'
    BY <2>1, <2>2, <1>a, <1>b, <1>p DEF CliTypeOK, PutInv
  <2>4. PutInv'
    BY <2>1, <1>a, <1>b, <1>c, <1>p DEF PutInv, DeadInv
  <2>5. DeadInv'
    BY <2>1, <1>a, <1>b, <1>c, <1>p DEF PutInv, DeadInv
  <2>6. StopInv'
    BY <2>1, <1>a, <1>b, <1>c, <1>p DEF StopInv, DeadInv
  <2>7. StatusInv'
    BY <2>1, <1>a, <1>b, <1>c, <1>p DEF StatusInv, DeadInv
  <2>8. SoundInv'
    BY <2>1, <1>a, <1>b, <1>c, <1>p DEF SoundInv, PutInv, Sound, Silent
  <2> QED BY <2>3, <2>4, <2>5, <2>6, <2>7, <2>8 DEF HeardInv
<1>17. CASE KeyboardInterrupt
  <2>1. CASE /\ evt' = TRUE /\ parent' = [parent EXCEPT !.pc = "get", !.where = "grace"]
            /\ hist' = [hist EXCEPT !.interrupts = hist.interrupts + 1, !.gaveup = "no"]
    <3>0. /\ hist' = [hist EXCEPT !.interrupts = hist.interrupts + 1, !.gaveup = "no"]
          /\ child' = IF cli.no_mp THEN [child EXCEPT !.pc = "dead"] ELSE child
          /\ parent.pc \notin {"start", "done"} /\ UNCHANGED <<cli, q>>
      BY <1>17, <2>1 DEF KeyboardInterrupt
    <3>1. /\ parent.pc \notin {"start", "done"} /\ UNCHANGED <<cli, q>> /\ evt' = TRUE
          /\ parent'.pc = "get" /\ parent'.where = "grace"
          /\ parent'.result = parent.result /\ parent'.exit = parent.exit
          /\ hist'.interrupts # 0 /\ hist'.terminated = hist.terminated
          /\ hist'.gaveup = "no"
          /\ child'.pc \in {child.pc, "dead"} /\ child'.report = child.report
          /\ child'.error = child.error /\ child'.has_emulator = child.has_emulator
      BY <3>0, <2>1, <1>a, <1>b, <1>d, ZenonT(60) DEF Parents, Histories, Children
    <3>2. parent' \in Parents
      BY <3>0, <2>1, <1>a, <1>b, <1>d DEF Parents, Queues
    <3>3. hist' \in Histories
      BY <3>0, <2>1, <1>a, <1>b, <1>d DEF Histories
    <3>4. child' \in Children
      BY <3>0, <2>1, <1>a, <1>b, <1>d DEF Children
    <3>5. CliTypeOK'
      BY <3>1, <3>2, <3>3, <3>4, <1>a, <1>b, <1>p DEF CliTypeOK, PutInv
    <3>6. PutInv'
      BY <3>1, <1>a, <1>b, <1>c, <1>p DEF PutInv, DeadInv
    <3>7. DeadInv'
      BY <3>1, <1>a, <1>b, <1>c, <1>p DEF PutInv, DeadInv
    <3>8. StopInv'
      BY <3>1, <1>a, <1>b, <1>c, <1>p DEF StopInv, DeadInv
    <3>9. StatusInv'
      BY <3>1, <1>a, <1>b, <1>c, <1>p DEF StatusInv, DeadInv
    <3>10. SoundInv'
      BY <3>1, <1>a, <1>b, <1>c, <1>p, ZenonT(60) DEF SoundInv, PutInv, Sound, Silent
    <3> QED BY <3>5, <3>6, <3>7, <3>8, <3>9, <3>10 DEF HeardInv
  <2>2. CASE /\ UNCHANGED evt /\ parent' = [parent EXCEPT !.pc = "done", !.exit = 130]
            /\ hist' = [hist EXCEPT !.interrupts = hist.interrupts + 1]
    <3>0. /\ hist' = [hist EXCEPT !.interrupts = hist.interrupts + 1]
          /\ child' = IF cli.no_mp THEN [child EXCEPT !.pc = "dead"] ELSE child
          /\ parent.pc \notin {"start", "done"} /\ UNCHANGED <<cli, q>>
      BY <1>17, <2>2 DEF KeyboardInterrupt
    <3>1. /\ parent.pc \notin {"start", "done"} /\ UNCHANGED <<cli, q, evt>>
          /\ parent'.pc = "done" /\ parent'.exit = 130
          /\ parent'.where = parent.where /\ parent'.result = parent.result
          /\ hist'.interrupts # 0 /\ hist'.terminated = hist.terminated
          /\ hist'.gaveup = hist.gaveup
          /\ child'.pc \in {child.pc, "dead"} /\ child'.report = child.report
          /\ child'.error = child.error /\ child'.has_emulator = child.has_emulator
      BY <3>0, <2>2, <1>a, <1>b, <1>d, ZenonT(60) DEF Parents, Histories, Children
    <3>e. parent'.exit # 0
      BY <3>1
    <3>2. parent' \in Parents
      BY <3>0, <2>2, <1>a, <1>b, <1>d DEF Parents, Queues
    <3>3. hist' \in Histories
      BY <3>0, <2>2, <1>a, <1>b, <1>d DEF Histories
    <3>4. child' \in Children
      BY <3>0, <2>2, <1>a, <1>b, <1>d DEF Children
    <3>5. CliTypeOK'
      BY <3>1, <3>2, <3>3, <3>4, <1>a, <1>b, <1>p DEF CliTypeOK, PutInv
    <3>6. PutInv'
      BY <3>1, <1>a, <1>b, <1>c, <1>p DEF PutInv, DeadInv
    <3>7. DeadInv'
      BY <3>1, <1>a, <1>b, <1>c, <1>p DEF PutInv, DeadInv
    <3>8. StopInv'
      BY <3>1, <1>a, <1>b, <1>c, <1>p DEF StopInv, DeadInv
    <3>9. StatusInv'
      BY <3>1, <3>e, <1>a, <1>b, <1>c, <1>p DEF StatusInv, DeadInv
    <3>10. SoundInv'
      BY <3>1, <1>a, <1>b, <1>c, <1>p, ZenonT(60) DEF SoundInv, PutInv, Sound, Silent
    <3> QED BY <3>5, <3>6, <3>7, <3>8, <3>9, <3>10 DEF HeardInv
  <2> QED BY <1>17, <2>1, <2>2 DEF KeyboardInterrupt
<1>18. CASE give_up
  <2>1. CASE Alive
    <3>0. /\ ChildGoes("dead") /\ q' = [q EXCEPT !.buffer = None]
          /\ hist' = [hist EXCEPT !.terminated = TRUE]
          /\ ParentGoes("join") /\ parent.pc = "give up" /\ UNCHANGED <<cli, evt>>
      BY <1>18, <2>1 DEF give_up
    <3>1. /\ parent.pc = "give up" /\ child.pc # "dead" /\ UNCHANGED <<cli, evt>>
          /\ parent'.pc = "join"
          /\ parent'.where = parent.where /\ parent'.result = parent.result
          /\ parent'.exit = parent.exit
          /\ child'.pc = "dead" /\ child'.report = child.report /\ child'.error = child.error /\ child'.has_emulator = child.has_emulator
          /\ q'.buffer = None /\ q'.pipe = q.pipe
          /\ hist'.terminated = TRUE /\ hist'.interrupts = hist.interrupts
          /\ hist'.gaveup = hist.gaveup
      BY <3>0, <2>1, <1>a, <1>b, <1>d DEF ParentGoes, ChildGoes, Alive, Parents, Children,
         Queues, Histories
    <3>2. parent' \in Parents
      BY <3>0, <2>1, <1>a, <1>b, <1>d DEF ParentGoes, ChildGoes, Alive, Parents, Queues
    <3>3. child' \in Children
      BY <3>0, <2>1, <1>a, <1>b, <1>d DEF ParentGoes, ChildGoes, Alive, Children
    <3>4. q' \in Queues
      BY <3>0, <2>1, <1>a, <1>b, <1>d DEF ParentGoes, ChildGoes, Alive, Queues, Children
    <3>5. hist' \in Histories
      BY <3>0, <2>1, <1>a, <1>b, <1>d DEF ParentGoes, ChildGoes, Alive, Histories
    <3>6. CliTypeOK'
      BY <3>1, <3>2, <3>3, <3>4, <3>5, <1>a, <1>b, <1>p DEF CliTypeOK, PutInv
    <3>7. PutInv'
      BY <3>1, <1>a, <1>b, <1>c, <1>p DEF PutInv, DeadInv
    <3>8. DeadInv'
      BY <3>1, <1>a, <1>b, <1>c, <1>p DEF PutInv, DeadInv
    <3>9. StopInv'
      BY <3>1, <1>a, <1>b, <1>c, <1>p DEF StopInv, DeadInv
    <3>10. StatusInv'
      BY <3>1, <1>a, <1>b, <1>c, <1>p DEF StatusInv, DeadInv
    <3>11. SoundInv'
      BY <3>1, <1>a, <1>b, <1>c, <1>p, ZenonT(60) DEF SoundInv, PutInv, Sound, Silent
    <3> QED BY <3>6, <3>7, <3>8, <3>9, <3>10, <3>11 DEF HeardInv
  <2>2. CASE ~Alive
    <3>1. /\ parent.pc = "give up" /\ UNCHANGED <<cli, evt, child, q, hist>>
          /\ parent'.pc = "join"
          /\ parent'.where = parent.where /\ parent'.result = parent.result
          /\ parent'.exit = parent.exit
      BY <1>18, <2>2, <1>a, <1>b, <1>d DEF give_up, ParentGoes, ChildGoes, Alive, Parents
    <3>2. parent' \in Parents
      BY <1>18, <2>2, <1>a, <1>b, <1>d DEF give_up, ParentGoes, ChildGoes, Alive, Parents,
         Queues
    <3>3. CliTypeOK'
      BY <3>1, <3>2, <1>a, <1>b, <1>p DEF CliTypeOK, PutInv
    <3>4. PutInv'
      BY <3>1, <1>a, <1>b, <1>c, <1>p DEF PutInv, DeadInv
    <3>5. DeadInv'
      BY <3>1, <1>a, <1>b, <1>c, <1>p DEF PutInv, DeadInv
    <3>6. StopInv'
      BY <3>1, <1>a, <1>b, <1>c, <1>p DEF StopInv, DeadInv
    <3>7. StatusInv'
      BY <3>1, <1>a, <1>b, <1>c, <1>p DEF StatusInv, DeadInv
    <3>8. SoundInv'
      BY <3>1, <1>a, <1>b, <1>c, <1>p DEF SoundInv, PutInv, Sound, Silent
    <3> QED BY <3>3, <3>4, <3>5, <3>6, <3>7, <3>8 DEF HeardInv
  <2> QED BY <1>18, <2>1, <2>2 DEF give_up
<1>19. CASE join_child
  <2>1. /\ parent.pc = "join" /\ UNCHANGED <<cli, child, q, evt, hist>>
        /\ parent'.pc = "output" /\ parent'.where = parent.where /\ parent'.exit = parent.exit
        /\ child.pc \in {"new", "dead"}
        /\ parent'.result =
             IF parent.result.is THEN parent.result ELSE Result("none", "sent no report")
    BY <1>19, <1>a, <1>b, <1>d DEF join_child, Alive, Parents
  <2>2. parent' \in Parents
    BY <1>19, <1>a, <1>b, <1>d, ZenonT(60) DEF join_child, Parents, Queues
  <2>3. CliTypeOK'
    BY <2>1, <2>2, <1>a, <1>b, <1>p DEF CliTypeOK, PutInv
  <2>4. PutInv'
    BY <2>1, <1>a, <1>b, <1>c, <1>p DEF PutInv, DeadInv
  <2>5. DeadInv'
    BY <2>1, <1>a, <1>b, <1>c, <1>p DEF PutInv, DeadInv
  <2>6. StopInv'
    BY <2>1, <1>a, <1>b, <1>c, <1>p DEF StopInv, DeadInv
  <2>7. StatusInv'
    BY <2>1, <1>a, <1>b, <1>c, <1>p DEF StatusInv, DeadInv
  <2>8. SoundInv'
    BY <2>1, <1>a, <1>b, <1>c, <1>p DEF SoundInv, PutInv, Sound, Silent
  <2> QED BY <2>3, <2>4, <2>5, <2>6, <2>7, <2>8 DEF HeardInv
<1>20. CASE UNCHANGED cli_vars
  <2>1. UNCHANGED <<cli, child, q, evt, parent, hist>>
    BY <1>20 DEF cli_vars
  <2>2. CliTypeOK'
    BY <2>1 DEF CliTypeOK
  <2>3. PutInv' /\ DeadInv'
    BY <2>1, <1>p DEF PutInv, DeadInv
  <2>4. StopInv' /\ StatusInv' /\ SoundInv'
    BY <2>1, <1>p DEF StopInv, StatusInv, SoundInv, Sound, Silent
  <2> QED BY <2>2, <2>3, <2>4 DEF HeardInv
<1> QED
  BY <1>1, <1>2, <1>3, <1>4, <1>5, <1>6, <1>7, <1>8, <1>9, <1>10, <1>11, <1>12, <1>13, <1>14,
     <1>15, <1>16, <1>17, <1>18, <1>19, <1>20
     DEF NextCli, emulate_binary, get_child_result

\* The types and the invariant hold in every state.
THEOREM CommandLineInvariance == SpecCli => [](CliTypeOK /\ HeardInv)
<1>1. InitCli => CliTypeOK
  <2> SUFFICES ASSUME InitCli
               PROVE  CliTypeOK
    OBVIOUS
  <2>1. None \in Results /\ None.is = FALSE
    BY DEF None, Results
  <2>2. child \in Children /\ hist \in Histories /\ evt \in BOOLEAN
    BY DEF InitCli, Children, Histories
  <2>3. parent \in Parents
    BY <2>1 DEF InitCli, Parents
  <2>4. q \in Queues /\ ~q.buffer.is
    BY <2>1 DEF InitCli, Queues
  <2> QED BY <2>2, <2>3, <2>4 DEF InitCli, CliTypeOK
<1>2. InitCli => HeardInv
  BY DEF InitCli, HeardInv, PutInv, DeadInv, StopInv, StatusInv, SoundInv, Sound, Silent, None
<1> QED BY <1>1, <1>2, HeardStep, PTL DEF SpecCli

\* The parent leaves a report in the queue only when the report came after the last wait
\* ended on its deadline, terminates no child that was not asked to stop, and ends with 0
\* only when the emulation has a report and no error, or when a Ctrl-C reached the child
\* before it had an emulator (get_child_result, wait_for_child, main), for any number of Ctrl-C.
THEOREM ChildIsAlwaysHeard == SpecCli => []ChildIsHeard
<1>1. CliTypeOK /\ HeardInv => ChildIsHeard
  <2> SUFFICES ASSUME CliTypeOK, HeardInv PROVE ChildIsHeard OBVIOUS
  <2>1. /\ hist.interrupts \in Nat /\ hist.gaveup \in {"no", "deadline", "dead"}
        /\ hist.interrupts # 0 => hist.interrupts > 0
    BY DEF CliTypeOK, Histories
  <2>2. SentReportsAreRead BY <2>1 DEF HeardInv, DeadInv, SentReportsAreRead
  <2>3. TerminatedWasAsked BY DEF HeardInv, StopInv, TerminatedWasAsked
  <2>4. SuccessHasReport BY <2>1 DEF HeardInv, StatusInv, SoundInv, Sound, Silent, SuccessHasReport
  <2> QED BY <2>2, <2>3, <2>4 DEF ChildIsHeard
<1> QED BY <1>1, CommandLineInvariance, PTL
=============================================================================
