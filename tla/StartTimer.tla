----------------------------- MODULE StartTimer -----------------------------
(***************************************************************************)
(* The timeout of one Unicorn start (speakeasy/engines/start_timer.py) and *)
(* the engine's start() that arms and disarms it                           *)
(* (speakeasy/engines/unicorn_eng.py).                                     *)
(*                                                                         *)
(* Two kinds of threads share the fields _deadline and _thread under the   *)
(* condition variable _cond: the emulator thread, which calls start(), and *)
(* the timer thread, which sleeps until the deadline and then repeats the  *)
(* stop until the start disarms the timer.  Every critical section of      *)
(* _cond runs from an acquire to a release or a wait, so it is one action. *)
(*                                                                         *)
(* Time is counted in ticks, as the ticks left: of the deadline, of a wait *)
(* and of the timeout the caller asked for.                                *)
(***************************************************************************)
EXTENDS Naturals

CONSTANTS
  Threads,      \* identities of the timer threads that may be created
  MaxTimeout,   \* the longest timeout of a start, in ticks
  IdleExit,     \* IDLE_EXIT, in ticks
  StopRepeat,   \* STOP_REPEAT, in ticks
  NoThread,     \* the value None of _thread
  NoDeadline    \* the value None of _deadline

ASSUME TimingAssumption ==
  /\ MaxTimeout \in Nat \ {0}
  /\ IdleExit \in Nat \ {0}
  /\ StopRepeat \in Nat \ {0}

ASSUME NoneAssumption ==
  /\ NoThread \notin Threads
  /\ NoDeadline \notin Nat

VARIABLES
  start,     \* where engine.start() is: "idle", "entered", "running", "returning"
  timed,     \* the start has a timeout
  left,      \* ticks left of the timeout the caller gave
  cause,     \* why the last emu_start returned: "none", "guest" or "timer"
  deadline,  \* _deadline
  handle,    \* _thread
  tpc,       \* where each timer thread is
  wake       \* ticks left of each timer thread's wait

vars == <<start, timed, left, cause, deadline, handle, tpc, wake>>

\* Where a timer thread can be.  "idle", "sleep" and "repeat" are the three
\* waits of _run; "expired" is an idle wait that timed out and does not yet
\* hold the lock again; "loop" is a thread that will run the loop's body.
Waiting == {"idle", "sleep", "repeat"}
ThreadStates == Waiting \cup {"absent", "expired", "loop"}

TypeOK ==
  /\ start \in {"idle", "entered", "running", "returning"}
  /\ timed \in BOOLEAN
  /\ left \in Nat
  /\ cause \in {"none", "guest", "timer"}
  /\ deadline \in Nat \cup {NoDeadline}
  /\ handle \in Threads \cup {NoThread}
  /\ tpc \in [Threads -> ThreadStates]
  /\ wake \in [Threads -> Nat]

Init ==
  /\ start = "idle" /\ timed = FALSE /\ left = 0 /\ cause = "none"
  /\ deadline = NoDeadline /\ handle = NoThread
  /\ tpc = [t \in Threads |-> "absent"]
  /\ wake = [t \in Threads |-> 0]

-----------------------------------------------------------------------------
(* The emulator thread. *)

\* Mutant of Notified: arm() does not notify.
NotifiedNobody(t) == tpc[t]

\* notify(): a thread that waits runs the loop again, any other is not affected.
Notified(t) == IF tpc[t] \in Waiting THEN "loop" ELSE tpc[t]

\* Mutant of Arm: a new thread for every arm().
ArmAlwaysStarts(timeout) ==
  /\ start = "idle"
  /\ start' = "entered" /\ timed' = TRUE /\ left' = timeout /\ cause' = "none"
  /\ deadline' = timeout
  /\ \E t \in Threads : /\ tpc[t] = "absent"
                        /\ handle' = t
                        /\ tpc' = [tpc EXCEPT ![t] = "loop"]
  /\ UNCHANGED wake

\* start() with a timeout: arm() sets the deadline, and starts the thread or
\* wakes it.
Arm(timeout) ==
  /\ start = "idle"
  /\ start' = "entered" /\ timed' = TRUE /\ left' = timeout /\ cause' = "none"
  /\ deadline' = timeout
  /\ \/ /\ handle = NoThread
        /\ \E t \in Threads : /\ tpc[t] = "absent"
                              /\ handle' = t
                              /\ tpc' = [tpc EXCEPT ![t] = "loop"]
     \/ /\ handle # NoThread
        /\ tpc' = [tpc EXCEPT ![handle] = Notified(handle)]
        /\ UNCHANGED handle
  /\ UNCHANGED wake

\* start() with a timeout of 0: the timer is not used.
StartUntimed ==
  /\ start = "idle"
  /\ start' = "entered" /\ timed' = FALSE /\ left' = 0 /\ cause' = "none"
  /\ UNCHANGED <<deadline, handle, tpc, wake>>

\* emu_start begins to run guest code.
EmuStart ==
  /\ start = "entered"
  /\ start' = "running"
  /\ UNCHANGED <<timed, left, cause, deadline, handle, tpc, wake>>

\* emu_start returns or raises on its own: a hook stopped it, the count ran
\* out, or the guest failed.
EmuReturn ==
  /\ start = "running"
  /\ start' = "returning" /\ cause' = "guest"
  /\ UNCHANGED <<timed, left, deadline, handle, tpc, wake>>

\* Mutant of Disarm: the deadline is not cleared.
DisarmKeepsDeadline ==
  /\ start = "returning"
  /\ start' = "idle"
  /\ UNCHANGED <<timed, left, cause, deadline, handle, tpc, wake>>

\* The finally of start(): disarm() clears the deadline and notifies nobody.
Disarm ==
  /\ start = "returning"
  /\ start' = "idle"
  /\ deadline' = IF timed THEN NoDeadline ELSE deadline
  /\ UNCHANGED <<timed, left, cause, handle, tpc, wake>>

-----------------------------------------------------------------------------
(* The timer thread. *)

\* Mutant of WaitExpires: the idle wait has no timeout.
WaitExpiresUnlessIdle(t) ==
  /\ tpc[t] \in Waiting \ {"idle"} /\ wake[t] = 0
  /\ tpc' = [tpc EXCEPT ![t] = "loop"]
  /\ UNCHANGED <<start, timed, left, cause, deadline, handle, wake>>

\* A wait reaches its timeout.  The thread must get the lock again before it
\* goes on, and an arm() may come first.
WaitExpires(t) ==
  /\ tpc[t] \in Waiting /\ wake[t] = 0
  /\ tpc' = [tpc EXCEPT ![t] = IF tpc[t] = "idle" THEN "expired" ELSE "loop"]
  /\ UNCHANGED <<start, timed, left, cause, deadline, handle, wake>>

\* Mutant of Exit: the deadline is not read again after the wait.
ExitUnchecked(t) ==
  /\ tpc[t] = "expired"
  /\ handle' = NoThread
  /\ tpc' = [tpc EXCEPT ![t] = "absent"]
  /\ UNCHANGED <<start, timed, left, cause, deadline, wake>>

\* The thread exits if its idle wait timed out and the timer is still not armed.
Exit(t) ==
  /\ tpc[t] = "expired" /\ deadline = NoDeadline
  /\ handle' = NoThread
  /\ tpc' = [tpc EXCEPT ![t] = "absent"]
  /\ UNCHANGED <<start, timed, left, cause, deadline, wake>>

\* The idle wait timed out, but an arm() came before the thread got the lock.
Continue(t) ==
  /\ tpc[t] = "expired" /\ deadline # NoDeadline
  /\ tpc' = [tpc EXCEPT ![t] = "loop"]
  /\ UNCHANGED <<start, timed, left, cause, deadline, handle, wake>>

WaitFor(t, kind, ticks) ==
  /\ tpc' = [tpc EXCEPT ![t] = kind]
  /\ wake' = [wake EXCEPT ![t] = ticks]

\* The timer is not armed: wait IDLE_EXIT.
WaitIdle(t) ==
  /\ tpc[t] = "loop" /\ deadline = NoDeadline
  /\ WaitFor(t, "idle", IdleExit)
  /\ UNCHANGED <<start, timed, left, cause, deadline, handle>>

\* The deadline did not pass: wait for the time that remains.
WaitDeadline(t) ==
  /\ tpc[t] = "loop" /\ deadline \in Nat /\ deadline > 0
  /\ WaitFor(t, "sleep", deadline)
  /\ UNCHANGED <<start, timed, left, cause, deadline, handle>>

\* The deadline passed: stop() ends the start if guest code runs ...
StopDelivered(t) ==
  /\ tpc[t] = "loop" /\ deadline = 0
  /\ start = "running"
  /\ start' = "returning" /\ cause' = "timer"
  /\ WaitFor(t, "repeat", StopRepeat)
  /\ UNCHANGED <<timed, left, deadline, handle>>

\* Mutant of StopLost: the stop is sent once.
StopOnce(t) ==
  /\ tpc[t] = "loop" /\ deadline = 0
  /\ deadline' = NoDeadline
  /\ WaitFor(t, "repeat", StopRepeat)
  /\ UNCHANGED <<start, timed, left, cause, handle>>

\* ... and has no effect if Unicorn loses the stop or runs no guest code.
StopLost(t) ==
  /\ tpc[t] = "loop" /\ deadline = 0
  /\ WaitFor(t, "repeat", StopRepeat)
  /\ UNCHANGED <<start, timed, left, cause, deadline, handle>>

-----------------------------------------------------------------------------
\* Mutant of Less: time past the deadline counts as negative time left.
LessUnclamped(n) == n - 1

\* Ticks left after a tick: a deadline that passed stays passed.
Less(n) == IF n = 0 THEN 0 ELSE n - 1

\* One tick of time.monotonic().
Tick ==
  /\ left' = Less(left)
  /\ deadline' = IF deadline = NoDeadline THEN NoDeadline ELSE Less(deadline)
  /\ wake' = [t \in Threads |-> Less(wake[t])]
  /\ UNCHANGED <<start, timed, cause, handle, tpc>>

TimerStep(t) ==
  \/ WaitExpires(t) \/ Exit(t) \/ Continue(t)
  \/ WaitIdle(t) \/ WaitDeadline(t) \/ StopDelivered(t) \/ StopLost(t)

Next ==
  \/ \E timeout \in 1..MaxTimeout : Arm(timeout)
  \/ StartUntimed \/ EmuStart \/ EmuReturn \/ Disarm
  \/ \E t \in Threads : TimerStep(t)
  \/ Tick

\* The operating system runs every thread and the clock goes on.  A stop that
\* is repeated without end is delivered in the end (the reason for the
\* repetition: Unicorn issue 2458).  Nothing makes guest code return by itself.
Fairness ==
  /\ WF_vars(EmuStart) /\ WF_vars(Disarm)
  /\ WF_vars(Tick)
  /\ \A t \in Threads : WF_vars(TimerStep(t)) /\ SF_vars(StopDelivered(t))

Spec == Init /\ [][Next]_vars
FairSpec == Spec /\ Fairness

-----------------------------------------------------------------------------
(* Properties *)

\* While the timer is armed, _thread names a timer thread that did not exit: an
\* arm() that sees a thread (and only notifies it) never relies on one that is
\* about to return from its idle wait.
ArmedHasThread ==
  deadline # NoDeadline => handle \in Threads /\ tpc[handle] # "absent"

\* _run threads never pile up: at most the thread that _thread names exists,
\* however arms, idle timeouts and exits interleave.
OneTimerThread ==
  \A t \in Threads : tpc[t] # "absent" => handle = t

\* No wakeup is lost: while the timer is armed, the thread never sleeps past
\* the deadline, neither in the idle wait nor in a wait computed for an earlier
\* start, although disarm() notifies nobody.
NoLateWake ==
  deadline # NoDeadline =>
    \A t \in Threads : tpc[t] \in Waiting =>
      \/ tpc[t] = "sleep" /\ wake[t] = deadline
      \/ tpc[t] = "repeat" /\ deadline = 0

\* "A start that it stops has reached the deadline of the run loop": the timer
\* stops only a start with a timeout, after that start's own timeout passed,
\* never a later start with the deadline of an earlier one.
StoppedAtDeadline ==
  cause = "timer" => timed /\ left = 0

\* start() keeps the promise of TimedStart: it ends by itself or, with a timeout,
\* after its own timeout, although another thread sends the stop, Unicorn loses
\* stops and the guest may never return.
Promise == INSTANCE TimedStart
ImplementsTimedStart == Promise!FairSpec

\* The thread exits when the timer stays unarmed, whatever wait the last start
\* left it in.
IdleThreadExits ==
  <>[](deadline = NoDeadline) => []<>(handle = NoThread)
=============================================================================
