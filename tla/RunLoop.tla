------------------------------- MODULE RunLoop -------------------------------
(***************************************************************************)
(* The run loop of the user mode emulator, without a debugger:             *)
(* WindowsEmulator.start, _execute_runs, _execute_current_run and what they *)
(* call (speakeasy/windows/winemu.py), the completion of a run              *)
(* (speakeasy/windows/win32.py), the startup initializers of guest DLLs     *)
(* (speakeasy/windows/module_loader.py) and the loop over child processes   *)
(* (Win32Emulator.run_module).                                              *)
(*                                                                         *)
(* Guest code is arbitrary: while Unicorn runs, any event a hook can record *)
(* may happen.  Hooks record a native exit and stop Unicorn; the loop then  *)
(* handles the exit.  Time is counted in ticks.                             *)
(***************************************************************************)
EXTENDS Naturals, FiniteSets, SequencesExt

CONSTANTS
  Processes,      \* the processes of one run_module call, in order
  Modules,        \* the guest DLLs that are loaded at process start, in order
  HasTls,         \* the modules of Modules with a TLS callback beside DllMain
  EntryRuns,      \* the runs each process starts with, in order
  Threads,        \* runs of threads that guest code may create
  MaxRuns,        \* max_runs: no thread is created when the queue has so many
  MaxApiCalls,    \* config.max_api_calls
  MaxInstructions,\* config.max_instructions, 0 for no limit
  RunTime,        \* config.max_run_time in ticks, 0 for no limit
  TotalTime,      \* config.max_total_time in ticks, 0 for no limit
  MaxLate,        \* bound: ticks that may pass after the deadline of a call
  MaxFrames,      \* bound: nested guest callbacks of a run
  NoRun

ASSUME LimitsAssumption ==
  /\ {MaxRuns, MaxApiCalls, MaxInstructions, RunTime, TotalTime, MaxLate, MaxFrames} \subseteq Nat
  /\ RunTime + TotalTime > 0

\* An initializer run: the i-th initializer (1 TLS callback, 2 DllMain) of a
\* module in a process.
InitRun(p, m, i) == [proc |-> p, mod |-> m, fn |-> i]
InitRuns ==
  {InitRun(p, m, 2) : p \in Range(Processes), m \in Range(Modules)}
  \cup {InitRun(p, m, 1) : p \in Range(Processes), m \in HasTls}
IsEntryPoint(r) == r.fn = 2
IsLast(r) == r.fn = 2

MainRuns == UNION {Range(EntryRuns[p]) : p \in Range(Processes)}
Runs == InitRuns \cup MainRuns \cup Threads

\* Processes, modules and runs are objects: none is listed twice, and no run is
\* of two kinds or of two processes.
ASSUME ObjectsAssumption ==
  /\ Processes \in Seq(Range(Processes)) /\ Processes # <<>> /\ IsInjective(Processes)
  /\ Modules \in Seq(Range(Modules)) /\ IsInjective(Modules)
  /\ HasTls \subseteq Range(Modules)
  /\ \A p \in Range(Processes) :
       EntryRuns[p] \in Seq(Range(EntryRuns[p])) /\ IsInjective(EntryRuns[p])
  /\ \A p1, p2 \in Range(Processes) :
       p1 # p2 => Range(EntryRuns[p1]) \cap Range(EntryRuns[p2]) = {}
  /\ InitRuns \cap MainRuns = {} /\ (InitRuns \cup MainRuns) \cap Threads = {}
  /\ NoRun \notin Runs

\* The sequence of the elements of s that are in S.
Keep(s, S) ==
  LET kept[i \in 0 .. Len(s)] == IF i = 0 THEN <<>>
                                 ELSE IF s[i] \in S THEN Append(kept[i - 1], s[i]) ELSE kept[i - 1]
  IN kept[Len(s)]

\* run.error: "fault" stands for the faults of guest code, an interrupt that
\* nobody handles and engine_stopped; "limit" for timeout, max_total_time and
\* max_instructions.
Errors == {"none", "fault", "internal_error", "unsupported_api", "limit", "max_api_count",
           "dll_initialization_failed"}
ExitKinds == {"none", "api", "return", "callback", "fault", "recover", "cpu"}

VARIABLES
  pc,          \* the control point of the emulator thread
  proc,        \* index of curr_process in Processes
  queue,       \* run_queue
  suspended,   \* suspended_runs
  curr,        \* curr_run
  origin,      \* origin_run of _execute_current_run
  reported,    \* runs: the runs that the report lists
  err,         \* run.error
  completed,   \* how often on_run_complete ran for the run
  frames,      \* how many frames run.guest_callbacks has
  apis,        \* num_apis of the current run
  instrs,      \* budget_instructions of the current run
  load,        \* module.load_states, per process and module
  exit,        \* _native_exit and the run it was recorded for
  runComplete, \* is_run_complete
  emuComplete, \* is_emu_complete
  total,       \* _execution_budget.elapsed
  exhausted,   \* _execution_budget.exhausted
  now,         \* ticks since the call of _execute_current_run started
  ticks,       \* ticks in all calls so far (history, for the properties)
  raising,     \* an exception leaves _execute_current_run
  exitEvent,   \* the exit event is set
  aborted      \* the emulation ended from a hook: hook error or stop()

runVars == <<queue, suspended, curr, reported, err, completed, frames, load,
             exit, runComplete, emuComplete>>
timeVars == <<total, now, ticks>>
countVars == <<apis, instrs, timeVars>>
loopVars == <<proc, origin, exhausted, raising, exitEvent, aborted>>
vars == <<pc, runVars, countVars, loopVars>>

NoExit == [kind |-> "none", run |-> NoRun]
Exit(kind, r) == [kind |-> kind, run |-> r]

PCs == {"start", "outer", "loop", "guest", "stopped", "exit", "api", "limit",
        "dispatched", "handled", "finish", "except", "after", "done", "ended"}
InCall == {"loop", "guest", "stopped", "exit", "api", "limit", "dispatched", "handled", "finish"}

TypeOK ==
  /\ pc \in PCs
  /\ proc \in DOMAIN Processes
  /\ queue \in Seq(Runs) /\ suspended \subseteq Threads
  /\ curr \in Runs \cup {NoRun} /\ origin \in Runs \cup {NoRun}
  /\ reported \subseteq Runs
  /\ err \in [Runs -> Errors]
  /\ completed \in [Runs -> Nat] /\ frames \in [Runs -> Nat]
  /\ apis \in Nat /\ instrs \in Nat
  /\ load \in [Range(Processes) -> [Range(Modules) -> {"none", "initializing", "ready", "init_error"}]]
  /\ exit \in [kind : ExitKinds, run : Runs \cup {NoRun}]
  /\ runComplete \in BOOLEAN /\ emuComplete \in BOOLEAN /\ exhausted \in BOOLEAN
  /\ raising \in BOOLEAN /\ exitEvent \in BOOLEAN /\ aborted \in BOOLEAN
  /\ total \in Nat /\ now \in Nat /\ ticks \in Nat

Init ==
  /\ pc = "start" /\ proc = 1
  /\ queue = EntryRuns[Processes[1]] /\ suspended = {}
  /\ curr = NoRun /\ origin = NoRun /\ reported = {}
  /\ err = [r \in Runs |-> "none"]
  /\ completed = [r \in Runs |-> 0] /\ frames = [r \in Runs |-> 0]
  /\ apis = 0 /\ instrs = 0
  /\ load = [p \in Range(Processes) |-> [m \in Range(Modules) |-> "none"]]
  /\ exit = NoExit /\ runComplete = FALSE /\ emuComplete = FALSE
  /\ total = 0 /\ exhausted = FALSE /\ now = 0 /\ ticks = 0
  /\ raising = FALSE /\ exitEvent = FALSE /\ aborted = FALSE

-----------------------------------------------------------------------------
(* Limits of one call of _execute_current_run (RunLimits). *)

\* What is left of the total time when the call starts.
TotalLeft == IF total < TotalTime THEN TotalTime - total ELSE 0

\* The nearer of the two deadlines.  Without a debugger one call executes the
\* run, so the run has spent no time and no instructions before the call.
TotalIsNearer == TotalTime > 0 /\ (RunTime = 0 \/ TotalLeft < RunTime)
Deadline == IF TotalIsNearer THEN TotalLeft ELSE RunTime
DeadlineKind == IF TotalIsNearer THEN "max_total_time" ELSE "timeout"
DeadlineReached == now >= Deadline

InstructionsReached == MaxInstructions > 0 /\ instrs >= MaxInstructions

\* Mutant of LimitReached: the deadline is not checked.
LimitReachedByCount == InstructionsReached

\* get_reached_limit
LimitReached == DeadlineReached \/ InstructionsReached
ReachedLimit == IF DeadlineReached THEN DeadlineKind ELSE "max_instructions"
TotalTimeReached == DeadlineKind = "max_total_time" /\ DeadlineReached

-----------------------------------------------------------------------------
(* Cancelling and completing runs. *)

\* Mutant of Canceled: the state of cancelled initializers is not cleared.
CanceledKeepsState(rs) == load

\* cancel_initializers: INITIALIZING is cleared for the initializers in rs.
Canceled(rs) ==
  [p \in Range(Processes) |-> [m \in Range(Modules) |->
     IF load[p][m] = "initializing" /\ \E r \in rs \cap InitRuns : r.proc = p /\ r.mod = m
     THEN "none" ELSE load[p][m]]]
Pending == Range(queue) \cup suspended

\* Mutant of FirstError: the error is overwritten.
LastError(r, e) == [err EXCEPT ![r] = e]

\* The error of the run r, if it has none.
FirstError(r, e) == IF err[r] = "none" THEN [err EXCEPT ![r] = e] ELSE err
SetError(r, e) == [err EXCEPT ![r] = e]

\* Mutant of WithoutModule: the failure does not reach the other initializers.
WithModule(q, r) == q

\* The startup initializers that stay queued after one of module m failed.
WithoutModule(q, r) ==
  Keep(q, Runs \ {s \in InitRuns : s.proc = r.proc /\ s.mod = r.mod})

\* on_run_complete and _prepare_next_run for the current run: finish its
\* initializer, drop its guest callbacks, forget the native exit, and prepare
\* the next run or complete the emulation.  e, q, sus and ld are the errors,
\* the queue, the suspended runs and the load states at the call.
CompleteRun(e, q, sus, ld) ==
  \E accepted \in (IF curr \in InitRuns /\ IsEntryPoint(curr) THEN BOOLEAN ELSE {TRUE}) :
    LET failed == curr \in InitRuns /\ (e[curr] # "none" \/ ~accepted)
        q1     == IF failed THEN WithoutModule(q, curr) ELSE q
    IN /\ err' = IF failed /\ e[curr] = "none"
                 THEN [e EXCEPT ![curr] = "dll_initialization_failed"] ELSE e
       /\ load' = IF failed THEN [ld EXCEPT ![curr.proc][curr.mod] = "init_error"]
                  ELSE IF curr \in InitRuns /\ IsLast(curr)
                  THEN [ld EXCEPT ![curr.proc][curr.mod] = "ready"] ELSE ld
       /\ completed' = [completed EXCEPT ![curr] = @ + 1]
       /\ frames' = [frames EXCEPT ![curr] = 0]
       /\ exit' = NoExit
       /\ suspended' = sus
       /\ IF q1 = <<>>
          THEN /\ emuComplete' = TRUE /\ runComplete' = TRUE
               /\ queue' = <<>>
               /\ UNCHANGED <<curr, reported>>
          ELSE /\ runComplete' = FALSE
               /\ curr' = Head(q1) /\ queue' = Tail(q1)
               /\ reported' = reported \cup {Head(q1)}
               /\ UNCHANGED emuComplete

\* _stop_at_limit, without a debugger.  The total time cancels all runs.
StopAtLimit(kind) ==
  IF kind = "max_total_time"
  THEN /\ exhausted' = TRUE
       /\ CompleteRun(FirstError(curr, "limit"), <<>>, {}, Canceled(Pending))
  ELSE /\ CompleteRun(FirstError(curr, "limit"), queue, suspended, load)
       /\ UNCHANGED exhausted

-----------------------------------------------------------------------------
(* WindowsEmulator.start and _execute_runs. *)

\* What a process may have to initialize, in load order: the TLS callback and
\* the DllMain of every module.
Candidates(p) ==
  [k \in 1 .. 2 * Len(Modules) |-> InitRun(p, Modules[(k + 1) \div 2], 2 - (k % 2))]

\* Mutant of Initializers: only the first initializer of a module runs.
FirstInitializers(p) ==
  Keep(Candidates(p), {r \in InitRuns : load[p][r.mod] = "none" /\ (IsLast(r) => r.mod \notin HasTls)})

\* collect_initializers: the initializers of every module that the process did
\* not initialize.
Initializers(p) == Keep(Candidates(p), {r \in InitRuns : load[p][r.mod] = "none"})

\* start(): the total time is spent, so cancel the runs and return.
StartExhausted ==
  /\ pc = "start" /\ exhausted
  /\ pc' = "ended"
  /\ queue' = <<>> /\ suspended' = {} /\ load' = Canceled(Pending)
  /\ UNCHANGED <<curr, reported, err, completed, frames, exit, runComplete, emuComplete>>
  /\ UNCHANGED <<countVars, loopVars>>

\* start(): no run is queued (a DLL without an entry point), so return.
StartWithoutRuns ==
  /\ pc = "start" /\ ~exhausted /\ queue = <<>>
  /\ pc' = "ended"
  /\ UNCHANGED <<runVars, countVars, loopVars>>

\* start(): put the startup initializers before the queue and prepare the first run.
Start ==
  /\ pc = "start" /\ ~exhausted /\ queue # <<>>
  /\ LET p == Processes[proc]
         q == Initializers(p) \o queue
     IN /\ load' = [load EXCEPT ![p] = [m \in Range(Modules) |->
                      IF @[m] = "none" THEN "initializing" ELSE @[m]]]
        /\ curr' = Head(q) /\ queue' = Tail(q)
        /\ reported' = reported \cup {Head(q)}
  /\ runComplete' = FALSE /\ emuComplete' = FALSE
  /\ pc' = "outer"
  /\ UNCHANGED <<suspended, err, completed, frames, exit, countVars, loopVars>>

\* One turn of _execute_runs: enter _execute_current_run.  _drop_stale_exit
\* keeps only the API call that the run starts at.
EnterCall ==
  /\ pc = "outer"
  /\ pc' = "loop"
  /\ origin' = curr /\ now' = 0 /\ apis' = 0 /\ instrs' = 0
  /\ exit' = IF (exit.kind = "api" /\ exit.run = curr) \/ exit.kind \in {"recover", "cpu"}
             THEN exit ELSE NoExit
  /\ UNCHANGED <<queue, suspended, curr, reported, err, completed, frames, load,
                 runComplete, emuComplete, total, ticks,
                 proc, exhausted, raising, exitEvent, aborted>>

\* After _execute_current_run: the total time is spent.  _end_at_total_budget
\* completes the run if it is not complete and ends the emulation.
EndAtTotalBudget ==
  /\ pc = "after" /\ exhausted
  /\ pc' = "done"
  /\ IF runComplete
     THEN /\ emuComplete' = TRUE
          /\ queue' = <<>> /\ suspended' = {} /\ load' = Canceled(Pending)
          /\ UNCHANGED <<curr, reported, err, completed, frames, exit, runComplete>>
     ELSE CompleteRun(err, <<>>, {}, Canceled(Pending))
  /\ UNCHANGED <<countVars, loopVars>>

\* After _execute_current_run: go on with the run that is prepared, or leave.
NextTurn ==
  /\ pc = "after" /\ ~exhausted
  /\ pc' = IF curr # origin /\ ~emuComplete THEN "outer" ELSE "done"
  /\ UNCHANGED <<runVars, countVars, loopVars>>

\* An exception left _execute_current_run: it becomes the error of the run,
\* and the run ends.
ExceptionEndsRun ==
  /\ pc = "except" /\ ~exitEvent
  /\ CompleteRun(SetError(curr, "internal_error"), queue, suspended, load)
  /\ pc' = IF emuComplete' THEN "done" ELSE "outer"
  /\ raising' = FALSE
  /\ UNCHANGED <<countVars, proc, origin, exhausted, exitEvent, aborted>>

\* The exception came after the exit event: _execute_runs returns False.
ExceptionAfterExitEvent ==
  /\ pc = "except" /\ exitEvent
  /\ pc' = "ended" /\ raising' = FALSE
  /\ UNCHANGED <<runVars, countVars, proc, origin, exhausted, exitEvent, aborted>>

\* The end of start(): on_emu_complete.
Done ==
  /\ pc = "done"
  /\ pc' = "ended"
  /\ emuComplete' = TRUE /\ runComplete' = TRUE
  /\ UNCHANGED <<queue, suspended, curr, reported, err, completed, frames, load, exit,
                 countVars, loopVars>>

\* run_module goes on with the next child process: its runs are added and
\* start() is called again under the same total time.
NextChild ==
  /\ pc = "ended" /\ proc < Len(Processes)
  /\ proc' = proc + 1
  /\ queue' = queue \o EntryRuns[Processes[proc + 1]]
  /\ pc' = "start"
  /\ UNCHANGED <<suspended, curr, reported, err, completed, frames, load, exit,
                 runComplete, emuComplete, countVars,
                 origin, exhausted, raising, exitEvent, aborted>>

-----------------------------------------------------------------------------
(* The loop of _execute_current_run. *)

LoopEnds ==
  /\ pc = "loop" /\ (emuComplete \/ exitEvent)
  /\ pc' = "finish"
  /\ UNCHANGED <<runVars, countVars, loopVars>>

LoopAtLimit ==
  /\ pc = "loop" /\ ~emuComplete /\ ~exitEvent
  /\ exit = NoExit /\ LimitReached
  /\ StopAtLimit(ReachedLimit)
  /\ pc' = "finish"
  /\ UNCHANGED <<countVars, proc, origin, raising, exitEvent, aborted>>

StartUnicorn ==
  /\ pc = "loop" /\ ~emuComplete /\ ~exitEvent
  /\ exit = NoExit /\ ~LimitReached
  /\ pc' = "guest"
  /\ UNCHANGED <<runVars, countVars, loopVars>>

LoopHandlesExit ==
  /\ pc = "loop" /\ ~emuComplete /\ ~exitEvent
  /\ exit # NoExit
  /\ pc' = "exit"
  /\ UNCHANGED <<runVars, countVars, loopVars>>

-----------------------------------------------------------------------------
(* Guest code and the hooks that run in it. *)

\* One instruction, counted by the accounting hook.
GuestInstruction ==
  /\ pc = "guest" /\ ~runComplete
  /\ MaxInstructions > 0 /\ ~InstructionsReached
  /\ instrs' = instrs + 1
  /\ UNCHANGED <<pc, runVars, apis, timeVars, loopVars>>

\* Mutant of RecordExit: a callback return without a frame is recorded.
RecordExitUnchecked(kind) ==
  /\ pc = "guest"
  /\ kind \in {"api", "return", "callback", "recover", "cpu"}
  /\ exit' = Exit(kind, curr)
  /\ pc' = "stopped"
  /\ UNCHANGED <<queue, suspended, curr, reported, err, completed, frames, load,
                 runComplete, emuComplete, countVars, loopVars>>

\* A hook records a native exit and stops Unicorn: an API call, the return of
\* the run or of a guest callback, a page to make executable again, a fault.
RecordExit(kind) ==
  /\ pc = "guest"
  /\ kind \in {"api", "return", "callback", "recover", "cpu"}
  /\ kind = "callback" => frames[curr] > 0
  /\ exit' = Exit(kind, curr)
  /\ pc' = "stopped"
  /\ UNCHANGED <<queue, suspended, curr, reported, err, completed, frames, load,
                 runComplete, emuComplete, countVars, loopVars>>

\* Unicorn stops with no exit: the timer, the instruction count, or by itself.
\* (A run that was asked to end meets the deferred work hook before it could
\* stop by itself.)
EngineStops ==
  /\ pc = "guest" /\ (runComplete => LimitReached)
  /\ pc' = "stopped"
  /\ UNCHANGED <<runVars, countVars, loopVars>>

\* A user hook calls stop(), or a hook sees the exit event and calls it.
HookStops ==
  /\ pc = "guest"
  /\ runComplete' = TRUE
  /\ aborted' = (aborted \/ ~exitEvent)
  /\ pc' = "stopped"
  /\ UNCHANGED <<queue, suspended, curr, reported, err, completed, frames, load, exit,
                 emuComplete, countVars, proc, origin, exhausted, raising, exitEvent>>

\* A hook raises: _end_run_on_hook_error saves the error and ends the emulation.
HookFails ==
  /\ pc = "guest"
  /\ err' = SetError(curr, "internal_error")
  /\ emuComplete' = TRUE /\ runComplete' = TRUE /\ aborted' = TRUE
  /\ pc' = "stopped"
  /\ UNCHANGED <<queue, suspended, curr, reported, completed, frames, load, exit,
                 countVars, proc, origin, exhausted, raising, exitEvent>>

\* An interrupt that nobody handles: the hook itself completes the run.
UnhandledInterrupt ==
  /\ pc = "guest" /\ ~runComplete
  /\ CompleteRun(SetError(curr, "fault"), queue, suspended, load)
  /\ pc' = "stopped"
  /\ UNCHANGED <<countVars, loopVars>>

\* _hook_code_deferred_work: the run was ended by a request, the hook completes it.
DeferredWork ==
  /\ pc = "guest" /\ runComplete
  /\ CompleteRun(err, queue, suspended, load)
  /\ pc' = "stopped"
  /\ UNCHANGED <<countVars, loopVars>>

\* Unicorn raises an error that no native exit explains.
EngineRaises ==
  /\ pc = "guest"
  /\ raising' = TRUE
  /\ pc' = "finish"
  /\ UNCHANGED <<runVars, countVars, proc, origin, exhausted, exitEvent, aborted>>

GuestStep ==
  \/ GuestInstruction \/ \E kind \in ExitKinds : RecordExit(kind)
  \/ EngineStops \/ HookStops \/ HookFails
  \/ UnhandledInterrupt \/ DeferredWork \/ EngineRaises

\* The tail of a start of Unicorn: without a recorded exit, _get_exit_at_pc looks
\* for one at the address where Unicorn stopped.
ExitAtPc ==
  {exit} \cup {Exit(kind, curr) : kind \in
    IF exit # NoExit THEN {}
    ELSE IF curr # origin THEN {"api"}
    ELSE {"api", "return"} \cup (IF frames[curr] > 0 THEN {"callback"} ELSE {})}

UnicornStopped ==
  /\ pc = "stopped"
  /\ \E x \in ExitAtPc :
       /\ \/ x = NoExit /\ (curr # origin \/ emuComplete)
          \/ x # NoExit
       /\ exit' = x
       /\ pc' = IF x.kind = "cpu" THEN "exit"
                ELSE IF curr # origin \/ emuComplete THEN "finish" ELSE "loop"
  /\ UNCHANGED <<queue, suspended, curr, reported, err, completed, frames, load,
                 runComplete, emuComplete, countVars, loopVars>>

\* _stop_without_exit: a limit, or an engine that stopped by itself.
StopWithoutExit ==
  /\ pc = "stopped" /\ exit = NoExit /\ curr = origin /\ ~emuComplete
  /\ pc' = "finish"
  /\ \/ LimitReached /\ StopAtLimit(ReachedLimit)
     \/ /\ ~LimitReached /\ ~runComplete
        /\ CompleteRun(SetError(curr, "fault"), queue, suspended, load)
        /\ UNCHANGED exhausted
     \/ ~LimitReached /\ runComplete /\ UNCHANGED <<runVars, exhausted>>
  /\ UNCHANGED <<countVars, proc, origin, raising, exitEvent, aborted>>

-----------------------------------------------------------------------------
(* _handle_exit. *)

\* The frame of a guest callback that starts on the current run.
PushFrame == /\ frames[curr] < MaxFrames
             /\ frames' = [frames EXCEPT ![curr] = @ + 1]

\* Mutant of KeepFrames: an off-by-one drops the frame that returns, too.
KeepFramesBelow(n) == frames' = [frames EXCEPT ![curr] = n - 1]

\* n frames stay: the guest left the guest calls of the frames above them
\* without a return.
KeepFrames(n) == frames' = [frames EXCEPT ![curr] = n]

\* dispatch_fault: the guest's exception handler runs on a new frame above the
\* frames that stay.
DispatchFrame == \E n \in 0 .. frames[curr] : n < MaxFrames /\ KeepFrames(n + 1)

\* guest_callbacks.fail: the run gets the error and a FaultReturn exit.
Fail == /\ err' = SetError(curr, "fault")
        /\ exit' = Exit("fault", curr)

\* _dispatch_cpu_exception: a guest handler runs, or the run fails.  Either
\* way the frames that the guest left are dropped.
HandleCpuException ==
  /\ pc = "exit" /\ exit.kind = "cpu"
  /\ pc' = "handled"
  /\ \/ exit' = NoExit /\ DispatchFrame /\ UNCHANGED err
     \/ Fail /\ \E n \in 0 .. frames[curr] : KeepFrames(n)
  /\ UNCHANGED <<queue, suspended, curr, reported, completed, load, runComplete, emuComplete>>
  /\ UNCHANGED <<countVars, loopVars>>

\* An API call at a limit is not made.
ApiAtLimit ==
  /\ pc = "exit" /\ exit.kind = "api" /\ LimitReached
  /\ StopAtLimit(ReachedLimit)
  /\ pc' = "finish"
  /\ UNCHANGED <<countVars, proc, origin, raising, exitEvent, aborted>>

EnterApi ==
  /\ pc = "exit" /\ exit.kind = "api" /\ ~LimitReached
  /\ exit' = NoExit
  /\ pc' = "api"
  /\ UNCHANGED <<queue, suspended, curr, reported, err, completed, frames, load,
                 runComplete, emuComplete, countVars, loopVars>>

\* Any other exit after the total time.
ExitAtTotalTime ==
  /\ pc = "exit" /\ exit.kind \in {"return", "fault", "recover", "callback"}
  /\ TotalTimeReached
  /\ StopAtLimit("max_total_time")
  /\ pc' = "finish"
  /\ UNCHANGED <<countVars, proc, origin, raising, exitEvent, aborted>>

HandleReturn ==
  /\ pc = "exit" /\ exit.kind \in {"return", "fault"} /\ ~TotalTimeReached
  /\ CompleteRun(err, queue, suspended, load)
  /\ pc' = "finish"
  /\ UNCHANGED <<countVars, loopVars>>

HandleRecovery ==
  /\ pc = "exit" /\ exit.kind = "recover" /\ ~TotalTimeReached
  /\ exit' = NoExit
  /\ pc' = "handled"
  /\ UNCHANGED <<queue, suspended, curr, reported, err, completed, frames, load,
                 runComplete, emuComplete, countVars, loopVars>>

\* _continue_guest_callback: the frames above the returning one are dropped.  It
\* makes another guest call, ends and returns from its API or continues the
\* guest below it, ends the process, or fails.
HandleCallbackReturn ==
  /\ pc = "exit" /\ exit.kind = "callback" /\ ~TotalTimeReached
  /\ pc' = "handled"
  /\ \E n \in 1 .. frames[curr] :
       \/ exit' = NoExit /\ KeepFrames(n) /\ UNCHANGED <<err, runComplete>>
       \/ /\ exit' = NoExit /\ KeepFrames(n - 1)
          /\ runComplete' \in {runComplete, TRUE}
          /\ UNCHANGED err
       \/ Fail /\ KeepFrames(n) /\ UNCHANGED runComplete
  /\ UNCHANGED <<queue, suspended, curr, reported, completed, load, emuComplete>>
  /\ UNCHANGED <<countVars, loopVars>>

\* The end of one turn of the loop.
Handled ==
  /\ pc = "handled"
  /\ pc' = IF curr # origin THEN "finish" ELSE "loop"
  /\ UNCHANGED <<runVars, countVars, loopVars>>

-----------------------------------------------------------------------------
(* dispatch_api_call: what the implementation of an API can do. *)

\* log_api counts the call.  Only whether the count is above the limit matters,
\* so the count stops there.
Count == apis' = IF apis > MaxApiCalls THEN apis ELSE apis + 1
NewThreads == Threads \ (Range(queue) \cup suspended \cup reported)

\* The implementation returns to the guest: a handler, a user hook, a
\* signature or a stub.  A handler that continues the guest at a context drops
\* the frames that the guest leaves with it (transfer).
ApiReturns ==
  /\ pc = "api" /\ Count
  /\ pc' = "limit"
  /\ \E n \in 0 .. frames[curr] : KeepFrames(n)
  /\ UNCHANGED <<queue, suspended, curr, reported, err, completed, load, exit, runComplete,
                 emuComplete, instrs, timeVars, loopVars>>

\* create_thread: the queue has room, so the run is queued or suspended.
ApiCreatesThread(t) ==
  /\ pc = "api" /\ Count
  /\ t \in NewThreads /\ Len(queue) < MaxRuns
  /\ \/ queue' = Append(queue, t) /\ UNCHANGED suspended
     \/ suspended' = suspended \cup {t} /\ UNCHANGED queue
  /\ pc' = "limit"
  /\ UNCHANGED <<curr, reported, err, completed, frames, load, exit, runComplete, emuComplete,
                 instrs, timeVars, loopVars>>

\* ResumeThread: the suspended run goes to the end of the queue.
ApiResumesThread(t) ==
  /\ pc = "api" /\ Count
  /\ t \in suspended
  /\ suspended' = suspended \ {t} /\ queue' = Append(queue, t)
  /\ pc' = "limit"
  /\ UNCHANGED <<curr, reported, err, completed, frames, load, exit, runComplete, emuComplete,
                 instrs, timeVars, loopVars>>

\* SuspendThread: a queued run of another thread leaves the queue.
ApiSuspendsThread(t) ==
  /\ pc = "api" /\ Count
  /\ t \in Range(queue) \cap Threads
  /\ suspended' = suspended \cup {t} /\ queue' = Keep(queue, Runs \ {t})
  /\ pc' = "limit"
  /\ UNCHANGED <<curr, reported, err, completed, frames, load, exit, runComplete, emuComplete,
                 instrs, timeVars, loopVars>>

\* exit_process: the handler asks for the end of the run.
ApiEndsRun ==
  /\ pc = "api" /\ Count
  /\ runComplete' = TRUE
  /\ pc' = "limit"
  /\ UNCHANGED <<queue, suspended, curr, reported, err, completed, frames, load, exit,
                 emuComplete, instrs, timeVars, loopVars>>

\* A generator handler, or a load of DLLs: a guest callback starts, or it
\* fails before its first guest call and leaves its frame.
ApiStartsCallback ==
  /\ pc = "api" /\ Count
  /\ PushFrame
  /\ \/ UNCHANGED <<err, exit>>
     \/ Fail
  /\ pc' = "limit"
  /\ UNCHANGED <<queue, suspended, curr, reported, completed, load, runComplete, emuComplete,
                 instrs, timeVars, loopVars>>

\* The handler reads or writes a bad pointer and the guest can handle the
\* access violation: the call is logged and the dispatch of the fault starts.
ApiRaisesInGuest ==
  /\ pc = "api" /\ Count
  /\ DispatchFrame
  /\ pc' = "dispatched"
  /\ UNCHANGED <<queue, suspended, curr, reported, err, completed, load, exit, runComplete,
                 emuComplete, instrs, timeVars, loopVars>>

\* The handler raises: the error ends the run at once.
ApiHandlerRaises ==
  /\ pc = "api"
  /\ CompleteRun(SetError(curr, "internal_error"), queue, suspended, load)
  /\ pc' = "dispatched"
  /\ UNCHANGED <<countVars, loopVars>>

\* The arguments of the API cannot be read.
ApiArgumentFault ==
  /\ pc = "api"
  /\ Fail
  /\ pc' = "dispatched"
  /\ UNCHANGED <<queue, suspended, curr, reported, completed, frames, load, runComplete,
                 emuComplete, countVars, loopVars>>

\* A user hook for the API raises.
ApiHookRaises ==
  /\ pc = "api"
  /\ raising' = TRUE
  /\ pc' = "finish"
  /\ UNCHANGED <<runVars, countVars, proc, origin, exhausted, exitEvent, aborted>>

\* _handle_unsupported_api: the error ends the run; the API count is checked after it.
ApiUnsupported ==
  /\ pc = "api" /\ Count
  /\ CompleteRun(SetError(curr, "unsupported_api"), queue, suspended, load)
  /\ pc' = "limit"
  /\ UNCHANGED <<instrs, timeVars, loopVars>>

\* _check_api_limit: the call of this run went above the limit.
AboveApiLimit == curr = origin /\ apis > MaxApiCalls

ApiLimitReached ==
  /\ pc = "limit" /\ AboveApiLimit
  /\ CompleteRun(SetError(curr, "max_api_count"), queue, suspended, load)
  /\ pc' = "dispatched"
  /\ UNCHANGED <<countVars, loopVars>>

ApiLimitNotReached ==
  /\ pc = "limit" /\ ~AboveApiLimit
  /\ pc' = "dispatched"
  /\ UNCHANGED <<runVars, countVars, loopVars>>

\* The handler changed the stack pointer and did not return.
ApiDidNotReturn ==
  /\ pc = "dispatched"
  /\ curr = origin /\ ~runComplete /\ ~emuComplete /\ exit = NoExit /\ frames[curr] = 0
  /\ Fail
  /\ pc' = "handled"
  /\ UNCHANGED <<queue, suspended, curr, reported, completed, frames, load, runComplete,
                 emuComplete, countVars, loopVars>>

\* Mutant of RunEndsAfterApi: does not see that the emulation is complete.
RunEndsAfterApiAlways == runComplete /\ curr = origin

\* The end of _dispatch_api_entry: complete a run that the handler ended.
RunEndsAfterApi == runComplete /\ ~emuComplete /\ curr = origin

ApiDispatched ==
  /\ pc = "dispatched"
  /\ \/ ~RunEndsAfterApi /\ pc' = "handled" /\ UNCHANGED <<runVars, exhausted>>
     \/ /\ RunEndsAfterApi /\ TotalTimeReached
        /\ StopAtLimit("max_total_time") /\ pc' = "finish"
     \/ /\ RunEndsAfterApi /\ ~TotalTimeReached
        /\ CompleteRun(err, queue, suspended, load) /\ pc' = "handled"
        /\ UNCHANGED exhausted
  /\ UNCHANGED <<countVars, proc, origin, raising, exitEvent, aborted>>

ApiStep ==
  \/ ApiReturns \/ ApiEndsRun \/ ApiStartsCallback \/ ApiRaisesInGuest
  \/ \E t \in Threads : ApiCreatesThread(t) \/ ApiResumesThread(t) \/ ApiSuspendsThread(t)
  \/ ApiHandlerRaises \/ ApiArgumentFault \/ ApiHookRaises \/ ApiUnsupported
  \/ ApiLimitReached \/ ApiLimitNotReached \/ ApiDidNotReturn \/ ApiDispatched

-----------------------------------------------------------------------------
(* _finish_current_run_execution. *)

\* The exit event stopped the run: it gets a timeout error.
ExitEventStopped == exitEvent /\ curr = origin /\ ~runComplete

\* Mutant of TotalAfter: the time of the earlier calls is forgotten.
TotalAfterForgets == now

\* total_budget.elapsed after the call.
TotalAfter == total + now
OutOfTotalTime == TotalTime > 0 /\ TotalAfter >= TotalTime

\* The runs of the report without the prepared run r, which did not execute.
ReportedWithout(r) == reported \ {r}

FinishCall ==
  /\ pc = "finish"
  /\ total' = TotalAfter
  /\ pc' = IF raising THEN "except" ELSE "after"
  /\ \/ /\ ~OutOfTotalTime /\ ExitEventStopped
        /\ err' = FirstError(origin, "limit")
        /\ queue' = <<>> /\ suspended' = {} /\ load' = Canceled(Pending)
        /\ UNCHANGED <<curr, reported, runComplete, exhausted>>
     \/ ~OutOfTotalTime /\ ~ExitEventStopped /\ UNCHANGED <<runVars, exhausted>>
     \/ /\ OutOfTotalTime
        /\ exhausted' = TRUE
        /\ queue' = <<>> /\ suspended' = {}
        /\ \/ /\ curr = origin
              /\ err' = IF ~runComplete THEN FirstError(origin, "limit") ELSE err
              /\ load' = Canceled(Pending)
              /\ UNCHANGED <<curr, reported, runComplete>>
           \/ /\ curr # origin
              /\ load' = Canceled(Pending \cup {curr})
              /\ reported' = ReportedWithout(curr)
              /\ curr' = origin /\ runComplete' = TRUE
              /\ UNCHANGED err
  /\ UNCHANGED <<completed, frames, exit, emuComplete>>
  /\ UNCHANGED <<apis, instrs, now, ticks, proc, origin, raising, exitEvent, aborted>>

-----------------------------------------------------------------------------
\* Time passes; MaxLate bounds how long after the deadline.
Tick ==
  /\ pc \in InCall
  /\ now < Deadline + MaxLate
  /\ now' = now + 1 /\ ticks' = ticks + 1
  /\ UNCHANGED <<pc, runVars, apis, instrs, total, loopVars>>

\* The parent process sets the exit event.
SetExitEvent ==
  /\ ~exitEvent /\ pc # "ended"
  /\ exitEvent' = TRUE
  /\ UNCHANGED <<pc, runVars, countVars, proc, origin, exhausted, raising, aborted>>

LoopStep ==
  \/ StartExhausted \/ StartWithoutRuns \/ Start \/ EnterCall \/ EndAtTotalBudget \/ NextTurn
  \/ ExceptionEndsRun \/ ExceptionAfterExitEvent \/ Done \/ NextChild
  \/ LoopEnds \/ LoopAtLimit \/ StartUnicorn \/ LoopHandlesExit
  \/ UnicornStopped \/ StopWithoutExit
  \/ HandleCpuException \/ ApiAtLimit \/ EnterApi \/ ExitAtTotalTime
  \/ HandleReturn \/ HandleRecovery \/ HandleCallbackReturn \/ Handled
  \/ FinishCall

Ended == pc = "ended" /\ proc = Len(Processes)
Terminated == Ended /\ UNCHANGED vars

Next == LoopStep \/ ApiStep \/ GuestStep \/ Tick \/ SetExitEvent \/ Terminated

\* The emulator thread and the clock go on, and the start timer ends a start at
\* its deadline (module StartTimer).  Guest code need not do anything.
TimerStops == DeadlineReached /\ EngineStops

Fairness ==
  /\ WF_vars(LoopStep \/ ApiStep) /\ WF_vars(Tick) /\ WF_vars(TimerStops)

Spec == Init /\ [][Next]_vars
FairSpec == Spec /\ Fairness

-----------------------------------------------------------------------------
(* Properties *)

\* A native exit is handled for the run that it was recorded for, never for the
\* next run, also when a hook completes the run while Unicorn still runs; and a
\* callback return is handled only while the run has a frame for it
\* (_continue_guest_callback reads the newest frame).
ExitOfCurrentRun ==
  pc = "exit" => exit.run = curr /\ (exit.kind = "callback" => frames[curr] > 0)

\* on_run_complete runs once for a run.  The API count limit is the exception:
\* the last run can go above it in the call that already ended it.
CompletedOnce ==
  \A r \in Runs : completed[r] > 1 => completed[r] = 2 /\ err[r] = "max_api_count"

\* The error that ended a run stays its error ("If the run already has an
\* error, such as a fault, keep that error"): no other limit, exit event,
\* completion or later run replaces it.  Two errors are left out: max_api_count is
\* assigned whatever the run has, and a limit's own error can be replaced.
ErrorIsKept ==
  [][\A r \in Runs : err[r] \notin {"none", "limit"} => err'[r] \in {err[r], "max_api_count"}]_vars

\* Once the calls of the run loop took the total time together, Unicorn is not
\* started again and no API is called: in no later run of the queue, in no
\* startup initializer and in no child process.
NothingStartsAfterTotalTime ==
  [][TotalTime > 0 /\ pc \in {"loop", "exit"} /\ pc' \in {"guest", "api"}
       => ticks < TotalTime /\ ~exhausted]_vars

\* Guest code of a process other than its startup initializers runs only when
\* every DLL that was loaded at process start is initialized or failed.
InitializedBeforeEntry ==
  pc \in {"guest", "api"} /\ curr \notin InitRuns /\ ~aborted =>
    \A m \in Range(Modules) : load[Processes[proc]][m] \in {"ready", "init_error"}

\* After one initializer of a DLL fails, the others of that DLL never run, and
\* the DLL never becomes ready.
FailedModuleStaysFailed ==
  ~aborted =>
    \A r \in InitRuns :
      /\ load[r.proc][r.mod] = "init_error" =>
           r \notin Range(queue) /\ (pc = "guest" => r # curr)
      /\ load[r.proc][r.mod] = "ready" => err[r] = "none" /\ completed[r] = 1

\* When the emulation ends by itself or at the total time, every run that the
\* report lists was completed, no run waits, and no DLL stays INITIALIZING.
NothingLeftAtEnd ==
  pc = "ended" /\ ~exitEvent /\ ~aborted =>
    /\ queue = <<>>
    /\ \A r \in reported : completed[r] > 0
    /\ \A p \in Range(Processes), m \in Range(Modules) : load[p][m] # "initializing"

\* The total time ends everything, in all processes of the emulation: nothing
\* starts after it, and nothing is left when the emulation ends.
TotalTimeEndsAll == NothingStartsAfterTotalTime /\ []NothingLeftAtEnd

\* The emulation ends, whatever guest code does, when a time limit is set.
Termination == <>Ended

\* "The exit event stops all runs" (tests/test_run_limits.py:1), and
\* _finish_current_run_execution is to "end the run if the exit event stopped
\* it": when the call of the run loop returns after the exit event, the run was
\* completed or has an error that says why not.
ExitEventEndsRun ==
  pc = "after" /\ exitEvent /\ ~aborted => completed[origin] > 0 \/ err[origin] # "none"

\* _end_run_on_hook_error is to "end the emulation": the runs that it left in
\* the queue are not executed later, by the start() of a child process.  `aborted`
\* also stands for a stop() of the user, which ends the emulation the same way.
LeftRunsNeverExecute ==
  pc = "guest" /\ aborted => curr \in Range(EntryRuns[Processes[proc]])

\* "UnsupportedImplementation: the run ends with an unsupported_api error"
\* (doc/architecture.md).
UnsupportedApiIsReported ==
  [][\A r \in Runs : err[r] = "unsupported_api" => err'[r] = "unsupported_api"]_vars
=============================================================================
