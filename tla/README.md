# Verification of the Speakeasy emulator

This directory holds TLA+ models of [Speakeasy](../src/README.md), an emulator that runs Windows
executables, DLLs, shellcode and drivers in Unicorn and reports what they do. The models are written
from the Python source under `src/speakeasy/`. TLC checks them on small instances, and TLAPS proves
the safety properties of the start timer, the run loop, the memory manager, the GDB session, the
command line, the kernel objects, the files and most other services of the guest for every instance.

Tools: `tlc -workers 2 -config X.cfg M` for a run, `tlapm M.tla` for the proofs of a module.

## 1. The system

### Parts, state and operations

| Part | Source | State | Operations | Hard behaviour |
|---|---|---|---|---|
| Start timer | `engines/start_timer.py`, `engines/unicorn_eng.py` | `_deadline`, `_thread`, a condition variable | `arm`, `disarm`, the timer thread | two threads, lost stops, idle exit |
| Run loop | `windows/winemu.py`, `windows/win32.py` | `run_queue`, `suspended_runs`, `curr_run`, `_native_exit`, completion flags, budgets | `start`, `_execute_runs`, `_execute_current_run`, `_handle_exit`, `on_run_complete` | hooks, handlers and limits end the same run; exit event; children |
| API dispatch | `windows/winemu.py` | frame of the call, API count | `dispatch_api_call` and the five kinds of implementation | faults in handlers, run changes during the call |
| Guest callbacks | `windows/guest_callbacks.py` | frames of a run, generators | `start`, `resume`, `fail`, `transfer` | nested calls, abandoned frames |
| Memory manager | `memmgr.py`, `binemu.py` | `maps`, `mem_reserves`, shared block, search base | `mem_map`, `mem_free`, `mem_reserve`, `get_valid_ranges` | shared pages, reuse, borders |
| Module loader | `windows/module_loader.py` | modules, load states per process, bindings | `load_image`, `discard_module`, initializers, rollback | failure in the middle of nested loads |
| API registry, resolution | `windows/api_registry.py`, `api_resolution.py`, `api_image.py` | tokens, names, candidates | register, unregister, resolve | token reuse, full tables |
| GDB server | `gdb.py` | running, pending stop, commands, breakpoints | reader thread, `command_loop`, `begin_run`, `finish_run` | Ctrl-C races, damaged packets, disconnects |
| Command line | `cli.py` | child process, result queue, exit event | `emulate_binary`, `wait_for_child` | result against death, limit and grace period |
| Objects, handles | `windows/objman.py`, `handles.py`, `kernel32.py` | objects, names, reference counts, tables, suspended runs | new, open, duplicate, close, wait, suspend, resume | lifetime across handles and names |
| Files | `windows/fileman.py`, `kernel32.py`, `msvcrt.py`, `ntoskrnl.py` | File objects, handles, views, descriptors, streams | open, read, write, map, copy, delete, find | one file through several handles and views |
| Registry | `windows/regman.py`, `advapi32.py`, `ntoskrnl.py` | keys, handles, deleted paths | open, create, set, query, enumerate, delete | keys that are loaded from the configuration late |
| Network | `windows/netman.py`, `ws2_32.py`, `wininet.py`, `winhttp.py`, `urlmon.py`, `dnsapi.py`, `netio.py` | sockets, internet handles, answers | connect, receive, peek, read, close | partial reads, closed parents |
| Process services | `api.py`, `kernel32.py`, `ole32.py`, `winemu.py` | heap, local storage, atoms, one-time initialization, COM counts, vectored handlers, clock | one per handler | counts and reuse over long sequences |
| Virtual memory | `kernel32.py`, `winemu.py` | allocations, page permissions, guard pages | `VirtualAlloc`, `Protect`, `Free`, `Query`, faults | parts of an allocation with other protections |
| Guest buffers | `kernel32.py`, `advapi32.py`, `shlwapi.py`, `msvcrt.py`, `psapi.py` and others | none | functions that ask for a size and fill a buffer | off-by-one at the end of the buffer |
| Windows | `user32.py`, `windows/sessman.py` | windows, classes, procedures, dialogs, timers, hooks | create, dialog, message, timer | nested dialogs, subclassing |
| Kernel emulator | `windows/kernel.py`, `ntoskrnl.py` | driver, run queue, delayed exports, IRPs, devices, links, pool, IRQL | `next_driver_func`, `driver_unload`, `Io*`, `Ps*`, `Ob*` | order of driver functions |
| C run-time library | `msvcrt.py` | exit functions, signal handlers, cached blocks, counters | register, execute, signal, sort | a guest function that calls the library again |
| Exceptions | `windows/seh*.py`, `unwind.py`, `cpu_exceptions.py` | last fault, repeat count, handler lists | dispatch, unwind, continue | faults in handlers, endless repeats |
| Hooks | `common.py`, `binemu.py` | hook lists, native handles | add, remove, enable, wrap | change of a list during its dispatch |
| Profiler, report | `profiler.py`, `report.py` | runs, events | record, deduplicate, build | runs that never executed |

`PROJECT.json` lists all parts, also the ones that are not modelled, with the reason.

### How they interact

`Win32Emulator.run_module` queues the runs of a module and calls `start()`. `start()` puts the
startup initializers of guest DLLs before the queue and gives the queue to `_execute_runs`, which
calls `_execute_current_run` for one run after the other. That function starts Unicorn; the *start
timer* bounds the start. Hooks in guest code record a *native exit* (an API call, a return, a fault)
and stop Unicorn; the loop handles the exit, and a handler may allocate memory, create threads, load
DLLs, start guest callbacks or end the run. `on_run_complete` finishes a run and already prepares the
next one. When the queue is empty, the emulation is complete and `run_module` goes on with the child
processes that the guest created, under the same total time. The parent process of the command line
sets the *exit event* at its wall limit.

The memory manager serves all of them: images, stacks, heaps, and the PEB; it also keeps the range of
the return address and the API traps free, because the loop detects returns and API calls by the
faults there.

### What makes each part correct

* Start timer: a timed start ends, at its own deadline, with one thread at most.
* Run loop: an exit belongs to the run it is handled for; a run completes once; DLLs are initialized
  before code that uses them; limits hold across runs and children; the emulation ends.
* Memory: no byte is given out twice, no page leaks, reserved ranges stay free.
* GDB session: a breakpoint is never skipped; a client that resumed the target hears of it again; the
  emulator never waits for a client that is gone; Ctrl-C stops the guest.
* Command line: a report is lost only when it comes after the last wait for it, a child is killed only
  after it was asked to stop, and an exit status of 0 hides no failure.
* Objects: an object lives as long as a handle or a reference needs it, and a handle keeps its meaning.
* Files, registry: what was deleted stays so, a path has one entry, and a file that the guest wrote through
  handles and streams is reported.
* Network: an answer is read once; the handles below a closed handle are closed.
* Module loader: a failed load leaves nothing, and a DLL is ready only when it is initialized.
* Kernel emulator: each driver function runs once, in order.
* Buffers: no handler writes behind the buffer of the guest, and a second call with the size that the
  first one asked for succeeds.

The hazards in `PROJECT.json` name the source lines where these can go wrong.

## 2. Modules

| Module | Models |
|---|---|
| `TimedStart` | the abstract specification of a start with a timeout |
| `StartTimer` | the start timer and the engine's `start()` |
| `RunLoop` | `start()`, the loop over runs, native exits, API outcomes, limits, initializers, children |
| `RunLoopProofs` | lemmas about the queues of runs, and theorems about the run loop: completion and errors; initializers, the end and the total time |
| `GdbSession` | client, reader thread and the run loop with a debugger |
| `GdbSessionProofs` | theorems about it |
| `CommandLine` | parent and child process of the command line |
| `TimeLimitProofs` | theorems about the start timer and about the command line |
| `MemoryManager` | allocations, shared blocks, reserves, the reserved range, images, stacks |
| `MemorySearch` | the loop of `get_valid_ranges`, against the relation `FirstFree` |
| `MemoryManagerProofs` | theorems about the memory manager and about the search loop |
| `ModuleLoader` | loads of DLLs while the guest runs, bindings, tokens, initializers, rollback |
| `Objects` | kernel objects, names, references, handles, threads and processes |
| `Files` | file manager, file handlers, views, searches, pipes, descriptors and streams |
| `Registry` | keys, values, handles and the handlers that use them |
| `Network` | sockets, internet handles, kernel sockets |
| `ProcessServices` | heap, local storage, atoms, one-time initialization, COM, vectored handlers, clock, resources |
| `VirtualMemory` | the memory functions of the guest and guard pages |
| `Buffers` | handlers that fill a buffer of the guest |
| `Windows` | windows, classes, dialogs, timers, hooks |
| `Kernel` | the runs of a driver and the kernel objects that it makes |
| `Crt` | exit functions, signals, cached blocks and sorting of the C run-time library |
| `Services` | instances of the services that keep what the guest gave them: `Registry`, `Network`, `ProcessServices`, `VirtualMemory` |
| `ServicesProofs` | theorems about these four |
| `Handlers` | instances of `Buffers`, `Kernel` and `Crt` |
| `HandlersProofs` | theorems about these three |
| `GuestServices` | composes `Services`, `Handlers`, `CommandLine`, `Windows` and `ModuleLoader` |
| `GuestServicesProofs` | theorems about the composition |
| `GuestObjects` | composes `Objects` and `Files` |
| `GuestObjectsProofs` | theorems about these two |
| other `MC*` | instances for TLC |

A definition whose comment says "Mutant of X" is X with a plausible bug; it is not used by the
specification. `PROJECT.json` pairs each property with such a mutant that violates it.

### StartTimer

`start` is where `engine.start()` is, `deadline` and `handle` are `_deadline` and `_thread`, and `tpc`
is where each timer thread is. A critical section of `_cond` is one action. A wait that times out
does not have the lock yet, so "expired" is a state of its own: an `arm()` may come before the thread
looks at the deadline again. Unicorn may lose a stop (`StopLost`). Time is counted as ticks that are
left, so the state space is finite without a bound on the time.

`TimedStart` is what the run loop relies on: a start ends by itself or, when its own timeout has passed,
by a stop. It knows no thread, no deadline variable and no lost stops. `StartTimer` maps its state to it
(`Promise`), and `ImplementsTimedStart` is the whole abstract specification with its fairness.

### RunLoop

`pc` is where the emulator thread is: in `start()`, before or in `_execute_current_run`, in guest
code, in an API implementation, in `_finish_current_run_execution`. Guest code is arbitrary: in
`"guest"` any event that a hook can record may happen, and in `"api"` any outcome of an API
implementation. The guest may leave guest calls without a return: a callback that returns, an exception and a
handler that continues at a context drop the frames above (`KeepFrames`). `CompleteRun` is the whole of `on_run_complete`: the initializer's result, the load
states, the frames, the native exit and the preparation of the next run. Variables `completed`,
`ticks` and `aborted` are history for the properties.

Abstractions: error types are grouped (`Errors`); an exit keeps its kind and the run that it was
recorded for; an API is what it does to the run; a guest callback frame is counted, not described, so how
many frames the stack pointer abandons is any number;
time is in ticks. `_execute_current_run` runs once per run without a debugger, so `execution_elapsed`
and `budget_instructions` of a run start at zero. Not modelled here: the debugger (`GdbSession`),
`KeyboardInterrupt`, `resume()` and `call()` of the library, and kernel mode (`Kernel`).

The queue is a sequence, and the operators on it (`Keep`, `Initializers`, `WithoutModule`) are
`SelectSeq` over the order that `collect_initializers` gives. A process may have no runs, for example
a child that has no entry point: then `start()` returns (`StartWithoutRuns`).

### GdbSession

`client` is what the client waits for, `wire` and `replies` are the two directions of the connection, the
reader thread has its own program counter, and the emulator thread goes through `command_loop`,
`begin_run`, Unicorn and `finish_run`. A critical section of `_state_lock` is one action; a command
that only gets an answer is one command, `query`. Breakpoints, watchpoints, single steps, the program
counter that is skipped once after a resume (`_resume_pc`), pending stops, library events, damaged
packets and the resend of the last reply, detach, kill and a lost connection are modelled. `missed`
is history: an instruction with a breakpoint ran that had to stop.

### CommandLine

The parent polls the queue, the child's life, the wall limit and Ctrl-C; a wait with a timeout may end
at any time. The queue is modelled with its feeder thread: what the child put may still be in a buffer
of the child, and a killed child takes the buffer with it. `--no-mp` is an initial choice.

`hist.gaveup` says how the last `get_child_result` ended: with a result, on its deadline, or because the child
was dead and the queue empty after that. `SentReportsAreRead` says that only a report that came after a wait
ended on its deadline can be left in the queue. That state is reachable: the wait of a second ends with a live
child (`cli.py:110`), the child sends its report and exits, and the loop finds it dead (`cli.py:129`); or the
report comes while the parent joins the child at the end of the grace period. The code loses these reports and
prints that the child sent none; the property states where the loss ends, not that there is none.
`SuccessHasReport` has one exception: a child that Ctrl-C reaches before it has an emulator sends neither a
report nor an error, and the program exits with 0.

### ModuleLoader

The recursion of `load_image` is the stack `loads`; the guest's nested calls of LoadLibrary are
`frames`, because a TLS callback or a DllMain runs as a guest callback and may load again, fail, or be
left without a return. Modules, dependencies, the PEB list and the load states of each process, the
bindings, and the tokens of the API traps with their limit are kept in one record.

### Objects, Files, Registry, Network

An object has an id, a handle has a value, and both count upward as in `HandleAllocator`; the bounds
cap them. A file's content is a sequence of marks (written by the guest or not), so a property can say that
a file is reported, not what it contains; a write through a mapped view stays in memory, in the code as in the
model. A registry value is where it came from and its size; an answer of the network is the number of bytes
that are left. Names and paths are taken after the code made their case and separators one.

Two lookups are not equality, and are parameters. `get_object_from_name` drops the backslashes at the end of the
name it looks for and follows the links of the configuration, while objects keep the name they were made with
(`Stripped`, `Links`): an object made as `a\` is found by nobody, and each create makes another one. So
`OneObjectPerName` is about the names that a lookup can find (`Findable`). `get_key_from_path` takes the
guest's path as an `fnmatch` pattern (`Matches`: the paths that it accepts): a path with `*` or `?` opens another
key, and one with `[ ]` does not match itself, so that it gets a key each time it is opened, of which a
delete removes one. So `OneKeyPerPath` and the second part of `DeletedValuesStayDeleted` are about
the paths that match themselves (`FindsItself`). Each handler of the guest is an action;
functions that the source builds on each other (`CreateFile` on `file_open`, `RegOpenKeyEx` on
`reg_open_key`) are operators of the same name. `res` is what the call told the guest, where a
property is about it.

### ProcessServices, VirtualMemory, Buffers, Windows, Kernel, Crt

`ProcessServices` has one variable per family of handlers; they share nothing. `VirtualMemory` keeps
the allocations, the permission of each page in the engine, and the guard pages, beside what the guest
asked for last. In `Buffers` a handler is what it does to a buffer of `room` units; the reported text
may change between two calls. In `Windows` and `Crt` a handler that calls a guest function waits on
`frames`, and the guest may call every handler meanwhile, the same one included. `Kernel` has the
schedule of a driver (entry, exports, IRP handlers, threads, unload), and devices, links, references,
pool and IRQL.

### GuestObjects and GuestServices

These modules put the services beside each other. `GuestServices` extends `CommandLine`, which brings
its own variables, `Services` and `Handlers`, which instantiate the modules that are proved about with
their constants, and instantiates `Windows` and `ModuleLoader` with fixed bounds. The services share no
state, so the interleaving of two of them reaches nothing that each of them does not reach alone. `part`
therefore selects, in the initial state, which family of handlers the behaviour calls. `VIEW` leaves out the variables of other parts and the last result: TLC evaluates an action
property on every step it generates, so properties may still read the result.

### MemoryManager

`maps` gives each allocation its pages, and its bytes if it is in a shared block; `reserves` are the
reserved ranges; `mapped` the pages of the engine. Addresses are pages and offsets; permissions, tags,
owners and map hooks are left out. `FirstFree` states what the search returns; `MemorySearch` has the
loop itself, as a recursive function over the pages up to `PageBound`, behind which nothing is in use.
TLC compares the two in every reachable state, and they are proved equal. `OutOfMemoryError` leaves the state as
it is, so it has no action. The load of an image (`MapImage`) and the discard of a module are there
because `discard_module` looks up the allocation at the base again. `mem_unreserve` has no caller.

## 3. Runs

| Run | Instance | States | What it shows |
|---|---|---|---|
| `start_timer` | 2 threads, timeouts 1-2, idle 3, repeat 1 | 309 | the timer's safety, that it implements `TimedStart`, and that idle threads exit |
| `run_loop` | 1 process, a DLL with TLS callback and DllMain, an entry point, a thread, 2 frames | 1.8 million | order, completion, errors, initializers, limits |
| `run_loop_children` | a parent with two runs, a child, a child without runs | 296 000 | the shared total time, termination |
| `memory_manager` | 3 allocations, 4 usable pages of 4 bytes | 168 000 | allocation, free, reserve and search |
| `gdb_session` | 2 addresses, 3 sends, 1 damaged reply, 1 run, a watchpoint, a time limit | 401 000 | breakpoints are hit, resumes end, dead clients are left |
| `guest_objects` | 3 parts of `Objects`, 7 of `Files` | 173 000 | lifetime of objects and handles, names, deleted and dropped files |
| `guest_services` | the other services, one part at a time | 370 000 | state of the services, whole loads, runs and callbacks that happen once, the child's report, buffers |
| `exit_event`, `hook_error`, `unsupported_api`, `gdb_ctrl_c`, `driver_exports` | small | - | the findings below |

Bounds. Two timer threads are enough: the property is that a second one never exists. The run loop
needs two initializers (one fails before the other), a run after them, and a thread; a total time of
2 ticks with runs of 2 ticks makes both deadlines the nearer one, `MaxLate` lets a handler overrun
the deadline, one API call is the limit so that the call above it happens, and two frames are one that
returns and one that it abandons. The children instance
has no DLLs so that the parent's second run and the child's run are the runs that are prepared when
the time ends; a third process has no entry point. Three allocations are two in one block and one beside it; sizes 1, 3, 4, 5 of pages of
4 bytes are padded, padded to a whole page, a page and two pages; the reserved page lies between the
usable ones and the limit behind them, so every search path happens. `Allocs` is a symmetry set.

In the GDB session three sends are a breakpoint, a resume and a Ctrl-C (or a second resume), two
addresses are a breakpoint and an instruction without one, and one damaged reply is a resend. Objects
have a name, the same name with a backslash at its end, and a link to the name of a process; two handles of
one object and one of another, or two objects that ask for one name, are the cases that matter. `Room` gives each
part its bounds, because more objects, more handles and a second process are not needed together. Files have a configured path, an alias
of the image that is also a directory, two handles, and one byte, so that a file is empty or has a mark
of the guest. The registry has a
key, its parent and the root, a path with `*` that matches the key, and a configured one with `[ ]` that
matches the parent and not itself. An answer of two bytes
is read in parts. Pages: two allocations of up to two pages on both sides of the search base. The
loader has a DLL that imports another one and, forwarded, a synthetic one, a DLL with an import of
another machine, one with a malformed import, and two tokens and one arena slot, so that both run out;
three calls of one process and two calls of two processes. Buffers have all rooms up to 5 and texts up
to 2 with a `MAX_PATH` of 2, so that a text with its terminator fits it or does not. Three sockets are a
listener and the two ends of a connection. The driver has one export, two IRPs and one thread; three
devices are one more than the code takes. Windows: two nested dialogs; Crt: four exit functions, so that the table grows twice.

Deadlock is checked in every passing run (a finished emulation stutters in `Terminated`), except in
`guest_objects` and `guest_services`: there the guest may stop calling, and the bounds end a behaviour.

Fairness. The operating system runs the threads and the clock advances: weak fairness of the emulator
thread's steps, of the timer thread and of `Tick`. Guest code need not return: there is no fairness
for it. A stop that is repeated without end is delivered (strong fairness of `StopDelivered`); this is
the reason why the code repeats it (Unicorn loses single stops). `RunLoop` uses the result of
`StartTimer`: a start whose deadline passed ends (`TimerStops`). In `GdbSession` the reader, the emulator
and Unicorn's next instruction are weakly fair, and so is the client's receive: `ResumeEnds` is about a
client that reads. `Limit`, the deadline of a run, is strongly fair, because a guest that leaves Unicorn
for each API call does not hold the clock; where no time limit is set (`gdb_ctrl_c`) it never happens.

### Findings

1. `exit_event`: a hook that sees the exit event calls `stop()`, which sets `is_run_complete`. Then
   `_finish_current_run_execution` skips the error and the cancellation: the run is not completed and
   has no error.
2. `hook_error`: `_end_run_on_hook_error` leaves `run_queue`, and the next `start()`, for a child
   process, executes the parent's runs.
3. `unsupported_api`: in the last run, an unsupported API above `max_api_calls` is reported as
   `max_api_count`, and `on_run_complete` runs twice.

4. `gdb_ctrl_c`: a Ctrl-C that the reader sees after it queued a continue, before the emulator thread
   took the continue, is queued as a `?` behind it. Nobody reads commands while the guest runs: the guest
   is not stopped.
5. `driver_exports`: for a driver without an unload routine, `driver_unload` completes the emulation while
   the exports that `next_driver_func` just queued wait, and they never run.

### Seen while reading

Differences to Windows or to a comment that no run of this project decides. The models do what the code
does.

* Run loop: the docstring of `_execute_runs` says it returns False if the exit event stopped the
  emulation, but only the exception path does; `resume_thread` does not check `max_runs`; an exception
  after the total time replaces `max_total_time` by `internal_error`.
* GDB: `engine.stop()` of the reader comes after the unlock and can hit a run after a detach.
* Command line: a child that puts its report and dies after a wait ended on its deadline and before the
  `is_alive()` check "sent no report", and a report that arrives in the last `join` of the grace period is
  lost (`SentReportsAreRead` allows these and no others); the `join` after a result has no limit; an interrupted child may send `(None, None)` and the exit
  code is 0; with `--no-mp` a failing write of the archive loses the report.
* Loader: a load whose frame the guest leaves stays INITIALIZING, and a later LoadLibrary skips its
  DllMain; a DLL loaded inside a failing DllMain leaves the PEB but stays loaded; a nested LoadLibrary can
  return a handle that the outer failure discards; DLLs of forwarders are initialized by the next
  LoadLibrary only.
* Objects: a name with a backslash at its end is never found again; a toolhelp snapshot keeps the live list; a terminated child stays in `child_processes`;
  CreateThread at `max_runs` returns 0 without an error; names find objects of any type; OpenWaitableTimer
  sets ERROR_ALREADY_EXISTS.
* Files: TRUNCATE_EXISTING does not truncate; a move to the same path deletes the file; CreatePipe gives
  one handle for both ends; `_close` and `fclose` leave the handle open; streams always append; a new view
  writes the file's content over other views.
* Registry: paths are looked up as patterns, so `*` and `?` open other keys and a path with `[ ]` gets a key
  each time; the disposition of a configured key that was not loaded is "created"; RegGetValue leaks the
  handle of the subkey; a query of a missing value succeeds with zeros.
* Network: `inet_ntop` ignores its size; `freeaddrinfo` frees one of several blocks; the WSK provider
  keeps its first client.
* Memory: VirtualProtect tells the protection of the allocation as the old one; VirtualFree beyond an
  allocation clears guards of the next one; HeapReAlloc keeps the old block; TlsAlloc has no limit.
* Buffers: `lstrcpyn`, GetAtomName and GetModuleFileNameExA write with a size of 0; PathAddBackslash lets
  MAX_PATH characters through and puts one more, as PathRenameExtension does; `mbsrtowcs` with a count of 0
  writes all; FindFirstVolume ignores its size.
* Windows: a timer that sets itself again starves the others; SendMessage reaches only procedures of
  SetWindowLong; DestroyWindow and UnregisterClass leave everything; InitOnceExecuteOnce is complete
  whatever the callback returns.
* Kernel: a third IoCreateDevice raises; KeUnstackDetachProcess keeps the attached process;
  ObfReferenceObject takes no reference while ObfDereferenceObject drops one; ZwProtectVirtualMemory
  changes nothing.
* C run-time library: `exit` and `atexit` do not meet (no function is kept); `realloc` of a freed block can
  free the new one; an exit function that executes the table and registers again can lose functions;
  `getenv` leaks a block per call.

## 4. Proofs

The theorems hold for every value of the constants that the named assumptions allow; TLC evaluates the
assumptions in every run. Each inductive invariant was model-checked on the instance of its run before it was
proved. Theorems called `Invariance` state the inductive invariant itself.

### Start timer

`TimeLimitProofs` (any set of threads, any timing constants). `IInv` adds two facts to the
properties: the deadline is the time left of the start in progress (`DeadlineOfStart`), and `_thread`
names a live thread or none (`HandleLive`). `NoLateWake` is not inductive alone:
an "expired" thread must find the deadline again, and a wait for an earlier start must end by the
notify of `arm()`. Theorems: `Invariance`, `TypeCorrect`, `ArmedTimerHasThread`, `AtMostOneTimer`,
`NoLostWakeup`, `StopsOwnStart`, and `Refinement`: `Spec` implies `Promise!Spec`, the safety part of
`TimedStart`. A step of the timer thread is a stutter there, except the delivered stop; for that one
`DeadlineOfStart` is needed, because only it says that the deadline that passed is the one of this start.

### Run loop

Any number of processes, modules, TLS callbacks, entry points and threads, any limits and any clock.
`LimitsAssumption`: the limits are numbers, and a run or the total has some time. `ObjectsAssumption`:
processes, modules and runs are listed once, processes do not share runs, and `NoRun` is none of them.

The proof is a chain of invariants, each preserved by a step under the ones before it:

* `LoopInv` = `TypeInv`, `Control`, `ExitInv`: which flags and which native exit each place of the loop may
  see. An exit is recorded for the run that executes; a completion clears it; a stop after the end of a run
  leaves none (`StopInv`). Gives `TypeCorrect` and `ExitIsOfCurrentRun`.
* `QueueInv`: a run is in one place, waiting, suspended, reported or still to be made; the queue is in an
  order in which its runs may run (`InOrder`, `MayPrecede`: an initializer before what is none, and a TLS
  callback before the DllMain of its module). Without it a run that is completed could be in the queue again.
* `ErrorInv`: how often the current run was completed and which error it has, at each place. A completion and
  its error come in several steps (a limit, an API outcome, an exception), and `CompletedOnce` alone does not
  say which of them already happened. Gives `RunsCompleteOnce` and the action property `ErrorsAreKept`. Both have
  the exception of `max_api_count`, which is checked after an API call that may already have ended the last run
  (`winemu.py:3172`): the run is then completed a second time, with that error. `ErrorsAreKept` is about the errors
  that no limit gave: a limit's own error can be replaced by an exception after it.
* `EndInv`: until a hook ends the emulation or the exit event is seen, what was reported was completed, and
  nothing is queued where the loop ends. Gives, with the load states, `EndLeavesNothing`.
* `LoadInv`: a waiting initializer belongs to a module that is being initialized; the DllMain of such a module
  is still to be completed, its TLS callback waits or passed, and the initializers of a module that is ready
  passed. The two invariants in the middle hold while the run order holds (`Ord`): after a stop by a hook the
  queue is dropped and the states are left. Gives `ModulesInitializeFirst` and `FailedModulesStayFailed`.
* `TimeInv`: the total time is the time of all calls that ended, and with the time of the open call it is
  what has passed on the clock, also from one process to the next. Gives the action property `TotalTimeIsKept`.

The first lemmas are about the sequences: `KeepLemma` (what `Keep` leaves of a sequence, in which
order), `WithoutModuleLemma`, and `InitializersLemma` (the initializers of a process are each there once, TLS
callback before DllMain).

### Memory manager

`MemoryManagerProofs` (any page size that the alignment divides, any layout, any requests). The
assumptions are `AddressAssumption` (the reserved range is not empty, sizes of ranges are positive)
and `NoMapAssumption`. `IInv` adds to the properties: allocations have pages and small ones lie in one
page (`Shapes`); the current shared block is mapped, outside the reserved range, and holds only small
allocations below `block_offset` (`BlockOK`): without this a new small allocation could overlap; and
reserves that were searched for are outside the reserved range, the loader data apart from all other
reserves (`ReservesOK`): without this `mem_map_reserve` could map elsewhere. The step is split into a
part about allocations (`AInv`) and one about reserves (`RInv`), with a lemma per way to change them.
Theorems: `Invariance`, `TypeCorrect`, `AllocationsAreDisjoint`, `AllocationsAreMapped`,
`NoPageIsLeaked`, `ReservedRangeStaysFree`, `ReservesStayUnmapped`, `LiveAllocationsAreKept` and
`ReserveIsMappedInPlace` (action properties).

The search. The loop invariant of `get_valid_ranges`, `Passed`, says of the base after the pages
below i: it is at least the start, no used page below i is in the range, and every earlier start has a used
page below i in its range. `UsedPagesAreBounded` says that no used page is above `PageBound`, for which images,
stacks with their guards, reserves and the reserved range are bounded in turn; so the loop has seen all of them
(`SearchFindsFirstFree`). `FirstFree` has one solution at most; hence `SearchIsTheLoop`: the relation
from which the memory manager's actions choose an address is the result of the loop, in every state.

### GDB session

`GdbSessionProofs` (any addresses, watchpoints and bounds; `SessionAssumption`: the marks "no address" and
"trap" are no addresses of guest code). `TypeOK` is proved in six groups. `PointInv` makes `BreakpointStops`
inductive: `_resume_pc` hides a breakpoint only from the instruction at which the client resumed, and only
until that has run, through the exits of API calls in which Unicorn is left and entered again at another
address. Theorems: `TypeCorrect`, `BreakpointsStop`.

### Command line

`TimeLimitProofs` (any number of Ctrl-C). `HeardInv`: the child puts once and at the end (`PutInv`); the parent
gives up a child as dead only when it is dead and the pipe is empty, a dead child fills no pipe, and behind the
wait a result or a reason to give up is known (`DeadInv`); the grace period and a termination follow the exit event
(`StopInv`); the exit code 0 is of a result without an error (`StatusInv`); and a result without an error has a
report, wherever it is on its way, or comes from a child that a Ctrl-C reached before it had an emulator
(`SoundInv`). Theorems: `CommandLineInvariance`, `ChildIsAlwaysHeard`.

### Services

`ServicesProofs` has one inductive invariant per service, one lemma per operation of its manager (what it does
to the tables) and one per family of handlers.

* Registry (`RegistryAssumption`: the root is a key path, sizes are numbers; `Matches` may be any relation).
  `RegInv`: keys and handles name objects; no two listed keys have one path that matches itself (`OneKey`); a
  path that was wiped is still marked as deleted or has a key that the guest made (`Marked`), and no listed key
  of such a path that matches itself has its value from the configuration (`NotFromConfig`). The property
  `DeletedValuesStayDeleted` alone does not say that the mark of a path without a key is still there when a
  later open looks at the configuration. Theorems: `RegistryKeepsItsState`, `RegistryQueries` (action property).
* Network (`NetworkAssumption`: lengths are numbers). `NetInv`: the objects are a tree of three levels
  (instance, session, request) in which an open object is below an open one (`NetTree`), and what was read of an
  answer and what is left of it add up to the answer (`Account`). Theorems: `NetworkKeepsItsState`,
  `NetworkAnswersFit` (action property).
* Virtual memory (`MemoryAssumption`: addresses are numbers). `VmInv`: allocations are disjoint and their pages
  are the engine's (`VmMap`); a guarded page is inaccessible in the engine and its permission is kept aside; a
  page whose guard was just hit is the one that will be restored (`Pending`). Theorem: `MemoryIsAsAsked`.
* Process services (`ProcessAssumption`). `PsInv`: the newest entry of the list of allocations that has the
  address of a live heap block has the size that was asked for (`HeapOK`: older entries of the address stay in
  the list); an atom has the count of its name's additions and each name one atom (`AtomsOK`); no buffer
  outlives its enumeration (`EnumOK`). Theorems: `ProcessKeepsItsState`, `OnceStaysComplete` (action property).

### Handlers

* Buffers (`BufferAssumption`: lengths are numbers and `MAX_PATH` is not 0). `BufInv`: the size that a function
  asked for last is the size that it needs for the text of that time (`Needs`). A lemma per family of handlers
  shows that, for every text and room, it writes within the room, asks for the size it needs, and succeeds with
  it; the handlers that write beyond are named (`WritesAnyway`, `OneBeyond`). Theorem: `BuffersFit`.
* Driver (`KernelAssumption`: the IRPs are a sequence of names). `DriverInv`: among the runs that ran, wait in
  the queue and wait for DriverEntry, no two are of one IRP, one export, or the unload routine; exports stand
  before the unload routine; once that is chosen nothing is delayed, and `unload_called` says so. Theorem:
  `DriverOrder`.
* C run-time library (`CrtAssumption`: a new table of exit functions has room). `CrtInv`: a function in the
  table is there once for its registration and was not called (`TableOK`), so a call, which empties its entry
  first, is the only one, also when the function registers others and the table moves, or runs the table again
  (frames, `FramesOK`). Without nesting, one frame runs the table and all entries above its last are empty,
  unless the table changed (`Alone`); hence none is lost and no freed table is read. A signal handler that is
  installed was not called (`SignalInv`). Theorem: `CalledAsAsked`.

### Objects and files

`GuestObjectsProofs` (any names, links, paths, numbers of objects and handles, and any `Room`;
`StartAssumption`: there is room for the two processes and the thread of the start; `FilesAssumption`: the bounds
are numbers).

* Objects. `World` says of the store (`Good`) that the tables name objects (`StoreOK`), that an event, a mutant or a
  semaphore has as many references as handles and is known exactly while it has one, and that other counted objects
  have at least as many (`AllHeld`: the handles of an object as a set, so that a handle that is added or closed
  changes one cardinality by one), and that findable names are unique among the known ones (`NamesOK`); of the rest,
  that runs belong to threads of their process and a waiting run's thread has a suspend count, one run per thread
  (`Waiting`: without it a ResumeThread could take the count to 0 and start another run), and that the lists name
  processes. Between two states `Larger` says that no open handle changed its object. One lemma per operation of
  the store, and one per handler. Theorems: `ObjectsAlwaysStay`, `HandlesMeanOneObject` (action property).
* Files. `FilesInv`: the lists and handles name File objects, and a duplicate has an older original (`FilesOK`); a
  listed file is an original at a path that is not deleted, and no two have one path (`PathsOK`); the bytes of a
  file that the guest wrote are no more than were counted when they were written (`CountsOK`). From the last a file
  all of whose bytes are the guest's has a count of at least its length, which is what `get_dropped_files` asks.
  Theorems: `FilesAreAlwaysListed`, `GuestTypesHold`.

### Composition

`GuestServicesProofs`. A step of `GuestServices` is a step of a part or leaves its variables alone (`Frames`,
`Steps`), so the composed specification implements that of each part (`ServicesSpec`), and the theorems carry
over: `ServicesKeep`, `BuffersAreAlwaysRespected` (action property), `AlwaysCalledOnce`, `OnceIsFinal`. The
exceptions carry over too: paths with `[ ]`, and the handlers that write beyond their room (`lstrcpyn`,
GetModuleFileNameExA and `mbsrtowcs` with room 0, PathAddBackslash, PathRenameExtension).

### Induction and what is only model-checked

The library's induction theorems take an operator as their parameter. The lemmas `NatSetInduction`,
`PageInduction` and `LeastOfNaturals` state induction, or the least element, for a set instead, from the
well-foundedness of `<` on the numbers; `Keep` and `Scan` are proved with it. No module declares a `RECURSIVE`
operator: recursion is written as recursive functions and folds.

Only model-checked:

* liveness (the fairness of `ImplementsTimedStart`, `IdleThreadExits`, `Termination`, `ResumeEnds`,
  `DeadClientDetaches`), because TLAPS has no fairness reasoning;
* `TypeOK` of `GuestServices`: its conjuncts for the registry, the network, the pages and the buffers are
  proved, the others are not. The one of `ProcessServices` needs that a handler list has no duplicates after
  `SelectSeq`, which is an induction over data;
* `LoadsAreWhole`: the recursion of `load_image` and its rollback; and of `CallsEndRight` the dialogs, the
  subclasses and `QsortSorts` (what a sort computes is an induction over data).

## 5. Not modelled

* PE parsing and relocation, exception frames and unwind codes: byte layouts, no state between calls.
* Formatting of arguments, the JSON of the report, wording of events.
* API hammering: a counter whose effect is a patch of machine code.
* The public interface forwards to the parts above; the configuration and the Windows structures are
  declarations.
* CryptoAPI keys and hashes, character classes, mathematics, number formatting: pure functions. (All keys
  of CryptDecrypt share one RC4 state, and CryptDestroyHash keeps the hash.)
* Handlers that return a constant.
* Hook lists that change during a dispatch, deduplication of events, `resume()` and `KeyboardInterrupt`.

## 6. Plan

1. `LoadsAreWhole`, with the states of the loads on the stack as the invariant.
2. Hook lists, the profiler's events and `resume()` as modules of their own.
