---------------------------- MODULE Objects ----------------------------
(***************************************************************************)
(* Kernel objects, their names, their references and the handles of user   *)
(* mode processes: ObjectManager and the object classes of objman.py,      *)
(* HandleTable of handles.py, the thread and process operations of         *)
(* winemu.py, and the handlers of kernel32.py and advapi32.py that make,   *)
(* open, duplicate, wait for and close objects.                            *)
(*                                                                         *)
(* An object is known by its id, a handle by its value: both are positions *)
(* in the order in which HandleAllocator gave them out.  Names are what    *)
(* lower() leaves of a name, "" is no name.  Return values and the last    *)
(* error are left out: a call that fails changes nothing else.             *)
(***************************************************************************)
EXTENDS Naturals, Sequences, FiniteSets, SequencesExt

CONSTANTS Names,        \* names the guest gives to objects
          ProcessName,  \* name of the process that the configuration lists
          Stripped,     \* of each name, what rstrip leaves of it: no backslash at its end
          Links,        \* config.symlinks: of each link, the name it stands for
          MaxObjects,   \* bound on the objects of a behaviour
          MaxHandles,   \* bound on the handles of a behaviour
          MaxRefs,      \* bound on suspend_count
          MaxWalk,      \* bound on the position of a toolhelp walk
          max_runs      \* config.max_runs, the length at which the queue is full

\* A behaviour starts with two processes and a thread.
ASSUME StartAssumption == MaxObjects \in Nat /\ MaxObjects >= 3

VARIABLES
  store,       \* the object manager and the handle tables
  cur,         \* curr_process, curr_thread, and whether a run is in progress
  queue,       \* run_queue: [thread, process], thread 0 when the run has none
  suspended,   \* suspended_runs
  processes,   \* emu.processes
  children,    \* emu.child_processes
  std          \* stdin of each process, as SetStdHandle left it

vars == <<store, cur, queue, suspended, processes, children, std>>

Counted == {"process", "thread", "event", "mutant", "semaphore", "token"}
Sync == {"event", "mutant", "semaphore"}

\* Handle values of the calls: usual ones, the two pseudo handles and 0xF001.
CurrentProcess == MaxHandles + 1
CurrentThread == MaxHandles + 2
Stdin == MaxHandles + 3
Args == 0 .. Stdin

(***************************************************************************)
(* The object manager and a handle table, as operations on the store.      *)
(***************************************************************************)
KernelObject(type, name) ==
  [type |-> type, name |-> name, ref |-> 0, signaled |-> TRUE, manual |-> TRUE,
   suspend |-> 0, process |-> 0, token |-> 0, modified |-> FALSE, cursor |-> 0]

Ids(s) == 1 .. Len(s.objects)

add_object(s, o) == [s EXCEPT !.objects[o].ref = @ + 1, !.om = @ \cup {o}]

new_object(s, obj) ==
  add_object([s EXCEPT !.objects = Append(@, obj)], Len(s.objects) + 1)

remove_object(s, o) == [s EXCEPT !.om = @ \ {o}]

dec_ref(s, o) ==
  LET t == [s EXCEPT !.objects[o].ref = @ - 1]
  IN  IF t.objects[o].ref <= 0 THEN remove_object(t, o) ELSE t

\* Mutant of REUSE_CLOSED_HANDLES: in every mode.
ReuseHandles == TRUE

REUSE_CLOSED_HANDLES == FALSE

allocate_handle(s) == IF s.closed # <<>> THEN Last(s.closed) ELSE s.next

free_handle(s, h) ==
  IF REUSE_CLOSED_HANDLES THEN [s EXCEPT !.closed = Append(@, h)] ELSE s

new_handle(s, p, o) ==
  LET h == allocate_handle(s)
      t == IF s.closed # <<>> THEN [s EXCEPT !.closed = Front(@)] ELSE [s EXCEPT !.next = @ + 1]
  IN  [t EXCEPT !.table = [x \in DOMAIN @ \cup {h} |-> IF x = h THEN [process |-> p, object |-> o] ELSE @[x]],
                !.objects[o].ref = IF t.objects[o].type \in Counted THEN @ + 1 ELSE @]

Open(s, p) == {h \in DOMAIN s.table : s.table[h].process = p}

get_pseudo_handle_object(h) ==
  CASE h = CurrentProcess -> cur.process [] h = CurrentThread -> cur.thread [] OTHER -> 0

\* The object of a handle in the table of p if it has one of the types, else 0.
get(s, p, h, types) ==
  LET pseudo == get_pseudo_handle_object(h)
      o == IF pseudo # 0 THEN pseudo ELSE IF h \in Open(s, p) THEN s.table[h].object ELSE 0
  IN  IF o # 0 /\ s.objects[o].type \in types THEN o ELSE 0

AnyType == Counted \cup {"snapshot", "port"}

\* Mutant of close: the reference goes before the handle is looked at.
closeReleasesFirst(s, p, h) ==
  IF get_pseudo_handle_object(h) # 0 \/ h \notin Open(s, p) THEN s
  ELSE LET o == s.table[h].object
           t == IF s.objects[o].type \in Counted THEN dec_ref(dec_ref(s, o), o) ELSE s
       IN  free_handle([t EXCEPT !.table = Restrict(@, DOMAIN @ \ {h})], h)

close(s, p, h) ==
  IF get_pseudo_handle_object(h) # 0 \/ h \notin Open(s, p) THEN s
  ELSE LET o == s.table[h].object
           t == free_handle([s EXCEPT !.table = Restrict(@, DOMAIN @ \ {h})], h)
       IN  IF s.objects[o].type \in Counted THEN dec_ref(t, o) ELSE t

\* The first registered object with the name, 0 when there is none.
FirstNamed(s, n) ==
  LET named == {o \in s.om : n # "" /\ s.objects[o].name = n}
  IN  IF named = {} THEN 0 ELSE CHOOSE o \in named : \A x \in named : o <= x

\* A name is looked up without the backslashes at its end, then as a symbolic link.  An
\* object keeps the name it was made with: one that ends in a backslash is never found.
get_object_from_name(s, n) ==
  LET name == IF n = "" THEN n ELSE Stripped[n]
      o == FirstNamed(s, name)
  IN  IF o = 0 /\ name \in DOMAIN Links THEN FirstNamed(s, Stripped[Links[name]]) ELSE o

\* The object manager looks the object up again by its address.
get_object_handle(s, o) == IF o \in s.om THEN new_handle(s, cur.process, o) ELSE s

\* The reference of the new object goes over to its handle.
_new_object_handle(s, obj) ==
  dec_ref(new_handle(new_object(s, obj), cur.process, Len(s.objects) + 1), Len(s.objects) + 1)

create_event(s, n) == _new_object_handle(s, KernelObject("event", n))
create_mutant(s, n) == _new_object_handle(s, KernelObject("mutant", n))
create_semaphore(s, n) == _new_object_handle(s, KernelObject("semaphore", n))

Process(s, n) == new_object(s, KernelObject("process", n))
Thread(s, p) == new_object(s, [KernelObject("thread", "") EXCEPT !.process = p])

Newest(s) == Len(s.objects)

(***************************************************************************)
(* The first process with its thread, and a process of the configuration.  *)
(***************************************************************************)
NoObjects == [objects |-> <<>>, om |-> {}, table |-> [h \in {} |-> h], next |-> 1, closed |-> <<>>]
init_processes == Process(NoObjects, ProcessName)
run_module == Thread(Process(init_processes, ""), 2)

Init == /\ store = run_module
        /\ cur = [process |-> 2, thread |-> 3, running |-> TRUE]
        /\ queue = <<>>
        /\ suspended = <<>>
        /\ processes = <<1, 2>>
        /\ children = <<>>
        /\ std = [p \in {1, 2} |-> Stdin]

Fits(s) == Len(s.objects) <= MaxObjects /\ s.next <= MaxHandles + 1
Guest == cur.running
Others == UNCHANGED <<cur, queue, suspended, processes, children, std>>
Becomes(s) == Guest /\ Fits(s) /\ store' = s /\ Others
Obj(h, types) == get(store, cur.process, h, types)

is_std_handle(h) == h = std[cur.process] /\ h \notin Open(store, cur.process)

(***************************************************************************)
(* Named objects.  A name finds an object of any type.                     *)
(***************************************************************************)
CreateNamed(n, new) ==
  LET o == get_object_from_name(store, n)
  IN  Becomes(IF o # 0 THEN get_object_handle(store, o) ELSE new)

OpenNamed(n) ==
  LET o == get_object_from_name(store, n) IN o # 0 /\ Becomes(get_object_handle(store, o))

CreateMutex(n) == CreateNamed(n, create_mutant(store, n))
CreateMutexEx(n) == CreateNamed(n, create_mutant(store, n))
OpenMutex(n) == n # "" /\ OpenNamed(n)

CreateEvent(n, manual, initial) ==
  CreateNamed(n, [create_event(store, n) EXCEPT !.objects[Newest(store) + 1].manual = manual,
                                                !.objects[Newest(store) + 1].signaled = initial])
CreateEventEx(n, manual, initial) == CreateEvent(n, manual, initial)
OpenEvent(n) == n # "" /\ OpenNamed(n)

CreateWaitableTimer(n) == CreateNamed(n, create_event(store, n))
CreateWaitableTimerEx(n) == CreateNamed(n, create_event(store, n))
OpenWaitableTimer(n) == OpenNamed(n)

CreateSemaphore(n) == CreateNamed(n, create_semaphore(store, n))
OpenSemaphore(n) == n # "" /\ OpenNamed(n)

(***************************************************************************)
(* Events and waits.  A wait never blocks: threads run one after another.  *)
(***************************************************************************)
Signal(h, value) ==
  LET o == Obj(h, {"event"}) IN o # 0 /\ Becomes([store EXCEPT !.objects[o].signaled = value])

SetEvent(h) == Signal(h, TRUE)
ResetEvent(h) == Signal(h, FALSE)
PulseEvent(h) == Signal(h, FALSE)

wait_for_events(events, wait_all) ==
  LET set == {i \in DOMAIN events : store.objects[events[i]].signaled}
      ready == IF wait_all
                 THEN IF set = DOMAIN events THEN set ELSE {}
                 ELSE {i \in set : \A j \in set : i <= j}
      taken == {events[i] : i \in ready}
  IN  [store EXCEPT !.objects = [o \in DOMAIN @ |->
         IF o \in taken /\ ~@[o].manual THEN [@[o] EXCEPT !.signaled = FALSE] ELSE @[o]]]

WaitForSingleObject(h) ==
  LET o == Obj(h, {"event"})
  IN  ~is_std_handle(h) /\ o # 0 /\ Becomes(wait_for_events(<<o>>, FALSE))

WaitForMultipleObjects(hs, wait_all) ==
  LET os == [i \in DOMAIN hs |-> Obj(hs[i], {"event"})]
  IN  /\ \A i \in DOMAIN hs : ~is_std_handle(hs[i]) /\ os[i] # 0
      /\ Becomes(wait_for_events(os, wait_all))

(***************************************************************************)
(* Handles.                                                                *)
(***************************************************************************)
CloseHandle(h) == ~is_std_handle(h) /\ h \in Open(store, cur.process) /\ Becomes(close(store, cur.process, h))

_get_process_handle_table(h) == Obj(h, {"process"})

\* A standard handle has the same value in every process and is not duplicated.
DuplicateHandle(hp, h, ht, closeSource) ==
  LET p == _get_process_handle_table(hp)
      q == _get_process_handle_table(ht)
      o == get(store, p, h, AnyType)
      dup == new_handle(store, q, o)
  IN  /\ p # 0 /\ q # 0 /\ ~is_std_handle(h) /\ o # 0
      /\ Becomes(IF closeSource THEN close(dup, p, h) ELSE dup)

SetStdHandle(h) ==
  /\ Guest /\ h \in Open(store, cur.process)
  /\ std' = [std EXCEPT ![cur.process] = h]
  /\ UNCHANGED <<store, cur, queue, suspended, processes, children>>

CreateIoCompletionPort ==
  Becomes(new_handle([store EXCEPT !.objects = Append(@, KernelObject("port", ""))], cur.process, Newest(store) + 1))

\* A process or a thread has its token from the start.  It has no address and no name, so nothing finds it
\* before its first handle is opened; here it becomes an object then.
OpenToken(o) ==
  LET s == IF store.objects[o].token # 0 THEN store
           ELSE [store EXCEPT !.objects = Append([@ EXCEPT ![o].token = Newest(store) + 1],
                                                 [KernelObject("token", "") EXCEPT !.ref = 1])]
  IN  Becomes(new_handle(s, cur.process, s.objects[o].token))

OpenProcessToken(h) == LET o == Obj(h, {"process"}) IN o # 0 /\ OpenToken(o)
OpenThreadToken(h) == LET o == Obj(h, {"thread"}) IN o # 0 /\ OpenToken(o)
DuplicateTokenEx(h) ==
  LET s == [store EXCEPT !.objects = Append(@, [KernelObject("token", "") EXCEPT !.ref = 1])]
  IN  Obj(h, {"token"}) # 0 /\ Becomes(new_handle(s, cur.process, Newest(s)))

(***************************************************************************)
(* Toolhelp snapshots keep the list itself and the position of the walk,   *)
(* not a copy of the list.                                                 *)
(***************************************************************************)
CreateToolhelp32Snapshot ==
  Becomes(new_handle([store EXCEPT !.objects = Append(@, KernelObject("snapshot", ""))],
                     cur.process, Newest(store) + 1))

First(h) ==
  LET o == Obj(h, {"snapshot"}) IN o # 0 /\ Becomes([store EXCEPT !.objects[o].cursor = 1])
NextEntry(h, list) ==
  LET o == Obj(h, {"snapshot"})
  IN  /\ o # 0
      /\ store.objects[o].cursor <= Len(list) /\ store.objects[o].cursor < MaxWalk
      /\ Becomes([store EXCEPT !.objects[o].cursor = @ + 1])

Threads == SelectSeq([o \in Ids(store) |-> o],
                     LAMBDA o : store.objects[o].type = "thread" /\ store.objects[o].process = cur.process)

Process32First(h) == First(h)
Process32Next(h) == NextEntry(h, processes)
Thread32First(h) == First(h)
Thread32Next(h) == NextEntry(h, Threads)

(***************************************************************************)
(* Processes and threads.                                                  *)
(***************************************************************************)
OpenProcess(p) ==
  /\ p \in ToSet(processes)
  /\ Becomes(get_object_handle(IF p \in store.om THEN store ELSE add_object(store, p), p))

OpenThread(id) == id \in store.om /\ Becomes(get_object_handle(store, id))

\* exit_process ends the run in progress, whatever process it is of.
exit_process ==
  /\ Guest
  /\ cur' = [cur EXCEPT !.running = FALSE]
  /\ UNCHANGED <<store, queue, suspended, processes, children, std>>

\* A killed process leaves the process list; its object, its table and its runs stay.
kill_process(p) == RemoveFirst(processes, p)

TerminateProcess(h) ==
  LET p == Obj(h, {"process"})
  IN  /\ Guest /\ p # 0 /\ p # cur.process
      /\ processes' = kill_process(p)
      /\ UNCHANGED <<store, cur, queue, suspended, children, std>>

create_process == LET s == Process(store, "") IN Thread(s, Newest(s))

CreateProcess(suspend) ==
  LET s == create_process
      p == Newest(store) + 1
      t == get_object_handle(get_object_handle(s, p), Newest(s))
      u == [t EXCEPT !.objects[Newest(s)].suspend = IF suspend THEN 1 ELSE 0]
  IN  /\ Guest /\ Fits(u)
      /\ store' = u
      /\ children' = Append(children, p)
      /\ std' = [x \in DOMAIN std \cup {p} |-> IF x = p THEN Stdin ELSE std[x]]
      /\ UNCHANGED <<cur, queue, suspended, processes>>

\* At max_runs no thread is made.
create_thread(s, p, is_suspended) ==
  LET t == Thread(s, p)
      run == [thread |-> Newest(t), process |-> p]
      u == [new_handle(t, cur.process, Newest(t)) EXCEPT !.objects[Newest(t)].suspend = IF is_suspended THEN 1 ELSE @]
  IN  /\ Len(queue) < max_runs /\ Fits(u)
      /\ store' = u
      /\ queue' = IF is_suspended THEN queue ELSE Append(queue, run)
      /\ suspended' = IF is_suspended THEN Append(suspended, run) ELSE suspended

CreateThread(is_suspended) ==
  Guest /\ create_thread(store, cur.process, is_suspended) /\ UNCHANGED <<cur, processes, children, std>>

CreateRemoteThread(h) ==
  LET p == Obj(h, {"process"})
  IN  Guest /\ p # 0 /\ create_thread(store, p, FALSE) /\ UNCHANGED <<cur, processes, children, std>>

\* WriteProcessMemory into a process and SetThreadContext of one of its threads mark it; only the mark of a
\* child process is ever read.
Modified(p) == p \in ToSet(children) /\ Becomes([store EXCEPT !.objects[p].modified = TRUE])
WriteProcessMemory(h) == LET p == Obj(h, {"process"}) IN p # 0 /\ Modified(p)
SetThreadContext(h) ==
  LET t == Obj(h, {"thread"}) IN t # 0 /\ Modified(store.objects[t].process)

RunsOf(runs, t) == {i \in DOMAIN runs : runs[i].thread = t}
FirstRun(runs, t) == CHOOSE i \in RunsOf(runs, t) : \A j \in RunsOf(runs, t) : i <= j

\* The first suspended run of the thread goes back to the end of the run queue.
resume_thread(t) ==
  /\ queue' = Append(queue, suspended[FirstRun(suspended, t)])
  /\ suspended' = RemoveAt(suspended, FirstRun(suspended, t))

ResumeThread(h) ==
  LET t == Obj(h, {"thread"})
      count == store.objects[t].suspend
      s == [store EXCEPT !.objects[t].suspend = IF count > 0 THEN @ - 1 ELSE @]
      p == store.objects[t].process
      injected == p \in ToSet(children) /\ store.objects[p].modified
  IN  /\ Guest /\ t # 0
      /\ \/ /\ count # 1 \/ (RunsOf(suspended, t) = {} /\ ~injected)
            /\ store' = s
            /\ UNCHANGED <<queue, suspended, children>>
         \/ /\ count = 1 /\ RunsOf(suspended, t) # {}
            /\ store' = s /\ resume_thread(t)
            /\ UNCHANGED children
         \/ /\ count = 1 /\ RunsOf(suspended, t) = {} /\ injected
            /\ \/ create_thread(s, p, FALSE)
               \/ Len(queue) >= max_runs /\ store' = s /\ UNCHANGED <<queue, suspended>>
            /\ children' = RemoveFirst(children, p)
      /\ UNCHANGED <<cur, processes, std>>

SuspendThread(h) ==
  LET t == Obj(h, {"thread"})
      moves == store.objects[t].suspend = 0 /\ t # cur.thread /\ RunsOf(queue, t) # {}
  IN  /\ Guest /\ t # 0
      /\ store.objects[t].suspend < MaxRefs
      /\ store' = [store EXCEPT !.objects[t].suspend = @ + 1]
      /\ queue' = IF moves THEN RemoveAt(queue, FirstRun(queue, t)) ELSE queue
      /\ suspended' = IF moves THEN Append(suspended, queue[FirstRun(queue, t)]) ELSE suspended
      /\ UNCHANGED <<cur, processes, children, std>>

\* A service table queues runs that have no thread.
StartServiceCtrlDispatcher ==
  /\ Guest /\ Len(queue) < max_runs
  /\ queue' = Append(queue, [thread |-> 0, process |-> cur.process])
  /\ UNCHANGED <<store, cur, suspended, processes, children, std>>

(***************************************************************************)
(* The next run gets the process and the thread of the run, or a new       *)
(* thread; when no run is left, the next child process starts.             *)
(***************************************************************************)
_exec_run ==
  LET run == Head(queue)
      s == IF run.thread = 0 THEN Thread(store, run.process) ELSE store
  IN  /\ ~cur.running /\ queue # <<>> /\ Fits(s)
      /\ store' = s
      /\ cur' = [process |-> run.process, thread |-> IF run.thread = 0 THEN Newest(s) ELSE run.thread,
                 running |-> TRUE]
      /\ queue' = Tail(queue)
      /\ UNCHANGED <<suspended, processes, children, std>>

MainThread(p) ==
  CHOOSE t \in Ids(store) : /\ store.objects[t].type = "thread" /\ store.objects[t].process = p
                            /\ \A x \in Ids(store) :
                                 store.objects[x].type = "thread" /\ store.objects[x].process = p => t <= x

run_child ==
  LET p == Head(children)
  IN  /\ ~cur.running /\ queue = <<>> /\ children # <<>>
      /\ children' = Tail(children)
      /\ \/ UNCHANGED <<store, cur>>                          \* no image, or it does not load
         \/ /\ store' = add_object(store, MainThread(p))
            /\ cur' = [process |-> p, thread |-> MainThread(p), running |-> TRUE]
      /\ UNCHANGED <<queue, suspended, processes, std>>

ProcessHandles == {h \in Args : _get_process_handle_table(h) # 0}
EventHandles == {h \in Args : Obj(h, {"event"}) # 0}

NextObjects ==
  \/ \E n \in Names \cup {""} :
       \/ CreateMutex(n) \/ CreateMutexEx(n) \/ OpenMutex(n) \/ OpenEvent(n) \/ OpenSemaphore(n)
       \/ CreateWaitableTimer(n) \/ CreateWaitableTimerEx(n) \/ OpenWaitableTimer(n) \/ CreateSemaphore(n)
       \/ \E m, i \in BOOLEAN : CreateEvent(n, m, i) \/ CreateEventEx(n, m, i)
  \/ \E h \in EventHandles : SetEvent(h) \/ ResetEvent(h) \/ PulseEvent(h) \/ WaitForSingleObject(h)
  \/ \E h1, h2 \in EventHandles, all \in BOOLEAN : WaitForMultipleObjects(<<h1, h2>>, all)
  \/ \E h \in Args :
       \/ OpenProcessToken(h) \/ OpenThreadToken(h) \/ DuplicateTokenEx(h)
       \/ Process32First(h) \/ Process32Next(h) \/ Thread32First(h) \/ Thread32Next(h)
  \/ CreateIoCompletionPort \/ CreateToolhelp32Snapshot
  \/ \E h \in Args : CloseHandle(h) \/ SetStdHandle(h)
  \/ \E hp, ht \in ProcessHandles, h \in Args, c \in BOOLEAN : DuplicateHandle(hp, h, ht, c)
  \/ \E o \in Ids(store) : OpenProcess(o) \/ OpenThread(o)

NextThreads ==
  \/ \E h \in Args :
       \/ TerminateProcess(h) \/ CreateRemoteThread(h) \/ WriteProcessMemory(h) \/ SetThreadContext(h)
       \/ ResumeThread(h) \/ SuspendThread(h) \/ CloseHandle(h)
  \/ StartServiceCtrlDispatcher \/ exit_process
  \/ \E b \in BOOLEAN : CreateProcess(b) \/ CreateThread(b)
  \/ _exec_run \/ run_child

Next == NextObjects \/ NextThreads

Spec == Init /\ [][Next]_vars

(***************************************************************************)
(* Properties.                                                             *)
(***************************************************************************)
Run == [thread : 0 .. MaxObjects, process : 1 .. MaxObjects]

\* The types of the tables and the queues: every id is that of an object of the right class.
TypeOK ==
  /\ store.om \subseteq Ids(store)
  /\ \A h \in DOMAIN store.table : h < store.next /\ store.table[h].object \in Ids(store)
  /\ cur.process \in Ids(store) /\ store.objects[cur.process].type = "process"
  /\ cur.thread \in Ids(store) /\ store.objects[cur.thread].type = "thread"
  /\ \A r \in ToSet(queue) \cup ToSet(suspended) :
       r \in Run /\ store.objects[r.process].type = "process"
  /\ \A p \in ToSet(processes) \cup ToSet(children) : store.objects[p].type = "process"

HandlesOf(o) == {h \in DOMAIN store.table : store.table[h].object = o}

\* Every open handle of a counted object is one of its references.  An event, a mutant or a semaphore has
\* no others, and the object manager knows it, and so its name, exactly as long as a handle is open; threads
\* and processes are known for ever (HandleTable.new_handle and close, ObjectManager.dec_ref).
HandlesHoldObjects ==
  \A o \in Ids(store) :
    LET obj == store.objects[o]
    IN  /\ obj.type \in Counted => obj.ref >= Cardinality(HandlesOf(o))
        /\ obj.type \in Sync => /\ obj.ref = Cardinality(HandlesOf(o))
                                /\ o \in store.om <=> HandlesOf(o) # {}
        /\ obj.type \in {"process", "thread"} => o \in store.om

\* A name that a lookup can find: not none, and without a backslash at its end.
Findable(n) == n # "" /\ Stripped[n] = n

\* Two events, mutants or semaphores that are alive never have the same findable name: each create handler
\* finds the object that another handler made under the name before it makes one.  (Under a name that ends in
\* a backslash each create makes an object, for the lookup drops the backslash and the object keeps it.)
OneObjectPerName ==
  \A o, x \in store.om :
    /\ store.objects[o].type \in Sync /\ store.objects[x].type \in Sync
    /\ Findable(store.objects[o].name) /\ store.objects[o].name = store.objects[x].name
    => o = x

\* A suspended run is never stranded: while it waits in suspended_runs its thread has a suspend count, so the
\* ResumeThread that takes the count to 0 finds it (SuspendThread, ResumeThread, create_thread).
SuspendedRunsCanResume ==
  \A r \in ToSet(suspended) : r.thread # 0 /\ store.objects[r.thread].suspend >= 1

\* A handle value refers to one object for the whole emulation: it is never given out again, in any process
\* (the reason HandleAllocator gives for REUSE_CLOSED_HANDLES).
HandlesKeepTheirMeaning ==
  [][/\ store'.next >= store.next
     /\ \A h \in DOMAIN store'.table :
          IF h < store.next
            THEN h \in DOMAIN store.table /\ store'.table[h] = store.table[h]
            ELSE TRUE]_vars
=============================================================================
