---------------------------- MODULE Kernel ----------------------------
(***************************************************************************)
(* The kernel driver emulator (speakeasy/windows/kernel.py) and the kernel *)
(* objects that a driver makes through ntoskrnl.py: in which order the     *)
(* DriverEntry, the exports, the IRP handlers and the unload routine run,  *)
(* and the devices, links, threads, pool, IRPs and IRQL that the handlers  *)
(* keep.  A run ends in any way: a return, an error or a limit.            *)
(***************************************************************************)
EXTENDS Naturals, Sequences, FiniteSets, SequencesExt

CONSTANTS IrpOrder,     \* the major functions that next_driver_func tries, in order
          MaxExports,   \* exports of the driver (MAX_EXPORTS_TO_EMULATE at most)
          max_runs,     \* runs that create_thread lets wait in the queue
          MaxThreads,   \* bound on threads and reinitialization runs
          MaxDevices,   \* bound on IoCreateDevice calls
          DeviceNames,  \* names of devices
          LinkNames,    \* names of symbolic links
          MaxPool,      \* bound on pool, IRP and MDL allocations
          Processes     \* processes, "system" included

VARIABLES sched,        \* the run queue and what ran
          drv,          \* the driver object
          objs,         \* named objects, symbolic links and references
          cpu,          \* IRQL and current process
          pool,         \* live allocations by kind
          res           \* what the last call told the driver

vars == <<sched, drv, objs, cpu, pool, res>>
View == <<sched, drv, objs, cpu, pool>>

PASSIVE_LEVEL == 0
DISPATCH_LEVEL == 2
Majors == ToSet(IrpOrder)
Run(type, name, inside) == [type |-> type, name |-> name, inside |-> inside]
DriverEntry == Run("entry", "", TRUE)
ExportRun(i) == Run("export", i, TRUE)
NoRun == Run("none", "", FALSE)

\* run_module: the DriverEntry run, and the exports that wait for it.
Init ==
  /\ \E all \in BOOLEAN, n \in 0 .. MaxExports :
       sched = [queue |-> <<>>, delayed |-> IF all THEN [i \in 1 .. n |-> ExportRun(i)] ELSE <<>>,
                exports |-> IF all THEN n ELSE 0, all |-> all, cur |-> DriverEntry, ran |-> <<DriverEntry>>,
                ending |-> FALSE, complete |-> FALSE, made |-> 0]
  /\ drv = [majors |-> {}, unload |-> FALSE, unload_called |-> FALSE, devices |-> <<>>, chain |-> 0]
  /\ objs = [named |-> {}, links |-> <<>>, refs |-> [p \in Processes |-> 1], modified |-> {}]
  /\ cpu = [irql |-> PASSIVE_LEVEL, process |-> "system"]
  /\ pool = [chunk |-> 0, item |-> 0, irp |-> 0, mdl |-> 0, io |-> 0]
  /\ res = "none"

-----------------------------------------------------------------------------
(* The order of the runs. *)

\* on_emu_complete: the run loop ends, whatever is left in the queue.
on_emu_complete(s) == [s EXCEPT !.complete = TRUE]
add_run(s, run) == [s EXCEPT !.queue = Append(@, run)]

\* driver_unload: one run of the unload routine; without one, or after it, the emulation ends.
driver_unload(s) ==
  IF ~drv.unload \/ drv.unload_called THEN on_emu_complete(s) ELSE add_run(s, Run("unload", "", TRUE))

Sent(s, major) == \E i \in DOMAIN s.ran : s.ran[i].type = "irp" /\ s.ran[i].name = major
Unsent(s) == {i \in DOMAIN IrpOrder : ~Sent(s, IrpOrder[i]) /\ IrpOrder[i] \in drv.majors}

\* The runs that wait for the end of DriverEntry join the queue.
Released(s) == [s EXCEPT !.queue = @ \o s.delayed, !.delayed = <<>>]
Unloads(s) == Unsent(s) = {} \/ drv.devices = <<>>

\* next_driver_func: when the queue is empty, the next IRP to the first device, or the unload routine.
next_driver_func(s) ==
  IF s.queue # <<>> \/ ~s.all THEN s
  ELSE IF Unloads(s) THEN driver_unload(Released(s))
       ELSE add_run(Released(s), Run("irp", IrpOrder[Min(Unsent(s))], TRUE))
CallsUnload(s) == s.queue = <<>> /\ s.all /\ Unloads(s) /\ drv.unload

\* _prepare_next_run: the next run is prepared even if the emulation is complete; it only executes if it is not.
_prepare_next_run(s) ==
  IF s.queue = <<>> THEN [on_emu_complete(s) EXCEPT !.cur = NoRun]
  ELSE [s EXCEPT !.cur = Head(s.queue), !.queue = Tail(@), !.ending = FALSE,
                 !.ran = IF s.complete THEN @ ELSE Append(@, Head(s.queue))]

\* on_run_complete: a run that starts outside the driver image does not choose what follows.
on_run_complete ==
  /\ ~sched.complete
  /\ sched' = _prepare_next_run(IF sched.cur.inside THEN next_driver_func(sched) ELSE sched)
  /\ drv' = IF sched.cur.inside /\ CallsUnload(sched) THEN [drv EXCEPT !.unload_called = TRUE] ELSE drv
  /\ res' = "none"
  /\ UNCHANGED <<objs, cpu, pool>>

-----------------------------------------------------------------------------
(* What a run of the driver does.  The driver writes its driver object in memory; read_back *)
(* copies the major functions and the unload routine from there.                            *)

Runs == ~sched.complete /\ ~sched.ending
Tells(r) == res' = r
Only(v) == UNCHANGED <<sched, drv, objs, cpu, pool>> /\ Tells(v)
InDriver == UNCHANGED <<sched, objs, cpu, pool>>
InSched == UNCHANGED <<drv, objs, cpu, pool>>
InObjs == UNCHANGED <<sched, drv, cpu, pool>>
InCpu == UNCHANGED <<sched, drv, objs, pool>>
InPool == UNCHANGED <<sched, drv, objs, cpu>>

SetMajorFunction(major) ==
  Runs /\ drv' = [drv EXCEPT !.majors = @ \cup {major}] /\ Tells("none") /\ InDriver
SetDriverUnload ==
  Runs /\ drv' = [drv EXCEPT !.unload = TRUE] /\ Tells("none") /\ InDriver

\* create_device_object: the second device is linked behind the first; the search for the end
\* of a longer chain reads a field that the driver object does not have, and raises.
Raises == sched' = [sched EXCEPT !.ending = TRUE] /\ Tells("raised")
create_device_object(name) ==
  IF drv.chain < 2
  THEN /\ drv' = [drv EXCEPT !.devices = Append(@, name), !.chain = @ + 1]
       /\ objs' = [objs EXCEPT !.named = @ \cup {name}]
       /\ Tells("success") /\ UNCHANGED sched
  ELSE Raises /\ objs' = [objs EXCEPT !.named = @ \cup {name}] /\ UNCHANGED drv

\* IoCreateDevice and IoCreateDeviceSecure
IoCreateDevice(name, known) ==
  /\ Runs /\ Len(drv.devices) < MaxDevices
  /\ IF known THEN create_device_object(name) ELSE Tells("invalid parameter") /\ UNCHANGED <<sched, drv, objs>>
  /\ UNCHANGED <<cpu, pool>>
IoCreateDeviceSecure(name, known) ==
  /\ Runs /\ Len(drv.devices) < MaxDevices
  /\ IF known THEN create_device_object(name) ELSE Raises /\ UNCHANGED <<drv, objs>>
  /\ UNCHANGED <<cpu, pool>>

\* A device, its driver and its links stay.
IoDeleteDevice == Runs /\ Only("success")
IoDeleteSymbolicLink == Runs /\ Only("success")
IoDeleteDriver == Runs /\ Only("success")

IoCreateSymbolicLink(link, target) ==
  /\ Runs /\ Len(objs.links) < MaxDevices
  /\ objs' = [objs EXCEPT !.links = Append(@, [link |-> link, target |-> target])]
  /\ Tells("success") /\ InObjs

\* get_object_from_name: an object of that name, or of the target of the first link of that name.
Target(name) ==
  LET m == SelectSeq(objs.links, LAMBDA l : l.link = name) IN IF m = <<>> THEN name ELSE m[1].target
NameFound(name) == name \in objs.named \/ Target(name) \in objs.named
ObReferenceObjectByName(name) == Runs /\ Only(IF NameFound(name) THEN "success" ELSE "not found")
IoGetDeviceObjectPointer(name) == Runs /\ Only(IF NameFound(name) THEN "success" ELSE "invalid parameter")

\* PsCreateSystemThread: create_thread refuses at max_runs; the client id is then read from no thread.
PsCreateSystemThread(inside, wantsId) ==
  /\ Runs /\ sched.made < MaxThreads
  /\ IF Len(sched.queue) >= max_runs
     THEN IF wantsId THEN Raises ELSE Tells("success") /\ UNCHANGED sched
     ELSE /\ sched' = [add_run(sched, Run("thread", "", inside)) EXCEPT !.made = @ + 1]
          /\ Tells("success")
  /\ InSched
PsTerminateSystemThread == Runs /\ Only("success")
IoRegisterBootDriverReinitialization ==
  /\ Runs /\ sched.made < MaxThreads
  /\ sched' = [add_run(sched, Run("reinit", "", TRUE)) EXCEPT !.made = @ + 1]
  /\ Tells("none") /\ InSched

\* KeBugCheckEx ends the run.
KeBugCheckEx == Runs /\ sched' = [sched EXCEPT !.ending = TRUE] /\ Tells("none") /\ InSched

-----------------------------------------------------------------------------
(* Processes, references and the IRQL. *)

\* PsLookupProcessByProcessId and PsLookupThreadByThreadId take a reference, which
\* ObfDereferenceObject gives back; ObfReferenceObject takes none.
PsLookupProcessByProcessId(p) ==
  /\ Runs /\ objs.refs[p] < MaxPool
  /\ objs' = [objs EXCEPT !.refs[p] = @ + 1] /\ Tells("success") /\ InObjs
ObfDereferenceObject(p) ==
  /\ Runs /\ objs.refs[p] > 0
  /\ objs' = [objs EXCEPT !.refs[p] = @ - 1] /\ Tells("none") /\ InObjs
ObfReferenceObject == Runs /\ Only("none")
ObOpenObjectByPointer(known) == Runs /\ Only(IF known THEN "success" ELSE "invalid parameter")
ObReferenceObjectByHandle(known) == Runs /\ Only(IF known THEN "success" ELSE "invalid handle")

\* Events: a name finds whatever object has it, and an event of an existing name is one more object.
ZwCreateEvent(name) ==
  Runs /\ objs' = [objs EXCEPT !.named = @ \cup {name}] /\ Tells("success") /\ InObjs
IoCreateSynchronizationEvent(name) == ZwCreateEvent(name)
ZwOpenEvent(name) == ObReferenceObjectByName(name)

\* KeStackAttachProcess changes the current process, and KeUnstackDetachProcess leaves it.
KeStackAttachProcess(p) ==
  Runs /\ cpu' = [cpu EXCEPT !.process = p] /\ Tells("none") /\ InCpu
KeUnstackDetachProcess == Runs /\ Only("none")
PsGetCurrentProcessId == Runs /\ Only(cpu.process)

KeAcquireSpinLock == Runs /\ cpu' = [cpu EXCEPT !.irql = DISPATCH_LEVEL] /\ Tells("none") /\ InCpu
KeReleaseSpinLock(old) == Runs /\ cpu' = [cpu EXCEPT !.irql = old] /\ Tells("none") /\ InCpu
KeGetCurrentIrql == Runs /\ Only("none")

-----------------------------------------------------------------------------
(* Pool, work items, IRPs, MDLs and I/O space. *)

Allocates(kind) ==
  /\ Runs /\ pool[kind] < MaxPool
  /\ pool' = [pool EXCEPT ![kind] = @ + 1] /\ Tells("success") /\ InPool
Frees(kind) ==
  /\ Runs /\ pool[kind] > 0
  /\ pool' = [pool EXCEPT ![kind] = @ - 1] /\ Tells("none") /\ InPool

ExAllocatePoolWithTag == Allocates("chunk")
ExAllocatePool2(size) == IF size = 0 THEN Runs /\ Only("null") ELSE Allocates("chunk")
ExFreePoolWithTag == Frees("chunk")
IoAllocateWorkItem == Allocates("item")
IoFreeWorkItem == Frees("item")
FsRtlAllocatePool == Allocates("chunk")
\* The worker routine runs at once, as a guest callback of the call.
IoQueueWorkItem == Runs /\ pool.item > 0 /\ Only("callback")
IoAllocateIrp == Allocates("irp")
IoFreeIrp == Runs /\ Only("none")
IoAllocateMdl == Allocates("mdl")
IoFreeMdl == Runs /\ Only("none")
\* IoBuildDeviceIoControlRequest: an IRP and, by the method of the code, a system buffer or an MDL.
IoBuildDeviceIoControlRequest(method, in, out) ==
  /\ Runs /\ \A k \in {"irp", "chunk", "mdl"} : pool[k] < MaxPool
  /\ LET buffered == method = "buffered" /\ in + out > 0
         direct == method = "direct"
     IN pool' = [pool EXCEPT !.irp = @ + 1,
                             !.chunk = IF buffered \/ (direct /\ in > 0) THEN @ + 1 ELSE @,
                             !.mdl = IF direct /\ out > 0 THEN @ + 1 ELSE @]
  /\ Tells("success") /\ InPool
IofCallDriver == Runs /\ pool.irp > 0 /\ Only("success")
MmMapIoSpace(size) == IF size = 0 THEN Runs /\ Only("null") ELSE Allocates("io")
MmUnmapIoSpace == Frees("io")

\* Memory and registers of a process that a handle names.  A change marks the process as modified;
\* the protection never changes.
ZwAllocateVirtualMemory(known) == IF known THEN Allocates("chunk") ELSE Runs /\ Only("invalid handle")
Modifies(p) == objs' = [objs EXCEPT !.modified = @ \cup {p}] /\ Tells("success") /\ InObjs
ZwWriteVirtualMemory(p, known, given) ==
  /\ Runs
  /\ IF known /\ given THEN Modifies(p) ELSE Only(IF known THEN "invalid parameter" ELSE "invalid handle")
ZwProtectVirtualMemory == Runs /\ Only("success")
ZwGetContextThread(known) == ObReferenceObjectByHandle(known)
ZwSetContextThread(p, known, given) ==
  Runs /\ IF known /\ given THEN Modifies(p) ELSE Only(IF known THEN "success" ELSE "invalid handle")

-----------------------------------------------------------------------------
(* Handlers that keep nothing. *)

\* Events, timers, waits and the critical sections of the kernel always succeed.
KernelEvents == Runs /\ Only("success")
KernelTimers == Runs /\ Only("success")
KernelWaits == Runs /\ Only("success")
Resources == Runs /\ Only("success")
\* Notification routines, ETW and callbacks of the configuration manager are never called.
CmCallbacks == Runs /\ Only("success")
NotifyRoutines == Runs /\ Only("success")
ShutdownNotifications == Runs /\ Only("success")
\* An APC, a DPC or a queued work item is never delivered, and a completion routine is never called.
Deferred == Runs /\ Only("success")
CompletionRoutines == Runs /\ Only("success")
Debugger == Runs /\ Only("inactive")
SecurityDescriptors == Runs /\ Only("success")
\* RtlInitializeSid refuses more than 15 subauthorities.
RtlInitializeSid(subauthorities) ==
  Runs /\ Only(IF subauthorities > 15 THEN "invalid parameter" ELSE "success")
RtlQueryFeatureConfiguration == Runs /\ Only("not found")
FeatureConfiguration == Runs /\ Only("success")
DebugPrints == Runs /\ Only("success")

NextRuns ==
  \/ on_run_complete
  \/ \E m \in Majors : SetMajorFunction(m)
  \/ SetDriverUnload
  \/ \E n \in DeviceNames, k \in BOOLEAN : IoCreateDevice(n, k) \/ IoCreateDeviceSecure(n, k)
  \/ \E inside, wants \in BOOLEAN : PsCreateSystemThread(inside, wants)
  \/ PsTerminateSystemThread \/ IoRegisterBootDriverReinitialization \/ KeBugCheckEx

NextKernelObjects ==
  \/ on_run_complete
  \/ \E n \in DeviceNames : IoCreateDevice(n, TRUE)
  \/ IoDeleteDevice \/ IoDeleteSymbolicLink \/ IoDeleteDriver
  \/ \E l \in LinkNames, n \in DeviceNames \cup LinkNames : IoCreateSymbolicLink(l, n)
  \/ \E n \in DeviceNames \cup LinkNames : ObReferenceObjectByName(n) \/ IoGetDeviceObjectPointer(n)
  \/ \E p \in Processes : PsLookupProcessByProcessId(p) \/ ObfDereferenceObject(p) \/ KeStackAttachProcess(p)
  \/ \E n \in DeviceNames : ZwCreateEvent(n) \/ IoCreateSynchronizationEvent(n) \/ ZwOpenEvent(n)
  \/ ObfReferenceObject \/ KeUnstackDetachProcess \/ PsGetCurrentProcessId
  \/ \E k \in BOOLEAN : ObOpenObjectByPointer(k) \/ ObReferenceObjectByHandle(k)
  \/ KeAcquireSpinLock \/ KeGetCurrentIrql \/ \E old \in {PASSIVE_LEVEL, DISPATCH_LEVEL} : KeReleaseSpinLock(old)

NextPool ==
  \/ on_run_complete
  \/ ExAllocatePoolWithTag \/ ExFreePoolWithTag \/ \E n \in 0 .. 1 : ExAllocatePool2(n) \/ MmMapIoSpace(n)
  \/ IoAllocateWorkItem \/ IoFreeWorkItem \/ IoQueueWorkItem
  \/ IoAllocateIrp \/ IoFreeIrp \/ IoAllocateMdl \/ IoFreeMdl \/ IofCallDriver \/ MmUnmapIoSpace
  \/ \E m \in {"buffered", "direct", "neither"}, i, o \in 0 .. 1 : IoBuildDeviceIoControlRequest(m, i, o)
  \/ \E k \in BOOLEAN : ZwAllocateVirtualMemory(k) \/ ZwGetContextThread(k)
  \/ \E p \in Processes, k, g \in BOOLEAN : ZwWriteVirtualMemory(p, k, g) \/ ZwSetContextThread(p, k, g)
  \/ FsRtlAllocatePool \/ ZwProtectVirtualMemory \/ \E n \in {15, 16} : RtlInitializeSid(n)
  \/ KernelTimers \/ KernelWaits \/ Deferred \/ CompletionRoutines \/ Debugger
  \/ KernelEvents \/ Resources \/ CmCallbacks \/ NotifyRoutines \/ ShutdownNotifications
  \/ SecurityDescriptors \/ RtlQueryFeatureConfiguration \/ FeatureConfiguration \/ DebugPrints

-----------------------------------------------------------------------------

TypeOK ==
  /\ drv.majors \subseteq Majors /\ {drv.unload, drv.unload_called} \subseteq BOOLEAN
  /\ ToSet(drv.devices) \subseteq DeviceNames /\ drv.chain \in 0 .. 2
  /\ objs.named \subseteq DeviceNames /\ objs.refs \in [Processes -> 0 .. MaxPool + 1]
  /\ objs.modified \subseteq Processes
  /\ cpu.irql \in {PASSIVE_LEVEL, DISPATCH_LEVEL} /\ cpu.process \in Processes
  /\ \A k \in DOMAIN pool : pool[k] \in 0 .. MaxPool
  /\ sched.made \in 0 .. MaxThreads /\ {sched.all, sched.ending, sched.complete} \subseteq BOOLEAN

Count(type, name) == Cardinality({i \in DOMAIN sched.ran : sched.ran[i].type = type /\ sched.ran[i].name = name})
Position(type) == {i \in DOMAIN sched.ran : sched.ran[i].type = type}

\* However threads, reinitialization runs, late registrations and errors mix in the queue,
\* each IRP, each export and the unload routine of the driver run at most once
\* (next_driver_func and driver_unload, kernel.py:386), and the unload routine comes after
\* every export.
DriverRunsOnce ==
  /\ \A m \in Majors : Count("irp", m) <= 1
  /\ \A i \in 1 .. MaxExports : Count("export", i) <= 1
  /\ Count("unload", "") <= 1
  /\ \A u \in Position("unload"), e \in Position("export") : e < u

\* What run_module says of all_entrypoints (kernel.py:207): when the emulation is complete,
\* every export of the driver ran.
ExportsRun == sched.complete => \A i \in 1 .. sched.exports : Count("export", i) = 1
=======================================================================
