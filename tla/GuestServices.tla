------------------------- MODULE GuestServices -------------------------
(***************************************************************************)
(* The services that the emulator gives to the guest, the module loader,   *)
(* the driver emulator and the command line.  A behaviour takes one part:  *)
(* the parts share no state, so that the part alone has all its            *)
(* behaviours, and each part gets the bounds that it needs.                *)
(***************************************************************************)
EXTENDS Services, Handlers, CommandLine, TLC

VARIABLES part                                                             \* the part that takes steps
VARIABLES wins, classes, wndprocs, win_frames, dialog_results, win_ended, input, foreground, win_res  \* Windows
VARIABLES ld, loads, call, load_frames, pid, calls, given, abandoned, ld_res  \* ModuleLoader

reg_vars == <<reg, wiped>>
net_vars == <<net, taken, wsk>>
ps_vars == <<heap, heap_asked, local, atoms, adds, once, com, veh, clock, word, enum>>
vm_vars == <<maps, perm, guard_pages, raised, page_asked>>
buf_vars == <<text, told>>
win_vars == <<wins, classes, wndprocs, win_frames, dialog_results, win_ended, input, foreground>>
ld_vars == <<ld, loads, call, load_frames, pid, calls, given, abandoned>>
kernel_vars == <<sched, drv, objs, cpu, pool>>
crt_vars == <<tab, arrays, crt_frames, ran, crt_hist, signals, invalid, blocks, count, crt_ended>>

-----------------------------------------------------------------------------
\* Three windows and nested dialogs; two procedures and a class that is registered twice.
D == INSTANCE Windows WITH ClassNames <- {"c"}, WndProcs <- {"p"}, MaxWindows <- 3, MaxClasses <- 1, MaxFrames <- 2,
                           TimerIds <- {"t"}, MaxTimers <- 2, MaxHooks <- 2, MaxKeys <- 2, MessageNames <- {"m"},
                           MaxColumns <- 1, frames <- win_frames, ended <- win_ended, res <- win_res
S == INSTANCE Windows WITH ClassNames <- {"c"}, WndProcs <- {"p", "q"}, MaxWindows <- 2, MaxClasses <- 2, MaxFrames <- 1,
                           TimerIds <- {"t"}, MaxTimers <- 2, MaxHooks <- 2, MaxKeys <- 2, MessageNames <- {"m"},
                           MaxColumns <- 1, frames <- win_frames, ended <- win_ended, res <- win_res

\* "a" imports from "b" and, forwarded, from the synthetic "s"; "c" and "x" have an import
\* that does not load, a module of another machine and one that is malformed.
Imports == "a" :> << <<"b", "f">>, <<"s", "g">>, <<"s", "other">> >> @@ "b" :> <<>>
           @@ "c" :> << <<"a", "f">>, <<"m", "f">> >> @@ "x" :> << <<"b", "f">>, <<"y", "f">> >>
           @@ "m" :> <<>> @@ "y" :> <<>>
Exports == "a" :> {"f"} @@ "b" :> {"f"} @@ "c" :> {"f"} @@ "s" :> {"f", "g"} @@ "x" :> {} @@ "m" :> {} @@ "y" :> {}
           @@ "t" :> {"f"}
Forwards == <<"s", "g">> :> <<"t", "f">>
Routines == "a" :> <<TRUE>> @@ "b" :> <<FALSE, TRUE>> @@ "c" :> <<TRUE>> @@ "x" :> <<TRUE>> @@ "m" :> <<>> @@ "y" :> <<>>
\* Three calls of one process, and two calls of two processes.
L == INSTANCE ModuleLoader WITH
       Guests <- {"a", "b", "c", "x", "m", "y"}, Synthetics <- {"s", "t"}, Misfits <- {"m"}, Malformed <- {"y"},
       FromFile <- {"a"}, Unknown <- {"m"}, Signed <- {}, Pids <- {1}, MaxTraps <- 2, ArenaSlots <- 1,
       MaxForwards <- 2, MaxFrames <- 2, MaxCalls <- 3, frames <- load_frames, res <- ld_res
L2 == INSTANCE ModuleLoader WITH
       Guests <- {"a", "b", "c", "x", "m", "y"}, Synthetics <- {"s", "t"}, Misfits <- {"m"}, Malformed <- {"y"},
       FromFile <- {"a"}, Unknown <- {"m"}, Signed <- {}, Pids <- {1, 2}, MaxTraps <- 2, ArenaSlots <- 1,
       MaxForwards <- 2, MaxFrames <- 2, MaxCalls <- 2, frames <- load_frames, res <- ld_res

-----------------------------------------------------------------------------
NetParts == {"sockets", "internet", "wsk"}
PsParts == {"heap", "local", "atoms", "once", "com", "handlers", "clock", "resources"}
WinParts == {"dialogs", "subclasses", "windows", "input"}
LoaderParts == {"loader", "processes"}
KernelParts == {"driver", "kernel objects", "pool"}
CrtParts == {"exit functions", "signals", "blocks", "counters", "sort"}

Init ==
  /\ part \in {"registry", "pages", "buffers", "cli"} \cup LoaderParts \cup NetParts \cup PsParts \cup WinParts
              \cup KernelParts \cup CrtParts
  /\ R!Init /\ N!Init /\ P!Init /\ V!Init /\ B!Init /\ D!Init /\ K!Init /\ InitCli /\ M!Init
  /\ IF part = "processes" THEN L2!Init ELSE L!Init

NotReg == UNCHANGED <<reg_vars, reg_res>>
NotNet == UNCHANGED <<net_vars, net_res>>
NotPs == UNCHANGED <<ps_vars, ps_res>>
NotVm == UNCHANGED <<vm_vars, vm_res>>
NotBuf == UNCHANGED <<buf_vars, buf_res>>
NotWin == UNCHANGED <<win_vars, win_res>>
NotLd == UNCHANGED <<ld_vars, ld_res>>
NotKernel == UNCHANGED <<kernel_vars, kernel_res>>
NotCli == UNCHANGED cli_vars
NotCrt == UNCHANGED <<crt_vars, crt_res>>

Registry == part = "registry" /\ R!Next
            /\ NotNet /\ NotPs /\ NotVm /\ NotBuf /\ NotWin /\ NotLd /\ NotKernel /\ NotCli /\ NotCrt

Network ==
  /\ \/ part = "sockets" /\ N!NextSockets
     \/ part = "internet" /\ N!NextInternet
     \/ part = "wsk" /\ N!NextKernelSockets
  /\ NotReg /\ NotPs /\ NotVm /\ NotBuf /\ NotWin /\ NotLd /\ NotKernel /\ NotCli /\ NotCrt

ProcessServices ==
  /\ \/ part = "heap" /\ P!NextHeap
     \/ part = "local" /\ P!NextLocal
     \/ part = "atoms" /\ P!NextAtoms
     \/ part = "once" /\ P!NextOnce
     \/ part = "com" /\ P!NextCom
     \/ part = "handlers" /\ P!NextHandlers
     \/ part = "clock" /\ P!NextClock
     \/ part = "resources" /\ P!NextResources
  /\ NotReg /\ NotNet /\ NotVm /\ NotBuf /\ NotWin /\ NotLd /\ NotKernel /\ NotCli /\ NotCrt

Memory ==
  /\ \/ part = "pages" /\ V!Next /\ NotBuf
     \/ part = "buffers" /\ B!NextBuffers /\ NotVm
  /\ NotReg /\ NotNet /\ NotPs /\ NotWin /\ NotLd /\ NotKernel /\ NotCli /\ NotCrt

Windows ==
  /\ \/ part = "dialogs" /\ D!NextDialogs
     \/ part = "subclasses" /\ S!NextSubclasses
     \/ part = "windows" /\ D!NextWindows
     \/ part = "input" /\ D!NextInput
  /\ NotReg /\ NotNet /\ NotPs /\ NotVm /\ NotBuf /\ NotLd /\ NotKernel /\ NotCli /\ NotCrt

Loader ==
  /\ \/ part = "loader" /\ L!NextLoader
     \/ part = "processes" /\ L2!NextLoader
  /\ NotReg /\ NotNet /\ NotPs /\ NotVm /\ NotBuf /\ NotWin /\ NotKernel /\ NotCli /\ NotCrt

Kernel ==
  /\ \/ part = "driver" /\ K!NextRuns
     \/ part = "kernel objects" /\ K!NextKernelObjects
     \/ part = "pool" /\ K!NextPool
  /\ NotReg /\ NotNet /\ NotPs /\ NotVm /\ NotBuf /\ NotWin /\ NotLd /\ NotCli /\ NotCrt

Cli == part = "cli" /\ NextCli
       /\ NotReg /\ NotNet /\ NotPs /\ NotVm /\ NotBuf /\ NotWin /\ NotLd /\ NotKernel /\ NotCrt

Crt ==
  /\ \/ part = "exit functions" /\ M!NextExit
     \/ part = "signals" /\ M!NextSignals
     \/ part = "blocks" /\ M!NextBlocks
     \/ part = "counters" /\ M!NextCounters
     \/ part = "sort" /\ M!NextSort
  /\ NotReg /\ NotNet /\ NotPs /\ NotVm /\ NotBuf /\ NotWin /\ NotLd /\ NotKernel /\ NotCli

Next ==
  /\ UNCHANGED part
  /\ \/ Registry \/ Network \/ ProcessServices \/ Memory \/ Windows
     \/ Loader \/ Kernel \/ Cli \/ Crt

vars == <<part, reg_vars, reg_res, net_vars, net_res, ps_vars, ps_res, vm_vars, vm_res, buf_vars, buf_res,
          win_vars, win_res, ld_vars, ld_res, kernel_vars, kernel_res, cli_vars, crt_vars, crt_res>>

Spec == Init /\ [][Next]_vars

\* The variables of the part without what the last call told the guest, which only action
\* properties read.
View ==
  <<part, CASE part = "registry" -> reg_vars
            [] part \in NetParts -> net_vars
            [] part \in PsParts -> ps_vars
            [] part = "pages" -> vm_vars
            [] part = "buffers" -> buf_vars
            [] part \in WinParts -> win_vars
            [] part \in LoaderParts -> ld_vars
            [] part \in KernelParts -> kernel_vars
            [] part = "cli" -> cli_vars
            [] OTHER -> crt_vars>>

-----------------------------------------------------------------------------
\* The state of the part has its types.
TypeOK ==
  CASE part = "registry" -> R!TypeOK
    [] part \in NetParts -> N!TypeOK
    [] part \in PsParts -> P!TypeOK
    [] part = "pages" -> V!TypeOK
    [] part = "buffers" -> B!TypeOK
    [] part = "subclasses" -> S!TypeOK
    [] part \in WinParts \ {"subclasses"} -> D!TypeOK
    [] part = "loader" -> L!TypeOK
    [] part = "processes" -> L2!TypeOK
    [] part \in KernelParts -> K!TypeOK
    [] part = "cli" -> CliTypeOK
    [] OTHER -> M!TypeOK

\* A service keeps what the guest gave it and no more: deleted registry values stay deleted
\* and a key path without [ ] has one key; the handles below a closed internet handle are closed and
\* an answer is read once; heap blocks, atoms and enumeration buffers are counted right; a
\* page has the protection that the guest asked for last.  See the parts' modules.
ServicesKeepTheirState ==
  CASE part = "registry" -> R!DeletedValuesStayDeleted /\ R!OneKeyPerPath
    [] part \in NetParts -> N!ClosedTreeIsClosed /\ N!AnswersAreReadOnce
    [] part \in PsParts -> P!HeapSizeIsRequested /\ P!AtomsAreCounted /\ P!NoEnumBufferLeft
    [] part = "pages" -> V!PagesAreAsAsked
    [] OTHER -> TRUE

\* A load is whole or undone: see ModuleLoader.
LoadsAreWhole == (part = "loader" => L!LoadsAreWhole) /\ (part = "processes" => L2!LoadsAreWhole)

\* A run of a driver and a callback of the C run-time library run once: see Kernel and Crt.
CalledOnce == (part \in KernelParts => K!DriverRunsOnce) /\ (part \in CrtParts => M!GuestFunctionsRunOnce)

\* No handler writes more than the room that the guest gave, but for lstrcpyn, GetModuleFileNameExA
\* and mbsrtowcs with room 0 and PathAddBackslash and PathRenameExtension, which may put MAX_PATH + 1
\* characters.  A guest that asks for the size first gets its data with the second call.  See Buffers,
\* Registry and Network.
BuffersAreRespected ==
  /\ B!BuffersAreRespected /\ B!TwoCallsSuffice
  /\ R!QueriesRespectTheBuffer
  /\ N!NetworkRespectsTheBuffer

\* A dialog gives its caller the result of its own EndDialog, a subclassed window the message to
\* its own procedure, a one-time initialization stays complete, and qsort sorts: see Windows,
\* ProcessServices and Crt.
CallsEndRight ==
  /\ D!DialogsGetTheirResult /\ S!SubclassGetsMessages
  /\ P!CompleteIsFinal
  /\ M!QsortSorts
=============================================================================
