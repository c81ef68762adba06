------------------------ MODULE GuestServicesProofs ------------------------
(***************************************************************************)
(* The services keep their state in every behaviour of GuestServices: a    *)
(* step of any part is a step of the service or leaves its variables       *)
(* alone, so that what is proved of each service by itself carries over.   *)
(***************************************************************************)
EXTENDS GuestServices, ServicesProofs, HandlersProofs

-----------------------------------------------------------------------------
(* The parts together. *)

\* A step of the guest is a step of a service or leaves the service alone.
LEMMA Frames ==
  ASSUME Next
  PROVE  /\ NotReg \/ R!Next
         /\ NotNet \/ N!NextSockets \/ N!NextInternet \/ N!NextKernelSockets
         /\ NotPs \/ P!Next
         /\ NotVm \/ V!Next
         /\ NotBuf \/ B!NextBuffers
         /\ NotKernel \/ KernelNext
         /\ NotCrt \/ CrtNext
         /\ NotCli \/ NextCli
<1>1. CASE Registry BY <1>1 DEF Registry
<1>2. CASE Network BY <1>2 DEF Network
<1>3. CASE ProcessServices BY <1>3 DEF ProcessServices, P!Next
<1>4. CASE Memory BY <1>4 DEF Memory
<1>5. CASE Windows BY <1>5 DEF Windows
<1>6. CASE Loader BY <1>6 DEF Loader
<1>7. CASE Kernel BY <1>7 DEF Kernel, KernelNext
<1>8. CASE Cli BY <1>8 DEF Cli
<1>9. CASE Crt BY <1>9 DEF Crt, CrtNext
<1> QED BY <1>1, <1>2, <1>3, <1>4, <1>5, <1>6, <1>7, <1>8, <1>9 DEF Next

\* Each service, by itself, takes a step or stutters.
LEMMA Steps ==
  ASSUME [Next]_vars
  PROVE  [R!Next]_(R!vars) /\ [N!Next]_(N!vars) /\ [P!Next]_(P!vars) /\ [V!Next]_(V!vars)
         /\ [B!NextBuffers]_(B!vars) /\ [KernelNext]_(K!vars) /\ [CrtNext]_(M!vars) /\ [NextCli]_cli_vars
<1>1. NotReg => UNCHANGED R!vars BY DEF NotReg, R!vars, reg_vars
<1>2. NotNet => UNCHANGED N!vars BY DEF NotNet, N!vars, net_vars
<1>3. NotPs => UNCHANGED P!vars BY DEF NotPs, P!vars, ps_vars
<1>4. NotVm => UNCHANGED V!vars BY DEF NotVm, V!vars, vm_vars
<1>7. NotBuf => UNCHANGED B!vars BY DEF NotBuf, B!vars, buf_vars
<1>8. NotKernel => UNCHANGED K!vars BY DEF NotKernel, K!vars, kernel_vars
<1>9. NotCrt => UNCHANGED M!vars BY DEF NotCrt, M!vars, crt_vars
<1>10. NotCli => UNCHANGED cli_vars BY DEF NotCli
<1>5. CASE Next
  <2>1. N!NextSockets \/ N!NextInternet \/ N!NextKernelSockets => N!Next BY DEF N!Next
  <2> QED BY <1>1, <1>2, <1>3, <1>4, <1>5, <1>7, <1>8, <1>9, <1>10, <2>1, Frames
<1>6. CASE UNCHANGED vars
  <2>1. NotReg /\ NotNet /\ NotPs /\ NotVm /\ NotBuf /\ NotKernel /\ NotCrt /\ NotCli
    BY <1>6 DEF vars, NotReg, NotNet, NotPs, NotVm, NotBuf, NotKernel, NotCrt, NotCli
  <2> QED BY <1>1, <1>2, <1>3, <1>4, <1>7, <1>8, <1>9, <1>10, <2>1
<1> QED BY <1>5, <1>6

\* The composed specification implements that of each service.
THEOREM ServicesSpec ==
  Spec => /\ R!Spec /\ N!Spec /\ P!Spec /\ V!Spec /\ B!Init /\ [][B!NextBuffers]_(B!vars)
          /\ K!Init /\ [][KernelNext]_(K!vars) /\ M!Init /\ [][CrtNext]_(M!vars)
          /\ SpecCli
<1>1. Init => R!Init /\ N!Init /\ P!Init /\ V!Init /\ B!Init /\ K!Init /\ M!Init /\ InitCli BY DEF Init
<1>2. [Next]_vars =>
        /\ [R!Next]_(R!vars) /\ [N!Next]_(N!vars) /\ [P!Next]_(P!vars) /\ [V!Next]_(V!vars) /\ [B!NextBuffers]_(B!vars)
        /\ [KernelNext]_(K!vars) /\ [CrtNext]_(M!vars) /\ [NextCli]_cli_vars
  BY Steps
<1> QED BY <1>1, <1>2, PTL DEF Spec, R!Spec, N!Spec, P!Spec, V!Spec, SpecCli

\* A service keeps what the guest gave it and no more, for any keys, handles, sizes, pages and atoms: deleted
\* registry values stay deleted and a path without [ ] has one key, whatever fnmatch accepts, handles below a closed one are closed and answers are read once, heap blocks,
\* atoms and enumeration buffers are counted right, and pages have the protection asked for last
\* (RegistryManager, NetworkManager, heap_alloc, add_local_atom, set_guard_pages).
THEOREM ServicesKeep == Spec => []ServicesKeepTheirState
<1>1. /\ R!DeletedValuesStayDeleted /\ R!OneKeyPerPath
      /\ N!TypeOK /\ N!ClosedTreeIsClosed /\ N!AnswersAreReadOnce
      /\ P!HeapSizeIsRequested /\ P!AtomsAreCounted /\ P!NoEnumBufferLeft
      /\ V!TypeOK /\ V!PagesAreAsAsked
      => ServicesKeepTheirState
  BY DEF ServicesKeepTheirState
<1> QED
  BY <1>1, ServicesSpec, RegistryKeepsItsState, NetworkKeepsItsState, ProcessKeepsItsState,
     MemoryIsAsAsked, PTL

\* No handler writes more than the room that the guest gave, but for lstrcpyn, GetModuleFileNameExA and mbsrtowcs
\* with room 0 and PathAddBackslash and PathRenameExtension, which may put MAX_PATH + 1 characters.
\* A guest that asks for the size first gets its data with the second call, for
\* every text, room and MAX_PATH (GetComputerName, RegQueryValueEx, recv, InternetReadFile, strcpy_s,
\* ZwQuerySystemInformation).
THEOREM BuffersAreAlwaysRespected == Spec => BuffersAreRespected
BY ServicesSpec, BuffersFit, RegistryQueries, NetworkAnswersFit, PTL DEF BuffersAreRespected

\* A one-time initialization stays complete in every behaviour of the guest (InitOnceComplete).
THEOREM OnceIsFinal == Spec => P!CompleteIsFinal
BY ServicesSpec, OnceStaysComplete

\* Each IRP, each export and the unload routine of a driver run at most once, in their order, and the C run-time
\* library calls a function of the guest as often as the guest asked for, in every behaviour of the guest, for any
\* number of exports, runs, functions and calls (next_driver_func, call_onexit_functions, raise_).
THEOREM AlwaysCalledOnce == Spec => []CalledOnce
<1>1. K!DriverRunsOnce /\ M!GuestFunctionsRunOnce => CalledOnce BY DEF CalledOnce
<1> QED BY <1>1, ServicesSpec, DriverOrder, CalledAsAsked, PTL
=============================================================================
