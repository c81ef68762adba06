--------------------------- MODULE Services ---------------------------
(***************************************************************************)
(* The services of the guest that keep what it gave them: the registry,    *)
(* the network, the services of a process and its memory.  They share no   *)
(* state.                                                                  *)
(***************************************************************************)
EXTENDS Integers

CONSTANTS KeyPaths, Root, Parent, Matches, Config, MaxKeys, MaxKeyHandles  \* Registry
CONSTANTS MaxBytes                                                         \* Registry, ProcessServices
CONSTANTS Answer, NameLen, MaxNet, MaxSockets, MaxRoom                     \* Network
CONSTANTS MaxSlots, MaxAllocs, Threads, TLS_SLOT_COUNT, MaxFls, AtomNames,
          MaxAtoms, MaxCount, MaxTicks, Word, MaxIds                       \* ProcessServices
CONSTANTS NumPages, virtual_mem_base, MaxMaps, MaxPages, Reserved, Perms   \* VirtualMemory

VARIABLES reg, wiped, reg_res                                              \* Registry
VARIABLES net, taken, wsk, net_res                                         \* Network
VARIABLES heap, heap_asked, local, atoms, adds, once, com, veh, clock, word, enum, ps_res  \* ProcessServices
VARIABLES maps, perm, guard_pages, raised, page_asked, vm_res              \* VirtualMemory

\* The root key is a key.
ASSUME RegistryAssumption == Root \in KeyPaths /\ MaxBytes \in Nat

\* Sizes and lengths are numbers.
ASSUME NetworkAssumption == Answer \in Nat /\ NameLen \in Nat /\ MaxRoom \in Nat

ASSUME ProcessAssumption == MaxSlots \in Nat

ASSUME MemoryAssumption == NumPages \in Nat /\ virtual_mem_base \in Nat /\ MaxPages \in Nat

R == INSTANCE Registry WITH res <- reg_res
N == INSTANCE Network WITH res <- net_res
P == INSTANCE ProcessServices WITH asked <- heap_asked, res <- ps_res
V == INSTANCE VirtualMemory WITH asked <- page_asked, res <- vm_res
=============================================================================
