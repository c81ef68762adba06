---------------------------- MODULE MemoryManager ----------------------------
(***************************************************************************)
(* The memory manager of the emulator: the allocations (maps) and reserved *)
(* ranges that speakeasy/memmgr.py keeps, the pages that are mapped in the *)
(* engine, the shared page blocks of small allocations, and the reserved   *)
(* range of the return address that winemu.py keeps free of allocations.   *)
(*                                                                         *)
(* An address is a page and an offset in it.  A range that is not shared   *)
(* starts at offset 0 and has whole pages.                                 *)
(***************************************************************************)
EXTENDS Naturals, FiniteSets

CONSTANTS
  Allocs,       \* bound: the allocations that may exist at a time
  PageSize,     \* page_size
  Align,        \* a small allocation is padded to a multiple of Align, and more
  AllocBase,    \* the page of ALLOCATION_GRANULARITY, where a search starts
  MachineBase,  \* the page of MACHINE_BASE
  Limit,        \* the page of get_address_limit()
  Reserved,     \* the first page of EMU_RESERVED
  ReservedEnd,  \* the page of EMU_RESERVED_END
  MaxPage,      \* bound: no range ends after this page
  MaxStacks,    \* bound: how often alloc_stack is called
  MaxModules,   \* bound: the modules that are loaded at a time
  Sizes,        \* the sizes that callers ask for, in bytes
  Bases,        \* the pages that callers ask for
  TrapBase,     \* the page where the search for the API traps starts
  TrapPages,    \* TRAP_SIZE in pages
  PebPages,     \* the size of PEB_LDR_DATA in pages
  StackBase,    \* the page where the search for a stack starts
  StackPages,   \* the size of a stack in pages
  KeepMemory,   \* config.keep_memory_on_free
  NoMap

ASSUME AddressAssumption ==
  /\ {PageSize, Align, AllocBase, MachineBase} \subseteq Nat \ {0}
  /\ PageSize % Align = 0
  /\ {Limit, Reserved, ReservedEnd, MaxPage, MaxStacks, MaxModules} \subseteq Nat
  /\ Reserved < ReservedEnd
  /\ Sizes \subseteq Nat /\ Bases \subseteq Nat
  /\ {TrapBase, StackBase} \subseteq Nat /\ {TrapPages, PebPages, StackPages} \subseteq Nat \ {0}
  /\ KeepMemory \in BOOLEAN

VARIABLES
  maps,           \* self.maps: the allocation of each id, or NoMap
  reserves,       \* self.mem_reserves
  mapped,         \* the pages that are mapped in the engine
  blockBase,      \* self.block_base, 0 for none
  blockOffset,    \* self.block_offset
  allocBase,      \* self.alloc_base
  reservedMapped, \* ~is_reserved_range_unmapped
  modules         \* the pages at which loaded modules start

vars == <<maps, reserves, mapped, blockBase, blockOffset, allocBase, reservedMapped, modules>>

\* An allocation: pages first .. first + pages - 1, and the bytes
\* off .. off + size - 1 of the shared block if it is small.
MemMap == [first : Nat, pages : Nat, small : BOOLEAN, off : Nat, size : Nat, free : BOOLEAN]
Held == {a \in Allocs : maps[a] # NoMap}
PageRange(first, n) == first .. first + n - 1
PagesOf(m) == PageRange(m.first, m.pages)
ReservedRange == Reserved .. ReservedEnd - 1

\* A reserved range: the API traps, the loader data of a PEB that alloc_peb is
\* about to map, or the guard above a stack.
ReserveKinds == {"traps", "peb", "guard"}
Reserve == [first : Nat, pages : Nat, kind : ReserveKinds]

ASSUME NoMapAssumption == NoMap \notin MemMap

TypeOK ==
  /\ maps \in [Allocs -> MemMap \cup {NoMap}]
  /\ reserves \subseteq Reserve
  /\ mapped \subseteq Nat
  /\ blockBase \in Nat /\ blockOffset \in 0 .. PageSize
  /\ allocBase \in {AllocBase, MachineBase}
  /\ reservedMapped \in BOOLEAN
  /\ modules \subseteq Nat

Init ==
  /\ maps = [a \in Allocs |-> NoMap]
  /\ reserves = {} /\ mapped = {}
  /\ blockBase = 0 /\ blockOffset = 0
  /\ allocBase = AllocBase
  /\ reservedMapped = FALSE
  /\ modules = {}

-----------------------------------------------------------------------------
(* The search for a free range. *)

\* The number of pages for a size: at least one, rounded up.
PageCount(size) ==
  IF size < PageSize THEN 1
  ELSE (size \div PageSize) + (IF size % PageSize # 0 THEN 1 ELSE 0)

\* Mutant of UsedPages: reserved ranges are not seen.
UsedPagesMapped(rs) == mapped

\* The pages of the regions of the engine and of the reserved ranges rs.
UsedPages(rs) == mapped \cup UNION {PagesOf(r) : r \in rs}

IsFree(used, first, n) == PageRange(first, n) \cap used = {}

\* The first range of n pages at or after start without a used page is at first.
FirstFree(used, start, n, first) ==
  /\ first >= start /\ IsFree(used, first, n)
  /\ \A p \in start .. first - 1 : ~IsFree(used, p, n)

\* MemoryManager.get_valid_ranges: first fit, and OutOfMemoryError when the
\* range would cross the address limit.
FreeRange(used, start, n, first) ==
  /\ FirstFree(used, start, n, first)
  /\ ~(start < Limit /\ Limit < first + n)

\* Mutant of SearchRange: the search does not leave the reserved range out.
SearchRangeAnywhere(used, start, n, first) == FreeRange(used, start, n, first)

MeetsReserved(first, n) == first < ReservedEnd /\ first + n > Reserved

\* WindowsEmulator.get_valid_ranges: search again after the reserved range if
\* the range meets it.
SearchRange(used, start, n, first) ==
  \/ FreeRange(used, start, n, first) /\ ~MeetsReserved(first, n)
  \/ /\ FreeRange(used, ReservedEnd, n, first)
     /\ \E p \in start .. ReservedEnd : FreeRange(used, start, n, p) /\ MeetsReserved(p, n)

ValidRange(start, n, first) == SearchRange(UsedPages(reserves), start, n, first)

-----------------------------------------------------------------------------
(* mem_map *)

\* The padded size of a small allocation: always at least one byte more.
Padded(size) == size + (Align - (size % Align))

NewMap(first, n, small, off, size) ==
  [first |-> first, pages |-> n, small |-> small, off |-> off, size |-> size, free |-> FALSE]

\* Mutant of FitsBlock: one allocation too many.
FitsBlockUnpadded(size) == blockBase # 0 /\ blockOffset < PageSize

\* The padded allocation fits into the rest of the shared block.
FitsBlock(size) == blockBase # 0 /\ blockOffset + Padded(size) <= PageSize

\* Mutant of OffsetAfter: the offset moves by the size without its padding.
OffsetAfterUnpadded(off, size) == off + size

\* block_offset after a small allocation at offset off.
OffsetAfter(off, size) == off + Padded(size)

IsSmall(size) == size < PageSize /\ size % PageSize # 0

\* A small allocation in the shared block.
MapInBlock(a, size) ==
  /\ maps[a] = NoMap /\ IsSmall(size) /\ FitsBlock(size)
  /\ maps' = [maps EXCEPT ![a] = NewMap(blockBase, 1, TRUE, blockOffset, Padded(size))]
  /\ blockOffset' = OffsetAfter(blockOffset, size)
  /\ UNCHANGED <<reserves, mapped, blockBase, allocBase, reservedMapped, modules>>

\* A small allocation that starts a new shared block.
MapNewBlock(a, size) ==
  /\ maps[a] = NoMap /\ IsSmall(size) /\ ~FitsBlock(size)
  /\ \E first \in 0 .. MaxPage - 1 :
       /\ ValidRange(allocBase, 1, first)
       /\ mapped' = mapped \cup {first}
       /\ blockBase' = first
       /\ maps' = [maps EXCEPT ![a] = NewMap(first, 1, TRUE, 0, Padded(size))]
  /\ blockOffset' = OffsetAfter(0, size)
  /\ UNCHANGED <<reserves, allocBase, reservedMapped, modules>>

\* mem_map of whole pages, at or after start.
MapPages(a, n, first) ==
  /\ maps[a] = NoMap
  /\ first + n <= MaxPage
  /\ mapped' = mapped \cup PageRange(first, n)
  /\ maps' = [maps EXCEPT ![a] = NewMap(first, n, FALSE, 0, n * PageSize)]

Map(a, size, start) ==
  /\ \E first \in 0 .. MaxPage :
       /\ ValidRange(start, PageCount(size), first)
       /\ MapPages(a, PageCount(size), first)
  /\ UNCHANGED <<reserves, blockBase, blockOffset, allocBase, reservedMapped, modules>>

MapAtBase(a, size) == \E start \in Bases : Map(a, size, start)
MapAnywhere(a, size) == ~IsSmall(size) /\ Map(a, size, allocBase)

\* load_image maps the image of a module, at least a page, and registers the module.
MapImage(a, size) ==
  /\ size >= PageSize /\ Cardinality(modules) < MaxModules
  /\ \E start \in Bases, first \in 0 .. MaxPage :
       /\ ValidRange(start, PageCount(size), first)
       /\ MapPages(a, PageCount(size), first)
       /\ modules' = modules \cup {first}
  /\ UNCHANGED <<reserves, blockBase, blockOffset, allocBase, reservedMapped>>

\* alloc_stack: map the stack and reserve as many pages above it, whether they
\* are free or not.
AllocStack(a) ==
  /\ \A r \in reserves : r.kind # "peb"
  /\ Cardinality({r \in reserves : r.kind = "guard"}) < MaxStacks
  /\ \E first \in 0 .. MaxPage :
       /\ ValidRange(StackBase, StackPages, first)
       /\ MapPages(a, StackPages, first)
       /\ reserves' = reserves \cup
            {[first |-> first + StackPages, pages |-> StackPages, kind |-> "guard"]}
  /\ UNCHANGED <<blockBase, blockOffset, allocBase, reservedMapped, modules>>

-----------------------------------------------------------------------------
(* mem_free and the other ways to give memory back *)

SameBlock(a) == {b \in Held : maps[b].first = maps[a].first}

\* Mutant of BlockIsFree: the other allocations of the block are not asked.
BlockIsFreeAlone(a) == TRUE

\* The other allocations in the block of a are free.
BlockIsFree(a) == \A b \in SameBlock(a) : b = a \/ maps[b].free

\* Mutant of BlockAfterFree: the shared block stays current after its unmap.
BlockAfterFreeKept == blockBase

\* block_base after a block was unmapped: the next small allocation starts a new one.
BlockAfterFree == 0

\* Mutant of BlockPages: only the first page of the block is unmapped.
BlockPagesFirst(a) == {maps[a].first}

\* The pages of block_base and block_size.
BlockPages(a) == PagesOf(maps[a])

\* mem_free of an address in the allocation a.
MemFree(a) ==
  /\ maps[a] # NoMap
  /\ IF ~KeepMemory /\ BlockIsFree(a)
     THEN /\ blockBase' = BlockAfterFree
          /\ mapped' = mapped \ BlockPages(a)
          /\ maps' = [b \in Allocs |-> IF b \in SameBlock(a) THEN NoMap ELSE maps[b]]
     ELSE /\ maps' = [maps EXCEPT ![a].free = TRUE]
          /\ UNCHANGED <<blockBase, mapped>>
  /\ UNCHANGED <<reserves, blockOffset, allocBase, reservedMapped, modules>>

\* VirtualFree marks the allocation a that starts at the address, and unmaps nothing.
VirtualFree(a) ==
  /\ maps[a] # NoMap
  /\ maps' = [maps EXCEPT ![a].free = TRUE]
  /\ UNCHANGED <<reserves, mapped, blockBase, blockOffset, allocBase, reservedMapped, modules>>

\* get_address_map: the allocation a contains the first byte of the page.
IsAt(a, page) ==
  maps[a] # NoMap /\ page \in PagesOf(maps[a]) /\ (maps[a].small => maps[a].off = 0)

\* discard_module: forget the module, and unmap the allocation that contains
\* its base address.  The engine unmaps whole pages: the unmap of a small
\* allocation fails, and the error ends discard_module.
DiscardModule(page) ==
  /\ page \in modules
  /\ modules' = modules \ {page}
  /\ \/ /\ \E a \in Allocs :
             /\ IsAt(a, page) /\ ~maps[a].small
             /\ mapped' = mapped \ PagesOf(maps[a])
             /\ maps' = [maps EXCEPT ![a] = NoMap]
     \/ /\ \A a \in Allocs : IsAt(a, page) => maps[a].small
        /\ UNCHANGED <<mapped, maps>>
  /\ UNCHANGED <<reserves, blockBase, blockOffset, allocBase, reservedMapped>>

-----------------------------------------------------------------------------
(* Reserved ranges *)

\* get_valid_ranges and mem_reserve of n pages.
ReserveRange(kind, start, n) ==
  /\ \A r \in reserves : r.kind # kind
  /\ \E first \in 0 .. MaxPage :
       /\ first + n <= MaxPage
       /\ ValidRange(start, n, first)
       /\ reserves' = reserves \cup {[first |-> first, pages |-> n, kind |-> kind]}
  /\ UNCHANGED <<maps, mapped, blockBase, blockOffset, allocBase, reservedMapped, modules>>

\* _allocate_trap, for the first trap.
ReserveTraps == ReserveRange("traps", TrapBase, TrapPages)

\* The start of alloc_peb.
ReservePeb == ReserveRange("peb", allocBase, PebPages)

\* mem_map_reserve: drop the reserve and map at or after its base.
MapReserve(a, r) ==
  /\ r \in reserves /\ r.kind = "peb"
  /\ reserves' = reserves \ {r}
  /\ \E first \in 0 .. MaxPage :
       /\ SearchRange(UsedPages(reserves \ {r}), r.first, r.pages, first)
       /\ MapPages(a, r.pages, first)
  /\ UNCHANGED <<blockBase, blockOffset, allocBase, reservedMapped, modules>>

\* Entering and leaving allocations_from: the search base changes and the shared
\* block is left.
AllocationsFrom(base) ==
  /\ base \in {AllocBase, MachineBase} \ {allocBase}
  /\ allocBase' = base
  /\ blockBase' = 0 /\ blockOffset' = 0
  /\ UNCHANGED <<maps, reserves, mapped, reservedMapped, modules>>

MapReservedRange ==
  /\ ~reservedMapped
  /\ mapped' = mapped \cup ReservedRange /\ reservedMapped' = TRUE
  /\ UNCHANGED <<maps, reserves, blockBase, blockOffset, allocBase, modules>>

UnmapReservedRange ==
  /\ reservedMapped
  /\ mapped' = mapped \ ReservedRange /\ reservedMapped' = FALSE
  /\ UNCHANGED <<maps, reserves, blockBase, blockOffset, allocBase, modules>>

MapStep(a) ==
  \/ \E size \in Sizes :
       \/ MapInBlock(a, size) \/ MapNewBlock(a, size)
       \/ MapAtBase(a, size) \/ MapAnywhere(a, size) \/ MapImage(a, size)
  \/ AllocStack(a)
  \/ \E r \in reserves : MapReserve(a, r)

FreeStep ==
  \/ \E a \in Allocs : MemFree(a) \/ VirtualFree(a)
  \/ \E page \in modules : DiscardModule(page)

ReserveStep ==
  \/ ReserveTraps \/ ReservePeb
  \/ \E base \in {AllocBase, MachineBase} : AllocationsFrom(base)
  \/ MapReservedRange \/ UnmapReservedRange

Next == (\E a \in Allocs : MapStep(a)) \/ FreeStep \/ ReserveStep

Spec == Init /\ [][Next]_vars

-----------------------------------------------------------------------------
(* Properties *)

Bytes(m) == m.off .. m.off + m.size - 1

\* Two allocations share no byte: they share a page only as small allocations
\* of one block, at different offsets.  The state of the shared block (block_base,
\* block_offset) has to survive frees, new blocks and allocations_from for this.
AllocationsDisjoint ==
  \A a, b \in Held :
    a # b /\ PagesOf(maps[a]) \cap PagesOf(maps[b]) # {} =>
      /\ maps[a].small /\ maps[b].small
      /\ Bytes(maps[a]) \cap Bytes(maps[b]) = {}

\* Every allocation in maps is mapped in the engine, also the ones that are
\* freed while their block is in use, and a small one lies inside its page.
AllocationsMapped ==
  \A a \in Held :
    /\ PagesOf(maps[a]) \subseteq mapped
    /\ maps[a].small => maps[a].pages = 1 /\ maps[a].off + maps[a].size <= PageSize

\* Every page that the engine maps, apart from the reserved range, belongs to an
\* allocation in maps: no free, discard or new block leaks pages of the guest.
NothingLeaked ==
  \A p \in mapped :
    \/ \E a \in Held : p \in PagesOf(maps[a])
    \/ reservedMapped /\ p \in ReservedRange

\* No allocation is in the range of the return address, so mapping and
\* unmapping that range in the engine never touches an allocation.
ReservedRangeIsFree ==
  \A a \in Held : PagesOf(maps[a]) \cap ReservedRange = {}

\* The API traps and the loader data that waits for its map are never mapped by
\* another allocation, and share no page with each other: a call of an API
\* faults at its trap.
ReservesUnmapped ==
  \A r, s \in {x \in reserves : x.kind # "guard"} :
    /\ PagesOf(r) \cap mapped = {}
    /\ r # s => PagesOf(r) \cap PagesOf(s) = {}

\* A free takes no live allocation with it: in a step that removes allocations
\* at most one was not free before, the one that the caller named.  The others
\* of its shared block were all freed earlier.
LiveIsKept ==
  [][\A a, b \in Held : maps'[a] = NoMap /\ maps'[b] = NoMap =>
       a = b \/ maps[a].free \/ maps[b].free]_vars

\* mem_map_reserve maps at the address that was reserved: alloc_peb wrote that
\* address into the PEB before.
MappedWhereReserved ==
  [][\A r \in reserves \ reserves' : \E a \in Allocs :
       maps[a] = NoMap /\ maps'[a] # NoMap /\ PagesOf(maps'[a]) = PagesOf(r)]_vars
=============================================================================
