------------------------- MODULE MemoryManagerProofs -------------------------
(***************************************************************************)
(* Proofs about the memory manager, for every address layout, page size    *)
(* and number of allocations.                                              *)
(***************************************************************************)
EXTENDS MemorySearch, WellFoundedInduction, TLAPS

\* A padded small allocation is never empty and never larger than its page.
LEMMA PaddedFits ==
  ASSUME NEW size \in Nat, size < PageSize
  PROVE  Padded(size) \in 1 .. PageSize
<1> DEFINE q == size \div Align
           k == PageSize \div Align
<1>1. /\ PageSize \in Nat /\ Align \in Nat /\ Align > 0 /\ PageSize % Align = 0
  BY AddressAssumption
<1>2. /\ size % Align \in 0 .. Align - 1 /\ q \in Nat
      /\ size = Align * q + (size % Align)
  BY <1>1
<1>3. k \in Nat /\ PageSize = Align * k
  BY <1>1
<1> HIDE DEF q, k
<1>4. Align * q < Align * k
  BY <1>1, <1>2, <1>3
<1>5. q + 1 <= k
  BY <1>1, <1>2, <1>3, <1>4
<1>6. Align * (q + 1) <= Align * k
  BY <1>1, <1>2, <1>3, <1>5
<1>7. Padded(size) = Align * (q + 1)
  BY <1>1, <1>2 DEF Padded
<1> QED
  BY <1>1, <1>2, <1>3, <1>6, <1>7 DEF Padded

\* A range has at least one page.
LEMMA PageCountPositive ==
  ASSUME NEW size \in Nat
  PROVE  PageCount(size) \in Nat \ {0}
<1>1. PageSize \in Nat /\ PageSize > 0
  BY AddressAssumption
<1>2. CASE size < PageSize
  BY <1>2 DEF PageCount
<1>3. CASE size >= PageSize
  <2> DEFINE q == size \div PageSize
  <2>1. q \in Nat /\ size = PageSize * q + (size % PageSize) /\ size % PageSize < PageSize
    BY <1>1
  <2> HIDE DEF q
  <2>2. q # 0
    BY <1>1, <1>3, <2>1
  <2> QED
    BY <1>1, <1>3, <2>1, <2>2 DEF PageCount, q
<1> QED
  BY <1>1, <1>2, <1>3

\* The search returns a range without a used page, outside the reserved range.
LEMMA SearchIsFree ==
  ASSUME NEW used, NEW start \in Nat, NEW n \in Nat \ {0}, NEW first \in Nat,
         SearchRange(used, start, n, first)
  PROVE  /\ PageRange(first, n) \cap used = {}
         /\ PageRange(first, n) \cap ReservedRange = {}
<1>1. Reserved \in Nat /\ ReservedEnd \in Nat /\ Reserved <= ReservedEnd
  BY AddressAssumption
<1>2. /\ PageRange(first, n) \cap used = {}
      /\ ~MeetsReserved(first, n)
  BY <1>1 DEF SearchRange, FreeRange, FirstFree, IsFree, MeetsReserved
<1> QED
  BY <1>1, <1>2 DEF MeetsReserved, PageRange, ReservedRange

-----------------------------------------------------------------------------
(* The inductive invariant *)

\* Allocations have pages; the small ones are inside one page.
Shapes ==
  \A a \in Held :
    /\ maps[a].pages > 0
    /\ maps[a].small => /\ maps[a].pages = 1 /\ maps[a].size > 0
                        /\ maps[a].off + maps[a].size <= PageSize

\* The current shared block is mapped, outside the reserved range, and only small
\* allocations below block_offset are in it.
BlockOK ==
  blockBase # 0 =>
    /\ blockBase \in mapped /\ blockBase \notin ReservedRange
    /\ \A a \in Held : blockBase \in PagesOf(maps[a]) =>
         maps[a].small /\ maps[a].off + maps[a].size <= blockOffset

\* Reserved ranges have pages.  Those that were searched for are outside the
\* range of the return address, and the loader data meets no other reserve.
ReservesOK ==
  \A r \in reserves :
    /\ r.pages > 0
    /\ r.kind # "guard" => PagesOf(r) \cap ReservedRange = {}
    /\ r.kind = "peb" => \A s \in reserves : s # r => PagesOf(r) \cap PagesOf(s) = {}

\* The inductive invariant: what mem_map and mem_free rely on between calls.
IInv ==
  /\ TypeOK /\ Shapes /\ AllocationsMapped /\ AllocationsDisjoint /\ BlockOK
  /\ NothingLeaked /\ ReservedRangeIsFree /\ ReservesOK /\ ReservesUnmapped

\* The manager that __init__ leaves satisfies the invariant.
LEMMA InitIInv == Init => IInv
<1> SUFFICES ASSUME Init PROVE IInv
  OBVIOUS
<1>1. Held = {} /\ reserves = {} /\ mapped = {} /\ blockBase = 0
  BY DEF Init, Held
<1>2. TypeOK
  <2>1. PageSize \in Nat
    BY AddressAssumption
  <2>2. reservedMapped \in BOOLEAN
    BY DEF Init
  <2> QED
    BY <2>1, <2>2 DEF Init, TypeOK
<1> QED
  BY <1>1, <1>2 DEF IInv, Shapes, AllocationsMapped, AllocationsDisjoint, BlockOK,
     NothingLeaked, ReservedRangeIsFree, ReservesOK, ReservesUnmapped

\* What a step does that adds an allocation of whole pages.
AddsPages(a, n, first) ==
  /\ a \in Allocs /\ n \in Nat \ {0} /\ first \in Nat
  /\ maps[a] = NoMap
  /\ PageRange(first, n) \cap mapped = {} /\ PageRange(first, n) \cap ReservedRange = {}
  /\ mapped' = mapped \cup PageRange(first, n)
  /\ maps' = [maps EXCEPT ![a] = NewMap(first, n, FALSE, 0, n * PageSize)]
  /\ UNCHANGED <<blockBase, blockOffset, reservedMapped>>

\* The part of the invariant about allocations.
AInv ==
  /\ maps \in [Allocs -> MemMap \cup {NoMap}] /\ mapped \subseteq Nat
  /\ blockBase \in Nat /\ blockOffset \in 0 .. PageSize /\ reservedMapped \in BOOLEAN
  /\ Shapes /\ AllocationsMapped /\ AllocationsDisjoint /\ BlockOK
  /\ NothingLeaked /\ ReservedRangeIsFree

\* New pages disturb no allocation.
LEMMA AddsPagesAInv ==
  ASSUME AInv, NEW a, NEW n, NEW first, AddsPages(a, n, first)
  PROVE  AInv'
<1> DEFINE new == NewMap(first, n, FALSE, 0, n * PageSize)
<1>1. PageSize \in Nat /\ n * PageSize \in Nat
  BY AddressAssumption DEF AddsPages
<1>2. /\ new \in MemMap /\ PagesOf(new) = PageRange(first, n) /\ new.pages = n
      /\ ~new.small /\ new.first = first
  BY <1>1 DEF AddsPages, NewMap, MemMap, PagesOf, PageRange
<1>3. new # NoMap
  BY <1>2, NoMapAssumption
<1> HIDE DEF new
<1>4. /\ maps' = [maps EXCEPT ![a] = new] /\ a \in Allocs /\ maps[a] = NoMap
      /\ mapped' = mapped \cup PageRange(first, n)
      /\ PageRange(first, n) \cap mapped = {} /\ PageRange(first, n) \cap ReservedRange = {}
      /\ n \in Nat \ {0} /\ first \in Nat
      /\ UNCHANGED <<blockBase, blockOffset, reservedMapped>>
  BY DEF AddsPages, new
<1>5. maps' \in [Allocs -> MemMap \cup {NoMap}] /\ mapped' \subseteq Nat
  BY <1>2, <1>4 DEF AInv, PageRange
<1>6. /\ Held' = Held \cup {a} /\ a \notin Held /\ maps'[a] = new
      /\ \A b \in Held : b \in Allocs /\ maps'[b] = maps[b] /\ maps[b] \in MemMap
  BY <1>3, <1>4 DEF AInv, Held
<1>7. Shapes'
  BY <1>2, <1>4, <1>6 DEF AInv, Shapes
<1>8. AllocationsMapped'
  BY <1>2, <1>4, <1>6 DEF AInv, AllocationsMapped, PagesOf
<1>9. \A b \in Held : PagesOf(maps[b]) \cap PagesOf(new) = {}
  BY <1>2, <1>4 DEF AInv, AllocationsMapped
<1>10. AllocationsDisjoint'
  <2> SUFFICES ASSUME NEW b \in Held', NEW c \in Held', b # c,
                      PagesOf(maps'[b]) \cap PagesOf(maps'[c]) # {}
               PROVE  /\ maps'[b].small /\ maps'[c].small
                      /\ Bytes(maps'[b]) \cap Bytes(maps'[c]) = {}
    BY DEF AllocationsDisjoint, PagesOf, Bytes
  <2>1. b \in Held /\ c \in Held
    BY <1>6, <1>9
  <2> QED
    BY <1>6, <2>1 DEF AInv, AllocationsDisjoint
<1>11. BlockOK'
  BY <1>2, <1>4, <1>6 DEF AInv, BlockOK, PagesOf
<1>12. NothingLeaked'
  BY <1>2, <1>4, <1>6 DEF AInv, NothingLeaked, PagesOf
<1>13. ReservedRangeIsFree'
  BY <1>2, <1>4, <1>6 DEF AInv, ReservedRangeIsFree, PagesOf
<1> QED
  BY <1>4, <1>5, <1>7, <1>8, <1>10, <1>11, <1>12, <1>13 DEF AInv

\* A small allocation goes behind the ones that are in its block.
LEMMA MapInBlockAInv ==
  ASSUME AInv, NEW a \in Allocs, NEW size \in Sizes, MapInBlock(a, size)
  PROVE  AInv'
<1> DEFINE new == NewMap(blockBase, 1, TRUE, blockOffset, Padded(size))
<1>1. PageSize \in Nat /\ size \in Nat /\ size < PageSize
  BY AddressAssumption DEF MapInBlock, IsSmall
<1>2. Padded(size) \in 1 .. PageSize
  BY <1>1, PaddedFits
<1>3. /\ new \in MemMap /\ PagesOf(new) = {blockBase} /\ new.pages = 1 /\ new.small
      /\ new.off = blockOffset /\ new.size = Padded(size) /\ new.first = blockBase
  BY <1>1, <1>2 DEF AInv, NewMap, MemMap, PagesOf, PageRange
<1>4. new # NoMap
  BY <1>3, NoMapAssumption
<1> HIDE DEF new
<1>5. /\ maps' = [maps EXCEPT ![a] = new] /\ maps[a] = NoMap
      /\ blockBase # 0 /\ blockOffset + Padded(size) <= PageSize
      /\ blockOffset' = blockOffset + Padded(size)
      /\ UNCHANGED <<mapped, blockBase, reservedMapped>>
  BY DEF MapInBlock, FitsBlock, OffsetAfter, new
<1>6. maps' \in [Allocs -> MemMap \cup {NoMap}] /\ blockOffset' \in 0 .. PageSize
  BY <1>1, <1>2, <1>3, <1>5 DEF AInv
<1>7. /\ Held' = Held \cup {a} /\ a \notin Held /\ maps'[a] = new
      /\ \A b \in Held : b \in Allocs /\ maps'[b] = maps[b] /\ maps[b] \in MemMap
  BY <1>4, <1>5 DEF AInv, Held
<1>8. \A b \in Held : PagesOf(maps[b]) \cap PagesOf(new) # {} =>
        maps[b].small /\ maps[b].off + maps[b].size <= blockOffset
  BY <1>3, <1>5 DEF AInv, BlockOK
<1>9. \A b \in Held : PagesOf(maps[b]) \cap PagesOf(new) # {} =>
        maps[b].small /\ Bytes(maps[b]) \cap Bytes(new) = {}
  BY <1>2, <1>3, <1>7, <1>8 DEF AInv, Bytes, MemMap
<1>10. Shapes'
  BY <1>2, <1>3, <1>5, <1>7 DEF AInv, Shapes
<1>11. AllocationsMapped'
  BY <1>3, <1>5, <1>7 DEF AInv, AllocationsMapped, BlockOK, PagesOf
<1>12. AllocationsDisjoint'
  <2> SUFFICES ASSUME NEW b \in Held', NEW c \in Held', b # c,
                      PagesOf(maps'[b]) \cap PagesOf(maps'[c]) # {}
               PROVE  /\ maps'[b].small /\ maps'[c].small
                      /\ Bytes(maps'[b]) \cap Bytes(maps'[c]) = {}
    BY DEF AllocationsDisjoint, PagesOf, Bytes
  <2>1. CASE b \in Held /\ c \in Held
    BY <1>7, <2>1 DEF AInv, AllocationsDisjoint
  <2>2. CASE b = a
    BY <1>3, <1>7, <1>9, <2>2
  <2>3. CASE c = a
    BY <1>3, <1>7, <1>9, <2>3
  <2> QED
    BY <1>7, <2>1, <2>2, <2>3
<1>13. BlockOK'
  <2>1. \A b \in Held : blockBase \in PagesOf(maps[b]) =>
          maps[b].small /\ maps[b].off + maps[b].size <= blockOffset
    BY <1>5 DEF AInv, BlockOK
  <2>2. \A b \in Held : maps[b].off + maps[b].size \in Nat
    BY <1>7 DEF MemMap
  <2>3. \A b \in Held' : blockBase \in PagesOf(maps'[b]) =>
          maps'[b].small /\ maps'[b].off + maps'[b].size <= blockOffset'
    BY <1>2, <1>3, <1>5, <1>7, <2>1, <2>2 DEF AInv
  <2> QED
    BY <1>5, <2>3 DEF AInv, BlockOK, PagesOf
<1>14. NothingLeaked'
  BY <1>5, <1>7 DEF AInv, NothingLeaked, PagesOf
<1>15. ReservedRangeIsFree'
  BY <1>3, <1>5, <1>7 DEF AInv, ReservedRangeIsFree, BlockOK, PagesOf
<1> QED
  BY <1>5, <1>6, <1>10, <1>11, <1>12, <1>13, <1>14, <1>15 DEF AInv

\* A new shared block has a fresh page.
LEMMA MapNewBlockAInv ==
  ASSUME AInv, NEW a \in Allocs, NEW size \in Sizes, allocBase \in Nat, MapNewBlock(a, size)
  PROVE  AInv'
<1>1. PICK first \in 0 .. MaxPage - 1 :
        /\ ValidRange(allocBase, 1, first)
        /\ mapped' = mapped \cup {first}
        /\ blockBase' = first
        /\ maps' = [maps EXCEPT ![a] = NewMap(first, 1, TRUE, 0, Padded(size))]
  BY DEF MapNewBlock
<1> DEFINE new == NewMap(first, 1, TRUE, 0, Padded(size))
<1>2. PageSize \in Nat /\ size \in Nat /\ size < PageSize /\ first \in Nat
  BY AddressAssumption DEF MapNewBlock, IsSmall
<1>3. Padded(size) \in 1 .. PageSize
  BY <1>2, PaddedFits
<1>4. /\ new \in MemMap /\ PagesOf(new) = {first} /\ new.pages = 1 /\ new.small
      /\ new.off = 0 /\ new.size = Padded(size)
  BY <1>2, <1>3 DEF NewMap, MemMap, PagesOf, PageRange
<1>5. new # NoMap
  BY <1>4, NoMapAssumption
<1>6. first \notin mapped /\ first \notin ReservedRange
  <2>1. PageRange(first, 1) = {first}
    BY <1>2 DEF PageRange
  <2>2. /\ PageRange(first, 1) \cap UsedPages(reserves) = {}
        /\ PageRange(first, 1) \cap ReservedRange = {}
    BY <1>1, <1>2, SearchIsFree DEF ValidRange
  <2> QED
    BY <2>1, <2>2 DEF UsedPages
<1> HIDE DEF new
<1>7. /\ maps' = [maps EXCEPT ![a] = new] /\ maps[a] = NoMap
      /\ mapped' = mapped \cup {first} /\ blockBase' = first
      /\ blockOffset' = Padded(size) /\ UNCHANGED reservedMapped
  BY <1>1, <1>3 DEF MapNewBlock, OffsetAfter, new
<1>8. /\ maps' \in [Allocs -> MemMap \cup {NoMap}] /\ mapped' \subseteq Nat
      /\ blockBase' \in Nat /\ blockOffset' \in 0 .. PageSize
  <2>1. maps' \in [Allocs -> MemMap \cup {NoMap}]
    BY <1>4, <1>7 DEF AInv
  <2> QED
    BY <1>2, <1>3, <1>7, <2>1 DEF AInv
<1>9. /\ Held' = Held \cup {a} /\ a \notin Held /\ maps'[a] = new
      /\ \A b \in Held : b \in Allocs /\ maps'[b] = maps[b] /\ maps[b] \in MemMap
  BY <1>5, <1>7 DEF AInv, Held
<1>10. \A b \in Held : first \notin PagesOf(maps[b])
  BY <1>6 DEF AInv, AllocationsMapped
<1>11. Shapes'
  BY <1>3, <1>4, <1>9, <1>2 DEF AInv, Shapes
<1>12. AllocationsMapped'
  <2>1. \A b \in Held' : PagesOf(maps'[b]) \subseteq mapped'
    BY <1>4, <1>7, <1>9 DEF AInv, AllocationsMapped
  <2>2. \A b \in Held' : maps'[b].small => maps'[b].pages = 1 /\ maps'[b].off + maps'[b].size <= PageSize
    BY <1>11 DEF Shapes
  <2> QED
    BY <2>1, <2>2 DEF AllocationsMapped, PagesOf
<1>13. AllocationsDisjoint'
  <2> SUFFICES ASSUME NEW b \in Held', NEW c \in Held', b # c,
                      PagesOf(maps'[b]) \cap PagesOf(maps'[c]) # {}
               PROVE  /\ maps'[b].small /\ maps'[c].small
                      /\ Bytes(maps'[b]) \cap Bytes(maps'[c]) = {}
    BY DEF AllocationsDisjoint, PagesOf, Bytes
  <2>1. b \in Held /\ c \in Held
    BY <1>4, <1>9, <1>10
  <2> QED
    BY <1>9, <2>1 DEF AInv, AllocationsDisjoint
<1>14. BlockOK'
  <2>1. \A b \in Held' : first \in PagesOf(maps'[b]) =>
          maps'[b].small /\ maps'[b].off + maps'[b].size <= blockOffset'
    BY <1>3, <1>4, <1>7, <1>9, <1>10
  <2> QED
    BY <1>1, <1>6, <2>1 DEF BlockOK, PagesOf
<1>15. NothingLeaked'
  BY <1>1, <1>4, <1>7, <1>9 DEF AInv, NothingLeaked, PagesOf
<1>16. ReservedRangeIsFree'
  BY <1>4, <1>6, <1>9 DEF AInv, ReservedRangeIsFree, PagesOf
<1> QED
  BY <1>7, <1>8, <1>11, <1>12, <1>13, <1>14, <1>15, <1>16 DEF AInv

\* Removing the allocations of one block, with its pages, disturbs no other one.
LEMMA RemoveAInv ==
  ASSUME AInv, NEW a \in Held, NEW gone \in SUBSET Held,
         gone = SameBlock(a) \/ (gone = {a} /\ ~maps[a].small),
         maps' = [b \in Allocs |-> IF b \in gone THEN NoMap ELSE maps[b]],
         mapped' = mapped \ PagesOf(maps[a]),
         blockBase' = 0 \/ (blockBase' = blockBase /\ ~maps[a].small),
         UNCHANGED <<blockOffset, reservedMapped>>
  PROVE  AInv'
<1>1. /\ Held' = Held \ gone
      /\ \A b \in Held' : b \in Held /\ maps'[b] = maps[b]
  BY DEF Held
<1>2. \A b \in Held : b \in Allocs /\ maps[b] \in MemMap
  BY DEF AInv, Held
<1>3. \A b \in Held : maps[b].first \in PagesOf(maps[b])
  BY <1>2 DEF AInv, Shapes, PagesOf, PageRange, MemMap
<1>4. \A b \in Held' : PagesOf(maps[b]) \cap PagesOf(maps[a]) = {}
  <2> SUFFICES ASSUME NEW b \in Held', PagesOf(maps[b]) \cap PagesOf(maps[a]) # {}
               PROVE  FALSE
    OBVIOUS
  <2>1. b \in Held /\ b \notin gone
    BY <1>1
  <2>2. a \in gone
    BY DEF SameBlock
  <2>3. maps[a].small /\ maps[b].small
    BY <2>1, <2>2 DEF AInv, AllocationsDisjoint
  <2>4. PagesOf(maps[a]) = {maps[a].first} /\ PagesOf(maps[b]) = {maps[b].first}
    BY <1>2, <2>1, <2>3 DEF AInv, Shapes, PagesOf, PageRange, MemMap
  <2>5. b \in SameBlock(a)
    BY <2>1, <2>4 DEF SameBlock
  <2> QED
    BY <2>1, <2>3, <2>5
<1>5. maps' \in [Allocs -> MemMap \cup {NoMap}] /\ mapped' \subseteq Nat /\ blockBase' \in Nat
  <2>1. maps' \in [Allocs -> MemMap \cup {NoMap}]
    BY DEF AInv
  <2>2. mapped' \subseteq Nat
    BY DEF AInv
  <2>3. blockBase' = 0 \/ blockBase' = blockBase
    OBVIOUS
  <2> QED
    BY <2>1, <2>2, <2>3 DEF AInv
<1>6. Shapes' /\ ReservedRangeIsFree'
  BY <1>1 DEF AInv, Shapes, ReservedRangeIsFree, PagesOf
<1>7. AllocationsMapped'
  BY <1>1, <1>4 DEF AInv, AllocationsMapped, PagesOf
<1>8. AllocationsDisjoint'
  BY <1>1 DEF AInv, AllocationsDisjoint, PagesOf, Bytes
<1>9. BlockOK'
  <2> SUFFICES ASSUME blockBase' # 0 PROVE BlockOK'
    BY DEF BlockOK
  <2>1. blockBase' = blockBase /\ ~maps[a].small
    OBVIOUS
  <2>2. blockBase \notin PagesOf(maps[a])
    BY <2>1 DEF AInv, BlockOK
  <2> QED
    BY <1>1, <2>1, <2>2 DEF AInv, BlockOK, PagesOf
<1>10. NothingLeaked'
  <2> SUFFICES ASSUME NEW p \in mapped'
               PROVE  \/ \E b \in Held' : p \in PagesOf(maps'[b])
                      \/ reservedMapped' /\ p \in ReservedRange
    BY DEF NothingLeaked, PagesOf
  <2>1. p \in mapped /\ p \notin PagesOf(maps[a])
    OBVIOUS
  <2>2. CASE reservedMapped /\ p \in ReservedRange
    BY <2>2
  <2>3. CASE \E b \in Held : p \in PagesOf(maps[b])
    <3>1. PICK b \in Held : p \in PagesOf(maps[b])
      BY <2>3
    <3>2. b \notin gone
      <4> SUFFICES ASSUME b \in gone PROVE FALSE
        OBVIOUS
      <4>1. b # a /\ maps[b].first = maps[a].first
        BY <2>1, <3>1 DEF SameBlock
      <4>2. maps[a].small /\ maps[b].small
        BY <1>3, <4>1 DEF AInv, AllocationsDisjoint
      <4>3. PagesOf(maps[a]) = {maps[a].first} /\ PagesOf(maps[b]) = {maps[b].first}
        BY <1>2, <4>2 DEF AInv, Shapes, PagesOf, PageRange, MemMap
      <4> QED
        BY <2>1, <3>1, <4>1, <4>3
    <3> QED
      BY <1>1, <3>1, <3>2
  <2> QED
    BY <2>1, <2>2, <2>3 DEF AInv, NothingLeaked
<1> QED
  BY <1>5, <1>6, <1>7, <1>8, <1>9, <1>10 DEF AInv

\* A step that only marks an allocation free.
LEMMA MarkAInv ==
  ASSUME AInv, NEW a \in Held, maps' = [maps EXCEPT ![a].free = TRUE],
         UNCHANGED <<mapped, blockBase, blockOffset, reservedMapped>>
  PROVE  AInv'
<1>1. \A b \in Held : b \in Allocs /\ maps[b] \in MemMap
  BY DEF AInv, Held
<1>2. maps' = [maps EXCEPT ![a] = [maps[a] EXCEPT !.free = TRUE]]
  OBVIOUS
<1>3. [maps[a] EXCEPT !.free = TRUE] \in MemMap
  BY <1>1 DEF MemMap
<1>4. maps' \in [Allocs -> MemMap \cup {NoMap}]
  BY <1>1, <1>2, <1>3 DEF AInv
<1>5. Held' = Held
  BY <1>1, <1>2, <1>3, NoMapAssumption DEF AInv, Held
<1>6. \A b \in Held : /\ maps'[b].first = maps[b].first /\ maps'[b].pages = maps[b].pages
                        /\ maps'[b].small = maps[b].small /\ maps'[b].off = maps[b].off
                        /\ maps'[b].size = maps[b].size
  BY <1>1, <1>2, <1>3 DEF AInv, MemMap
<1>7. \A b \in Held : PagesOf(maps'[b]) = PagesOf(maps[b]) /\ Bytes(maps'[b]) = Bytes(maps[b])
  BY <1>6 DEF PagesOf, Bytes
<1>8. Shapes' /\ AllocationsMapped' /\ AllocationsDisjoint'
  <2>1. Shapes'
    BY <1>5, <1>6 DEF AInv, Shapes
  <2>2. AllocationsMapped'
    BY <1>5, <1>6, <1>7 DEF AInv, AllocationsMapped, PagesOf
  <2>3. AllocationsDisjoint'
    <3> SUFFICES ASSUME NEW b \in Held, NEW c \in Held, b # c,
                        PagesOf(maps'[b]) \cap PagesOf(maps'[c]) # {}
                 PROVE  /\ maps'[b].small /\ maps'[c].small
                        /\ Bytes(maps'[b]) \cap Bytes(maps'[c]) = {}
      BY <1>5 DEF AllocationsDisjoint, PagesOf, Bytes
    <3> QED
      BY <1>6, <1>7 DEF AInv, AllocationsDisjoint
  <2> QED
    BY <2>1, <2>2, <2>3
<1>9. BlockOK' /\ NothingLeaked' /\ ReservedRangeIsFree'
  BY <1>5, <1>6, <1>7 DEF AInv, BlockOK, NothingLeaked, ReservedRangeIsFree, PagesOf
<1> QED
  BY <1>4, <1>8, <1>9 DEF AInv

-----------------------------------------------------------------------------
(* Every action preserves the invariant *)

\* The part of the invariant about reserved ranges.
RInv == reserves \subseteq Reserve /\ mapped \subseteq Nat /\ ReservesOK /\ ReservesUnmapped

\* Mapping pages that no reserve has keeps the reserves, apart from those that
\* are dropped.
LEMMA MapRInv ==
  ASSUME RInv, NEW pages \in SUBSET Nat, mapped' = mapped \cup pages,
         reserves' \subseteq reserves,
         \A r \in reserves' : r.kind # "guard" => PagesOf(r) \cap pages = {}
  PROVE  RInv'
<1>1. reserves' \subseteq Reserve /\ mapped' \subseteq Nat
  BY DEF RInv
<1>2. ReservesOK'
  BY DEF RInv, ReservesOK, PagesOf
<1>3. ReservesUnmapped'
  BY DEF RInv, ReservesUnmapped, PagesOf
<1> QED
  BY <1>1, <1>2, <1>3 DEF RInv

\* Unmapping pages keeps the reserves.
LEMMA UnmapRInv ==
  ASSUME RInv, mapped' \subseteq mapped, UNCHANGED reserves
  PROVE  RInv'
<1>1. reserves' \subseteq Reserve /\ mapped' \subseteq Nat
  BY DEF RInv
<1>2. ReservesOK'
  BY DEF RInv, ReservesOK, PagesOf
<1>3. ReservesUnmapped'
  BY DEF RInv, ReservesUnmapped, PagesOf
<1> QED
  BY <1>1, <1>2, <1>3 DEF RInv

\* The search for whole pages gives what AddsPages needs.
LEMMA RangeIsNew ==
  ASSUME NEW a \in Allocs, NEW n \in Nat \ {0}, NEW first \in 0 .. MaxPage, NEW start \in Nat,
         NEW rs, SearchRange(UsedPages(rs), start, n, first), MapPages(a, n, first),
         UNCHANGED <<blockBase, blockOffset, reservedMapped>>
  PROVE  /\ AddsPages(a, n, first)
         /\ \A r \in rs : PagesOf(r) \cap PageRange(first, n) = {}
<1>1. first \in Nat
  BY AddressAssumption
<1>2. /\ PageRange(first, n) \cap UsedPages(rs) = {}
      /\ PageRange(first, n) \cap ReservedRange = {}
  BY <1>1, SearchIsFree
<1> QED
  BY <1>1, <1>2 DEF MapPages, AddsPages, UsedPages

\* The pages of a range are natural numbers.
LEMMA PageRangeNat ==
  ASSUME NEW first \in Nat, NEW n \in Nat
  PROVE  PageRange(first, n) \subseteq Nat
BY DEF PageRange

\* A guard above a stack disturbs no other reserve: alloc_stack does not run
\* while alloc_peb has its reserve.
LEMMA GuardRInv ==
  ASSUME RInv, NEW first \in Nat, NEW n \in Nat \ {0},
         \A r \in reserves : r.kind # "peb",
         reserves' = reserves \cup {[first |-> first, pages |-> n, kind |-> "guard"]},
         NEW pages \in SUBSET Nat, mapped' = mapped \cup pages,
         \A r \in reserves : PagesOf(r) \cap pages = {}
  PROVE  RInv'
<1> DEFINE g == [first |-> first, pages |-> n, kind |-> "guard"]
<1>1. g \in Reserve /\ g.kind = "guard" /\ g.pages > 0 /\ g.kind # "peb"
  BY DEF Reserve, ReserveKinds
<1> HIDE DEF g
<1>2. reserves' = reserves \cup {g}
  BY DEF g
<1>3. reserves' \subseteq Reserve /\ mapped' \subseteq Nat
  BY <1>1, <1>2 DEF RInv
<1>4. ReservesOK'
  BY <1>1, <1>2 DEF RInv, ReservesOK, PagesOf
<1>5. ReservesUnmapped'
  BY <1>1, <1>2 DEF RInv, ReservesUnmapped, PagesOf
<1> QED
  BY <1>3, <1>4, <1>5 DEF RInv

\* A range that was searched for meets nothing.
LEMMA ReserveRInv ==
  ASSUME RInv, NEW kind \in {"traps", "peb"}, NEW start \in Nat, NEW n \in Nat \ {0},
         ReserveRange(kind, start, n)
  PROVE  RInv'
<1>1. PICK first \in 0 .. MaxPage :
        /\ ValidRange(start, n, first)
        /\ reserves' = reserves \cup {[first |-> first, pages |-> n, kind |-> kind]}
  BY DEF ReserveRange
<1> DEFINE g == [first |-> first, pages |-> n, kind |-> kind]
<1>2. first \in Nat
  BY AddressAssumption
<1>3. g \in Reserve /\ g.kind = kind /\ g.pages > 0 /\ PagesOf(g) = PageRange(first, n)
  BY <1>2 DEF Reserve, ReserveKinds, PagesOf
<1> HIDE DEF g
<1>4. reserves' = reserves \cup {g} /\ UNCHANGED mapped
  BY <1>1 DEF g, ReserveRange
<1>5. PagesOf(g) \cap UsedPages(reserves) = {} /\ PagesOf(g) \cap ReservedRange = {}
  BY <1>1, <1>2, <1>3, SearchIsFree DEF ValidRange
<1>6. PagesOf(g) \cap mapped = {} /\ \A r \in reserves : PagesOf(g) \cap PagesOf(r) = {}
  BY <1>5 DEF UsedPages
<1>7. reserves' \subseteq Reserve /\ mapped' \subseteq Nat
  BY <1>3, <1>4 DEF RInv
<1>8. ReservesOK'
  BY <1>3, <1>4, <1>5, <1>6 DEF RInv, ReservesOK, PagesOf
<1>9. ReservesUnmapped'
  BY <1>3, <1>4, <1>6 DEF RInv, ReservesUnmapped, PagesOf
<1> QED
  BY <1>7, <1>8, <1>9 DEF RInv

\* The invariant is its part about allocations and its part about reserves.
LEMMA SplitIInv ==
  IInv <=> /\ AInv /\ RInv
           /\ allocBase \in {AllocBase, MachineBase} /\ modules \subseteq Nat
BY DEF IInv, AInv, RInv, TypeOK

\* Every operation of the memory manager preserves the invariant.
LEMMA NextIInv == IInv /\ [Next]_vars => IInv'
<1> SUFFICES ASSUME IInv, [Next]_vars PROVE IInv'
  OBVIOUS
<1>1. /\ AInv /\ RInv
      /\ allocBase \in {AllocBase, MachineBase} /\ modules \subseteq Nat
  BY SplitIInv
<1>2. allocBase \in Nat /\ AllocBase \in Nat /\ MachineBase \in Nat
  BY <1>1, AddressAssumption
<1> SUFFICES AInv' /\ RInv' /\ allocBase' \in {AllocBase, MachineBase} /\ modules' \subseteq Nat
  BY SplitIInv DEF IInv, AInv, RInv, TypeOK, Shapes, AllocationsMapped, AllocationsDisjoint, BlockOK,
     NothingLeaked, ReservedRangeIsFree, ReservesOK, ReservesUnmapped
<1>3. ASSUME NEW a \in Allocs, NEW size \in Sizes, MapInBlock(a, size)
      PROVE  AInv' /\ RInv' /\ allocBase' \in {AllocBase, MachineBase} /\ modules' \subseteq Nat
  <2>1. AInv'
    BY <1>1, <1>3, MapInBlockAInv
  <2>2. RInv'
    BY <1>1, <1>3, UnmapRInv DEF MapInBlock
  <2> QED
    BY <1>1, <1>3, <2>1, <2>2 DEF MapInBlock
<1>4. ASSUME NEW a \in Allocs, NEW size \in Sizes, MapNewBlock(a, size)
      PROVE  AInv' /\ RInv' /\ allocBase' \in {AllocBase, MachineBase} /\ modules' \subseteq Nat
  <2>1. AInv'
    BY <1>1, <1>2, <1>4, MapNewBlockAInv
  <2>2. PICK first \in 0 .. MaxPage - 1 :
          ValidRange(allocBase, 1, first) /\ mapped' = mapped \cup {first}
    BY <1>4 DEF MapNewBlock
  <2>3. first \in Nat /\ PageRange(first, 1) = {first}
    BY AddressAssumption DEF PageRange
  <2>4. {first} \cap UsedPages(reserves) = {}
    BY <1>2, <2>2, <2>3, SearchIsFree DEF ValidRange
  <2>5. UNCHANGED <<reserves, allocBase, modules>>
    BY <1>4 DEF MapNewBlock
  <2>6. \A r \in reserves' : PagesOf(r) \cap {first} = {}
    BY <2>4, <2>5 DEF UsedPages
  <2>7. RInv'
    BY <1>1, <2>2, <2>3, <2>5, <2>6, MapRInv
  <2> QED
    BY <1>1, <2>1, <2>5, <2>7
<1>5. ASSUME NEW a \in Allocs, NEW n \in Nat \ {0}, NEW start \in Nat, NEW first \in 0 .. MaxPage,
             NEW rs \in SUBSET reserves,
             SearchRange(UsedPages(rs), start, n, first), MapPages(a, n, first),
             reserves' = rs, UNCHANGED <<blockBase, blockOffset, reservedMapped>>
      PROVE  AInv' /\ RInv' /\ first \in Nat
  <2>1. /\ AddsPages(a, n, first)
        /\ \A r \in rs : PagesOf(r) \cap PageRange(first, n) = {}
    BY <1>5, RangeIsNew
  <2>2. AInv'
    BY <1>1, <2>1, AddsPagesAInv
  <2>3. first \in Nat /\ PageRange(first, n) \subseteq Nat
    BY <2>1, PageRangeNat DEF AddsPages
  <2>4. mapped' = mapped \cup PageRange(first, n)
    BY <2>1 DEF AddsPages
  <2>5. RInv'
    BY <1>1, <1>5, <2>1, <2>3, <2>4, MapRInv
  <2> QED
    BY <2>2, <2>3, <2>5
<1>6. ASSUME NEW a \in Allocs, NEW size \in Sizes, NEW start \in Nat, Map(a, size, start)
      PROVE  AInv' /\ RInv' /\ allocBase' \in {AllocBase, MachineBase} /\ modules' \subseteq Nat
  <2>1. PICK first \in 0 .. MaxPage :
          ValidRange(start, PageCount(size), first) /\ MapPages(a, PageCount(size), first)
    BY <1>6 DEF Map
  <2>2. PageCount(size) \in Nat \ {0}
    BY PageCountPositive, AddressAssumption
  <2>3. UNCHANGED <<reserves, blockBase, blockOffset, allocBase, reservedMapped, modules>>
    BY <1>6 DEF Map
  <2>4. AInv' /\ RInv'
    BY <1>5, <2>1, <2>2, <2>3 DEF ValidRange
  <2> QED
    BY <1>1, <2>3, <2>4
<1>7. ASSUME NEW a \in Allocs, NEW size \in Sizes, MapImage(a, size)
      PROVE  AInv' /\ RInv' /\ allocBase' \in {AllocBase, MachineBase} /\ modules' \subseteq Nat
  <2>1. PICK start \in Bases, first \in 0 .. MaxPage :
          /\ ValidRange(start, PageCount(size), first) /\ MapPages(a, PageCount(size), first)
          /\ modules' = modules \cup {first}
    BY <1>7 DEF MapImage
  <2>2. PageCount(size) \in Nat \ {0} /\ start \in Nat
    BY PageCountPositive, AddressAssumption
  <2>3. UNCHANGED <<reserves, blockBase, blockOffset, allocBase, reservedMapped>>
    BY <1>7 DEF MapImage
  <2>4. AInv' /\ RInv' /\ first \in Nat
    BY <1>5, <2>1, <2>2, <2>3 DEF ValidRange
  <2> QED
    BY <1>1, <2>1, <2>3, <2>4
<1>8. ASSUME NEW a \in Allocs, AllocStack(a)
      PROVE  AInv' /\ RInv' /\ allocBase' \in {AllocBase, MachineBase} /\ modules' \subseteq Nat
  <2>1. PICK first \in 0 .. MaxPage :
          /\ ValidRange(StackBase, StackPages, first) /\ MapPages(a, StackPages, first)
          /\ reserves' = reserves \cup
               {[first |-> first + StackPages, pages |-> StackPages, kind |-> "guard"]}
    BY <1>8 DEF AllocStack
  <2>2. StackPages \in Nat \ {0} /\ StackBase \in Nat
    BY AddressAssumption
  <2>3. UNCHANGED <<blockBase, blockOffset, allocBase, reservedMapped, modules>>
    BY <1>8 DEF AllocStack
  <2>4. /\ AddsPages(a, StackPages, first)
        /\ \A r \in reserves : PagesOf(r) \cap PageRange(first, StackPages) = {}
    BY <2>1, <2>2, <2>3, RangeIsNew DEF ValidRange
  <2>5. AInv'
    BY <1>1, <2>4, AddsPagesAInv
  <2>6. /\ first + StackPages \in Nat /\ PageRange(first, StackPages) \subseteq Nat
        /\ mapped' = mapped \cup PageRange(first, StackPages)
    BY <2>2, <2>4, PageRangeNat DEF AddsPages
  <2>7. \A r \in reserves : r.kind # "peb"
    BY <1>8 DEF AllocStack
  <2>8. RInv'
    BY <1>1, <2>1, <2>2, <2>4, <2>6, <2>7, GuardRInv
  <2> QED
    BY <1>1, <2>3, <2>5, <2>8
<1>9. ASSUME NEW a \in Allocs, NEW r \in reserves, MapReserve(a, r)
      PROVE  AInv' /\ RInv' /\ allocBase' \in {AllocBase, MachineBase} /\ modules' \subseteq Nat
  <2>1. PICK first \in 0 .. MaxPage :
          /\ SearchRange(UsedPages(reserves \ {r}), r.first, r.pages, first)
          /\ MapPages(a, r.pages, first)
    BY <1>9 DEF MapReserve
  <2>2. r.first \in Nat /\ r.pages \in Nat \ {0}
    BY <1>1 DEF RInv, ReservesOK, Reserve
  <2>3. /\ reserves' = reserves \ {r}
        /\ UNCHANGED <<blockBase, blockOffset, allocBase, reservedMapped, modules>>
    BY <1>9 DEF MapReserve
  <2>4. AInv' /\ RInv'
    BY <1>5, <2>1, <2>2, <2>3
  <2> QED
    BY <1>1, <2>3, <2>4
<1>10. ASSUME NEW a \in Allocs, MemFree(a)
       PROVE  AInv' /\ RInv' /\ allocBase' \in {AllocBase, MachineBase} /\ modules' \subseteq Nat
  <2>1. /\ a \in Held /\ UNCHANGED <<reserves, blockOffset, allocBase, reservedMapped, modules>>
    BY <1>10 DEF MemFree, Held
  <2>2. CASE ~KeepMemory /\ BlockIsFree(a)
    <3>1. /\ blockBase' = 0 /\ mapped' = mapped \ PagesOf(maps[a])
          /\ maps' = [b \in Allocs |-> IF b \in SameBlock(a) THEN NoMap ELSE maps[b]]
      BY <1>10, <2>2 DEF MemFree, BlockAfterFree, BlockPages
    <3>2. SameBlock(a) \in SUBSET Held
      BY DEF SameBlock
    <3>3. AInv'
      BY <1>1, <2>1, <3>1, <3>2, RemoveAInv
    <3>4. RInv'
      BY <1>1, <2>1, <3>1, UnmapRInv
    <3> QED
      BY <1>1, <2>1, <3>3, <3>4
  <2>3. CASE ~(~KeepMemory /\ BlockIsFree(a))
    <3>1. maps' = [maps EXCEPT ![a].free = TRUE] /\ UNCHANGED <<blockBase, mapped>>
      BY <1>10, <2>3 DEF MemFree
    <3>2. AInv'
      BY <1>1, <2>1, <3>1, MarkAInv
    <3>3. RInv'
      BY <1>1, <2>1, <3>1, UnmapRInv
    <3> QED
      BY <1>1, <2>1, <3>2, <3>3
  <2> QED
    BY <2>2, <2>3
<1>11. ASSUME NEW a \in Allocs, VirtualFree(a)
       PROVE  AInv' /\ RInv' /\ allocBase' \in {AllocBase, MachineBase} /\ modules' \subseteq Nat
  <2>1. /\ a \in Held /\ maps' = [maps EXCEPT ![a].free = TRUE]
        /\ UNCHANGED <<reserves, mapped, blockBase, blockOffset, allocBase, reservedMapped, modules>>
    BY <1>11 DEF VirtualFree, Held
  <2>2. AInv' /\ RInv'
    BY <1>1, <2>1, MarkAInv, UnmapRInv
  <2> QED
    BY <1>1, <2>1, <2>2
<1>12. ASSUME NEW page \in modules, DiscardModule(page)
       PROVE  AInv' /\ RInv' /\ allocBase' \in {AllocBase, MachineBase} /\ modules' \subseteq Nat
  <2>1. /\ modules' = modules \ {page}
        /\ UNCHANGED <<reserves, blockBase, blockOffset, allocBase, reservedMapped>>
    BY <1>12 DEF DiscardModule
  <2>2. CASE \E a \in Allocs : /\ IsAt(a, page) /\ ~maps[a].small
                               /\ mapped' = mapped \ PagesOf(maps[a])
                               /\ maps' = [maps EXCEPT ![a] = NoMap]
    <3>1. PICK a \in Allocs : /\ IsAt(a, page) /\ ~maps[a].small
                              /\ mapped' = mapped \ PagesOf(maps[a])
                              /\ maps' = [maps EXCEPT ![a] = NoMap]
      BY <2>2
    <3>2. a \in Held /\ {a} \in SUBSET Held
      BY <3>1 DEF IsAt, Held
    <3>3. maps' = [b \in Allocs |-> IF b \in {a} THEN NoMap ELSE maps[b]]
      BY <1>1, <3>1 DEF AInv
    <3>4. AInv'
      BY <1>1, <2>1, <3>1, <3>2, <3>3, RemoveAInv
    <3>5. RInv'
      BY <1>1, <2>1, <3>1, UnmapRInv
    <3> QED
      BY <1>1, <2>1, <3>4, <3>5
  <2>3. CASE UNCHANGED <<mapped, maps>>
    <3>1. AInv' /\ RInv'
      BY <1>1, <2>1, <2>3 DEF AInv, RInv, Shapes, AllocationsMapped, AllocationsDisjoint, BlockOK,
         NothingLeaked, ReservedRangeIsFree, ReservesOK, ReservesUnmapped, Held
    <3> QED
      BY <1>1, <2>1, <3>1
  <2> QED
    BY <1>12, <2>2, <2>3 DEF DiscardModule
<1>13. ASSUME NEW kind \in {"traps", "peb"}, NEW start \in Nat, NEW n \in Nat \ {0},
              ReserveRange(kind, start, n)
       PROVE  AInv' /\ RInv' /\ allocBase' \in {AllocBase, MachineBase} /\ modules' \subseteq Nat
  <2>1. UNCHANGED <<maps, mapped, blockBase, blockOffset, allocBase, reservedMapped, modules>>
    BY <1>13 DEF ReserveRange
  <2>2. AInv'
    BY <1>1, <2>1 DEF AInv, Shapes, AllocationsMapped, AllocationsDisjoint, BlockOK,
       NothingLeaked, ReservedRangeIsFree, Held
  <2>3. RInv'
    BY <1>1, <1>13, ReserveRInv
  <2> QED
    BY <1>1, <2>1, <2>2, <2>3
<1>14. ASSUME NEW base \in {AllocBase, MachineBase}, AllocationsFrom(base)
       PROVE  AInv' /\ RInv' /\ allocBase' \in {AllocBase, MachineBase} /\ modules' \subseteq Nat
  <2>1. /\ allocBase' = base /\ blockBase' = 0 /\ blockOffset' = 0
        /\ UNCHANGED <<maps, reserves, mapped, reservedMapped, modules>>
    BY <1>14 DEF AllocationsFrom
  <2>2. PageSize \in Nat /\ 0 \in 0 .. PageSize
    BY AddressAssumption
  <2>3. AInv' /\ RInv'
    BY <1>1, <2>1, <2>2 DEF AInv, RInv, Shapes, AllocationsMapped, AllocationsDisjoint, BlockOK,
       NothingLeaked, ReservedRangeIsFree, ReservesOK, ReservesUnmapped, Held
  <2> QED
    BY <1>1, <2>1, <2>3
<1>15. ASSUME MapReservedRange
       PROVE  AInv' /\ RInv' /\ allocBase' \in {AllocBase, MachineBase} /\ modules' \subseteq Nat
  <2>1. /\ mapped' = mapped \cup ReservedRange /\ reservedMapped' = TRUE
        /\ UNCHANGED <<maps, reserves, blockBase, blockOffset, allocBase, modules>>
    BY <1>15 DEF MapReservedRange
  <2>2. ReservedRange \subseteq Nat
    BY AddressAssumption DEF ReservedRange
  <2>3. AInv'
    <3>1. Held' = Held
      BY <2>1 DEF Held
    <3>2. AllocationsMapped' /\ BlockOK' /\ NothingLeaked'
      BY <1>1, <2>1, <3>1 DEF AInv, AllocationsMapped, BlockOK, NothingLeaked
    <3> QED
      BY <1>1, <2>1, <2>2, <3>1, <3>2 DEF AInv, Shapes, AllocationsDisjoint, ReservedRangeIsFree
  <2>4. \A r \in reserves' : r.kind # "guard" => PagesOf(r) \cap ReservedRange = {}
    BY <1>1, <2>1 DEF RInv, ReservesOK
  <2>5. RInv'
    BY <1>1, <2>1, <2>2, <2>4, MapRInv
  <2> QED
    BY <1>1, <2>1, <2>3, <2>5
<1>16. ASSUME UnmapReservedRange
       PROVE  AInv' /\ RInv' /\ allocBase' \in {AllocBase, MachineBase} /\ modules' \subseteq Nat
  <2>1. /\ mapped' = mapped \ ReservedRange /\ reservedMapped' = FALSE
        /\ UNCHANGED <<maps, reserves, blockBase, blockOffset, allocBase, modules>>
    BY <1>16 DEF UnmapReservedRange
  <2>2. AInv'
    <3>1. Held' = Held
      BY <2>1 DEF Held
    <3>2. AllocationsMapped' /\ BlockOK' /\ NothingLeaked'
      BY <1>1, <2>1, <3>1 DEF AInv, AllocationsMapped, BlockOK, NothingLeaked, ReservedRangeIsFree
    <3> QED
      BY <1>1, <2>1, <3>1, <3>2 DEF AInv, Shapes, AllocationsDisjoint, ReservedRangeIsFree
  <2>3. RInv'
    BY <1>1, <2>1, UnmapRInv
  <2> QED
    BY <1>1, <2>1, <2>2, <2>3
<1>17. ASSUME UNCHANGED vars
       PROVE  AInv' /\ RInv' /\ allocBase' \in {AllocBase, MachineBase} /\ modules' \subseteq Nat
  BY <1>1, <1>17 DEF vars, AInv, RInv, Shapes, AllocationsMapped, AllocationsDisjoint, BlockOK,
     NothingLeaked, ReservedRangeIsFree, ReservesOK, ReservesUnmapped, Held
<1>18. ASSUME NEW a \in Allocs, MapStep(a)
       PROVE  AInv' /\ RInv' /\ allocBase' \in {AllocBase, MachineBase} /\ modules' \subseteq Nat
  <2>1. Bases \subseteq Nat
    BY AddressAssumption
  <2> QED
    BY <1>2, <1>3, <1>4, <1>6, <1>7, <1>8, <1>9, <1>18, <2>1 DEF MapStep, MapAtBase, MapAnywhere
<1>19. ASSUME FreeStep
       PROVE  AInv' /\ RInv' /\ allocBase' \in {AllocBase, MachineBase} /\ modules' \subseteq Nat
  BY <1>10, <1>11, <1>12, <1>19 DEF FreeStep
<1>20. ASSUME ReserveStep
       PROVE  AInv' /\ RInv' /\ allocBase' \in {AllocBase, MachineBase} /\ modules' \subseteq Nat
  <2>1. TrapBase \in Nat /\ TrapPages \in Nat \ {0} /\ PebPages \in Nat \ {0}
    BY AddressAssumption
  <2> QED
    BY <1>2, <1>13, <1>14, <1>15, <1>16, <1>20, <2>1 DEF ReserveStep, ReserveTraps, ReservePeb
<1> QED
  BY <1>17, <1>18, <1>19, <1>20 DEF Next

-----------------------------------------------------------------------------
(* The theorems *)

\* The inductive invariant holds in every behaviour.
THEOREM Invariance == Spec => []IInv
BY InitIInv, NextIInv, PTL DEF Spec

\* The fields of the memory manager keep their types; the offset in the shared
\* block never passes the page.
THEOREM TypeCorrect == Spec => []TypeOK
<1>1. IInv => TypeOK
  BY DEF IInv
<1> QED
  BY <1>1, Invariance, PTL

\* mem_map never hands out a byte twice, whatever was freed in between.
THEOREM AllocationsAreDisjoint == Spec => []AllocationsDisjoint
<1>1. IInv => AllocationsDisjoint
  BY DEF IInv
<1> QED
  BY <1>1, Invariance, PTL

\* An allocation in maps is mapped in the engine.
THEOREM AllocationsAreMapped == Spec => []AllocationsMapped
<1>1. IInv => AllocationsMapped
  BY DEF IInv
<1> QED
  BY <1>1, Invariance, PTL

\* mem_free, discard_module and new shared blocks leave no page in the engine
\* without an allocation.
THEOREM NoPageIsLeaked == Spec => []NothingLeaked
<1>1. IInv => NothingLeaked
  BY DEF IInv
<1> QED
  BY <1>1, Invariance, PTL

\* get_valid_ranges keeps every allocation out of the range of the return address.
THEOREM ReservedRangeStaysFree == Spec => []ReservedRangeIsFree
<1>1. IInv => ReservedRangeIsFree
  BY DEF IInv
<1> QED
  BY <1>1, Invariance, PTL

\* The API traps and the loader data of a PEB stay unmapped and apart.
THEOREM ReservesStayUnmapped == Spec => []ReservesUnmapped
<1>1. IInv => ReservesUnmapped
  BY DEF IInv
<1> QED
  BY <1>1, Invariance, PTL

\* mem_free and discard_module remove no allocation in use but the one they name.
THEOREM LiveAllocationsAreKept == Spec => LiveIsKept
<1>1. ASSUME IInv, [Next]_vars
      PROVE  [\A a, b \in Held : maps'[a] = NoMap /\ maps'[b] = NoMap =>
                a = b \/ maps[a].free \/ maps[b].free]_vars
  <2> DEFINE Keeps == \A b \in Held : maps'[b] # NoMap
  <2>1. maps \in [Allocs -> MemMap \cup {NoMap}]
    BY <1>1 DEF IInv, TypeOK
  <2>2. ASSUME NEW c \in Allocs, MemFree(c)
        PROVE  \A a, b \in Held : maps'[a] = NoMap /\ maps'[b] = NoMap =>
                 a = b \/ maps[a].free \/ maps[b].free
    <3>1. CASE ~KeepMemory /\ BlockIsFree(c)
      <4>1. maps' = [b \in Allocs |-> IF b \in SameBlock(c) THEN NoMap ELSE maps[b]]
        BY <2>2, <3>1 DEF MemFree
      <4>2. \A b \in Held : maps'[b] = NoMap => b \in SameBlock(c)
        BY <4>1 DEF Held
      <4> QED
        BY <3>1, <4>2 DEF BlockIsFree
    <3>2. CASE ~(~KeepMemory /\ BlockIsFree(c))
      <4>1. maps' = [maps EXCEPT ![c].free = TRUE]
        BY <2>2, <3>2 DEF MemFree
      <4>2. maps[c] \in MemMap
        BY <2>1, <2>2 DEF MemFree
      <4>3. Keeps
        BY <2>1, <4>1, <4>2, NoMapAssumption DEF Held, MemMap
      <4> QED
        BY <4>3
    <3> QED
      BY <3>1, <3>2
  <2>3. ASSUME NEW c \in Allocs, VirtualFree(c)
        PROVE  Keeps
    BY <2>1, <2>3, NoMapAssumption DEF VirtualFree, Held, MemMap
  <2>4. ASSUME NEW page \in modules, DiscardModule(page)
        PROVE  \A a, b \in Held : maps'[a] = NoMap /\ maps'[b] = NoMap => a = b
    <3>1. CASE UNCHANGED maps
      BY <3>1 DEF Held
    <3>2. CASE \E c \in Allocs : maps' = [maps EXCEPT ![c] = NoMap]
      BY <2>1, <3>2 DEF Held
    <3> QED
      BY <2>4, <3>1, <3>2 DEF DiscardModule
  <2>5. ASSUME NEW c \in Allocs, NEW n, NEW first, MapPages(c, n, first)
        PROVE  Keeps
    BY <2>1, <2>5 DEF MapPages, Held
  <2>6. ASSUME NEW c \in Allocs, MapStep(c)
        PROVE  Keeps
    <3>1. ASSUME NEW size \in Sizes, MapInBlock(c, size) \/ MapNewBlock(c, size)
          PROVE  Keeps
      BY <2>1, <3>1 DEF MapInBlock, MapNewBlock, Held
    <3>2. ASSUME NEW size \in Sizes,
                 MapAtBase(c, size) \/ MapAnywhere(c, size) \/ MapImage(c, size)
          PROVE  Keeps
      BY <2>5, <3>2 DEF MapAtBase, MapAnywhere, Map, MapImage
    <3>3. ASSUME AllocStack(c) \/ \E r \in reserves : MapReserve(c, r)
          PROVE  Keeps
      BY <2>5, <3>3 DEF AllocStack, MapReserve
    <3> QED
      BY <2>6, <3>1, <3>2, <3>3 DEF MapStep
  <2>7. ASSUME ReserveStep \/ UNCHANGED vars
        PROVE  Keeps
    <3>1. UNCHANGED maps
      BY <2>7 DEF ReserveStep, ReserveTraps, ReservePeb, ReserveRange, AllocationsFrom,
         MapReservedRange, UnmapReservedRange, vars
    <3> QED
      BY <3>1 DEF Held
  <2> QED
    BY <1>1, <2>2, <2>3, <2>4, <2>6, <2>7 DEF Next, FreeStep
<1> QED
  BY <1>1, Invariance, PTL DEF Spec, LiveIsKept

\* mem_map_reserve maps the loader data of a PEB where alloc_peb reserved it.
THEOREM ReserveIsMappedInPlace == Spec => MappedWhereReserved
<1>1. ASSUME IInv, [Next]_vars
      PROVE  [\A r \in reserves \ reserves' : \E a \in Allocs :
                maps[a] = NoMap /\ maps'[a] # NoMap /\ PagesOf(maps'[a]) = PagesOf(r)]_vars
  <2>1. ASSUME NEW a \in Allocs, NEW r \in reserves, MapReserve(a, r)
        PROVE  maps[a] = NoMap /\ maps'[a] # NoMap /\ PagesOf(maps'[a]) = PagesOf(r)
    <3>1. PICK first \in 0 .. MaxPage :
            /\ SearchRange(UsedPages(reserves \ {r}), r.first, r.pages, first)
            /\ MapPages(a, r.pages, first)
      BY <2>1 DEF MapReserve
    <3>2. /\ r.first \in Nat /\ r.pages \in Nat /\ r.pages > 0 /\ r.kind = "peb"
          /\ first \in Nat /\ Reserved \in Nat /\ ReservedEnd \in Nat /\ Reserved < ReservedEnd
      BY <1>1, <2>1, AddressAssumption DEF IInv, TypeOK, Reserve, ReservesOK, MapReserve
    <3>3. PagesOf(r) \cap UsedPages(reserves \ {r}) = {} /\ PagesOf(r) \cap ReservedRange = {}
      BY <1>1, <3>2 DEF IInv, ReservesOK, ReservesUnmapped, UsedPages
    <3>4. IsFree(UsedPages(reserves \ {r}), r.first, r.pages)
      BY <3>3 DEF IsFree, PagesOf
    <3>5. ASSUME NEW p \in Nat, FreeRange(UsedPages(reserves \ {r}), r.first, r.pages, p)
          PROVE  p = r.first
      BY <3>2, <3>4, <3>5 DEF FreeRange, FirstFree
    <3>6. ~MeetsReserved(r.first, r.pages)
      <4>1. SUFFICES ASSUME r.first < ReservedEnd, r.first + r.pages > Reserved PROVE FALSE
        BY DEF MeetsReserved
      <4>2. CASE r.first >= Reserved
        BY <3>2, <3>3, <4>1, <4>2 DEF PagesOf, PageRange, ReservedRange
      <4>3. CASE r.first < Reserved
        <5>1. Reserved \in PagesOf(r)
          BY <3>2, <4>1, <4>3 DEF PagesOf, PageRange
        <5>2. Reserved \in ReservedRange
          BY <3>2 DEF ReservedRange
        <5> QED
          BY <3>3, <5>1, <5>2
      <4> QED
        BY <3>2, <4>2, <4>3
    <3>7. first = r.first
      BY <3>1, <3>2, <3>5, <3>6 DEF SearchRange
    <3>8. maps[a] = NoMap /\ maps'[a] = NewMap(r.first, r.pages, FALSE, 0, r.pages * PageSize)
      BY <1>1, <3>1, <3>7 DEF MapPages, IInv, TypeOK
    <3>9. PageSize \in Nat /\ r.pages * PageSize \in Nat
      BY <3>2, AddressAssumption
    <3>10. /\ NewMap(r.first, r.pages, FALSE, 0, r.pages * PageSize) \in MemMap
           /\ PagesOf(NewMap(r.first, r.pages, FALSE, 0, r.pages * PageSize)) = PagesOf(r)
      BY <3>2, <3>9 DEF NewMap, MemMap, PagesOf
    <3> QED
      BY <3>8, <3>10, NoMapAssumption
  <2>2. ASSUME NEW a \in Allocs, MapStep(a), ~ \E r \in reserves : MapReserve(a, r)
        PROVE  reserves \subseteq reserves'
    BY <2>2 DEF MapStep, MapInBlock, MapNewBlock, MapAtBase, MapAnywhere, Map, MapImage, AllocStack
  <2>3. ASSUME FreeStep \/ ReserveStep \/ UNCHANGED vars
        PROVE  reserves \subseteq reserves'
    BY <2>3 DEF FreeStep, MemFree, VirtualFree, DiscardModule, ReserveStep, ReserveTraps,
       ReservePeb, ReserveRange, AllocationsFrom, MapReservedRange, UnmapReservedRange, vars
  <2>4. ASSUME NEW a \in Allocs, NEW r \in reserves, MapReserve(a, r)
        PROVE  reserves \ reserves' \subseteq {r}
    BY <2>4 DEF MapReserve
  <2> QED
    BY <1>1, <2>1, <2>2, <2>3, <2>4 DEF Next
<1> QED
  BY <1>1, Invariance, PTL DEF Spec, MappedWhereReserved
-----------------------------------------------------------------------------

\* Induction over the natural numbers, for a set of numbers.
LEMMA PageInduction ==
  ASSUME NEW S, 0 \in S, \A i \in Nat : i \in S => i + 1 \in S
  PROVE  \A i \in Nat : i \in S
<1> DEFINE T == Nat \ S
           R == OpToRel(<, Nat)
<1>1. SUFFICES ASSUME T # {} PROVE FALSE
  OBVIOUS
<1>2. IsWellFoundedOn(R, Nat)
  BY NatLessThanWellFounded
<1>3. PICK x \in T : \A y \in T : ~ (<<y, x>> \in R)
  <2> HIDE DEF R, T
  <2>1. T \subseteq Nat BY DEF T
  <2> QED BY <1>1, <1>2, <2>1, WFMin
<1>4. x # 0 /\ x \in Nat
  OBVIOUS
<1>5. x - 1 \in T
  BY <1>4
<1>6. <<x - 1, x>> \in R
  BY <1>4 DEF OpToRel
<1> QED BY <1>3, <1>5, <1>6

-----------------------------------------------------------------------------
(* The loop. *)

\* Where the range starts when the loop passed the pages below i, from where it
\* started before the last of them.
BaseAt(f, start, n, i) ==
  IF i = 0 THEN start
  ELSE IF i - 1 \in UsedPages(reserves) THEN ScanPage(n, f[i - 1], i - 1)
  ELSE f[i - 1]
IsScan(f, start, n, last) == f = [i \in 0 .. last |-> BaseAt(f, start, n, i)]

\* The function that Scan is defined with exists.
LEMMA ScanExists ==
  ASSUME NEW start, NEW n, NEW last \in Nat
  PROVE  \E f : IsScan(f, start, n, last)
<1> DEFINE T == {k \in Nat : \E f : IsScan(f, start, n, k)}
<1>1. 0 \in T
  <2>1. IsScan([i \in 0 .. 0 |-> start], start, n, 0)
    BY DEF IsScan, BaseAt
  <2> QED BY <2>1
<1>2. ASSUME NEW k \in Nat, k \in T
      PROVE  k + 1 \in T
  <2>1. PICK f : IsScan(f, start, n, k)
    BY <1>2
  <2> DEFINE g == [i \in 0 .. k + 1 |-> IF i = k + 1 THEN BaseAt(f, start, n, k + 1) ELSE f[i]]
  <2>2. \A i \in 0 .. k : g[i] = f[i] /\ f[i] = BaseAt(f, start, n, i)
    BY <2>1 DEF IsScan
  <2>3. \A i \in 0 .. k + 1 : g[i] = BaseAt(g, start, n, i)
    <3> TAKE i \in 0 .. k + 1
    <3>1. BaseAt(g, start, n, i) = BaseAt(f, start, n, i)
      <4>1. CASE i = 0
        BY <4>1 DEF BaseAt
      <4>2. CASE i # 0
        <5>1. i - 1 \in 0 .. k
          BY <4>2
        <5>2. g[i - 1] = f[i - 1]
          BY <5>1, <2>2
        <5> HIDE DEF g
        <5> QED BY <4>2, <5>2 DEF BaseAt
      <4> QED BY <4>1, <4>2
    <3>2. g[i] = BaseAt(f, start, n, i)
      <4>1. CASE i = k + 1
        BY <4>1
      <4>2. CASE i \in 0 .. k
        BY <4>2, <2>2
      <4> QED BY <4>1, <4>2
    <3> HIDE DEF g
    <3> QED BY <3>1, <3>2
  <2>4. g = [i \in 0 .. k + 1 |-> BaseAt(g, start, n, i)]
    <3>1. g = [i \in 0 .. k + 1 |-> g[i]]
      OBVIOUS
    <3> HIDE DEF g
    <3> QED BY <3>1, <2>3
  <2>5. IsScan(g, start, n, k + 1)
    BY <2>4 DEF IsScan
  <2> QED BY <2>5
<1>3. \A k \in Nat : k \in T
  <2> HIDE DEF T
  <2> QED BY <1>1, <1>2, PageInduction
<1> QED BY <1>3

\* What the loop keeps: no range before base is free, and no page that it passed
\* is in the range at base.
Passed(used, start, n, i, base) ==
  /\ base \in Nat /\ base >= start
  /\ \A p \in start .. base - 1 : ~IsFree(used, p, n)
  /\ \A page \in used : page < i => page \notin PageRange(base, n)

\* One used page.
LEMMA ScanPageKeeps ==
  ASSUME NEW used \in SUBSET Nat, NEW start \in Nat, NEW n \in Nat, NEW i \in Nat, i \in used,
         NEW base, Passed(used, start, n, i, base)
  PROVE  Passed(used, start, n, i + 1, ScanPage(n, base, i))
<1>1. base \in Nat /\ base >= start
  BY DEF Passed
<1>2. CASE i >= base /\ i < base + n
  <2>1. ScanPage(n, base, i) = i + 1
    BY <1>2 DEF ScanPage
  <2>2. \A p \in base .. i : ~IsFree(used, p, n)
    <3> TAKE p \in base .. i
    <3>1. i \in PageRange(p, n)
      BY <1>1, <1>2 DEF PageRange
    <3> QED BY <3>1 DEF IsFree
  <2>3. \A p \in start .. i : ~IsFree(used, p, n)
    <3> TAKE p \in start .. i
    <3>1. p \in start .. base - 1 \/ p \in base .. i
      BY <1>1
    <3> QED BY <2>2, <3>1 DEF Passed
  <2>4. \A page \in used : page < i + 1 => page \notin PageRange(i + 1, n)
    BY DEF PageRange
  <2>5. i + 1 \in Nat /\ i + 1 >= start /\ (i + 1) - 1 = i
    BY <1>1, <1>2
  <2> QED BY <2>1, <2>3, <2>4, <2>5 DEF Passed
<1>3. CASE ~(i >= base /\ i < base + n)
  <2>1. ScanPage(n, base, i) = base
    BY <1>3 DEF ScanPage
  <2>2. i \notin PageRange(base, n)
    BY <1>1, <1>3 DEF PageRange
  <2>3. \A page \in used : page < i + 1 => page < i \/ page = i
    OBVIOUS
  <2> QED BY <2>1, <2>2, <2>3 DEF Passed
<1> QED BY <1>2, <1>3

\* The loop passes all the pages below PageBound.
LEMMA ScanPasses ==
  ASSUME NEW start \in Nat, NEW n \in Nat, UsedPages(reserves) \subseteq Nat
  PROVE  Passed(UsedPages(reserves), start, n, PageBound, Scan(start, n))
<1> DEFINE f == CHOOSE g : IsScan(g, start, n, PageBound)
           used == UsedPages(reserves)
           T == {i \in Nat : i <= PageBound => Passed(used, start, n, i, f[i])}
<1>0. PageBound \in Nat
  BY AddressAssumption DEF PageBound
<1>1. IsScan(f, start, n, PageBound)
  <2>1. \E g : IsScan(g, start, n, PageBound)
    BY <1>0, ScanExists
  <2> QED BY <2>1
<1>2. Scan(start, n) = f[PageBound]
  BY DEF Scan, IsScan, BaseAt
<1> HIDE DEF f
<1>3. \A i \in 0 .. PageBound : f[i] = BaseAt(f, start, n, i)
  BY <1>1 DEF IsScan
<1>4. 0 \in T
  <2>1. f[0] = start
    BY <1>0, <1>3 DEF BaseAt
  <2>2. Passed(used, start, n, 0, start)
    BY DEF Passed
  <2> QED BY <2>1, <2>2
<1>5. ASSUME NEW i \in Nat, i \in T
      PROVE  i + 1 \in T
  <2>1. SUFFICES ASSUME i + 1 <= PageBound
                 PROVE  Passed(used, start, n, i + 1, f[i + 1])
    OBVIOUS
  <2>2. Passed(used, start, n, i, f[i])
    BY <1>0, <1>5, <2>1
  <2>3. f[i + 1] = IF i \in used THEN ScanPage(n, f[i], i) ELSE f[i]
    <3>1. i + 1 \in 0 .. PageBound /\ (i + 1) - 1 = i /\ i + 1 # 0
      BY <1>0, <2>1
    <3>2. f[i + 1] = BaseAt(f, start, n, i + 1)
      BY <1>3, <3>1
    <3> QED BY <3>1, <3>2 DEF BaseAt
  <2>4. CASE i \in used
    <3> HIDE DEF used
    <3>1. used \in SUBSET Nat
      BY DEF used
    <3>2. Passed(used, start, n, i + 1, ScanPage(n, f[i], i))
      BY <2>2, <2>4, <3>1, ScanPageKeeps
    <3> QED BY <2>3, <2>4, <3>2
  <2>5. CASE i \notin used
    <3>1. \A page \in used : page < i + 1 => page < i
      BY <2>5
    <3> HIDE DEF used
    <3> QED BY <2>2, <2>3, <2>5, <3>1 DEF Passed
  <2> QED BY <2>4, <2>5
<1>6. PageBound \in T
  <2> HIDE DEF T
  <2> QED BY <1>0, <1>4, <1>5, PageInduction
<1> QED BY <1>0, <1>2, <1>6

-----------------------------------------------------------------------------
(* The pages that are used. *)

\* Every used page is below the bound of the loop.
BoundInv ==
  /\ \A p \in mapped : p < PageBound
  /\ \A r \in reserves : r.first + r.pages <= PageBound

\* A range that ends at MaxPage.
LEMMA RangeBelow ==
  ASSUME NEW first \in Nat, NEW n \in Nat, first + n <= MaxPage
  PROVE  /\ \A p \in PageRange(first, n) : p < PageBound
         /\ first + n <= PageBound /\ (first + n) + n <= PageBound
<1>1. MaxPage \in Nat /\ ReservedEnd \in Nat
  BY AddressAssumption
<1> QED BY <1>1 DEF PageRange, PageBound

\* mem_map of whole pages.
LEMMA MapPagesBound ==
  ASSUME BoundInv, NEW a \in Allocs, NEW n \in Nat, NEW first \in 0 .. MaxPage, MapPages(a, n, first)
  PROVE  \A p \in mapped' : p < PageBound
<1>1. first \in Nat
  BY AddressAssumption
<1>2. \A p \in PageRange(first, n) : p < PageBound
  BY <1>1, RangeBelow DEF MapPages
<1> QED BY <1>2 DEF MapPages, BoundInv

\* Every step keeps the used pages below the bound.
LEMMA BoundStep == TypeOK /\ BoundInv /\ [Next]_vars => BoundInv'
<1> SUFFICES ASSUME TypeOK, BoundInv, [Next]_vars
             PROVE  BoundInv'
  OBVIOUS
<1>a. /\ MaxPage \in Nat /\ ReservedEnd \in Nat /\ Reserved \in Nat /\ PageBound \in Nat
      /\ PebPages \in Nat /\ TrapPages \in Nat /\ StackPages \in Nat
      /\ \A size \in Sizes : PageCount(size) \in Nat
  BY AddressAssumption, PageCountPositive DEF PageBound
<1>b. reserves \subseteq Reserve
  BY DEF TypeOK
<1>c. ASSUME mapped' \subseteq mapped, reserves' = reserves
      PROVE  BoundInv'
  BY <1>c DEF BoundInv
<1>d. ASSUME \A p \in mapped' : p < PageBound, reserves' \subseteq reserves
      PROVE  BoundInv'
  BY <1>d DEF BoundInv
<1>1. ASSUME NEW a \in Allocs, NEW size \in Sizes, MapInBlock(a, size)
      PROVE  BoundInv'
  BY <1>1, <1>c DEF MapInBlock
<1>2. ASSUME NEW a \in Allocs, NEW size \in Sizes, MapNewBlock(a, size)
      PROVE  BoundInv'
  <2>1. PICK first \in 0 .. MaxPage - 1 : mapped' = mapped \cup {first}
    BY <1>2 DEF MapNewBlock
  <2>2. first < PageBound
    BY <1>a DEF PageBound
  <2>3. \A p \in mapped' : p < PageBound
    BY <2>1, <2>2 DEF BoundInv
  <2> QED BY <1>2, <1>d, <2>3 DEF MapNewBlock
<1>3. ASSUME NEW a \in Allocs, NEW size \in Sizes, NEW start, Map(a, size, start)
      PROVE  BoundInv'
  <2>1. PICK first \in 0 .. MaxPage : MapPages(a, PageCount(size), first)
    BY <1>3 DEF Map
  <2>2. \A p \in mapped' : p < PageBound
    BY <1>a, <2>1, MapPagesBound
  <2> QED BY <1>3, <1>d, <2>2 DEF Map
<1>4. ASSUME NEW a \in Allocs, NEW size \in Sizes, MapImage(a, size)
      PROVE  BoundInv'
  <2>1. PICK first \in 0 .. MaxPage : MapPages(a, PageCount(size), first)
    BY <1>4 DEF MapImage
  <2>2. \A p \in mapped' : p < PageBound
    BY <1>a, <2>1, MapPagesBound
  <2> QED BY <1>4, <1>d, <2>2 DEF MapImage
<1>5. ASSUME NEW a \in Allocs, AllocStack(a)
      PROVE  BoundInv'
  <2>1. PICK first \in 0 .. MaxPage :
          /\ MapPages(a, StackPages, first)
          /\ reserves' = reserves \cup
               {[first |-> first + StackPages, pages |-> StackPages, kind |-> "guard"]}
    BY <1>5 DEF AllocStack
  <2>2. \A p \in mapped' : p < PageBound
    BY <1>a, <2>1, MapPagesBound
  <2>3. first \in Nat /\ (first + StackPages) + StackPages <= PageBound
    BY <1>a, <2>1, RangeBelow DEF MapPages
  <2> QED BY <2>1, <2>2, <2>3 DEF BoundInv
<1>6. ASSUME NEW a \in Allocs, NEW r \in reserves, MapReserve(a, r)
      PROVE  BoundInv'
  <2>1. PICK first \in 0 .. MaxPage : MapPages(a, r.pages, first)
    BY <1>6 DEF MapReserve
  <2>2. r.pages \in Nat
    BY <1>b DEF Reserve
  <2>3. \A p \in mapped' : p < PageBound
    BY <2>1, <2>2, MapPagesBound
  <2> QED BY <1>6, <1>d, <2>3 DEF MapReserve
<1>7. ASSUME NEW a \in Allocs, MemFree(a)
      PROVE  BoundInv'
  BY <1>7, <1>c DEF MemFree
<1>8. ASSUME NEW a \in Allocs, VirtualFree(a)
      PROVE  BoundInv'
  BY <1>8, <1>c DEF VirtualFree
<1>9. ASSUME NEW page \in modules, DiscardModule(page)
      PROVE  BoundInv'
  BY <1>9, <1>c DEF DiscardModule
<1>10. ASSUME NEW kind, NEW start, NEW n \in Nat, ReserveRange(kind, start, n)
       PROVE  BoundInv'
  <2>1. PICK first \in 0 .. MaxPage :
          /\ first + n <= MaxPage
          /\ reserves' = reserves \cup {[first |-> first, pages |-> n, kind |-> kind]}
    BY <1>10 DEF ReserveRange
  <2>2. first \in Nat /\ first + n <= PageBound
    BY <1>a, <2>1, RangeBelow
  <2> DEFINE g == [first |-> first, pages |-> n, kind |-> kind]
  <2>3. g.first + g.pages <= PageBound
    BY <2>2
  <2>4. reserves' = reserves \cup {g} /\ mapped' = mapped
    BY <1>10, <2>1 DEF ReserveRange
  <2> HIDE DEF g
  <2> QED BY <2>3, <2>4 DEF BoundInv
<1>11. ASSUME NEW base, AllocationsFrom(base)
       PROVE  BoundInv'
  BY <1>11, <1>c DEF AllocationsFrom
<1>12. CASE MapReservedRange
  <2>1. \A p \in ReservedRange : p < PageBound
    BY <1>a DEF ReservedRange, PageBound
  <2> QED BY <1>12, <2>1 DEF MapReservedRange, BoundInv
<1>13. CASE UnmapReservedRange
  BY <1>13, <1>c DEF UnmapReservedRange
<1>14. CASE UNCHANGED vars
  BY <1>14, <1>c DEF vars
<1> QED
  BY <1>a, <1>1, <1>2, <1>3, <1>4, <1>5, <1>6, <1>7, <1>8, <1>9, <1>10, <1>11, <1>12, <1>13, <1>14
     DEF Next, MapStep, FreeStep, ReserveStep, MapAtBase, MapAnywhere, ReserveTraps, ReservePeb

\* Every used page is below the bound of the loop, in every state.
THEOREM UsedPagesAreBounded == Spec => []BoundInv
<1>1. Init => BoundInv
  BY DEF Init, BoundInv
<1> QED BY <1>1, BoundStep, TypeCorrect, PTL DEF Spec

\* Below the bound, the loop finds the first free range.
LEMMA ScanIsFirstFree ==
  ASSUME TypeOK, BoundInv, NEW start \in Nat, NEW n \in Nat
  PROVE  FirstFree(UsedPages(reserves), start, n, Scan(start, n))
<1>1. mapped \subseteq Nat /\ reserves \subseteq Reserve
  BY DEF TypeOK
<1>2. \A r \in reserves : \A p \in PagesOf(r) : p \in Nat /\ p < PageBound
  <2>1. PageBound \in Nat
    BY AddressAssumption DEF PageBound
  <2> TAKE r \in reserves
  <2>2. r.first \in Nat /\ r.pages \in Nat /\ r.first + r.pages <= PageBound
    BY <1>1 DEF Reserve, BoundInv
  <2> QED BY <2>1, <2>2 DEF PagesOf, PageRange
<1>3. UsedPages(reserves) \subseteq Nat /\ \A p \in UsedPages(reserves) : p < PageBound
  BY <1>1, <1>2 DEF UsedPages, BoundInv
<1>4. Passed(UsedPages(reserves), start, n, PageBound, Scan(start, n))
  BY <1>3, ScanPasses
<1>5. IsFree(UsedPages(reserves), Scan(start, n), n)
  BY <1>3, <1>4 DEF Passed, IsFree
<1> QED BY <1>4, <1>5 DEF Passed, FirstFree

\* get_valid_ranges finds the first free range, whatever is mapped and reserved:
\* no used page is in the range that its loop returns, and no earlier one is free.
THEOREM SearchFindsFirstFree == Spec => []ScanFindsFirstFree
<1>1. TypeOK /\ BoundInv => ScanFindsFirstFree
  <2> SUFFICES ASSUME TypeOK, BoundInv, NEW start \in Bases, NEW size \in Sizes
               PROVE  FirstFree(UsedPages(reserves), start, PageCount(size),
                                Scan(start, PageCount(size)))
    BY DEF ScanFindsFirstFree
  <2>1. start \in Nat /\ PageCount(size) \in Nat
    BY AddressAssumption, PageCountPositive
  <2> QED BY <2>1, ScanIsFirstFree
<1> QED BY <1>1, UsedPagesAreBounded, TypeCorrect, PTL

\* The first free range is the only one that the relation FirstFree allows, so a
\* step that picks a range by it picks the one that the loop returns.
ScanIsTheSearch ==
  \A start \in Nat, n \in Nat, first \in Nat :
    FirstFree(UsedPages(reserves), start, n, first) <=> first = Scan(start, n)

\* The model's search and the loop agree in every state, from every page and for
\* every size.
THEOREM SearchIsTheLoop == Spec => []ScanIsTheSearch
<1>1. TypeOK /\ BoundInv => ScanIsTheSearch
  <2> SUFFICES ASSUME TypeOK, BoundInv, NEW start \in Nat, NEW n \in Nat, NEW first \in Nat
               PROVE  FirstFree(UsedPages(reserves), start, n, first) <=> first = Scan(start, n)
    BY DEF ScanIsTheSearch
  <2> DEFINE used == UsedPages(reserves)
             s == Scan(start, n)
  <2>1. FirstFree(used, start, n, s)
    BY ScanIsFirstFree
  <2>2. s \in Nat
    <3>1. UsedPages(reserves) \subseteq Nat
      <4>1. \A r \in reserves : PagesOf(r) \subseteq Nat
        BY PageRangeNat DEF TypeOK, Reserve, PagesOf
      <4> QED BY <4>1 DEF TypeOK, UsedPages
    <3> QED BY <3>1, ScanPasses DEF Passed
  <2> HIDE DEF used, s
  <2>3. ASSUME FirstFree(used, start, n, first)
        PROVE  first = s
    BY <2>1, <2>2, <2>3 DEF FirstFree
  <2> QED BY <2>1, <2>3 DEF used, s
<1> QED BY <1>1, UsedPagesAreBounded, TypeCorrect, PTL
=============================================================================
