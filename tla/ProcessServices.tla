------------------------ MODULE ProcessServices ------------------------
(***************************************************************************)
(* Services of a process that keep state of their own: the heap functions, *)
(* thread and fiber local storage, local atoms, one-time initialization,   *)
(* COM initialization, vectored exception handlers, the clock, interlocked *)
(* words and the enumeration of resources.  They share no state, so each   *)
(* is a family of actions with one variable.                               *)
(*                                                                         *)
(* An address is a slot: the base of an allocation.  MemoryManager.tla has *)
(* the layout of allocations; here two slots share a block, and a slot is  *)
(* used again only after its block was unmapped.  Memory contents are not  *)
(* modelled.                                                               *)
(***************************************************************************)
EXTENDS Integers, Sequences, FiniteSets, Functions, SequencesExt

CONSTANTS MaxSlots,         \* bound on addresses
          MaxAllocs,        \* bound on heap_alloc calls of a behaviour
          MaxBytes,         \* bound on the size of a block
          Threads,          \* threads of the process
          TLS_SLOT_COUNT,   \* slots that TlsSetValue accepts
          MaxFls,           \* bound on FlsAlloc calls
          AtomNames,        \* strings that become atoms
          MaxAtoms,         \* bound on curr_local_atom and on the count of an atom
          MaxCount,         \* bound on nested CoInitialize calls
          MaxTicks,         \* bound on the clock
          Word,             \* number of values of an interlocked word, 2^32 in the code
          MaxIds            \* bound on the resources of a module

VARIABLES heap, asked,      \* the heap, and the size the guest asked for at each slot (history)
          local,            \* tls and fls of the threads
          atoms, adds,      \* local_atom_table, and the additions less the deletions of each string (history)
          once,             \* the state bits of an INIT_ONCE
          com,              \* com_init
          veh,              \* the handlers of the process
          clock, word,      \* tick_counter, and the word the interlocked functions change
          enum,             \* the resource enumeration in progress
          res               \* what the last call told the guest

vars == <<heap, asked, local, atoms, adds, once, com, veh, clock, word, enum, res>>

Slots == 1 .. MaxSlots
Bytes == 0 .. MaxBytes
None == -1

Init ==
  /\ \E keep \in BOOLEAN : heap = [maps |-> <<>>, allocs |-> <<>>, heaps |-> 0, keep |-> keep]
  /\ asked = [a \in Slots |-> None]
  /\ local = [tls |-> [t \in Threads |-> <<>>], fls |-> [t \in Threads |-> <<>>], tls_count |-> 0, fls_count |-> 0]
  /\ atoms = [table |-> <<>>, next |-> 1] /\ adds = [n \in AtomNames |-> 0]
  /\ once = 0
  /\ com = [t \in Threads |-> [count |-> 0, model |-> "none"]]
  /\ veh = <<>>
  /\ clock = [ticks |-> 0, ended |-> FALSE] /\ word = 0
  /\ enum = [left |-> 0, buffers |-> 0]
  /\ res = "none"

Tell(e) == res' = e

(***************************************************************************)
(* The heap.                                                               *)
(***************************************************************************)
OtherThanHeap == UNCHANGED <<local, atoms, adds, once, com, veh, clock, word, enum>>

Block(slot) == (slot + 1) \div 2
Mapped(h) == DOMAIN h.maps
Unmapped(h) == Slots \ Mapped(h)

\* A mapping is larger than the request, which is padded or rounded to pages.
mem_alloc(h, slot, tag, n) ==
  [h EXCEPT !.maps = [a \in DOMAIN @ \cup {slot} |->
                        IF a = slot THEN [tag |-> tag, size |-> n + 1, free |-> FALSE] ELSE @[a]]]

heap_alloc(h, slot, n) ==
  [mem_alloc(h, slot, "heap", n) EXCEPT !.allocs = Append(@, <<slot, n>>)]

\* The block goes when all its allocations are free; with keep_memory_on_free nothing goes.
mem_free(h, a) ==
  LET freed == [h EXCEPT !.maps[a].free = TRUE]
      gone == {b \in Mapped(h) : Block(b) = Block(a)}
  IN  IF a \notin Mapped(h) THEN h
      ELSE IF h.keep \/ \E b \in gone : ~freed.maps[b].free THEN freed
      ELSE [freed EXCEPT !.maps = Restrict(@, Mapped(h) \ gone)]

IsHeapBlock(h, a) == a \in Mapped(h) /\ ~h.maps[a].free /\ h.maps[a].tag = "heap"

Entries(h, a) == {i \in DOMAIN h.allocs : h.allocs[i][1] = a}

\* The list of allocations is never shortened: the newest entry of the address counts.
heap_size(h, a) ==
  IF ~IsHeapBlock(h, a) THEN None
  ELSE h.allocs[CHOOSE i \in Entries(h, a) : \A j \in Entries(h, a) : j <= i][2]

heap_free(h, a) == IF heap_size(h, a) = None THEN h ELSE mem_free(h, a)

Heap(h, e) == heap' = h /\ Tell(e) /\ UNCHANGED asked /\ OtherThanHeap
Fails(e) == Tell(e) /\ UNCHANGED <<heap, asked>> /\ OtherThanHeap

\* Allocates n bytes and goes on with Then; without room heap_alloc gives 0.
AllocThen(n, e, Then(_, _)) ==
  /\ Len(heap.allocs) < MaxAllocs
  /\ \/ \E slot \in Unmapped(heap) :
          /\ heap' = Then(heap_alloc(heap, slot, n), slot)
          /\ asked' = [asked EXCEPT ![slot] = n]
          /\ Tell(e) /\ OtherThanHeap
     \/ Unmapped(heap) = {} /\ Fails("null")

Alloc(n) == AllocThen(n, "address", LAMBDA h, slot : h)

GlobalAlloc(n) == Alloc(n)
LocalAlloc(n) == Alloc(n)
HeapAlloc(n) == Alloc(n)
GdipAlloc(n) == Alloc(n)

\* At least one byte.
CoTaskMemAlloc(n) == Alloc(IF n = 0 THEN 1 ELSE n)
IMalloc_Alloc(n) == CoTaskMemAlloc(n)

Size(a) == Fails(IF heap_size(heap, a) = None THEN "invalid" ELSE "size")
GlobalSize(a) == Size(a)
HeapSize(a) == Size(a)
RtlSizeHeap(a) == Size(a)
IMalloc_GetSize(a) == Size(a)
IMalloc_DidAlloc(a) == Size(a)

\* Heap blocks are mapped without flags, so that every handle is invalid.
GlobalFlags(a) == Fails("invalid")

\* The old block stays, and may be one that is free already; the tag of a BSTR is None.
HeapReAlloc(a, n) ==
  IF n = 0 \/ a \notin Mapped(heap) THEN Fails("null")
  ELSE IF heap.maps[a].tag = "none" THEN Fails("raises")
  ELSE IF heap.maps[a].tag # "heap" THEN Fails("null")
  ELSE Alloc(n)
LocalReAlloc(a, n) == HeapReAlloc(a, n)

\* The new block is made first, and goes again when there is no old one; without room the copy faults at
\* address 0.
CoTaskMemRealloc(a, n) ==
  IF a = 0 THEN CoTaskMemAlloc(n)
  ELSE IF n = 0 THEN Heap(heap_free(heap, a), "null")
  ELSE IF heap_size(heap, a) = None THEN AllocThen(n, "null", LAMBDA h, slot : heap_free(h, slot))
  ELSE IF Unmapped(heap) = {} THEN Fails("raises")
  ELSE AllocThen(n, "address", LAMBDA h, slot : heap_free(h, a))
IMalloc_Realloc(a, n) == CoTaskMemRealloc(a, n)

RtlReAllocateHeap(a, n, in_place) ==
  IF heap_size(heap, a) = None \/ in_place THEN Fails("null")
  ELSE AllocThen(n, "address", LAMBDA h, slot : heap_free(h, a))

Free(a) == IF heap_size(heap, a) = None THEN Fails("invalid") ELSE Heap(heap_free(heap, a), "freed")
HeapFree(a) == Free(a)
LocalFree(a) == Free(a)
GlobalFree(a) == Free(a)
CoTaskMemFree(a) == Free(a)
IMalloc_Free(a) == Free(a)

\* GdipFree frees any mapping.
GdipFree(a) == Heap(mem_free(heap, a), "freed")

Maps(tag, e) ==
  \/ \E slot \in Unmapped(heap) : Heap(mem_alloc(heap, slot, tag, 1), e)
  \/ Unmapped(heap) = {} /\ Fails("raises")

create_heap == \E slot \in Unmapped(heap) : Heap([mem_alloc(heap, slot, "emu", 1) EXCEPT !.heaps = slot], "address")
HeapCreate == create_heap
GetProcessHeap == IF heap.heaps = 0 THEN create_heap ELSE Fails("address")

GetEnvironmentStrings == Maps("environment", "address")
FreeEnvironmentStrings(a) ==
  IF a \in Mapped(heap) /\ heap.maps[a].tag = "environment" THEN Heap(mem_free(heap, a), "freed") ELSE Fails("freed")

\* SysFreeString only logs.
SysAllocString == Maps("none", "address")
SysFreeString(a) == Fails("freed")

\* These answer with the block they got, or with success.
LockAndUnlock == Fails("address")

(* The heap of the C run-time library.                                     *)

malloc(n) == Alloc(n)
free(a) == Heap(heap_free(heap, a), "freed")

\* A product that does not fit the pointer size gives no block.
calloc(n, over) == IF over THEN Fails("null") ELSE Alloc(n)

\* The newest block that ever had the address, else what is mapped from the address on.
get_block_size(h, a) ==
  IF Entries(h, a) # {} THEN h.allocs[CHOOSE i \in Entries(h, a) : \A j \in Entries(h, a) : j <= i][2]
  ELSE IF a \in Mapped(h) THEN h.maps[a].size ELSE 0

\* The new block may get the address of an old one that is free: then it is freed at once.
\* The copy faults when the old block has bytes and is not mapped.
realloc(a, n) ==
  IF a # 0 /\ n = 0 THEN Heap(heap_free(heap, a), "null")
  ELSE IF a # 0 /\ get_block_size(heap, a) > 0 /\ a \notin Mapped(heap) /\ \E slot \in Unmapped(heap) : slot # a
  THEN AllocThen(n, "raises", LAMBDA h, slot : IF slot = a THEN heap_free(h, a) ELSE h)
  ELSE AllocThen(n, "address", LAMBDA h, slot : heap_free(h, a))
_recalloc(a, n, over) == IF over THEN Fails("null") ELSE realloc(a, n)

malloc_crt(n, over) == malloc(n) \/ calloc(n, over)
realloc_crt(a, n) == realloc(a, n)

\* operator new gives at least one pointer, operator delete ignores null.
operator_new(n) == Alloc(IF n = 0 THEN 1 ELSE n)
operator_delete(a) == IF a = 0 THEN Fails("none") ELSE Heap(heap_free(heap, a), "freed")

\* A copy of a string in a new block; without room it is written to address 0.
NewText(n) == AllocThen(n, "address", LAMBDA h, slot : h)
_strdup(null, n) == IF null THEN Fails("null") ELSE NewText(n + 1)
_wcsdup(null, n) == IF null THEN Fails("null") ELSE NewText(n + 1)
getenv(found, n) == IF found THEN NewText(n + 1) ELSE Fails("null")
dupenv(null, found, n) == IF null THEN Fails("einval") ELSE IF found THEN NewText(n + 1) ELSE Fails("null")

_Cnd_init == NewText(1)
_Cnd_destroy(a) == IF a = 0 THEN Fails("none") ELSE Heap(heap_free(heap, a), "freed")

\* The copy of an exception owns a copy of the text if the source owned it.
std_exception_copy(owns, what) == IF owns /\ what THEN NewText(1) ELSE Fails("none")
std_exception_destroy(owns, a) == IF owns THEN Heap(heap_free(heap, a), "freed") ELSE Fails("none")

NextCrtHeap ==
  \/ _Cnd_init
  \/ \E n \in Bytes : malloc(n) \/ operator_new(n)
  \/ \E a \in 0 .. MaxSlots : free(a) \/ operator_delete(a) \/ _Cnd_destroy(a)
  \/ \E n \in Bytes, b \in BOOLEAN : calloc(n, b) \/ malloc_crt(n, b)
  \/ \E n \in {0}, b \in BOOLEAN : _strdup(b, n) \/ _wcsdup(b, n) \/ getenv(b, n)
  \/ \E b \in BOOLEAN, found \in BOOLEAN : dupenv(b, found, 0) \/ std_exception_copy(b, found)
  \/ \E a \in 0 .. MaxSlots, n \in Bytes : realloc(a, n) \/ realloc_crt(a, n)
  \/ \E a \in 0 .. MaxSlots, n \in Bytes, b \in BOOLEAN : _recalloc(a, n, b)
  \/ \E a \in Slots, b \in BOOLEAN : std_exception_destroy(b, a)

NextHeap ==
  \/ NextCrtHeap
  \/ HeapCreate \/ GetProcessHeap \/ GetEnvironmentStrings \/ SysAllocString \/ LockAndUnlock
  \/ \E n \in Bytes : GlobalAlloc(n) \/ LocalAlloc(n) \/ HeapAlloc(n) \/ GdipAlloc(n) \/ CoTaskMemAlloc(n) \/ IMalloc_Alloc(n)
  \/ \E a \in Slots : GlobalSize(a) \/ HeapSize(a) \/ RtlSizeHeap(a) \/ IMalloc_GetSize(a) \/ IMalloc_DidAlloc(a) \/ GlobalFlags(a)
  \/ \E a \in Slots : HeapFree(a) \/ LocalFree(a) \/ GlobalFree(a) \/ CoTaskMemFree(a) \/ IMalloc_Free(a) \/ GdipFree(a)
  \/ \E a \in Slots : FreeEnvironmentStrings(a) \/ SysFreeString(a)
  \/ \E a \in 0 .. MaxSlots, n \in Bytes : HeapReAlloc(a, n) \/ LocalReAlloc(a, n) \/ CoTaskMemRealloc(a, n) \/ IMalloc_Realloc(a, n)
  \/ \E a \in Slots, n \in Bytes, b \in BOOLEAN : RtlReAllocateHeap(a, n, b)

(***************************************************************************)
(* Thread and fiber local storage of the current thread t; 0 and 1 are the *)
(* values.                                                                 *)
(***************************************************************************)
Local(l, e) ==
  /\ local' = l /\ Tell(e)
  /\ UNCHANGED <<heap, asked, atoms, adds, once, com, veh, clock, word, enum>>

\* A list made longer with zeros up to n entries.
Extended(s, n) == s \o [i \in 1 .. (n - Len(s)) |-> 0]

\* The count has no limit.
TlsAlloc(t) ==
  /\ local.tls_count <= TLS_SLOT_COUNT
  /\ Local([local EXCEPT !.tls_count = @ + 1, !.tls[t] = Extended(@, local.tls_count + 1)], "index")

TlsSetValue(t, i, v) ==
  IF i < TLS_SLOT_COUNT
  THEN Local([local EXCEPT !.tls[t] = [Extended(@, i + 1) EXCEPT ![i + 1] = v]], "set")
  ELSE Local(local, "invalid")

TlsGetValue(t, i) ==
  Local(local, IF i >= TLS_SLOT_COUNT THEN "invalid" ELSE IF i < Len(local.tls[t]) /\ local.tls[t][i + 1] = 1 THEN "one" ELSE "zero")

FlsAlloc == local.fls_count < MaxFls /\ Local([local EXCEPT !.fls_count = @ + 1], "index")

\* Index 0 is valid before the first FlsAlloc.
FlsValid(i) == i < (IF local.fls_count = 0 THEN 1 ELSE local.fls_count)
FlsSetValue(t, i, v) ==
  IF FlsValid(i)
  THEN Local([local EXCEPT !.fls[t] = [Extended(@, i + 1) EXCEPT ![i + 1] = v]], "set")
  ELSE Local(local, "invalid")

FlsGetValue(t, i) ==
  Local(local, IF ~FlsValid(i) THEN "invalid" ELSE IF i < Len(local.fls[t]) /\ local.fls[t][i + 1] = 1 THEN "one" ELSE "zero")
FlsGetValue2(t, i) == Local(local, IF i < Len(local.fls[t]) /\ local.fls[t][i + 1] = 1 THEN "one" ELSE "zero")

\* An index is never free again.
FlsFreeTlsFree == Local(local, "freed")

NextLocal ==
  \/ FlsAlloc \/ FlsFreeTlsFree
  \/ \E t \in Threads : TlsAlloc(t)
  \/ \E t \in Threads, i \in 0 .. TLS_SLOT_COUNT, v \in 0 .. 1 : TlsSetValue(t, i, v) \/ FlsSetValue(t, i, v)
  \/ \E t \in Threads, i \in 0 .. TLS_SLOT_COUNT : TlsGetValue(t, i) \/ FlsGetValue(t, i) \/ FlsGetValue2(t, i)

(***************************************************************************)
(* Local atoms.  The strings "" and "#n" of AddAtom do not reach the       *)
(* table.                                                                  *)
(***************************************************************************)
Atoms(s, e) == atoms' = s /\ Tell(e) /\ UNCHANGED <<heap, asked, local, once, com, veh, clock, word, enum>>
AtomFails(e) == Atoms(atoms, e) /\ UNCHANGED adds

Named(s, n) == {a \in DOMAIN s.table : s.table[a].name = n}
find_local_atom(s, n) == IF Named(s, n) = {} THEN 0 ELSE CHOOSE a \in Named(s, n) : TRUE
get_local_atom(s, n) == find_local_atom(s, n)
get_local_atom_name(s, a) == s.table[a].name

\* An atom number is never used again.
add_local_atom(s, n) ==
  LET a == get_local_atom(s, n)
  IN  IF a = 0
      THEN [table |-> [b \in DOMAIN s.table \cup {s.next} |-> IF b = s.next THEN [name |-> n, cnt |-> 1] ELSE s.table[b]],
            next |-> s.next + 1]
      ELSE [s EXCEPT !.table[a].cnt = @ + 1]

delete_local_atom(s, a) ==
  IF s.table[a].cnt = 1 THEN [s EXCEPT !.table = Restrict(@, DOMAIN @ \ {a})]
  ELSE [s EXCEPT !.table[a].cnt = @ - 1]

AddAtom(n) ==
  \/ /\ adds[n] < MaxAtoms /\ atoms.next <= MaxAtoms
     /\ Atoms(add_local_atom(atoms, n), "atom") /\ adds' = [adds EXCEPT ![n] = @ + 1]
  \/ AtomFails("invalid") \/ AtomFails("integer")

FindAtom(n) == AtomFails(IF find_local_atom(atoms, n) = 0 THEN "notfound" ELSE "atom")
GetAtomName(a) == AtomFails(IF a \in DOMAIN atoms.table THEN "name" ELSE "notfound")

DeleteAtom(a) ==
  IF a \in DOMAIN atoms.table
  THEN Atoms(delete_local_atom(atoms, a), "deleted") /\ adds' = [adds EXCEPT ![get_local_atom_name(atoms, a)] = @ - 1]
  ELSE AtomFails("handle")

\* Global atoms are not kept.
GlobalAddAtomA == AtomFails("atom")

NextAtoms ==
  \/ GlobalAddAtomA
  \/ \E n \in AtomNames : AddAtom(n) \/ FindAtom(n)
  \/ \E a \in 1 .. MaxAtoms : GetAtomName(a) \/ DeleteAtom(a)

(***************************************************************************)
(* One-time initialization: 0 new, 1 pending, 3 pending and asynchronous,  *)
(* 2 complete.                                                             *)
(***************************************************************************)
Once(s, e) == once' = s /\ Tell(e) /\ UNCHANGED <<heap, asked, local, atoms, adds, com, veh, clock, word, enum>>

InitOnceBeginInitialize(async, check_only) ==
  IF once = 2 THEN Once(once, "complete")
  ELSE IF check_only \/ (once = 1 /\ async) \/ (once = 3 /\ ~async) THEN Once(once, "failed")
  ELSE Once(IF async THEN 3 ELSE 1, "pending")

InitOnceComplete(failed, aligned) ==
  IF ~aligned \/ once \notin {1, 3} THEN Once(once, "failed") ELSE Once(IF failed THEN 0 ELSE 2, "done")

\* Complete before the callback runs, and whatever the callback returns.
InitOnceExecuteOnce == Once(2, IF once = 2 THEN "complete" ELSE "callback")

NextOnce ==
  \/ InitOnceExecuteOnce
  \/ \E a \in BOOLEAN, b \in BOOLEAN : InitOnceBeginInitialize(a, b) \/ InitOnceComplete(a, b)

(***************************************************************************)
(* COM initialization of a thread.                                         *)
(***************************************************************************)
Com(c, e) == com' = c /\ Tell(e) /\ UNCHANGED <<heap, asked, local, atoms, adds, once, veh, clock, word, enum>>

co_initialize(t, model) ==
  IF com[t].count > 0 /\ com[t].model # model THEN Com(com, "changed_mode")
  ELSE /\ com[t].count < MaxCount
       /\ Com([com EXCEPT ![t] = [count |-> @.count + 1, model |-> model]], IF com[t].count > 0 THEN "false" ELSE "ok")

co_uninitialize(t) ==
  Com([com EXCEPT ![t] = IF @.count > 1 THEN [@ EXCEPT !.count = @ - 1] ELSE [count |-> 0, model |-> "none"]], "ok")

CoInitialize(t) == co_initialize(t, "apartment")
CoInitializeEx(t, model) == co_initialize(t, model)
OleInitialize(t) == co_initialize(t, "apartment")
CoUninitialize(t) == co_uninitialize(t)
OleUninitialize(t) == co_uninitialize(t)

NextCom ==
  \E t \in Threads :
    CoInitialize(t) \/ OleInitialize(t) \/ CoUninitialize(t) \/ OleUninitialize(t)
    \/ \E m \in {"apartment", "multi"} : CoInitializeEx(t, m)

(***************************************************************************)
(* Vectored exception handlers; the guest's handlers are 1 and 2.          *)
(***************************************************************************)
Handlers(v, e) == veh' = v /\ Tell(e) /\ UNCHANGED <<heap, asked, local, atoms, adds, once, com, clock, word, enum>>

\* A handler that is in the list is not added again, and keeps its place.
add_vectored_exception_handler(first, h) ==
  IF h \in Range(veh) THEN veh ELSE IF first THEN <<h>> \o veh ELSE Append(veh, h)
remove_vectored_exception_handler(h) == SelectSeq(veh, LAMBDA x : x # h)

AddVectoredExceptionHandler(first, h) == Handlers(add_vectored_exception_handler(first, h), "handler")
RtlAddVectoredExceptionHandler(first, h) == AddVectoredExceptionHandler(first, h)
AddVectoredContinueHandler == Handlers(veh, "handler")
RemoveVectoredExceptionHandler(h) ==
  IF h \notin Range(veh) THEN Handlers(veh, "null") ELSE Handlers(remove_vectored_exception_handler(h), "removed")
RtlRemoveVectoredExceptionHandler(h) == Handlers(remove_vectored_exception_handler(h), "handler")

NextHandlers ==
  \/ AddVectoredContinueHandler
  \/ \E h \in 1 .. 2 : RemoveVectoredExceptionHandler(h) \/ RtlRemoveVectoredExceptionHandler(h)
  \/ \E h \in 1 .. 2, first \in BOOLEAN : AddVectoredExceptionHandler(first, h) \/ RtlAddVectoredExceptionHandler(first, h)

(***************************************************************************)
(* The clock, which only calls move, and interlocked words.                *)
(***************************************************************************)
Clock(c, e) == clock' = c /\ Tell(e) /\ UNCHANGED <<heap, asked, local, atoms, adds, once, com, veh, word, enum>>
Ticks(n, e) == clock.ticks + n <= MaxTicks /\ Clock([clock EXCEPT !.ticks = @ + n], e)

get_tick_count == Ticks(1, "time")
get_performance_counter == Ticks(1, "time")
get_system_time == get_tick_count
advance_clock(ms, e) == Ticks(ms, e)

GetTickCount == Ticks(20, "time")
GetTickCount64 == Ticks(20, "time")
GetSystemTimeAsFileTime == get_system_time
GetSystemTime == get_system_time
GetSystemTimePreciseAsFileTime == get_system_time
QueryPerformanceCounter == get_performance_counter
GetSystemTimes == Clock(clock, "time")

\* An infinite sleep returns at once.
Sleep(ms, infinite) == IF infinite THEN Clock(clock, "none") ELSE advance_clock(ms, "none")

\* An infinite wait on a word that has the value ends the run.
WaitOnAddress(size, equal, ms, infinite) ==
  IF ~size THEN Clock(clock, "invalid")
  ELSE IF ~equal THEN Clock(clock, "true")
  ELSE IF infinite THEN Clock([clock EXCEPT !.ended = TRUE], "true")
  ELSE advance_clock(ms, "timeout")

(* The time of the C run-time library: a time in memory is `good` when it is neither negative nor out of *)
(* range for the calendar.                                                                                 *)
get_clock_ticks == get_system_time
time == get_clock_ticks
write_struct_tm(null, good) == Clock(clock, IF null \/ ~good THEN "null" ELSE "buffer")
write_struct_tm_s(null, timer, good) ==
  Clock(clock, IF null THEN "einval" ELSE IF timer /\ good THEN "zero" ELSE "minus one, einval")
localtime(null, good) == write_struct_tm(null, good)
gmtime(null, good) == write_struct_tm(null, good)
make_time(good) == Clock(clock, IF good THEN "time" ELSE "minus one")
_strtime(null) == IF null THEN Clock(clock, "null") ELSE get_clock_ticks
_strdate(null) == IF null THEN Clock(clock, "null") ELSE get_clock_ticks
_Xtime_get_ticks == get_clock_ticks

\* A wait with a deadline lets the other runs go first; alone, it moves the clock to the deadline.
_Cnd_timedwait(others, left) ==
  IF others THEN Clock(clock, "success")
  ELSE Ticks(1 + left, "timedout")

NextCrtTime ==
  \/ time \/ _Xtime_get_ticks
  \/ \E b \in BOOLEAN : make_time(b) \/ _strtime(b) \/ _strdate(b)
  \/ \E b \in BOOLEAN, good \in BOOLEAN : localtime(b, good) \/ gmtime(b, good)
  \/ \E b \in BOOLEAN, timer \in BOOLEAN, good \in BOOLEAN : write_struct_tm_s(b, timer, good)
  \/ \E b \in BOOLEAN, left \in 0 .. 2 : _Cnd_timedwait(b, left)

Interlocked(w, e) == word' = w /\ Tell(e) /\ UNCHANGED <<heap, asked, local, atoms, adds, once, com, veh, clock, enum>>
InterlockedIncrement == Interlocked((word + 1) % Word, "word")
InterlockedDecrement == Interlocked((word + Word - 1) % Word, "word")
InterlockedExchangeAdd(v) == Interlocked((word + v) % Word, "word")
InterlockedCompareExchange(v, cmp) == Interlocked(IF word = cmp THEN v ELSE word, "word")
InterlockedExchange(v) == Interlocked(v, "word")

NextClock ==
  /\ ~clock.ended
  /\ \/ NextCrtTime
     \/ GetTickCount \/ GetTickCount64 \/ GetSystemTimeAsFileTime \/ GetSystemTime \/ GetSystemTimePreciseAsFileTime
     \/ QueryPerformanceCounter \/ GetSystemTimes \/ InterlockedIncrement \/ InterlockedDecrement
     \/ \E ms \in 0 .. 2, b \in BOOLEAN : Sleep(ms, b)
     \/ \E size \in BOOLEAN, eq \in BOOLEAN, ms \in 0 .. 2, b \in BOOLEAN : WaitOnAddress(size, eq, ms, b)
     \/ \E v \in 0 .. (Word - 1) : InterlockedExchangeAdd(v) \/ InterlockedExchange(v)
     \/ \E v \in 0 .. (Word - 1), cmp \in 0 .. (Word - 1) : InterlockedCompareExchange(v, cmp)

(***************************************************************************)
(* Resources.  A handle of a module is right, points into a module, or to  *)
(* none; the resources of the module are counted.                          *)
(***************************************************************************)
Enum(s, e) == enum' = s /\ Tell(e) /\ UNCHANGED <<heap, asked, local, atoms, adds, once, com, veh, clock, word>>

Modules == {"main", "base", "inside", "unknown"}
IsModule(m) == m \in {"main", "base"}
find_resource(type, name) == type /\ name

FindResource(m, type, name) == Enum(enum, IF IsModule(m) /\ find_resource(type, name) THEN "entry" ELSE "null")
FindResourceEx(m, type, name) == FindResource(m, type, name)
LdrFindResource_U(m, type, name) ==
  Enum(enum, IF ~IsModule(m) THEN "handle" ELSE IF find_resource(type, name) THEN "entry" ELSE "notfound")
LoadResource(m) == Enum(enum, IF IsModule(m) THEN "data" ELSE "null")
\* SizeofResource reads the entry of the resource, and does not look at the module.
SizeofResource(entry) == Enum(enum, IF entry THEN "size" ELSE "null")
LdrAccessResource(entry) == Enum(enum, IF entry THEN "data" ELSE "invalid")
LockAndFreeResource == Enum(enum, "data")

get_resources(m, any, type, name) ==
  IF ~IsModule(m) \/ ~any THEN "nodata" ELSE IF ~type THEN "notype" ELSE IF ~name THEN "noname" ELSE "found"

\* The first call of the guest function, with a buffer for the name of a named resource.
EnumStart(m, any, type, name, ids, named) ==
  LET r == get_resources(m, any, type, name)
  IN  /\ enum.left = 0
      /\ IF r # "found" THEN Enum(enum, r)
         ELSE IF ids = 0 THEN Enum(enum, "true")
         ELSE Enum([left |-> ids, buffers |-> enum.buffers + (IF named THEN 1 ELSE 0)], "call")
EnumResourceTypes(m, any, ids, named) == EnumStart(m, any, TRUE, TRUE, ids, named)
EnumResourceNames(m, any, type, ids, named) == EnumStart(m, any, type, TRUE, ids, named)
EnumResourceLanguages(m, any, type, name, ids) == EnumStart(m, any, type, name, ids, FALSE)

\* The guest function returned: its buffer goes, and a false result stops.
enum_resources(go, named) ==
  IF ~go THEN Enum([left |-> 0, buffers |-> 0], "stopped")
  ELSE IF enum.left = 1 THEN Enum([left |-> 0, buffers |-> 0], "true")
  ELSE Enum([left |-> enum.left - 1, buffers |-> IF named THEN 1 ELSE 0], "call")

EnumReturns(go, named) == enum.left > 0 /\ enum_resources(go, named)

\* The run ends in the guest function; the generator is closed and its finally clause frees the buffer.
EnumEnds == enum.left > 0 /\ Enum([left |-> 0, buffers |-> 0], "none")

NextResources ==
  \/ EnumEnds \/ LockAndFreeResource
  \/ \E m \in Modules : LoadResource(m)
  \/ \E b \in BOOLEAN : SizeofResource(b) \/ LdrAccessResource(b)
  \/ \E m \in Modules, type \in BOOLEAN, name \in BOOLEAN :
       FindResource(m, type, name) \/ FindResourceEx(m, type, name) \/ LdrFindResource_U(m, type, name)
  \/ \E m \in Modules, any \in BOOLEAN, type \in BOOLEAN, b \in BOOLEAN, ids \in 0 .. MaxIds :
       EnumResourceTypes(m, any, ids, b) \/ EnumResourceNames(m, any, type, ids, b) \/ EnumResourceLanguages(m, any, type, b, ids)
  \/ \E go \in BOOLEAN, named \in BOOLEAN : EnumReturns(go, named)

Next ==
  \/ NextHeap \/ NextLocal \/ NextAtoms \/ NextOnce \/ NextCom \/ NextHandlers \/ NextClock \/ NextResources

Spec == Init /\ [][Next]_vars

(***************************************************************************)
(* Properties.                                                             *)
(***************************************************************************)
TypeOK ==
  /\ Mapped(heap) \subseteq Slots /\ Len(heap.allocs) <= MaxAllocs
  /\ \A t \in Threads : Len(local.tls[t]) <= TLS_SLOT_COUNT + 2 /\ Len(local.fls[t]) <= MaxFls + 1
  /\ once \in 0 .. 3
  /\ \A t \in Threads : com[t].count = 0 <=> com[t].model = "none"
  /\ IsInjective(veh) /\ Range(veh) \subseteq 1 .. 2
  /\ clock.ticks \in 0 .. MaxTicks /\ word \in 0 .. (Word - 1)

\* The size of a live heap block is the size that the guest asked for, when the address had other blocks
\* before and frees and reallocations of all the families came between (heap_alloc, heap_size, heap_free).
HeapSizeIsRequested == \A a \in Slots : IsHeapBlock(heap, a) => heap_size(heap, a) = asked[a]

\* A string has one atom, while it was added more often than its atom was deleted
\* (add_local_atom, delete_local_atom).
AtomsAreCounted ==
  /\ \A n \in AtomNames : Cardinality(Named(atoms, n)) <= 1 /\ (adds[n] > 0 <=> Named(atoms, n) # {})
  /\ \A a \in DOMAIN atoms.table : atoms.table[a].cnt = adds[atoms.table[a].name]

\* No call undoes a complete initialization: its data may be in use (InitOnceComplete).
CompleteIsFinal == [][once = 2 => once' = 2]_vars

\* The buffer of a resource name lives only for the call of the guest function (enum_resources).
NoEnumBufferLeft == enum.left = 0 => enum.buffers = 0
========================================================================
