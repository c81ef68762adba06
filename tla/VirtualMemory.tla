------------------------- MODULE VirtualMemory -------------------------
(***************************************************************************)
(* The memory functions that the guest calls (VirtualAlloc, VirtualProtect,*)
(* VirtualFree, VirtualQuery and their Ex forms in kernel32.py), the guard *)
(* pages of winemu.py and the hook of accesses that the engine refuses.    *)
(*                                                                         *)
(* An address is a page, so sizes are whole pages: VirtualProtect rounds   *)
(* its size and not the end of its range, which makes a difference only    *)
(* for addresses that are not aligned.  A protection is the permission of  *)
(* the engine with the PAGE_GUARD flag.  The guest runs in user mode.      *)
(***************************************************************************)
EXTENDS Integers, Sequences, FiniteSets, FiniteSetsExt, Functions

CONSTANTS NumPages,     \* pages that can be mapped; the address limit
          virtual_mem_base,
          MaxMaps,      \* bound on the allocations of a behaviour
          MaxPages,     \* bound on the pages of a call
          Reserved,     \* pages that the emulator has reserved
          Perms         \* permissions that a call asks for, of "none", "ro" and "rwx"

VARIABLES maps,         \* the MemMaps, in the order they were made
          perm,         \* permission of the mapped pages in the engine
          guard_pages,  \* the guarded pages, with the permission they have without the guard
          raised,       \* the guard page of the exception that the run loop has to dispatch
          asked,        \* history: protection that the guest last asked for, per page
          res           \* what the last call or access told the guest

vars == <<maps, perm, guard_pages, raised, asked, res>>

Pages == 0 .. (NumPages - 1)
Protections == [perm : Perms, guard : BOOLEAN]
Processes == {"current", "other", "bad"}
NoPage == -1
Free == [perm |-> "free", guard |-> FALSE]
Nothing == [page |-> NoPage, perms |-> "none"]

Span(base, size) == base .. (base + size - 1)
PagesOf(m) == Span(m.base, m.size)

\* The first allocation with the address; freed ones are found too.
get_address_map(a) ==
  LET found == {i \in DOMAIN maps : a \in PagesOf(maps[i])} IN IF found = {} THEN 0 ELSE Min(found)

get_first_unmapped(a, size) ==
  LET out == Span(a, size) \ DOMAIN perm IN IF out = {} THEN a ELSE Min(out)

\* The first range of free pages at or after an address, NoPage when there is none below the limit.
get_valid_ranges(a, size) ==
  LET fits == {b \in a .. (NumPages - size) : Span(b, size) \cap (DOMAIN perm \cup Reserved) = {}}
  IN  IF fits = {} THEN NoPage ELSE Min(fits)

(***************************************************************************)
(* Guard pages.  A state here is [perm, guard_pages].                      *)
(***************************************************************************)
mem_protect(s, pages, p) ==
  [s EXCEPT !.perm = [x \in DOMAIN @ |-> IF x \in pages THEN p ELSE @[x]]]

\* The guard keeps the permission that it hides, and the engine refuses every access.
set_guard_pages(s, pages, p) ==
  mem_protect([s EXCEPT !.guard = [x \in pages \cup DOMAIN @ |-> IF x \in pages THEN p ELSE @[x]]], pages, "none")

clear_guard_pages(s, pages) == [s EXCEPT !.guard = Restrict(@, DOMAIN @ \ pages)]

Now == [perm |-> perm, guard |-> guard_pages]

Protected(s, pages, prot) ==
  LET t == mem_protect(clear_guard_pages(s, pages), pages, prot.perm)
  IN  IF prot.guard THEN set_guard_pages(t, pages, prot.perm) ELSE t

Becomes(s) == perm' = s.perm /\ guard_pages' = s.guard
Asks(pages, prot) == asked' = [x \in Pages |-> IF x \in pages THEN prot ELSE asked[x]]

Init ==
  /\ maps = <<>> /\ perm = <<>> /\ guard_pages = <<>> /\ raised = Nothing
  /\ asked = [x \in Pages |-> Free]
  /\ res = "none"

Fails(e) == res' = e /\ UNCHANGED <<maps, perm, guard_pages, raised, asked>>

(***************************************************************************)
(* VirtualAlloc.                                                           *)
(***************************************************************************)
\* Mutant of commit_pages: the old guards stay.
commit_pagesKeepsGuard(m, a, size, prot) ==
  LET pages == Span(a, size) \cap PagesOf(m)
      t == mem_protect(Now, pages, prot.perm)
  IN  /\ Becomes(IF prot.guard THEN set_guard_pages(t, pages, prot.perm) ELSE t)
      /\ Asks(pages, prot) /\ res' = "address" /\ UNCHANGED <<maps, raised>>

\* The part of the range in the allocation; its old guards go.
commit_pages(m, a, size, prot) ==
  LET pages == Span(a, size) \cap PagesOf(m)
  IN  /\ Becomes(Protected(Now, pages, prot))
      /\ Asks(pages, prot) /\ res' = "address" /\ UNCHANGED <<maps, raised>>

\* A new allocation; only the current process gets guard pages.
Map(base, size, prot, tag, guards) ==
  LET pages == Span(base, size)
      mapped == [perm |-> [x \in pages \cup DOMAIN perm |-> IF x \in pages THEN prot.perm ELSE perm[x]],
                 guard |-> guard_pages]
      p == [prot EXCEPT !.guard = @ /\ guards]
  IN  /\ Len(maps) < MaxMaps
      /\ maps' = Append(maps, [base |-> base, size |-> size, tag |-> tag, free |-> FALSE])
      /\ Becomes(IF p.guard THEN set_guard_pages(mapped, pages, p.perm) ELSE mapped)
      /\ Asks(pages, p) /\ res' = "address" /\ UNCHANGED raised

IsTagged(a, tag) == get_address_map(a) # 0 /\ maps[get_address_map(a)].tag = tag

\* a is NoPage for an allocation at any address.  An allocation that was freed can be committed again.
VirtualAlloc(a, size, commit, prot) ==
  LET base == get_valid_ranges(IF a = NoPage THEN virtual_mem_base ELSE a, size)
  IN  IF a # NoPage /\ IsTagged(a, "VirtualAlloc")
      THEN IF commit THEN commit_pages(maps[get_address_map(a)], a, size, prot) ELSE Fails("address")
      ELSE IF base = NoPage THEN Fails("nomemory")
      ELSE IF a # NoPage /\ base # a THEN Fails("badaddress")
      ELSE Map(base, size, prot, "VirtualAlloc", TRUE)

\* Another address than the one asked for is no error here, and too little memory raises OutOfMemoryError.
VirtualAllocEx(process, a, size, commit, prot) ==
  LET base == get_valid_ranges(IF a = NoPage THEN virtual_mem_base ELSE a, size)
  IN  IF process = "bad" THEN Fails("handle")
      ELSE IF a # NoPage /\ IsTagged(a, process)
      THEN IF commit THEN commit_pages(maps[get_address_map(a)], a, size, prot) ELSE Fails("address")
      ELSE IF base = NoPage THEN Fails("raises")
      ELSE Map(base, size, prot, process, process = "current")
VirtualAllocExNuma(process, a, size, commit, prot) == VirtualAllocEx(process, a, size, commit, prot)

(***************************************************************************)
(* VirtualProtect, VirtualFree.                                            *)
(***************************************************************************)
\* The range may go over several allocations.  The old protection is always that of the VirtualAlloc of the
\* first of them, with the guard flag of the first page: it is written for the guest and not kept.
VirtualProtect(a, size, prot, old) ==
  LET i == get_address_map(a)
  IN  IF i = 0 \/ ~old THEN Fails("false")
      ELSE IF get_first_unmapped(a, size) # a THEN Fails("badaddress")
      ELSE /\ Becomes(Protected(Now, Span(a, size), prot))
           /\ Asks(Span(a, size), prot) /\ res' = "true" /\ UNCHANGED <<maps, raised>>

VirtualProtectEx(process, a, size, prot, old) ==
  IF process = "bad" THEN Fails("handle") ELSE VirtualProtect(a, size, prot, old)

\* Size 0 is the whole allocation; the engine keeps the pages mapped, with the permission they had.
VirtualFree(a, size) ==
  LET found == {i \in DOMAIN maps : maps[i].base = a}
      m == maps[Min(found)]
      pages == Span(a, IF size = 0 THEN m.size ELSE size)
  IN  IF found = {} THEN Fails("true")
      ELSE /\ size <= m.size
           /\ maps' = [maps EXCEPT ![Min(found)].free = TRUE]
           /\ Becomes(clear_guard_pages(Now, pages))
           /\ Asks(pages, Free) /\ res' = "true" /\ UNCHANGED raised

(***************************************************************************)
(* Queries.                                                                *)
(***************************************************************************)
VirtualQuery(a, buffer) ==
  Fails(IF ~buffer THEN "invalid"
        ELSE IF get_address_map(a) = 0 THEN (IF a \in Reserved THEN "reserve" ELSE "free")
        ELSE IF a \in DOMAIN guard_pages THEN "guard" ELSE perm[a])
VirtualQueryEx(process, a, buffer) == IF process = "bad" THEN Fails("handle") ELSE VirtualQuery(a, buffer)

is_address_valid(a) == get_address_map(a) # 0 \/ a \in Reserved

\* Only the two ends of the range are looked at, and not the permission.
IsBadReadPtr(a, size) ==
  Fails(IF size > 0 /\ is_address_valid(a) /\ is_address_valid(a + size - 1) THEN "good" ELSE "bad")
IsBadWritePtr(a, size) == IsBadReadPtr(a, size)

\* The terminator is in the last page of the range or after it.
IsBadStringPtr(a, size) ==
  Fails(IF \A x \in Span(a, size) : is_address_valid(x) THEN "good" ELSE "bad")

\* A read by the emulator fails only where nothing is mapped: the engine's read of a page without permission
\* succeeds.
ReadProcessMemory(process, a, size, buffer) ==
  IF process = "bad" THEN Fails("handle")
  ELSE IF ~buffer THEN Fails("invalid")
  ELSE IF ~Span(a, size) \subseteq DOMAIN perm THEN Fails("denied")
  ELSE Fails("true")

(***************************************************************************)
(* Accesses of guest code.                                                 *)
(***************************************************************************)
Allows(p, access) == p = "rwx" \/ (p = "ro" /\ access = "read")

\* The guard goes when the exception is raised; the permission comes back when it is dispatched.
_raise_protection_fault(a) ==
  IF a \in DOMAIN guard_pages
  THEN /\ guard_pages' = Restrict(guard_pages, DOMAIN guard_pages \ {a})
       /\ raised' = [page |-> a, perms |-> guard_pages[a]]
       /\ res' = "guard" /\ UNCHANGED <<maps, perm, asked>>
  ELSE Fails("violation")

\* Code outside of modules may run without permission: the hook lets the engine go on.
_handle_prot_fetch(a) == Fails("done")

\* Without handlers for exceptions a write that is refused ends the run.
_handle_prot_write(a, dispatch) ==
  IF a \in DOMAIN guard_pages \/ dispatch THEN _raise_protection_fault(a) ELSE Fails("ends")

_hook_mem_unmapped(a, access, dispatch) ==
  \/ access = "fetch" /\ a \in DOMAIN guard_pages /\ _raise_protection_fault(a)
  \/ access = "fetch" /\ a \notin DOMAIN guard_pages /\ _handle_prot_fetch(a)
  \/ access = "read" /\ _raise_protection_fault(a)
  \/ access = "write" /\ _handle_prot_write(a, dispatch)

Access(a, access, dispatch) ==
  /\ a \in DOMAIN perm
  /\ IF Allows(perm[a], access) THEN Fails("done") ELSE _hook_mem_unmapped(a, access, dispatch)

\* The run loop dispatches the exception of a guard page.
_dispatch_cpu_exception ==
  /\ Becomes(mem_protect(Now, {raised.page}, raised.perms))
  /\ asked' = [asked EXCEPT ![raised.page].guard = FALSE]
  /\ raised' = Nothing /\ res' = "dispatched" /\ UNCHANGED maps

Calls ==
  \/ \E a \in Pages \cup {NoPage}, n \in 1 .. MaxPages, commit \in BOOLEAN, prot \in Protections :
       \/ VirtualAlloc(a, n, commit, prot)
       \/ \E process \in Processes : VirtualAllocEx(process, a, n, commit, prot)
       \/ VirtualAllocExNuma("current", a, n, commit, prot)
  \/ \E a \in Pages, n \in 1 .. MaxPages, prot \in Protections, old \in BOOLEAN :
       \/ VirtualProtect(a, n, prot, old)
       \/ \E process \in Processes : VirtualProtectEx(process, a, n, prot, old)
  \/ \E a \in Pages, n \in 0 .. MaxPages :
       VirtualFree(a, n) \/ IsBadReadPtr(a, n) \/ IsBadWritePtr(a, n) \/ IsBadStringPtr(a, n)
  \/ \E a \in Pages, buffer \in BOOLEAN :
       \/ VirtualQuery(a, buffer)
       \/ \E process \in Processes : VirtualQueryEx(process, a, buffer)
       \/ \E process \in Processes, n \in 1 .. MaxPages : ReadProcessMemory(process, a, n, buffer)
  \/ \E a \in Pages, access \in {"read", "write", "fetch"}, dispatch \in BOOLEAN : Access(a, access, dispatch)

\* Guest code goes on when the exception is dispatched.
Next ==
  \/ raised.page = NoPage /\ Calls
  \/ raised.page # NoPage /\ _dispatch_cpu_exception

Spec == Init /\ [][Next]_vars

(***************************************************************************)
(* Properties.                                                             *)
(***************************************************************************)
TypeOK ==
  /\ DOMAIN perm \subseteq Pages /\ DOMAIN guard_pages \subseteq DOMAIN perm
  /\ \A i, j \in DOMAIN maps : i # j => PagesOf(maps[i]) \cap PagesOf(maps[j]) = {}
  /\ DOMAIN perm = UNION {PagesOf(maps[i]) : i \in DOMAIN maps}

\* Every page that the guest has allocated is in the engine as the guest asked for: a guarded page refuses
\* all accesses and raises its exception one time, and every other page has its permission.  The order of the
\* protect, clear and set calls in commit_pages and VirtualProtect matters, and so does the dispatch of the
\* exception, which is another step than the access.
PagesAreAsAsked ==
  \A x \in Pages :
    asked[x] # Free =>
      IF raised.page = x THEN x \notin DOMAIN guard_pages /\ raised.perms = asked[x].perm
      ELSE IF asked[x].guard THEN x \in DOMAIN guard_pages /\ guard_pages[x] = asked[x].perm /\ perm[x] = "none"
      ELSE x \notin DOMAIN guard_pages /\ perm[x] = asked[x].perm
========================================================================
