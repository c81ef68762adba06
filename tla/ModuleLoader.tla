---------------------------- MODULE ModuleLoader ----------------------------
(***************************************************************************)
(* Loading DLLs while the guest runs (speakeasy/windows/module_loader.py,  *)
(* api_registry.py and the loader part of winemu.py).  LoadLibrary maps an *)
(* image, binds its imports (which loads more images), adds the images to  *)
(* the PEB of the process, and then calls their TLS callbacks and DllMain  *)
(* as guest callbacks of the API frame.  A DllMain may load again, fail,   *)
(* or leave without a return; a failure undoes the load of its frame.      *)
(*                                                                         *)
(* A module is named by its DLL.  The Python recursion of load_image is    *)
(* the stack loads; no other action runs while it is not empty.            *)
(***************************************************************************)
EXTENDS Naturals, Sequences, FiniteSets, SequencesExt

CONSTANTS
    Guests,        \* DLLs with a PE file
    Synthetics,    \* DLLs that the emulator makes
    Imports,       \* the import slots of each guest DLL: sequences of <<dll, ref>>
    Exports,       \* the references that each DLL exports
    Forwards,      \* forwarded exports: <<dll, ref>> to <<dll, ref>>
    Routines,      \* the initializers of each guest DLL; TRUE is the entry point
    Misfits,       \* DLLs whose image does not fit the machine or cannot move
    Malformed,     \* DLLs whose file is not a PE file
    FromFile,      \* DLLs that load_library finds in the emulated file system
    Unknown,       \* names that no file, handler or signature knows
    Signed,        \* <<dll, ref>> in the signature database
    Pids,          \* processes
    MaxTraps,      \* TRAP_SIZE \div TRAP_STRIDE
    ArenaSlots,    \* dynamic exports that one synthetic DLL has room for
    MaxForwards,   \* longest chain of forwarders
    MaxFrames,     \* bound on nested LoadLibrary calls
    MaxCalls       \* bound on the calls that load or look up

VARIABLES
    ld,         \* [modules, deps, pebs, states, bindings, dynamic, traps, trap_count]
    loads,      \* images whose load is in progress, the outermost first
    call,       \* the API call that loads or looks up, in progress
    frames,     \* guest_callbacks of the current run
    pid,        \* the current process
    calls,      \* calls that load or look up, so far
    given,      \* <<pid, dll>> that an outermost LoadLibrary returned
    abandoned,  \* <<pid, dll>> whose frame the guest left without a return
    res         \* whether the last API call succeeded

vars == <<ld, loads, call, frames, pid, calls, given, abandoned, res>>

Dlls == Guests \cup Synthetics
States == {"none", "INITIALIZING", "READY_TO_RUN"}
NoCall == [kind |-> "none"]

Loaded(l, d) == \E i \in DOMAIN l.modules : l.modules[i] = d
Without(seq, S) == SelectSeq(seq, LAMBDA d : d \notin S)
Traps(l, d) == {t \in DOMAIN l.traps : l.traps[t] = d}

-----------------------------------------------------------------------------
(* The API registry. *)

\* unregister_module: forget the entries and the tokens of a module.
unregister_module(l, d) ==
    [l EXCEPT !.traps = [t \in DOMAIN l.traps \ Traps(l, d) |-> l.traps[t]],
              !.dynamic[d] = {}]

\* The functions of a synthetic module that are not forwarded get one token each.
Trapped(d) ==
    IF d \in Synthetics THEN {r \in Exports[d] : <<d, r>> \notin DOMAIN Forwards} ELSE {}

\* _allocate_trap: give the next n tokens to d, or as many as there are.
TakeTraps(l, d, n) ==
    LET last == IF l.trap_count + n <= MaxTraps THEN l.trap_count + n ELSE MaxTraps
    IN [l EXCEPT !.trap_count = last,
                 !.traps = [t \in DOMAIN l.traps \cup (l.trap_count .. last - 1) |->
                              IF t \in DOMAIN l.traps THEN l.traps[t] ELSE d]]

register_module(l, d) == TakeTraps(l, d, Cardinality(Trapped(d)))
RegisterFails(l, d) == l.trap_count + Cardinality(Trapped(d)) > MaxTraps

\* lookup: the registry knows what the image exports and what dynamic added.
lookup(l, d, r) == r \in Exports[d] \cup l.dynamic[d]

\* dynamic: a new entry in the .dyn section of a synthetic module.
CanBeDynamic(l, d) ==
    /\ d \in Synthetics
    /\ Cardinality(l.dynamic[d]) < ArenaSlots
    /\ l.trap_count < MaxTraps
dynamic(l, d, r) == [TakeTraps(l, d, 1) EXCEPT !.dynamic[d] = @ \cup {r}]

-----------------------------------------------------------------------------
(* PEBs, snapshots and the undo of a load. *)

\* _add_module_to_current_peb
AddToPeb(l, d) == [l EXCEPT !.pebs[pid] = @ \cup {d}]

\* _remove_from_active_pebs and unregister_module of each module that a failed load added,
\* then the lists that load_image kept; tokens are not given again.
RollBackImage(l, original) ==
    LET removed == {d \in Dlls : Loaded(l, d) /\ ~Loaded(original, d)}
    IN [l EXCEPT !.modules = original.modules,
                 !.bindings = original.bindings,
                 !.deps = Without(@, removed),
                 !.pebs = [p \in Pids |-> l.pebs[p] \cap original.pebs[p]],
                 !.states = [d \in Dlls |-> IF d \in removed THEN [p \in Pids |-> "none"] ELSE l.states[d]],
                 !.dynamic = [d \in Dlls |-> IF d \in removed THEN {} ELSE l.dynamic[d]],
                 !.traps = [t \in {u \in DOMAIN l.traps : l.traps[u] \notin removed} |-> l.traps[t]]]

\* discard_module: a module, its entries, its mapping and the import slots inside it.
discard_module(l, d) ==
    [unregister_module(l, d) EXCEPT
        !.modules = Without(@, {d}),
        !.deps = Without(@, {d}),
        !.pebs = [p \in Pids |-> @[p] \ {d}],
        !.states[d] = [p \in Pids |-> "none"],
        !.bindings = {b \in @ : b[1] # d}]

\* rollback_peb_modules
rollback_peb_modules(l, snapshot) ==
    [l EXCEPT !.pebs = [p \in Pids |-> @[p] \cap snapshot[p]]]

Undone(l, f, d, p) ==
    \E i \in DOMAIN f.initializers :
        /\ f.initializers[i].dll = d /\ f.initializers[i].pid = p
        /\ l.states[d][p] = "INITIALIZING" \/ d \notin f.snapshot[p]

\* Mutant of rollback_guest_load: only the initializer that failed loses its state.
rollback_guest_loadKeepsStates(l, f) ==
    LET unlinked == rollback_peb_modules(l, f.snapshot)
        unused == SelectSeq(f.created, LAMBDA d : \A p \in Pids : d \notin unlinked.pebs[p])
    IN FoldRight(LAMBDA d, acc : discard_module(acc, d), unused, unlinked)

\* rollback_guest_load: the PEBs, the states of the initializers of the frame, and then the
\* images that the frame created and that no process has.
rollback_guest_load(l, f) ==
    LET unlinked == rollback_peb_modules(l, f.snapshot)
        reset == [unlinked EXCEPT !.states = [d \in Dlls |-> [p \in Pids |->
                    IF Undone(l, f, d, p) THEN "none" ELSE @[d][p]]]]
        unused == SelectSeq(f.created, LAMBDA d : \A p \in Pids : d \notin reset.pebs[p])
    IN FoldRight(LAMBDA d, acc : discard_module(acc, d), unused, reset)

\* remove_failed_module_from_peb
remove_failed_module_from_peb(l, d, p) ==
    [l EXCEPT !.states[d][p] = "none", !.pebs[p] = @ \ {d}]

-----------------------------------------------------------------------------
(* resolve_export: what a reference of a module leads to. *)

NewWalk(dll, ref, allow) == [at |-> <<dll, ref>>, seen |-> {}, strict |-> FALSE, allow |-> allow]
At(w) == w.at[1]

NotLoaded(l, w) == ~Loaded(l, At(w))
Eligible(w) == ~w.strict /\ (w.allow \/ w.at \in Signed \/ Exports[At(w)] = {})
Missing(l, w) == ~lookup(l, At(w), w.at[2]) /\ ~(Eligible(w) /\ CanBeDynamic(l, At(w)))
Made(l, w) == ~lookup(l, At(w), w.at[2]) /\ Eligible(w) /\ CanBeDynamic(l, At(w))
Forwarded(l, w) == lookup(l, At(w), w.at[2]) /\ w.at \in DOMAIN Forwards
Cyclic(w) == w.at \in w.seen \/ Cardinality(w.seen) >= MaxForwards
Followed(w) == [w EXCEPT !.at = Forwards[w.at], !.seen = @ \cup {w.at}, !.strict = TRUE]

\* One step of the walk: nothing found, an entry, or the next module of the chain.
NoExport(l, w) == Missing(l, w) \/ (Forwarded(l, w) /\ Cyclic(w))
Found(l, w) == ~NoExport(l, w) /\ ~Forwarded(l, w)
Entry(l, w) == IF Made(l, w) THEN dynamic(l, At(w), w.at[2]) ELSE l

-----------------------------------------------------------------------------
(* load_image: one image and, through its imports, the images it needs. *)

Top == loads[Len(loads)]
Outermost == loads[1]
Quiet == loads = <<>> /\ call = NoCall

\* The slots of an image are resolved by get_proc, which allows dynamic entries.
Slots(d) == IF d \in Guests THEN [i \in DOMAIN Imports[d] |-> NewWalk(Imports[d][i][1], Imports[d][i][2], TRUE)]
            ELSE <<>>
NewLoad(d) == [dll |-> d, left |-> Slots(d), original |-> IF loads = <<>> THEN <<ld>> ELSE <<>>]
SetTop(load) == loads' = [loads EXCEPT ![Len(loads)] = load]
NextSlot == SetTop([Top EXCEPT !.left = Tail(@)])

\* load_library turns the errors it catches into 0; any other error ends the API call and the run.
Raise(catches) == call' = [call EXCEPT !.state = IF catches THEN "failed" ELSE "raised"]
CatchesEmuError == call.kind = "load"
CatchesFormatError == call.kind = "load" /\ call.dll \in FromFile

\* The file is no PE file: no import loop catches this, so the outermost load_image undoes all.
BadFormat(d) ==
    /\ d \in Malformed
    /\ ld' = IF loads = <<>> THEN ld ELSE RollBackImage(ld, Outermost.original[1])
    /\ loads' = <<>>
    /\ Raise(CatchesFormatError)

\* The image is refused before it is mapped, or the tokens run out after it is listed: the
\* import loop of its importer skips the slot, and only the outermost load undoes its own work.
Refused(d) ==
    /\ d \notin Malformed
    /\ d \in Misfits \/ RegisterFails(ld, d)
    /\ LET mapped == IF d \in Misfits THEN ld ELSE register_module([ld EXCEPT !.modules = Append(@, d)], d)
       IN IF loads = <<>>
          THEN ld' = RollBackImage(mapped, ld) /\ loads' = <<>> /\ Raise(CatchesEmuError)
          ELSE ld' = mapped /\ NextSlot /\ UNCHANGED call

Mapped(d) ==
    /\ d \notin Malformed \cup Misfits
    /\ ~RegisterFails(ld, d)
    /\ ld' = register_module([ld EXCEPT !.modules = Append(@, d)], d)
    /\ loads' = Append(loads, NewLoad(d))
    /\ UNCHANGED call

\* load_module_by_name of a DLL that is not loaded, up to register_module.
BeginImage(d) == BadFormat(d) \/ Refused(d) \/ Mapped(d)

LoadRest == UNCHANGED <<frames, pid, calls, given, abandoned, res>>

\* The import loop of _load_image: get_proc, and the slot that it fills.
ResolveImport ==
    /\ loads # <<>> /\ Top.left # <<>>
    /\ LET w == Head(Top.left)
       IN \/ NotLoaded(ld, w) /\ BeginImage(At(w))
          \/ /\ ~NotLoaded(ld, w) /\ NoExport(ld, w)
             /\ NextSlot /\ UNCHANGED <<ld, call>>
          \/ /\ ~NotLoaded(ld, w) /\ Found(ld, w)
             /\ ld' = [Entry(ld, w) EXCEPT !.bindings = @ \cup {<<Top.dll, At(w)>>}]
             /\ NextSlot /\ UNCHANGED call
          \/ /\ ~NotLoaded(ld, w) /\ Forwarded(ld, w) /\ ~Cyclic(w)
             /\ SetTop([Top EXCEPT !.left[1] = Followed(w)])
             /\ UNCHANGED <<ld, call>>
    /\ LoadRest

\* The end of _load_image and of load_module_by_name.
FinishImage ==
    /\ loads # <<>> /\ Top.left = <<>>
    /\ ld' = [AddToPeb(ld, Top.dll) EXCEPT !.deps = IF Top.dll \in Guests THEN Append(@, Top.dll) ELSE @]
    /\ loads' = Front(loads)
    /\ UNCHANGED call /\ LoadRest

-----------------------------------------------------------------------------
(* load_library, and the handlers that call it. *)

Tells(ok) == res' = ok

\* LoadLibrary, LoadLibraryEx and LdrLoadDll: the snapshots, and a name that is known.
LoadLibrary(d) ==
    /\ Quiet /\ calls < MaxCalls /\ Len(frames) < MaxFrames
    /\ calls' = calls + 1
    /\ IF d \in Unknown /\ ~Loaded(ld, d)
       THEN Tells(FALSE) /\ UNCHANGED call
       ELSE /\ call' = [kind |-> "load", dll |-> d, state |-> "loading",
                        modules |-> ld.modules, pebs |-> ld.pebs]
            /\ UNCHANGED res
    /\ UNCHANGED <<ld, loads, frames, pid, given, abandoned>>

LoadTheModule ==
    /\ call.kind = "load" /\ call.state = "loading" /\ loads = <<>> /\ ~Loaded(ld, call.dll)
    /\ BeginImage(call.dll) /\ LoadRest

\* collect_initializers: the guest DLLs in the PEB that the process has not initialized.
Uninitialized(l) ==
    SelectSeq(l.deps, LAMBDA d : Loaded(l, d) /\ d \in l.pebs[pid] /\ l.states[d][pid] = "none")
RoutinesOf(d) ==
    [i \in DOMAIN Routines[d] |->
        [dll |-> d, pid |-> pid, entry |-> Routines[d][i], last |-> i = Len(Routines[d])]]
collect_initializers(l) == FlattenSeq([i \in DOMAIN Uninitialized(l) |-> RoutinesOf(Uninitialized(l)[i])])
Collected(l) ==
    LET new == ToSet(Uninitialized(l))
    IN [l EXCEPT !.states = [d \in Dlls |-> [@[d] EXCEPT ![pid] =
            IF d \notin new THEN @ ELSE IF Routines[d] = <<>> THEN "READY_TO_RUN" ELSE "INITIALIZING"]]]

\* An outermost call that returns a module to the guest.
Gives(d) ==
    /\ Tells(TRUE)
    /\ given' = IF frames = <<>> THEN given \cup {<<pid, d>>} ELSE given

\* The end of load_library: the module is in the PEB; its frame waits for the initializers.
LibraryLoaded ==
    /\ call.kind = "load" /\ call.state = "loading" /\ loads = <<>> /\ Loaded(ld, call.dll)
    /\ LET present == AddToPeb(ld, call.dll)
           routines == collect_initializers(present)
           f == [dll |-> call.dll, initializers |-> routines, pending |-> Tail(routines),
                 function |-> Head(routines), snapshot |-> call.pebs, left |-> FALSE, ok |-> TRUE,
                 created |-> Without(ld.modules, ToSet(call.modules))]
       IN /\ ld' = Collected(present)
          /\ IF routines = <<>> THEN Gives(call.dll) /\ UNCHANGED frames
             ELSE frames' = Append(frames, f) /\ UNCHANGED <<given, res>>
    /\ call' = NoCall
    /\ UNCHANGED <<loads, pid, calls, abandoned>>

LibraryFails ==
    /\ call.kind = "load" /\ call.state = "failed"
    /\ Tells(FALSE)
    /\ call' = NoCall
    /\ UNCHANGED <<ld, loads, frames, pid, calls, given, abandoned>>

-----------------------------------------------------------------------------
(* GetProcAddress, LdrGetProcedureAddress and ResolveDelayLoadedAPI. *)

\* GetProcAddress looks in modules, LdrGetProcedureAddress in get_peb_modules; both refuse an unknown base.
GetProcAddress(d, r) ==
    /\ Quiet /\ calls < MaxCalls /\ calls' = calls + 1
    /\ IF Loaded(ld, d)
       THEN call' = [kind |-> "lookup", delay |-> FALSE, walk |-> NewWalk(d, r, FALSE), state |-> "walking"] /\ UNCHANGED res
       ELSE Tells(FALSE) /\ UNCHANGED call
    /\ UNCHANGED <<ld, loads, frames, pid, given, abandoned>>

\* ResolveDelayLoadedAPI: get_proc, which loads the DLL without its initializers.
ResolveDelayLoadedAPI(d, r) ==
    /\ Quiet /\ calls < MaxCalls /\ calls' = calls + 1
    /\ call' = [kind |-> "lookup", delay |-> TRUE, walk |-> NewWalk(d, r, TRUE), state |-> "walking"]
    /\ UNCHANGED <<ld, loads, frames, pid, given, abandoned, res>>

LookupStep ==
    /\ call.kind = "lookup" /\ call.state = "walking" /\ loads = <<>>
    /\ LET w == call.walk
       IN \/ /\ NotLoaded(ld, w) /\ BeginImage(At(w)) /\ UNCHANGED res
          \/ /\ ~NotLoaded(ld, w) /\ Forwarded(ld, w) /\ ~Cyclic(w)
             /\ call' = [call EXCEPT !.walk = Followed(w)]
             /\ UNCHANGED <<ld, loads, res>>
          \/ /\ ~NotLoaded(ld, w) /\ (NoExport(ld, w) \/ Found(ld, w))
             /\ ld' = IF Found(ld, w) THEN Entry(ld, w) ELSE ld
             /\ Tells(Found(ld, w))
             /\ call' = NoCall
             /\ UNCHANGED loads
    /\ UNCHANGED <<frames, pid, calls, given, abandoned>>

\* ResolveDelayLoadedAPI catches the error of get_proc and returns 0.
LookupFails ==
    /\ call.kind = "lookup" /\ call.state = "raised" /\ call.delay
    /\ Tells(FALSE)
    /\ call' = NoCall
    /\ UNCHANGED <<ld, loads, frames, pid, calls, given, abandoned>>

\* GetModuleHandle, GetModuleHandleEx: whether a module of that name is listed.
GetModuleHandle(d) ==
    /\ Quiet /\ Tells(Loaded(ld, d))
    /\ UNCHANGED <<ld, loads, call, frames, pid, calls, given, abandoned>>

\* FreeLibrary keeps the module.
FreeLibrary ==
    /\ Quiet /\ Tells(TRUE)
    /\ UNCHANGED <<ld, loads, call, frames, pid, calls, given, abandoned>>

-----------------------------------------------------------------------------
(* The guest callbacks of the load. *)

\* The frame whose callback runs: the frames above it are left.
Live == {i \in DOMAIN frames : ~frames[i].left}
Running == CHOOSE i \in Live : \A j \in Live : j <= i

finish_initializer(l, routine) ==
    IF routine.last THEN [l EXCEPT !.states[routine.dll][routine.pid] = "READY_TO_RUN"] ELSE l

\* _fail_library_initializer
Failed(l, f) ==
    rollback_guest_load(remove_failed_module_from_peb(l, f.function.dll, f.function.pid), f)
FailedFrame(f) == [f EXCEPT !.ok = FALSE, !.pending = <<>>]

\* History: what the frames above frame k still had to initialize.
Dropped(k) ==
    {x \in Pids \X Guests : \E i \in k + 1 .. Len(frames) :
        /\ ld.states[x[2]][x[1]] = "INITIALIZING"
        /\ \E j \in DOMAIN frames[i].initializers :
              frames[i].initializers[j].dll = x[2] /\ frames[i].initializers[j].pid = x[1]}

\* _continue_guest_callback: drop the frames above, record the result, go on or return.
Continue(value) ==
    /\ Quiet /\ Live # {}
    /\ LET f == frames[Running]
           fails == f.function.entry /\ ~value
           g == IF fails THEN FailedFrame(f) ELSE f
           rest == SubSeq(frames, 1, Running - 1)
       IN /\ ld' = IF fails THEN Failed(ld, f) ELSE finish_initializer(ld, f.function)
          /\ abandoned' = abandoned \cup Dropped(Running)
          /\ IF g.pending # <<>>
             THEN /\ frames' = Append(rest, [g EXCEPT !.function = Head(g.pending), !.pending = Tail(@)])
                  /\ UNCHANGED <<given, res>>
             ELSE /\ frames' = rest
                  /\ Tells(g.ok)
                  /\ given' = IF g.ok /\ rest = <<>> THEN given \cup {<<pid, g.dll>>} ELSE given
    /\ UNCHANGED <<loads, call, pid, calls>>

\* The guest leaves the callback without a return that the emulator sees, for example by longjmp.
GuestLeaves ==
    /\ Quiet /\ Live # {}
    /\ frames' = [frames EXCEPT ![Running].left = TRUE]
    /\ UNCHANGED <<ld, loads, call, pid, calls, given, abandoned, res>>

\* drop_abandoned: an exception handler continues above the callback.
ExceptionLeaves ==
    /\ Quiet /\ Live # {}
    /\ frames' = SubSeq(frames, 1, Running - 1)
    /\ abandoned' = abandoned \cup Dropped(Running - 1)
    /\ UNCHANGED <<ld, loads, call, pid, calls, given, res>>

\* _finish_run_initializers: undo the loads of the frames, the oldest first; the next run is of any process.
EndRun(p) ==
    /\ Quiet \/ (loads = <<>> /\ call.kind # "none" /\ call.state = "raised")
    /\ ld' = FoldLeft(LAMBDA acc, f : rollback_guest_load(acc, f), ld, frames)
    /\ frames' = <<>>
    /\ call' = NoCall
    /\ pid' = p
    /\ UNCHANGED <<loads, calls, given, abandoned, res>>

-----------------------------------------------------------------------------

Init ==
    /\ ld = [modules |-> <<>>, deps |-> <<>>, pebs |-> [p \in Pids |-> {}],
             states |-> [d \in Dlls |-> [p \in Pids |-> "none"]], bindings |-> {},
             dynamic |-> [d \in Dlls |-> {}], traps |-> <<>>, trap_count |-> 0]
    /\ loads = <<>> /\ call = NoCall /\ frames = <<>>
    /\ pid \in Pids
    /\ calls = 0 /\ given = {} /\ abandoned = {}
    /\ res = FALSE

Refs == UNION {Exports[d] : d \in Dlls} \cup {"other"}

NextLoader ==
    \/ \E d \in Dlls : LoadLibrary(d)
    \/ LoadTheModule \/ ResolveImport \/ FinishImage \/ LibraryLoaded \/ LibraryFails
    \/ \E d \in Dlls, r \in Refs : GetProcAddress(d, r) \/ ResolveDelayLoadedAPI(d, r)
    \/ LookupStep \/ LookupFails
    \/ \E d \in Dlls : GetModuleHandle(d)
    \/ FreeLibrary
    \/ \E value \in BOOLEAN : Continue(value)
    \/ GuestLeaves \/ ExceptionLeaves
    \/ \E p \in Pids : EndRun(p)

Spec == Init /\ [][NextLoader]_vars

TypeOK ==
    /\ ToSet(ld.modules) \subseteq Dlls /\ ToSet(ld.deps) \subseteq Guests
    /\ ld.pebs \in [Pids -> SUBSET Dlls]
    /\ ld.states \in [Dlls -> [Pids -> States]]
    /\ ld.bindings \subseteq Guests \X Dlls
    /\ ld.dynamic \in [Dlls -> SUBSET Refs]
    /\ ld.trap_count \in 0 .. MaxTraps
    /\ DOMAIN ld.traps \subseteq 0 .. ld.trap_count - 1
    /\ \A t \in DOMAIN ld.traps : ld.traps[t] \in Synthetics
    /\ pid \in Pids /\ given \subseteq Pids \X Dlls /\ abandoned \subseteq Pids \X Guests

\* A module that is INITIALIZING has an initializer that still has to return in a frame of
\* the run: whatever failed, was undone or ended in between (rollback_guest_load,
\* module_loader.py:134), no module keeps a state that hides it from later loads, except
\* the ones whose frame the guest itself left.
InitializingIsOwned ==
    \A d \in Guests, p \in Pids :
        ld.states[d][p] = "INITIALIZING" =>
            \/ <<p, d>> \in abandoned
            \/ \E i \in DOMAIN frames :
                 \E j \in DOMAIN (<<frames[i].function>> \o frames[i].pending) :
                    LET r == (<<frames[i].function>> \o frames[i].pending)[j]
                    IN r.dll = d /\ r.pid = p /\ r.last

\* What an outermost LoadLibrary gave to the guest stays: no later load that fails, in this
\* or another process, takes the module, its PEB entry or its state away.
GivenStays ==
    \A x \in given :
        /\ Loaded(ld, x[2]) /\ x[2] \in ld.pebs[x[1]]
        /\ x[2] \in Guests => ld.states[x[2]][x[1]] = "READY_TO_RUN" \/ x \in abandoned

\* Tokens and import slots only belong to modules that are loaded, after every undo.
GoneIsForgotten ==
    /\ \A t \in DOMAIN ld.traps : Loaded(ld, ld.traps[t])
    /\ \A b \in ld.bindings : Loaded(ld, b[1])
    /\ \A p \in Pids : \A d \in ld.pebs[p] : Loaded(ld, d)
    /\ \A d \in Dlls : ~Loaded(ld, d) => ld.states[d] = [p \in Pids |-> "none"]

LoadsAreWhole == InitializingIsOwned /\ GivenStays /\ GoneIsForgotten
=============================================================================
