------------------------------ MODULE Crt ------------------------------
(***************************************************************************)
(* The C run-time library (msvcrt.py): the state that it keeps between     *)
(* calls, and the functions of the guest that it calls.                    *)
(*                                                                         *)
(* A handler that calls the guest waits on `frames` until the guest        *)
(* function returns, and in between the guest may call any handler of the  *)
(* library, the same one included.  Every registration of an exit function *)
(* has its own number, which stands for the function.                      *)
(***************************************************************************)
EXTENDS Integers, Sequences, FiniteSets, SequencesExt, Functions, TLC

CONSTANTS MaxFunctions,   \* bound on registrations of exit functions
          MaxArrays,      \* bound on the addresses of tables
          FirstRoom,      \* room of a new table, 32 in the code
          MaxFrames,      \* bound on nested guest calls
          Initializers,   \* the table of _initterm: 0 is an empty entry
          MaxInstalls,    \* bound on signal() calls
          MaxElements,    \* bound on the elements of qsort
          MaxBlocks,      \* bound on mem_alloc calls
          MaxCount        \* bound on the counters

VARIABLES tab,      \* the onexit table: first (an address, 0: no table), last and end (counted from first)
          arrays,   \* the tables on the heap: address -> entries, 0 is an empty entry
          frames,   \* the handlers that wait for a guest function, innermost last
          ran,      \* history: how often each registration was called
          hist,     \* history: an execution was nested, a freed table was read, the functions that
                    \* were freed with a table, signal() calls with a handler and calls of handlers
          signals,  \* signal_handlers
          invalid,  \* the invalid parameter handlers: of the process, and of the thread
          blocks,   \* the blocks that are allocated once, and the number of mem_alloc calls
          count,    \* counters and modes
          ended,    \* exit_process ended the run
          res       \* what the last call told the guest

vars == <<tab, arrays, frames, ran, hist, signals, invalid, blocks, count, ended, res>>

NoTable == [first |-> 0, last |-> 0, end |-> 0]
Signals == {"fpe", "segv"}
Cached == {"errno", "strerror", "lc_locale_names", "lconv", "locale_name", "pctype", "narrow command line",
           "wide command line", "current exception", "exception context", "locimp"}

Init ==
  /\ tab = NoTable /\ arrays = <<>> /\ frames = <<>> /\ ran = <<>>
  /\ hist = [nested |-> FALSE, fault |-> FALSE, lost |-> {}, installs |-> 0, handled |-> 0]
  /\ signals = [s \in Signals |-> "dfl"]
  /\ invalid = [process |-> "none", thread |-> "none"]
  /\ blocks = [of |-> [c \in Cached |-> 0], used |-> 0]
  /\ count = [ticks |-> 0, perf |-> 0, rand_int |-> 0, rand_seed |-> 1, new_mode |-> 0, thread_locale |-> 2, refs |-> 2]
  /\ ended = FALSE
  /\ res = [call |-> "none"]

Tell(e) == res' = [call |-> e]
Push(f) == Len(frames) < MaxFrames /\ frames' = Append(frames, f)
Top == Last(frames)
Waiting(kind) == frames # <<>> /\ Top.kind = kind

-----------------------------------------------------------------------------
(* Exit functions.                                                         *)

OtherThanExit == UNCHANGED <<signals, invalid, blocks, count, ended>>

_initialize_onexit_table(null) ==
  /\ Tell(IF null THEN "error" ELSE "zero")
  /\ tab' = IF ~null /\ tab.first = 0 THEN NoTable ELSE tab
  /\ UNCHANGED <<arrays, frames, ran, hist>> /\ OtherThanExit

FreeAddresses == (1 .. MaxArrays) \ DOMAIN arrays

\* A full table moves to a block of twice the room, and the old block is freed.
_register_onexit_function(null) ==
  /\ Len(ran) < MaxFunctions
  /\ IF null THEN Tell("error") /\ UNCHANGED <<tab, arrays, ran>>
     ELSE LET f == Len(ran) + 1
              room == IF 2 * tab.last > FirstRoom THEN 2 * tab.last ELSE FirstRoom
          IN /\ ran' = Append(ran, 0)
             /\ Tell("zero")
             /\ \/ /\ tab.last < tab.end
                   /\ arrays' = [arrays EXCEPT ![tab.first] = [@ EXCEPT ![tab.last + 1] = f]]
                   /\ tab' = [tab EXCEPT !.last = @ + 1]
                \/ /\ tab.last = tab.end
                   /\ FreeAddresses # {}
                   /\ LET a == CHOOSE x \in FreeAddresses : \A y \in FreeAddresses : x <= y
                          old == IF tab.first = 0 THEN <<>> ELSE arrays[tab.first]
                          new == [i \in 1 .. room |-> IF i <= tab.last THEN old[i] ELSE IF i = tab.last + 1 THEN f ELSE 0]
                      IN /\ arrays' = [x \in (DOMAIN arrays \ {tab.first}) \cup {a} |-> IF x = a THEN new ELSE arrays[x]]
                         /\ tab' = [first |-> a, last |-> tab.last + 1, end |-> room]
  /\ UNCHANGED <<frames, hist>> /\ OtherThanExit

\* The last entry before `last` that is not empty, 0 if there is none.
LastEntry(first, last) ==
  LET full == {i \in 1 .. last : first # 0 /\ arrays[first][i] # 0}
  IN  IF full = {} THEN 0 ELSE CHOOSE i \in full : \A j \in full : j <= i

CallFunction(fr, i, keep, h) ==
  LET f == arrays[fr.first][i]
  IN  /\ arrays' = IF keep THEN arrays ELSE [arrays EXCEPT ![fr.first] = [@ EXCEPT ![i] = 0]]
      /\ ran' = [ran EXCEPT ![f] = @ + 1]
      /\ frames' = Append(IF fr.new THEN frames ELSE Front(frames), [fr EXCEPT !.last = i - 1, !.new = FALSE])
      /\ Tell("call") /\ hist' = h
      /\ UNCHANGED tab

\* Mutant of EndTable: the freed table is not set to null.
EndTableKeepsTable(fr, h) ==
  /\ frames' = IF fr.new THEN frames ELSE Front(frames)
  /\ hist' = [h EXCEPT !.lost = @ \cup IF fr.first = 0 THEN {} ELSE Range(arrays[fr.first]) \ {0}]
  /\ arrays' = Restrict(arrays, DOMAIN arrays \ {fr.first})
  /\ Tell("zero")
  /\ UNCHANGED <<tab, ran>>

\* The table is freed; the entries that are left in it are lost.
EndTable(fr, h) ==
  /\ frames' = IF fr.new THEN frames ELSE Front(frames)
  /\ hist' = [h EXCEPT !.lost = @ \cup IF fr.first = 0 THEN {} ELSE Range(arrays[fr.first]) \ {0}]
  /\ arrays' = Restrict(arrays, DOMAIN arrays \ {fr.first})
  /\ tab' = NoTable
  /\ Tell("zero")
  /\ UNCHANGED ran

RunTable(fr, keep, h) ==
  IF fr.first # 0 /\ fr.first \notin DOMAIN arrays
  THEN hist' = [h EXCEPT !.fault = TRUE] /\ Tell("fault") /\ UNCHANGED <<tab, arrays, frames, ran>>
  ELSE LET i == LastEntry(fr.first, fr.last)
       IN  IF i = 0 THEN EndTable(fr, h) ELSE CallFunction(fr, i, keep, h)

Frame(first, last, new) == [kind |-> "onexit", first |-> first, last |-> last, saved |-> <<first, last>>, new |-> new]

\* Mutant of call_onexit_functions: the entry is not emptied before the call.
call_onexit_functionsTwice(fr, h) == RunTable(fr, TRUE, h)

\* Empties the last entry and calls its function; without an entry the table goes.
call_onexit_functions(fr, h) == RunTable(fr, FALSE, h)

\* An exit function may run the table that is running.
Running == \E i \in DOMAIN frames : frames[i].kind = "onexit"
_execute_onexit_table(null) ==
  /\ Len(frames) < MaxFrames
  /\ IF null \/ tab.first = 0
     THEN Tell(IF null THEN "error" ELSE "zero") /\ UNCHANGED <<tab, arrays, frames, ran, hist>>
     ELSE call_onexit_functions(Frame(tab.first, tab.last, TRUE), [hist EXCEPT !.nested = @ \/ Running])
  /\ OtherThanExit

\* The function returned: a table that changed is run from its new end.
OnExitReturns ==
  /\ Waiting("onexit")
  /\ LET now == <<tab.first, tab.last>>
     IN  call_onexit_functions(IF now = Top.saved THEN Top ELSE Frame(tab.first, tab.last, FALSE), hist)
  /\ OtherThanExit

\* These do not keep the function: it never runs.
atexit == Tell("zero") /\ UNCHANGED <<tab, arrays, frames, ran, hist>> /\ OtherThanExit
_onexit == atexit
__dllonexit == atexit
_crt_atexit == atexit

-----------------------------------------------------------------------------
(* Initializers.                                                           *)

OtherThanFrames == UNCHANGED <<tab, arrays, ran, hist, signals, invalid, blocks, count>>

NextInitializer(at) ==
  LET full == {i \in at .. Len(Initializers) : Initializers[i] # 0}
  IN  IF full = {} THEN 0 ELSE CHOOSE i \in full : \A j \in full : i <= j

CallInitializer(at, stop, below) ==
  LET i == NextInitializer(at)
  IN  IF i = 0 THEN frames' = below /\ Tell("zero")
      ELSE frames' = Append(below, [kind |-> "initterm", at |-> i, stop |-> stop]) /\ Tell("call")

_call_initializers(stop) ==
  /\ Len(frames) < MaxFrames
  /\ CallInitializer(1, stop, frames)
  /\ UNCHANGED ended /\ OtherThanFrames
_initterm_e == _call_initializers(TRUE)
_initterm == _call_initializers(FALSE)

InitializerReturns(error) ==
  /\ Waiting("initterm")
  /\ IF error /\ Top.stop THEN frames' = Front(frames) /\ Tell("error")
     ELSE CallInitializer(Top.at + 1, Top.stop, Front(frames))
  /\ UNCHANGED ended /\ OtherThanFrames

\* exit, _exit, abort, _cexit, terminate and the like: no exit function runs.
exit_process == ended' = TRUE /\ frames' = <<>> /\ Tell("none") /\ OtherThanFrames
exit == exit_process
cexit == exit_process
_assert == exit_process
_endthreadex == exit_process
_invoke_watson == exit_process

NextExit ==
  /\ ~ended
  /\ \/ \E null \in BOOLEAN : \/ _initialize_onexit_table(null) \/ _register_onexit_function(null)
                              \/ _execute_onexit_table(null)
     \/ OnExitReturns \/ atexit \/ _onexit \/ __dllonexit \/ _crt_atexit
     \/ _initterm_e \/ _initterm \/ \E error \in BOOLEAN : InitializerReturns(error)
     \/ exit \/ cexit \/ _assert \/ _endthreadex \/ _invoke_watson

-----------------------------------------------------------------------------
(* Signals and invalid parameter handlers.                                 *)

OtherThanSignals == UNCHANGED <<tab, arrays, ran, invalid, blocks, count>>

signal(s, action) ==
  /\ hist.installs < MaxInstalls
  /\ IF s \notin Signals THEN Tell("error") /\ UNCHANGED <<signals, hist>>
     ELSE /\ signals' = [signals EXCEPT ![s] = action]
          /\ hist' = IF action = "handler" THEN [hist EXCEPT !.installs = @ + 1] ELSE hist
          /\ Tell(signals[s])
  /\ UNCHANGED <<frames, ended>> /\ OtherThanSignals

\* The action is the default one again before the handler is called.
call_signal_handler(s) ==
  /\ Push([kind |-> "signal", signal |-> s])
  /\ signals' = [signals EXCEPT ![s] = "dfl"]
  /\ hist' = [hist EXCEPT !.handled = @ + 1]
  /\ Tell("call")

raise_(s) ==
  /\ \/ s \notin Signals /\ Tell("einval") /\ UNCHANGED <<frames, signals, hist, ended>>
     \/ s \in Signals /\ CASE signals[s] = "ign" -> Tell("zero") /\ UNCHANGED <<frames, signals, hist, ended>>
                           [] signals[s] = "dfl" -> ended' = TRUE /\ frames' = <<>> /\ Tell("zero") /\ UNCHANGED <<signals, hist>>
                           [] OTHER -> call_signal_handler(s) /\ UNCHANGED ended
  /\ OtherThanSignals

\* The filter of an executable turns an exception into a signal.
_seh_filter_exe(s) ==
  /\ IF s \notin Signals \/ signals[s] = "dfl" THEN Tell("continue search") /\ UNCHANGED <<frames, signals, hist>>
     ELSE IF signals[s] = "ign" THEN Tell("continue execution") /\ UNCHANGED <<frames, signals, hist>>
     ELSE call_signal_handler(s)
  /\ UNCHANGED ended /\ OtherThanSignals

SignalReturns ==
  /\ Waiting("signal")
  /\ frames' = Front(frames) /\ Tell("zero")
  /\ UNCHANGED <<signals, hist, ended>> /\ OtherThanSignals

OtherThanInvalid == UNCHANGED <<tab, arrays, ran, hist, signals, blocks, count, ended>>

_set_invalid_parameter_handler(h) ==
  /\ invalid' = [invalid EXCEPT !.process = h] /\ Tell(invalid.process)
  /\ UNCHANGED frames /\ OtherThanInvalid
_set_thread_local_invalid_parameter_handler(h) ==
  /\ invalid' = [invalid EXCEPT !.thread = h] /\ Tell(invalid.thread)
  /\ UNCHANGED frames /\ OtherThanInvalid
_get_invalid_parameter_handler == Tell(invalid.process) /\ UNCHANGED <<frames, invalid>> /\ OtherThanInvalid
_get_thread_local_invalid_parameter_handler == Tell(invalid.thread) /\ UNCHANGED <<frames, invalid>> /\ OtherThanInvalid

\* The handler of the thread goes first, and no handler leaves the call without effect.
_invalid_parameter_noinfo ==
  /\ IF invalid.thread = "none" /\ invalid.process = "none" THEN Tell("none") /\ UNCHANGED frames
     ELSE Push([kind |-> "invalid"]) /\ Tell(IF invalid.thread # "none" THEN invalid.thread ELSE invalid.process)
  /\ UNCHANGED invalid /\ OtherThanInvalid
InvalidReturns == Waiting("invalid") /\ frames' = Front(frames) /\ Tell("none") /\ UNCHANGED invalid /\ OtherThanInvalid

NextSignals ==
  /\ ~ended
  /\ \/ \E s \in Signals \cup {"other"} :
          raise_(s) \/ _seh_filter_exe(s) \/ \E action \in {"dfl", "ign", "handler"} : signal(s, action)
     \/ SignalReturns
     \/ \E h \in {"none", "h"} : _set_invalid_parameter_handler(h) \/ _set_thread_local_invalid_parameter_handler(h)
     \/ _get_invalid_parameter_handler \/ _get_thread_local_invalid_parameter_handler
     \/ _invalid_parameter_noinfo \/ InvalidReturns

-----------------------------------------------------------------------------
(* Blocks that are allocated once, blocks that every call allocates, and   *)
(* counters.                                                               *)

Blocks(b, e) == blocks' = b /\ Tell(e) /\ UNCHANGED <<tab, arrays, frames, ran, hist, signals, invalid, count, ended>>

CachedBlock(name, n) ==
  IF blocks.of[name] # 0 THEN Blocks(blocks, name)
  ELSE /\ blocks.used + n <= MaxBlocks
       /\ Blocks([of |-> [blocks.of EXCEPT ![name] = blocks.used + n], used |-> blocks.used + n], name)

_errno == CachedBlock("errno", 1)
strerror == CachedBlock("strerror", 1)
___lc_locale_name_func == CachedBlock("lc_locale_names", 1)
localeconv == CachedBlock("lconv", 1)
setlocale == CachedBlock("locale_name", 1)
get_pctype_table == CachedBlock("pctype", 1)
get_winmain_command_line_ptr(wide) == CachedBlock(IF wide THEN "wide command line" ELSE "narrow command line", 1)
get_exception_slot(context) == CachedBlock(IF context THEN "exception context" ELSE "current exception", 1)
get_global_locimp == CachedBlock("locimp", 3)   \* the vtable, the name and the object

\* Every call writes the arguments, or the environment, to new blocks.
Fresh(n) == blocks.used + n <= MaxBlocks /\ Blocks([blocks EXCEPT !.used = @ + n], "fresh")
_write_main_args(args, env) == Fresh((IF args THEN 1 ELSE 0) + (IF env THEN 1 ELSE 0))
__p___argv == Fresh(1)
__p___wargv == Fresh(1)
__p___argc == Fresh(1)
_get_initial_narrow_environment == Fresh(1)
_get_initial_wide_environment == Fresh(1)

Counts(c, e) == count' = c /\ Tell(e) /\ UNCHANGED <<tab, arrays, frames, ran, hist, signals, invalid, blocks, ended>>
Bump(f) == count[f] < MaxCount /\ Counts([count EXCEPT ![f] = @ + 1], "value")

clock == Bump("ticks")
_Query_perf_counter == Bump("perf")
_Random_device == Bump("rand_int")
rand_s(null) == IF null THEN Counts(count, "einval") ELSE Bump("rand_int")
srand(seed) == Counts([count EXCEPT !.rand_seed = seed], "none")
rand == Counts([count EXCEPT !.rand_seed = (@ * 214013 + 2531011) % 3], "value")   \* 2^32 in the code
_set_new_mode(m) == Counts([count EXCEPT !.new_mode = m], "old mode")
_configthreadlocale(t) == Counts([count EXCEPT !.thread_locale = IF t \in {1, 2} THEN t ELSE @], "old locale")

\* The references of the global locale, a counter of 32 bits in the memory of the guest.
add_facet_refs(delta, e) == count.refs + delta \in 0 .. MaxCount /\ Counts([count EXCEPT !.refs = @ + delta], e)
locale_init(do_incref) == blocks.of["locimp"] # 0 /\ (IF do_incref THEN add_facet_refs(1, "locimp") ELSE Counts(count, "locimp"))
facet_Incref == blocks.of["locimp"] # 0 /\ add_facet_refs(1, "none")
facet_Decref == blocks.of["locimp"] # 0 /\ add_facet_refs(-1, IF count.refs = 1 THEN "this" ELSE "null")

NextBlocks ==
  \/ _errno \/ strerror \/ ___lc_locale_name_func \/ localeconv \/ setlocale \/ get_pctype_table \/ get_global_locimp
  \/ __p___argv \/ __p___wargv \/ __p___argc \/ _get_initial_narrow_environment \/ _get_initial_wide_environment
  \/ facet_Incref \/ facet_Decref
  \/ \E b \in BOOLEAN : get_winmain_command_line_ptr(b) \/ get_exception_slot(b) \/ locale_init(b)
  \/ \E b \in BOOLEAN, c \in BOOLEAN : _write_main_args(b, c)

NextCounters ==
  \/ clock \/ _Query_perf_counter \/ _Random_device \/ rand
  \/ \E null \in BOOLEAN : rand_s(null)
  \/ \E n \in 0 .. 2 : srand(n) \/ _set_new_mode(n) \/ _configthreadlocale(n)

-----------------------------------------------------------------------------
(* qsort, a merge sort from runs of one element up.                        *)

\* Merges two sorted runs of elements; an equal element of the left run goes first.
MergeRuns(key, left, right) ==
  LET m[i \in 1 .. (Len(left) + 1), j \in 1 .. (Len(right) + 1)] ==
        IF i > Len(left) THEN SubSeq(right, j, Len(right))
        ELSE IF j > Len(right) THEN SubSeq(left, i, Len(left))
        ELSE IF key[left[i]] > key[right[j]] THEN <<right[j]>> \o m[i, j + 1]
        ELSE <<left[i]>> \o m[i + 1, j]
  IN  m[1, 1]

SliceOf(s, start, run) == SubSeq(s, start, IF start + run - 1 > Len(s) THEN Len(s) ELSE start + run - 1)

\* One pass merges the runs of a length in pairs, from `start` on.
MergePass(key, order, run) ==
  LET p[k \in 0 .. Len(order)] ==
        LET start == 2 * run * k + 1
        IN  IF start > Len(order) THEN <<>>
            ELSE MergeRuns(key, SliceOf(order, start, run), SliceOf(order, start + run, run)) \o p[k + 1]
  IN  p[0]

sort_elements(key) ==
  LET n == Len(key)
      s[e \in 0 .. n] == IF e = 0 THEN [i \in 1 .. n |-> i]
                         ELSE IF 2 ^ (e - 1) >= n THEN s[e - 1] ELSE MergePass(key, s[e - 1], 2 ^ (e - 1))
  IN  s[n]

\* `key` is what the comparison of the guest orders by; the elements are known by their old index.
qsort(key) ==
  /\ res' = [call |-> "qsort", key |-> key, order |-> IF Len(key) < 2 THEN [i \in 1 .. Len(key) |-> i] ELSE sort_elements(key)]
  /\ UNCHANGED <<tab, arrays, frames, ran, hist, signals, invalid, blocks, count, ended>>

NextSort == \E n \in 0 .. MaxElements : \E key \in [1 .. n -> 0 .. 2] : qsort(key)

-----------------------------------------------------------------------------
TypeOK ==
  /\ tab.first \in DOMAIN arrays \cup {0} /\ tab.last \in 0 .. tab.end
  /\ \A a \in DOMAIN arrays : a \in 1 .. MaxArrays /\ Range(arrays[a]) \subseteq 0 .. Len(ran)
  /\ Len(ran) <= MaxFunctions /\ Len(frames) <= MaxFrames
  /\ blocks.used \in 0 .. MaxBlocks /\ \A c \in Cached : blocks.of[c] \in 0 .. blocks.used

\* An exit function runs at most once for each registration, when exit functions register
\* others, make the table move, and run the table themselves (call_onexit_functions).
ExitFunctionsRunOnce == \A f \in DOMAIN ran : ran[f] <= 1

\* The table that a handler goes on with after a guest call is never one that the guest
\* call freed, and no exit function is freed with a table before it ran, unless exit
\* functions ran the table themselves (call_onexit_functions).
ExitFunctionsAreKept == ~hist.fault /\ (~hist.nested => hist.lost = {})

\* A signal handler runs at most once for each signal() call, also when it raises the
\* signal again (raise_, _seh_filter_exe).
HandlersRunOnce == hist.handled <= hist.installs

\* The library calls a function of the guest as often as the guest asked for.
GuestFunctionsRunOnce == ExitFunctionsRunOnce /\ ExitFunctionsAreKept /\ HandlersRunOnce

Sorted(key, order) ==
  /\ Range(order) = DOMAIN key /\ Len(order) = Len(key)
  /\ \A i, j \in DOMAIN order : i < j => \/ key[order[i]] < key[order[j]]
                                         \/ key[order[i]] = key[order[j]] /\ order[i] < order[j]

\* qsort leaves every element in its sorted place, equal ones in their old order
\* (sort_elements: runs of all lengths, a last run that is short or has no partner).
QsortSorts == [][res'.call = "qsort" => Sorted(res'.key, res'.order)]_vars
=============================================================================
