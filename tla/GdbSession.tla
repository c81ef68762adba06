----------------------------- MODULE GdbSession -----------------------------
(***************************************************************************)
(* The GDB session of speakeasy/gdb.py and the debugger branches of the    *)
(* run loop in windows/winemu.py.                                          *)
(*                                                                         *)
(* Three actors: the client (external: GDB or IDA in all-stop mode), the   *)
(* reader thread and the emulator thread.  A critical section of           *)
(* _state_lock is one step, and so is a handled command; what happens      *)
(* between two critical sections is a step of its own.                     *)
(***************************************************************************)
EXTENDS Integers, Sequences, FiniteSets, TLC

CONSTANTS Addrs,      \* addresses of guest instructions
          MaxSends,   \* bound on what the client sends
          MaxRuns,    \* bound on the runs of the emulation
          MaxNacks,   \* bound on the replies that arrive damaged
          WatchKinds, \* the watchpoints that the client sets
          HasTimeout  \* whether max_run_time is set

NoAddr == "no address"
None == <<"None", NoAddr>>
Trap == "trap"  \* the program counter at an API stub or a return hook

ASSUME SessionAssumption ==
    /\ Addrs # {} /\ NoAddr \notin Addrs /\ Trap \notin Addrs
    /\ MaxSends \in Nat /\ MaxRuns \in Nat /\ MaxNacks \in Nat
    /\ HasTimeout \in BOOLEAN /\ WatchKinds \subseteq {"watch", "rwatch", "awatch"}

CtrlC == <<"ctrl-c", NoAddr>>
Nack == <<"nack", NoAddr>>
HaltReason == <<"?", NoAddr>>

Watches == {"watch", "rwatch", "awatch"}
Faults == {"fault", "exception"}
Reasons == Watches \cup Faults \cup
    {"none", "interrupt", "break", "library", "step", "timeout", "max_total_time",
     "unsupported_api", "exit"}

\* What a client asks for while the target is stopped.  "query" is every command that only
\* gets an answer: it reads, writes memory or another register than the program counter, or fails.
Commands == ({"?", "query", "setpc", "c", "s", "D", "k"} \X {NoAddr})
              \cup ({"Z", "z"} \X Addrs) \cup ({"Zw", "zw"} \X WatchKinds)

\* What the wire and the two queues hold.
Sent == Commands \cup {CtrlC, Nack}
Queued == Commands \cup {None}
Replies == {"ok", "stop", "exit"}

VARIABLES
    client,       \* "stopped", "waiting" for a stop, "ended" (exit reply) or "gone"
    wire,         \* bytes of the client that the reader did not read yet
    sends, nacks, \* what the client sent, and the damaged replies
    replies,      \* replies of the server that the client did not read yet
    last_packet,  \* _last_packet
    commands,     \* _commands
    reader,       \* where the reader thread is
    running,      \* _running
    stop_pending, \* _stop_pending
    stop_reason,  \* _stop_reason.kind
    resume_pc,    \* _resume_pc
    library,      \* _library_list_changed
    exec_breakpoints, watchpoints,
    closed,       \* _closed, set by close()
    epc,          \* where the emulator thread is
    after,        \* why command_loop was called
    step,         \* debug_action.step
    pc,           \* the program counter of the guest
    uc_stop,      \* Unicorn got a stop in the start that runs
    native_exit,  \* the recorded exit of the guest
    fault,        \* _pending_fault_stop
    runs,         \* runs that are left in the queue
    is_emu_complete,
    exhausted,    \* the total time ran out
    changed,      \* the current run is not the one that began to execute
    fresh,        \* history: where the client resumed, until an instruction runs
    missed,       \* history: an instruction ran over its breakpoint
    owed,         \* the client waits for the answer of a command
    asked         \* history: a Ctrl-C the client sent since it began to wait

clientVars == <<client, wire, sends, nacks, owed, asked>>
sessionVars == <<running, stop_pending, stop_reason, resume_pc, library>>
pointVars == <<exec_breakpoints, watchpoints>>
guestVars == <<pc, uc_stop, native_exit, fault, runs, is_emu_complete, exhausted, changed, fresh, missed>>
flowVars == <<epc, after, step>>
transportVars == <<replies, last_packet, commands, reader, closed>>
vars == <<clientVars, sessionVars, pointVars, guestVars, flowVars, transportVars>>

ClientTypes ==
    /\ client \in {"stopped", "waiting", "ended", "gone"} /\ owed \in BOOLEAN /\ asked \in BOOLEAN

QueueTypes ==
    /\ wire \in Seq(Sent) /\ commands \in Seq(Queued)
    /\ replies \in Seq(Replies) /\ last_packet \in Replies \cup {"none"}

SessionTypes ==
    /\ reader \in {"recv", "interrupt", "stop", "final", "last stop", "done"} /\ closed \in BOOLEAN
    /\ running \in BOOLEAN /\ stop_pending \in BOOLEAN /\ library \in BOOLEAN
    /\ stop_reason \in Reasons /\ resume_pc \in Addrs \cup {Trap, NoAddr}
    /\ exec_breakpoints \subseteq Addrs /\ watchpoints \subseteq Watches

FlowTypes ==
    /\ epc \in {"wait", "begin", "prepare", "unicorn", "exit", "raise", "finish", "free", "end"}
    /\ after \in {"start", "run", "fault", "exception", "exit"} /\ step \in BOOLEAN

GuestTypes ==
    /\ pc \in Addrs \cup {Trap} /\ fresh \in Addrs \cup {Trap, NoAddr}
    /\ native_exit \in {"none", "api", "return"}
    /\ uc_stop \in BOOLEAN /\ fault \in BOOLEAN /\ is_emu_complete \in BOOLEAN
    /\ exhausted \in BOOLEAN /\ changed \in BOOLEAN /\ missed \in BOOLEAN

CountTypes == sends \in 0 .. MaxSends /\ nacks \in 0 .. MaxNacks /\ runs \in 0 .. MaxRuns

\* The types of all the variables.
TypeOK == ClientTypes /\ QueueTypes /\ SessionTypes /\ FlowTypes /\ GuestTypes /\ CountTypes

Init ==
    /\ client = "stopped" /\ wire = <<>> /\ sends = 0 /\ nacks = 0 /\ owed = FALSE
    /\ asked = FALSE /\ replies = <<>> /\ last_packet = "none" /\ commands = <<>> /\ reader = "recv"
    /\ running = FALSE /\ stop_pending = FALSE /\ stop_reason = "none" /\ resume_pc = NoAddr
    /\ library = FALSE /\ exec_breakpoints = {} /\ watchpoints = {} /\ closed = FALSE
    /\ epc = "wait" /\ after = "start" /\ step = FALSE
    /\ pc \in Addrs /\ uc_stop = FALSE /\ native_exit = "none" /\ fault = FALSE
    /\ runs = MaxRuns /\ is_emu_complete = FALSE /\ exhausted = FALSE
    /\ changed = FALSE /\ fresh = NoAddr /\ missed = FALSE

-----------------------------------------------------------------------------
(* The client.  It sends one command at a time and Ctrl-C only while it    *)
(* waits for a stop.                                                       *)

ClientSend(c) ==
    /\ client = "stopped" /\ ~owed /\ sends < MaxSends
    /\ wire' = Append(wire, c) /\ sends' = sends + 1 /\ owed' = (c[1] \notin {"c", "s"})
    /\ client' = IF c[1] \in {"c", "s"} THEN "waiting" ELSE IF c[1] \in {"D", "k"} THEN "ended" ELSE client
    /\ asked' = FALSE
    /\ UNCHANGED <<nacks, sessionVars, pointVars, guestVars, flowVars, transportVars>>

ClientInterrupt ==
    /\ client = "waiting" /\ ~asked /\ sends < MaxSends
    /\ wire' = Append(wire, CtrlC) /\ sends' = sends + 1 /\ asked' = TRUE
    /\ UNCHANGED <<client, nacks, owed, sessionVars, pointVars, guestVars, flowVars, transportVars>>

ClientDisconnect ==
    /\ client # "gone"
    /\ client' = "gone" /\ replies' = <<>> /\ owed' = FALSE /\ asked' = FALSE
    /\ UNCHANGED <<wire, sends, nacks, last_packet, commands, reader, closed>>
    /\ UNCHANGED <<sessionVars, pointVars, guestVars, flowVars>>

\* A reply arrives, or it arrives damaged and the client asks for it again.
ClientReceive ==
    /\ replies # <<>>
    /\ replies' = Tail(replies)
    /\ \/ /\ client' = CASE Head(replies) = "exit" -> "ended"
                         [] Head(replies) = "stop" /\ client = "waiting" -> "stopped"
                         [] OTHER -> client
          /\ owed' = (owed /\ client = "waiting") /\ asked' = (asked /\ client' = "waiting")
          /\ UNCHANGED <<wire, nacks>>
       \/ /\ nacks < MaxNacks /\ client # "ended" /\ Len(replies) = 1
          /\ nacks' = nacks + 1 /\ wire' = Append(wire, Nack)
          /\ UNCHANGED <<client, owed, asked>>
    /\ UNCHANGED <<sends, last_packet, commands, reader, closed>>
    /\ UNCHANGED <<sessionVars, pointVars, guestVars, flowVars>>

\* The server closed the connection.
ClientSeesClose ==
    /\ closed /\ replies = <<>> /\ client \in {"stopped", "waiting"}
    /\ client' = "ended" /\ owed' = FALSE /\ asked' = FALSE
    /\ UNCHANGED <<wire, sends, nacks, sessionVars, pointVars, guestVars, flowVars, transportVars>>

-----------------------------------------------------------------------------
(* Replies.  Sending to a client that is gone raises OSError at the        *)
(* latest after its socket is reset; until then the bytes vanish.          *)

Sends(r) == /\ client # "gone" /\ ~closed
            /\ replies' = Append(replies, r) /\ last_packet' = r
Vanishes(r) == client = "gone" /\ ~closed /\ last_packet' = r /\ UNCHANGED replies
SendFails == client = "gone" /\ ~closed /\ UNCHANGED <<replies, last_packet>>

\* notify_exit and notify_signal ignore a failure and send nothing after close().
Notify == \/ Sends("exit") \/ Vanishes("exit") \/ SendFails
          \/ closed /\ UNCHANGED <<replies, last_packet>>

-----------------------------------------------------------------------------
(* Stops.                                                                  *)

\* _request_stop up to the release of the lock: FALSE if it returns early.
StopAccepted == running /\ ~stop_pending
RequestStop(kind) ==
    IF StopAccepted THEN stop_pending' = TRUE /\ stop_reason' = kind
    ELSE UNCHANGED <<stop_pending, stop_reason>>

-----------------------------------------------------------------------------
(* The reader thread.                                                      *)

ReaderPacket ==
    /\ reader = "recv" /\ ~closed /\ wire # <<>> /\ Head(wire) \in Commands
    /\ wire' = Tail(wire) /\ commands' = Append(commands, Head(wire))
    /\ UNCHANGED <<client, sends, nacks, owed, asked, replies, last_packet, reader, closed>>
    /\ UNCHANGED <<sessionVars, pointVars, guestVars, flowVars>>

\* Mutant of ReaderNack: the last packet is not sent again.
ReaderNackIgnored ==
    /\ reader = "recv" /\ ~closed /\ wire # <<>> /\ Head(wire) = Nack
    /\ wire' = Tail(wire)
    /\ UNCHANGED <<client, sends, nacks, owed, asked, replies, last_packet, commands, reader, closed>>
    /\ UNCHANGED <<sessionVars, pointVars, guestVars, flowVars>>

ReaderNack ==
    /\ reader = "recv" /\ ~closed /\ wire # <<>> /\ Head(wire) = Nack
    /\ wire' = Tail(wire)
    /\ replies' = IF client # "gone" /\ last_packet # "none" THEN Append(replies, last_packet) ELSE replies
    /\ UNCHANGED <<client, sends, nacks, owed, asked, last_packet, commands, reader, closed>>
    /\ UNCHANGED <<sessionVars, pointVars, guestVars, flowVars>>

\* _interrupt reads _running under the lock and acts on it after the lock.
ReaderInterrupt ==
    /\ reader = "recv" /\ ~closed /\ wire # <<>> /\ Head(wire) = CtrlC
    /\ wire' = Tail(wire)
    /\ \/ running /\ reader' = "interrupt" /\ UNCHANGED commands
       \/ ~running /\ commands' = Append(commands, HaltReason) /\ UNCHANGED reader
    /\ UNCHANGED <<client, sends, nacks, owed, asked, replies, last_packet, closed>>
    /\ UNCHANGED <<sessionVars, pointVars, guestVars, flowVars>>

\* Mutant of ReaderEnd: no None at the end of the connection.
ReaderEndSilently ==
    /\ reader = "recv" /\ (closed \/ (client = "gone" /\ wire = <<>>))
    /\ reader' = "final"
    /\ UNCHANGED <<replies, last_packet, closed, commands>>
    /\ UNCHANGED <<clientVars, sessionVars, pointVars, guestVars, flowVars>>

\* The end of the connection, or an error of the socket: the finally of _read_loop puts None.
ReaderEnd ==
    /\ reader = "recv" /\ (closed \/ (client = "gone" /\ wire = <<>>))
    /\ commands' = Append(commands, None) /\ reader' = "final"
    /\ UNCHANGED <<replies, last_packet, closed>>
    /\ UNCHANGED <<clientVars, sessionVars, pointVars, guestVars, flowVars>>

\* _request_stop of the reader: the pending stop first, the stop of Unicorn after the lock.
ReaderRequest ==
    /\ reader \in {"interrupt", "final"}
    /\ RequestStop("interrupt")
    /\ reader' = CASE reader = "final" -> IF StopAccepted THEN "last stop" ELSE "done"
                   [] OTHER            -> IF StopAccepted THEN "stop" ELSE "recv"
    /\ UNCHANGED <<running, resume_pc, library, replies, last_packet, commands, closed>>
    /\ UNCHANGED <<clientVars, pointVars, guestVars, flowVars>>

\* Unicorn ignores a stop outside of a start, and may lose one that another thread sends.
ReaderStop ==
    /\ reader \in {"stop", "last stop"}
    /\ \/ epc \in {"unicorn", "free"} /\ uc_stop' = TRUE
       \/ UNCHANGED uc_stop
    /\ reader' = IF reader = "last stop" THEN "done" ELSE "recv"
    /\ UNCHANGED <<pc, native_exit, fault, runs, is_emu_complete, exhausted, changed, fresh, missed>>
    /\ UNCHANGED <<replies, last_packet, commands, closed>>
    /\ UNCHANGED <<clientVars, sessionVars, pointVars, flowVars>>

Reader == ReaderPacket \/ ReaderNack \/ ReaderInterrupt \/ ReaderEnd \/ ReaderRequest \/ ReaderStop

-----------------------------------------------------------------------------
(* command_loop and the commands.                                          *)

\* The stop reply of command_loop(reason); a reply that fails detaches.
Report(reason, why) ==
    /\ after' = why /\ stop_reason' = reason /\ running' = FALSE /\ library' = FALSE
    /\ \/ (Sends("stop") \/ Vanishes("stop")) /\ stop_pending' = FALSE /\ epc' = "wait" /\ UNCHANGED closed
       \/ SendFails /\ closed' = TRUE /\ UNCHANGED stop_pending
          /\ epc' = IF why = "exit" \/ exhausted THEN "end" ELSE "free"

\* A command that only answers.  "?" is the one that sends a stop reply.
Answer(c) == IF c[1] = "?" THEN Sends("stop") \/ Vanishes("stop") ELSE Sends("ok") \/ Vanishes("ok")

\* _change_breakpoint and _refresh_hooks: the hooks are those of the points that are set.
ChangePoints(c) ==
    /\ exec_breakpoints' = CASE c[1] = "Z" -> exec_breakpoints \cup {c[2]}
                             [] c[1] = "z" -> exec_breakpoints \ {c[2]}
                             [] OTHER -> exec_breakpoints
    /\ watchpoints' = CASE c[1] = "Zw" -> watchpoints \cup {c[2]}
                        [] c[1] = "zw" -> watchpoints \ {c[2]}
                        [] OTHER -> watchpoints

HandleCommand(c) ==
    /\ IF c[1] \in {"?", "query", "setpc"} THEN UNCHANGED pointVars ELSE ChangePoints(c)
    /\ IF c[1] = "setpc" THEN pc' \in Addrs /\ native_exit' = "none" ELSE UNCHANGED <<pc, native_exit>>
    /\ library' = (library /\ c[1] # "?")
    /\ \/ Answer(c) /\ UNCHANGED <<epc, closed>>
       \/ SendFails /\ closed' = TRUE /\ epc' = IF after = "exit" \/ exhausted THEN "end" ELSE "free"
    /\ UNCHANGED <<after, step, running, stop_pending, stop_reason, resume_pc>>
    /\ UNCHANGED <<uc_stop, fault, runs, is_emu_complete, exhausted, changed, fresh, missed>>

\* The emulator goes on after the stop: with the next run if the stop was a fault.
GoOn == IF after \in Faults
        THEN \/ runs > 0 /\ runs' = runs - 1 /\ pc' \in Addrs /\ UNCHANGED is_emu_complete
             \/ runs = 0 /\ is_emu_complete' = TRUE /\ UNCHANGED <<runs, pc>>
        ELSE UNCHANGED <<runs, pc, is_emu_complete>>

\* A resume.  After the total time, and after the final stop, the client only gets the exit.
Resume(c) ==
    /\ step' = (c[1] = "s") /\ running' = TRUE /\ resume_pc' = pc /\ fresh' = pc
    /\ IF exhausted \/ after = "exit"
       THEN Notify /\ epc' = "end" /\ UNCHANGED <<runs, pc, is_emu_complete>>
       ELSE /\ GoOn
            /\ IF is_emu_complete' THEN Notify /\ epc' = "end"
               ELSE epc' = "begin" /\ UNCHANGED <<replies, last_packet>>
    /\ native_exit' = IF after \in Faults THEN "none" ELSE native_exit
    /\ UNCHANGED <<after, stop_pending, stop_reason, library, closed, pointVars>>
    /\ UNCHANGED <<uc_stop, fault, exhausted, changed, missed>>

\* Kill, detach, and the None of a reader that ended.
Leave(c) ==
    /\ closed' = TRUE
    /\ IF c = None THEN UNCHANGED <<replies, last_packet>>
       ELSE Sends("ok") \/ Vanishes("ok") \/ SendFails
    /\ epc' = IF c[1] = "k" \/ exhausted \/ after = "exit" THEN "end" ELSE "free"
    /\ UNCHANGED <<after, step, sessionVars, pointVars, guestVars>>

EmuCommand ==
    /\ epc = "wait" /\ commands # <<>>
    /\ commands' = Tail(commands)
    /\ LET c == Head(commands) IN
         \/ c[1] \in {"c", "s"} /\ Resume(c)
         \/ c[1] \in {"D", "k", "None"} /\ Leave(c)
         \/ c[1] \notin {"c", "s", "D", "k", "None"} /\ HandleCommand(c)
    /\ UNCHANGED <<clientVars, reader>>

-----------------------------------------------------------------------------
(* The run loop with a debugger.                                           *)

\* Mutant of BeginRun: _resume_pc is kept for a run that starts elsewhere.
BeginRunKeepsPc ==
    /\ epc = "begin"
    /\ running' = TRUE /\ changed' = FALSE
    /\ IF stop_pending
       THEN epc' = "finish" /\ UNCHANGED stop_reason
       ELSE epc' = "prepare" /\ stop_reason' = "none"
    /\ UNCHANGED <<stop_pending, library, after, step, pc, uc_stop, native_exit, fault, runs, resume_pc>>
    /\ UNCHANGED <<is_emu_complete, exhausted, fresh, missed, clientVars, pointVars, transportVars>>

\* begin_run: a stop that came since the resume keeps the run from starting.
BeginRun ==
    /\ epc = "begin"
    /\ running' = TRUE /\ changed' = FALSE
    /\ IF stop_pending
       THEN epc' = "finish" /\ UNCHANGED <<stop_reason, resume_pc>>
       ELSE /\ epc' = "prepare" /\ stop_reason' = "none"
            /\ resume_pc' = IF resume_pc = pc THEN pc ELSE NoAddr
    /\ UNCHANGED <<stop_pending, library, after, step, pc, uc_stop, native_exit, fault, runs>>
    /\ UNCHANGED <<is_emu_complete, exhausted, fresh, missed, clientVars, pointVars, transportVars>>

\* The head of _execute_current_run: handle the exit that is left, or start Unicorn.
Prepare ==
    /\ epc = "prepare"
    /\ epc' = IF native_exit # "none" THEN "exit" ELSE "unicorn"
    /\ uc_stop' = FALSE
    /\ UNCHANGED <<after, step, pc, native_exit, fault, runs, is_emu_complete, exhausted, changed>>
    /\ UNCHANGED <<fresh, missed, clientVars, sessionVars, pointVars, transportVars>>

\* _on_read and _on_write: the kind of the watchpoint that an access hits.
WatchOf(access) ==
    CASE access = "none" -> "none"
      [] access # "none" /\ "awatch" \in watchpoints -> "awatch"
      [] access = "read" /\ "rwatch" \in watchpoints -> "rwatch"
      [] access = "write" /\ "watch" \in watchpoints -> "watch"
      [] OTHER -> "none"

\* An instruction: its outcome is the next one, a recorded exit or a fault.
Execute(access, outcome) ==
    /\ IF WatchOf(access) = "none" THEN UNCHANGED <<stop_pending, stop_reason>>
       ELSE RequestStop(WatchOf(access))
    /\ resume_pc' = IF resume_pc = pc /\ (watchpoints # {} \/ pc \in exec_breakpoints)
                    THEN NoAddr ELSE resume_pc
    /\ fresh' = NoAddr
    /\ missed' = (missed \/ (pc \in exec_breakpoints /\ fresh # pc /\ ~stop_pending))
    /\ native_exit' = IF outcome \in {"api", "return"} THEN outcome ELSE "none"
    /\ fault' = (outcome = "fault") /\ uc_stop' = (step \/ outcome # "next")
    /\ CASE outcome = "next" -> pc' \in Addrs
         [] outcome = "fault" -> UNCHANGED pc
         [] OTHER -> pc' = Trap

\* _on_code, before the instruction: a watch that completed or a breakpoint stops Unicorn.
OnCodeStops ==
    \/ watchpoints # {} /\ stop_pending /\ stop_reason \in Watches
    \/ pc \in exec_breakpoints /\ resume_pc # pc /\ ~stop_pending

UcInstruction ==
    /\ epc = "unicorn" /\ ~uc_stop
    /\ IF OnCodeStops
       THEN /\ uc_stop' = TRUE
            /\ IF stop_pending THEN UNCHANGED <<stop_pending, stop_reason>> ELSE RequestStop("break")
            /\ UNCHANGED <<resume_pc, fresh, missed, native_exit, fault, pc>>
       ELSE \E access \in {"none", "read", "write"}, outcome \in {"next", "api", "return", "fault"} :
              Execute(access, outcome)
    /\ UNCHANGED <<running, library, runs, is_emu_complete, exhausted, changed>>
    /\ UNCHANGED <<clientVars, pointVars, flowVars, transportVars>>

\* Unicorn returned.
UcReturn ==
    /\ epc = "unicorn" /\ uc_stop
    /\ epc' = IF fault \/ stop_pending \/ native_exit = "none" THEN "finish" ELSE "exit"
    /\ UNCHANGED <<after, step, clientVars, sessionVars, pointVars, guestVars, transportVars>>

\* The time limit of the run or the total limit stops Unicorn (StartTimer repeats that stop).
UcLimit(kind) ==
    /\ epc = "unicorn" /\ HasTimeout
    /\ RequestStop(kind)
    /\ exhausted' = (exhausted \/ kind = "max_total_time")
    /\ runs' = IF kind = "max_total_time" THEN 0 ELSE runs
    /\ epc' = "finish"
    /\ UNCHANGED <<running, resume_pc, library, pc, uc_stop, native_exit, fault, is_emu_complete>>
    /\ UNCHANGED <<changed, fresh, missed, after, step, clientVars, pointVars, transportVars>>

\* Mutant of CompleteRun: the queue is not checked.
CompleteRunUnchecked ==
    /\ native_exit' = "none"
    /\ runs' = runs - 1 /\ pc' \in Addrs /\ changed' = TRUE /\ UNCHANGED is_emu_complete

\* on_run_complete prepares the next run or completes the emulation.
CompleteRun ==
    /\ native_exit' = "none"
    /\ \/ runs > 0 /\ runs' = runs - 1 /\ pc' \in Addrs /\ changed' = TRUE /\ UNCHANGED is_emu_complete
       \/ runs = 0 /\ is_emu_complete' = TRUE /\ UNCHANGED <<runs, pc, changed>>

\* An API handler: it returns, loads a module, has no implementation, ends the run or raises.
HandleApi ==
    \/ /\ native_exit' = "none" /\ pc' \in Addrs /\ UNCHANGED <<stop_pending, stop_reason, library>>
       /\ epc' = (IF step THEN "finish" ELSE "prepare") /\ UNCHANGED <<runs, is_emu_complete, changed>>
    \/ /\ native_exit' = "none" /\ pc' \in Addrs /\ RequestStop("library") /\ library' = TRUE
       /\ epc' = "finish" /\ UNCHANGED <<runs, is_emu_complete, changed>>
    \/ /\ RequestStop("unsupported_api") /\ epc' = "finish"
       /\ UNCHANGED <<native_exit, pc, library, runs, is_emu_complete, changed>>
    \/ CompleteRun /\ epc' = "finish" /\ UNCHANGED <<stop_pending, stop_reason, library>>
    \/ /\ native_exit' = "none" /\ epc' = "raise"
       /\ UNCHANGED <<pc, stop_pending, stop_reason, library, runs, is_emu_complete, changed>>

HandleExit ==
    /\ epc = "exit"
    /\ \/ /\ stop_pending /\ epc' = "finish"
          /\ UNCHANGED <<native_exit, pc, stop_pending, stop_reason, library, runs, is_emu_complete, changed>>
       \/ ~stop_pending /\ native_exit = "api" /\ HandleApi
       \/ /\ ~stop_pending /\ native_exit = "return" /\ CompleteRun /\ epc' = "finish"
          /\ UNCHANGED <<stop_pending, stop_reason, library>>
    /\ UNCHANGED <<running, resume_pc, uc_stop, fault, exhausted, fresh, missed, after, step>>
    /\ UNCHANGED <<clientVars, pointVars, transportVars>>

\* finish_run and the choice of the stop that command_loop reports.
FinishReason ==
    CASE fault -> "fault"
      [] ~fault /\ stop_pending -> stop_reason
      [] ~fault /\ ~stop_pending /\ step /\ ~is_emu_complete -> "step"
      [] OTHER -> "none"

FinishRun ==
    /\ epc = "finish"
    /\ resume_pc' = NoAddr /\ fresh' = NoAddr /\ fault' = FALSE
    /\ CASE FinishReason # "none" -> Report(FinishReason, IF fault THEN "fault" ELSE "run")
         [] FinishReason = "none" /\ changed /\ ~is_emu_complete ->
              /\ epc' = "begin" /\ running' = FALSE
              /\ UNCHANGED <<stop_reason, stop_pending, after, library, replies, last_packet, closed>>
         [] OTHER -> Report("exit", "exit")
    /\ UNCHANGED <<step, pc, uc_stop, native_exit, runs, is_emu_complete, exhausted, changed, missed>>
    /\ UNCHANGED <<clientVars, pointVars, commands, reader>>

\* An exception in the run loop: the registers of the fault are reported before the run ends.
ReportException ==
    /\ epc = "raise"
    /\ resume_pc' = NoAddr /\ fresh' = NoAddr
    /\ Report("exception", "exception")
    /\ UNCHANGED <<step, pc, uc_stop, native_exit, fault, runs, is_emu_complete, exhausted, changed, missed>>
    /\ UNCHANGED <<clientVars, pointVars, commands, reader>>

\* The with statement of start() closes the server.
Close ==
    /\ epc = "end" /\ ~closed /\ closed' = TRUE
    /\ UNCHANGED <<replies, last_packet, commands, reader>>
    /\ UNCHANGED <<clientVars, sessionVars, pointVars, guestVars, flowVars>>

Emulator ==
    \/ EmuCommand \/ BeginRun \/ Prepare \/ UcReturn \/ HandleExit \/ FinishRun
    \/ ReportException \/ Close

Limit == \E kind \in {"timeout", "max_total_time"} : UcLimit(kind)

Terminated == epc \in {"free", "end"} /\ reader = "done" /\ UNCHANGED vars

Next ==
    \/ \E c \in Commands : ClientSend(c)
    \/ ClientInterrupt \/ ClientDisconnect \/ ClientReceive \/ ClientSeesClose
    \/ Reader \/ Emulator \/ UcInstruction \/ Limit
    \/ Terminated

\* The host runs the threads, the client reads what arrives, and the deadline of a run passes even if
\* the guest leaves Unicorn again and again.
Fairness ==
    /\ WF_vars(ClientReceive \/ ClientSeesClose) /\ WF_vars(Reader) /\ WF_vars(Emulator) /\ WF_vars(UcInstruction)
    /\ SF_vars(Limit)

Spec == Init /\ [][Next]_vars /\ Fairness

-----------------------------------------------------------------------------
(* Properties.                                                             *)

\* An instruction with a breakpoint runs only as the first one after a resume from there, or after
\* another stop was requested: _resume_pc never hides a breakpoint from a later pass or a later run.
BreakpointStops == ~missed

\* A client that resumed the target gets a stop or the exit, or it is gone: with a time limit,
\* no order of the reader's and the emulator's steps leaves both sides waiting.
ResumeEnds == client = "waiting" ~> client # "waiting"

\* The emulator does not wait for a client that is gone: it detaches or ends.
DeadClientDetaches == client = "gone" ~> epc \in {"free", "end"}

\* doc/gdb.md: "When it gets Ctrl-C, it stops Unicorn."  A client that sends Ctrl-C while it
\* waits gets a stop, without the help of a time limit.
CtrlCStops == asked ~> ~asked
=============================================================================
