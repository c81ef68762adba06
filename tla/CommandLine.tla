-------------------------- MODULE CommandLine --------------------------
(***************************************************************************)
(* The command line of speakeasy (cli.py): the parent process starts a     *)
(* child that emulates the input, waits for its report with a wall limit,  *)
(* stops it on the limit or on Ctrl-C, and prints the report.              *)
(*                                                                         *)
(* The two processes share a queue and an event.  put() leaves the report  *)
(* in a buffer of the child, a thread of the child feeds it to the pipe,   *)
(* and a child that returns waits for that thread; a child that is killed  *)
(* takes its buffer with it.  A wait with a timeout may end at any time.   *)
(***************************************************************************)
EXTENDS Integers

CONSTANT MaxInterrupts  \* bound on the Ctrl-C of the user

VARIABLES cli,      \* the options that matter: no_mp, limit (a wall limit is set), archive (dropped_files_path is set)
          child,    \* the emulating process: where it is, and the report and the error that it has
          q,        \* the queue: `buffer` in the child, `pipe` to the parent
          evt,      \* the exit event is set
          parent,   \* where the parent is, and the result that it has
          hist      \* history: interrupts, the child was terminated, why the last get_child_result gave up

cli_vars == <<cli, child, q, evt, parent, hist>>

None == [report |-> "none", error |-> "none", is |-> FALSE]
Result(r, e) == [report |-> r, error |-> e, is |-> TRUE]

InitCli ==
  /\ cli \in [no_mp : BOOLEAN, limit : BOOLEAN, archive : BOOLEAN]
  /\ child = [pc |-> "new", report |-> "none", error |-> "none", has_emulator |-> FALSE]
  /\ q = [buffer |-> None, pipe |-> None]
  /\ evt = FALSE
  /\ parent = [pc |-> "start", where |-> "loop", result |-> None, exit |-> -1]
  /\ hist = [interrupts |-> 0, terminated |-> FALSE, gaveup |-> "no"]

Alive == child.pc \notin {"new", "dead"}
ChildGoes(pc) == child' = [child EXCEPT !.pc = pc]
ParentGoes(pc) == parent' = [parent EXCEPT !.pc = pc]

-----------------------------------------------------------------------------
(* run_main and main                                                       *)

\* A wrong option, config or target ends the program with the usage error of argparse
\* (--dump-default-config prints and returns before; it starts nothing).
run_main ==
  /\ parent.pc = "start"
  /\ \/ parent' = [parent EXCEPT !.pc = "done", !.exit = 2] /\ UNCHANGED child
     \/ /\ ParentGoes(IF cli.no_mp THEN "inline" ELSE "top")
        /\ ChildGoes("emulating")
  /\ UNCHANGED <<cli, q, evt, hist>>

\* With --no-mp the parent emulates itself and reads its own queue after emulate_binary returned.
run_inline ==
  /\ parent.pc = "inline" /\ child.pc = "exiting" /\ q.pipe.is
  /\ parent' = [parent EXCEPT !.pc = "output", !.result = q.pipe]
  /\ q' = [q EXCEPT !.pipe = None]
  /\ UNCHANGED <<cli, child, evt, hist>>

\* The report goes to the file or to stdout, whose reader may be gone (BrokenPipeError).
main ==
  /\ parent.pc = "output"
  /\ \E broken \in BOOLEAN :
       /\ broken => parent.result.report # "none"
       /\ parent' = [parent EXCEPT !.pc = "done",
                                   !.exit = IF broken \/ parent.result.error # "none" THEN 1 ELSE 0]
  /\ UNCHANGED <<cli, child, q, evt, hist>>

-----------------------------------------------------------------------------
(* emulate_binary, in the child                                            *)

\* Speakeasy(), load and run: they return, raise, or end by the KeyboardInterrupt that
\* the child gets too, which is no Exception and leaves `error` alone.
emulate ==
  /\ child.pc = "emulating"
  /\ \E has \in BOOLEAN, how \in {"returns", "raises", "interrupted"} :
       /\ how = "returns" => has
       /\ how = "interrupted" => hist.interrupts > 0
       /\ child' = [child EXCEPT !.pc = IF has THEN "reporting" ELSE "putting", !.has_emulator = has,
                                 !.error = IF how = "raises" THEN "error" ELSE "none"]
  /\ UNCHANGED <<cli, q, evt, parent, hist>>

build_report ==
  /\ child.pc = "reporting"
  /\ \/ child' = [child EXCEPT !.pc = "putting", !.report = "report"]
     \/ child' = [child EXCEPT !.pc = "putting", !.error = "error"]
  /\ UNCHANGED <<cli, q, evt, parent, hist>>

put_result ==
  /\ child.pc = "putting"
  /\ q' = [q EXCEPT !.buffer = Result(child.report, child.error)]
  /\ ChildGoes(IF cli.archive /\ child.has_emulator THEN "archiving" ELSE "exiting")
  /\ UNCHANGED <<cli, evt, parent, hist>>

\* An archive that cannot be made or written raises after the report was put: the child
\* still exits as usual, and the parent of --no-mp ends with the exception.
save_archive ==
  /\ child.pc = "archiving"
  /\ ChildGoes("exiting")
  /\ \/ UNCHANGED parent
     \/ cli.no_mp /\ parent' = [parent EXCEPT !.pc = "done", !.exit = 1]
  /\ UNCHANGED <<cli, q, evt, hist>>

emulate_binary == emulate \/ build_report \/ put_result \/ save_archive

\* The feeder thread of the queue, and the exit of a process that joins it.
feed ==
  /\ q.buffer.is /\ Alive
  /\ q' = [buffer |-> None, pipe |-> q.buffer]
  /\ UNCHANGED <<cli, child, evt, parent, hist>>

exit_child ==
  /\ ~cli.no_mp /\ child.pc = "exiting" /\ ~q.buffer.is
  /\ ChildGoes("dead")
  /\ UNCHANGED <<cli, q, evt, parent, hist>>

\* A crash of the engine kills the process, and the program with it when it is the only one.
crash ==
  /\ Alive
  /\ ChildGoes("dead") /\ q' = [q EXCEPT !.buffer = None]
  /\ parent' = IF cli.no_mp THEN [parent EXCEPT !.pc = "done", !.exit = 139] ELSE parent
  /\ UNCHANGED <<cli, evt, hist>>

-----------------------------------------------------------------------------
(* wait_for_child and get_child_result, in the parent                      *)

\* A new call of get_child_result.
Asks == hist' = [hist EXCEPT !.gaveup = "no"]

\* One turn of the loop: past the wall limit the child is told to stop and gets the grace.
wait_for_child ==
  /\ parent.pc = "top"
  /\ \/ /\ cli.limit
        /\ evt' = TRUE
        /\ parent' = [parent EXCEPT !.pc = "get", !.where = "grace"]
     \/ /\ evt' = evt
        /\ parent' = [parent EXCEPT !.pc = "get", !.where = "loop"]
  /\ Asks
  /\ UNCHANGED <<cli, child, q>>

\* What wait_for_child does with the value r of get_child_result.
Returned(r) ==
  parent' = [parent EXCEPT !.result = r, !.pc = CASE r.is -> "join"
                                                  [] ~r.is /\ parent.where = "loop" -> "check"
                                                  [] OTHER -> "give up"]

get_result ==
  /\ parent.pc = "get" /\ q.pipe.is
  /\ q' = [q EXCEPT !.pipe = None]
  /\ Returned(q.pipe)
  /\ UNCHANGED <<cli, child, evt, hist>>

\* The wait ends on Empty: p.is_alive() is a later step, when the report may have come.
get_empty ==
  /\ parent.pc = "get" /\ ~q.pipe.is
  /\ ParentGoes("empty")
  /\ UNCHANGED <<cli, child, q, evt, hist>>

get_expired ==
  /\ parent.pc = "empty" /\ Alive
  /\ \/ ParentGoes("get") /\ UNCHANGED hist
     \/ Returned(None) /\ hist' = [hist EXCEPT !.gaveup = "deadline"]
  /\ UNCHANGED <<cli, child, q, evt>>

\* The child is dead: one more get finds what it sent before.
get_last ==
  /\ parent.pc = "empty" /\ ~Alive
  /\ IF q.pipe.is THEN q' = [q EXCEPT !.pipe = None] /\ Returned(q.pipe) /\ UNCHANGED hist
                  ELSE Returned(None) /\ hist' = [hist EXCEPT !.gaveup = "dead"] /\ UNCHANGED q
  /\ UNCHANGED <<cli, child, evt>>

get_child_result == get_result \/ get_empty \/ get_expired \/ get_last

\* Mutant of check_child: a child that is alive is given up too.
check_childGivesUp ==
  /\ parent.pc = "check"
  /\ ParentGoes("give up")
  /\ UNCHANGED <<cli, child, q, evt, hist>>

check_child ==
  /\ parent.pc = "check"
  /\ ParentGoes(IF Alive THEN "top" ELSE "give up")
  /\ UNCHANGED <<cli, child, q, evt, hist>>

\* Ctrl-C: inside the try block of the loop it stops the child; elsewhere it ends the parent.
KeyboardInterrupt ==
  /\ hist.interrupts < MaxInterrupts /\ parent.pc \notin {"start", "done"}
  /\ IF parent.pc \in {"get", "empty", "check"} /\ parent.where = "loop"
     THEN /\ evt' = TRUE /\ parent' = [parent EXCEPT !.pc = "get", !.where = "grace"]
          /\ hist' = [hist EXCEPT !.interrupts = @ + 1, !.gaveup = "no"]
     ELSE /\ UNCHANGED evt /\ parent' = [parent EXCEPT !.pc = "done", !.exit = 130]
          /\ hist' = [hist EXCEPT !.interrupts = @ + 1]
  /\ child' = IF cli.no_mp THEN [child EXCEPT !.pc = "dead"] ELSE child
  /\ UNCHANGED <<cli, q>>

\* No result: join with the grace, then terminate.
give_up ==
  /\ parent.pc = "give up"
  /\ IF Alive
     THEN /\ ChildGoes("dead") /\ q' = [q EXCEPT !.buffer = None]
          /\ hist' = [hist EXCEPT !.terminated = TRUE]
     ELSE UNCHANGED <<child, q, hist>>
  /\ ParentGoes("join")
  /\ UNCHANGED <<cli, evt>>

join_child ==
  /\ parent.pc = "join" /\ ~Alive
  /\ parent' = [parent EXCEPT !.pc = "output",
                              !.result = IF @.is THEN @ ELSE Result("none", "sent no report")]
  /\ UNCHANGED <<cli, child, q, evt, hist>>

-----------------------------------------------------------------------------
NextCli ==
  \/ run_main \/ run_inline \/ main
  \/ emulate_binary \/ feed \/ exit_child \/ crash
  \/ wait_for_child \/ get_child_result \/ check_child \/ KeyboardInterrupt \/ give_up \/ join_child

SpecCli == InitCli /\ [][NextCli]_cli_vars

Results == [report : {"none", "report"}, error : {"none", "error", "sent no report"}, is : BOOLEAN]
Children == [pc : {"new", "emulating", "reporting", "putting", "archiving", "exiting", "dead"},
             report : {"none", "report"}, error : {"none", "error"}, has_emulator : BOOLEAN]
Parents == [pc : {"start", "inline", "top", "get", "empty", "check", "give up", "join", "output", "done"},
            where : {"loop", "grace"}, result : Results, exit : {-1, 0, 1, 2, 130, 139}]
Queues == [buffer : Results, pipe : Results]
Histories == [interrupts : Nat, terminated : BOOLEAN, gaveup : {"no", "deadline", "dead"}]

\* The types of the variables, and the child puts once.
CliTypeOK ==
  /\ cli \in [no_mp : BOOLEAN, limit : BOOLEAN, archive : BOOLEAN]
  /\ child \in Children /\ q \in Queues /\ evt \in BOOLEAN /\ parent \in Parents /\ hist \in Histories
  /\ q.buffer.is => ~q.pipe.is

\* A report is left in the queue only when it came after the last get_child_result had
\* ended on its deadline, which it does while the child lives.  That report is lost: the
\* child may send it and exit before the loop asks is_alive() (cli.py:129), or while the
\* parent joins it.  It is never lost because the child was found dead, which is seen
\* after the queue was seen empty: the report may have come in between.
SentReportsAreRead ==
  (parent.pc = "output" /\ q.pipe.is) => hist.gaveup = "deadline"

\* Only a child that was asked to stop is terminated: without a wall limit or a Ctrl-C the
\* parent waits for as long as the child lives (wait_for_child).
TerminatedWasAsked == hist.terminated => evt

\* The program exits with 0 only when the emulation has a report and no error, or when a
\* Ctrl-C reached the child before it had an emulator: it sends neither (emulate_binary, main).
SuccessHasReport ==
  parent.exit = 0 =>
    /\ parent.result.error = "none"
    /\ parent.result.report = "report" \/ (hist.interrupts > 0 /\ ~child.has_emulator)

\* What the parent makes of its child: the reports that it can lose are those that come
\* after its last wait, it terminates only a child that was asked to stop, and an exit
\* status of 0 hides no failure.
ChildIsHeard == SentReportsAreRead /\ TerminatedWasAsked /\ SuccessHasReport
=============================================================================
