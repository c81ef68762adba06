----------------------------- MODULE TimedStart -----------------------------
(***************************************************************************)
(* What engine.start(address, timeout=...) promises to the run loop: guest *)
(* code runs until it ends by itself or, if the start has a timeout, until *)
(* the timeout has passed.  There is no thread and no deadline here;       *)
(* StartTimer shows how the timer thread keeps the promise, and RunLoop    *)
(* relies on it.                                                           *)
(***************************************************************************)
EXTENDS Naturals

CONSTANTS MaxTimeout    \* the longest timeout of a start, in ticks

VARIABLES start,        \* "idle", "entered", "running" or "returning"
          timed,        \* the start has a timeout
          left,         \* ticks left of the timeout
          cause         \* why the start ended: "none", "guest" or "timer"

vars == <<start, timed, left, cause>>

Init == start = "idle" /\ timed = FALSE /\ left = 0 /\ cause = "none"

\* A call of start(); without a timeout nothing bounds it.
Begin ==
  /\ start = "idle"
  /\ start' = "entered" /\ cause' = "none"
  /\ \/ timed' = TRUE /\ left' \in 1..MaxTimeout
     \/ timed' = FALSE /\ left' = 0

Run == start = "entered" /\ start' = "running" /\ UNCHANGED <<timed, left, cause>>

\* Guest code, a hook or an error ends the start.
End == start = "running" /\ start' = "returning" /\ cause' = "guest" /\ UNCHANGED <<timed, left>>

\* Only a start whose own timeout has passed is stopped.
Stop ==
  /\ start = "running" /\ timed /\ left = 0
  /\ start' = "returning" /\ cause' = "timer"
  /\ UNCHANGED <<timed, left>>

Return == start = "returning" /\ start' = "idle" /\ UNCHANGED <<timed, left, cause>>

Pass == left > 0 /\ left' = left - 1 /\ UNCHANGED <<start, timed, cause>>

Next == Begin \/ Run \/ End \/ Stop \/ Return \/ Pass

Spec == Init /\ [][Next]_vars

\* Every start that has a timeout ends: time passes, and then the stop comes.
FairSpec == Spec /\ WF_vars(Run) /\ WF_vars(Return) /\ WF_vars(Pass) /\ WF_vars(Stop)
=============================================================================
