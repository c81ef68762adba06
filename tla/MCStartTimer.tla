---------------------------- MODULE MCStartTimer ----------------------------
(* Two possible timer threads: enough for a second thread to start while the *)
(* first one exits, if the timer allowed it.                                 *)
EXTENDS StartTimer
=============================================================================
