-------------------------- MODULE MCDriverExports --------------------------
(* An instance of Kernel for TLC: the runs of one driver. *)
EXTENDS Kernel

MCIrpOrder == <<"create", "ioctl">>

Spec == Init /\ [][NextRuns]_vars
=============================================================================
