---------------------------- MODULE MCGdbSession ----------------------------
(* Instances of GdbSession for TLC. *)
EXTENDS GdbSession

=============================================================================
