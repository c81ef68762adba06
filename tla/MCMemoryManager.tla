--------------------------- MODULE MCMemoryManager ---------------------------
(* Three allocations in a small address space: pages 1 .. 4, the machine at   *)
(* page 2, the reserved range at page 3, the address limit after page 4.      *)
EXTENDS MemorySearch, TLC
CONSTANTS a1, a2, a3
Symmetry == Permutations(Allocs)
==============================================================================
