----------------------------- MODULE MCIArrayEq -----------------------------
(***************************************************************************)
(* Model-checking instance of IArrayEq: inline capacities 2 and 4, as the *)
(* test's 32 and 64 in proportion.  With six values per array and slices  *)
(* of up to three, the small array spills at its third value and grows    *)
(* to 8 while the large one is still inline, and the large one spills at  *)
(* its fifth.  Two addresses hold both arrays' blocks at once.            *)
(***************************************************************************)
EXTENDS IArrayEq

CONSTANTS p1, p2

MCPtrs == {p1, p2}

=============================================================================
