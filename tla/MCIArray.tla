------------------------------ MODULE MCIArray ------------------------------
(***************************************************************************)
(* Model-checking instance of IArray.  N = 2 is the smallest inline        *)
(* capacity the source allows; with slices and iterators of up to three   *)
(* values an array spills (2 -> 4), grows on the heap (4 -> 8), is         *)
(* truncated back below N, and is dropped inline and spilled.  Two         *)
(* addresses suffice: at most two blocks are live at once (a Vec handed to *)
(* from_vec while the array's own block is still reachable never happens, *)
(* construction only runs with no instance alive).  The Copy run uses     *)
(* N = 4 and slices of five, so reserve rounds 4 + 5 up to 16.             *)
(***************************************************************************)
EXTENDS IArray

CONSTANTS p1, p2

MCPtrs == {p1, p2}

\* Vec capacities above N: from_vec adopts the Vec's block.
MCVecCapsAdopt == {3, 4}

\* Vec capacities at or below N as well: from_vec copies inline.
MCVecCapsAll == {0, 1, 2, 3, 4}

\* For N = 4: capacities that from_vec copies inline and ones it adopts.
MCVecCapsWide == 0..6

=============================================================================
