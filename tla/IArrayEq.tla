------------------------------ MODULE IArrayEq ------------------------------
(***************************************************************************)
(* PartialEq<IArray<B>> for IArray<A> of src/server/src/coredb/iarray.rs: *)
(* two arrays of the same Copy element type and different inline          *)
(* capacities NA and NB, sharing the global allocator, compared through    *)
(* their slice views.  As in test_equality, each caller builds its array   *)
(* one way: a run of values goes into one array by extend_from_slice and   *)
(* into the other by a push per value, so the two spill and grow at        *)
(* different lengths.  Pops and truncates are applied to both.             *)
(*                                                                         *)
(* Each array creates its values 1, 2, ... from its own counter, so an     *)
(* array that has caught up with the other holds the same values.          *)
(***************************************************************************)
EXTENDS Naturals

CONSTANTS
  NA, NB,     \* the two inline capacities, A::size() and B::size()
  Ptrs,       \* the addresses the allocator can hand out
  MaxElems,   \* how many values each caller creates in all
  MaxSlice    \* longest slice a caller passes to extend_from_slice

VARIABLES
  mem, alive,                                         \* shared
  capA, storeA, nextA, phaseA, faultA, callA,         \* the IArray<A>
  capB, storeB, nextB, phaseB, faultB, callB          \* the IArray<B>

varsA == <<capA, storeA, nextA, phaseA, faultA, callA>>
varsB == <<capB, storeB, nextB, phaseB, faultB, callB>>
vars == <<mem, alive, varsA, varsB>>

A == INSTANCE IArray WITH
  N <- NA, CopyElems <- TRUE, VecCaps <- {}, ShrinkInline <- FALSE,
  InsertMidSlice <- FALSE, cap <- capA, store <- storeA, next <- nextA,
  phase <- phaseA, fault <- faultA, call <- callA

B == INSTANCE IArray WITH
  N <- NB, CopyElems <- TRUE, VecCaps <- {}, ShrinkInline <- FALSE,
  InsertMidSlice <- FALSE, cap <- capB, store <- storeB, next <- nextB,
  phase <- phaseB, fault <- faultB, call <- callB

\* eq: self[..] == rhs[..], the deref-as-slice views compared.
eq == A!Contents(A!Cur) = B!Contents(B!Cur)

-----------------------------------------------------------------------------
(* The two callers.                                                        *)

CaughtUp == nextA = nextB

Create == A!New /\ B!New

\* One caller extends its array by a slice while the two are level ...
ExtendA(k) == CaughtUp /\ A!ExtendFromSlice(k) /\ UNCHANGED varsB
ExtendB(k) == CaughtUp /\ B!ExtendFromSlice(k) /\ UNCHANGED varsA

\* ... and the other pushes the same values one at a time.
PushA == nextA < nextB /\ A!Push /\ UNCHANGED varsB
PushB == nextB < nextA /\ B!Push /\ UNCHANGED varsA

PopBoth == CaughtUp /\ A!Pop /\ B!Pop

TruncateBoth(t) == CaughtUp /\ A!Truncate(t) /\ B!Truncate(t)

Init == A!Init /\ B!Init

Next ==
  \/ Create
  \/ \E k \in 1..MaxSlice : ExtendA(k) \/ ExtendB(k)
  \/ PushA \/ PushB
  \/ PopBoth
  \/ \E t \in 0..MaxSlice : TruncateBoth(t)

Spec == Init /\ [][Next]_vars

-----------------------------------------------------------------------------
(* Properties.                                                             *)

\* Equality across inline capacities (spec.md 8.4, test_equality): an
\* IArray<A> and an IArray<B> compare equal exactly when they were given
\* the same values, whichever of extend_from_slice and push built them and
\* wherever each spilled to the heap or grew there.
EqAcrossCapacities ==
  phaseA = "live" /\ phaseB = "live" => (eq <=> CaughtUp)

=============================================================================
