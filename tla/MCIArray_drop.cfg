\* IArray of an element type with a destructor: every method but the
\* Copy-only slice methods, every order of calls.
CONSTANTS
  p1 = p1
  p2 = p2
  Ptrs <- MCPtrs
  N = 2
  MaxElems = 7
  MaxSlice = 3
  CopyElems = FALSE
  VecCaps <- MCVecCapsAdopt
  ShrinkInline = FALSE
  InsertMidSlice = FALSE
SPECIFICATION Spec
INVARIANT TypeOK
INVARIANT MemorySafe
INVARIANT RepInv
INVARIANT OwnedExactlyOnce
