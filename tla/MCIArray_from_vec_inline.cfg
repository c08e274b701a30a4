\* from_vec with a Vec whose capacity is at most N, element type with a destructor.
\* A fault ends the process, so a behaviour may stop there.
CONSTANTS
  p1 = p1
  p2 = p2
  Ptrs <- MCPtrs
  N = 2
  MaxElems = 6
  MaxSlice = 3
  CopyElems = FALSE
  VecCaps <- MCVecCapsAll
  ShrinkInline = FALSE
  InsertMidSlice = FALSE
SPECIFICATION Spec
INVARIANT OwnedExactlyOnce
CHECK_DEADLOCK FALSE
