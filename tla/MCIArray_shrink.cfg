\* shrink() called on inline and on spilled arrays.  A fault ends the
\* process, so a behaviour may stop there.
CONSTANTS
  p1 = p1
  p2 = p2
  Ptrs <- MCPtrs
  N = 2
  MaxElems = 6
  MaxSlice = 3
  CopyElems = FALSE
  VecCaps <- MCVecCapsAdopt
  ShrinkInline = TRUE
  InsertMidSlice = FALSE
SPECIFICATION Spec
PROPERTY ShrinkContract
CHECK_DEADLOCK FALSE
