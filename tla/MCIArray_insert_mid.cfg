\* insert_slice_at_index with index below len, Copy element type.
\* A fault ends the process, so a behaviour may stop there.
CONSTANTS
  p1 = p1
  p2 = p2
  Ptrs <- MCPtrs
  N = 4
  MaxElems = 6
  MaxSlice = 3
  CopyElems = TRUE
  VecCaps <- MCVecCapsAll
  ShrinkInline = FALSE
  InsertMidSlice = TRUE
SPECIFICATION Spec
PROPERTY RefinesSeqContainer
CHECK_DEADLOCK FALSE
