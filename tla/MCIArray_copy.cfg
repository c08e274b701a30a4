\* IArray of a Copy element type with N = 4: the slice methods too, and
\* from_vec with capacities on both sides of N (a Copy Vec has no
\* destructor to run twice).  Slices of five reach reserve's
\* next_power_of_two from 4 + 5 to 16, past a single doubling.
\* insert_slice_at_index is called at index len only.
CONSTANTS
  p1 = p1
  p2 = p2
  Ptrs <- MCPtrs
  N = 4
  MaxElems = 8
  MaxSlice = 5
  CopyElems = TRUE
  VecCaps <- MCVecCapsWide
  ShrinkInline = FALSE
  InsertMidSlice = FALSE
SPECIFICATION Spec
INVARIANT MemorySafe
INVARIANT RepInv
PROPERTY RefinesSeqContainer
