\* IArray<[u8; 2]> against IArray<[u8; 4]>, each built by
\* extend_from_slice or by push, with pops and truncates of both.
CONSTANTS
  p1 = p1
  p2 = p2
  Ptrs <- MCPtrs
  NA = 2
  NB = 4
  MaxElems = 6
  MaxSlice = 3
SPECIFICATION Spec
INVARIANT EqAcrossCapacities
