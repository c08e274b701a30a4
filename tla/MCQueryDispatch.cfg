\* One connection issuing simple queries until a write fails.  The task
\* returns Err at the first I/O error and the connection is dropped, so a
\* behaviour may end there.
CONSTANTS
  e1 = e1
  e2 = e2
  e3 = e3
  e4 = e4
  m = m
  Tags <- MCTags
  UseTag <- TagUse
  Tokens <- MCTokens
  Entities <- MCEntities
  Malformed = m
  Existing <- MCExisting
  NoDefault <- MCNoDefault
  Initial = e1
  MaxArgs = 2
SPECIFICATION Spec
INVARIANT DispatchIsCaseInsensitive
PROPERTY SwapOnlyOnValidUse
CHECK_DEADLOCK FALSE
