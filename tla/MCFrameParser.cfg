\* Every buffer of up to 6 bytes over the frame bytes, alone and after the
\* heads, so that a tail holds a whole frame ("#2\n!1\n" from the start,
\* "#2\n&1\n" after the metaframe head); a 16-bit usize, which no value in
\* these buffers reaches.  The caller discards the parser at its first
\* error, which ends a behaviour.
CONSTANTS
  Alphabet <- MCFrameAlphabet
  Heads <- MCHeads
  MaxTail = 6
  UsizeBits = 16
  OverflowChecks = FALSE
SPECIFICATION Spec
INVARIANT TypeOK
INVARIANT Completeness
CHECK_DEADLOCK FALSE
