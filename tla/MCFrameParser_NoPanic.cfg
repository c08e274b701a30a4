\* Every buffer of up to 4 bytes, alone and after the heads: NoPanic.
\* The caller discards the parser at its first error, which ends a behaviour.
CONSTANTS
  Alphabet <- MCAlphabet
  Heads <- MCHeads
  MaxTail = 4
  UsizeBits = 16
  OverflowChecks = FALSE
SPECIFICATION Spec
INVARIANT NoPanic
CHECK_DEADLOCK FALSE
