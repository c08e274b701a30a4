\* A 4-bit usize in a release build: values of 16 and more wrap.  Every
\* buffer of up to 4 bytes, alone and after the heads.  The caller
\* discards the parser at its first error, which ends a behaviour.
CONSTANTS
  Alphabet <- MCAlphabet
  Heads <- MCHeads
  MaxTail = 4
  UsizeBits = 4
  OverflowChecks = FALSE
SPECIFICATION Spec
INVARIANT DecodesExactly
CHECK_DEADLOCK FALSE
