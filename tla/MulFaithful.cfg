\* Smi multiplication on every pair of 4-bit Smis whose product fits: the
\* mul of two tagged words.
CONSTANTS
  WordBits <- MCWordBits
  SmiShift <- MCSmiShift
  IntBits <- MCIntBits
SPECIFICATION Spec
\* A step applies one handler; nothing follows it.
CHECK_DEADLOCK FALSE
INVARIANTS
  MulFaithful
