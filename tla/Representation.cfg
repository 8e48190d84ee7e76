\* Add, sub and the compare-and-branch on every pair of 4-bit operands in
\* every implemented representation, on 8-bit words.
CONSTANTS
  WordBits <- MCWordBits
  SmiShift <- MCSmiShift
  IntBits <- MCIntBits
SPECIFICATION Spec
\* A step applies one handler; nothing follows it.
CHECK_DEADLOCK FALSE
INVARIANTS
  ArithFaithful
  CompareFaithful
