\* Every representation change DoChange implements, on every 4-bit value.
CONSTANTS
  WordBits <- MCWordBits
  SmiShift <- MCSmiShift
  IntBits <- MCIntBits
SPECIFICATION Spec
\* A step applies one handler; nothing follows it.
CHECK_DEADLOCK FALSE
INVARIANTS
  ChangeFaithful
