\* A graph with one instruction (typeof) that has no handler: the build
\* ends in UNIMPLEMENTED(), which ends the process.
CONSTANTS
  Graphs <- TypeofGraphs
  Ids <- MCIds
  Slots <- MCSlots
  MaxBlocks = 6
  MaxEnvs = 4
  Smi32 = TRUE
  NoValue = NoValue
  NoEnv = NoEnv
  NoBlock = NoBlock
  Undefined = Undefined
SPECIFICATION Spec
\* Build returns, or the process ends in UNIMPLEMENTED: both are final.
CHECK_DEADLOCK FALSE
INVARIANTS
  UnsupportedAborts
