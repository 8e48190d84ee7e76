\* The join of a diamond returns its phi: the phi has no llvm_value when
\* the change to Tagged uses it.
CONSTANTS
  Graphs <- PhiUseGraphs
  Ids <- MCIds
  Slots <- MCSlots
  MaxBlocks = 6
  MaxEnvs = 4
  Smi32 = TRUE
  NoValue = NoValue
  NoEnv = NoEnv
  NoBlock = NoBlock
  Undefined = Undefined
SPECIFICATION Spec
\* Build returns, or the process ends in UNIMPLEMENTED: both are final.
CHECK_DEADLOCK FALSE
INVARIANTS
  OperandsMaterialized
