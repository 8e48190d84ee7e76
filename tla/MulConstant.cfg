\* return a * 2 on an Integer32 a: DoMul reads the constant 2, emitted at
\* its uses, with CHECK(llvm_value()) before anything has used it.
CONSTANTS
  Graphs <- MulConstantGraphs
  Ids <- MCIds
  Slots <- MCSlots
  MaxBlocks = 6
  MaxEnvs = 4
  Smi32 = TRUE
  NoValue = NoValue
  NoEnv = NoEnv
  NoBlock = NoBlock
  Undefined = Undefined
SPECIFICATION Spec
\* Build returns, or the process ends in UNIMPLEMENTED: both are final.
CHECK_DEADLOCK FALSE
INVARIANTS
  OperandsMaterialized
