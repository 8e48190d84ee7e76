\* Every handler of LLVMChunkBuilder on a diamond, a loop, Smi arithmetic
\* with a folded branch, and three graphs with an unsupported instruction.
CONSTANTS
  Graphs <- BuildGraphs
  Ids <- MCIds
  Slots <- MCSlots
  MaxBlocks = 6
  MaxEnvs = 4
  Smi32 = TRUE
  NoValue = NoValue
  NoEnv = NoEnv
  NoBlock = NoBlock
  Undefined = Undefined
SPECIFICATION Spec
\* Build returns, or the process ends in UNIMPLEMENTED: both are final.
CHECK_DEADLOCK FALSE
INVARIANTS
  TypeOK
  EnvNoClobber
  FunctionWellFormed
  ParamBinding
PROPERTIES
  BuildTerminates
  FunctionRefinement
