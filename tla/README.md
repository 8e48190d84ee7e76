# Verification of the LLVM chunk builder (src/src/llvm/llvm-chunk.cc)

This directory holds TLA+ models of `LLVMChunkBuilder`. It is the backend
that lowers a V8 Hydrogen graph into one LLVM function. It also holds the
TLC configurations that check the models and TLAPS proofs about them.

## The system

`llvm-chunk.cc` is the only implementation file under `src/`. Its parts
are listed below with the sections of `spec.md` that describe them.

| Part | Code | spec.md |
|---|---|---|
| Representation model | `SmiToInteger32` 182-192, `Integer32ToSmi` 194-196, `TokenToPredicate` 198-228, and the `Create*` calls of the handlers | 4.1 |
| Value/block cache | `Use(HBasicBlock*)` 163-171, `Use(HValue*)` 173-180 | 4.2 |
| Environment/join tracker | `DoBasicBlock` prologue 230-283, `DoSimulate` 351-359 | 4.3 |
| Instruction dispatcher | `VisitInstruction` 118-161 and the `Do<Op>` handlers 303-967 | 4.4 |
| Function/module assembly | `Build` 66-116, `NewChunk` 39-64 | 4.5 |
| Code materialization bridge | `LLVMChunk::Codegen` 12-36 | 4.6 |

`src/test/cctest/test-feedback-vector.cc` tests V8's type-feedback vectors.
It touches none of the code above.

This is how the parts interact:

1. `Build` creates a function whose parameters are all `Int64`.
2. It walks the blocks in graph order.
3. For each block, `DoBasicBlock` first gives the block its LLVM block and
   its `HEnvironment`.
4. It then visits every instruction that is not *emitted at its uses*.
5. A visited instruction goes to its handler.
6. A handler reads its operands through `Use(HValue*)`. For a constant that
   has not been materialised yet, `Use` re-enters `VisitInstruction` for it.
7. The handler emits LLVM instructions and stores the result in
   `llvm_value`.
8. `UNIMPLEMENTED()`, `UNREACHABLE()` and a failed `CHECK` end the process.
   Nothing in the file ever sets the chunk's aborted status.

One build runs on a single thread. The only re-entry is `Use`'s recursive
call. Builds of different units share one process-wide session,
`LLVMGranularity`, which lives outside `src/`:

- `Build` takes a fresh module from `CreateModule` (line 68).
- When `Build` finishes, it parses the module identifier back into the
  chunk's `llvm_function_id_` and hands the module to `AddModule`
  (lines 112-113). Spec 4.5 says the module is finalized there, which
  allocates its code buffer.
- Later, `LLVMChunk::Codegen` resolves the function's address, but
  installs `LastAllocatedCode()`: the buffer the memory manager allocated
  last (lines 13-14 and 30-31).

## Modules

- **`ChunkBuilder.tla`** models `Build`, `DoBasicBlock`, `VisitInstruction`,
  `Use` and every implemented handler. Its state:
  - `g`: the graph.
  - `bi`, `phase`, `pos`: Build's block loop and DoBasicBlock's instruction
    loop.
  - `llvmBlock`: `llvm_basic_block()`.
  - `fnCode`: the function's LLVM blocks, as lists of instruction kinds and
    branch targets.
  - `llvmValue`: `llvm_value()`.
  - `envs`, `envNext`, `lastEnv`: the `HEnvironment` objects and each
    block's `last_environment()`. Sharing and copying are explicit here.
  - `argCount`, `blockArgs`: `argument_count_`.
  - `status`, `fatal`: `status_`, and the cause when the process ends.
  - `finalEnv`: a ghost variable holding the environment a block finished
    with.

  It has four actions:
  - `EnterBlock`: the prologue. It has three cases: `StartEnv`,
    `SinglePredEnv` and `JoinEnv`.
  - `SkipEmitAtUses`.
  - `Visit`: `VisitInstruction` with each handler as one disjunct. A handler
    includes its `Use` calls, and a constant emitted at its uses is
    materialised inside the handler that uses it.
  - `FinishBlock`: the epilogue and the next turn of Build's loop.

  Data is abstract. An LLVM value is the place that made it (`<<"arg", k>>`,
  `<<"const", i>>` or `<<"inst", block, index>>`). The more than 100 handlers
  that only call `UNIMPLEMENTED()` are one disjunct of `CompileToLLVM`.
- **`Representation.tla`** holds the word-level meaning of the same handlers.
  It covers add, sub, mul, the representation changes and
  compare-and-branch, on words of `WordBits` bits, with Smis tagged by
  `SmiShift`. One step applies one handler to two correctly encoded
  operands.
- **`LLVMFunction.tla`** is the abstract specification of the function
  the builder assembles (spec 4.2 and 4.5). Its state is a handle per HIR
  block and the list of LLVM blocks. Its one action, `Grow`, allows only
  these changes:
  - a handle, once given, never changes;
  - new handles point to fresh, empty blocks, one per HIR block;
  - instructions are only appended;
  - nothing is appended to a block that ends in a terminator.

  `ChunkBuilder` instantiates it as `LF` with `llvmBlock` as the handle and
  `fnCode` as the code. `FunctionRefinement == LF!Spec` is the
  refinement property.
- **`MC_ChunkBuilder.tla`** and **`MC_Representation.tla`** instantiate
  the models for TLC.
- **`ChunkBuilderProofs.tla`**, **`ChunkBuilderRefinement.tla`**,
  **`ChunkBuilderSafety.tla`** and **`ChunkBuilderEnvProofs.tla`** hold the
  TLAPS proofs.

## Runs

| Run | cfg | Expect | Shows |
|---|---|---|---|
| build | ChunkBuilder.cfg | pass | see below |
| mul_constant | MulConstant.cfg | violation | `return a * 2`: `DoMul` aborts on `CHECK(llvm_value())` (line 805) |
| phi_use | PhiUse.cfg | violation | a join that uses its phi: no handler ever gives an `HPhi` a value |
| typeof | Typeof.cfg | violation | an unsupported opcode ends the process instead of making `Build` return NULL |
| representation | Representation.cfg | pass | `ArithFaithful`, `CompareFaithful` |
| mul_faithful | MulFaithful.cfg | violation | Smi `DoMul` multiplies both tags and gives 0 (line 807) |
| change_faithful | ChangeFaithful.cfg | violation | Tagged→Integer32 uses a logical shift, so negative Smis come out wrong (line 185) |

The `build` run checks these properties on six graphs:

- **`EnvNoClobber`**: an environment a finished block leaves to a block not
  yet entered is unchanged, whatever ran in between.
- **`FunctionWellFormed`**: every LLVM block of a finished function ends in
  exactly one terminator.
- **`ParamBinding`**: the pre-decrement argument walk binds each parameter to
  its own argument, after the two hidden ones.
- **`BuildTerminates`**.
- **`FunctionRefinement`**: every step of `Build` is a `Grow` step of
  `LLVMFunction`, or leaves the function unchanged.

The six graphs are:

- a diamond with a join phi;
- a loop whose header carries a phi and whose exit shares its environment;
- Smi arithmetic with a branch folded by `KnownSuccessorBlock` and a constant
  visited in place;
- three graphs that reach `UNIMPLEMENTED`: an opcode without a handler, a
  dummy-use instruction, and a double constant.

Together these fire every action and every disjunct of `Next`.

Bounds:

- **Blocks and environments.** Up to 6 blocks and 4 environment objects are
  enough to have:
  - a branch whose second successor comes after the first;
  - a join whose first predecessor is not the block just before it;
  - a loop back edge;
  - a copy and a share of one environment.
- **Words.** Words are 8 bits with 4-bit Smis shifted by 4. This is the x64
  layout (64/32/32) scaled down. The relations that matter are kept: a Smi
  fills the upper half, and the product of two tagged words overflows.
- **Mutants.** Every property of a passing run is killed by one mutant. Each
  mutant is a plausible bug in the mapped code, listed in `PROJECT.json`.

**Fairness.** `Spec` has weak fairness on `Next`. `Build` is a plain
sequential loop on one thread, so an enabled step is always taken.
`BuildTerminates` relies on this.

## Proofs

`ChunkBuilderProofs.tla` proves `THEOREM TypeCorrect == Spec => []TypeOK`.
It holds for every graph that satisfies `GraphsAssumption` (`GraphOK`: the
shape the frontend guarantees) and for every `MaxBlocks` and `MaxEnvs`.

`TypeOK` alone is not inductive, for two reasons:

- A block's prologue reads its predecessor's `last_environment()` and
  `argument_count()`.
- A handler appends to the current block's LLVM block.

The inductive invariant `IInv` therefore adds four facts:

- `bi` is a block of the graph.
- Every LLVM block handle points into the function.
- Once a block's body runs, it has an LLVM block and an environment.
- Every block before the current one has an environment and a non-negative
  argument count.

The proof consists of three steps:

1. `InitIInv` shows that `Init` implies `IInv`.
2. `NextIInv` shows that `IInv` is preserved by a step. It has one lemma per
   action and one per handler:
   - `DoChangeOK` has one case per arm of `DoChange`.
   - The `Use` lemmas (`UseBlockOK`, `EmitInOK`) are proved once and cited
     from every handler.
3. `IInv` implies `TypeOK`.

The temporal step is then discharged by `PTL`.

`ChunkBuilderRefinement.tla` proves `THEOREM Refinement == Spec =>
FunctionRefinement`. It uses the same assumptions as `TypeCorrect`. The
argument has two steps:

- `Init` implies `LF!Init`.
- Every step under `RInv` maps to a `Grow` step or a stutter.

`RInv` is `IInv` plus three facts, each needed for one clause of `Grow`:

- `HandleInj`: no two HIR blocks share an LLVM block. Without it, a new
  handle could alias an existing block.
- `FutureEmpty`: an LLVM block created for a branch to a block not yet
  entered stays empty until `DoBasicBlock` reaches it. Without it, the
  proof cannot show that entering the block keeps the handle fresh and
  empty.
- `CurOpen`: while instructions of the current block remain, its LLVM
  block holds no terminator (`Open`). Without it, the proof cannot show
  that an append goes to an open block. This needs `GraphsAssumption`'s
  clause that a control instruction is last in its block.

A handler may resolve several blocks and then emit. The lemmas
`Resolved`, `Partial` and `Shape` therefore describe the effect of any
sequence of `Use(HBasicBlock)` calls followed by appends. `Resolved` also
records that only blocks of the graph get a handle. `Shape` records more
than `Grow` needs: the current LLVM block stays free of terminators while
instructions remain, and it is terminated once the block's last
instruction is visited. `ChunkBuilderSafety` uses both facts.

`ChunkBuilderSafety.tla` proves two of the safety properties of the
`build` run, under the same assumptions.

- `THEOREM ParamBindingHolds == Spec => []ParamBinding`. The invariant
  `ParamValues` says that a parameter's `llvm_value()` is unset, or is the
  argument that `ArgPosition` gives for its index. One lemma per handler
  shows that no other handler writes a parameter's value. A parameter is
  never emitted at its uses, so `Use()` leaves it alone. The frontend
  numbers parameters `0 .. num_parameters()`, and the walk maps these
  indices one to one onto the arguments after the context and the callee.
  `ParamBinding` follows.
- `THEOREM WellFormedHolds == Spec => []FunctionWellFormed`. The inductive
  invariant `WInv` adds five facts to `RInv`:
  - `PastTerminated`: the LLVM block of every finished block is terminated.
  - `CurDone`: so is the current one, once its instructions are done.
  - `DoneAtEnd`: Build returns only after the last block is finished.
  - `InGraph`: only blocks of the graph have an LLVM block.
  - `OwnedBy`: every LLVM block is some block's.

  A block made for a branch target therefore belongs to a block of the
  graph. That block is entered and finished before Build returns. Handles
  are one to one (`HandleInj`), so no other block's handler appends to it.
  `VisitStatus` shows that no handler returns from Build.

Both proofs rest on the frontend guarantees in `GraphOK`. The runs'
graphs satisfy them, and TLC evaluates `GraphsAssumption` on every run.
The guarantees are:

- Every block is non-empty.
- A block's last instruction is a control instruction, or one the builder
  rejects (`Other`).
- The last instruction is not emitted at its uses.
- Successors and statically known branch targets are blocks of the graph.
- A parameter's index is at most `num_parameters()`, and a parameter is
  not emitted at its uses.
- The edges pass `HGraph::Verify` (`EdgesOK`). A block has at most two
  successors. Every predecessor of a block lists the block among its
  successors. A join's predecessors each have one successor, so there are
  no critical edges.

`ChunkBuilderEnvProofs.tla` proves `THEOREM EnvNoClobberHolds == Spec =>
[]EnvNoClobber`, under the same assumptions. The argument works with
*holding* blocks. A holding block has finished, and a block that reads
its environment on entry (`Readers`) has not been entered yet. The
inductive invariant `NInv` adds three facts to `IInv`:

- `Preserved`: a holding block's object still equals `finalEnv`. This
  is `EnvNoClobber` itself, restated over holding blocks.
- `Allocated`: the objects of the holding blocks, and of the block whose
  body runs, are below `envNext`. Without it, the copy `DoBasicBlock`
  makes into the next free object could overwrite a holding block's
  object.
- `Unshared`: no two of those blocks share an object. Without it,
  `DoSimulate` writing into the current block's object in place, or a
  join rewriting its first predecessor's object, could change a holding
  block's environment.

A handler changes only the current block's object (`VisitEnvs`), and the
current block is not a holding block. Finishing a block records its final
environment. The heart of the proof is entering a block bi. When bi
shares the object of its first predecessor pp, no reader of pp comes
after bi (`SharedPredReaders`), so pp stops holding. This follows from
`EdgesOK` and the copy test `NeedsCopy`:

- A join's predecessor has bi as its only successor.
- With one predecessor, a share happens only when no successor of pp
  comes after bi.

Without `EdgesOK`, the proof fails: a join predecessor with a second,
later successor would share its object with that successor. Only the
frontend's verifier rules that out.

Only TLC checks the rest:

- **Liveness.** `BuildTerminates` is a liveness property, and TLAPS does not
  prove liveness under fairness.
- **Word arithmetic.** The `Representation` properties are checked only for
  the scaled-down word size. They cannot be proved here: the provers
  treat `^` as uninterpreted. They fail even on
  `2^64 = 18446744073709551616`, and the encodings of `SmiShift` and
  `WordBits` are powers of two.

## Not modelled

- **The session and `Codegen`.** `Build`'s prologue and epilogue
  (`CreateModule`, `set_llvm_function_id`, `AddModule`, lines 68 and
  111-113) and `LLVMChunk::Codegen` (12-36) talk to `LLVMGranularity`,
  which is not under `src/`. `Codegen` installs `LastAllocatedCode()`
  (line 32), not the code at the address `GetFunctionAddress` returns.
  That is the unit's own code exactly when no other module was finalized
  after its `AddModule`, and spec 5 makes one build at a time the host's
  obligation. A model of it could only restate that documented
  assumption, so none is kept.
- **`Use`'s memo of emitted-at-uses values.** The only values emitted at
  their uses are constants, and `getInt64` constants are uniqued by LLVM,
  so materializing one twice gives the same value. Dropping the
  `!llvm_value()` test at line 174 changes nothing a property could
  observe.
- **`NewChunk`'s NULL return.** The code cannot reach it, because nothing
  sets the aborted status.
- **Operand values.** Values are abstracted to identities.
- **Argument counting.** `argument_count_` is carried between blocks but never
  changed, because `argument_delta` is commented out at line 153.

## Findings

`PROJECT.json` lists five findings:

- `DoMul` and `DoSub` bypass `Use()`.
- Phis never get a value.
- `UNIMPLEMENTED` is process-fatal, whereas the spec says the unit is
  aborted.
- Smi multiplication always gives 0.
- The logical shift in `SmiToInteger32`.

## Plan

The next steps are:

- Model 31-bit Smis (`Smi32 = FALSE`).
