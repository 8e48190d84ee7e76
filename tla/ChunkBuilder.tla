---------------------------- MODULE ChunkBuilder ----------------------------
(***************************************************************************)
(* LLVMChunkBuilder (src/src/llvm/llvm-chunk.cc): the translation of one   *)
(* Hydrogen graph into one LLVM function.  Build() walks the blocks in the *)
(* order the graph lists them; DoBasicBlock() first hands the block its    *)
(* environment (start block, single predecessor, or join) and then visits *)
(* every instruction that is not emitted at its uses; a visited            *)
(* instruction is dispatched by VisitInstruction() to its Do<Op> handler.  *)
(* Use(HBasicBlock) and Use(HValue) are the memo caches for LLVM blocks  *)
(* and values; a constant is materialised the first time it is Use()d.    *)
(*                                                                         *)
(* Data is abstracted: an LLVM value is a reference to where it was made, *)
(* an emitted LLVM instruction is its kind and its branch targets, an     *)
(* environment slot holds the id of a Hydrogen value.  UNIMPLEMENTED(),    *)
(* UNREACHABLE() and a failed CHECK/DCHECK end the process: the builder   *)
(* stops in status "FATAL" with the cause recorded in fatal.               *)
(***************************************************************************)
EXTENDS Integers, Sequences, FiniteSets

CONSTANTS
  Graphs,     \* the HGraphs LLVMChunk::NewChunk may be handed
  Ids,        \* ids of Hydrogen values (instructions and phis)
  MaxBlocks,  \* bound on the number of blocks of a graph
  Slots,      \* environment slot indices 0 .. HEnvironment::length()-1
  MaxEnvs,    \* bound on HEnvironment objects (start env plus copies)
  Smi32,      \* SmiValuesAre32Bits(): TRUE on x64
  NoValue,    \* llvm_value() == nullptr
  NoEnv,      \* last_environment() == NULL
  NoBlock,    \* KnownSuccessorBlock() gave no block
  Undefined   \* graph_->GetConstantUndefined()

ASSUME MaxBlocksAssumption == MaxBlocks \in Nat \ {0}
ASSUME MaxEnvsAssumption == MaxEnvs \in Nat \ {0}
ASSUME Smi32Assumption == Smi32 \in BOOLEAN

BlockIds == 0 .. MaxBlocks - 1
EnvIds == 1 .. MaxEnvs

Reps == {"None", "Smi", "Integer32", "Double", "External", "Tagged"}
Tokens == {"EQ", "EQ_STRICT", "NE", "NE_STRICT", "LT", "GT", "LTE", "GTE",
           "IN", "INSTANCEOF"}
\* Opcodes with a handler that does something; every other opcode's
\* handler is UNIMPLEMENTED() and is modelled by "Other".
Ops == {"BlockEntry", "Parameter", "Context", "ArgumentsObject", "Goto",
        "Simulate", "StackCheck", "Constant", "Return", "Add", "Sub", "Mul",
        "Change", "CompareNumericAndBranch", "Phi", "Other"}
ControlOps == {"Goto", "Return", "CompareNumericAndBranch"}

\* An LLVM value: the n-th function argument, a uniqued llvm::Constant
\* made for a Hydrogen constant, or the k-th instruction of LLVM block h.
LLVMValues == ({"arg"} \X Nat) \cup ({"const"} \X Ids)
                \cup ({"inst"} \X Nat \X Nat)
EmitKinds == {"add", "sub", "mul", "lshr", "shl", "icmp", "br", "condbr",
              "ret"}
Terminators == {"br", "condbr", "ret"}
Emission == [kind : EmitKinds, targets : Seq(Nat)]
EnvContents == [Slots -> Ids \cup {Undefined}]


\* f maps some of the slots to members of T (a simulate's assigned values,
\* a block's phis with a merged index).
SlotMap(f, T) == DOMAIN f \subseteq Slots /\ \A s \in DOMAIN f : f[s] \in T

InstrOK(x) ==
  /\ x.op \in Ops /\ x.rep \in Reps /\ x.from \in Reps /\ x.to \in Reps
  /\ x.args \in Seq(Ids) /\ x.token \in Tokens /\ x.index \in Nat
  /\ x.known \in BlockIds \cup {NoBlock}
  /\ x.eau \in BOOLEAN /\ x.dummy \in BOOLEAN /\ x.canOverflow \in BOOLEAN
  /\ x.smiObj \in BOOLEAN /\ x.hasUses \in BOOLEAN /\ x.pcConst \in BOOLEAN
  /\ SlotMap(x.binds, Ids \cup {Undefined})

\* A finished HBasicBlock of the graph ends in its HControlInstruction: one
\* of the control instructions with a handler, or one whose handler is
\* UNIMPLEMENTED; that instruction is never emitted at its uses, and every
\* successor (and a statically known one) is a block of the graph.
BlockEndsInControl(gr, b) ==
  LET last == gr.ins[gr.code[b][Len(gr.code[b])]]
  IN  /\ Len(gr.code[b]) >= 1
      /\ last.op \in ControlOps \cup {"Other"} /\ ~last.eau
      /\ \A k \in 1 .. Len(gr.succs[b]) : gr.succs[b][k] < gr.nblocks
      /\ \A k \in 1 .. Len(gr.code[b]) :
           gr.ins[gr.code[b][k]].known \in (0 .. gr.nblocks - 1) \cup {NoBlock}

\* The edges of block b as HGraph::Verify checks them: a control
\* instruction has at most two successors, b is a successor of each of its
\* predecessors, and the predecessors of a join end in a goto (there are
\* no critical edges).
EdgesOK(gr, b) ==
  LET pr(k) == gr.preds[b][k]
  IN  /\ Len(gr.succs[b]) <= 2
      /\ \A k \in 1 .. Len(gr.preds[b]) :
           \E j \in 1 .. Len(gr.succs[pr(k)]) : gr.succs[pr(k)][j] = b
      /\ Len(gr.preds[b]) > 1 =>
           \A k \in 1 .. Len(gr.preds[b]) : Len(gr.succs[pr(k)]) = 1

\* What the frontend guarantees of a graph (HGraph after the optimizing
\* phases): blocks in reverse post order with the start block first and
\* the first predecessor of every other block before it (a loop header's
\* pre-header), operands present for the instructions that read them, and
\* a control instruction only at the end of its block, a compare-and-branch
\* only in a block with two successors; every block ends in a control
\* instruction; a parameter's index is at most num_parameters() (index 0
\* is the receiver) and a parameter is not emitted at its uses.
GraphOK(gr) ==
  /\ gr.nblocks \in 1 .. MaxBlocks
  /\ gr.preds \in [BlockIds -> Seq(BlockIds)]
  /\ gr.succs \in [BlockIds -> Seq(BlockIds)]
  /\ gr.deleted \in [BlockIds -> Seq(Nat)]
  /\ gr.code \in [BlockIds -> Seq(Ids)]
  /\ DOMAIN gr.ins = Ids /\ \A i \in Ids : InstrOK(gr.ins[i])
  /\ \A b \in BlockIds : SlotMap(gr.phis[b], Ids)
  /\ gr.startEnv \in [Slots -> Ids \cup {Undefined}]
  /\ gr.numParams \in Nat
  /\ gr.isStub \in BOOLEAN /\ gr.savesDoubles \in BOOLEAN
  /\ \A b \in 1 .. gr.nblocks - 1 : Len(gr.preds[b]) >= 1 /\ gr.preds[b][1] < b
  /\ \A b \in BlockIds : \A k \in 1 .. Len(gr.code[b]) :
       LET x == gr.ins[gr.code[b][k]]
       IN  /\ x.op \in {"Add", "Sub", "Mul", "CompareNumericAndBranch"}
                => Len(x.args) >= 2
           /\ x.op \in {"Return", "Change"} => Len(x.args) >= 1
           /\ x.op = "CompareNumericAndBranch" => Len(gr.succs[b]) = 2
           /\ x.op \in ControlOps => k = Len(gr.code[b])
  /\ \A b \in 0 .. gr.nblocks - 1 : BlockEndsInControl(gr, b)
  /\ \A i \in Ids : gr.ins[i].op = "Parameter" =>
                      gr.ins[i].index <= gr.numParams /\ ~gr.ins[i].eau
  /\ \A b \in 0 .. gr.nblocks - 1 : EdgesOK(gr, b)

ASSUME GraphsAssumption == \A gr \in Graphs : GraphOK(gr)

-----------------------------------------------------------------------------
VARIABLES
  g,          \* the graph being compiled (graph_)
  status,     \* status_: "BUILDING", "DONE", or "FATAL" (process ended)
  fatal,      \* why the process ended ("none" while it has not)
  bi,         \* index i of Build()'s block loop
  phase,      \* "enter": DoBasicBlock's prologue is next; "body": its loop
  pos,        \* position of `current` in the block's instruction list
  llvmBlock,  \* HBasicBlock::llvm_basic_block(): handle, 0 for NULL
  fnCode,     \* the LLVM function: one instruction list per LLVM block
  llvmValue,  \* HValue::llvm_value()
  envs,       \* contents of every HEnvironment object
  envNext,    \* next free HEnvironment object
  lastEnv,    \* HBasicBlock::last_environment()
  argCount,   \* argument_count_
  blockArgs,  \* HBasicBlock::argument_count()
  finalEnv    \* ghost: contents of a block's environment when it finished

vars == <<g, status, fatal, bi, phase, pos, llvmBlock, fnCode, llvmValue,
          envs, envNext, lastEnv, argCount, blockArgs, finalEnv>>

Blocks == 0 .. g.nblocks - 1
Ins(i) == g.ins[i]
Cur == g.code[bi][pos]               \* current_instruction_

-----------------------------------------------------------------------------
\* A Use(HBasicBlock) that forgets to check llvm_basic_block() first.
UseBlockFresh(st, b) ==
  [handle |-> [st.handle EXCEPT ![b] = Len(st.code) + 1],
   code   |-> Append(st.code, <<>>)]

(* Use(HBasicBlock), lines 163-171: the LLVM block of b, created and      *)
(* appended to function_ the first time b is used.  st is the pair of the *)
(* HIR-side handles and the function's block list.                        *)
UseBlock(st, b) ==
  IF st.handle[b] # 0 THEN st
  ELSE [handle |-> [st.handle EXCEPT ![b] = Len(st.code) + 1],
        code   |-> Append(st.code, <<>>)]

BlockState == [handle |-> llvmBlock, code |-> fnCode]

\* The builder's insertion point after using the blocks in ts, then the
\* instruction of kind k with branch targets ts appended to the current
\* block (llvm_ir_builder_->Create...).
\* Emitting at the end of the LLVM block created last, as an IRBuilder
\* whose insertion point follows BasicBlock::Create would.
EmitInLastBlock(st, k, ts) ==
  LET h == Len(st.code)
      e == [kind |-> k, targets |-> [j \in DOMAIN ts |-> st.handle[ts[j]]]]
  IN  [handle |-> st.handle,
       code   |-> [st.code EXCEPT ![h] = Append(st.code[h], e)]]

EmitIn(st, k, ts) ==
  LET h == st.handle[bi]
      e == [kind |-> k, targets |-> [j \in DOMAIN ts |-> st.handle[ts[j]]]]
  IN  [handle |-> st.handle,
       code   |-> [st.code EXCEPT ![h] = Append(st.code[h], e)]]

\* The LLVM value the next instruction emitted into the current block gets.
NextInst == <<"inst", llvmBlock[bi], Len(fnCode[llvmBlock[bi]]) + 1>>

\* Emit one non-branch instruction and give its value to instruction i.
Emit(i, k, vals) ==
  /\ fnCode' = EmitIn(BlockState, k, <<>>).code
  /\ llvmValue' = [vals EXCEPT ![i] = NextInst]

-----------------------------------------------------------------------------
(* Use(HValue), lines 173-180, for the operands vs of one handler.  An    *)
(* operand emitted at its uses (an HConstant) and not yet materialised is *)
(* visited now: DoConstant, lines 365-396, gives it a uniqued constant,   *)
(* or ends in UNIMPLEMENTED/UNREACHABLE for a representation it does not *)
(* support.  Then DCHECK(value->llvm_value()) must hold for each operand. *)
Pending(vs) == {v \in vs : Ins(v).eau /\ llvmValue[v] = NoValue}

ConstantSupported(v) ==
  \/ Ins(v).rep \in {"Smi", "Integer32"}
  \/ Ins(v).rep = "Tagged" /\ Ins(v).smiObj

\* Outcome of using vs: "unimplemented", "unmaterialized" or "ok".
UseOutcome(vs) ==
  IF \E v \in Pending(vs) : ~ConstantSupported(v) THEN "unimplemented"
  ELSE IF \E v \in vs \ Pending(vs) : llvmValue[v] = NoValue
       THEN "unmaterialized"
       ELSE "ok"

\* llvm_value() of every value after using vs.
Used(vs) == [v \in Ids |-> IF v \in Pending(vs) THEN <<"const", v>>
                           ELSE llvmValue[v]]

Fatal(cause) ==
  /\ status' = "FATAL"
  /\ fatal' = cause
  /\ UNCHANGED <<g, bi, phase, pos, llvmBlock, fnCode, llvmValue, envs,
                 envNext, lastEnv, argCount, blockArgs, finalEnv>>

\* A handler that uses vs: stop if Use() fails, otherwise continue with A.
WithUse(vs, A) ==
  CASE UseOutcome(vs) = "unimplemented"  -> Fatal("Unimplemented")
    [] UseOutcome(vs) = "unmaterialized" -> Fatal("Unmaterialized")
    [] OTHER                             -> A

\* The builder goes on with the next instruction of the block.
Advance ==
  /\ pos' = pos + 1
  /\ UNCHANGED <<g, status, fatal, bi, phase, envs, envNext, lastEnv,
                 argCount, blockArgs, finalEnv>>

Skip == Advance /\ UNCHANGED <<llvmBlock, fnCode, llvmValue>>
-----------------------------------------------------------------------------
(* The handlers.  Each Do<Op>(i) is the whole handler for instruction i,   *)
(* including the Use() calls it makes; those that stop the process are    *)
(* disjuncts ending in Fatal.                                              *)

\* DoBlockEntry, lines 303-307: Use(instr->block()), which is the current
\* block and so already has its LLVM block.
DoBlockEntry(i) == Ins(i).op = "BlockEntry" /\ Skip

\* DoContext, lines 309-318.
DoContext(i) ==
  /\ Ins(i).op = "Context"
  /\ IF Ins(i).hasUses /\ g.isStub THEN Fatal("Unimplemented") ELSE Skip

\* DoParameter, lines 320-337.  The argument iterator starts at the first
\* of the n = num_parameters()+3 arguments, index becomes -index, and
\* `while (--index + n > 0) ++it` steps it n-1-index times (never fewer
\* than zero): parameter index is bound to argument n-1-index.
NumArgs == g.numParams + 3
\* The walk with num_parameters() + 2 arguments, forgetting the third.
ArgPositionOffByOne(index) ==
  IF NumArgs - 2 - index > 0 THEN NumArgs - 2 - index ELSE 0
ArgPosition(index) == IF NumArgs - 1 - index > 0 THEN NumArgs - 1 - index
                      ELSE 0
DoParameter(i) ==
  /\ Ins(i).op = "Parameter"
  /\ llvmValue' = [llvmValue EXCEPT ![i] = <<"arg", ArgPosition(Ins(i).index)>>]
  /\ Advance /\ UNCHANGED <<llvmBlock, fnCode>>

\* DoArgumentsObject (339-345) and DoStackCheck (361-363) do nothing.
DoNothing(i) == Ins(i).op \in {"ArgumentsObject", "StackCheck"} /\ Skip

\* DoSimulate, lines 351-359: ReplayEnvironment binds the simulate's
\* assigned values in the current block's environment object.
DoSimulate(i) ==
  /\ Ins(i).op = "Simulate"
  /\ LET e == lastEnv[bi]
     IN  envs' = [envs EXCEPT ![e] = [s \in Slots |->
                    IF s \in DOMAIN Ins(i).binds THEN Ins(i).binds[s] ELSE @[s]]]
  /\ pos' = pos + 1
  /\ UNCHANGED <<g, status, fatal, bi, phase, envNext, lastEnv, argCount,
                 blockArgs, finalEnv, llvmBlock, fnCode, llvmValue>>

\* DoConstant, lines 365-396, for a constant that is not emitted at uses
\* (a double, external or non-Smi tagged constant in the frontend's rule).
DoConstant(i) ==
  /\ Ins(i).op = "Constant"
  /\ IF ConstantSupported(i)
       THEN llvmValue' = [llvmValue EXCEPT ![i] = <<"const", i>>]
            /\ Advance /\ UNCHANGED <<llvmBlock, fnCode>>
       ELSE Fatal(IF Ins(i).rep \in {"Double", "External", "Tagged"}
                  THEN "Unimplemented" ELSE "Unreachable")

\* DoReturn, lines 398-415: only a constant parameter count of a
\* non-stub that saves no caller doubles is supported.
DoReturn(i) ==
  /\ Ins(i).op = "Return"
  /\ IF g.isStub \/ g.savesDoubles \/ ~Ins(i).pcConst
       THEN Fatal("Unimplemented")
       ELSE WithUse({Ins(i).args[1]},
              /\ llvmValue' = Used({Ins(i).args[1]})
              /\ fnCode' = EmitIn(BlockState, "ret", <<>>).code
              /\ Advance /\ UNCHANGED llvmBlock)

ArithReps == {"Integer32", "Smi"}

\* DoAdd, lines 425-438: both operands through Use().
DoAdd(i) ==
  /\ Ins(i).op = "Add"
  /\ IF Ins(i).rep \notin ArithReps THEN Fatal("Unimplemented")
     ELSE LET vs == {Ins(i).args[1], Ins(i).args[2]}
          IN  WithUse(vs, Emit(i, "add", Used(vs))
                          /\ Advance /\ UNCHANGED llvmBlock)

\* DoSub (904-919) and DoMul (799-814): the operands are read with
\* CHECK(left->llvm_value()), not through Use().
DoSubMul(i) ==
  /\ Ins(i).op \in {"Sub", "Mul"}
  /\ IF Ins(i).rep \notin ArithReps THEN Fatal("Unimplemented")
     ELSE IF llvmValue[Ins(i).args[1]] = NoValue
             \/ llvmValue[Ins(i).args[2]] = NoValue
          THEN Fatal("Unmaterialized")
          ELSE Emit(i, IF Ins(i).op = "Sub" THEN "sub" ELSE "mul", llvmValue)
               /\ Advance /\ UNCHANGED llvmBlock

\* DoChange, lines 508-556, with SmiToInteger32 (182-192, a logical shift
\* right when Smis are 32 bits, UNIMPLEMENTED otherwise) and
\* Integer32ToSmi (194-196, a shift left).  A Smi source that is not
\* going to Tagged is treated as Tagged; a source that is neither Smi,
\* Tagged, Double nor Integer32 falls through every branch and the handler
\* does nothing.
ChangeAlias(i) ==
  LET val == Ins(i).args[1]
  IN  WithUse({val}, /\ llvmValue' = [Used({val}) EXCEPT ![i] = Used({val})[val]]
                     /\ Advance /\ UNCHANGED <<llvmBlock, fnCode>>)

ChangeShift(i, k) ==
  LET val == Ins(i).args[1]
  IN  WithUse({val}, Emit(i, k, Used({val})) /\ Advance /\ UNCHANGED llvmBlock)

DoChange(i) ==
  LET to   == Ins(i).to
      from == IF Ins(i).from = "Smi" /\ to # "Tagged" THEN "Tagged"
              ELSE Ins(i).from
  IN  /\ Ins(i).op = "Change"
      /\ CASE from = "Smi"                        -> ChangeAlias(i)
           [] from = "Tagged" /\ to = "Double"     -> Fatal("Unimplemented")
           [] from = "Tagged" /\ to = "Smi"        -> ChangeAlias(i)
           [] from = "Tagged" /\ to \notin {"Double", "Smi"} ->
                IF Smi32 THEN ChangeShift(i, "lshr") ELSE Fatal("Unimplemented")
           [] from = "Double"                      -> Fatal("Unimplemented")
           [] from = "Integer32" /\ to = "Tagged" /\ ~Ins(i).canOverflow
                                                   -> ChangeShift(i, "shl")
           [] from = "Integer32" /\ ~(to = "Tagged" /\ ~Ins(i).canOverflow)
                                                   -> Fatal("Unimplemented")
           [] OTHER                                -> Skip

\* DoCompareNumericAndBranch, lines 590-613.  TokenToPredicate (198-228)
\* runs first and is UNREACHABLE for IN and INSTANCEOF; only Integer32
\* comparisons are implemented: an icmp, then a conditional branch to the
\* LLVM blocks of the two successors, which becomes the instruction's
\* value.
DoCompareNumericAndBranch(i) ==
  LET vs == {Ins(i).args[1], Ins(i).args[2]}
      ss == g.succs[bi]
      st == UseBlock(UseBlock(BlockState, ss[1]), ss[2])
      h  == llvmBlock[bi]
  IN  /\ Ins(i).op = "CompareNumericAndBranch"
      /\ CASE Ins(i).token \in {"IN", "INSTANCEOF"} -> Fatal("Unreachable")
           [] Ins(i).token \notin {"IN", "INSTANCEOF"}
                /\ Ins(i).rep = "Integer32" ->
                WithUse(vs,
                  LET st2 == EmitIn(EmitIn(st, "icmp", <<>>), "condbr", ss)
                  IN  /\ llvmBlock' = st2.handle
                      /\ fnCode' = st2.code
                      /\ llvmValue' = [Used(vs) EXCEPT ![i] =
                                         <<"inst", h, Len(fnCode[h]) + 2>>]
                      /\ Advance)
           [] OTHER -> Fatal("Unimplemented")

\* VisitInstruction, lines 118-161.  An instruction that can be replaced
\* with dummy uses is UNIMPLEMENTED in every branch; a control instruction
\* with a statically known successor becomes a branch to that successor's
\* LLVM block; anything else goes to its handler (CompileToLLVM).  The
\* handlers of all other opcodes, DoGoto included, are UNIMPLEMENTED().
KnownSuccessor(i) == Ins(i).op \in ControlOps /\ Ins(i).known # NoBlock

GotoKnown(i) ==
  LET st == EmitIn(UseBlock(BlockState, Ins(i).known), "br",
                   <<Ins(i).known>>)
  IN  /\ llvmBlock' = st.handle
      /\ fnCode' = st.code
      /\ Advance /\ UNCHANGED llvmValue

CompileToLLVM(i) ==
  \/ DoBlockEntry(i) \/ DoContext(i) \/ DoParameter(i) \/ DoNothing(i)
  \/ DoSimulate(i) \/ DoConstant(i) \/ DoReturn(i) \/ DoAdd(i)
  \/ DoSubMul(i) \/ DoChange(i) \/ DoCompareNumericAndBranch(i)
  \/ Ins(i).op \in {"Goto", "Phi", "Other"} /\ Fatal("Unimplemented")

VisitInstruction(i) ==
  \/ Ins(i).dummy /\ Fatal("Unimplemented")
  \/ ~Ins(i).dummy /\ KnownSuccessor(i) /\ GotoKnown(i)
  \/ ~Ins(i).dummy /\ ~KnownSuccessor(i) /\ CompileToLLVM(i)

-----------------------------------------------------------------------------
(* DoBasicBlock, lines 230-301, and the block loop of Build, 104-115.      *)

\* The prologue of DoBasicBlock (lines 235-283): the block's LLVM block
\* becomes the insertion point and the block gets its environment.
StartEnv(b) ==
  /\ b = 0
  /\ lastEnv' = [lastEnv EXCEPT ![b] = 1]     \* start_environment()
  /\ argCount' = 0
  /\ UNCHANGED <<envs, envNext>>

\* One predecessor p: its last environment, copied when p ends in a branch
\* one of whose successors comes later than b in the block order.
\* The copy test with the block ids compared the wrong way round.
NeedsCopyReversed(p, b) ==
  /\ Len(g.succs[p]) = 2
  /\ g.succs[p][1] < b \/ g.succs[p][2] < b

NeedsCopy(p, b) ==
  /\ Len(g.succs[p]) = 2
  /\ g.succs[p][1] > b \/ g.succs[p][2] > b

SinglePredEnv(b) ==
  LET p == g.preds[b][1]
  IN  /\ b # 0 /\ Len(g.preds[b]) = 1
      /\ IF NeedsCopy(p, b)
           THEN /\ envNext <= MaxEnvs
                /\ envs' = [envs EXCEPT ![envNext] = envs[lastEnv[p]]]
                /\ lastEnv' = [lastEnv EXCEPT ![b] = envNext]
                /\ envNext' = envNext + 1
           ELSE /\ lastEnv' = [lastEnv EXCEPT ![b] = lastEnv[p]]
                /\ UNCHANGED <<envs, envNext>>
      /\ argCount' = blockArgs[p]

\* A join: the first predecessor's environment object, not copied, with
\* every phi's merged slot bound to the phi and then every deleted phi's
\* slot (when inside the environment) bound to undefined.
JoinEnv(b) ==
  LET p   == g.preds[b][1]
      e   == lastEnv[p]
      phi == g.phis[b]
      del == g.deleted[b]
      merged(s) == IF s \in DOMAIN phi THEN phi[s] ELSE envs[e][s]
  IN  /\ b # 0 /\ Len(g.preds[b]) > 1
      /\ envs' = [envs EXCEPT ![e] = [s \in Slots |->
                    IF \E k \in DOMAIN del : del[k] = s THEN Undefined
                    ELSE merged(s)]]
      /\ lastEnv' = [lastEnv EXCEPT ![b] = e]
      /\ argCount' = blockArgs[p]
      /\ UNCHANGED envNext

EnterBlock ==
  /\ status = "BUILDING" /\ phase = "enter"
  /\ LET st == UseBlock(BlockState, bi)
     IN  llvmBlock' = st.handle /\ fnCode' = st.code
  /\ StartEnv(bi) \/ SinglePredEnv(bi) \/ JoinEnv(bi)
  /\ phase' = "body" /\ pos' = 1
  /\ UNCHANGED <<g, status, fatal, bi, llvmValue, blockArgs, finalEnv>>

\* The instruction loop (lines 286-292): an instruction emitted at its
\* uses is skipped, any other is visited.
\* The loop skipping an emitted-at-uses instruction without moving on to
\* current->next().
SkipEmitAtUsesStuck ==
  /\ status = "BUILDING" /\ phase = "body" /\ pos <= Len(g.code[bi])
  /\ Ins(Cur).eau
  /\ UNCHANGED vars

SkipEmitAtUses ==
  /\ status = "BUILDING" /\ phase = "body" /\ pos <= Len(g.code[bi])
  /\ Ins(Cur).eau
  /\ Skip

Visit ==
  /\ status = "BUILDING" /\ phase = "body" /\ pos <= Len(g.code[bi])
  /\ ~Ins(Cur).eau
  /\ VisitInstruction(Cur)

\* The epilogue (line 298) and the next turn of Build's loop; after the
\* last block Build sets status_ = DONE (line 114).
\* The epilogue without block->set_argument_count(argument_count_).
FinishBlockNoArgCount ==
  /\ status = "BUILDING" /\ phase = "body" /\ pos > Len(g.code[bi])
  /\ finalEnv' = [finalEnv EXCEPT ![bi] = envs[lastEnv[bi]]]
  /\ IF bi = g.nblocks - 1
       THEN status' = "DONE" /\ UNCHANGED <<bi, phase, pos>>
       ELSE bi' = bi + 1 /\ phase' = "enter" /\ pos' = 1
            /\ UNCHANGED status
  /\ UNCHANGED <<g, fatal, llvmBlock, fnCode, llvmValue, envs, envNext,
                 lastEnv, argCount, blockArgs>>

FinishBlock ==
  /\ status = "BUILDING" /\ phase = "body" /\ pos > Len(g.code[bi])
  /\ blockArgs' = [blockArgs EXCEPT ![bi] = argCount]
  /\ finalEnv' = [finalEnv EXCEPT ![bi] = envs[lastEnv[bi]]]
  /\ IF bi = g.nblocks - 1
       THEN status' = "DONE" /\ UNCHANGED <<bi, phase, pos>>
       ELSE bi' = bi + 1 /\ phase' = "enter" /\ pos' = 1
            /\ UNCHANGED status
  /\ UNCHANGED <<g, fatal, llvmBlock, fnCode, llvmValue, envs, envNext,
                 lastEnv, argCount>>

-----------------------------------------------------------------------------
(* Build, lines 66-103: a fresh module and function, no block has an LLVM *)
(* block or value yet, the start environment is object 1.                 *)
EmptyEnv == [s \in Slots |-> Undefined]

Init ==
  /\ g \in Graphs
  /\ status = "BUILDING"
  /\ fatal = "none"
  /\ bi = 0
  /\ phase = "enter"
  /\ pos = 1
  /\ llvmBlock = [b \in BlockIds |-> 0]
  /\ fnCode = <<>>
  /\ llvmValue = [v \in Ids |-> NoValue]
  /\ envs = [e \in EnvIds |-> IF e = 1 THEN g.startEnv ELSE EmptyEnv]
  /\ envNext = 2
  /\ lastEnv = [b \in BlockIds |-> NoEnv]
  /\ argCount = 0
  /\ blockArgs = [b \in BlockIds |-> -1]
  /\ finalEnv = [b \in BlockIds |-> EmptyEnv]

Next == EnterBlock \/ SkipEmitAtUses \/ Visit \/ FinishBlock

\* Build runs on one thread to the end: every enabled step is taken.
Spec == Init /\ [][Next]_vars /\ WF_vars(Next)


-----------------------------------------------------------------------------
(* Properties.                                                             *)

TypeOK ==
  /\ g \in Graphs
  /\ status \in {"BUILDING", "DONE", "FATAL"}
  /\ fatal \in {"none", "Unimplemented", "Unreachable", "Unmaterialized"}
  /\ bi \in BlockIds
  /\ phase \in {"enter", "body"}
  /\ pos \in Nat \ {0}
  /\ llvmBlock \in [BlockIds -> Nat]
  /\ fnCode \in Seq(Seq(Emission))
  /\ llvmValue \in [Ids -> LLVMValues \cup {NoValue}]
  /\ envs \in [EnvIds -> EnvContents]
  /\ envNext \in 2 .. MaxEnvs + 1
  /\ lastEnv \in [BlockIds -> EnvIds \cup {NoEnv}]
  /\ argCount \in Nat
  /\ blockArgs \in [BlockIds -> Nat \cup {-1}]
  /\ finalEnv \in [BlockIds -> EnvContents]

\* The blocks that read p's last environment when they are entered: its
\* single-predecessor successors, and the joins whose first predecessor
\* it is.
Readers(p) ==
  {b \in Blocks : \/ g.preds[b] = <<p>>
                  \/ Len(g.preds[b]) > 1 /\ g.preds[b][1] = p}

Entered(b) == b < bi \/ (b = bi /\ phase = "body")

\* DoBasicBlock shares a predecessor's HEnvironment object instead of
\* copying it unless a later sibling still needs it (lines 251-259), and a
\* join and DoSimulate write into the object in place (268-279, 358).
\* Whatever blocks run in between, the environment a finished block
\* leaves to a block that has not yet been entered still holds exactly
\* what it held when the block finished.
EnvNoClobber ==
  \A p \in Blocks : p < bi =>
    \A b \in Readers(p) : ~Entered(b) => envs[lastEnv[p]] = finalEnv[p]

\* The function the builder assembles, seen through the handles of the HIR
\* blocks: the abstract specification LLVMFunction with llvm_basic_block()
\* as the handle and the function's blocks as the code.
LF == INSTANCE LLVMFunction
        WITH HBlocks <- BlockIds, Instr <- Emission,
             Terminal <- {e \in Emission : e.kind \in Terminators},
             handle <- llvmBlock, code <- fnCode

\* Use(HBasicBlock) and the emitters implement LLVMFunction: across every
\* step of Build, a block's LLVM block never changes once created, each new
\* LLVM block is empty and belongs to one HIR block, and nothing is
\* appended to an LLVM block after its terminator.
FunctionRefinement == LF!Spec

\* An LLVM block ends in exactly one terminator, and nothing follows it.
Terminated(c) ==
  /\ c # <<>>
  /\ c[Len(c)].kind \in Terminators
  /\ \A k \in 1 .. Len(c) - 1 : c[k].kind \notin Terminators

\* When Build returns the chunk, every LLVM block that Use(HBasicBlock)
\* created (for an entered block or a branch target) is terminated: no
\* branch leads to an empty block that no DoBasicBlock filled.
FunctionWellFormed ==
  status = "DONE" => \A h \in 1 .. Len(fnCode) : Terminated(fnCode[h])

\* DoParameter's right-to-left walk over the arguments (lines 326-336)
\* binds each parameter to an argument after the context and the callee,
\* and two different parameters to two different arguments.
ParamBinding ==
  \A i \in Ids :
    Ins(i).op = "Parameter" /\ llvmValue[i] # NoValue =>
      /\ llvmValue[i][2] \in 2 .. NumArgs - 1
      /\ \A j \in Ids \ {i} :
           Ins(j).op = "Parameter" /\ llvmValue[j] # NoValue
             /\ Ins(j).index # Ins(i).index => llvmValue[j] # llvmValue[i]

\* Every handler that reads an operand finds it materialised: Use() of a
\* value computed earlier or emitted at its uses, and the CHECKs of DoMul
\* and DoSub, never fail.
OperandsMaterialized == fatal # "Unmaterialized"

\* An opcode or representation without a handler makes the compilation
\* unit abort (Build returns NULL, spec 4.4 and 7), never the process.
UnsupportedAborts == fatal # "Unimplemented"

\* Build always comes to an end: its block loop and each block's
\* instruction loop finish, or the process stops.
BuildTerminates == <>(status # "BUILDING")

=============================================================================
