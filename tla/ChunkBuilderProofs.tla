------------------------- MODULE ChunkBuilderProofs -------------------------
(***************************************************************************)
(* Proofs about ChunkBuilder for every graph the frontend may hand over   *)
(* (GraphsAssumption) and every value of the bounds.                      *)
(***************************************************************************)
EXTENDS ChunkBuilder, TLAPS

\* TypeOK alone is not inductive: a step reads the environment and the
\* argument count of an earlier block, and appends to the LLVM block of
\* the current one.  IInv adds what those reads need: every block before
\* the current one has an environment and a non-negative argument count,
\* the current block has both once its body runs, and every LLVM block
\* handle points into the function.
IInv ==
  /\ TypeOK
  /\ bi < g.nblocks
  /\ \A b \in BlockIds : llvmBlock[b] <= Len(fnCode)
  /\ phase = "body" => /\ llvmBlock[bi] \in 1 .. Len(fnCode)
                       /\ lastEnv[bi] \in EnvIds
  /\ \A b \in BlockIds : b < bi => /\ lastEnv[b] \in EnvIds
                                   /\ blockArgs[b] \in Nat

\* The pair of handles and LLVM blocks Use(HBasicBlock) works on.
BlockStateOK(H, C) ==
  /\ H \in [BlockIds -> Nat]
  /\ C \in Seq(Seq(Emission))
  /\ \A b \in BlockIds : H[b] <= Len(C)

\* Appending to one LLVM block keeps the function a list of blocks.
LEMMA AppendAtOK ==
  ASSUME NEW T, NEW s \in Seq(Seq(T)), NEW h \in 1 .. Len(s), NEW x \in T
  PROVE  /\ [s EXCEPT ![h] = Append(s[h], x)] \in Seq(Seq(T))
         /\ Len([s EXCEPT ![h] = Append(s[h], x)]) = Len(s)
<1>1. Append(s[h], x) \in Seq(T)
  OBVIOUS
<1>2. QED
  BY <1>1

\* Use(HBasicBlock) gives b an LLVM block of the function and leaves every
\* block that already had one alone.
LEMMA UseBlockOK ==
  ASSUME NEW H, NEW C, BlockStateOK(H, C), NEW b \in BlockIds
  PROVE  /\ UseBlock([handle |-> H, code |-> C], b)
              = [handle |-> UseBlock([handle |-> H, code |-> C], b).handle,
                 code |-> UseBlock([handle |-> H, code |-> C], b).code]
         /\ BlockStateOK(UseBlock([handle |-> H, code |-> C], b).handle,
                         UseBlock([handle |-> H, code |-> C], b).code)
         /\ UseBlock([handle |-> H, code |-> C], b).handle[b] # 0
         /\ Len(UseBlock([handle |-> H, code |-> C], b).code) >= Len(C)
         /\ \A d \in BlockIds : H[d] # 0 =>
              UseBlock([handle |-> H, code |-> C], b).handle[d] = H[d]
<1> DEFINE U == UseBlock([handle |-> H, code |-> C], b)
<1> SUFFICES /\ U = [handle |-> U.handle, code |-> U.code]
             /\ BlockStateOK(U.handle, U.code)
             /\ U.handle[b] # 0
             /\ Len(U.code) >= Len(C)
             /\ \A d \in BlockIds : H[d] # 0 => U.handle[d] = H[d]
  OBVIOUS
<1>1. CASE H[b] # 0
  <2>1. U = [handle |-> H, code |-> C]
    BY <1>1 DEF UseBlock
  <2> HIDE DEF U
  <2>2. QED
    BY <1>1, <2>1 DEF BlockStateOK
<1>2. CASE H[b] = 0
  <2> DEFINE h == [H EXCEPT ![b] = Len(C) + 1]
             c == Append(C, <<>>)
  <2>1. U = [handle |-> h, code |-> c]
    BY <1>2 DEF UseBlock
  <2>2. c \in Seq(Seq(Emission)) /\ Len(c) = Len(C) + 1
    BY DEF BlockStateOK
  <2>3. /\ h \in [BlockIds -> Nat] /\ \A d \in BlockIds : h[d] <= Len(c)
        /\ h[b] # 0 /\ \A d \in BlockIds : H[d] # 0 => h[d] = H[d]
    BY <1>2, <2>2 DEF BlockStateOK
  <2> HIDE DEF U, h, c
  <2>4. QED
    BY <2>1, <2>2, <2>3 DEF BlockStateOK
<1>3. QED
  BY <1>1, <1>2

\* Emitting into the current LLVM block keeps the handles and the number
\* of LLVM blocks.
LEMMA EmitInOK ==
  ASSUME NEW H, NEW C, BlockStateOK(H, C), bi \in BlockIds,
         H[bi] \in 1 .. Len(C),
         NEW k \in EmitKinds, NEW ts \in Seq(BlockIds)
  PROVE  /\ EmitIn([handle |-> H, code |-> C], k, ts).handle = H
         /\ BlockStateOK(H, EmitIn([handle |-> H, code |-> C], k, ts).code)
         /\ Len(EmitIn([handle |-> H, code |-> C], k, ts).code) = Len(C)
<1> DEFINE h == H[bi]
           e == [kind |-> k, targets |-> [j \in DOMAIN ts |-> H[ts[j]]]]
           NC == [C EXCEPT ![h] = Append(C[h], e)]
           X == EmitIn([handle |-> H, code |-> C], k, ts)
<1>1. e \in Emission
  BY DEF BlockStateOK, Emission
<1>2. X = [handle |-> H, code |-> NC]
  BY DEF EmitIn
<1>3. NC \in Seq(Seq(Emission)) /\ Len(NC) = Len(C)
  BY <1>1, AppendAtOK DEF BlockStateOK
<1> HIDE DEF NC, X
<1>4. X.handle = H /\ X.code = NC
  BY <1>2
<1>5. QED
  BY <1>3, <1>4 DEF BlockStateOK, X
-----------------------------------------------------------------------------
(* The step of the instruction loop that visits the instruction at pos.   *)
InBody ==
  /\ IInv
  /\ status = "BUILDING" /\ phase = "body"
  /\ pos \in 1 .. Len(g.code[bi])

\* What a handler that neither stops the process nor touches the
\* environments' bookkeeping leaves behind.
BodyStep ==
  /\ pos' = pos + 1
  /\ UNCHANGED <<g, status, fatal, bi, phase, envNext, lastEnv, argCount,
                 blockArgs, finalEnv>>
  /\ envs' \in [EnvIds -> EnvContents]
  /\ llvmValue' \in [Ids -> LLVMValues \cup {NoValue}]
  /\ BlockStateOK(llvmBlock', fnCode')
  /\ llvmBlock'[bi] # 0

FatalCauses == {"Unimplemented", "Unreachable", "Unmaterialized"}

LEMMA IInvFacts ==
  ASSUME IInv
  PROVE  /\ BlockStateOK(llvmBlock, fnCode)
         /\ GraphOK(g)
         /\ bi \in BlockIds
BY GraphsAssumption DEF IInv, TypeOK, BlockStateOK

\* The facts the frontend's guarantees give about the current instruction.
LEMMA CurFacts ==
  ASSUME InBody
  PROVE  /\ Cur \in Ids
         /\ InstrOK(Ins(Cur))
         /\ Ins(Cur).op \in {"Add", "Sub", "Mul", "CompareNumericAndBranch"}
              => Len(Ins(Cur).args) >= 2
         /\ Ins(Cur).op \in {"Return", "Change"} => Len(Ins(Cur).args) >= 1
         /\ Ins(Cur).op = "CompareNumericAndBranch" => Len(g.succs[bi]) = 2
         /\ g.succs[bi] \in Seq(BlockIds)
<1>1. GraphOK(g) /\ bi \in BlockIds
  BY IInvFacts DEF InBody
<1>2. Cur \in Ids
  BY <1>1 DEF InBody, GraphOK, Cur
<1>3. QED
  BY <1>1, <1>2 DEF InBody, GraphOK, Cur, Ins

LEMMA FatalOK ==
  ASSUME IInv, NEW c \in FatalCauses, Fatal(c)
  PROVE  IInv'
BY DEF IInv, TypeOK, Fatal, FatalCauses

LEMMA BodyStepOK ==
  ASSUME InBody, BodyStep
  PROVE  IInv'
<1>1. bi \in BlockIds /\ pos \in Nat
  BY IInvFacts DEF InBody
<1>2. TypeOK'
  BY <1>1 DEF InBody, IInv, TypeOK, BodyStep, BlockStateOK
<1>3. QED
  BY <1>1, <1>2 DEF InBody, IInv, BodyStep, BlockStateOK

\* Use() of operands in Ids gives every value an LLVM value or none.
LEMMA UsedOK ==
  ASSUME TypeOK, NEW vs \in SUBSET Ids
  PROVE  Used(vs) \in [Ids -> LLVMValues \cup {NoValue}]
BY DEF Used, TypeOK, LLVMValues

\* Appending one instruction to the current LLVM block.
LEMMA EmitCodeOK ==
  ASSUME InBody, NEW k \in EmitKinds
  PROVE  BlockStateOK(llvmBlock, EmitIn(BlockState, k, <<>>).code)
<1>1. BlockStateOK(llvmBlock, fnCode) /\ bi \in BlockIds
  BY IInvFacts DEF InBody
<1>2. llvmBlock[bi] \in 1 .. Len(fnCode)
  BY DEF InBody, IInv
<1>3. <<>> \in Seq(BlockIds)
  OBVIOUS
<1>4. BlockStateOK(llvmBlock,
        EmitIn([handle |-> llvmBlock, code |-> fnCode], k, <<>>).code)
  BY <1>1, <1>2, <1>3, EmitInOK
<1>5. QED
  BY <1>4 DEF BlockState

\* A handler that emits one instruction into the current block.
LEMMA EmitOK ==
  ASSUME InBody, NEW i \in Ids, NEW k \in EmitKinds,
         NEW vals \in [Ids -> LLVMValues \cup {NoValue}],
         Emit(i, k, vals), UNCHANGED llvmBlock
  PROVE  /\ BlockStateOK(llvmBlock', fnCode')
         /\ llvmValue' \in [Ids -> LLVMValues \cup {NoValue}]
         /\ llvmBlock'[bi] # 0
<1>1. BlockStateOK(llvmBlock, fnCode) /\ bi \in BlockIds
  BY IInvFacts DEF InBody
<1>2. llvmBlock[bi] \in 1 .. Len(fnCode)
  BY DEF InBody, IInv
<1>3. BlockStateOK(llvmBlock, EmitIn(BlockState, k, <<>>).code)
  BY EmitCodeOK
<1>4. NextInst \in LLVMValues
  <2>1. fnCode[llvmBlock[bi]] \in Seq(Emission)
    BY <1>1, <1>2 DEF BlockStateOK
  <2>2. QED
    BY <1>1, <1>2, <2>1 DEF NextInst, LLVMValues, BlockStateOK
<1>5. QED
  BY <1>2, <1>3, <1>4 DEF Emit

-----------------------------------------------------------------------------
(* One lemma per handler: from a state of the instruction loop, the       *)
(* handler of the current instruction keeps IInv.                         *)

LEMMA SkipOK ==
  ASSUME InBody, Skip
  PROVE  IInv'
<1>1. BodyStep
  BY IInvFacts DEF InBody, IInv, TypeOK, Skip, Advance, BodyStep, BlockStateOK
<1>2. QED
  BY <1>1, BodyStepOK

LEMMA DoBlockEntryOK ==
  ASSUME InBody, NEW i \in Ids, DoBlockEntry(i) \/ DoNothing(i)
  PROVE  IInv'
BY SkipOK DEF DoBlockEntry, DoNothing

LEMMA DoContextOK ==
  ASSUME InBody, NEW i \in Ids, DoContext(i)
  PROVE  IInv'
BY SkipOK, FatalOK DEF DoContext, InBody, FatalCauses

LEMMA DoParameterOK ==
  ASSUME InBody, NEW i \in Ids, InstrOK(Ins(i)), DoParameter(i)
  PROVE  IInv'
<1>1. GraphOK(g)
  BY IInvFacts DEF InBody
<1>2. ArgPosition(Ins(i).index) \in Nat
  BY <1>1 DEF ArgPosition, NumArgs, GraphOK, InstrOK
<1>3. llvmValue' \in [Ids -> LLVMValues \cup {NoValue}]
  BY <1>2 DEF DoParameter, InBody, IInv, TypeOK, LLVMValues
<1>4. BodyStep
  BY <1>3, IInvFacts DEF InBody, IInv, TypeOK, DoParameter, Advance, BodyStep
<1>5. QED
  BY <1>4, BodyStepOK

LEMMA DoSimulateOK ==
  ASSUME InBody, NEW i \in Ids, InstrOK(Ins(i)), DoSimulate(i)
  PROVE  IInv'
<1> DEFINE e == lastEnv[bi]
           f == Ins(i).binds
<1>1. e \in EnvIds /\ envs \in [EnvIds -> EnvContents]
  BY DEF InBody, IInv, TypeOK
<1>2. [s \in Slots |-> IF s \in DOMAIN f THEN f[s] ELSE envs[e][s]]
        \in EnvContents
  BY <1>1 DEF InstrOK, SlotMap, EnvContents
<1>3. envs' \in [EnvIds -> EnvContents]
  BY <1>1, <1>2 DEF DoSimulate
<1>4. BodyStep
  BY <1>3, IInvFacts DEF InBody, IInv, TypeOK, DoSimulate, BodyStep
<1>5. QED
  BY <1>4, BodyStepOK

LEMMA DoConstantOK ==
  ASSUME InBody, NEW i \in Ids, DoConstant(i)
  PROVE  IInv'
<1>1. CASE ConstantSupported(i)
  <2>0. /\ llvmValue' = [llvmValue EXCEPT ![i] = <<"const", i>>]
        /\ Advance /\ UNCHANGED <<llvmBlock, fnCode>>
    BY <1>1 DEF DoConstant
  <2>1. llvmValue' \in [Ids -> LLVMValues \cup {NoValue}]
    BY <2>0 DEF InBody, IInv, TypeOK, LLVMValues
  <2>2. BodyStep
    BY <2>0, <2>1, IInvFacts DEF InBody, IInv, TypeOK, Advance, BodyStep
  <2>3. QED
    BY <2>2, BodyStepOK
<1>2. CASE ~ConstantSupported(i)
  BY <1>2, FatalOK DEF DoConstant, InBody, FatalCauses
<1>3. QED
  BY <1>1, <1>2
LEMMA UseOutcomeCases ==
  ASSUME NEW vs
  PROVE  UseOutcome(vs) \in {"unimplemented", "unmaterialized", "ok"}
BY DEF UseOutcome

LEMMA DoReturnOK ==
  ASSUME InBody, NEW i \in Ids, InstrOK(Ins(i)), Len(Ins(i).args) >= 1,
         DoReturn(i)
  PROVE  IInv'
<1> DEFINE vs == {Ins(i).args[1]}
<1>1. vs \in SUBSET Ids
  BY DEF InstrOK
<1>2. CASE g.isStub \/ g.savesDoubles \/ ~Ins(i).pcConst
  BY <1>2, FatalOK DEF DoReturn, InBody, FatalCauses
<1>3. CASE ~(g.isStub \/ g.savesDoubles \/ ~Ins(i).pcConst)
  <2>1. WithUse(vs, /\ llvmValue' = Used(vs)
                    /\ fnCode' = EmitIn(BlockState, "ret", <<>>).code
                    /\ Advance /\ UNCHANGED llvmBlock)
    BY <1>3 DEF DoReturn
  <2>2. CASE UseOutcome(vs) # "ok"
    BY <2>1, <2>2, UseOutcomeCases, FatalOK DEF WithUse, InBody, FatalCauses
  <2>3. CASE UseOutcome(vs) = "ok"
    <3>1. /\ llvmValue' = Used(vs)
          /\ fnCode' = EmitIn(BlockState, "ret", <<>>).code
          /\ Advance /\ UNCHANGED llvmBlock
      BY <2>1, <2>3 DEF WithUse
    <3>2. BlockStateOK(llvmBlock, EmitIn(BlockState, "ret", <<>>).code)
      BY EmitCodeOK DEF EmitKinds
    <3>3. Used(vs) \in [Ids -> LLVMValues \cup {NoValue}]
      BY <1>1, UsedOK DEF InBody, IInv
    <3>4. BlockStateOK(llvmBlock', fnCode')
      BY <3>1, <3>2
    <3>5. llvmBlock'[bi] # 0
      BY <3>1 DEF InBody, IInv
    <3>6. BodyStep
      BY <3>1, <3>3, <3>4, <3>5 DEF InBody, IInv, TypeOK, Advance, BodyStep
    <3>7. QED
      BY <3>6, BodyStepOK
  <2>4. QED
    BY <2>2, <2>3
<1>4. QED
  BY <1>2, <1>3

LEMMA DoAddOK ==
  ASSUME InBody, NEW i \in Ids, InstrOK(Ins(i)), Len(Ins(i).args) >= 2,
         DoAdd(i)
  PROVE  IInv'
<1> DEFINE vs == {Ins(i).args[1], Ins(i).args[2]}
<1>1. vs \in SUBSET Ids
  BY DEF InstrOK
<1>2. CASE Ins(i).rep \notin ArithReps
  BY <1>2, FatalOK DEF DoAdd, InBody, FatalCauses
<1>3. CASE Ins(i).rep \in ArithReps
  <2>1. WithUse(vs, Emit(i, "add", Used(vs)) /\ Advance /\ UNCHANGED llvmBlock)
    BY <1>3 DEF DoAdd
  <2>2. CASE UseOutcome(vs) # "ok"
    BY <2>1, <2>2, UseOutcomeCases, FatalOK DEF WithUse, InBody, FatalCauses
  <2>3. CASE UseOutcome(vs) = "ok"
    <3>1. Emit(i, "add", Used(vs)) /\ Advance /\ UNCHANGED llvmBlock
      BY <2>1, <2>3 DEF WithUse
    <3>2. Used(vs) \in [Ids -> LLVMValues \cup {NoValue}]
      BY <1>1, UsedOK DEF InBody, IInv
    <3>3. /\ BlockStateOK(llvmBlock', fnCode')
          /\ llvmValue' \in [Ids -> LLVMValues \cup {NoValue}]
          /\ llvmBlock'[bi] # 0
      BY <3>1, <3>2, EmitOK DEF EmitKinds
    <3>4. BodyStep
      BY <3>1, <3>3 DEF InBody, IInv, TypeOK, Advance, BodyStep
    <3>5. QED
      BY <3>4, BodyStepOK
  <2>4. QED
    BY <2>2, <2>3
<1>4. QED
  BY <1>2, <1>3

LEMMA DoSubMulOK ==
  ASSUME InBody, NEW i \in Ids, InstrOK(Ins(i)), Len(Ins(i).args) >= 2,
         DoSubMul(i)
  PROVE  IInv'
<1>1. CASE Ins(i).rep \notin ArithReps
  BY <1>1, FatalOK DEF DoSubMul, InBody, FatalCauses
<1>2. CASE Ins(i).rep \in ArithReps
  <2>1. CASE llvmValue[Ins(i).args[1]] = NoValue
             \/ llvmValue[Ins(i).args[2]] = NoValue
    BY <1>2, <2>1, FatalOK DEF DoSubMul, InBody, FatalCauses
  <2>2. CASE ~(llvmValue[Ins(i).args[1]] = NoValue
               \/ llvmValue[Ins(i).args[2]] = NoValue)
    <3> DEFINE k == IF Ins(i).op = "Sub" THEN "sub" ELSE "mul"
    <3>1. Emit(i, k, llvmValue) /\ Advance /\ UNCHANGED llvmBlock
      BY <1>2, <2>2 DEF DoSubMul
    <3>2. k \in EmitKinds /\ llvmValue \in [Ids -> LLVMValues \cup {NoValue}]
      BY DEF EmitKinds, InBody, IInv, TypeOK
    <3>3. /\ BlockStateOK(llvmBlock', fnCode')
          /\ llvmValue' \in [Ids -> LLVMValues \cup {NoValue}]
          /\ llvmBlock'[bi] # 0
      BY <3>1, <3>2, EmitOK
    <3>4. BodyStep
      BY <3>1, <3>3 DEF InBody, IInv, TypeOK, Advance, BodyStep
    <3>5. QED
      BY <3>4, BodyStepOK
  <2>3. QED
    BY <2>1, <2>2
<1>3. QED
  BY <1>1, <1>2
LEMMA ChangeAliasOK ==
  ASSUME InBody, NEW i \in Ids, InstrOK(Ins(i)), Len(Ins(i).args) >= 1,
         ChangeAlias(i)
  PROVE  IInv'
<1> DEFINE val == Ins(i).args[1]
<1>1. {val} \in SUBSET Ids /\ val \in Ids
  BY DEF InstrOK
<1>2. CASE UseOutcome({val}) # "ok"
  BY <1>2, UseOutcomeCases, FatalOK DEF ChangeAlias, WithUse, InBody,
                                        FatalCauses
<1>3. CASE UseOutcome({val}) = "ok"
  <2>1. /\ llvmValue' = [Used({val}) EXCEPT ![i] = Used({val})[val]]
        /\ Advance /\ UNCHANGED <<llvmBlock, fnCode>>
    BY <1>3 DEF ChangeAlias, WithUse
  <2>2. Used({val}) \in [Ids -> LLVMValues \cup {NoValue}]
    BY <1>1, UsedOK DEF InBody, IInv
  <2>3. llvmValue' \in [Ids -> LLVMValues \cup {NoValue}]
    BY <1>1, <2>1, <2>2
  <2>5. BlockStateOK(llvmBlock', fnCode')
    BY <2>1, IInvFacts DEF InBody
  <2>7. llvmBlock'[bi] # 0 /\ envs' \in [EnvIds -> EnvContents]
    BY <2>1 DEF InBody, IInv, TypeOK, Advance
  <2>6. BodyStep
    BY <2>1, <2>3, <2>5, <2>7 DEF Advance, BodyStep
  <2>4. QED
    BY <2>6, BodyStepOK
<1>4. QED
  BY <1>2, <1>3

LEMMA ChangeShiftOK ==
  ASSUME InBody, NEW i \in Ids, InstrOK(Ins(i)), Len(Ins(i).args) >= 1,
         NEW k \in EmitKinds, ChangeShift(i, k)
  PROVE  IInv'
<1> DEFINE val == Ins(i).args[1]
<1>1. {val} \in SUBSET Ids
  BY DEF InstrOK
<1>2. CASE UseOutcome({val}) # "ok"
  BY <1>2, UseOutcomeCases, FatalOK DEF ChangeShift, WithUse, InBody,
                                        FatalCauses
<1>3. CASE UseOutcome({val}) = "ok"
  <2>1. Emit(i, k, Used({val})) /\ Advance /\ UNCHANGED llvmBlock
    BY <1>3 DEF ChangeShift, WithUse
  <2>2. Used({val}) \in [Ids -> LLVMValues \cup {NoValue}]
    BY <1>1, UsedOK DEF InBody, IInv
  <2>3. /\ BlockStateOK(llvmBlock', fnCode')
        /\ llvmValue' \in [Ids -> LLVMValues \cup {NoValue}]
        /\ llvmBlock'[bi] # 0
    BY <2>1, <2>2, EmitOK
  <2>4. BodyStep
    BY <2>1, <2>3 DEF InBody, IInv, TypeOK, Advance, BodyStep
  <2>5. QED
    BY <2>4, BodyStepOK
<1>4. QED
  BY <1>2, <1>3

\* DoChange ends in one of its arms: an alias, a shift, an UNIMPLEMENTED,
\* or nothing.
LEMMA DoChangeOK ==
  ASSUME InBody, NEW i \in Ids, InstrOK(Ins(i)), Len(Ins(i).args) >= 1,
         DoChange(i)
  PROVE  IInv'
<1>1. \/ ChangeAlias(i)
      \/ ChangeShift(i, "lshr") \/ ChangeShift(i, "shl")
      \/ Fatal("Unimplemented")
      \/ Skip
  BY DEF DoChange
<1>2. QED
  BY <1>1, ChangeAliasOK, ChangeShiftOK, FatalOK, SkipOK
  DEF EmitKinds, InBody, FatalCauses
\* A record of handles and LLVM blocks, as the builder passes them on.
IsBlockState(st) ==
  /\ st = [handle |-> st.handle, code |-> st.code]
  /\ BlockStateOK(st.handle, st.code)

\* UseBlockOK and EmitInOK for a block state given by name, so that the
\* two can be chained.
LEMMA UseBlockStOK ==
  ASSUME NEW st, IsBlockState(st), NEW b \in BlockIds
  PROVE  /\ IsBlockState(UseBlock(st, b))
         /\ \A d \in BlockIds : st.handle[d] # 0 =>
              UseBlock(st, b).handle[d] = st.handle[d]
<1> DEFINE U == UseBlock(st, b)
<1> SUFFICES /\ IsBlockState(U)
             /\ \A d \in BlockIds : st.handle[d] # 0 => U.handle[d] = st.handle[d]
  OBVIOUS
<1>1. CASE st.handle[b] # 0
  <2>1. U = st
    BY <1>1 DEF UseBlock
  <2> HIDE DEF U
  <2>2. QED
    BY <2>1
<1>2. CASE st.handle[b] = 0
  <2> DEFINE h == [st.handle EXCEPT ![b] = Len(st.code) + 1]
             c == Append(st.code, <<>>)
  <2>1. U = [handle |-> h, code |-> c]
    BY <1>2 DEF UseBlock
  <2>2. c \in Seq(Seq(Emission)) /\ Len(c) = Len(st.code) + 1
    BY DEF IsBlockState, BlockStateOK
  <2>3. /\ h \in [BlockIds -> Nat] /\ \A d \in BlockIds : h[d] <= Len(c)
        /\ \A d \in BlockIds : st.handle[d] # 0 => h[d] = st.handle[d]
    BY <1>2, <2>2 DEF IsBlockState, BlockStateOK
  <2> HIDE DEF U, h, c
  <2>4. QED
    BY <2>1, <2>2, <2>3 DEF IsBlockState, BlockStateOK
<1>3. QED
  BY <1>1, <1>2

LEMMA EmitInStOK ==
  ASSUME NEW st, IsBlockState(st), bi \in BlockIds,
         st.handle[bi] \in 1 .. Len(st.code),
         NEW k \in EmitKinds, NEW ts \in Seq(BlockIds)
  PROVE  /\ IsBlockState(EmitIn(st, k, ts))
         /\ EmitIn(st, k, ts).handle = st.handle
         /\ Len(EmitIn(st, k, ts).code) = Len(st.code)
<1> DEFINE h == st.handle[bi]
           e == [kind |-> k, targets |-> [j \in DOMAIN ts |-> st.handle[ts[j]]]]
           NC == [st.code EXCEPT ![h] = Append(st.code[h], e)]
           X == EmitIn(st, k, ts)
<1>1. e \in Emission
  BY DEF IsBlockState, BlockStateOK, Emission
<1>2. X = [handle |-> st.handle, code |-> NC]
  BY DEF EmitIn
<1>3. NC \in Seq(Seq(Emission)) /\ Len(NC) = Len(st.code)
  BY <1>1, AppendAtOK DEF IsBlockState, BlockStateOK
<1> HIDE DEF NC, X
<1>4. X.handle = st.handle /\ X.code = NC
  BY <1>2
<1>5. QED
  BY <1>2, <1>3, <1>4 DEF IsBlockState, BlockStateOK, X

\* The LLVM blocks of both successors are used, then an icmp and a
\* conditional branch are appended to the current block.
LEMMA CompareBlocksOK ==
  ASSUME NEW st, IsBlockState(st), bi \in BlockIds,
         st.handle[bi] \in 1 .. Len(st.code),
         NEW s1 \in BlockIds, NEW s2 \in BlockIds, NEW ss \in Seq(BlockIds)
  PROVE  LET st2 == EmitIn(EmitIn(UseBlock(UseBlock(st, s1), s2),
                                  "icmp", <<>>), "condbr", ss)
         IN  BlockStateOK(st2.handle, st2.code) /\ st2.handle[bi] # 0
<1> DEFINE U1 == UseBlock(st, s1)
           U2 == UseBlock(U1, s2)
           E1 == EmitIn(U2, "icmp", <<>>)
           E2 == EmitIn(E1, "condbr", ss)
<1> SUFFICES BlockStateOK(E2.handle, E2.code) /\ E2.handle[bi] # 0
  OBVIOUS
<1>0. <<>> \in Seq(BlockIds) /\ "icmp" \in EmitKinds /\ "condbr" \in EmitKinds
  BY DEF EmitKinds
<1> HIDE DEF U1, U2, E1, E2
<1>1. IsBlockState(U1) /\ U1.handle[bi] = st.handle[bi]
  BY UseBlockStOK DEF U1
<1>2. IsBlockState(U2) /\ U2.handle[bi] = st.handle[bi]
  BY <1>1, UseBlockStOK DEF U2
<1>3. U2.handle[bi] \in 1 .. Len(U2.code)
  BY <1>2 DEF IsBlockState, BlockStateOK
<1>4. IsBlockState(E1) /\ E1.handle = U2.handle /\ Len(E1.code) = Len(U2.code)
  BY <1>0, <1>2, <1>3, EmitInStOK DEF E1
<1>5. IsBlockState(E2) /\ E2.handle = E1.handle
  BY <1>0, <1>3, <1>4, EmitInStOK DEF E2
<1>6. QED
  BY <1>3, <1>4, <1>5 DEF IsBlockState

LEMMA DoCompareNumericAndBranchOK ==
  ASSUME InBody, NEW i \in Ids, InstrOK(Ins(i)), Len(Ins(i).args) >= 2,
         Len(g.succs[bi]) = 2, g.succs[bi] \in Seq(BlockIds),
         DoCompareNumericAndBranch(i)
  PROVE  IInv'
<1> DEFINE vs == {Ins(i).args[1], Ins(i).args[2]}
           ss == g.succs[bi]
           st == UseBlock(UseBlock(BlockState, ss[1]), ss[2])
           h  == llvmBlock[bi]
           st2 == EmitIn(EmitIn(st, "icmp", <<>>), "condbr", ss)
           A == /\ llvmBlock' = st2.handle
                /\ fnCode' = st2.code
                /\ llvmValue' = [Used(vs) EXCEPT ![i] =
                                   <<"inst", h, Len(fnCode[h]) + 2>>]
                /\ Advance
<1>1. vs \in SUBSET Ids /\ ss[1] \in BlockIds /\ ss[2] \in BlockIds
  BY DEF InstrOK
<1>2. CASE Ins(i).token \in {"IN", "INSTANCEOF"}
  <2>1. Fatal("Unreachable")
    BY <1>2 DEF DoCompareNumericAndBranch
  <2>2. QED
    BY <2>1, FatalOK DEF InBody, FatalCauses
<1>3. CASE Ins(i).token \notin {"IN", "INSTANCEOF"} /\ Ins(i).rep # "Integer32"
  <2>1. Fatal("Unimplemented")
    BY <1>3 DEF DoCompareNumericAndBranch
  <2>2. QED
    BY <2>1, FatalOK DEF InBody, FatalCauses
<1>4. CASE Ins(i).token \notin {"IN", "INSTANCEOF"} /\ Ins(i).rep = "Integer32"
  <2>1. WithUse(vs, A)
    BY <1>4 DEF DoCompareNumericAndBranch
  <2>2. CASE UseOutcome(vs) # "ok"
    BY <2>1, <2>2, UseOutcomeCases, FatalOK DEF WithUse, InBody, FatalCauses
  <2>3. CASE UseOutcome(vs) = "ok"
    <3>1. A
      BY <2>1, <2>3 DEF WithUse
    <3>2. BlockStateOK(st2.handle, st2.code) /\ st2.handle[bi] # 0
      <4>1. BlockStateOK(llvmBlock, fnCode) /\ bi \in BlockIds
            /\ llvmBlock[bi] \in 1 .. Len(fnCode)
        BY IInvFacts DEF InBody, IInv
      <4>2. /\ IsBlockState(BlockState)
            /\ BlockState.handle[bi] \in 1 .. Len(BlockState.code)
        BY <4>1 DEF IsBlockState, BlockState
      <4>3. QED
        BY <1>1, <4>1, <4>2, CompareBlocksOK
    <3>3. <<"inst", h, Len(fnCode[h]) + 2>> \in LLVMValues
      <4>1. BlockStateOK(llvmBlock, fnCode) /\ h \in 1 .. Len(fnCode)
        BY IInvFacts DEF InBody, IInv
      <4>2. fnCode[h] \in Seq(Emission)
        BY <4>1 DEF BlockStateOK
      <4>3. QED
        BY <4>1, <4>2 DEF LLVMValues
    <3>4. llvmValue' \in [Ids -> LLVMValues \cup {NoValue}]
      BY <1>1, <3>1, <3>3, UsedOK DEF InBody, IInv
    <3>5. envs' \in [EnvIds -> EnvContents]
      BY <3>1 DEF Advance, InBody, IInv, TypeOK
    <3> HIDE DEF st2
    <3>6. BodyStep
      BY <3>1, <3>2, <3>4, <3>5 DEF Advance, BodyStep
    <3>7. QED
      BY <3>6, BodyStepOK
  <2>4. QED
    BY <2>2, <2>3
<1>5. QED
  BY <1>2, <1>3, <1>4
\* A control instruction whose successor is known becomes a branch to
\* that successor's LLVM block.
LEMMA GotoKnownOK ==
  ASSUME InBody, NEW i \in Ids, InstrOK(Ins(i)), Ins(i).known # NoBlock,
         GotoKnown(i)
  PROVE  IInv'
<1> DEFINE kb == Ins(i).known
           U  == UseBlock(BlockState, kb)
           st == EmitIn(U, "br", <<kb>>)
<1>1. kb \in BlockIds
  BY DEF InstrOK
<1>2. /\ IsBlockState(BlockState) /\ bi \in BlockIds
      /\ BlockState.handle[bi] \in 1 .. Len(BlockState.code)
  BY IInvFacts DEF InBody, IInv, IsBlockState, BlockState
<1>3. <<kb>> \in Seq(BlockIds) /\ "br" \in EmitKinds
  BY <1>1 DEF EmitKinds
<1> HIDE DEF U, st
<1>4. IsBlockState(U) /\ U.handle[bi] = BlockState.handle[bi]
  BY <1>1, <1>2, UseBlockStOK DEF U
<1>5. U.handle[bi] \in 1 .. Len(U.code)
  BY <1>2, <1>4 DEF IsBlockState, BlockStateOK
<1>6. IsBlockState(st) /\ st.handle = U.handle
  BY <1>2, <1>3, <1>4, <1>5, EmitInStOK DEF st
<1>7. /\ llvmBlock' = st.handle /\ fnCode' = st.code
      /\ Advance /\ UNCHANGED llvmValue
  BY DEF GotoKnown, st, U
<1>8. BlockStateOK(llvmBlock', fnCode') /\ llvmBlock'[bi] # 0
  BY <1>5, <1>6, <1>7 DEF IsBlockState
<1>9. BodyStep
  BY <1>7, <1>8 DEF InBody, IInv, TypeOK, Advance, BodyStep
<1>10. QED
  BY <1>9, BodyStepOK

-----------------------------------------------------------------------------
(* The four steps of the builder.                                          *)

LEMMA VisitOK ==
  ASSUME IInv, Visit
  PROVE  IInv'
<1> DEFINE i == Cur
<1>1. InBody
  BY DEF Visit, InBody, IInv, TypeOK
<1>2. /\ i \in Ids
      /\ InstrOK(Ins(i))
      /\ Ins(i).op \in {"Add", "Sub", "Mul", "CompareNumericAndBranch"}
           => Len(Ins(i).args) >= 2
      /\ Ins(i).op \in {"Return", "Change"} => Len(Ins(i).args) >= 1
      /\ Ins(i).op = "CompareNumericAndBranch" => Len(g.succs[bi]) = 2
      /\ g.succs[bi] \in Seq(BlockIds)
  BY <1>1, CurFacts
<1>3. VisitInstruction(i)
  BY DEF Visit
<1> HIDE DEF i
<1>4. CASE Ins(i).dummy /\ Fatal("Unimplemented")
  BY <1>4, FatalOK DEF FatalCauses
<1>5. CASE ~Ins(i).dummy /\ KnownSuccessor(i) /\ GotoKnown(i)
  BY <1>1, <1>2, <1>5, GotoKnownOK DEF KnownSuccessor
<1>6. CASE ~Ins(i).dummy /\ ~KnownSuccessor(i) /\ CompileToLLVM(i)
  <2>1. CASE DoBlockEntry(i) \/ DoNothing(i)
    BY <1>1, <1>2, <2>1, DoBlockEntryOK
  <2>2. CASE DoContext(i)
    BY <1>1, <1>2, <2>2, DoContextOK
  <2>3. CASE DoParameter(i)
    BY <1>1, <1>2, <2>3, DoParameterOK
  <2>4. CASE DoSimulate(i)
    BY <1>1, <1>2, <2>4, DoSimulateOK
  <2>5. CASE DoConstant(i)
    BY <1>1, <1>2, <2>5, DoConstantOK
  <2>6. CASE DoReturn(i)
    <3>1. Ins(i).op = "Return"
      BY <2>6 DEF DoReturn
    <3>2. QED
      BY <1>1, <1>2, <2>6, <3>1, DoReturnOK
  <2>7. CASE DoAdd(i)
    <3>1. Ins(i).op = "Add"
      BY <2>7 DEF DoAdd
    <3>2. QED
      BY <1>1, <1>2, <2>7, <3>1, DoAddOK
  <2>8. CASE DoSubMul(i)
    <3>1. Ins(i).op \in {"Sub", "Mul"}
      BY <2>8 DEF DoSubMul
    <3>2. QED
      BY <1>1, <1>2, <2>8, <3>1, DoSubMulOK
  <2>9. CASE DoChange(i)
    <3>1. Ins(i).op = "Change"
      BY <2>9 DEF DoChange
    <3>2. QED
      BY <1>1, <1>2, <2>9, <3>1, DoChangeOK
  <2>10. CASE DoCompareNumericAndBranch(i)
    <3>1. Ins(i).op = "CompareNumericAndBranch"
      BY <2>10 DEF DoCompareNumericAndBranch
    <3>2. QED
      BY <1>1, <1>2, <2>10, <3>1, DoCompareNumericAndBranchOK
  <2>11. CASE Ins(i).op \in {"Goto", "Phi", "Other"} /\ Fatal("Unimplemented")
    BY <1>1, <2>11, FatalOK DEF InBody, FatalCauses
  <2>12. QED
    BY <1>6, <2>1, <2>2, <2>3, <2>4, <2>5, <2>6, <2>7, <2>8, <2>9, <2>10,
       <2>11 DEF CompileToLLVM
<1>7. QED
  BY <1>3, <1>4, <1>5, <1>6 DEF VisitInstruction

LEMMA SkipEmitAtUsesOK ==
  ASSUME IInv, SkipEmitAtUses
  PROVE  IInv'
<1>1. InBody
  BY DEF SkipEmitAtUses, InBody, IInv, TypeOK
<1>2. QED
  BY <1>1, SkipOK DEF SkipEmitAtUses
\* The first predecessor of a block other than the start block comes
\* before it and has finished: its environment and argument count are set.
LEMMA PredFacts ==
  ASSUME IInv, bi # 0
  PROVE  LET p == g.preds[bi][1]
         IN  /\ p \in BlockIds /\ p < bi
             /\ lastEnv[p] \in EnvIds /\ blockArgs[p] \in Nat
<1>1. GraphOK(g) /\ bi \in BlockIds
  BY IInvFacts
<1>2. bi \in 1 .. g.nblocks - 1
  BY <1>1, MaxBlocksAssumption DEF IInv, BlockIds, GraphOK
<1>3. g.preds[bi][1] \in BlockIds /\ g.preds[bi][1] < bi
  BY <1>1, <1>2 DEF GraphOK
<1>4. QED
  BY <1>3 DEF IInv

\* What each of the three ways of giving the block its environment leaves.
EnvEntered ==
  /\ lastEnv' \in [BlockIds -> EnvIds \cup {NoEnv}]
  /\ lastEnv'[bi] \in EnvIds
  /\ \A b \in BlockIds : b # bi => lastEnv'[b] = lastEnv[b]
  /\ envs' \in [EnvIds -> EnvContents]
  /\ envNext' \in 2 .. MaxEnvs + 1
  /\ argCount' \in Nat

LEMMA StartEnvOK ==
  ASSUME IInv, StartEnv(bi)
  PROVE  EnvEntered
BY MaxEnvsAssumption DEF StartEnv, EnvEntered, IInv, TypeOK, EnvIds

LEMMA SinglePredEnvOK ==
  ASSUME IInv, SinglePredEnv(bi)
  PROVE  EnvEntered
<1> DEFINE p == g.preds[bi][1]
<1>1. p \in BlockIds /\ lastEnv[p] \in EnvIds /\ blockArgs[p] \in Nat
  BY PredFacts DEF SinglePredEnv
<1>2. envs[lastEnv[p]] \in EnvContents
  BY <1>1 DEF IInv, TypeOK
<1>3. CASE NeedsCopy(p, bi)
  <2>1. envNext \in EnvIds /\ envNext + 1 \in 2 .. MaxEnvs + 1
    BY <1>3, MaxEnvsAssumption DEF SinglePredEnv, IInv, TypeOK, EnvIds
  <2>2. QED
    BY <1>1, <1>2, <1>3, <2>1 DEF SinglePredEnv, EnvEntered, IInv, TypeOK
<1>4. CASE ~NeedsCopy(p, bi)
  BY <1>1, <1>4 DEF SinglePredEnv, EnvEntered, IInv, TypeOK
<1>5. QED
  BY <1>3, <1>4

LEMMA JoinEnvOK ==
  ASSUME IInv, JoinEnv(bi)
  PROVE  EnvEntered
<1> DEFINE p   == g.preds[bi][1]
           e   == lastEnv[p]
           phi == g.phis[bi]
           del == g.deleted[bi]
           merged(s) == IF s \in DOMAIN phi THEN phi[s] ELSE envs[e][s]
<1>1. p \in BlockIds /\ e \in EnvIds /\ blockArgs[p] \in Nat
  BY PredFacts DEF JoinEnv
<1>2. GraphOK(g) /\ bi \in BlockIds
  BY IInvFacts
<1>3. \A s \in Slots : merged(s) \in Ids \cup {Undefined}
  <2>1. SlotMap(phi, Ids)
    BY <1>2 DEF GraphOK
  <2>2. envs[e] \in EnvContents
    BY <1>1 DEF IInv, TypeOK
  <2>3. QED
    BY <2>1, <2>2 DEF SlotMap, EnvContents
<1>4. [s \in Slots |-> IF \E k \in DOMAIN del : del[k] = s THEN Undefined
                       ELSE merged(s)] \in EnvContents
  BY <1>3 DEF EnvContents
<1>5. QED
  BY <1>1, <1>4 DEF JoinEnv, EnvEntered, IInv, TypeOK

LEMMA EnterBlockOK ==
  ASSUME IInv, EnterBlock
  PROVE  IInv'
<1> DEFINE st == UseBlock(BlockState, bi)
<1>1. IsBlockState(BlockState) /\ bi \in BlockIds
  BY IInvFacts DEF IsBlockState, BlockState
<1>2. /\ IsBlockState(st)
      /\ st.handle[bi] # 0
  <2>1. IsBlockState(st)
    BY <1>1, UseBlockStOK
  <2>2. st.handle[bi] # 0
    BY <1>1 DEF UseBlock, IsBlockState, BlockStateOK
  <2>3. QED
    BY <2>1, <2>2
<1>3. llvmBlock' = st.handle /\ fnCode' = st.code
  BY DEF EnterBlock
<1>4. EnvEntered
  BY StartEnvOK, SinglePredEnvOK, JoinEnvOK DEF EnterBlock
<1> HIDE DEF st
<1>5. BlockStateOK(llvmBlock', fnCode') /\ llvmBlock'[bi] # 0
  BY <1>2, <1>3 DEF IsBlockState
<1>6. TypeOK'
  BY <1>1, <1>4, <1>5 DEF EnterBlock, EnvEntered, IInv, TypeOK, BlockStateOK
<1>7. \A b \in BlockIds : b < bi => /\ lastEnv'[b] \in EnvIds
                                   /\ blockArgs'[b] \in Nat
  BY <1>1, <1>4 DEF EnterBlock, EnvEntered, IInv
<1>8. llvmBlock'[bi] \in 1 .. Len(fnCode') /\ \A b \in BlockIds : llvmBlock'[b] <= Len(fnCode')
  BY <1>1, <1>5 DEF BlockStateOK
<1>9. QED
  BY <1>4, <1>6, <1>7, <1>8 DEF EnterBlock, EnvEntered, IInv

LEMMA FinishBlockOK ==
  ASSUME IInv, FinishBlock
  PROVE  IInv'
<1>1. GraphOK(g) /\ bi \in BlockIds /\ lastEnv[bi] \in EnvIds
  BY IInvFacts DEF FinishBlock, IInv
<1>2. envs[lastEnv[bi]] \in EnvContents /\ argCount \in Nat
  BY <1>1 DEF IInv, TypeOK
<1>3. CASE bi = g.nblocks - 1
  BY <1>1, <1>2, <1>3 DEF FinishBlock, IInv, TypeOK
<1>4. CASE bi # g.nblocks - 1
  <2>0. g.nblocks \in 1 .. MaxBlocks /\ bi < g.nblocks
    BY <1>1 DEF GraphOK, IInv
  <2>1. bi + 1 \in BlockIds /\ bi + 1 < g.nblocks
    BY <1>1, <1>4, <2>0, MaxBlocksAssumption DEF BlockIds
  <2>2. /\ bi' = bi + 1 /\ phase' = "enter" /\ pos' = 1
        /\ UNCHANGED <<g, status, fatal, llvmBlock, fnCode, llvmValue, envs,
                       envNext, lastEnv, argCount>>
        /\ blockArgs' = [blockArgs EXCEPT ![bi] = argCount]
        /\ finalEnv' = [finalEnv EXCEPT ![bi] = envs[lastEnv[bi]]]
    BY <1>4 DEF FinishBlock
  <2>3. TypeOK'
    BY <1>1, <1>2, <2>1, <2>2 DEF IInv, TypeOK
  <2>4. \A b \in BlockIds : b < bi + 1 => /\ lastEnv[b] \in EnvIds
                                         /\ blockArgs'[b] \in Nat
    BY <1>1, <1>2, <2>2, MaxBlocksAssumption DEF IInv, TypeOK, BlockIds
  <2>5. QED
    BY <2>1, <2>2, <2>3, <2>4 DEF IInv
<1>5. QED
  BY <1>3, <1>4

-----------------------------------------------------------------------------
LEMMA InitIInv ==
  ASSUME Init
  PROVE  IInv
<1>1. GraphOK(g)
  BY GraphsAssumption DEF Init
<1>2. 0 \in BlockIds /\ 1 \in EnvIds /\ 2 \in 2 .. MaxEnvs + 1
  BY MaxBlocksAssumption, MaxEnvsAssumption DEF BlockIds, EnvIds
<1>3. envs \in [EnvIds -> EnvContents]
  BY <1>1 DEF Init, GraphOK, EnvContents, EmptyEnv
<1>4. g \in Graphs /\ g.nblocks \in 1 .. MaxBlocks
  BY <1>1 DEF Init, GraphOK
<1>5. finalEnv \in [BlockIds -> EnvContents]
  BY DEF Init, EmptyEnv, EnvContents
<1>6. TypeOK
  BY <1>2, <1>3, <1>4, <1>5 DEF Init, TypeOK
<1>7. QED
  BY <1>2, <1>4, <1>6 DEF Init, IInv

LEMMA NextIInv ==
  ASSUME IInv, [Next]_vars
  PROVE  IInv'
<1>1. CASE EnterBlock
  BY <1>1, EnterBlockOK
<1>2. CASE SkipEmitAtUses
  BY <1>2, SkipEmitAtUsesOK
<1>3. CASE Visit
  BY <1>3, VisitOK
<1>4. CASE FinishBlock
  BY <1>4, FinishBlockOK
<1>5. CASE UNCHANGED vars
  BY <1>5 DEF vars, IInv, TypeOK
<1>6. QED
  BY <1>1, <1>2, <1>3, <1>4, <1>5 DEF Next

\* Type correctness of the builder's state for every graph the frontend
\* may hand over: Build's loops never index a block, an environment or
\* an LLVM block that does not exist.
THEOREM TypeCorrect == Spec => []TypeOK
<1>1. Init => IInv
  BY InitIInv
<1>2. IInv /\ [Next]_vars => IInv'
  BY NextIInv
<1>3. IInv => TypeOK
  BY DEF IInv
<1>4. QED
  BY <1>1, <1>2, <1>3, PTL DEF Spec
=============================================================================
