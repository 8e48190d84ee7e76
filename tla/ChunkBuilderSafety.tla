------------------------- MODULE ChunkBuilderSafety -------------------------
(***************************************************************************)
(* Proofs of the safety properties of the build run (ParamBinding and      *)
(* FunctionWellFormed) for every graph the frontend may hand over.        *)
(***************************************************************************)
EXTENDS ChunkBuilderRefinement

\* A parameter's llvm_value() is unset, or the argument DoParameter's walk
\* picks for its index: no other handler ever writes it.
ParamValues ==
  \A i \in Ids : Ins(i).op = "Parameter" =>
    llvmValue[i] \in {NoValue, <<"arg", ArgPosition(Ins(i).index)>>}


\* What one step may do to parameter j's value: leave it, or bind the
\* argument of j's index.
ParamKept(j) ==
  llvmValue'[j] \in {llvmValue[j], <<"arg", ArgPosition(Ins(j).index)>>}

\* A parameter is never emitted at its uses, so Use() leaves its value.
LEMMA UsedParam ==
  ASSUME IInv, NEW vs, NEW j \in Ids, Ins(j).op = "Parameter"
  PROVE  Used(vs)[j] = llvmValue[j]
<1>1. GraphOK(g)
  BY IInvFacts
<1>2. ~Ins(j).eau
  BY <1>1 DEF GraphOK, Ins
<1>3. QED
  BY <1>2 DEF Used, Pending

\* A handler that stores into instruction i's own value, i not a parameter.
LEMMA StoreOther ==
  ASSUME IInv, NEW vs, NEW j \in Ids, Ins(j).op = "Parameter",
         NEW i, Ins(i).op # "Parameter", NEW x
  PROVE  [Used(vs) EXCEPT ![i] = x][j] = llvmValue[j]
<1>1. i # j
  OBVIOUS
<1>2. QED
  BY <1>1, UsedParam DEF Used

LEMMA FatalParam ==
  ASSUME NEW c, Fatal(c), NEW j
  PROVE  ParamKept(j)
BY DEF Fatal, ParamKept

LEMMA EmitParam ==
  ASSUME IInv, NEW j \in Ids, Ins(j).op = "Parameter", NEW i,
         Ins(i).op # "Parameter", NEW k, NEW vs,
         \/ Emit(i, k, Used(vs))
         \/ Emit(i, k, llvmValue)
  PROVE  ParamKept(j)
<1>1. CASE Emit(i, k, Used(vs))
  <2>1. llvmValue' = [Used(vs) EXCEPT ![i] = NextInst]
    BY <1>1 DEF Emit
  <2>2. [Used(vs) EXCEPT ![i] = NextInst][j] = llvmValue[j]
    BY StoreOther
  <2>3. QED
    BY <2>1, <2>2 DEF ParamKept
<1>2. CASE Emit(i, k, llvmValue)
  <2>1. llvmValue' = [llvmValue EXCEPT ![i] = NextInst]
    BY <1>2 DEF Emit
  <2>2. llvmValue \in [Ids -> LLVMValues \cup {NoValue}] /\ i # j
    BY DEF IInv, TypeOK
  <2>3. QED
    BY <2>1, <2>2 DEF ParamKept
<1>3. QED
  BY <1>1, <1>2

\* Every handler keeps the parameters' values, except DoParameter of the
\* parameter itself.
LEMMA VisitParam ==
  ASSUME IInv, Visit, NEW j \in Ids, Ins(j).op = "Parameter"
  PROVE  ParamKept(j)
<1> DEFINE i == Cur
<1>1. VisitInstruction(i)
  BY DEF Visit
<1> HIDE DEF i
<1>2. CASE Ins(i).dummy /\ Fatal("Unimplemented")
  BY <1>2, FatalParam
<1>3. CASE ~Ins(i).dummy /\ KnownSuccessor(i) /\ GotoKnown(i)
  BY <1>3 DEF GotoKnown, ParamKept
<1>4. CASE DoBlockEntry(i) \/ DoNothing(i) \/ DoSimulate(i) \/ DoContext(i)
  BY <1>4, FatalParam DEF DoBlockEntry, DoNothing, DoSimulate, DoContext,
                          Skip, ParamKept
<1>5. CASE DoParameter(i)
  <2>1. llvmValue = [v \in Ids |-> llvmValue[v]]
    BY DEF IInv, TypeOK
  <2>2. QED
    BY <1>5, <2>1 DEF DoParameter, ParamKept
<1>6. CASE DoConstant(i)
  <2>1. llvmValue = [v \in Ids |-> llvmValue[v]] /\ Ins(i).op # "Parameter"
    BY <1>6 DEF IInv, TypeOK, DoConstant
  <2>2. QED
    BY <1>6, <2>1, FatalParam DEF DoConstant, ParamKept
<1>7. CASE DoReturn(i)
  <2> DEFINE vs == {Ins(i).args[1]}
  <2>1. Used(vs)[j] = llvmValue[j]
    BY UsedParam
  <2> HIDE DEF vs
  <2>2. \/ \E c : Fatal(c)
        \/ llvmValue' = Used(vs)
    BY <1>7, UseOutcomeCases DEF DoReturn, WithUse, vs
  <2>3. QED
    BY <2>1, <2>2, FatalParam DEF ParamKept
<1>8. CASE DoAdd(i)
  <2>1. Ins(i).op # "Parameter"
    BY <1>8 DEF DoAdd
  <2>2. QED
    BY <1>8, <2>1, FatalParam, UseOutcomeCases, EmitParam DEF DoAdd, WithUse
<1>9. CASE DoSubMul(i)
  <2>1. Ins(i).op # "Parameter"
    BY <1>9 DEF DoSubMul
  <2>2. QED
    BY <1>9, <2>1, FatalParam, EmitParam DEF DoSubMul
<1>10. CASE DoChange(i)
  <2> DEFINE val == Ins(i).args[1]
  <2>1. Ins(i).op # "Parameter"
    BY <1>10 DEF DoChange
  <2>2. CASE ChangeAlias(i)
    <3>0. Used({val})[j] = llvmValue[j] /\ i # j
      BY <2>1, UsedParam
    <3>1. [Used({val}) EXCEPT ![i] = Used({val})[val]][j] = llvmValue[j]
      BY <3>0 DEF Used
    <3>2. \/ \E c : Fatal(c)
          \/ llvmValue' = [Used({val}) EXCEPT ![i] = Used({val})[val]]
      BY <2>2, UseOutcomeCases DEF ChangeAlias, WithUse
    <3>3. QED
      BY <3>1, <3>2, FatalParam DEF ParamKept
  <2>3. ASSUME NEW k, ChangeShift(i, k)
        PROVE  ParamKept(j)
    BY <2>1, <2>3, FatalParam, UseOutcomeCases, EmitParam DEF ChangeShift, WithUse
  <2>4. CASE Skip
    BY <2>4 DEF Skip, ParamKept
  <2>5. QED
    BY <1>10, <2>2, <2>3, <2>4, FatalParam DEF DoChange
<1>11. CASE DoCompareNumericAndBranch(i)
  <2> DEFINE vs == {Ins(i).args[1], Ins(i).args[2]}
             x  == <<"inst", llvmBlock[bi], Len(fnCode[llvmBlock[bi]]) + 2>>
  <2>1. Ins(i).op # "Parameter"
    BY <1>11 DEF DoCompareNumericAndBranch
  <2>2. Used(vs)[j] = llvmValue[j] /\ i # j
    BY <2>1, UsedParam
  <2>3. [Used(vs) EXCEPT ![i] = x][j] = llvmValue[j]
    BY <2>2 DEF Used
  <2> HIDE DEF vs, x
  <2>4. \/ \E c : Fatal(c)
        \/ llvmValue' = [Used(vs) EXCEPT ![i] = x]
    BY <1>11, UseOutcomeCases DEF DoCompareNumericAndBranch, WithUse, vs, x
  <2>5. QED
    BY <2>3, <2>4, FatalParam DEF ParamKept
<1>12. CASE Ins(i).op \in {"Goto", "Phi", "Other"} /\ Fatal("Unimplemented")
  BY <1>12, FatalParam
<1>13. QED
  BY <1>1, <1>2, <1>3, <1>4, <1>5, <1>6, <1>7, <1>8, <1>9, <1>10, <1>11, <1>12
  DEF VisitInstruction, CompileToLLVM

LEMMA NextParamValues ==
  ASSUME RInv, ParamValues, [Next]_vars
  PROVE  ParamValues'
<1>1. SUFFICES ASSUME NEW j \in Ids, Ins(j).op' = "Parameter"
               PROVE  llvmValue'[j] \in {NoValue, <<"arg", ArgPosition(Ins(j).index)>>'}
  BY DEF ParamValues
<1>0. IInv
  BY DEF RInv
<1>2. CASE Visit
  <2>1. g' = g
    BY <1>2, VisitStep DEF Quiet, Shape, VisitShape
  <2>2. Ins(j).op = "Parameter" /\ ArgPosition(Ins(j).index)' = ArgPosition(Ins(j).index)
    BY <1>1, <2>1 DEF Ins, ArgPosition, NumArgs
  <2>3. ParamKept(j)
    BY <1>0, <1>2, <2>2, VisitParam
  <2>4. llvmValue[j] \in {NoValue, <<"arg", ArgPosition(Ins(j).index)>>}
    BY <2>2 DEF ParamValues
  <2>5. QED
    BY <2>2, <2>3, <2>4 DEF ParamKept
<1>3. CASE EnterBlock \/ SkipEmitAtUses \/ FinishBlock \/ UNCHANGED vars
  <2>1. UNCHANGED <<g, llvmValue>>
    BY <1>3 DEF EnterBlock, SkipEmitAtUses, Skip, Advance, FinishBlock, vars
  <2>2. Ins(j).op = "Parameter" /\ ArgPosition(Ins(j).index)' = ArgPosition(Ins(j).index)
    BY <1>1, <2>1 DEF Ins, ArgPosition, NumArgs
  <2>3. QED
    BY <2>1, <2>2 DEF ParamValues
<1>4. QED
  BY <1>2, <1>3 DEF Next

\* ParamValues gives ParamBinding: the frontend numbers the parameters
\* 0 .. num_parameters(), which the walk maps one to one onto the
\* arguments after the context and the callee.
LEMMA ParamValuesBinding ==
  ASSUME IInv, ParamValues
  PROVE  ParamBinding
<1>1. GraphOK(g)
  BY IInvFacts
<1>2. SUFFICES ASSUME NEW i \in Ids, Ins(i).op = "Parameter", llvmValue[i] # NoValue
               PROVE  /\ llvmValue[i][2] \in 2 .. NumArgs - 1
                      /\ \A j \in Ids \ {i} :
                           Ins(j).op = "Parameter" /\ llvmValue[j] # NoValue
                             /\ Ins(j).index # Ins(i).index => llvmValue[j] # llvmValue[i]
  BY DEF ParamBinding
<1>3. g.numParams \in Nat
  BY <1>1 DEF GraphOK
<1>4. ASSUME NEW v \in Ids, Ins(v).op = "Parameter", llvmValue[v] # NoValue
      PROVE  /\ Ins(v).index \in 0 .. g.numParams
             /\ llvmValue[v] = <<"arg", NumArgs - 1 - Ins(v).index>>
  <2>1. Ins(v).index \in 0 .. g.numParams
    BY <1>1, <1>4 DEF GraphOK, InstrOK, Ins
  <2>2. llvmValue[v] = <<"arg", ArgPosition(Ins(v).index)>>
    BY <1>4 DEF ParamValues
  <2>3. ArgPosition(Ins(v).index) = NumArgs - 1 - Ins(v).index
    BY <1>3, <2>1 DEF ArgPosition, NumArgs
  <2>4. QED
    BY <2>1, <2>2, <2>3
<1>5. llvmValue[i][2] \in 2 .. NumArgs - 1
  BY <1>2, <1>3, <1>4 DEF NumArgs
<1>6. ASSUME NEW j \in Ids \ {i}, Ins(j).op = "Parameter", llvmValue[j] # NoValue,
             Ins(j).index # Ins(i).index
      PROVE  llvmValue[j] # llvmValue[i]
  <2>1. llvmValue[j] = <<"arg", NumArgs - 1 - Ins(j).index>> /\ Ins(j).index \in Nat
    BY <1>3, <1>4, <1>6
  <2>2. llvmValue[i] = <<"arg", NumArgs - 1 - Ins(i).index>> /\ Ins(i).index \in Nat
    BY <1>2, <1>3, <1>4
  <2>3. NumArgs \in Nat
    BY <1>3 DEF NumArgs
  <2>4. QED
    BY <1>6, <2>1, <2>2, <2>3
<1>7. QED
  BY <1>5, <1>6

\* Parameter binding for every graph the frontend may hand over: the walk
\* of DoParameter (lines 326-336) binds each parameter to an argument past
\* the context and the callee, and no two parameters to the same one.
THEOREM ParamBindingHolds == Spec => []ParamBinding
<1>1. Init => RInv /\ ParamValues
  BY InitRInv DEF Init, ParamValues
<1>2. RInv /\ ParamValues /\ [Next]_vars => RInv' /\ ParamValues'
  BY NextRInv, NextParamValues
<1>3. RInv /\ ParamValues => ParamBinding
  BY ParamValuesBinding DEF RInv
<1>4. QED
  BY <1>1, <1>2, <1>3, PTL DEF Spec

-----------------------------------------------------------------------------
(* FunctionWellFormed.  Every LLVM block is owned by a block of the graph  *)
(* (Use(HBasicBlock) makes blocks only for handles it hands out); the     *)
(* blocks already finished end in their terminator, and so does the      *)
(* current one once its instructions are done.                            *)

\* Every LLVM block of C is the block of some HIR block in H.
OwnedBy(H, C) == \A h \in 1 .. Len(C) : \E b \in BlockIds : H[b] = h

\* Only blocks of the graph have an LLVM block.
InGraph(H) == \A b \in BlockIds : H[b] # 0 => b < g.nblocks

PastTerminated ==
  \A b \in BlockIds : b < bi =>
    /\ llvmBlock[b] \in 1 .. Len(fnCode)
    /\ Terminated(fnCode[llvmBlock[b]])

CurDone ==
  phase = "body" /\ pos > Len(g.code[bi]) => Terminated(fnCode[llvmBlock[bi]])

DoneAtEnd ==
  status = "DONE" => /\ bi = g.nblocks - 1 /\ phase = "body"
                     /\ pos > Len(g.code[bi])

\* The inductive invariant behind FunctionWellFormed.
WRest ==
  /\ PastTerminated /\ CurDone /\ DoneAtEnd
  /\ InGraph(llvmBlock) /\ OwnedBy(llvmBlock, fnCode)

WInv == RInv /\ WRest

\* Resolving blocks keeps every block owned and gives handles only to
\* blocks of the graph.
LEMMA ResolvedOwned ==
  ASSUME NEW H, NEW C, NEW H1, NEW C1, BlockStateOK(H, C), BlockStateOK(H1, C1),
         Resolved(H, C, H1, C1), OwnedBy(H, C), InGraph(H)
  PROVE  OwnedBy(H1, C1) /\ InGraph(H1)
<1>1. ASSUME NEW h \in 1 .. Len(C1) PROVE \E b \in BlockIds : H1[b] = h
  <2>1. CASE h <= Len(C)
    <3>1. PICK b \in BlockIds : H[b] = h
      BY <2>1 DEF OwnedBy
    <3>2. H1[b] = h
      BY <2>1, <3>1 DEF Resolved
    <3>3. QED
      BY <3>2
  <2>2. CASE h > Len(C)
    <3>1. h \in Len(C) + 1 .. Len(C1)
      BY <2>2 DEF BlockStateOK
    <3>2. QED
      BY <3>1 DEF Resolved
  <2>3. QED
    BY <2>1, <2>2 DEF BlockStateOK
<1>2. InGraph(H1)
  BY DEF InGraph, Resolved
<1>3. QED
  BY <1>1, <1>2 DEF OwnedBy

\* A block that had an LLVM block keeps it, with its instructions.
LEMMA ResolvedKeeps ==
  ASSUME NEW H, NEW C, NEW H1, NEW C1, BlockStateOK(H, C),
         Resolved(H, C, H1, C1), NEW b \in BlockIds, H[b] \in 1 .. Len(C)
  PROVE  H1[b] = H[b] /\ C1[H[b]] = C[H[b]] /\ H[b] \in 1 .. Len(C1)
BY DEF Resolved, BlockStateOK

\* A visited instruction never completes the build: its handler either
\* stops the process (Fatal) or goes on with the next instruction.
LEMMA VisitStatus ==
  ASSUME Visit
  PROVE  status' # "DONE"
<1> DEFINE i == Cur
<1>1. VisitInstruction(i) /\ status = "BUILDING"
  BY DEF Visit
<1> HIDE DEF i
<1>2. ASSUME NEW c, Fatal(c) PROVE status' # "DONE"
  BY <1>2 DEF Fatal
<1>3. ASSUME NEW vs, NEW A, WithUse(vs, A), A => status' # "DONE"
      PROVE  status' # "DONE"
  BY <1>3, <1>2 DEF WithUse
<1>4. CASE GotoKnown(i)
  BY <1>1, <1>4 DEF GotoKnown, Advance
<1>5. CASE CompileToLLVM(i)
  <2>1. CASE \/ DoBlockEntry(i) \/ DoNothing(i) \/ DoContext(i)
             \/ DoParameter(i) \/ DoSimulate(i) \/ DoConstant(i)
    BY <1>1, <1>2, <2>1 DEF DoBlockEntry, DoNothing, DoContext, DoParameter,
                            DoSimulate, DoConstant, Skip, Advance
  <2>2. CASE DoReturn(i) \/ DoAdd(i)
    BY <1>1, <1>2, <1>3, <2>2 DEF DoReturn, DoAdd, Advance
  <2>3. CASE DoSubMul(i)
    BY <1>1, <1>2, <2>3 DEF DoSubMul, Advance
  <2>4. CASE DoChange(i)
    <3>1. ASSUME NEW k, ChangeShift(i, k) \/ ChangeAlias(i) PROVE status' # "DONE"
      BY <1>1, <1>3, <3>1 DEF ChangeShift, ChangeAlias, Advance
    <3>2. QED
      BY <1>1, <1>2, <2>4, <3>1 DEF DoChange, Skip, Advance
  <2>5. CASE DoCompareNumericAndBranch(i)
    BY <1>1, <1>2, <1>3, <2>5 DEF DoCompareNumericAndBranch, Advance
  <2>6. CASE Ins(i).op \in {"Goto", "Phi", "Other"} /\ Fatal("Unimplemented")
    BY <1>2, <2>6
  <2>7. QED
    BY <1>5, <2>1, <2>2, <2>3, <2>4, <2>5, <2>6 DEF CompileToLLVM
<1>6. QED
  BY <1>1, <1>2, <1>4, <1>5 DEF VisitInstruction

LEMMA InitWInv ==
  ASSUME Init
  PROVE  WInv
<1>1. RInv
  BY InitRInv
<1>2. WRest
  BY DEF Init, WRest, PastTerminated, CurDone, DoneAtEnd, InGraph, OwnedBy,
         BlockIds
<1>3. QED
  BY <1>1, <1>2 DEF WInv

\* A block of the graph has at least one instruction (GraphOK).
LEMMA BlockNonEmpty ==
  ASSUME IInv
  PROVE  Len(g.code[bi]) >= 1
<1>1. GraphOK(g) /\ bi \in BlockIds
  BY IInvFacts
<1>2. bi \in 0 .. g.nblocks - 1
  BY <1>1 DEF IInv, GraphOK, BlockIds
<1>3. QED
  BY <1>1, <1>2 DEF GraphOK, BlockEndsInControl

\* The prologue of DoBasicBlock: the blocks resolved keep their code, and
\* the block's own body has not started.
LEMMA EnterWRest ==
  ASSUME WInv, EnterBlock
  PROVE  WRest'
<1>1. /\ BlockStateOK(llvmBlock, fnCode) /\ BlockStateOK(llvmBlock', fnCode')
      /\ Resolved(llvmBlock, fnCode, llvmBlock', fnCode')
  BY EnterBlockStep, IInvFacts DEF WInv, RInv
<1>2. bi' = bi /\ phase' = "body" /\ pos' = 1 /\ status' = status /\ g' = g
      /\ status = "BUILDING"
  BY DEF EnterBlock
<1>3. OwnedBy(llvmBlock', fnCode') /\ InGraph(llvmBlock')
  BY <1>1, ResolvedOwned DEF WInv, WRest
<1>4. (OwnedBy(llvmBlock, fnCode) /\ InGraph(llvmBlock))'
  BY <1>2, <1>3 DEF OwnedBy, InGraph
<1>5. PastTerminated'
  <2>1. SUFFICES ASSUME NEW b \in BlockIds, b < bi
                 PROVE  /\ llvmBlock'[b] \in 1 .. Len(fnCode')
                        /\ Terminated(fnCode'[llvmBlock'[b]])
    BY <1>2 DEF PastTerminated
  <2>2. llvmBlock[b] \in 1 .. Len(fnCode) /\ Terminated(fnCode[llvmBlock[b]])
    BY <2>1 DEF WInv, WRest, PastTerminated
  <2>3. QED
    BY <1>1, <2>2, ResolvedKeeps
<1>6. CurDone'
  <2>1. Len(g.code[bi]) >= 1
    BY BlockNonEmpty DEF WInv, RInv
  <2>2. QED
    BY <1>2, <2>1 DEF CurDone
<1>7. DoneAtEnd'
  BY <1>2 DEF DoneAtEnd
<1>8. QED
  BY <1>4, <1>5, <1>6, <1>7 DEF WRest

\* Skipping an instruction emitted at its uses: never the block's last.
LEMMA SkipWRest ==
  ASSUME WInv, SkipEmitAtUses
  PROVE  WRest'
<1>1. UNCHANGED <<llvmBlock, fnCode, g, bi, phase, status>> /\ pos' = pos + 1
      /\ status = "BUILDING"
  BY DEF SkipEmitAtUses, Skip, Advance
<1>2. BodyR /\ Ins(Cur).eau
  BY DEF SkipEmitAtUses, WInv, BodyR, RInv, IInv, TypeOK
<1>3. pos < Len(g.code[bi])
  BY <1>2, BlockFacts
<1>4. pos \in Nat
  BY <1>2 DEF BodyR
<1>5. CurDone'
  BY <1>1, <1>3, <1>4 DEF CurDone
<1>6. PastTerminated'
  BY <1>1 DEF WInv, WRest, PastTerminated
<1>7. DoneAtEnd'
  BY <1>1 DEF WInv, WRest, DoneAtEnd
<1>8. (InGraph(llvmBlock) /\ OwnedBy(llvmBlock, fnCode))'
  BY <1>1 DEF WInv, WRest, InGraph, OwnedBy
<1>9. QED
  BY <1>5, <1>6, <1>7, <1>8 DEF WRest

\* The end of a block: its LLVM block is terminated (CurDone), so it joins
\* the finished ones; at the last block Build returns.
LEMMA FinishWRest ==
  ASSUME WInv, FinishBlock
  PROVE  WRest'
<1>1. UNCHANGED <<llvmBlock, fnCode, g>> /\ phase = "body"
      /\ pos > Len(g.code[bi])
  BY DEF FinishBlock
<1>2. (InGraph(llvmBlock) /\ OwnedBy(llvmBlock, fnCode))'
  BY <1>1 DEF WInv, WRest, InGraph, OwnedBy
<1>3. CASE bi = g.nblocks - 1
  <2>1. status' = "DONE" /\ UNCHANGED <<bi, phase, pos>>
    BY <1>3 DEF FinishBlock
  <2>2. QED
    BY <1>1, <1>2, <1>3, <2>1 DEF WInv, WRest, PastTerminated, CurDone, DoneAtEnd
<1>4. CASE bi # g.nblocks - 1
  <2>1. bi' = bi + 1 /\ phase' = "enter" /\ status' = status /\ status = "BUILDING"
    BY <1>4 DEF FinishBlock
  <2>2. llvmBlock[bi] \in 1 .. Len(fnCode) /\ Terminated(fnCode[llvmBlock[bi]])
    BY <1>1 DEF WInv, RInv, IInv, WRest, CurDone
  <2>3. PastTerminated'
    <3>1. SUFFICES ASSUME NEW b \in BlockIds, b < bi + 1
                   PROVE  /\ llvmBlock[b] \in 1 .. Len(fnCode)
                          /\ Terminated(fnCode[llvmBlock[b]])
      BY <1>1, <2>1 DEF PastTerminated
    <3>2. bi \in BlockIds
      BY DEF WInv, RInv, IInv, TypeOK
    <3>3. b < bi \/ b = bi
      BY <3>1, <3>2 DEF BlockIds
    <3>4. QED
      BY <2>2, <3>3 DEF WInv, WRest, PastTerminated
  <2>4. QED
    BY <1>2, <2>1, <2>3 DEF WRest, CurDone, DoneAtEnd
<1>5. QED
  BY <1>3, <1>4

\* A visited instruction: the process stops with the function unchanged,
\* or the current LLVM block grows from an open block (VisitShape) and is
\* terminated exactly when the block's last instruction was visited.
LEMMA VisitWRest ==
  ASSUME WInv, Visit
  PROVE  WRest'
<1>1. DoneAtEnd'
  BY VisitStatus DEF DoneAtEnd
<1>2. RInv /\ phase = "body"
  BY DEF WInv, Visit
<1>3. CASE Quiet
  <2>1. (PastTerminated /\ CurDone)'
    BY <1>3 DEF Quiet, WInv, WRest, PastTerminated, CurDone
  <2>2. (InGraph(llvmBlock) /\ OwnedBy(llvmBlock, fnCode))'
    BY <1>3 DEF Quiet, WInv, WRest, InGraph, OwnedBy
  <2>3. QED
    BY <1>1, <2>1, <2>2 DEF WRest
<1>4. CASE Shape
  <2>1. PICK C1, s : VisitShape(C1, s)
    BY <1>4 DEF Shape
  <2> DEFINE h == llvmBlock[bi]
  <2>2. BlockStateOK(llvmBlock, fnCode) /\ bi \in BlockIds /\ h \in 1 .. Len(fnCode)
    BY <1>2, CurBlock DEF RInv
  <2>3. /\ BlockStateOK(llvmBlock', C1)
        /\ Resolved(llvmBlock, fnCode, llvmBlock', C1)
        /\ fnCode' = [C1 EXCEPT ![h] = s]
        /\ pos' > Len(g.code[bi]) => Terminated(s)
        /\ UNCHANGED <<g, bi, phase>>
    BY <2>1 DEF VisitShape, Partial
  <2>4. llvmBlock'[bi] = h /\ h \in 1 .. Len(C1)
    BY <2>2, <2>3, ResolvedKeeps
  <2>5. Len(fnCode') = Len(C1) /\ fnCode'[h] = s
        /\ \A k \in 1 .. Len(C1) : k # h => fnCode'[k] = C1[k]
    BY <2>3, <2>4 DEF BlockStateOK
  <2> HIDE DEF h
  <2>6. (InGraph(llvmBlock) /\ OwnedBy(llvmBlock, fnCode))'
    <3>1. OwnedBy(llvmBlock', C1) /\ InGraph(llvmBlock')
      BY <2>2, <2>3, ResolvedOwned DEF WInv, WRest
    <3>2. QED
      BY <2>3, <2>5, <3>1 DEF OwnedBy, InGraph
  <2>7. CurDone'
    BY <2>3, <2>4, <2>5 DEF CurDone
  <2>8. PastTerminated'
    <3>1. SUFFICES ASSUME NEW b \in BlockIds, b < bi
                   PROVE  /\ llvmBlock'[b] \in 1 .. Len(fnCode')
                          /\ Terminated(fnCode'[llvmBlock'[b]])
      BY <2>3 DEF PastTerminated
    <3>2. llvmBlock[b] \in 1 .. Len(fnCode) /\ Terminated(fnCode[llvmBlock[b]])
      BY <3>1 DEF WInv, WRest, PastTerminated
    <3>3. llvmBlock'[b] = llvmBlock[b] /\ C1[llvmBlock[b]] = fnCode[llvmBlock[b]]
          /\ llvmBlock[b] \in 1 .. Len(C1)
      BY <2>2, <2>3, <3>2, ResolvedKeeps
    <3>4. llvmBlock[b] # h
      BY <1>2, <2>2, <3>1, <3>2 DEF RInv, HandleInj, Inj, h, BlockIds
    <3>5. QED
      BY <2>5, <3>2, <3>3, <3>4
  <2>9. QED
    BY <1>1, <2>6, <2>7, <2>8 DEF WRest
<1>5. QED
  BY <1>2, <1>3, <1>4, VisitStep

LEMMA NextWInv ==
  ASSUME WInv, [Next]_vars
  PROVE  WInv'
<1>1. RInv'
  BY NextRInv DEF WInv
<1>2. WRest'
  <2>1. CASE EnterBlock
    BY <2>1, EnterWRest
  <2>2. CASE SkipEmitAtUses
    BY <2>2, SkipWRest
  <2>3. CASE Visit
    BY <2>3, VisitWRest
  <2>4. CASE FinishBlock
    BY <2>4, FinishWRest
  <2>5. CASE UNCHANGED vars
    BY <2>5 DEF vars, WInv, WRest, PastTerminated, CurDone, DoneAtEnd, InGraph,
                OwnedBy
  <2>6. QED
    BY <2>1, <2>2, <2>3, <2>4, <2>5 DEF Next
<1>3. QED
  BY <1>1, <1>2 DEF WInv

\* When Build returns, each LLVM block belongs to a block of the graph,
\* which is the last one or was finished before it: it is terminated.
LEMMA WInvWellFormed ==
  ASSUME WInv
  PROVE  FunctionWellFormed
<1>1. SUFFICES ASSUME status = "DONE", NEW h \in 1 .. Len(fnCode)
               PROVE  Terminated(fnCode[h])
  BY DEF FunctionWellFormed
<1>2. PICK b \in BlockIds : llvmBlock[b] = h
  BY <1>1 DEF WInv, WRest, OwnedBy
<1>3. b < g.nblocks /\ bi = g.nblocks - 1
  BY <1>1, <1>2 DEF WInv, WRest, InGraph, DoneAtEnd
<1>4. b < bi \/ b = bi
  <2>1. g.nblocks \in Nat
    BY IInvFacts DEF WInv, RInv, GraphOK
  <2>2. QED
    BY <1>3, <2>1 DEF BlockIds
<1>5. CASE b < bi
  BY <1>2, <1>5 DEF WInv, WRest, PastTerminated
<1>6. CASE b = bi
  BY <1>1, <1>2, <1>6 DEF WInv, WRest, CurDone, DoneAtEnd
<1>7. QED
  BY <1>4, <1>5, <1>6

\* FunctionWellFormed for every graph the frontend may hand over: when
\* Build returns the chunk (LLVMChunkBuilder::Build, DoBasicBlock and the
\* handlers), every LLVM block Use(HBasicBlock) created is terminated, with
\* its terminator last and no terminator before it.
THEOREM WellFormedHolds == Spec => []FunctionWellFormed
<1>1. Init => WInv
  BY InitWInv
<1>2. WInv /\ [Next]_vars => WInv'
  BY NextWInv
<1>3. WInv => FunctionWellFormed
  BY WInvWellFormed
<1>4. QED
  BY <1>1, <1>2, <1>3, PTL DEF Spec

=============================================================================
