----------------------- MODULE ChunkBuilderRefinement -----------------------
(***************************************************************************)
(* Proof that ChunkBuilder implements LLVMFunction under the mapping      *)
(* handle <- llvmBlock, code <- fnCode (the instance LF).                   *)
(***************************************************************************)
EXTENDS ChunkBuilderProofs

\* The LLVM blocks of the HIR blocks that DoBasicBlock has not reached yet.
Future(b) == b > bi \/ (b = bi /\ phase = "enter")

\* No two HIR blocks share an LLVM block.
Inj(H) == \A b, c \in BlockIds : H[b] # 0 /\ H[b] = H[c] => b = c
HandleInj == Inj(llvmBlock)

\* An LLVM block created for a branch to a later block stays empty until
\* DoBasicBlock reaches that block: only the current block is emitted into.
FutureEmpty ==
  \A b \in BlockIds : Future(b) /\ llvmBlock[b] # 0 =>
                        fnCode[llvmBlock[b]] = <<>>

\* An LLVM block with no terminator in it.
Open(c) == \A k \in 1 .. Len(c) : c[k].kind \notin Terminators

\* While instructions of the current block remain, its LLVM block holds
\* no terminator.
CurOpen ==
  phase = "body" /\ pos <= Len(g.code[bi]) => Open(fnCode[llvmBlock[bi]])

\* IInv strengthened with what the refinement needs.
RInv == IInv /\ HandleInj /\ FutureEmpty /\ CurOpen

\* (H1, C1) comes from (H, C) by Use(HBasicBlock) calls only: existing
\* blocks are untouched, the new blocks are empty, handles already given
\* are kept, each new block has exactly one owner with a fresh handle, and
\* only blocks of the graph get one.
Resolved(H, C, H1, C1) ==
  /\ Len(C1) >= Len(C)
  /\ \A k \in 1 .. Len(C) : C1[k] = C[k]
  /\ \A k \in Len(C) + 1 .. Len(C1) : C1[k] = <<>>
  /\ \A b \in BlockIds : H[b] # 0 => H1[b] = H[b]
  /\ \A b \in BlockIds : H[b] = 0 => H1[b] = 0 \/ H1[b] > Len(C)
  /\ \A k \in Len(C) + 1 .. Len(C1) :
       \E b \in BlockIds : /\ H1[b] = k
                           /\ \A c \in BlockIds : H1[c] = k => c = b
  /\ \A b \in BlockIds : H1[b] # H[b] => b < g.nblocks

LEMMA ResolvedRefl ==
  ASSUME NEW H, NEW C, BlockStateOK(H, C)
  PROVE  Resolved(H, C, H, C)
BY DEF Resolved, BlockStateOK

LEMMA ResolvedTrans ==
  ASSUME NEW H, NEW C, NEW H1, NEW C1, NEW H2, NEW C2,
         BlockStateOK(H, C), BlockStateOK(H1, C1), BlockStateOK(H2, C2),
         Resolved(H, C, H1, C1), Resolved(H1, C1, H2, C2)
  PROVE  Resolved(H, C, H2, C2)
<1>1. Len(C2) >= Len(C) /\ \A k \in 1 .. Len(C) : C2[k] = C[k]
  BY DEF Resolved, BlockStateOK
<1>2. \A k \in Len(C) + 1 .. Len(C2) : C2[k] = <<>>
  BY DEF Resolved, BlockStateOK
<1>3. ASSUME NEW b \in BlockIds, H[b] # 0 PROVE H2[b] = H[b]
  <2>1. H1[b] = H[b]
    BY <1>3 DEF Resolved
  <2>2. QED
    BY <1>3, <2>1 DEF Resolved
<1>4. ASSUME NEW b \in BlockIds, H[b] = 0 PROVE H2[b] = 0 \/ H2[b] > Len(C)
  <2>1. H1[b] = 0 \/ H1[b] > Len(C)
    BY <1>4 DEF Resolved
  <2>2. CASE H1[b] = 0
    <3>1. (H2[b] = 0 \/ H2[b] > Len(C1)) /\ Len(C1) >= Len(C)
      BY <2>2 DEF Resolved
    <3>2. QED
      BY <3>1 DEF BlockStateOK
  <2>3. CASE H1[b] > Len(C)
    <3>1. H2[b] = H1[b] /\ Len(C1) >= Len(C)
      BY <2>3 DEF Resolved, BlockStateOK
    <3>2. QED
      BY <2>3, <3>1 DEF BlockStateOK
  <2>4. QED
    BY <2>1, <2>2, <2>3
<1>5. ASSUME NEW k \in Len(C) + 1 .. Len(C2)
      PROVE  \E b \in BlockIds : /\ H2[b] = k
                                 /\ \A c \in BlockIds : H2[c] = k => c = b
  <2>1. CASE k <= Len(C1)
    <3>1. PICK b \in BlockIds : /\ H1[b] = k
                                /\ \A c \in BlockIds : H1[c] = k => c = b
      BY <2>1 DEF Resolved, BlockStateOK
    <3>2. H2[b] = k
      BY <3>1, <2>1 DEF Resolved, BlockStateOK
    <3>3. ASSUME NEW c \in BlockIds, H2[c] = k PROVE c = b
      <4>1. CASE H1[c] # 0
        BY <3>1, <3>3, <4>1 DEF Resolved
      <4>2. CASE H1[c] = 0
        <5>1. H2[c] = 0 \/ H2[c] > Len(C1)
          BY <4>2 DEF Resolved
        <5>2. k \in 1 .. Len(C1)
          BY <2>1 DEF BlockStateOK
        <5>3. QED
          BY <3>3, <5>1, <5>2
      <4>3. QED
        BY <4>1, <4>2
    <3>4. QED
      BY <3>2, <3>3
  <2>2. CASE k > Len(C1)
    <3>1. k \in Len(C1) + 1 .. Len(C2)
      BY <2>2 DEF BlockStateOK
    <3>2. QED
      BY <3>1 DEF Resolved
  <2>3. QED
    BY <2>1, <2>2 DEF BlockStateOK
<1>7. \A b \in BlockIds : H2[b] # H[b] => b < g.nblocks
  BY DEF Resolved
<1>6. QED
  BY <1>1, <1>2, <1>3, <1>4, <1>5, <1>7 DEF Resolved

\* Use(HBasicBlock) of a block of the graph resolves.
LEMMA UseBlockResolved ==
  ASSUME NEW st, IsBlockState(st), NEW b \in BlockIds, b < g.nblocks
  PROVE  Resolved(st.handle, st.code, UseBlock(st, b).handle,
                  UseBlock(st, b).code)
<1> DEFINE U == UseBlock(st, b)
<1> SUFFICES Resolved(st.handle, st.code, U.handle, U.code)
  OBVIOUS
<1>1. CASE st.handle[b] # 0
  <2>1. U = st
    BY <1>1 DEF UseBlock
  <2> HIDE DEF U
  <2>2. QED
    BY <2>1, ResolvedRefl DEF IsBlockState
<1>2. CASE st.handle[b] = 0
  <2> DEFINE h == [st.handle EXCEPT ![b] = Len(st.code) + 1]
             c == Append(st.code, <<>>)
  <2>1. U = [handle |-> h, code |-> c]
    BY <1>2 DEF UseBlock
  <2>2. /\ Len(c) = Len(st.code) + 1
        /\ \A k \in 1 .. Len(st.code) : c[k] = st.code[k]
        /\ c[Len(st.code) + 1] = <<>>
    BY DEF IsBlockState, BlockStateOK
  <2>3. /\ h[b] = Len(st.code) + 1
        /\ \A d \in BlockIds : d # b => h[d] = st.handle[d]
        /\ \A d \in BlockIds : st.handle[d] <= Len(st.code)
    BY DEF IsBlockState, BlockStateOK
  <2> HIDE DEF U, h, c
  <2>4. \A k \in Len(st.code) + 1 .. Len(c) :
          \E d \in BlockIds : /\ h[d] = k
                              /\ \A e \in BlockIds : h[e] = k => e = d
    <3>1. \A e \in BlockIds : h[e] = Len(st.code) + 1 => e = b
      BY <2>3
    <3>2. QED
      BY <2>2, <2>3, <3>1
  <2>5. \A d \in BlockIds : st.handle[d] = 0 => h[d] = 0 \/ h[d] > Len(st.code)
    BY <2>3
  <2>8. \A k \in Len(st.code) + 1 .. Len(c) : c[k] = <<>>
    <3>1. Len(st.code) \in Nat
      BY DEF IsBlockState, BlockStateOK
    <3>2. \A k \in Len(st.code) + 1 .. Len(c) : k = Len(st.code) + 1
      BY <2>2, <3>1
    <3>3. ASSUME NEW k \in Len(st.code) + 1 .. Len(c) PROVE c[k] = <<>>
      <4>1. k = Len(st.code) + 1
        BY <3>2
      <4>2. c[Len(st.code) + 1] = <<>>
        BY <2>2
      <4>3. QED
        BY <4>1, <4>2
    <3>4. QED
      BY <3>3
  <2>9. \A d \in BlockIds : st.handle[d] # 0 => h[d] = st.handle[d]
    BY <1>2, <2>3
  <2>10. Len(c) >= Len(st.code) /\ \A k \in 1 .. Len(st.code) : c[k] = st.code[k]
    BY <2>2
  <2>11. \A d \in BlockIds : h[d] # st.handle[d] => d < g.nblocks
    BY <2>3
  <2>6. Resolved(st.handle, st.code, h, c)
    BY <2>4, <2>5, <2>8, <2>9, <2>10, <2>11 DEF Resolved
  <2>7. QED
    BY <2>1, <2>6
<1>3. QED
  BY <1>1, <1>2

-----------------------------------------------------------------------------
(* A handler of the current block, seen from the function: the blocks it  *)
(* uses are resolved into C1, then the current LLVM block h grows from    *)
(* fnCode[h] to s.                                                         *)
Partial(st, C1, s) ==
  /\ BlockStateOK(st.handle, C1)
  /\ Resolved(llvmBlock, fnCode, st.handle, C1)
  /\ st = [handle |-> st.handle, code |-> [C1 EXCEPT ![llvmBlock[bi]] = s]]
  /\ s \in Seq(Emission)
  /\ LF!Extends(fnCode[llvmBlock[bi]], s)

\* A visited instruction that does not end the process.
VisitShape(C1, s) ==
  /\ Partial([handle |-> llvmBlock', code |-> fnCode'], C1, s)
  /\ pos' <= Len(g.code[bi]) => Open(s)
  /\ pos' > Len(g.code[bi]) => Terminated(s)
  /\ pos' = pos + 1
  /\ UNCHANGED <<g, bi, phase>>

Shape == \E C1, s : VisitShape(C1, s)

\* A step that leaves the function and the loop position alone.
Quiet == UNCHANGED <<g, bi, phase, pos, llvmBlock, fnCode>>

\* An open block is not sealed; one more instruction keeps it open, or
\* terminates it when that instruction is a terminator.
LEMMA OpenNotSealed ==
  ASSUME NEW c \in Seq(Emission), Open(c)
  PROVE  ~LF!Sealed(c)
BY DEF Open, LF!Sealed

LEMMA OpenAppend ==
  ASSUME NEW c \in Seq(Emission), Open(c), NEW e \in Emission
  PROVE  /\ e.kind \notin Terminators => Open(Append(c, e))
         /\ e.kind \in Terminators => Terminated(Append(c, e))
BY DEF Open, Terminated

\* The current LLVM block exists while a block's body runs.
LEMMA CurBlock ==
  ASSUME IInv, phase = "body"
  PROVE  /\ BlockStateOK(llvmBlock, fnCode)
         /\ bi \in BlockIds
         /\ llvmBlock[bi] \in 1 .. Len(fnCode)
BY IInvFacts DEF IInv

LEMMA PartialStart ==
  ASSUME IInv, phase = "body", NEW st, IsBlockState(st),
         Resolved(llvmBlock, fnCode, st.handle, st.code)
  PROVE  Partial(st, st.code, fnCode[llvmBlock[bi]])
<1> DEFINE h == llvmBlock[bi]
<1>1. BlockStateOK(llvmBlock, fnCode) /\ bi \in BlockIds /\ h \in 1 .. Len(fnCode)
  BY CurBlock
<1>2. st.code[h] = fnCode[h] /\ h \in 1 .. Len(st.code)
  BY <1>1 DEF Resolved, IsBlockState, BlockStateOK
<1>3. [st.code EXCEPT ![h] = fnCode[h]] = st.code
  BY <1>2 DEF IsBlockState, BlockStateOK
<1>4. fnCode[h] \in Seq(Emission)
  BY <1>1 DEF BlockStateOK
<1>5. QED
  BY <1>3, <1>4 DEF Partial, IsBlockState, LF!Extends

\* One more instruction of kind k appended to the current LLVM block.
LEMMA PartialEmit ==
  ASSUME IInv, phase = "body", NEW st, NEW C1, NEW s, Partial(st, C1, s),
         NEW k \in EmitKinds, NEW ts \in Seq(BlockIds)
  PROVE  \E e \in Emission : /\ e.kind = k
                             /\ Partial(EmitIn(st, k, ts), C1, Append(s, e))
<1> DEFINE h == llvmBlock[bi]
           e == [kind |-> k, targets |-> [j \in DOMAIN ts |-> st.handle[ts[j]]]]
<1>1. BlockStateOK(llvmBlock, fnCode) /\ bi \in BlockIds /\ h \in 1 .. Len(fnCode)
  BY CurBlock
<1>2. st.handle[bi] = h
  BY <1>1 DEF Partial, Resolved
<1>3. e \in Emission
  BY DEF Partial, BlockStateOK, Emission
<1>4. h \in 1 .. Len(C1) /\ C1 \in Seq(Seq(Emission))
  BY <1>1 DEF Partial, Resolved, BlockStateOK
<1>5. st.code[h] = s /\ st.code = [C1 EXCEPT ![h] = s]
  BY <1>4 DEF Partial
<1>6. EmitIn(st, k, ts) = [handle |-> st.handle,
                           code |-> [C1 EXCEPT ![h] = Append(s, e)]]
  BY <1>2, <1>5 DEF EmitIn
<1>7. LF!Extends(fnCode[h], Append(s, e)) /\ Append(s, e) \in Seq(Emission)
  BY <1>3 DEF Partial, LF!Extends
<1>8. Partial(EmitIn(st, k, ts), C1, Append(s, e))
  <2>1. BlockStateOK(st.handle, C1) /\ Resolved(llvmBlock, fnCode, st.handle, C1)
    BY DEF Partial
  <2>2. EmitIn(st, k, ts).handle = st.handle
    BY <1>6
  <2> HIDE DEF e
  <2>3. QED
    BY <1>6, <1>7, <2>1, <2>2 DEF Partial
<1>9. e.kind = k
  OBVIOUS
<1> HIDE DEF e
<1>10. QED
  BY <1>3, <1>8, <1>9

-----------------------------------------------------------------------------
(* Resolving blocks, and appending to an open block, are steps of         *)
(* LLVMFunction, and keep the handles one to one.                          *)

LEMMA ResolvedGrow ==
  ASSUME NEW H, NEW C, NEW H1, NEW C1, BlockStateOK(H, C), BlockStateOK(H1, C1),
         Resolved(H, C, H1, C1)
  PROVE  LF!Grow(H, C, H1, C1)
<1>1. LF!HandlesStable(H, C, H1, C1)
  BY DEF LF!HandlesStable, Resolved, BlockStateOK
<1>2. LF!FreshBlocksOwned(C, H1, C1)
  BY DEF LF!FreshBlocksOwned, Resolved
<1>3. LF!OnlyAppends(C, C1)
  BY DEF LF!OnlyAppends, LF!Extends, Resolved, BlockStateOK
<1>4. QED
  BY <1>1, <1>2, <1>3 DEF LF!Grow, Resolved

LEMMA ShapeGrow ==
  ASSUME NEW H, NEW C, NEW H1, NEW C1, BlockStateOK(H, C), BlockStateOK(H1, C1),
         Resolved(H, C, H1, C1), NEW h \in 1 .. Len(C), NEW s \in Seq(Emission),
         LF!Extends(C[h], s), ~LF!Sealed(C[h])
  PROVE  LF!Grow(H, C, H1, [C1 EXCEPT ![h] = s])
<1> DEFINE C2 == [C1 EXCEPT ![h] = s]
<1>1. Len(C2) = Len(C1) /\ h \in 1 .. Len(C1)
  BY DEF Resolved, BlockStateOK
<1>2. \A k \in 1 .. Len(C1) : k # h => C2[k] = C1[k]
  BY DEF BlockStateOK
<1>3. C2[h] = s
  BY <1>1 DEF BlockStateOK
<1> HIDE DEF C2
<1>4. LF!HandlesStable(H, C, H1, C2)
  BY <1>1 DEF LF!HandlesStable, Resolved, BlockStateOK
<1>5. LF!FreshBlocksOwned(C, H1, C2)
  <2>1. \A k \in Len(C) + 1 .. Len(C2) : C2[k] = C1[k]
    BY <1>1, <1>2 DEF BlockStateOK
  <2>2. QED
    BY <1>1, <2>1 DEF LF!FreshBlocksOwned, Resolved
<1>6. LF!OnlyAppends(C, C2)
  <2>1. SUFFICES ASSUME NEW j \in 1 .. Len(C)
                 PROVE  /\ LF!Extends(C[j], C2[j])
                        /\ LF!Sealed(C[j]) => C2[j] = C[j]
    BY DEF LF!OnlyAppends
  <2>2. CASE j = h
    BY <1>3, <2>2
  <2>3. CASE j # h
    <3>1. C2[j] = C[j] /\ C[j] \in Seq(Emission)
      BY <1>1, <1>2, <2>3 DEF Resolved, BlockStateOK
    <3>2. QED
      BY <3>1 DEF LF!Extends
  <2>4. QED
    BY <2>2, <2>3
<1>7. LF!Grow(H, C, H1, C2)
  BY <1>1, <1>4, <1>5, <1>6 DEF LF!Grow, Resolved
<1>8. QED
  BY <1>7 DEF C2

LEMMA InjResolved ==
  ASSUME NEW H, NEW C, NEW H1, NEW C1, BlockStateOK(H, C), BlockStateOK(H1, C1),
         Resolved(H, C, H1, C1), Inj(H)
  PROVE  Inj(H1)
<1> SUFFICES ASSUME NEW b \in BlockIds, NEW c \in BlockIds, H1[b] # 0,
                    H1[b] = H1[c]
             PROVE  b = c
  BY DEF Inj
<1>1. CASE H[b] # 0 /\ H[c] # 0
  BY <1>1 DEF Resolved, Inj
<1>2. CASE H[b] = 0 /\ H[c] = 0
  <2>1. H1[b] \in Len(C) + 1 .. Len(C1)
    BY <1>2 DEF Resolved, BlockStateOK
  <2>2. QED
    BY <2>1 DEF Resolved
<1>3. CASE H[b] # 0 /\ H[c] = 0
  BY <1>3 DEF Resolved, BlockStateOK
<1>4. CASE H[b] = 0 /\ H[c] # 0
  BY <1>4 DEF Resolved, BlockStateOK
<1>5. QED
  BY <1>1, <1>2, <1>3, <1>4

\* A block whose LLVM block was empty, or that gets a new one, has an
\* empty LLVM block after resolving; a new handle lies past the old blocks.
LEMMA EmptyResolved ==
  ASSUME NEW H, NEW C, NEW H1, NEW C1, BlockStateOK(H, C), BlockStateOK(H1, C1),
         Resolved(H, C, H1, C1), NEW b \in BlockIds, H1[b] # 0,
         H[b] # 0 => C[H[b]] = <<>>
  PROVE  /\ C1[H1[b]] = <<>>
         /\ H1[b] = H[b] \/ H1[b] > Len(C)
<1>1. CASE H[b] # 0
  BY <1>1 DEF Resolved, BlockStateOK
<1>2. CASE H[b] = 0
  <2>1. H1[b] \in Len(C) + 1 .. Len(C1)
    BY <1>2 DEF Resolved, BlockStateOK
  <2>2. QED
    BY <2>1 DEF Resolved
<1>3. QED
  BY <1>1, <1>2

-----------------------------------------------------------------------------
(* A visited instruction that does not end the process is a step of       *)
(* LLVMFunction and keeps HandleInj, FutureEmpty and CurOpen.             *)
LEMMA ShapeStep ==
  ASSUME RInv, phase = "body", pos \in 1 .. Len(g.code[bi]),
         NEW C1, NEW s, VisitShape(C1, s)
  PROVE  /\ LF!Next
         /\ HandleInj' /\ FutureEmpty' /\ CurOpen'
<1> DEFINE h == llvmBlock[bi]
<1>1. BlockStateOK(llvmBlock, fnCode) /\ bi \in BlockIds /\ h \in 1 .. Len(fnCode)
  BY CurBlock DEF RInv
<1>2. /\ BlockStateOK(llvmBlock', C1)
      /\ Resolved(llvmBlock, fnCode, llvmBlock', C1)
      /\ fnCode' = [C1 EXCEPT ![h] = s]
      /\ s \in Seq(Emission)
      /\ LF!Extends(fnCode[h], s)
  BY DEF VisitShape, Partial
<1>3. ~LF!Sealed(fnCode[h])
  <2>1. Open(fnCode[h]) /\ fnCode[h] \in Seq(Emission)
    BY <1>1 DEF RInv, CurOpen, BlockStateOK
  <2>2. QED
    BY <2>1, OpenNotSealed
<1>4. /\ pos' = pos + 1 /\ bi' = bi /\ phase' = phase /\ g' = g
      /\ (pos' <= Len(g.code[bi]) => Open(s))
  BY DEF VisitShape
<1>5. llvmBlock'[bi] = h /\ h \in 1 .. Len(C1)
  BY <1>1, <1>2 DEF Resolved
<1>6. fnCode'[h] = s /\ \A k \in 1 .. Len(C1) : k # h => fnCode'[k] = C1[k]
  BY <1>2, <1>5 DEF BlockStateOK
<1> HIDE DEF h
<1>7. LF!Next
  <2>1. LF!Grow(llvmBlock, fnCode, llvmBlock', [C1 EXCEPT ![h] = s])
    BY <1>1, <1>2, <1>3, ShapeGrow
  <2>2. QED
    BY <1>2, <2>1 DEF LF!Next
<1>8. HandleInj'
  BY <1>1, <1>2, InjResolved DEF RInv, HandleInj
<1>9. FutureEmpty'
  <2>1. SUFFICES ASSUME NEW b \in BlockIds, Future(b)', llvmBlock'[b] # 0
                 PROVE  fnCode'[llvmBlock'[b]] = <<>>
    BY DEF FutureEmpty
  <2>2. b > bi /\ Future(b)
    BY <1>4, <2>1 DEF Future
  <2>3. llvmBlock[b] # 0 => fnCode[llvmBlock[b]] = <<>>
    BY <2>2 DEF RInv, FutureEmpty
  <2>4. C1[llvmBlock'[b]] = <<>> /\ (llvmBlock'[b] = llvmBlock[b] \/ llvmBlock'[b] > Len(fnCode))
    BY <1>1, <1>2, <2>1, <2>3, EmptyResolved
  <2>5. llvmBlock'[b] # h
    <3>1. CASE llvmBlock'[b] = llvmBlock[b]
      <4>1. b # bi /\ llvmBlock[b] # 0
        BY <1>1, <2>1, <2>2, <3>1 DEF BlockIds
      <4>2. llvmBlock[b] = llvmBlock[bi] => b = bi
        BY <1>1, <4>1 DEF RInv, HandleInj, Inj
      <4>3. QED
        BY <3>1, <4>1, <4>2 DEF h
    <3>2. CASE llvmBlock'[b] > Len(fnCode)
      BY <1>1, <3>2, <1>2 DEF BlockStateOK
    <3>3. QED
      BY <2>4, <3>1, <3>2
  <2>6. llvmBlock'[b] \in 1 .. Len(C1)
    BY <1>2, <2>1 DEF BlockStateOK
  <2>7. QED
    BY <1>6, <2>4, <2>5, <2>6
<1>10. CurOpen'
  BY <1>4, <1>5, <1>6 DEF CurOpen
<1>11. QED
  BY <1>7, <1>8, <1>9, <1>10

-----------------------------------------------------------------------------
(* The handlers, seen from the function.                                   *)

\* A state of the instruction loop with RInv.
BodyR ==
  /\ RInv
  /\ status = "BUILDING" /\ phase = "body"
  /\ pos \in 1 .. Len(g.code[bi])

LEMMA FatalQuiet ==
  ASSUME NEW c, Fatal(c)
  PROVE  Quiet
BY DEF Fatal, Quiet

\* A control instruction is the last of its block (GraphOK), so nothing
\* of the block is visited after it.
LEMMA ControlLast ==
  ASSUME BodyR, Ins(Cur).op \in ControlOps
  PROVE  pos = Len(g.code[bi])
<1>1. GraphOK(g) /\ bi \in BlockIds
  BY IInvFacts DEF BodyR, RInv
<1>2. QED
  BY <1>1 DEF BodyR, GraphOK, Cur, Ins

\* The rest of the frontend's guarantees on the current block (GraphOK):
\* only a control instruction, or one the builder rejects, ends it; its
\* last instruction is not emitted at uses; its successors, and a branch
\* target known statically, are blocks of the graph.
LEMMA BlockFacts ==
  ASSUME BodyR
  PROVE  /\ g.nblocks \in Nat
         /\ Ins(Cur).op \notin ControlOps \cup {"Other"} => pos < Len(g.code[bi])
         /\ Ins(Cur).eau => pos < Len(g.code[bi])
         /\ Ins(Cur).known \in (0 .. g.nblocks - 1) \cup {NoBlock}
         /\ \A k \in 1 .. Len(g.succs[bi]) : g.succs[bi][k] < g.nblocks
<1>1. GraphOK(g) /\ bi \in BlockIds
  BY IInvFacts DEF BodyR, RInv
<1>2. g.nblocks \in Nat
  BY <1>1 DEF GraphOK
<1>3. bi \in 0 .. g.nblocks - 1
  BY <1>1, <1>2 DEF BodyR, RInv, IInv, BlockIds
<1>4. BlockEndsInControl(g, bi)
  BY <1>1, <1>3 DEF GraphOK
<1>5. QED
  BY <1>2, <1>4 DEF BodyR, BlockEndsInControl, Cur, Ins

\* A handler that changes neither the handles nor the function.
LEMMA NoCodeShape ==
  ASSUME BodyR, pos < Len(g.code[bi]),
         UNCHANGED <<g, bi, phase, llvmBlock, fnCode>>, pos' = pos + 1
  PROVE  Shape
<1> DEFINE h == llvmBlock[bi]
<1>1. IsBlockState(BlockState) /\ BlockStateOK(llvmBlock, fnCode)
  BY IInvFacts DEF BodyR, RInv, IsBlockState, BlockState
<1>2. Resolved(llvmBlock, fnCode, llvmBlock, fnCode)
  BY <1>1, ResolvedRefl
<1>3. Partial(BlockState, fnCode, fnCode[h])
  BY <1>1, <1>2, PartialStart DEF BodyR, RInv, BlockState
<1>4. [handle |-> llvmBlock', code |-> fnCode'] = BlockState
  BY DEF BlockState
<1>5. Open(fnCode[h]) /\ pos' <= Len(g.code[bi])
  BY DEF BodyR, RInv, CurOpen
<1>6. VisitShape(fnCode, fnCode[h])
  BY <1>3, <1>4, <1>5 DEF VisitShape
<1>7. QED
  BY <1>6 DEF Shape

\* A handler that resolves blocks into st and then appends an instruction
\* of kind k to the open block; a terminator exactly as the block's last.
LEMMA EmitShape ==
  ASSUME BodyR, NEW st, NEW C1, NEW s0, Partial(st, C1, s0), Open(s0),
         NEW k \in EmitKinds, NEW ts \in Seq(BlockIds),
         k \in Terminators <=> pos = Len(g.code[bi]),
         llvmBlock' = st.handle, fnCode' = EmitIn(st, k, ts).code,
         pos' = pos + 1, UNCHANGED <<g, bi, phase>>
  PROVE  Shape
<1>1. PICK e \in Emission : /\ e.kind = k
                            /\ Partial(EmitIn(st, k, ts), C1, Append(s0, e))
  BY PartialEmit DEF BodyR, RInv
<1>2. [handle |-> llvmBlock', code |-> fnCode'] = EmitIn(st, k, ts)
  <2>1. EmitIn(st, k, ts) = [handle |-> st.handle, code |-> EmitIn(st, k, ts).code]
    BY DEF EmitIn
  <2>2. QED
    BY <2>1
<1>3. /\ pos' <= Len(g.code[bi]) => Open(Append(s0, e))
      /\ pos' > Len(g.code[bi]) => Terminated(Append(s0, e))
  <2>1. s0 \in Seq(Emission)
    BY DEF Partial
  <2>2. pos' <= Len(g.code[bi]) <=> k \notin Terminators
    BY DEF BodyR
  <2>3. QED
    BY <1>1, <2>1, <2>2, OpenAppend
<1>4. VisitShape(C1, Append(s0, e))
  BY <1>1, <1>2, <1>3 DEF VisitShape
<1>5. QED
  BY <1>4 DEF Shape

\* One instruction appended to the current block, no block resolved.
LEMMA EmitHereShape ==
  ASSUME BodyR, NEW k \in EmitKinds, k \in Terminators <=> pos = Len(g.code[bi]),
         fnCode' = EmitIn(BlockState, k, <<>>).code, UNCHANGED llvmBlock,
         Advance
  PROVE  Shape
<1> DEFINE h == llvmBlock[bi]
<1>1. IsBlockState(BlockState) /\ BlockStateOK(llvmBlock, fnCode)
  BY IInvFacts DEF BodyR, RInv, IsBlockState, BlockState
<1>2. Resolved(llvmBlock, fnCode, llvmBlock, fnCode)
  BY <1>1, ResolvedRefl
<1>3. Partial(BlockState, fnCode, fnCode[h])
  BY <1>1, <1>2, PartialStart DEF BodyR, RInv, BlockState
<1>4. <<>> \in Seq(BlockIds)
  OBVIOUS
<1>5. llvmBlock' = BlockState.handle /\ pos' = pos + 1 /\ UNCHANGED <<g, bi, phase>>
  BY DEF BlockState, Advance
<1>6. Open(fnCode[h])
  BY DEF BodyR, RInv, CurOpen
<1> HIDE DEF h
<1>7. QED
  BY <1>3, <1>4, <1>5, <1>6, EmitShape

LEMMA SkipShape ==
  ASSUME BodyR, pos < Len(g.code[bi]), Skip
  PROVE  Shape
BY NoCodeShape DEF Skip, Advance

\* The handlers that emit nothing.
LEMMA QuietHandlersShape ==
  ASSUME BodyR, pos < Len(g.code[bi]), NEW i,
         \/ DoBlockEntry(i) \/ DoNothing(i) \/ DoContext(i)
         \/ DoParameter(i) \/ DoSimulate(i) \/ DoConstant(i)
  PROVE  Quiet \/ Shape
<1>1. CASE DoBlockEntry(i) \/ DoNothing(i)
  BY <1>1, SkipShape DEF DoBlockEntry, DoNothing
<1>2. CASE DoContext(i)
  BY <1>2, SkipShape, FatalQuiet DEF DoContext
<1>3. CASE DoParameter(i)
  BY <1>3, NoCodeShape DEF DoParameter, Advance
<1>4. CASE DoSimulate(i)
  BY <1>4, NoCodeShape DEF DoSimulate
<1>5. CASE DoConstant(i)
  BY <1>5, NoCodeShape, FatalQuiet DEF DoConstant, Advance
<1>6. QED
  BY <1>1, <1>2, <1>3, <1>4, <1>5

LEMMA DoReturnShape ==
  ASSUME BodyR, DoReturn(Cur)
  PROVE  Quiet \/ Shape
<1> DEFINE vs == {Ins(Cur).args[1]}
<1>1. CASE g.isStub \/ g.savesDoubles \/ ~Ins(Cur).pcConst
  BY <1>1, FatalQuiet DEF DoReturn
<1>2. CASE ~(g.isStub \/ g.savesDoubles \/ ~Ins(Cur).pcConst)
  <2>1. WithUse(vs, /\ llvmValue' = Used(vs)
                    /\ fnCode' = EmitIn(BlockState, "ret", <<>>).code
                    /\ Advance /\ UNCHANGED llvmBlock)
    BY <1>2 DEF DoReturn
  <2>2. CASE UseOutcome(vs) # "ok"
    BY <2>1, <2>2, UseOutcomeCases, FatalQuiet DEF WithUse
  <2>3. CASE UseOutcome(vs) = "ok"
    <3>1. /\ fnCode' = EmitIn(BlockState, "ret", <<>>).code
          /\ Advance /\ UNCHANGED llvmBlock
      BY <2>1, <2>3 DEF WithUse
    <3>2. pos = Len(g.code[bi])
      BY ControlLast DEF DoReturn, ControlOps
    <3>3. QED
      BY <3>1, <3>2, EmitHereShape DEF EmitKinds, Terminators
  <2>4. QED
    BY <2>2, <2>3
<1>3. QED
  BY <1>1, <1>2

\* Emit(i, k, vals) of a non-terminator, as DoAdd, DoSub, DoMul and the
\* shifts of DoChange do.
LEMMA EmitNonTerminatorShape ==
  ASSUME BodyR, pos < Len(g.code[bi]), NEW i, NEW k \in EmitKinds \ Terminators,
         NEW vals,
         Emit(i, k, vals), Advance, UNCHANGED llvmBlock
  PROVE  Shape
BY EmitHereShape DEF Emit

LEMMA DoAddShape ==
  ASSUME BodyR, pos < Len(g.code[bi]), NEW i, DoAdd(i)
  PROVE  Quiet \/ Shape
<1> DEFINE vs == {Ins(i).args[1], Ins(i).args[2]}
<1>1. CASE Ins(i).rep \notin ArithReps
  BY <1>1, FatalQuiet DEF DoAdd
<1>2. CASE Ins(i).rep \in ArithReps
  <2>1. WithUse(vs, Emit(i, "add", Used(vs)) /\ Advance /\ UNCHANGED llvmBlock)
    BY <1>2 DEF DoAdd
  <2>2. CASE UseOutcome(vs) # "ok"
    BY <2>1, <2>2, UseOutcomeCases, FatalQuiet DEF WithUse
  <2>3. CASE UseOutcome(vs) = "ok"
    <3>1. "add" \in EmitKinds \ Terminators
      BY DEF EmitKinds, Terminators
    <3>2. QED
      BY <2>1, <2>3, <3>1, EmitNonTerminatorShape DEF WithUse
  <2>4. QED
    BY <2>2, <2>3
<1>3. QED
  BY <1>1, <1>2

LEMMA DoSubMulShape ==
  ASSUME BodyR, pos < Len(g.code[bi]), NEW i, DoSubMul(i)
  PROVE  Quiet \/ Shape
<1>1. CASE Ins(i).rep \notin ArithReps
  BY <1>1, FatalQuiet DEF DoSubMul
<1>2. CASE Ins(i).rep \in ArithReps
  <2> DEFINE k == IF Ins(i).op = "Sub" THEN "sub" ELSE "mul"
  <2>1. k \in EmitKinds \ Terminators
    BY DEF EmitKinds, Terminators
  <2>2. \/ Fatal("Unmaterialized")
        \/ Emit(i, k, llvmValue) /\ Advance /\ UNCHANGED llvmBlock
    BY <1>2 DEF DoSubMul
  <2> HIDE DEF k
  <2>3. QED
    BY <2>1, <2>2, FatalQuiet, EmitNonTerminatorShape
<1>3. QED
  BY <1>1, <1>2

LEMMA DoChangeShape ==
  ASSUME BodyR, pos < Len(g.code[bi]), NEW i, DoChange(i)
  PROVE  Quiet \/ Shape
<1> DEFINE val == Ins(i).args[1]
<1>1. \/ ChangeAlias(i)
      \/ ChangeShift(i, "lshr") \/ ChangeShift(i, "shl")
      \/ Fatal("Unimplemented")
      \/ Skip
  BY DEF DoChange
<1>2. CASE ChangeAlias(i)
  <2>1. CASE UseOutcome({val}) # "ok"
    BY <1>2, <2>1, UseOutcomeCases, FatalQuiet DEF ChangeAlias, WithUse
  <2>2. CASE UseOutcome({val}) = "ok"
    BY <1>2, <2>2, NoCodeShape DEF ChangeAlias, WithUse, Advance
  <2>3. QED
    BY <2>1, <2>2
<1>3. ASSUME NEW k \in {"lshr", "shl"}, ChangeShift(i, k)
      PROVE  Quiet \/ Shape
  <2>1. k \in EmitKinds \ Terminators
    BY DEF EmitKinds, Terminators
  <2>2. CASE UseOutcome({val}) # "ok"
    BY <1>3, <2>2, UseOutcomeCases, FatalQuiet DEF ChangeShift, WithUse
  <2>3. CASE UseOutcome({val}) = "ok"
    BY <1>3, <2>1, <2>3, EmitNonTerminatorShape DEF ChangeShift, WithUse
  <2>4. QED
    BY <2>2, <2>3
<1>4. QED
  BY <1>1, <1>2, <1>3, FatalQuiet, SkipShape

\* Use(HBasicBlock) of b after st resolves st further.
LEMMA UseBlockChain ==
  ASSUME NEW st, IsBlockState(st), Resolved(llvmBlock, fnCode, st.handle, st.code),
         BlockStateOK(llvmBlock, fnCode), NEW b \in BlockIds, b < g.nblocks
  PROVE  /\ IsBlockState(UseBlock(st, b))
         /\ Resolved(llvmBlock, fnCode, UseBlock(st, b).handle, UseBlock(st, b).code)
<1> DEFINE U == UseBlock(st, b)
<1>1. IsBlockState(U)
  BY UseBlockStOK
<1>2. Resolved(st.handle, st.code, U.handle, U.code)
  BY UseBlockResolved
<1> HIDE DEF U
<1>3. IsBlockState(U) /\ Resolved(llvmBlock, fnCode, U.handle, U.code)
  BY <1>1, <1>2, ResolvedTrans DEF IsBlockState
<1>4. QED
  BY <1>3 DEF U

\* The branch to a statically known successor (VisitInstruction) is the
\* last instruction of its block.
LEMMA GotoKnownShape ==
  ASSUME BodyR, InstrOK(Ins(Cur)), KnownSuccessor(Cur), GotoKnown(Cur)
  PROVE  Shape
<1> DEFINE kb == Ins(Cur).known
           U  == UseBlock(BlockState, kb)
<1>1. kb \in BlockIds /\ kb < g.nblocks /\ <<kb>> \in Seq(BlockIds)
      /\ "br" \in EmitKinds
  <2>1. kb \in BlockIds /\ kb # NoBlock
    BY DEF KnownSuccessor, InstrOK
  <2>2. kb < g.nblocks
    BY <2>1, BlockFacts
  <2>3. QED
    BY <2>1, <2>2 DEF EmitKinds
<1>2. IsBlockState(BlockState) /\ BlockStateOK(llvmBlock, fnCode)
      /\ Resolved(llvmBlock, fnCode, BlockState.handle, BlockState.code)
  BY IInvFacts, ResolvedRefl DEF BodyR, RInv, IsBlockState, BlockState
<1>3. IsBlockState(U) /\ Resolved(llvmBlock, fnCode, U.handle, U.code)
  BY <1>1, <1>2, UseBlockChain
<1>4. Partial(U, U.code, fnCode[llvmBlock[bi]])
  BY <1>3, PartialStart DEF BodyR, RInv
<1>5. pos = Len(g.code[bi]) /\ "br" \in Terminators /\ Open(fnCode[llvmBlock[bi]])
  <2>1. pos = Len(g.code[bi])
    BY ControlLast DEF KnownSuccessor
  <2>2. QED
    BY <2>1 DEF Terminators, BodyR, RInv, CurOpen
<1>6. /\ llvmBlock' = U.handle /\ fnCode' = EmitIn(U, "br", <<kb>>).code
      /\ pos' = pos + 1 /\ UNCHANGED <<g, bi, phase>>
  <2>1. EmitIn(U, "br", <<kb>>).handle = U.handle
    BY DEF EmitIn
  <2>2. QED
    BY <2>1 DEF GotoKnown, Advance
<1> HIDE DEF U, kb
<1>7. QED
  BY <1>1, <1>4, <1>5, <1>6, EmitShape

\* Compare-and-branch resolves both successors, then appends an icmp and
\* the conditional branch, the last instruction of the block.
LEMMA DoCompareShape ==
  ASSUME BodyR, InstrOK(Ins(Cur)), Len(Ins(Cur).args) >= 2,
         Len(g.succs[bi]) = 2, g.succs[bi] \in Seq(BlockIds),
         DoCompareNumericAndBranch(Cur)
  PROVE  Quiet \/ Shape
<1> DEFINE i  == Cur
           vs == {Ins(i).args[1], Ins(i).args[2]}
           ss == g.succs[bi]
           U1 == UseBlock(BlockState, ss[1])
           U2 == UseBlock(U1, ss[2])
           E1 == EmitIn(U2, "icmp", <<>>)
           h  == llvmBlock[bi]
<1>1. CASE Ins(i).token \in {"IN", "INSTANCEOF"}
  BY <1>1, FatalQuiet DEF DoCompareNumericAndBranch
<1>2. CASE Ins(i).token \notin {"IN", "INSTANCEOF"} /\ Ins(i).rep # "Integer32"
  BY <1>2, FatalQuiet DEF DoCompareNumericAndBranch
<1>3. CASE Ins(i).token \notin {"IN", "INSTANCEOF"} /\ Ins(i).rep = "Integer32"
  <2>1. CASE UseOutcome(vs) # "ok"
    BY <1>3, <2>1, UseOutcomeCases, FatalQuiet
    DEF DoCompareNumericAndBranch, WithUse
  <2>2. CASE UseOutcome(vs) = "ok"
    <3>1. /\ llvmBlock' = EmitIn(E1, "condbr", ss).handle
          /\ fnCode' = EmitIn(E1, "condbr", ss).code
          /\ pos' = pos + 1 /\ UNCHANGED <<g, bi, phase>>
      BY <1>3, <2>2 DEF DoCompareNumericAndBranch, WithUse, Advance
    <3>2. ss[1] \in BlockIds /\ ss[2] \in BlockIds
          /\ ss[1] < g.nblocks /\ ss[2] < g.nblocks
          /\ <<>> \in Seq(BlockIds) /\ {"icmp", "condbr"} \subseteq EmitKinds
          /\ ss \in Seq(BlockIds)
      BY BlockFacts DEF EmitKinds
    <3>3. IsBlockState(BlockState) /\ BlockStateOK(llvmBlock, fnCode)
          /\ Resolved(llvmBlock, fnCode, BlockState.handle, BlockState.code)
      BY IInvFacts, ResolvedRefl DEF BodyR, RInv, IsBlockState, BlockState
    <3> HIDE DEF U1, U2, E1
    <3>4. IsBlockState(U1) /\ Resolved(llvmBlock, fnCode, U1.handle, U1.code)
      BY <3>2, <3>3, UseBlockChain DEF U1
    <3>5. IsBlockState(U2) /\ Resolved(llvmBlock, fnCode, U2.handle, U2.code)
      BY <3>2, <3>3, <3>4, UseBlockChain DEF U2
    <3>6. Partial(U2, U2.code, fnCode[h])
      BY <3>5, PartialStart DEF BodyR, RInv
    <3>7. PICK e \in Emission : /\ e.kind = "icmp"
                                /\ Partial(E1, U2.code, Append(fnCode[h], e))
      BY <3>2, <3>6, PartialEmit DEF BodyR, RInv, E1
    <3>12. Open(Append(fnCode[h], e))
      <4>1. Open(fnCode[h]) /\ fnCode[h] \in Seq(Emission)
        BY CurBlock DEF BodyR, RInv, CurOpen, BlockStateOK
      <4>2. QED
        BY <3>7, <4>1, OpenAppend DEF Terminators
    <3>8. EmitIn(E1, "condbr", ss).handle = E1.handle
      BY DEF EmitIn
    <3>9. pos = Len(g.code[bi])
      BY ControlLast DEF DoCompareNumericAndBranch, ControlOps
    <3> HIDE DEF h, ss, i
    <3>10. Shape
      BY <3>1, <3>2, <3>7, <3>8, <3>9, <3>12, EmitShape DEF Terminators
    <3>11. QED
      BY <3>10
  <2>3. QED
    BY <2>1, <2>2
<1>4. QED
  BY <1>1, <1>2, <1>3

\* Every visit either ends the process or is a step of the function.
LEMMA VisitStep ==
  ASSUME RInv, Visit
  PROVE  Quiet \/ Shape
<1> DEFINE i == Cur
<1>1. BodyR /\ InBody
  BY DEF Visit, BodyR, InBody, RInv, IInv, TypeOK
<1>2. /\ i \in Ids
      /\ InstrOK(Ins(i))
      /\ Ins(i).op \in {"Add", "Sub", "Mul", "CompareNumericAndBranch"}
           => Len(Ins(i).args) >= 2
      /\ Ins(i).op = "CompareNumericAndBranch" => Len(g.succs[bi]) = 2
      /\ g.succs[bi] \in Seq(BlockIds)
  BY <1>1, CurFacts
<1>3. VisitInstruction(i)
  BY DEF Visit
<1>8. Ins(i).op \notin ControlOps \cup {"Other"} => pos < Len(g.code[bi])
  BY <1>1, BlockFacts DEF i
<1> HIDE DEF i
<1>4. CASE Ins(i).dummy /\ Fatal("Unimplemented")
  BY <1>4, FatalQuiet
<1>5. CASE ~Ins(i).dummy /\ KnownSuccessor(i) /\ GotoKnown(i)
  BY <1>1, <1>2, <1>5, GotoKnownShape DEF i
<1>6. CASE ~Ins(i).dummy /\ ~KnownSuccessor(i) /\ CompileToLLVM(i)
  <2>1. CASE \/ DoBlockEntry(i) \/ DoNothing(i) \/ DoContext(i)
             \/ DoParameter(i) \/ DoSimulate(i) \/ DoConstant(i)
    <3>1. pos < Len(g.code[bi])
      BY <1>8, <2>1 DEF DoBlockEntry, DoNothing, DoContext, DoParameter,
                        DoSimulate, DoConstant, ControlOps
    <3>2. QED
      BY <1>1, <2>1, <3>1, QuietHandlersShape
  <2>2. CASE DoReturn(i)
    BY <1>1, <2>2, DoReturnShape DEF i
  <2>3. CASE DoAdd(i)
    <3>1. pos < Len(g.code[bi])
      BY <1>8, <2>3 DEF DoAdd, ControlOps
    <3>2. QED
      BY <1>1, <2>3, <3>1, DoAddShape
  <2>4. CASE DoSubMul(i)
    <3>1. pos < Len(g.code[bi])
      BY <1>8, <2>4 DEF DoSubMul, ControlOps
    <3>2. QED
      BY <1>1, <2>4, <3>1, DoSubMulShape
  <2>5. CASE DoChange(i)
    <3>1. pos < Len(g.code[bi])
      BY <1>8, <2>5 DEF DoChange, ControlOps
    <3>2. QED
      BY <1>1, <2>5, <3>1, DoChangeShape
  <2>6. CASE DoCompareNumericAndBranch(i)
    <3>1. Ins(i).op = "CompareNumericAndBranch"
      BY <2>6 DEF DoCompareNumericAndBranch
    <3>2. QED
      BY <1>1, <1>2, <2>6, <3>1, DoCompareShape DEF i
  <2>7. CASE Ins(i).op \in {"Goto", "Phi", "Other"} /\ Fatal("Unimplemented")
    BY <2>7, FatalQuiet
  <2>8. QED
    BY <1>6, <2>1, <2>2, <2>3, <2>4, <2>5, <2>6, <2>7 DEF CompileToLLVM
<1>7. QED
  BY <1>3, <1>4, <1>5, <1>6 DEF VisitInstruction

-----------------------------------------------------------------------------
(* The four steps of the builder.                                          *)

\* The prologue of DoBasicBlock resolves the block's own LLVM block, which
\* is new or, made earlier for a branch, still empty.
LEMMA EnterBlockStep ==
  ASSUME RInv, EnterBlock
  PROVE  /\ LF!Next /\ HandleInj' /\ FutureEmpty' /\ CurOpen'
         /\ BlockStateOK(llvmBlock', fnCode')
         /\ Resolved(llvmBlock, fnCode, llvmBlock', fnCode')
<1> DEFINE st == UseBlock(BlockState, bi)
<1>1. IsBlockState(BlockState) /\ BlockStateOK(llvmBlock, fnCode) /\ bi \in BlockIds
      /\ Resolved(llvmBlock, fnCode, BlockState.handle, BlockState.code)
  BY IInvFacts, ResolvedRefl DEF RInv, IsBlockState, BlockState
<1>2. IsBlockState(st) /\ Resolved(llvmBlock, fnCode, st.handle, st.code)
      /\ st.handle[bi] # 0
  <2>1. st.handle[bi] # 0
    BY <1>1 DEF UseBlock, IsBlockState, BlockStateOK, BlockState
  <2>2. bi < g.nblocks
    BY DEF RInv, IInv
  <2>3. QED
    BY <1>1, <2>1, <2>2, UseBlockChain
<1>3. /\ llvmBlock' = st.handle /\ fnCode' = st.code
      /\ bi' = bi /\ phase' = "body" /\ pos' = 1 /\ phase = "enter"
  BY DEF EnterBlock
<1> HIDE DEF st
<1>4. BlockStateOK(llvmBlock', fnCode') /\ Resolved(llvmBlock, fnCode, llvmBlock', fnCode')
  BY <1>2, <1>3 DEF IsBlockState
<1>5. LF!Next
  BY <1>1, <1>4, ResolvedGrow DEF LF!Next
<1>6. HandleInj'
  BY <1>1, <1>4, InjResolved DEF RInv, HandleInj
<1>7. ASSUME NEW b \in BlockIds, Future(b), llvmBlock'[b] # 0
      PROVE  fnCode'[llvmBlock'[b]] = <<>>
  <2>1. llvmBlock[b] # 0 => fnCode[llvmBlock[b]] = <<>>
    BY <1>7 DEF RInv, FutureEmpty
  <2>2. QED
    BY <1>1, <1>4, <1>7, <2>1, EmptyResolved
<1>8. FutureEmpty'
  <2>1. \A b \in BlockIds : Future(b)' => Future(b)
    BY <1>3 DEF Future
  <2>2. QED
    BY <1>7, <2>1 DEF FutureEmpty
<1>9. CurOpen'
  <2>1. fnCode'[llvmBlock'[bi]] = <<>>
    BY <1>1, <1>2, <1>3, <1>7 DEF Future
  <2>2. QED
    BY <1>3, <2>1 DEF CurOpen, Open
<1>10. QED
  BY <1>4, <1>5, <1>6, <1>8, <1>9

\* Skipping an instruction emitted at its uses, and the epilogue, leave
\* the function alone.
LEMMA SkipEmitAtUsesStep ==
  ASSUME RInv, SkipEmitAtUses
  PROVE  UNCHANGED <<llvmBlock, fnCode>> /\ HandleInj' /\ FutureEmpty' /\ CurOpen'
<1>1. UNCHANGED <<llvmBlock, fnCode, g, bi, phase>> /\ pos' = pos + 1
  BY DEF SkipEmitAtUses, Skip, Advance
<1>2. pos \in Nat
  BY DEF RInv, IInv, TypeOK
<1>3. QED
  BY <1>1, <1>2 DEF RInv, HandleInj, Inj, FutureEmpty, Future, CurOpen

LEMMA FinishBlockStep ==
  ASSUME RInv, FinishBlock
  PROVE  UNCHANGED <<llvmBlock, fnCode>> /\ HandleInj' /\ FutureEmpty' /\ CurOpen'
<1>1. UNCHANGED <<llvmBlock, fnCode, g>>
  BY DEF FinishBlock
<1>2. bi \in BlockIds
  BY IInvFacts DEF RInv
<1>3. CASE bi = g.nblocks - 1
  BY <1>1, <1>3 DEF FinishBlock, RInv, HandleInj, Inj, FutureEmpty, Future, CurOpen
<1>4. CASE bi # g.nblocks - 1
  <2>1. bi' = bi + 1 /\ phase' = "enter"
    BY <1>4 DEF FinishBlock
  <2>2. \A b \in BlockIds : Future(b)' => Future(b)
    BY <1>2, <2>1 DEF Future, BlockIds
  <2>3. QED
    BY <1>1, <2>1, <2>2 DEF RInv, HandleInj, Inj, FutureEmpty, CurOpen
<1>5. QED
  BY <1>3, <1>4

LEMMA QuietStep ==
  ASSUME RInv, Quiet
  PROVE  UNCHANGED <<llvmBlock, fnCode>> /\ HandleInj' /\ FutureEmpty' /\ CurOpen'
BY DEF Quiet, RInv, HandleInj, Inj, FutureEmpty, Future, CurOpen

LEMMA NextRInv ==
  ASSUME RInv, [Next]_vars
  PROVE  RInv' /\ [LF!Next]_<<llvmBlock, fnCode>>
<1>1. IInv'
  BY NextIInv DEF RInv
<1>2. CASE EnterBlock
  BY <1>1, <1>2, EnterBlockStep DEF RInv
<1>3. CASE SkipEmitAtUses
  BY <1>1, <1>3, SkipEmitAtUsesStep DEF RInv
<1>4. CASE Visit
  <2>1. phase = "body" /\ pos \in 1 .. Len(g.code[bi])
    BY <1>4 DEF Visit, RInv, IInv, TypeOK
  <2>2. CASE Quiet
    BY <1>1, <2>2, QuietStep DEF RInv
  <2>3. CASE Shape
    <3>1. PICK C1, s : VisitShape(C1, s)
      BY <2>3 DEF Shape
    <3>2. QED
      BY <1>1, <2>1, <3>1, ShapeStep DEF RInv
  <2>4. QED
    BY <1>4, <2>2, <2>3, VisitStep
<1>5. CASE FinishBlock
  BY <1>1, <1>5, FinishBlockStep DEF RInv
<1>6. CASE UNCHANGED vars
  BY <1>1, <1>6 DEF vars, RInv, HandleInj, Inj, FutureEmpty, Future, CurOpen
<1>7. QED
  BY <1>2, <1>3, <1>4, <1>5, <1>6 DEF Next

LEMMA InitRInv ==
  ASSUME Init
  PROVE  RInv /\ LF!Init
BY InitIInv DEF Init, RInv, HandleInj, Inj, FutureEmpty, CurOpen, LF!Init

\* The builder implements LLVMFunction for every graph the frontend may
\* hand over: Use(HBasicBlock) gives each HIR block one LLVM block for
\* good, a new LLVM block starts empty, the handlers only append to the
\* current block, and nothing is appended after a block's terminator.
THEOREM Refinement == Spec => FunctionRefinement
<1>1. Init => RInv /\ LF!Init
  BY InitRInv
<1>2. RInv /\ [Next]_vars => RInv' /\ [LF!Next]_<<llvmBlock, fnCode>>
  BY NextRInv
<1>3. QED
  BY <1>1, <1>2, PTL DEF Spec, FunctionRefinement, LF!Spec, LF!vars

=============================================================================
