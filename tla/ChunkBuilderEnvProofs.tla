------------------------ MODULE ChunkBuilderEnvProofs ------------------------
(***************************************************************************)
(* Proof of EnvNoClobber for every graph the frontend may hand over.       *)
(* DoBasicBlock shares HEnvironment objects between blocks (lines          *)
(* 251-279) and DoSimulate writes into the current block's object in      *)
(* place (351-359).  A finished block whose environment a block not yet   *)
(* entered will read is a "holder"; the argument is that holders, and the *)
(* current block, never share an object, and that every object a holder   *)
(* uses was allocated before envNext.                                      *)
(***************************************************************************)
EXTENDS ChunkBuilderProofs

\* Block p has finished and a block that reads its environment on entry
\* has not been entered yet.
Holding(p) == p < bi /\ \E r \in Readers(p) : ~Entered(r)

\* A holder, or the block whose body runs.
Holder(p) == Holding(p) \/ (p = bi /\ phase = "body")

\* A holder's object still holds what the block finished with.
Preserved == \A p \in Blocks : Holding(p) => envs[lastEnv[p]] = finalEnv[p]

\* Every object in use was allocated: a copy never overwrites it.
Allocated == \A p \in Blocks : Holder(p) => lastEnv[p] < envNext

\* No two holders share an object.
Unshared ==
  \A p, q \in Blocks : Holder(p) /\ Holder(q) /\ p # q => lastEnv[p] # lastEnv[q]

\* The inductive invariant behind EnvNoClobber.
NInv == IInv /\ Preserved /\ Allocated /\ Unshared

\* The blocks of the graph are block ids, and a holder's object exists.
LEMMA BlocksFacts ==
  ASSUME IInv
  PROVE  /\ g.nblocks \in Nat /\ Blocks \subseteq BlockIds
         /\ \A p \in Blocks : Holder(p) => lastEnv[p] \in EnvIds
         /\ envs \in [EnvIds -> EnvContents]
<1>1. GraphOK(g)
  BY IInvFacts
<1>2. g.nblocks \in Nat /\ Blocks \subseteq BlockIds
  BY <1>1, MaxBlocksAssumption DEF GraphOK, Blocks, BlockIds
<1>3. QED
  BY <1>2 DEF Holder, Holding, IInv, TypeOK

\* Initially no block has finished and no body runs.
LEMMA InitNInv ==
  ASSUME Init
  PROVE  NInv
<1>1. IInv
  BY InitIInv
<1>2. \A p \in Blocks : ~Holder(p)
  BY <1>1, BlocksFacts DEF Init, Holder, Holding, BlockIds
<1>3. QED
  BY <1>1, <1>2 DEF NInv, Preserved, Allocated, Unshared, Holder

-----------------------------------------------------------------------------
(* The instruction loop: a handler changes no environment but the current *)
(* block's object, and only DoSimulate changes that.                       *)

EnvsKept ==
  /\ UNCHANGED <<g, bi, phase, lastEnv, envNext, finalEnv>>
  /\ \A e \in EnvIds : e # lastEnv[bi] => envs'[e] = envs[e]

\* A visited instruction keeps EnvsKept.
LEMMA VisitEnvs ==
  ASSUME IInv, Visit
  PROVE  EnvsKept
<1> DEFINE i == Cur
<1>1. VisitInstruction(i) /\ envs \in [EnvIds -> EnvContents]
  BY DEF Visit, IInv, TypeOK
<1> HIDE DEF i
<1>2. ASSUME NEW c, Fatal(c) PROVE EnvsKept
  BY <1>2 DEF Fatal, EnvsKept
<1>3. ASSUME Advance PROVE EnvsKept
  BY <1>3 DEF Advance, EnvsKept
<1>4. ASSUME NEW vs, NEW A, WithUse(vs, A), A => EnvsKept
      PROVE  EnvsKept
  BY <1>4, <1>2 DEF WithUse
<1>5. CASE GotoKnown(i)
  BY <1>3, <1>5 DEF GotoKnown
<1>6. CASE CompileToLLVM(i)
  <2>1. CASE \/ DoBlockEntry(i) \/ DoNothing(i) \/ DoContext(i)
             \/ DoParameter(i) \/ DoConstant(i)
    BY <1>2, <1>3, <2>1 DEF DoBlockEntry, DoNothing, DoContext, DoParameter,
                            DoConstant, Skip
  <2>2. CASE DoSimulate(i)
    BY <1>1, <2>2 DEF DoSimulate, EnvsKept
  <2>3. CASE DoReturn(i) \/ DoAdd(i)
    BY <1>2, <1>3, <1>4, <2>3 DEF DoReturn, DoAdd
  <2>4. CASE DoSubMul(i)
    BY <1>2, <1>3, <2>4 DEF DoSubMul
  <2>5. CASE DoChange(i)
    <3>1. ASSUME NEW k, ChangeShift(i, k) \/ ChangeAlias(i) PROVE EnvsKept
      BY <1>3, <1>4, <3>1 DEF ChangeShift, ChangeAlias
    <3>2. QED
      BY <1>2, <1>3, <2>5, <3>1 DEF DoChange, Skip
  <2>6. CASE DoCompareNumericAndBranch(i)
    BY <1>2, <1>3, <1>4, <2>6 DEF DoCompareNumericAndBranch
  <2>7. CASE Ins(i).op \in {"Goto", "Phi", "Other"} /\ Fatal("Unimplemented")
    BY <1>2, <2>7
  <2>8. QED
    BY <1>6, <2>1, <2>2, <2>3, <2>4, <2>5, <2>6, <2>7 DEF CompileToLLVM
<1>7. QED
  BY <1>1, <1>2, <1>5, <1>6 DEF VisitInstruction

\* A step that keeps the environments of every block but the current one,
\* while the current block's body runs, keeps NInv.
LEMMA KeptNInv ==
  ASSUME NInv, IInv', phase = "body", EnvsKept
  PROVE  NInv'
<1>1. \A p \in Blocks : Holding(p)' <=> Holding(p)
  BY DEF EnvsKept, Holding, Readers, Entered, Blocks
<1>2. \A p \in Blocks : Holder(p)' <=> Holder(p)
  BY <1>1 DEF EnvsKept, Holder
<1>3. Preserved'
  <2>1. SUFFICES ASSUME NEW p \in Blocks, Holding(p)
                 PROVE  envs'[lastEnv[p]] = finalEnv[p]
    BY <1>1 DEF Preserved, EnvsKept, Blocks
  <2>2. lastEnv[p] \in EnvIds /\ lastEnv[p] # lastEnv[bi]
    <3>1. Holder(p) /\ Holder(bi) /\ p # bi /\ bi \in Blocks
      BY <2>1, BlocksFacts DEF Holder, Holding, NInv, IInv, TypeOK, Blocks, BlockIds
    <3>2. QED
      BY <3>1, BlocksFacts DEF NInv, Unshared
  <2>3. QED
    BY <2>1, <2>2 DEF EnvsKept, NInv, Preserved
<1>4. (Allocated /\ Unshared)'
  BY <1>2 DEF EnvsKept, NInv, Allocated, Unshared, Blocks
<1>5. QED
  BY <1>3, <1>4 DEF NInv

\* The epilogue: the block's final environment is recorded; a block that
\* is left becomes a holder exactly when a reader of it is still to come.
LEMMA FinishNInv ==
  ASSUME NInv, IInv', FinishBlock
  PROVE  NInv'
<1>1. /\ UNCHANGED <<g, envs, lastEnv, envNext>> /\ phase = "body"
      /\ finalEnv' = [finalEnv EXCEPT ![bi] = envs[lastEnv[bi]]]
  BY DEF FinishBlock
<1>2. /\ g.nblocks \in Nat /\ Blocks \subseteq BlockIds /\ bi \in Blocks
      /\ finalEnv \in [BlockIds -> EnvContents]
  BY BlocksFacts DEF NInv, IInv, TypeOK, Blocks, BlockIds
<1>3. \A p \in Blocks : p < bi => finalEnv'[p] = finalEnv[p]
  BY <1>1, <1>2 DEF Blocks, BlockIds
<1>4. CASE bi = g.nblocks - 1
  <2>1. UNCHANGED <<bi, phase>>
    BY <1>4 DEF FinishBlock
  <2>2. \A p \in Blocks : (Holding(p)' <=> Holding(p)) /\ (Holder(p)' <=> Holder(p))
    BY <1>1, <2>1 DEF Holding, Holder, Readers, Entered, Blocks
  <2>3. Preserved'
    BY <1>1, <1>3, <2>2 DEF NInv, Preserved, Holding, Blocks
  <2>4. (Allocated /\ Unshared)'
    BY <1>1, <2>2 DEF NInv, Allocated, Unshared, Blocks
  <2>5. QED
    BY <2>3, <2>4 DEF NInv
<1>5. CASE bi # g.nblocks - 1
  <2>1. bi' = bi + 1 /\ phase' = "enter"
    BY <1>5 DEF FinishBlock
  <2>2. \A r \in Blocks : Entered(r)' <=> Entered(r)
    BY <1>1, <1>2, <2>1 DEF Entered, Blocks, BlockIds
  <2>3. \A p \in Blocks : Readers(p)' = Readers(p)
    BY <1>1 DEF Readers, Blocks
  <2>4. \A p \in Blocks : Holding(p)' => Holding(p) \/ p = bi
    BY <1>2, <2>1, <2>2, <2>3 DEF Holding, Readers, Blocks, BlockIds
  <2>5. \A p \in Blocks : Holder(p)' => Holder(p)
    BY <1>1, <2>1, <2>4 DEF Holder
  <2>6. Preserved'
    <3>1. SUFFICES ASSUME NEW p \in Blocks, Holding(p)'
                   PROVE  envs[lastEnv[p]] = finalEnv'[p]
      BY <1>1 DEF Preserved, Blocks
    <3>2. CASE p = bi
      BY <1>1, <1>2, <3>2
    <3>3. CASE p # bi
      <4>1. Holding(p) /\ p < bi
        BY <2>4, <3>1, <3>3 DEF Holding
      <4>2. QED
        BY <1>3, <4>1 DEF NInv, Preserved
    <3>4. QED
      BY <3>2, <3>3
  <2>7. (Allocated /\ Unshared)'
    BY <1>1, <2>5 DEF NInv, Allocated, Unshared, Blocks
  <2>8. QED
    BY <2>6, <2>7 DEF NInv
<1>6. QED
  BY <1>4, <1>5

\* A block has one or two successors when it has one at all.
LEMMA OneOrTwo ==
  ASSUME NEW L \in Nat, NEW m \in Int, 1 <= m, m <= L, L <= 2
  PROVE  L = 1 \/ L = 2
  OBVIOUS

\* A block with predecessors has one or several.
LEMMA OneOrMore ==
  ASSUME NEW L \in Nat, L >= 1
  PROVE  L = 1 \/ L > 1
  OBVIOUS

\* When DoBasicBlock shares the object of block bi's first predecessor pp
\* (a join, or one predecessor and no later sibling), every block that
\* reads pp's environment comes no later than bi: pp's successors are its
\* readers (EdgesOK), a join's predecessor has bi as its one successor,
\* and NeedsCopy fails only when no successor of pp comes after bi.
LEMMA SharedPredReaders ==
  ASSUME IInv, bi # 0,
         \/ Len(g.preds[bi]) > 1
         \/ Len(g.preds[bi]) = 1 /\ ~NeedsCopy(g.preds[bi][1], bi)
  PROVE  \A r \in Readers(g.preds[bi][1]) : r <= bi
<1> DEFINE pp == g.preds[bi][1]
           ss == g.succs[pp]
<1>1. GraphOK(g) /\ bi \in BlockIds /\ pp \in BlockIds /\ pp < bi
  BY IInvFacts, PredFacts
<1>2. /\ g.nblocks \in Nat /\ bi \in Blocks /\ pp \in Blocks
      /\ \A b \in Blocks : EdgesOK(g, b)
      /\ g.preds \in [BlockIds -> Seq(BlockIds)]
      /\ g.succs \in [BlockIds -> Seq(BlockIds)]
  BY <1>1 DEF GraphOK, Blocks, IInv, BlockIds
<1>3. SUFFICES ASSUME NEW r \in Readers(pp) PROVE r <= bi
  OBVIOUS
<1>4. r \in Blocks /\ Len(g.preds[r]) >= 1 /\ g.preds[r][1] = pp
  BY <1>3 DEF Readers
<1>5. PICK j \in 1 .. Len(ss) : ss[j] = r
  <2>1. \A k \in 1 .. Len(g.preds[r]) :
          \E i \in 1 .. Len(g.succs[g.preds[r][k]]) : g.succs[g.preds[r][k]][i] = r
    BY <1>2, <1>4 DEF EdgesOK
  <2>2. 1 \in 1 .. Len(g.preds[r])
    BY <1>2, <1>4
  <2>3. QED
    BY <2>1, <2>2, <1>4
<1>6. PICK m \in 1 .. Len(ss) : ss[m] = bi
  <2>1. \A k \in 1 .. Len(g.preds[bi]) :
          \E i \in 1 .. Len(g.succs[g.preds[bi][k]]) : g.succs[g.preds[bi][k]][i] = bi
    BY <1>2 DEF EdgesOK
  <2>2. 1 \in 1 .. Len(g.preds[bi])
    BY <1>1, <1>2
  <2>3. QED
    BY <2>1, <2>2
<1>7. Len(ss) <= 2 /\ ss \in Seq(BlockIds)
  BY <1>1, <1>2 DEF EdgesOK
<1>8. CASE Len(g.preds[bi]) > 1
  <2>1. \A k \in 1 .. Len(g.preds[bi]) : Len(g.succs[g.preds[bi][k]]) = 1
    BY <1>2, <1>8 DEF EdgesOK
  <2>2. Len(ss) = 1
    BY <2>1, <1>1, <1>2, <1>8
  <2>3. QED
    BY <1>1, <1>5, <1>6, <2>2 DEF BlockIds
<1>9. CASE Len(g.preds[bi]) = 1 /\ ~NeedsCopy(pp, bi)
  <2>1. CASE Len(ss) = 2
    <3>0. ss[1] \in BlockIds /\ ss[2] \in BlockIds /\ bi \in BlockIds
      BY <1>1, <1>7, <2>1
    <3>1. ~(ss[1] > bi \/ ss[2] > bi)
      BY <1>9, <2>1 DEF NeedsCopy, pp, ss
    <3>2. ss[1] <= bi /\ ss[2] <= bi
      BY <3>0, <3>1 DEF BlockIds
    <3>3. j = 1 \/ j = 2
      BY <2>1
    <3>4. QED
      BY <1>5, <3>2, <3>3
  <2>2. CASE Len(ss) = 1
    <3>1. j = 1 /\ m = 1
      BY <2>2
    <3>2. r = bi /\ bi \in Nat
      BY <1>1, <1>5, <1>6, <3>1 DEF BlockIds
    <3>3. QED
      BY <3>2
  <2>3. Len(ss) = 1 \/ Len(ss) = 2
    <3>1. Len(ss) \in Nat /\ m \in 1 .. Len(ss)
      BY <1>6, <1>7
    <3>2. m \in Int /\ 1 <= m /\ m <= Len(ss) /\ Len(ss) <= 2
      BY <3>1, <1>7
    <3>3. QED
      BY <3>1, <3>2, OneOrTwo, Zenon
  <2>4. QED
    BY <2>1, <2>2, <2>3
<1>10. QED
  BY <1>8, <1>9

-----------------------------------------------------------------------------
(* Entering block bi (DoBasicBlock, lines 251-279).                        *)

\* Entering bi makes no new holding block: bi's readers come after bi.
LEMMA EnterHolding ==
  ASSUME IInv, EnterBlock
  PROVE  \A p \in Blocks : Holding(p)' => Holding(p) /\ p # bi
<1>1. UNCHANGED <<g, bi>> /\ phase = "enter" /\ phase' = "body"
  BY DEF EnterBlock
<1>2. g.nblocks \in Nat /\ Blocks \subseteq BlockIds
  BY BlocksFacts
<1>3. \A p \in Blocks : Readers(p)' = Readers(p) /\ Readers(p) \subseteq Blocks
  BY <1>1 DEF Readers, Blocks
<1>4. \A r \in Blocks : ~Entered(r)' => ~Entered(r)
  BY <1>1, <1>2 DEF Entered, BlockIds
<1>5. SUFFICES ASSUME NEW p \in Blocks, Holding(p)'
               PROVE  Holding(p) /\ p # bi
  OBVIOUS
<1>6. p < bi /\ \E r \in Readers(p)' : ~Entered(r)'
  BY <1>1, <1>5 DEF Holding
<1>7. PICK r \in Readers(p) : ~Entered(r)'
  BY <1>3, <1>6
<1>8. r \in Blocks /\ ~Entered(r)
  BY <1>3, <1>4, <1>7
<1>9. QED
  BY <1>2, <1>6, <1>8 DEF Holding, BlockIds

\* Block bi's first predecessor pp holds its environment for bi, so that
\* environment is allocated.
LEMMA PredHolding ==
  ASSUME NInv, EnterBlock, bi # 0, Len(g.preds[bi]) >= 1
  PROVE  LET pp == g.preds[bi][1]
         IN  /\ pp \in Blocks /\ pp < bi /\ Holding(pp)
             /\ lastEnv[pp] \in EnvIds /\ lastEnv[pp] < envNext
<1> DEFINE pp == g.preds[bi][1]
<1>1. IInv /\ GraphOK(g) /\ bi \in BlockIds
  BY IInvFacts DEF NInv
<1>2. pp \in BlockIds /\ pp < bi /\ lastEnv[pp] \in EnvIds
  BY <1>1, PredFacts
<1>3. g.nblocks \in Nat /\ bi \in Blocks /\ pp \in Blocks
  BY <1>1, <1>2 DEF IInv, GraphOK, Blocks, BlockIds
<1>4. g.preds[bi] \in Seq(BlockIds)
  BY <1>1 DEF GraphOK
<1>5. bi \in Readers(pp)
  <2>1. CASE Len(g.preds[bi]) = 1
    <3>1. g.preds[bi] = <<pp>>
      BY <1>4, <2>1
    <3>2. QED
      BY <1>3, <3>1 DEF Readers
  <2>2. CASE Len(g.preds[bi]) > 1
    BY <1>3, <2>2 DEF Readers
  <2>3. Len(g.preds[bi]) = 1 \/ Len(g.preds[bi]) > 1
    <3>1. Len(g.preds[bi]) \in Nat
      BY <1>4
    <3>2. QED
      BY <3>1, OneOrMore, Zenon
  <2>4. QED
    BY <2>1, <2>2, <2>3, Zenon
<1>6. Holding(pp)
  <2>1. ~Entered(bi)
    BY <1>3 DEF EnterBlock, Entered, Blocks
  <2>2. QED
    BY <1>2, <1>5, <2>1 DEF Holding
<1>7. QED
  BY <1>2, <1>3, <1>6 DEF NInv, Allocated, Holder

\* When bi shares pp's object, pp no longer holds it.
LEMMA SharedPredReleased ==
  ASSUME IInv, EnterBlock, bi # 0,
         \/ Len(g.preds[bi]) > 1
         \/ Len(g.preds[bi]) = 1 /\ ~NeedsCopy(g.preds[bi][1], bi),
         NEW p, p = g.preds[bi][1]
  PROVE  ~Holding(p)'
<1>1. \A r \in Readers(p) : r <= bi
  BY SharedPredReaders
<1>2. UNCHANGED <<g, bi>> /\ phase' = "body"
  BY DEF EnterBlock
<1>3. g.nblocks \in Nat /\ Blocks \subseteq BlockIds /\ bi \in BlockIds
  BY BlocksFacts, IInvFacts
<1>4. \A r \in Readers(p) : r < bi \/ r = bi
  BY <1>1, <1>3 DEF Readers, Blocks, BlockIds
<1>5. \A r \in Readers(p)' : Entered(r)'
  <2>1. Readers(p)' = Readers(p)
    BY <1>2 DEF Readers, Blocks
  <2>2. QED
    BY <1>2, <1>4, <2>1 DEF Entered
<1>6. QED
  BY <1>5 DEF Holding

\* What each way of giving bi its environment must leave for NInv to hold
\* after the step: the holders' objects untouched and distinct from bi's,
\* and bi's object allocated.
LEMMA EnterNInvFrom ==
  ASSUME NInv, EnterBlock,
         \A p \in Blocks : Holding(p)' =>
              /\ envs'[lastEnv[p]] = envs[lastEnv[p]]
              /\ lastEnv[p] # lastEnv'[bi],
         lastEnv'[bi] < envNext', envNext <= envNext'
  PROVE  NInv'
<1>1. IInv /\ IInv'
  BY EnterBlockOK DEF NInv
<1>2. UNCHANGED <<g, bi, finalEnv>> /\ phase' = "body"
  BY DEF EnterBlock
<1>3. /\ g.nblocks \in Nat /\ Blocks \subseteq BlockIds /\ envNext \in Nat
      /\ envNext' \in Nat
  BY <1>1, BlocksFacts DEF IInv, TypeOK
<1>4. \A p \in Blocks : p # bi => lastEnv'[p] = lastEnv[p]
  <2>1. EnvEntered
    BY <1>1, StartEnvOK, SinglePredEnvOK, JoinEnvOK DEF EnterBlock
  <2>2. QED
    BY <1>3, <2>1 DEF EnvEntered
<1>5. \A p \in Blocks : Holding(p)' => Holding(p) /\ p # bi
  BY <1>1, EnterHolding
<1>6. \A p \in Blocks : Holder(p)' => Holding(p)' \/ p = bi
  BY <1>2 DEF Holder
<1>7. Preserved'
  <2>1. SUFFICES ASSUME NEW p \in Blocks, Holding(p)'
                 PROVE  envs'[lastEnv'[p]] = finalEnv'[p]
    BY <1>2 DEF Preserved, Blocks
  <2>2. Holding(p) /\ p # bi
    BY <1>5, <2>1
  <2>3. QED
    BY <1>2, <1>4, <2>1, <2>2 DEF NInv, Preserved
<1>8. Allocated'
  <2>1. SUFFICES ASSUME NEW p \in Blocks, Holder(p)'
                 PROVE  lastEnv'[p] < envNext'
    BY <1>2 DEF Allocated, Blocks
  <2>2. CASE p = bi
    BY <2>2
  <2>3. CASE p # bi
    <3>1. Holding(p)
      BY <1>5, <1>6, <2>1, <2>3
    <3>2. lastEnv[p] \in EnvIds /\ lastEnv[p] < envNext
      BY <1>1, <3>1, BlocksFacts DEF NInv, Allocated, Holder
    <3>3. QED
      BY <1>3, <1>4, <2>3, <3>2 DEF EnvIds
  <2>4. QED
    BY <2>2, <2>3
<1>9. Unshared'
  <2>1. SUFFICES ASSUME NEW p \in Blocks, NEW q \in Blocks,
                        Holder(p)', Holder(q)', p # q
                 PROVE  lastEnv'[p] # lastEnv'[q]
    BY <1>2 DEF Unshared, Blocks
  <2>2. CASE p = bi
    <3>1. Holding(q)' /\ q # bi
      BY <1>6, <2>1, <2>2
    <3>2. QED
      BY <1>4, <2>2, <3>1
  <2>3. CASE q = bi
    <3>1. Holding(p)' /\ p # bi
      BY <1>6, <2>1, <2>3
    <3>2. QED
      BY <1>4, <2>3, <3>1
  <2>4. CASE p # bi /\ q # bi
    <3>1. Holding(p) /\ Holding(q)
      BY <1>5, <1>6, <2>1, <2>4
    <3>2. QED
      BY <1>4, <2>1, <2>4, <3>1 DEF NInv, Unshared, Holder
  <2>5. QED
    BY <2>2, <2>3, <2>4
<1>10. QED
  BY <1>1, <1>7, <1>8, <1>9 DEF NInv

\* DoBasicBlock keeps NInv whichever way it gives bi its environment:
\* the entry block gets a fresh object, a copy goes to envNext, above
\* every object in use, and a shared object is released by pp, which no
\* holder shares (Unshared).
LEMMA EnterNInv ==
  ASSUME NInv, EnterBlock
  PROVE  NInv'
<1>1. IInv /\ bi \in BlockIds /\ GraphOK(g)
  BY IInvFacts DEF NInv
<1>2. /\ g.nblocks \in Nat /\ Blocks \subseteq BlockIds
      /\ envs \in [EnvIds -> EnvContents]
      /\ lastEnv \in [BlockIds -> EnvIds \cup {NoEnv}]
      /\ envNext \in 2 .. MaxEnvs + 1
  BY <1>1, BlocksFacts DEF IInv, TypeOK
<1>3. \A p \in Blocks : Holding(p)' => Holding(p) /\ p # bi
  BY <1>1, EnterHolding
<1>4. \A p \in Blocks : Holding(p) => lastEnv[p] \in EnvIds /\ lastEnv[p] < envNext
  BY <1>1, BlocksFacts DEF NInv, Allocated, Holder
<1>5. CASE StartEnv(bi)
  <2>1. bi = 0 /\ lastEnv'[bi] = 1 /\ envNext' = envNext
    BY <1>1, <1>2, <1>5 DEF StartEnv, BlockIds
  <2>2. \A p \in Blocks : ~Holding(p)'
    BY <1>2, <1>3, <2>1 DEF Holding, BlockIds
  <2>3. QED
    BY <1>2, <2>1, <2>2, EnterNInvFrom
<1>6. CASE SinglePredEnv(bi)
  <2> DEFINE pp == g.preds[bi][1]
  <2>1. bi # 0 /\ Len(g.preds[bi]) = 1
    BY <1>6 DEF SinglePredEnv
  <2>2. pp \in Blocks /\ Holding(pp) /\ lastEnv[pp] \in EnvIds /\ lastEnv[pp] < envNext
    BY <2>1, PredHolding
  <2>3. CASE NeedsCopy(pp, bi)
    <3>1. /\ envs' = [envs EXCEPT ![envNext] = envs[lastEnv[pp]]]
          /\ lastEnv'[bi] = envNext /\ envNext' = envNext + 1
      BY <1>1, <1>2, <1>6, <2>3 DEF SinglePredEnv
    <3>2. \A p \in Blocks : Holding(p)' =>
              /\ envs'[lastEnv[p]] = envs[lastEnv[p]]
              /\ lastEnv[p] # lastEnv'[bi]
      BY <1>2, <1>3, <1>4, <3>1 DEF EnvIds
    <3>3. QED
      BY <1>2, <3>1, <3>2, EnterNInvFrom
  <2>4. CASE ~NeedsCopy(pp, bi)
    <3>1. envs' = envs /\ lastEnv'[bi] = lastEnv[pp] /\ envNext' = envNext
      BY <1>1, <1>2, <1>6, <2>4 DEF SinglePredEnv
    <3>2. \A p \in Blocks : p = pp => ~Holding(p)'
      BY <1>1, <2>1, <2>4, SharedPredReleased
    <3>3. \A p \in Blocks : Holding(p)' => lastEnv[p] # lastEnv[pp]
      BY <1>3, <2>2, <3>2 DEF NInv, Unshared, Holder
    <3>4. QED
      BY <1>2, <2>2, <3>1, <3>3, EnterNInvFrom
  <2>5. QED
    BY <2>3, <2>4
<1>7. CASE JoinEnv(bi)
  <2> DEFINE pp == g.preds[bi][1]
  <2>1. bi # 0 /\ Len(g.preds[bi]) > 1
    BY <1>7 DEF JoinEnv
  <2>2. pp \in Blocks /\ Holding(pp) /\ lastEnv[pp] \in EnvIds /\ lastEnv[pp] < envNext
    <3>1. Len(g.preds[bi]) >= 1
      BY <2>1
    <3>2. QED
      BY <2>1, <3>1, PredHolding
  <2>3. /\ \E c : envs' = [envs EXCEPT ![lastEnv[pp]] = c]
        /\ lastEnv'[bi] = lastEnv[pp] /\ envNext' = envNext
    BY <1>1, <1>2, <1>7 DEF JoinEnv
  <2>4. \A p \in Blocks : p = pp => ~Holding(p)'
    BY <1>1, <2>1, SharedPredReleased
  <2>5. \A p \in Blocks : Holding(p)' =>
            /\ envs'[lastEnv[p]] = envs[lastEnv[p]]
            /\ lastEnv[p] # lastEnv'[bi]
    <3>1. \A p \in Blocks : Holding(p)' => lastEnv[p] # lastEnv[pp]
      BY <1>3, <2>2, <2>4 DEF NInv, Unshared, Holder
    <3>2. QED
      BY <1>2, <1>4, <1>3, <2>3, <3>1
  <2>6. QED
    BY <1>2, <2>2, <2>3, <2>5, EnterNInvFrom
<1>8. QED
  BY <1>5, <1>6, <1>7 DEF EnterBlock

-----------------------------------------------------------------------------
(* The whole of Build.                                                     *)

\* Every step of Build keeps NInv.
LEMMA NextNInv ==
  ASSUME NInv, [Next]_vars
  PROVE  NInv'
<1>1. IInv /\ IInv'
  BY NextIInv DEF NInv
<1>2. CASE EnterBlock
  BY <1>2, EnterNInv
<1>3. CASE SkipEmitAtUses
  <2>1. phase = "body" /\ EnvsKept
    BY <1>3 DEF SkipEmitAtUses, Skip, Advance, EnvsKept
  <2>2. QED
    BY <1>1, <2>1, KeptNInv
<1>4. CASE Visit
  <2>1. phase = "body" /\ EnvsKept
    BY <1>1, <1>4, VisitEnvs DEF Visit
  <2>2. QED
    BY <1>1, <2>1, KeptNInv
<1>5. CASE FinishBlock
  BY <1>1, <1>5, FinishNInv
<1>6. CASE UNCHANGED vars
  BY <1>6 DEF vars, NInv, IInv, TypeOK, Preserved, Allocated, Unshared,
     Holder, Holding, Readers, Entered, Blocks
<1>7. QED
  BY <1>2, <1>3, <1>4, <1>5, <1>6 DEF Next

\* A finished block with a reader still to come is a holding block.
LEMMA NInvNoClobber ==
  ASSUME NInv
  PROVE  EnvNoClobber
BY DEF NInv, Preserved, Holding, EnvNoClobber

\* EnvNoClobber for every graph the frontend may hand over: when a block
\* not yet entered will start from a finished block p's environment
\* (DoBasicBlock taking lastEnv[p], copied or shared), that object still
\* holds what p finished with, whatever DoSimulate has written since into
\* the objects of the blocks in between.
THEOREM EnvNoClobberHolds == Spec => []EnvNoClobber
<1>1. Init => NInv
  BY InitNInv
<1>2. NInv /\ [Next]_vars => NInv'
  BY NextNInv
<1>3. NInv => EnvNoClobber
  BY NInvNoClobber
<1>4. QED
  BY <1>1, <1>2, <1>3, PTL DEF Spec

=============================================================================
