-------------------------- MODULE MC_ChunkBuilder --------------------------
(***************************************************************************)
(* Hydrogen graphs of the shape the frontend hands to LLVMChunk::NewChunk *)
(* (blocks in reverse post order, critical edges split, loop headers with *)
(* the pre-header as first predecessor, constants emitted at their uses), *)
(* for the runs of ChunkBuilder.                                           *)
(***************************************************************************)
EXTENDS ChunkBuilder, TLC

\* An instruction with every field at its default; each graph overrides
\* the fields its instructions use.
I0 == [op |-> "Other", rep |-> "None", args |-> <<>>, eau |-> FALSE,
       dummy |-> FALSE, known |-> NoBlock, token |-> "LT", from |-> "None",
       to |-> "None", canOverflow |-> FALSE, smiObj |-> FALSE, index |-> 0,
       hasUses |-> FALSE, binds |-> <<>>, pcConst |-> TRUE]

Op(o) == [I0 EXCEPT !.op = o]
Param(k) == [I0 EXCEPT !.op = "Parameter", !.rep = "Tagged", !.index = k]
Goto(b) == [I0 EXCEPT !.op = "Goto", !.known = b]
Sim(f) == [I0 EXCEPT !.op = "Simulate", !.binds = f]
Arith(o, r, l, rr) == [I0 EXCEPT !.op = o, !.rep = r, !.args = <<l, rr>>]
Change(f, t, v) == [I0 EXCEPT !.op = "Change", !.from = f, !.to = t,
                                !.args = <<v>>]
Const(r) == [I0 EXCEPT !.op = "Constant", !.rep = r, !.eau = TRUE,
                       !.smiObj = TRUE]
Cmp(t, r, l, rr) == [I0 EXCEPT !.op = "CompareNumericAndBranch", !.token = t,
                               !.rep = r, !.args = <<l, rr>>]
Ret(v) == [I0 EXCEPT !.op = "Return", !.rep = "Tagged", !.args = <<v>>]

MCIds == 1 .. 30
MCSlots == 0 .. 2

\* A graph from per-block lists over the first n blocks; instructions not
\* listed are unused.
MkGraph(n, preds, succs, phis, code, ins, np) ==
  [nblocks   |-> n,
   preds     |-> [b \in BlockIds |-> IF b < n THEN preds[b + 1] ELSE <<>>],
   succs     |-> [b \in BlockIds |-> IF b < n THEN succs[b + 1] ELSE <<>>],
   phis      |-> [b \in BlockIds |-> IF b < n THEN phis[b + 1] ELSE <<>>],
   deleted   |-> [b \in BlockIds |-> <<>>],
   code      |-> [b \in BlockIds |-> IF b < n THEN code[b + 1] ELSE <<>>],
   ins       |-> [i \in MCIds |-> IF i \in DOMAIN ins THEN ins[i] ELSE I0],
   startEnv  |-> [s \in MCSlots |-> Undefined],
   numParams |-> np, isStub |-> FALSE, savesDoubles |-> FALSE]

\* The start block shared by the graphs: receiver and two parameters,
\* bound in the environment by a simulate, then a goto to block 1.
StartIns == 1 :> Op("BlockEntry") @@ 2 :> Param(0) @@ 3 :> Param(1)
            @@ 4 :> Param(2) @@ 5 :> Op("Context")
            @@ 6 :> Sim(0 :> 3 @@ 1 :> 4) @@ 7 :> Goto(1)
StartCode == <<1, 2, 3, 4, 5, 6, 7>>

\* if (a < b) x = a + b; else x = a - b * 2; return 1;  -- a diamond whose
\* arms both change slot 2 and whose join binds it to a phi.
Diamond ==
  MkGraph(5,
    <<<<>>, <<0>>, <<1>>, <<1>>, <<2, 3>>>>,
    <<<<1>>, <<2, 3>>, <<4>>, <<4>>, <<>>>>,
    <<<<>>, <<>>, <<>>, <<>>, 2 :> 21>>,
    <<StartCode, <<8, 9, 10, 11, 12>>, <<13, 14, 15, 16>>,
      <<17, 24, 26, 18, 19, 20>>, <<22, 23, 25, 27>>>>,
    StartIns @@ 8 :> Op("BlockEntry") @@ 9 :> Op("StackCheck")
      @@ 10 :> Change("Tagged", "Integer32", 3)
      @@ 11 :> Change("Tagged", "Integer32", 4)
      @@ 12 :> Cmp("LT", "Integer32", 10, 11)
      @@ 13 :> Op("BlockEntry") @@ 14 :> Arith("Add", "Integer32", 10, 11)
      @@ 15 :> Sim(2 :> 14) @@ 16 :> Goto(4)
      @@ 17 :> Op("BlockEntry") @@ 24 :> Const("Integer32")
      @@ 26 :> Arith("Add", "Integer32", 11, 24)
      @@ 18 :> Arith("Sub", "Integer32", 10, 26)
      @@ 19 :> Sim(2 :> 18) @@ 20 :> Goto(4)
      @@ 21 :> Op("Phi") @@ 22 :> Op("BlockEntry") @@ 23 :> Sim(2 :> 21)
      @@ 25 :> Const("Tagged") @@ 27 :> Ret(25),
    2)

\* A loop: slot 2 is carried by the header's phi, which appears only in
\* the environment (code that uses a phi is the PhiUse run); the body
\* copies the header's environment, the exit shares it.
Loop ==
  MkGraph(6,
    <<<<>>, <<0>>, <<1, 4>>, <<2>>, <<3>>, <<2>>>>,
    <<<<1>>, <<2>>, <<3, 5>>, <<4>>, <<2>>, <<>>>>,
    <<<<>>, <<>>, 2 :> 21, <<>>, <<>>, <<>>>>,
    <<StartCode, <<8, 9, 10, 11>>, <<12, 13, 14, 15>>, <<16, 24, 17, 18, 19>>,
      <<20, 22, 23>>, <<26, 28, 25, 27>>>>,
    StartIns @@ 8 :> Op("BlockEntry") @@ 9 :> Change("Tagged", "Integer32", 3)
      @@ 10 :> Sim(2 :> 9) @@ 11 :> Goto(2)
      @@ 12 :> Op("BlockEntry") @@ 13 :> Change("Tagged", "Integer32", 4)
      @@ 14 :> Sim(1 :> 13) @@ 15 :> Cmp("LT", "Integer32", 9, 13)
      @@ 16 :> Op("BlockEntry") @@ 24 :> Const("Integer32")
      @@ 17 :> Arith("Add", "Integer32", 9, 24) @@ 18 :> Sim(2 :> 17)
      @@ 19 :> Goto(4)
      @@ 20 :> Op("BlockEntry") @@ 22 :> Op("StackCheck") @@ 23 :> Goto(2)
      @@ 21 :> Op("Phi") @@ 26 :> Op("BlockEntry")
      @@ 28 :> Change("Integer32", "Tagged", 9) @@ 25 :> Sim(0 :> 28)
      @@ 27 :> Ret(28),
    2)

\* return a * b + 1 - a, with Smi arithmetic and a comparison of two
\* constants folded by KnownSuccessorBlock into a branch.  The constant 1
\* is not emitted at its uses (as in a graph compiled for on-stack
\* replacement) and is visited where it stands.
Folded ==
  MkGraph(4,
    <<<<>>, <<0>>, <<1>>, <<1>>>>,
    <<<<1>>, <<2, 3>>, <<>>, <<>>>>,
    <<<<>>, <<>>, <<>>, <<>>>>,
    <<StartCode, <<8, 9, 10, 11, 20, 12, 13, 14>>, <<15, 16, 17>>, <<18, 19>>>>,
    StartIns @@ 8 :> Op("BlockEntry")
      @@ 9 :> Change("Tagged", "Smi", 3) @@ 10 :> Change("Tagged", "Smi", 4)
      @@ 11 :> Arith("Mul", "Smi", 9, 10) @@ 20 :> [Const("Smi") EXCEPT !.eau = FALSE]
      @@ 12 :> Arith("Add", "Smi", 11, 20) @@ 13 :> Arith("Sub", "Smi", 12, 9)
      @@ 21 :> Const("Integer32") @@ 22 :> Const("Integer32")
      @@ 14 :> [Cmp("LT", "Integer32", 21, 22) EXCEPT !.known = 2]
      @@ 15 :> Op("BlockEntry") @@ 16 :> Change("Smi", "Tagged", 13)
      @@ 17 :> Ret(16) @@ 18 :> Op("BlockEntry") @@ 19 :> Ret(3),
    2)

\* Block 1 holds one instruction the builder has no handler for, after a
\* use of the first parameter.
Unsupported(ins) ==
  MkGraph(2, <<<<>>, <<0>>>>, <<<<1>>, <<>>>>, <<<<>>, <<>>>>,
          <<StartCode, <<8, 9, 10, 11>>>>,
          StartIns @@ 8 :> Op("BlockEntry")
            @@ 9 :> Change("Tagged", "Integer32", 3) @@ 10 :> ins
            @@ 11 :> Ret(3),
          2)

Typeof == Unsupported([Op("Other") EXCEPT !.args = <<3>>])
DummyUse == Unsupported([Arith("Add", "Integer32", 9, 9) EXCEPT !.dummy = TRUE])
DoubleConstant == Unsupported([Const("Double") EXCEPT !.eau = FALSE])

\* The graphs of the run that explores every handler.
BuildGraphs == {Diamond, Loop, Folded, Typeof, DummyUse, DoubleConstant}


\* return a * 2;  with a an Integer32: the constant 2 is emitted at its
\* uses and no instruction has used it before the multiplication.
MulConstant ==
  MkGraph(2, <<<<>>, <<0>>>>, <<<<1>>, <<>>>>, <<<<>>, <<>>>>,
          <<StartCode, <<8, 9, 20, 10, 11, 12>>>>,
          StartIns @@ 8 :> Op("BlockEntry")
            @@ 9 :> Change("Tagged", "Integer32", 3)
            @@ 20 :> Const("Integer32")
            @@ 10 :> Arith("Mul", "Integer32", 9, 20)
            @@ 11 :> Change("Integer32", "Tagged", 10) @@ 12 :> Ret(11),
          2)

\* return a < b ? a + b : a - b;  the join returns its phi.
PhiUse ==
  [Diamond EXCEPT
     !.code[4] = <<22, 23, 28, 27>>,
     !.ins = [@ EXCEPT ![28] = Change("Integer32", "Tagged", 21),
                       ![27] = Ret(28)]]


\* The graphs of the runs that look for one failure each.
MulConstantGraphs == {MulConstant}
PhiUseGraphs == {PhiUse}
TypeofGraphs == {Typeof}

=============================================================================
