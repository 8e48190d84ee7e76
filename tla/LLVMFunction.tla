---------------------------- MODULE LLVMFunction ----------------------------
(***************************************************************************)
(* What the builder promises of the LLVM function it assembles (spec 4.2  *)
(* and 4.5): a list of LLVM blocks, each the block of exactly one HIR     *)
(* block, reached through the memo handle[b] (0 while b has none).        *)
(*                                                                         *)
(*  - a handle, once given, never changes (resolveBlock is idempotent);   *)
(*  - a new LLVM block starts empty and belongs to one HIR block;         *)
(*  - instructions are only ever appended to a block;                      *)
(*  - a block that ends in a terminator receives nothing more.            *)
(*                                                                         *)
(* One step of the builder may resolve several blocks and append several  *)
(* instructions (a compare-and-branch resolves both successors, then      *)
(* emits an icmp and a branch), so the one action Grow relates any two    *)
(* successive states of the function.                                      *)
(***************************************************************************)
EXTENDS Naturals, Sequences

CONSTANTS
  HBlocks,    \* the HIR blocks
  Instr,      \* the LLVM instructions
  Terminal    \* the instructions that end a block (br, condbr, ret)

VARIABLES
  handle,     \* handle[b]: index of b's LLVM block in code, 0 for none
  code        \* the function's LLVM blocks, each a sequence of Instr

vars == <<handle, code>>

\* t is s with zero or more instructions appended.
Extends(s, t) ==
  /\ Len(t) >= Len(s)
  /\ \A j \in 1 .. Len(s) : t[j] = s[j]

\* A block that ends in a terminator.
Sealed(c) == c # <<>> /\ c[Len(c)] \in Terminal

TypeOK ==
  /\ code \in Seq(Seq(Instr))
  /\ handle \in [HBlocks -> 0 .. Len(code)]

Init ==
  /\ handle = [b \in HBlocks |-> 0]
  /\ code = <<>>

\* The step from (h0, c0) to (h1, c1).  Handles already given are kept; a
\* fresh one names a new block.
HandlesStable(h0, c0, h1, c1) ==
  \A b \in HBlocks :
    /\ h0[b] # 0 => h1[b] = h0[b]
    /\ h0[b] = 0 => h1[b] \in {0} \cup (Len(c0) + 1 .. Len(c1))

\* Every new LLVM block is empty and is the block of exactly one HIR block.
FreshBlocksOwned(c0, h1, c1) ==
  \A k \in Len(c0) + 1 .. Len(c1) :
    /\ c1[k] = <<>>
    /\ \E b \in HBlocks : /\ h1[b] = k
                          /\ \A c \in HBlocks : h1[c] = k => c = b

\* Existing blocks only grow at their end, and a terminated one is frozen.
OnlyAppends(c0, c1) ==
  \A h \in 1 .. Len(c0) :
    /\ Extends(c0[h], c1[h])
    /\ Sealed(c0[h]) => c1[h] = c0[h]

Grow(h0, c0, h1, c1) ==
  /\ Len(c1) >= Len(c0)
  /\ HandlesStable(h0, c0, h1, c1)
  /\ FreshBlocksOwned(c0, h1, c1)
  /\ OnlyAppends(c0, c1)

Next == Grow(handle, code, handle', code')

Spec == Init /\ [][Next]_vars

=============================================================================
