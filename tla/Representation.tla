--------------------------- MODULE Representation ---------------------------
(***************************************************************************)
(* The data side of the handlers of llvm-chunk.cc: what the LLVM code the  *)
(* builder emits computes on machine words.  Every value is an i64         *)
(* (Build makes every parameter and the result Int64, DoConstant makes     *)
(* Int64 constants): an Integer32 value is the sign-extended integer, a   *)
(* Smi or tagged small integer is the integer shifted left by kSmiShift.  *)
(*                                                                         *)
(* The word width is a constant: x64 has WordBits = 64, SmiShift = 32 and *)
(* IntBits = 32 (SmiValuesAre32Bits); the runs use the same layout scaled *)
(* down (8, 4, 4), which keeps every relation between the three widths.  *)
(*                                                                         *)
(* One step applies one handler to two operands that are correctly        *)
(* encoded values of their representation and records the result.        *)
(***************************************************************************)
EXTENDS Integers

CONSTANTS
  WordBits,   \* width of the LLVM integer type every value has (Int64)
  SmiShift,   \* kSmiShift
  IntBits     \* width of an Integer32 value

ASSUME WidthAssumption ==
  /\ IntBits \in Nat \ {0}
  /\ SmiShift \in Nat
  /\ WordBits \in Nat
  /\ SmiShift + IntBits <= WordBits

Modulus == 2 ^ WordBits
\* The integers an Integer32 (or a Smi when Smis are 32 bits) can hold.
IntRange == -(2 ^ (IntBits - 1)) .. 2 ^ (IntBits - 1) - 1
\* The non-negative integers an Integer32 flagged kUint32 can hold.
UintRange == 0 .. 2 ^ IntBits - 1

\* A machine word as an unsigned number, and its two's-complement reading.
Word(x) == x % Modulus
Signed(w) == IF w >= 2 ^ (WordBits - 1) THEN w - Modulus ELSE w

\* The encoding of the integer m in representation r: the host's tagging
\* convention (kSmiTag = 0 in the low kSmiShift bits) for Smi and Tagged,
\* the sign-extended integer for Integer32.
Enc(r, m) == IF r = "Integer32" THEN Word(m) ELSE Word(m * 2 ^ SmiShift)

\* The integer a word of representation r stands for, as the rest of the
\* generated code (64-bit adds, signed 64-bit compares) reads it.
Dec(r, w) == IF r = "Integer32" THEN Signed(w)
             ELSE Signed(w) \div 2 ^ SmiShift

-----------------------------------------------------------------------------
(* The LLVM instructions the handlers create (IRBuilder Create...).       *)
CreateAdd(a, b) == Word(a + b)
\* A sub with its operands the wrong way round.
CreateSubSwapped(a, b) == Word(b - a)
CreateSub(a, b) == Word(a - b)
CreateMul(a, b) == Word(a * b)
CreateShl(a, k) == Word(a * 2 ^ k)
CreateLShr(a, k) == a \div 2 ^ k

\* SmiToInteger32, lines 182-192 (SmiValuesAre32Bits), and
\* Integer32ToSmi, lines 194-196.
SmiToInteger32(w) == CreateLShr(w, SmiShift)
Integer32ToSmi(w) == CreateShl(w, SmiShift)

\* TokenToPredicate, lines 198-228: the LLVM predicate for a relational
\* token; IN and INSTANCEOF reach UNREACHABLE() and have none.
RelTokens == {"EQ", "EQ_STRICT", "NE", "NE_STRICT", "LT", "GT", "LTE", "GTE"}
\* The mapping with the predicates of LT and GT exchanged.
TokenToPredicateSwapped(op, isUnsigned) ==
  CASE op \in {"EQ", "EQ_STRICT"} -> "ICMP_EQ"
    [] op \in {"NE", "NE_STRICT"} -> "ICMP_NE"
    [] op = "LT"  -> IF isUnsigned THEN "ICMP_UGT" ELSE "ICMP_SGT"
    [] op = "GT"  -> IF isUnsigned THEN "ICMP_ULT" ELSE "ICMP_SLT"
    [] op = "LTE" -> IF isUnsigned THEN "ICMP_ULE" ELSE "ICMP_SLE"
    [] op = "GTE" -> IF isUnsigned THEN "ICMP_UGE" ELSE "ICMP_SGE"
TokenToPredicate(op, isUnsigned) ==
  CASE op \in {"EQ", "EQ_STRICT"} -> "ICMP_EQ"
    [] op \in {"NE", "NE_STRICT"} -> "ICMP_NE"
    [] op = "LT"  -> IF isUnsigned THEN "ICMP_ULT" ELSE "ICMP_SLT"
    [] op = "GT"  -> IF isUnsigned THEN "ICMP_UGT" ELSE "ICMP_SGT"
    [] op = "LTE" -> IF isUnsigned THEN "ICMP_ULE" ELSE "ICMP_SLE"
    [] op = "GTE" -> IF isUnsigned THEN "ICMP_UGE" ELSE "ICMP_SGE"

\* What an icmp with predicate p computes on two words: signed predicates
\* read them in two's complement, unsigned ones as they are.
ICmp(p, a, b) ==
  LET sa == Signed(a)
      sb == Signed(b)
  IN  CASE p = "ICMP_EQ"  -> a = b
        [] p = "ICMP_NE"  -> a # b
        [] p = "ICMP_SLT" -> sa < sb
        [] p = "ICMP_SGT" -> sa > sb
        [] p = "ICMP_SLE" -> sa <= sb
        [] p = "ICMP_SGE" -> sa >= sb
        [] p = "ICMP_ULT" -> a < b
        [] p = "ICMP_UGT" -> a > b
        [] p = "ICMP_ULE" -> a <= b
        [] p = "ICMP_UGE" -> a >= b

\* The JavaScript relation a token stands for, on integers.
Holds(op, x, y) ==
  CASE op \in {"EQ", "EQ_STRICT"} -> x = y
    [] op \in {"NE", "NE_STRICT"} -> x # y
    [] op = "LT"  -> x < y
    [] op = "GT"  -> x > y
    [] op = "LTE" -> x <= y
    [] op = "GTE" -> x >= y

-----------------------------------------------------------------------------
(* One handler applied to two operands.                                    *)
VARIABLES
  l, r,     \* the operands: representation, integer, word, kUint32 flag
  op,       \* the handler that ran ("none" before the step)
  rep,      \* the representation of its result
  tok,      \* the comparison token
  res,      \* the word the emitted code computes
  taken     \* whether a compare-and-branch goes to its first successor

vars == <<l, r, op, rep, tok, res, taken>>

Operand(rp, m, u) == [rep |-> rp, m |-> m, w |-> Enc(rp, m), uint |-> u]
Operands ==
  {Operand(rp, m, FALSE) : rp \in {"Integer32", "Smi", "Tagged"}, m \in IntRange}
  \cup {Operand("Integer32", m, TRUE) : m \in UintRange}

ArithReps == {"Integer32", "Smi"}

Init ==
  /\ l \in Operands /\ r \in Operands
  /\ op = "none" /\ rep = "None" /\ tok = "EQ" /\ res = 0 /\ taken = FALSE

\* A result the frontend has shown not to overflow its representation.
NoOverflow(x) == x \in IntRange

Result(o, k, w) ==
  /\ op' = o /\ rep' = k /\ res' = w
  /\ UNCHANGED <<l, r, tok, taken>>

\* DoAdd (425-438), DoSub (904-919), DoMul (799-814): both operands of
\* the instruction's representation (the DCHECKs), one add, sub or mul
\* of their words.
DoAdd ==
  /\ op = "none" /\ l.rep \in ArithReps /\ r.rep = l.rep
  /\ ~l.uint /\ ~r.uint /\ NoOverflow(l.m + r.m)
  /\ Result("Add", l.rep, CreateAdd(l.w, r.w))

DoSub ==
  /\ op = "none" /\ l.rep \in ArithReps /\ r.rep = l.rep
  /\ ~l.uint /\ ~r.uint /\ NoOverflow(l.m - r.m)
  /\ Result("Sub", l.rep, CreateSub(l.w, r.w))

DoMul ==
  /\ op = "none" /\ l.rep \in ArithReps /\ r.rep = l.rep
  /\ ~l.uint /\ ~r.uint /\ NoOverflow(l.m * r.m)
  /\ Result("Mul", l.rep, CreateMul(l.w, r.w))

\* DoChange (508-556) of the operand l to representation `to`: the cases
\* that emit code or reuse the operand's value.  Smi to Integer32 goes the
\* Tagged way; Integer32 to Tagged requires that the change cannot
\* overflow (kCanOverflow clear), which always holds for 32-bit Smis.
ChangeWord(from, to, w) ==
  CASE from = "Smi" /\ to = "Tagged"        -> w
    [] from = "Tagged" /\ to = "Smi"        -> w
    [] from \in {"Smi", "Tagged"} /\ to = "Integer32" -> SmiToInteger32(w)
    [] from = "Integer32" /\ to = "Tagged"  -> Integer32ToSmi(w)

ChangePairs == {<<"Smi", "Tagged">>, <<"Tagged", "Smi">>,
                <<"Smi", "Integer32">>, <<"Tagged", "Integer32">>,
                <<"Integer32", "Tagged">>}

DoChange ==
  /\ op = "none" /\ ~l.uint
  /\ \E to \in {"Smi", "Tagged", "Integer32"} :
       /\ <<l.rep, to>> \in ChangePairs
       /\ Result("Change", to, ChangeWord(l.rep, to, l.w))

\* DoCompareNumericAndBranch (590-613) on Integer32 operands: unsigned
\* when either operand is flagged kUint32, and the frontend pairs a
\* kUint32 operand only with non-negative ones.
DoCompareNumericAndBranch ==
  /\ op = "none" /\ l.rep = "Integer32" /\ r.rep = "Integer32"
  /\ (l.uint \/ r.uint) => (l.m >= 0 /\ r.m >= 0)
  /\ \E t \in RelTokens :
       /\ tok' = t
       /\ taken' = ICmp(TokenToPredicate(t, l.uint \/ r.uint), l.w, r.w)
  /\ op' = "Compare" /\ rep' = "None"
  /\ UNCHANGED <<l, r, res>>

Next == DoAdd \/ DoSub \/ DoMul \/ DoChange \/ DoCompareNumericAndBranch

Spec == Init /\ [][Next]_vars

-----------------------------------------------------------------------------
(* Properties.                                                             *)

TypeOK ==
  /\ l \in Operands /\ r \in Operands
  /\ op \in {"none", "Add", "Sub", "Mul", "Change", "Compare"}
  /\ rep \in {"None", "Integer32", "Smi", "Tagged"}
  /\ tok \in RelTokens
  /\ res \in 0 .. Modulus - 1
  /\ taken \in BOOLEAN

\* The add and sub DoAdd and DoSub emit on whole words compute, for Smi
\* (tagged) and Integer32 operands alike, the word of the mathematical
\* result whenever that result fits the representation.
ArithFaithful ==
  op \in {"Add", "Sub"} =>
    Dec(rep, res) = IF op = "Add" THEN l.m + r.m ELSE l.m - r.m

\* The mul DoMul emits computes the word of the product when it fits.
MulFaithful == op = "Mul" => Dec(rep, res) = l.m * r.m

\* A representation change keeps the number: toNativeInteger(toTagged(x))
\* is x (spec section 8), and every change DoChange implements gives the
\* word that reads back as the operand's integer.
ChangeFaithful == op = "Change" => Dec(rep, res) = l.m

\* The branch DoCompareNumericAndBranch emits goes to the first successor
\* exactly when the JavaScript relation holds between the operands.
CompareFaithful == op = "Compare" => taken = Holds(tok, l.m, r.m)

=============================================================================
