------------------------------ MODULE Program ------------------------------
(***************************************************************************)
(* The programs that are analysed: LLVM functions as the passes read them, *)
(* and what LLVM says they do.  Every value is a signed word; constants    *)
(* and variables are as wide as a word.  A comparison is part of the       *)
(* branch that uses it, its one use here.                                  *)
(***************************************************************************)
EXTENDS Code

CONSTANTS
  Pointee,   \* the objects a pointer may point to, as the alias pass has it
  Home,      \* the memory an object stands for: equivalent objects share it
  LockPairs, \* a lock function and an unlock function each
  WordBits,  \* the width of values: 64 in the code's solver
  IntBits    \* the width of C++'s int: 32

ASSUME ProgramAssumption == WordBits \in Nat \ {0} /\ IntBits \in 1..WordBits

Signed(n, w) == LET u == n % 2^w IN IF u >= 2^(w - 1) THEN u - 2^w ELSE u
Unsigned(n, w) == n % 2^w
Word == -(2^(WordBits - 1))..(2^(WordBits - 1) - 1)

(* An operand is a variable or a constant.                                 *)
Const(n) == [n |-> n]
Var(v) == [v |-> v]
isConstant(o) == "n" \in DOMAIN o

Defines(i) == At(i).op \in {"phi", "cast", "bin", "load", "call"} /\ At(i).def # NoResult
Variables == {At(i).def : i \in {j \in Inst : Defines(j)}}

(* The instruction that defines a variable; formal arguments have none.    *)
DefOf == [v \in Variables |-> CHOOSE i \in Inst : Defines(i) /\ At(i).def = v]
IsDefinedBy(v, op) == v \in Variables /\ At(DefOf[v]).op = op

----------------------------------------------------------------------------
(* icmp                                                                    *)
Signedness == {"ugt", "uge", "ult", "ule"}
Holds(pred, a, b) ==
  LET x == IF pred \in Signedness THEN Unsigned(a, WordBits) ELSE a
      y == IF pred \in Signedness THEN Unsigned(b, WordBits) ELSE b
  IN CASE pred = "eq" -> x = y
       [] pred = "ne" -> x # y
       [] pred \in {"sgt", "ugt"} -> x > y
       [] pred \in {"sge", "uge"} -> x >= y
       [] pred \in {"slt", "ult"} -> x < y
       [] pred \in {"sle", "ule"} -> x <= y

(* of CmpInst                                                              *)
getInversePredicate(pred) ==
  [eq |-> "ne", ne |-> "eq", sgt |-> "sle", sle |-> "sgt", sge |-> "slt", slt |-> "sge",
   ugt |-> "ule", ule |-> "ugt", uge |-> "ult", ult |-> "uge"][pred]

(* and, or, add of an integer of so many bits                              *)
Bit(n, k) == (n \div 2^k) % 2
Bitwise2(a, b, w, f(_, _)) ==
  LET sum[k \in 0..w] == IF k = 0 THEN 0 ELSE sum[k - 1] + 2^(k - 1) * f(Bit(a, k - 1), Bit(b, k - 1))
  IN Signed(sum[w], w)
AndBit(x, y) == x * y
OrBit(x, y) == x + y - x * y
Compute(bop, a, b, w) ==
  CASE bop = "and" -> Bitwise2(a, b, w, AndBit)
    [] bop = "or"  -> Bitwise2(a, b, w, OrBit)
    [] bop = "add" -> Signed(a + b, w)

(* The successor a terminator takes when its operands have these values.   *)
Successor(i, val(_)) ==
  LET t == At(i)
  IN CASE t.op = "br" -> IF Holds(t.pred, val(t.lhs), val(t.rhs)) THEN 1 ELSE 2
       [] t.op = "switch" ->
            IF \E k \in DOMAIN t.cases : t.cases[k] = val(t.on)
            THEN 1 + CHOOSE k \in DOMAIN t.cases : t.cases[k] = val(t.on)
            ELSE 1
       [] t.op = "jump" -> 1

----------------------------------------------------------------------------
(* stripAllCasts                                                           *)
strip(o) ==
  LET to[n \in 0..Cardinality(Variables)] ==
        IF n = 0 THEN o
        ELSE LET p == to[n - 1]
             IN IF ~isConstant(p) /\ IsDefinedBy(p.v, "cast") THEN At(DefOf[p.v]).src ELSE p
  IN to[Cardinality(Variables)]

(* stripPointerCasts                                                       *)
PointerCast(o) == ~isConstant(o) /\ IsDefinedBy(o.v, "cast") /\ At(DefOf[o.v]).ptr
stripPointerCasts(o) == IF PointerCast(o) THEN At(DefOf[o.v]).src ELSE o

(* stripAllSoleTrans: back through what has one variable operand only.     *)
Operands(i) ==
  IF At(i).op = "phi" THEN {At(i).in[k][1] : k \in DOMAIN At(i).in} ELSE {At(i).src}
SoleOperand(o) ==
  IF isConstant(o) \/ o.v \notin Variables \/ At(DefOf[o.v]).op \notin {"phi", "cast", "bin"} THEN o
  ELSE LET vs == {p \in Operands(DefOf[o.v]) : ~isConstant(p)}
       IN IF Cardinality(vs) = 1 THEN CHOOSE p \in vs : TRUE ELSE o
stripAllSoleTrans(o) ==
  LET to[n \in 0..Cardinality(Variables)] == IF n = 0 THEN o ELSE SoleOperand(to[n - 1])
  IN to[Cardinality(Variables)]

(* isSelfStore: the value is made of what the pointer held.                *)
isSelfStore(i) ==
  LET o == stripAllSoleTrans(At(i).val)
  IN ~isConstant(o) /\ IsDefinedBy(o.v, "load") /\ At(DefOf[o.v]).ptr = At(i).ptr

(* getDominatees: the block itself, too.                                   *)
getDominatees(b) == {d \in Block : host[d] = host[b] /\ Dominates(b, d)}
=============================================================================
