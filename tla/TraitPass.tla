----------------------------- MODULE TraitPass -----------------------------
(***************************************************************************)
(* The trait pass (TraitAnalysisVisitor, Trait.cpp): how branches check a  *)
(* value and where it comes from, how stores set memory, and which settings *)
(* rule out the way on that a branch is to take.                           *)
(*                                                                         *)
(* The caches of a branch's and a store's pattern are left out: a pattern  *)
(* depends on the instruction alone.                                       *)
(***************************************************************************)
EXTENDS Program

VARIABLES
  tsets,       \* AliasObject::tsets: object, TraitSet, location
  traitChecks  \* location, where the value is from, TraitCheck

traitVars == <<tsets, traitChecks>>
TraitInit == tsets = {} /\ traitChecks = {}

ToInt(n) == Signed(n, IntBits)

----------------------------------------------------------------------------
(* getTCPattern: whether a comparison is signed is not kept.               *)
getTCPattern(pred, reverse) ==
  CASE pred \in {"eq", "ne"} -> pred
    [] pred \in {"sgt", "ugt"} -> IF reverse THEN "lt" ELSE "gt"
    [] pred \in {"sge", "uge"} -> IF reverse THEN "le" ELSE "ge"
    [] pred \in {"slt", "ult"} -> IF reverse THEN "gt" ELSE "lt"
    [] pred \in {"sle", "ule"} -> IF reverse THEN "ge" ELSE "le"

Passes(pat, a, b) ==
  CASE pat = "eq" -> a = b [] pat = "ne" -> a # b
    [] pat = "gt" -> a > b [] pat = "ge" -> a >= b
    [] pat = "lt" -> a < b [] pat = "le" -> a <= b

(* Types of checks: against a constant, against one with some bits only,   *)
(* and switches.                                                           *)
ConstCheck(pat, n) == [ty |-> "const", pat |-> pat, n |-> ToInt(n)]
MaskCheck(pat, n, mask, w) == [ty |-> "mask", pat |-> pat, n |-> ToInt(n), mask |-> Unsigned(mask, w), width |-> w]
SwitchCheck(cases) == [ty |-> "switch", cset |-> cases]

(* getZ3Expr4Branch: the values with which way dst is taken; of a switch   *)
(* the cases are numbered from 0 and the default comes last.  A check of   *)
(* some bits has none.                                                     *)
Encodable(tc, dst) ==
  \/ tc.ty = "const" /\ dst <= 1
  \/ tc.ty = "switch" /\ dst <= Len(tc.cset)
getZ3Expr4Branch(tc, dst) ==
  IF tc.ty = "const" THEN {w \in Word : Passes(tc.pat, w, tc.n) = (dst = 0)}
  ELSE IF dst < Len(tc.cset) THEN {tc.cset[dst + 1]} \cap Word
  ELSE Word \ ToSet(tc.cset)

----------------------------------------------------------------------------
(* What a store does: sets a constant, or adjusts what was there.          *)
ConstSet(n) == [pat |-> "const", n |-> ToInt(n), op |-> "none"]
Adjust(n, op) == [pat |-> "adj", n |-> ToInt(n), op |-> op]

(* isContMasked: where the only run of ones starts and how long it is.  No *)
(* ones: the start is beyond every width.                                  *)
Ones(mask, w) == {k \in 0..(w - 1) : Bit(mask, k) = 1}
Contiguous(S) == \A x, y \in S : x..y \subseteq S
First1(S) == CHOOSE x \in S : \A y \in S : x <= y

RangeOf(n, st, len) == (n \div 2^st) % 2^len

(* Mutant: one of the bits is enough.                                      *)
DecidesSome(ts, st, len) ==
  LET n == RangeOf(ts.n, st, len)
  IN CASE ts.pat = "const" -> TRUE
       [] ts.op = "and" -> n + 1 # 2^len
       [] ts.op = "or" -> n # 0
       [] OTHER -> FALSE

(* writeBitRange: what the bits st.. are after the store, if it decides    *)
(* all of them.                                                            *)
Decides(ts, st, len) ==
  LET n == RangeOf(ts.n, st, len)
  IN CASE ts.pat = "const" -> TRUE
       [] ts.op = "and" -> n = 0
       [] ts.op = "or" -> n + 1 = 2^len
       [] OTHER -> FALSE

constantCheckFail(pat, ns, nc, true_br) == Passes(pat, ns, nc) # true_br

(* kill: after this store way dst is not taken.                            *)
kill(ts, tc, dst) ==
  CASE tc.ty = "const" -> ts.pat = "const" /\ constantCheckFail(tc.pat, ts.n, tc.n, dst = 0)
    [] tc.ty = "switch" ->
         /\ ts.pat = "const"
         /\ dst # (IF ts.n \in ToSet(tc.cset) THEN (CHOOSE k \in DOMAIN tc.cset : tc.cset[k] = ts.n) - 1
                   ELSE Len(tc.cset))
    [] tc.ty = "mask" ->
         LET S == Ones(tc.mask, tc.width)
             st == First1(S)
         IN /\ S # {} /\ Contiguous(S)
            /\ Decides(ts, st, Cardinality(S))
            /\ constantCheckFail(tc.pat, ToInt(RangeOf(ts.n, st, Cardinality(S)) * 2^st), tc.n, dst = 0)

----------------------------------------------------------------------------
(* getStorePattern: none for what is not made of constants and the value   *)
(* that was there.                                                         *)
getStorePattern(i) ==
  LET o == strip(At(i).val)
  IN IF isConstant(o) THEN {ConstSet(o.n)}
     ELSE IF ~isSelfStore(i) THEN {}
     ELSE IF IsDefinedBy(o.v, "bin") /\ At(DefOf[o.v]).bop \in {"and", "or"}
     THEN LET d == At(DefOf[o.v]) IN {Adjust(Unsigned(d.n, d.width), d.bop)}
     ELSE {Adjust(0, "none")}

(* The bitmask in a check, and what it is taken of.                        *)
IsMasked(o) == ~isConstant(o) /\ IsDefinedBy(o.v, "bin") /\ At(DefOf[o.v]).bop = "and"
getBrChkPattern(i) ==
  LET l == strip(At(i).lhs)
      r == strip(At(i).rhs)
      v == IF isConstant(l) THEN r ELSE l
      c == IF isConstant(l) THEN l ELSE r
      pat == getTCPattern(At(i).pred, isConstant(l))
  IN IF isConstant(l) = isConstant(r) THEN {}
     ELSE IF IsMasked(v)
     THEN LET d == At(DefOf[v.v]) IN {<<MaskCheck(pat, c.n, d.n, d.width), strip(d.src)>>}
     ELSE {<<ConstCheck(pat, c.n), v>>}

(* traceCondOrigin: objects, a call or a phi.                              *)
traceCondOrigin(val) ==
  LET o == strip(val)
      i == DefOf[o.v]
  IN IF isConstant(o) \/ o.v \notin Variables THEN {}
     ELSE CASE At(i).op = "load" -> {[k |-> "obj", o |-> p] : p \in Pointee[At(i).ptr]}
            [] At(i).op = "call" -> {[k |-> "ret", i |-> i]}
            [] At(i).op = "phi" -> {[k |-> "phi", i |-> i]}
            [] OTHER -> {}

(* addTraitCheck                                                           *)
Checked(loc, o, tc) == {[loc |-> loc, from |-> f, tc |-> tc] : f \in traceCondOrigin(o)}

checkBranch(ctx, i) ==
  /\ traitChecks' = traitChecks \cup UNION {Checked(Loc(i, ctx), c[2], c[1]) : c \in getBrChkPattern(i)}
  /\ UNCHANGED tsets
checkSwitch(ctx, i) ==
  /\ traitChecks' = traitChecks \cup Checked(Loc(i, ctx), At(i).on, SwitchCheck(At(i).cases))
  /\ UNCHANGED tsets

(* addTraitSet, to all that the pointer may point to.                      *)
visitStoreInst(ctx, i) ==
  /\ At(i).op = "store"
  /\ tsets' = tsets \cup
       {[obj |-> o, ts |-> t, loc |-> Loc(i, ctx)] : o \in Pointee[At(i).ptr], t \in getStorePattern(i)}
  /\ UNCHANGED traitChecks

----------------------------------------------------------------------------
(* getCondKillerLocsObj: killing stores to the objects or their equals.    *)
getEqvObjs(o) == {p \in DOMAIN Home : Home[p] = Home[o]}
getKillerTraitSetLocs(tc, dst, o) == {t.loc : t \in {s \in tsets : s.obj = o /\ kill(s.ts, tc, dst)}}
getCondKillerLocsObj(cloc, dst) ==
  UNION {UNION {getKillerTraitSetLocs(c.tc, dst, o) : o \in getEqvObjs(c.from.o)} :
           c \in {d \in traitChecks : d.loc = cloc /\ d.from.k = "obj"}}
=============================================================================
