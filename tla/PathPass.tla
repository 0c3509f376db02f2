----------------------------- MODULE PathPass -----------------------------
(***************************************************************************)
(* The path pass (PathAnalysisVisitor, Constraint): what the branches of a *)
(* function say about its variables, in a block or on an edge, and which   *)
(* blocks no run can come to.                                              *)
(*                                                                         *)
(* A solver's formula is about one variable, and others that it equals: it *)
(* is modelled as the words that satisfy it.  A Constraint is identified   *)
(* by its context and variable; the null context stands for all.           *)
(***************************************************************************)
EXTENDS Program

VARIABLES
  constraintInformation,  \* <<context, variable>> -> Constraint
  brConstraints,          \* branches seen: the variable they constrain, if any
  deadBBs                 \* pairs of a context and a block

pathVars == <<constraintInformation, brConstraints, deadBBs>>

AnyCtx == <<>>
NoVar == [n |-> 0]   \* the null pointer in brConstraints

NewConstraint ==
  [cons |-> <<>>, edge |-> <<>>, deadBBs |-> {}, merged |-> {}]   \* maps and sets, empty

PathInit == constraintInformation = <<>> /\ brConstraints = <<>> /\ deadBBs = {}

isDeadBB(ctx, b) == <<ctx, b>> \in deadBBs \/ <<AnyCtx, b>> \in deadBBs

----------------------------------------------------------------------------
(* Constraint                                                              *)
hasConstraint(c, b) == b \in DOMAIN c.cons
Conjoined(old, new) ==
  [x \in DOMAIN old \cup DOMAIN new |->
     CASE x \notin DOMAIN new -> old[x] [] x \notin DOMAIN old -> new[x] [] OTHER -> old[x] \cap new[x]]

(* addConstraint in several blocks; no caller asks for a first constraint  *)
(* to be solved.                                                           *)
Added(c, new) ==
  LET live == [b \in DOMAIN new \ c.deadBBs |-> new[b]]
      cons == Conjoined(c.cons, live)
  IN [c EXCEPT !.cons = cons,
               !.deadBBs = @ \cup {b \in DOMAIN live \cap DOMAIN c.cons : cons[b] = {}}]
addConstraint2BBs(c, S, bbs) == Added(c, [b \in bbs |-> S])

(* An edge is a pair of blocks.                                            *)
AddedEdges(c, new) ==
  LET live == [e \in {x \in DOMAIN new : {x[1], x[2]} \cap c.deadBBs = {}} |-> new[e]]
  IN [c EXCEPT !.edge = Conjoined(@, live)]
addEdgeConstraint(c, S, b0, b1) == AddedEdges(c, <<b0, b1>> :> S)

(* Each Constraint is merged once, as it is then.                          *)
Merged(c, other, key) ==
  IF key \in c.merged THEN c
  ELSE [AddedEdges(Added(c, other.cons), other.edge) EXCEPT !.merged = @ \cup {key}]

getEqvExpr(vs) == Word \cap vs
getNeqvExpr(vs) == Word \ vs
getExpr(pred, n) == {w \in Word : Holds(pred, w, n)}

----------------------------------------------------------------------------
(* GlobalState: constraints of a context, or of all if it has none         *)
Has(ctx, v) == <<ctx, v>> \in DOMAIN constraintInformation
getConstraints(ctx, v) == IF Has(ctx, v) THEN constraintInformation[<<ctx, v>>] ELSE NewConstraint
hasAvailable(ctx, v) == Has(ctx, v) \/ Has(AnyCtx, v)
getAvailableConstraints(ctx, v) ==
  constraintInformation[IF Has(ctx, v) THEN <<ctx, v>> ELSE <<AnyCtx, v>>]
setConstraints(key, c) == constraintInformation' = (key :> c) @@ constraintInformation
updateDeadBBs(new) == deadBBs' = deadBBs \cup new
InCtx(ctx, bbs) == {ctx} \X bbs

(* The end of the handlers of branches and switches: c0, of all contexts,  *)
(* is kept and joined with what is known in this one.                      *)
Combine(ctx, v, c0, free) ==
  LET own == Merged(getConstraints(ctx, v), c0, <<AnyCtx, v>>)
  IN IF Has(ctx, v)
     THEN /\ constraintInformation' =
               (<<ctx, v>> :> own) @@ (<<AnyCtx, v>> :> c0) @@ constraintInformation
          /\ updateDeadBBs(InCtx(AnyCtx, free) \cup InCtx(ctx, own.deadBBs))
     ELSE setConstraints(<<AnyCtx, v>>, c0) /\ updateDeadBBs(InCtx(AnyCtx, free))

----------------------------------------------------------------------------
(* Branches: "V op C", or V alone, which is compared with 0.  With the     *)
(* constant on the left the code takes the inverse predicate.              *)
Covered(b) == {e[1] : e \in getCondCoverMap(b)}

Simple(t) == isConstant(t.lhs) # isConstant(t.rhs)
Compared(t) ==
  IF isConstant(t.rhs) THEN [v |-> t.lhs.v, pred |-> t.pred, n |-> t.rhs.n]
  ELSE [v |-> t.rhs.v, pred |-> getInversePredicate(t.pred), n |-> t.lhs.n]

(* Mutant: also if there are other ways to the successor.                  *)
PostAnyway(c, S, b, to) == addConstraint2BBs(c, S, getDominatees(to))

(* Where it is said: in what a successor dominates, if it is only come to  *)
(* by this branch, else on the edge.                                       *)
Post(c, S, b, to) ==
  IF to \in Covered(b) THEN addConstraint2BBs(c, S, getDominatees(to)) ELSE addEdgeConstraint(c, S, b, to)

visitBranchInst_ctx_free(i) ==
  LET t == Compared(At(i))
      b == getParent(i)
      c == Post(getConstraints(AnyCtx, t.v), getExpr(t.pred, t.n), b, succ[b][1])
  IN Post(c, getExpr(getInversePredicate(t.pred), t.n), b, succ[b][2])

visitBranchInst(ctx, i) ==
  /\ At(i).op = "br"
  /\ brConstraints' = (i :> (IF Simple(At(i)) THEN Var(Compared(At(i)).v) ELSE NoVar)) @@ brConstraints
  /\ IF ~Simple(At(i)) THEN UNCHANGED <<constraintInformation, deadBBs>>
     ELSE LET v == Compared(At(i)).v
          IN \E c0 \in {IF i \in DOMAIN brConstraints THEN getConstraints(AnyCtx, v)
                        ELSE visitBranchInst_ctx_free(i)} :
               Combine(ctx, v, c0, c0.deadBBs)

----------------------------------------------------------------------------
(* Switches: not if the variable has constraints of all contexts already.  *)
CaseValues(i, s) ==
  {At(i).cases[k] : k \in {n \in DOMAIN At(i).cases : succ[getParent(i)][n + 1] = s}}
CaseBlocks(i) == {succ[getParent(i)][k + 1] : k \in DOMAIN At(i).cases}

(* The values with which the way goes to s, at once or through others.     *)
Reaching(b, s) == IF s \in Covered(b) THEN (CHOOSE e \in getCondCoverMap(b) : e[1] = s)[2] ELSE {s}
CaseSet(i, s) ==
  getEqvExpr(UNION {CaseValues(i, o) : o \in Reaching(getParent(i), s)})
DefaultSet(i) ==
  LET s == succ[getParent(i)][1]
      others == Reaching(getParent(i), s) \ {s}
      cns == ToSet(At(i).cases) \ UNION {CaseValues(i, o) : o \in others}
  IN getNeqvExpr(cns)

visitSwitchInst_ctx_free(i) ==
  LET b == getParent(i)
      covered == CaseBlocks(i) \cap Covered(b)
      inBlocks == [d \in UNION {getDominatees(s) : s \in covered} |->
                     CaseSet(i, CHOOSE s \in covered : d \in getDominatees(s))]
      onEdges == [e \in {b} \X (CaseBlocks(i) \ covered) |-> CaseSet(i, e[2])]
      c == AddedEdges(Added(getConstraints(AnyCtx, At(i).on.v), inBlocks), onEdges)
  IN Post(c, DefaultSet(i), b, succ[b][1])

visitSwitchInst(ctx, i) ==
  LET v == At(i).on.v
  IN /\ At(i).op = "switch"
     /\ UNCHANGED brConstraints
     /\ IF Has(AnyCtx, v) THEN Combine(ctx, v, getConstraints(AnyCtx, v), {})
        ELSE \E c0 \in {visitSwitchInst_ctx_free(i)} : Combine(ctx, v, c0, c0.deadBBs)

----------------------------------------------------------------------------
(* Phis: the values that come in, in order, up to the first that ends it.  *)
Incoming(i) == At(i).in
InValue(i, k) == Incoming(i)[k][1]
InBlock(i, k) == Incoming(i)[k][2]
any_imm(i) == \E k \in DOMAIN Incoming(i) : isConstant(InValue(i, k))
any_ctx_var(ctx, i) ==
  \E k \in DOMAIN Incoming(i) : ~isConstant(InValue(i, k)) /\ Has(ctx, InValue(i, k).v)

(* What is known of a value on the edge, or else in the block it is from.  *)
Known(ctx, i, k) ==
  LET c == getAvailableConstraints(ctx, InValue(i, k).v)
      e == <<InBlock(i, k), getParent(i)>>
  IN IF e \in DOMAIN c.edge THEN {c.edge[e]}
     ELSE IF hasConstraint(c, e[1]) THEN {c.cons[e[1]]} ELSE {}

(* A set of words is what the value may be; none: nothing is known.  Wild: *)
(* it may be anything, as numbers come in as well.                         *)
Wild(ctx, i, k) ==
  ~isConstant(InValue(i, k)) /\ ~hasAvailable(ctx, InValue(i, k).v) /\ any_imm(i)
Contribution(ctx, i, k) ==
  IF isConstant(InValue(i, k)) THEN {getEqvExpr({InValue(i, k).n})}
  ELSE IF hasAvailable(ctx, InValue(i, k).v) THEN Known(ctx, i, k) ELSE {}

PhiExpr(ctx, i) ==
  LET ends == {k \in DOMAIN Incoming(i) : Wild(ctx, i, k) \/ Contribution(ctx, i, k) = {}}
      first == CHOOSE k \in ends : \A n \in ends : k <= n
  IN CASE ends = {} -> {UNION UNION {Contribution(ctx, i, k) : k \in DOMAIN Incoming(i)}}
       [] ends # {} /\ Wild(ctx, i, first) -> {Word}
       [] OTHER -> {}

PhiKey(ctx, i) == IF any_ctx_var(ctx, i) THEN <<ctx, At(i).def>> ELSE <<AnyCtx, At(i).def>>
PhiDone(ctx, i) == Has(ctx, At(i).def) \/ (~any_ctx_var(ctx, i) /\ Has(AnyCtx, At(i).def))

visitPHINode(ctx, i) ==
  LET v == At(i).def
      key == PhiKey(ctx, i)
  IN /\ At(i).op = "phi"
     /\ UNCHANGED <<brConstraints, deadBBs>>
     /\ \E me \in {IF PhiDone(ctx, i) THEN {} ELSE PhiExpr(ctx, i)} :
          IF me = {} THEN UNCHANGED constraintInformation
          ELSE \E S \in me :
                 setConstraints(key, addConstraint2BBs(getConstraints(key[1], v), S, getDominatees(getParent(i))))

(* Casts: the value is taken to stay the same.                             *)
Propagated(i, cs) ==
  IF hasConstraint(cs, getParent(i))
  THEN addConstraint2BBs(NewConstraint, cs.cons[getParent(i)], getDominatees(getParent(i)))
  ELSE NewConstraint

visitCastInst(ctx, i) ==
  LET o == At(i).src
      d == At(i).def
      from == CASE Has(ctx, o.v) -> {ctx} [] Has(AnyCtx, o.v) /\ ~Has(AnyCtx, d) -> {AnyCtx} [] OTHER -> {}
  IN /\ At(i).op = "cast"
     /\ UNCHANGED <<brConstraints, deadBBs>>
     /\ IF isConstant(o) \/ Has(ctx, d) \/ from = {} THEN UNCHANGED constraintInformation
        ELSE \E c \in from : setConstraints(<<c, d>>, Propagated(i, getConstraints(c, o.v)))

----------------------------------------------------------------------------
(* Calls: what is known of an argument holds in all of the callee.         *)
BlocksOf(f) == {b \in Block : host[b] = f}
ArgSource(ctx, o) == IF hasAvailable(ctx, o.v) THEN o ELSE stripPointerCasts(o)

(* Mutant: what is known of it anywhere in the caller.                     *)
ArgExprAnywhere(ctx, b, o) ==
  IF isConstant(o) THEN {getEqvExpr({o.n})}
  ELSE LET c == getAvailableConstraints(ctx, ArgSource(ctx, o).v)
       IN IF ~isConstant(ArgSource(ctx, o)) /\ hasAvailable(ctx, ArgSource(ctx, o).v) /\ c.cons # <<>>
          THEN {c.cons[CHOOSE d \in DOMAIN c.cons : TRUE]} ELSE {}

ArgExpr(ctx, b, o) ==
  IF isConstant(o) THEN {getEqvExpr({o.n})}
  ELSE LET s == ArgSource(ctx, o)
           c == getAvailableConstraints(ctx, s.v)
       IN IF ~isConstant(s) /\ hasAvailable(ctx, s.v) /\ hasConstraint(c, b) THEN {c.cons[b]} ELSE {}

visitCallInst(ctx, i, f) ==
  LET formal == {n \in DOMAIN params[f] : n \in DOMAIN At(i).args
                                           /\ ArgExpr(ctx, getParent(i), At(i).args[n]) # {}}
      callee == CalleeCtx(ctx, i, f)
      S(n) == CHOOSE s \in ArgExpr(ctx, getParent(i), At(i).args[n]) : TRUE
      new == [k \in {<<callee, params[f][n]>> : n \in formal} |->
                addConstraint2BBs(NewConstraint, S(CHOOSE n \in formal : params[f][n] = k[2]), BlocksOf(f))]
  IN /\ UNCHANGED <<brConstraints, deadBBs>>
     /\ \E m \in {new} : constraintInformation' = m @@ constraintInformation
=============================================================================
