------------------------------ MODULE Killers ------------------------------
(***************************************************************************)
(* getCondKillerLocs: the locations after which a branch cannot go the way *)
(* it is to go, with what the path and trait passes have found.            *)
(*                                                                         *)
(* A sequence of blocks leads to the block where the checked value is      *)
(* made, and kills if the value it makes there fails the check.            *)
(***************************************************************************)
EXTENDS PathPass, TraitPass

(* Whether the memory behind the end of a path happens to hold the rest of *)
(* a sequence that is compared with it: the comparison reads beyond it.    *)
VARIABLE stale

(* What is known of a value in a block of the context, if it has a use.    *)
Told(cctx, o, b) ==
  IF isConstant(o) THEN {{o.n} \cap Word}
  ELSE IF hasAvailable(cctx, o.v) /\ hasConstraint(getAvailableConstraints(cctx, o.v), b)
  THEN {getAvailableConstraints(cctx, o.v).cons[b]} \ {{}} ELSE {}

Kills(cctx, echk, o, b) == ~isDeadBB(cctx, b) /\ \E S \in Told(cctx, o, b) : S \cap echk = {}

(* The phi the value is from; one behind a cast has to be in this block.   *)
PhiOf(o, b) ==
  IF isConstant(o) THEN {}
  ELSE IF IsDefinedBy(o.v, "phi") THEN {DefOf[o.v]}
  ELSE LET s == strip(o)
       IN IF ~isConstant(s) /\ IsDefinedBy(s.v, "phi") /\ getParent(DefOf[s.v]) = b
          THEN {DefOf[s.v]} ELSE {}

(* From a value at the start of a sequence on to what comes into its phi.  *)
Extended(cctx, echk, s) ==
  LET b == s.seq[1]
      open == ~isDeadBB(cctx, b) /\ Told(cctx, s.val, b) # {} /\ ~Kills(cctx, echk, s.val, b)
  IN UNION {{[val |-> InValue(i, k), seq |-> <<InBlock(i, k)>> \o s.seq] :
               k \in {n \in DOMAIN Incoming(i) : InBlock(i, n) \notin ToSet(s.seq)}} :
              i \in IF open THEN PhiOf(s.val, b) ELSE {}}

_getKseqs(cctx, echk, openSeqs) ==
  LET open[n \in 0..Cardinality(Block)] ==
        IF n = 0 THEN openSeqs ELSE UNION {Extended(cctx, echk, s) : s \in open[n - 1]}
  IN IF echk = {} THEN {}
     ELSE {s.seq : s \in {t \in UNION {open[n] : n \in 0..Cardinality(Block)} :
                            Kills(cctx, echk, t.val, t.seq[1])}}

----------------------------------------------------------------------------
(* A path that starts with a killing sequence, or may seem to.             *)
Killed(cp, kseqs) == \E e \in kseqs : IsPrefix(e, cp) \/ (stale /\ IsPrefix(cp, e))
Within(cp, kseqs) == \E e \in kseqs : IsPrefix(cp, e)

(* Mutant: every way from cp has to leave the sequences.                   *)
EscapesAll(cp, kseqs) ==
  \A s \in ToSet(succ[Last(cp)]) \ ToSet(cp) :
    LET path == Append(cp, s) IN ~Killed(path, kseqs) /\ ~Within(path, kseqs)

(* _escapeKseq: a path goes on from cp to a return with no sequence.       *)
RECURSIVE _escapeKseq(_, _)
_escapeKseq(cp, kseqs) ==
  \E s \in ToSet(succ[Last(cp)]) \ ToSet(cp) :
    LET path == Append(cp, s)
    IN ~Killed(path, kseqs) /\ (Within(path, kseqs) => _escapeKseq(path, kseqs))

_getKlocsFromSeqs(cctx, kseqs) ==
  LET at(b) == {s \in kseqs : s[1] = b /\ Len(s) > 1}
      starts == {s[1] : s \in kseqs}
  IN {Loc(Terminator(b), cctx) :
        b \in {s \in starts : <<s>> \in kseqs \/ (at(s) # {} /\ ~_escapeKseq(<<s>>, at(s)))}}

----------------------------------------------------------------------------
(* _getKillerRets: in the callee, from the values it returns.  One that    *)
(* only returns what another one does is looked at in its stead.           *)
Returns(f) == {b \in getRetBBs(f) : At(Terminator(b)).val # {}}
Returned(b) == CHOOSE o \in At(Terminator(b)).val : TRUE

Wraps(cctx) ==
  LET vals == {Returned(b) : b \in Returns(getFunction(Last(cctx)))}
  IN {strip(o).v : o \in {p \in vals : /\ Cardinality(vals) = 1
                                       /\ isConstant(p) \/ ~hasAvailable(cctx, p.v)
                                       /\ ~isConstant(strip(p)) /\ IsDefinedBy(strip(p).v, "call")}}

(* getCalleeCtx: of the callees that have been analysed.                   *)
CalleeCtxs(cctx, i, contexts) ==
  {CalleeCtx(cctx, i, f) : f \in {g \in At(i).fn : hasBody(g)}} \cap contexts

RECURSIVE _getKillerRets(_, _, _)
_getKillerRets(cctx, echk, contexts) ==
  IF Wraps(cctx) # {}
  THEN UNION {UNION {_getKillerRets(c, echk, contexts) : c \in CalleeCtxs(cctx, DefOf[v], contexts)} :
                v \in Wraps(cctx)}
  ELSE _getKlocsFromSeqs(cctx,
         _getKseqs(cctx, echk, {[val |-> Returned(b), seq |-> <<b>>] : b \in Returns(getFunction(Last(cctx)))}))

ChecksAt(cloc, k, dst) ==
  {c \in traitChecks : c.loc = cloc /\ c.from.k = k /\ Encodable(c.tc, dst)}

getCondKillerLocsRet(cloc, dst, contexts) ==
  UNION {UNION {_getKillerRets(d, getZ3Expr4Branch(c.tc, dst), contexts) :
                  d \in CalleeCtxs(cloc.ctx, c.from.i, contexts)} : c \in ChecksAt(cloc, "ret", dst)}

getCondKillerLocsPHI(cloc, dst) ==
  UNION {_getKlocsFromSeqs(cloc.ctx,
           _getKseqs(cloc.ctx, getZ3Expr4Branch(c.tc, dst),
             {[val |-> Var(At(c.from.i).def), seq |-> <<getParent(c.from.i)>>]})) :
           c \in ChecksAt(cloc, "phi", dst)}

getCondKillerLocs(cloc, dst, contexts) ==
  IF \E c \in traitChecks : c.loc = cloc /\ c.from.k = "obj" THEN getCondKillerLocsObj(cloc, dst)
  ELSE getCondKillerLocsRet(cloc, dst, contexts) \cup getCondKillerLocsPHI(cloc, dst)
=============================================================================
