------------------------------- MODULE Reach -------------------------------
(***************************************************************************)
(* Control flow across functions: InstLoc in CFGUtils.cpp.                 *)
(*                                                                         *)
(* A location is an instruction in a calling context.  A context is the    *)
(* first instruction of the entry function, then a call and the first      *)
(* instruction of its callee, and so on; the code's index k is position    *)
(* k + 1 here.  The empty context is that of a global.                     *)
(***************************************************************************)
EXTENDS Flow

Loc(inst, ctx) == [inst |-> inst, ctx |-> ctx]

(* Part of the context: its first k positions.                             *)
getPrefix(ctx, k) == SubSeq(ctx, 1, k)

(* The call at position p of the context, as a location.                   *)
CallSite(l, p) == Loc(l.ctx[p], getPrefix(l.ctx, p - 1))

(* How far two contexts agree.                                             *)
Common(c, d) ==
  CHOOSE k \in 0..Len(c) :
    /\ k <= Len(d) /\ getPrefix(c, k) = getPrefix(d, k)
    /\ k < Len(c) /\ k < Len(d) => c[k + 1] # d[k + 1]

(* 0: the same context; -1: no prefix; else the first index after it.      *)
isPrefix(c, other) ==
  IF ~IsPrefix(c, other) THEN -1 ELSE IF c = other THEN 0 ELSE Len(c)

----------------------------------------------------------------------------
(* The contexts on the way to a blocking location.                         *)
Entered(blocklist) ==
  UNION {{getPrefix(b.ctx, k) : k \in {n \in 1..Len(b.ctx) : n % 2 = 1}} : b \in blocklist}

(* bypassCall, one callee: `real` are the instructions of f that block.  A *)
(* single one is judged by the blocks every return needs, unless none is   *)
(* known.                                                                  *)
Passable(ei, real) ==
  \E retDoms \in {getDomsForRet(getFunction(ei))} :
    IF Cardinality(real) = 1 /\ retDoms # {} THEN \A i \in real : getParent(i) \notin retDoms
    ELSE isPotentiallyReachable(ei, None, real)

(* A call blocks unless one of the callees that blocking locations are in  *)
(* can be passed.  `blocking` is the result for the contexts of callees.   *)
bypassCall(c, cs, blocking) ==
  \E d \in DOMAIN blocking :
    /\ Len(d) = Len(c) + 2 /\ IsPrefix(Append(c, cs), d)
    /\ \E real \in {blocking[d]} : Passable(Last(d), real)
CallsOn(c, blocking) ==
  {d[Len(c) + 1] : d \in {e \in DOMAIN blocking : isPrefix(c, e) > 0}}

(* Mutant: every call with a blocking location behind it blocks.           *)
AllCalls(c, blocking) == CallsOn(c, blocking)

BlockingCalls(c, blocking) ==
  {cs \in CallsOn(c, blocking) : ~bypassCall(c, cs, blocking)}

(* The instructions that block a way in the function of context c.         *)
BlockersIn(c, blocklist, blocking) ==
  {b.inst : b \in {x \in blocklist : isPrefix(c, x.ctx) = 0}}
    \cup BlockingCalls(c, [e \in {x \in Entered(blocklist) : isPrefix(c, x) > 0} |-> blocking[e]])
InEntered(blocklist) ==
  LET blocking[d \in Entered(blocklist)] == BlockersIn(d, blocklist, blocking)
  IN blocking
getBlockersInCurrFunc(c, blocklist) == BlockersIn(c, blocklist, InEntered(blocklist))

(* From the entry of the function to l, or from l to a return.             *)
canReachEnd(l, blocklist, fromEntry) ==
  \E validBis \in {getBlockersInCurrFunc(l.ctx, blocklist)},
     way \in {IF fromEntry THEN <<None, l.inst>> ELSE <<l.inst, None>>} :
    isPotentiallyReachable(way[1], way[2], validBis)

(* Mutant: the calls in between are passed over.                           *)
chainableEnd(l, ci, blocklist, callFrom) ==
  blocklist # {} /\ l.ctx # <<>> => canReachEnd(l, blocklist, callFrom)

(* l can be reached from its call at ci, or can return to it.              *)
chainable(l, ci, blocklist, callFrom) ==
  blocklist # {} /\ l.ctx # <<>> =>
    LET first == IF ci % 2 = 0 THEN ci + 2 ELSE ci + 3
    IN \A s \in {l} \cup {CallSite(l, p) : p \in {n \in first..Len(l.ctx) : n % 2 = 0}} :
         canReachEnd(s, blocklist, callFrom)

(* What l is in the function of the first k positions of its context.      *)
Inside(l, k) == IF k < Len(l.ctx) THEN CallSite(l, k + 1) ELSE l

(* this->reachable(other): is there a way from other to this?              *)
reachable(this, other, blocklist) ==
  \E ip \in {IF other.ctx = <<>> THEN 0 ELSE Common(this.ctx, other.ctx)} :
    /\ \A e \in {<<other, FALSE>>, <<this, TRUE>>} :
         ip < Len(e[1].ctx) => chainable(e[1], ip, blocklist, e[2])
    /\ other.ctx # <<>> =>
         /\ ip % 2 = 1
         /\ \E src \in {Inside(other, ip).inst}, end \in {Inside(this, ip).inst},
               validBis \in {getBlockersInCurrFunc(getPrefix(this.ctx, ip), blocklist)} :
              isPotentiallyReachable(src, end, validBis)

mreachable(this, refloc, pos) ==
  \/ refloc.ctx = <<>>
  \/ pos <= 0 /\ reachable(refloc, this, {})
  \/ pos >= 0 /\ reachable(this, refloc, {})

----------------------------------------------------------------------------
(* Every step of the context from position p on is inevitable.             *)
Inevitable(l, p) ==
  /\ \A q \in p..(Len(l.ctx) - 1) : instPostDom(l.ctx[q], l.ctx[q + 1], FALSE)
  /\ instPostDom(Last(l.ctx), l.inst, FALSE)

(* this->postDom(other): whatever executes other gets to this.             *)
postDom(this, other, is_strict) ==
  /\ this.ctx # <<>>
  /\ IF other.ctx = <<>> THEN Inevitable(this, 1)
     ELSE LET ip == Common(this.ctx, other.ctx)
              src == Inside(other, ip).inst
              end == Inside(this, ip).inst
          IN /\ ip > 0
             /\ IF ip = Len(this.ctx) THEN instPostDom(src, end, is_strict)
                ELSE /\ ip = Len(other.ctx) \/ ip % 2 = 0
                     /\ instPostDom(src, end, FALSE)
                     /\ Inevitable(this, ip + 2)

(* Mutant: the call is enough, what it calls is not looked at.             *)
domOfCall(this, other, is_strict) ==
  LET ip == Common(this.ctx, other.ctx)
  IN /\ ip % 2 = 1 /\ other.ctx # <<>>
     /\ instDom(Inside(this, ip).inst, Inside(other, ip).inst, is_strict)

(* this->dom(other): whatever gets to other has executed this.             *)
dom(this, other, is_strict) ==
  /\ this.ctx # <<>> /\ other.ctx # <<>>
  /\ LET ip == Common(this.ctx, other.ctx)
         src == Inside(this, ip).inst
         end == Inside(other, ip).inst
     IN /\ ip > 0
        /\ IF ip = Len(this.ctx) THEN instDom(src, end, is_strict)
           ELSE /\ ip = Len(other.ctx) \/ ip % 2 = 0
                /\ instDom(src, end, FALSE)
                /\ Inevitable(this, ip + 2)

----------------------------------------------------------------------------
(* The branches on the way to l: where each leads and in which context.    *)
locCriticalBranches(l) ==
  UNION {{Loc(First(e[2]), s.ctx) : e \in getCriticalBranches(getParent(s.inst))} :
           s \in {l} \cup {CallSite(l, p) : p \in {n \in 1..Len(l.ctx) : n % 2 = 0}}}
=============================================================================
