------------------------------ MODULE Traversal ------------------------------
(***************************************************************************)
(* GlobalVisitor: the walk over an entry function and all it calls, one    *)
(* visitor per function and calling context on a stack.  One action is the *)
(* start or the end of a block, or one step of visitCallInst.              *)
(*                                                                         *)
(* A context is CallContext::callSites: an entry, then a call site and the *)
(* entry of its callee in turn; a function stands for its first            *)
(* instruction.  Only call instructions are kept of a block.  The list of  *)
(* blocked function names is left out, and _shouldSkipForPerf, which says  *)
(* no unless the user sets funcTimeLimit.                                  *)
(***************************************************************************)
EXTENDS Integers, Sequences, FiniteSets, FiniteSetsExt

CONSTANTS
  Func,           \* functions with a body
  Decl,           \* declarations
  Call,           \* call instructions
  Block,
  Entries,        \* the functions that are analysed from the top
  Order,          \* getSCCTraversalOrder of a function
  Passes(_),      \* getNumTimesToAnalyze of a component
  Calls,          \* the calls of a block
  Callees,        \* the functions a call may be of
  Inferred,       \* calls through pointers that only the types say much about
  MayKill,        \* blocks that the branch at the end of a block may rule out
  MAX_LOOP_CNT, MAX_CALLSITE_DEPTH, MAX_FUNC_PTR

(* The call instructions of a function.                                    *)
CallsIn(f) ==
  { i \in Call : \E s \in DOMAIN Order[f] : \E k \in DOMAIN Order[f][s] :
                   \E n \in DOMAIN Calls[Order[f][s][k]] : Calls[Order[f][s][k]][n] = i }

ASSUME TraversalAssumption ==
  /\ Func \cap Call = {} /\ Func \cap Decl = {}
  /\ Entries \subseteq Func
  /\ Order \in [Func -> Seq(Seq(Block) \ {<<>>})]
  /\ Calls \in [Block -> Seq(Call)]
  /\ \A f, g \in Func : f # g => CallsIn(f) \cap CallsIn(g) = {}
  /\ Callees \in [Call -> SUBSET (Func \cup Decl)]
  /\ MayKill \in [Block -> SUBSET Block]
  /\ MAX_LOOP_CNT \in Nat \ {0} /\ MAX_CALLSITE_DEPTH \in Nat /\ MAX_FUNC_PTR \in Nat

VARIABLES
  stack,       \* the visitors, the one that runs last
  contexts,    \* CallContext::dir
  dead,        \* GlobalState::deadBBs: pairs of a context and a block
  visits       \* what the passes were told: context, call, callee

vars == <<stack, contexts, dead, visits>>

NoCall == "no call"
AnyCtx == <<>>   \* the null context

Visitor(ctx, f) ==
  [ctx |-> ctx, func |-> f,
   scc |-> 1, pass |-> 1, blk |-> 1,            \* where the walk is
   open |-> FALSE, calls |-> <<>>,              \* calls left in the block
   call |-> NoCall, tgts |-> {}, again |-> FALSE, \* the call being visited
   visitedCallSites |-> {}]

Top == stack[Len(stack)]
SetTop(v) == stack' = [stack EXCEPT ![Len(stack)] = v]
Running == stack # <<>>

Init == stack = <<>> /\ contexts = {} /\ dead = {} /\ visits = <<>>

(* The caller starts a visitor for an entry function.                      *)
enter(f) ==
  /\ ~Running
  /\ <<f>> \notin contexts
  /\ stack' = <<Visitor(<<f>>, f)>>
  /\ contexts' = contexts \cup {<<f>>}
  /\ UNCHANGED <<dead, visits>>

----------------------------------------------------------------------------
(* analyze                                                                 *)
AtBlock(v) == v.scc \in DOMAIN Order[v.func]
currSCC(v) == Order[v.func][v.scc]
currBB(v) == currSCC(v)[v.blk]

opt_num_to_analyze(scc) ==
  IF Len(scc) = 1 THEN 1
  ELSE IF MAX_LOOP_CNT < Passes(scc) THEN MAX_LOOP_CNT ELSE Passes(scc)

inside_loop(v) == v.pass < opt_num_to_analyze(currSCC(v))

(* Mutant: a component is left with its first pass over.                   *)
AdvancedOnce(v) ==
  LET w == [v EXCEPT !.open = FALSE] IN
  IF v.blk < Len(currSCC(v)) THEN [w EXCEPT !.blk = @ + 1]
  ELSE [w EXCEPT !.scc = @ + 1, !.pass = 1, !.blk = 1]

(* Mutant: passes are not counted.                                         *)
AdvancedForEver(v) ==
  LET w == [v EXCEPT !.open = FALSE] IN
  IF v.blk < Len(currSCC(v)) THEN [w EXCEPT !.blk = @ + 1]
  ELSE IF v.pass < opt_num_to_analyze(currSCC(v)) THEN [w EXCEPT !.blk = 1]
  ELSE [w EXCEPT !.scc = @ + 1, !.pass = 1, !.blk = 1]

(* The next block, pass or component.                                      *)
Advanced(v) ==
  LET w == [v EXCEPT !.open = FALSE] IN
  IF v.blk < Len(currSCC(v)) THEN [w EXCEPT !.blk = @ + 1]
  ELSE IF v.pass < opt_num_to_analyze(currSCC(v)) THEN [w EXCEPT !.pass = @ + 1, !.blk = 1]
  ELSE [w EXCEPT !.scc = @ + 1, !.pass = 1, !.blk = 1]

isDeadBB(ctx, b) == <<ctx, b>> \in dead \/ <<AnyCtx, b>> \in dead

visitBlock ==
  /\ Running /\ AtBlock(Top) /\ ~Top.open
  /\ IF isDeadBB(Top.ctx, currBB(Top))
     THEN SetTop(Advanced(Top))
     ELSE SetTop([Top EXCEPT !.open = TRUE, !.calls = Calls[currBB(Top)]])
  /\ UNCHANGED <<contexts, dead, visits>>

(* At its end the path pass may find that blocks are dead, some in this    *)
(* context and some in all.                                                *)
visitBranch ==
  /\ Running /\ Top.open /\ Top.calls = <<>> /\ Top.tgts = {}
  /\ \E here \in SUBSET MayKill[currBB(Top)] : \E anywhere \in SUBSET MayKill[currBB(Top)] :
       dead' = dead \cup ({Top.ctx} \X here) \cup ({AnyCtx} \X anywhere)
  /\ SetTop(Advanced(Top))
  /\ UNCHANGED <<contexts, visits>>

(* Back to processCalledFunction of the caller.                            *)
return ==
  /\ Running /\ ~AtBlock(Top)
  /\ stack' = SubSeq(stack, 1, Len(stack) - 1)
  /\ UNCHANGED <<contexts, dead, visits>>

----------------------------------------------------------------------------
(* visitCallInst                                                           *)

(* _getCallTargets: too many inferred targets are cut down to the first    *)
(* few by address.                                                         *)
CallTargets(i) ==
  IF i \in Inferred /\ Cardinality(Callees[i]) > MAX_FUNC_PTR
  THEN kSubset(MAX_FUNC_PTR, Callees[i])
  ELSE {Callees[i]}

(* Mutant: a call is visited in each pass, as other instructions are.      *)
visitCallInstEach ==
  /\ Running /\ Top.open /\ Top.calls # <<>> /\ Top.tgts = {}
  /\ \E T \in CallTargets(Head(Top.calls)) :
       SetTop([Top EXCEPT !.calls = Tail(@), !.call = Head(Top.calls), !.tgts = T])
  /\ UNCHANGED <<contexts, dead, visits>>

visitCallInst ==
  /\ Running /\ Top.open /\ Top.calls # <<>> /\ Top.tgts = {}
  /\ LET i == Head(Top.calls) IN
     \/ /\ inside_loop(Top)
        /\ SetTop([Top EXCEPT !.calls = Tail(@)])
     \/ /\ ~inside_loop(Top)
        /\ \E T \in CallTargets(i) :
             SetTop(IF T = {} THEN [Top EXCEPT !.calls = Tail(@)]
                    ELSE [Top EXCEPT !.calls = Tail(@), !.call = i, !.tgts = T,
                                     !.again = i \in Top.visitedCallSites,
                                     !.visitedCallSites = @ \cup {i}])
  /\ UNCHANGED <<contexts, dead, visits>>

callSites(v) == {v.ctx[k] : k \in {n \in DOMAIN v.ctx : n % 2 = 0}}
callChain(v) == {v.ctx[k] : k \in {n \in DOMAIN v.ctx : n % 2 = 1}}

exceed_stack_limit(v) == Len(v.ctx) > 2 * MAX_CALLSITE_DEPTH - 1

Skipped(v, f) ==
  \/ f \in Func /\ (exceed_stack_limit(v) \/ v.again \/ v.call \in callSites(v))
  \/ f \in callChain(v)

skipTarget(f) ==
  /\ Running /\ f \in Top.tgts
  /\ Skipped(Top, f)
  /\ SetTop([Top EXCEPT !.tgts = @ \ {f}])
  /\ UNCHANGED <<contexts, dead, visits>>

CalleeCtx(v, f) == v.ctx \o <<v.call, IF f \in Func THEN f ELSE v.call>>

(* processCalledFunction: the passes see the call, and return visitors of  *)
(* their own for a function with a body.                                   *)
processCalledFunction(f) ==
  /\ Running /\ f \in Top.tgts
  /\ ~Skipped(Top, f)
  /\ LET rest == [stack EXCEPT ![Len(stack)] = [Top EXCEPT !.tgts = @ \ {f}]] IN
     stack' = IF f \in Func THEN Append(rest, Visitor(CalleeCtx(Top, f), f)) ELSE rest
  /\ contexts' = contexts \cup {CalleeCtx(Top, f)}
  /\ visits' = Append(visits, <<Top.ctx, Top.call, f>>)
  /\ UNCHANGED dead

Step ==
  \/ visitBlock \/ visitBranch \/ return \/ visitCallInst
  \/ \E f \in Func \cup Decl : skipTarget(f) \/ processCalledFunction(f)

(* All entries were analysed.                                              *)
Finished ==
  /\ ~Running /\ \A f \in Entries : <<f>> \in contexts
  /\ UNCHANGED vars

Next == Step \/ (\E f \in Entries : enter(f)) \/ Finished

Spec == Init /\ [][Next]_vars

(* Sequential code: a step that can be taken is taken.                     *)
LiveSpec == Spec /\ WF_vars(Next)

----------------------------------------------------------------------------
VisitorType ==
  [ctx : Seq(Func \cup Call), func : Func, scc : Nat \ {0}, pass : Nat \ {0}, blk : Nat \ {0},
   open : BOOLEAN, calls : Seq(Call), call : Call \cup {NoCall}, tgts : SUBSET (Func \cup Decl),
   again : BOOLEAN, visitedCallSites : SUBSET Call]

(* Also: a visitor that is waiting waits for the one above, of which the   *)
(* context is its own with the call and the callee.                        *)
TypeOK ==
  /\ stack \in Seq(VisitorType)
  /\ contexts \subseteq Seq(Func \cup Call)
  /\ dead \subseteq Seq(Func \cup Call) \X Block
  /\ visits \in Seq(Seq(Func \cup Call) \X Call \X (Func \cup Decl))
  /\ \A n \in DOMAIN stack : AtBlock(stack[n]) => stack[n].blk \in DOMAIN currSCC(stack[n])
  /\ \A n \in 1..(Len(stack) - 1) :
       stack[n + 1].ctx = CalleeCtx(stack[n], stack[n + 1].func)

(* No function is entered while it is on the chain of callers, whatever    *)
(* its call sites, and the chain is not deeper than its limit.             *)
ChainsSimple ==
  \A n \in DOMAIN stack :
    LET c == stack[n].ctx IN
    /\ \A i, j \in DOMAIN c : i % 2 = 1 /\ j % 2 = 1 /\ c[i] = c[j] => i = j
    /\ Len(c) <= 2 * MAX_CALLSITE_DEPTH + 1

(* A function is analysed once in a context, in whatever order its callers *)
(* come and however often their loops are passed.                          *)
OncePerContext ==
  [][Len(stack') > Len(stack) => stack'[Len(stack')].ctx \notin contexts]_vars

(* When the walk is over, the passes have seen every call of every block   *)
(* that is not dead, in every context that was analysed, and each callee   *)
(* but those left out on purpose: on the chain, too deep, too many.        *)
NothingForgotten ==
  ~Running =>
    \A c \in {d \in contexts : d[Len(d)] \in Func} :
      \A s \in DOMAIN Order[c[Len(c)]] : \A k \in DOMAIN Order[c[Len(c)]][s] :
        LET b == Order[c[Len(c)]][s][k] IN
        ~isDeadBB(c, b) =>
          \A n \in {m \in DOMAIN Calls[b] : Calls[b][m] \notin Inferred} :
            \A f \in Callees[Calls[b][n]] :
              \/ \E m \in DOMAIN visits : visits[m] = <<c, Calls[b][n], f>>
              \/ \E m \in DOMAIN c : m % 2 = 1 /\ c[m] = f
              \/ f \in Func /\ Len(c) > 2 * MAX_CALLSITE_DEPTH - 1

(* The walk ends, whatever the functions call.                             *)
Ends == <>(\A f \in Entries : <<f>> \in contexts /\ ~Running)
=============================================================================
