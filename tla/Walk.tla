-------------------------------- MODULE Walk --------------------------------
(***************************************************************************)
(* One walk over an entry function and what it calls, each instruction     *)
(* shown to the passes in turn.  Traversal models the walk itself; here it *)
(* has no limits and its order of blocks is a constant.                    *)
(***************************************************************************)
EXTENDS Code

CONSTANT Order \* the blocks of a function as they are walked, each with inside_loop

VARIABLES
  walk,      \* the visitors, the one that runs last
  contexts,  \* CallContext::dir
  visited    \* blocks walked: context and block

walkVars == <<walk, contexts, visited>>

Visitor(ctx, f) == [ctx |-> ctx, todo |-> Order[f], pc |-> 1, targets |-> {}]
EntryCtx(f) == <<First(entryBB[f])>>

Top == Last(walk)
currBB == Head(Top.todo)[1]
inside_loop == Head(Top.todo)[2]
curr == <<currBB, Top.pc>>
Walking == walk # <<>> /\ Top.todo # <<>>
At_(op) == Walking /\ At(curr).op = op

Onward(v) ==
  IF v.pc < Len(code[currBB]) THEN [v EXCEPT !.pc = @ + 1, !.targets = {}]
  ELSE [v EXCEPT !.todo = Tail(@), !.pc = 1, !.targets = {}]
Advance ==
  /\ walk' = Front(walk) \o <<Onward(Top)>>
  /\ visited' = visited \cup {<<Top.ctx, currBB>>}
  /\ UNCHANGED contexts

(* Calls: in the last pass over a loop only, one target after the other; a *)
(* function with a body is walked, once in a context.                      *)
Fresh(f) == hasBody(f) => CalleeCtx(Top.ctx, curr, f) \notin contexts
FreshTargets == {f \in At(curr).fn : Fresh(f)}
enterCall ==
  /\ Walking /\ Top.targets = {}
  /\ IF inside_loop \/ FreshTargets = {} THEN Advance
     ELSE /\ walk' = Front(walk) \o <<[Top EXCEPT !.targets = FreshTargets]>>
          /\ UNCHANGED <<contexts, visited>>

TakeTarget(f) ==
  LET top == IF Top.targets = {f} THEN Onward(Top) ELSE [Top EXCEPT !.targets = @ \ {f}]
      callee == CalleeCtx(Top.ctx, curr, f)
  IN /\ walk' = Front(walk) \o (IF hasBody(f) THEN <<top, Visitor(callee, f)>> ELSE <<top>>)
     /\ contexts' = IF hasBody(f) THEN contexts \cup {callee} ELSE contexts
     /\ visited' = visited \cup {<<Top.ctx, currBB>>}

Over == walk # <<>> /\ Top.todo = <<>>
leaveCallee == Over /\ Len(walk) > 1 /\ walk' = Front(walk) /\ UNCHANGED <<contexts, visited>>
=============================================================================
