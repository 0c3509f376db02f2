-------------------------------- MODULE Alias --------------------------------
(***************************************************************************)
(* Entry functions are analysed one after the other, with one store of     *)
(* objects, and then one or two of them are run: does the alias pass cover *)
(* what happens, and do the filters keep the warning for what goes wrong.  *)
(***************************************************************************)
EXTENDS Filters, HeapRun

CONSTANTS
  Plans,     \* the entry functions that are analysed, and those that are run
  Module(_)  \* the code of entry functions and of what they call

VARIABLES
  plan,
  left,    \* entry functions that are still to be analysed
  verdict  \* of the filters on what has been run

vars == <<code, plan, left, verdict, walkVars, aliasVars, runVars>>

Init ==
  /\ AliasInit /\ RunInit /\ verdict = "none"
  /\ plan \in Plans
  /\ code = Module(plan.analysed)
  /\ walk = <<Visitor(EntryCtx(Head(plan.analysed)), Head(plan.analysed))>>
  /\ contexts = {EntryCtx(Head(plan.analysed))} /\ visited = {}
  /\ left = Tail(plan.analysed)

Rest == UNCHANGED <<code, plan, left, verdict, runVars>>

visitInst ==
  /\ visitAllocaInst \/ visitCastInst \/ visitGetElementPtrInst \/ visitBinaryOperator
       \/ visitMerge \/ visitLoadInst \/ visitStoreInst \/ visitReturnInst
  /\ Advance /\ Rest
visitOther ==
  /\ Walking /\ At(curr).op \in {"br", "test"}
  /\ Advance /\ UNCHANGED aliasVars /\ Rest
visitCall == At_("call") /\ enterCall /\ UNCHANGED aliasVars /\ Rest
processCalledFunction(f) ==
  Walking /\ f \in Top.targets /\ visitCallInst(f) /\ TakeTarget(f) /\ Rest
leave == leaveCallee /\ stitchChildContext /\ Rest

nextEntry ==
  /\ Over /\ Len(walk) = 1 /\ left # <<>>
  /\ walk' = <<Visitor(EntryCtx(Head(left)), Head(left))>>
  /\ contexts' = contexts \cup {EntryCtx(Head(left))}
  /\ left' = Tail(left)
  /\ UNCHANGED <<code, plan, visited, verdict, aliasVars, runVars>>

finish ==
  /\ Over /\ Len(walk) = 1 /\ left = <<>>
  /\ walk' = <<>>
  /\ runStart(plan.run)
  /\ UNCHANGED <<code, plan, left, verdict, contexts, visited, aliasVars>>

run == walk = <<>> /\ RunStep /\ UNCHANGED <<code, plan, left, verdict, walkVars, aliasVars>>

(* Whether an object stands for something that is there in the run.  An    *)
(* outside object may, for what is no global and the invocation has not    *)
(* allocated itself.                                                       *)
Outside(o) == Obj(o).kind = "outside" \/ (Obj(o).kind = "heap" /\ ~isAllocation(Obj(o).loc))
StandsFor(o, n, t) ==
  \/ Obj(o).loc = heap[n].site
  \/ /\ heap[n].by # t /\ heap[n].site \notin {GlobalLoc(Globals[k]) : k \in DOMAIN Globals}
     /\ heap[n].ty = Obj(o).ty /\ Outside(o)

(* The pairs of a freed and a used object that stand for a use after free. *)
Warnings ==
  {w \in {s.obj : s \in {x \in freeSites : x.loc = uaf.f}} \X {s.obj : s \in {x \in accessSites : x.loc = uaf.u}} :
     StandsFor(w[1], uaf.to, uaf.fby) /\ StandsFor(w[2], uaf.to, uaf.uby)}
Kept == \E w \in Warnings : ~mayReject(uaf.f, w[1], uaf.u, w[2])

validateUAF ==
  /\ uaf # Nothing /\ verdict = "none"
  /\ verdict' = IF Kept THEN "kept" ELSE "dropped"
  /\ UNCHANGED <<code, plan, left, walkVars, aliasVars, runVars>>

over == walk = <<>> /\ RunOver /\ (uaf # Nothing => verdict # "none") /\ UNCHANGED vars

Next ==
  \/ visitInst \/ visitOther \/ visitCall
  \/ (\E f \in UNION {At(i).fn : i \in {j \in Inst : At(j).op = "call"}} : processCalledFunction(f))
  \/ leave \/ nextEntry \/ finish \/ run \/ validateUAF \/ over

Spec == Init /\ [][Next]_vars
----------------------------------------------------------------------------
(* Alone, an invocation has no pointer that the alias pass has missed.     *)
PointersCovered ==
  walk = <<>> /\ Len(threads) = 1 =>
    \A k \in DOMAIN threads[1] : \A v \in DOMAIN threads[1][k].env :
      LET fr == threads[1][k]
      IN fr.env[v] # Null =>
           \E p \in getPointsToObjects(fr.ctx, v) : p.dfid = fr.env[v].fid /\ StandsFor(p.dst, fr.env[v].to, 1)

(* The filters keep a warning for every use after free between two         *)
(* invocations, unless the free also reaches the use in the flow graph.    *)
(* Then _validateUAF_obj takes it for one in one invocation and asks about *)
(* that only (is_f2u): the filter of data flow may drop it, but that alone *)
(* does.  And they keep a warning for every one in one invocation.         *)
OnlySequential ==
  /\ reachable(uaf.u, uaf.f, {})
  /\ \E w \in Warnings : ~heuRejects(uaf.f, w[1], uaf.u, w[2])
ConUAFKept == verdict = "dropped" /\ uaf.fby # uaf.uby => OnlySequential
SeqUAFKept == verdict = "dropped" => uaf.fby # uaf.uby
=============================================================================
