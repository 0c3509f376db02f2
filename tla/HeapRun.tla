------------------------------ MODULE HeapRun ------------------------------
(***************************************************************************)
(* What becomes of the memory when entry functions are run, each by a      *)
(* thread of its own: the reference for the alias pass and for the filters *)
(* on warnings.                                                            *)
(*                                                                         *)
(* The memory at the start is any: a pointer in it is found out to be null *)
(* or to point to something of its own when it is first loaded.  A branch  *)
(* goes any way if it is not a test for null.                              *)
(***************************************************************************)
EXTENDS Objects

CONSTANT MaxBlocks  \* bound: blocks that an activation goes through

VARIABLES
  heap,     \* what is or was allocated
  threads,  \* of each invocation the activations, the one that runs last
  uaf       \* the first access to what is freed

runVars == <<heap, threads, uaf>>

Nothing == <<>>
Null == [to |-> 0, fid |-> 0]
Unknown == [to |-> -1, fid |-> 0]
Pointer(n) == [to |-> n, fid |-> 1]
EnvLoc == Loc(<<0, 0>>, <<>>)

(* What is allocated at a site, by an invocation: none if it was there.    *)
Instance_(l, ty, by, v) ==
  [site |-> l, ty |-> ty, by |-> by, freed |-> Nothing, cells |-> [f \in DOMAIN FieldTypes[ty] |-> v]]
Environment(ty) == Instance_(EnvLoc, ty, 0, Unknown)
PresetOf(v) ==
  [f \in DOMAIN FieldTypes[PointeeTy[v]] |->
     IF \E p \in Presets : p[1] = v /\ p[2] = f
     THEN Pointer(GlobalNo((CHOOSE p \in Presets : p[1] = v /\ p[2] = f)[3])) ELSE Unknown]
GlobalHeap ==
  [k \in DOMAIN Globals |-> [Instance_(GlobalLoc(Globals[k]), PointeeTy[Globals[k]], 0, Unknown)
                               EXCEPT !.cells = PresetOf(Globals[k])]]

Frame(ctx, args) ==
  [ctx |-> ctx, b |-> Last(ctx)[1], pc |-> 1, env |-> args, blocks |-> 1]

RunInit == heap = <<>> /\ threads = <<>> /\ uaf = Nothing

(* All are given the same object of a type.                                *)
runStart(fs) ==
  LET types == {PointeeTy[v] : v \in UNION {ToSet(params[fs[k]]) : k \in DOMAIN fs}} \ {Scalar}
      given == SetToSeq(types)
      Arg(v) == IF PointeeTy[v] = Scalar THEN Null
                ELSE Pointer(Len(Globals) + (CHOOSE n \in DOMAIN given : given[n] = PointeeTy[v]))
  IN /\ heap' = GlobalHeap \o [n \in DOMAIN given |-> Environment(given[n])]
     /\ threads' = [k \in DOMAIN fs |->
          <<Frame(<<First(entryBB[fs[k]])>>, [v \in ToSet(params[fs[k]]) |-> Arg(v)])>>]
     /\ UNCHANGED uaf

Act(t) == Last(threads[t])
now(t) == <<Act(t).b, Act(t).pc>>
NowAt(t) == Loc(now(t), Act(t).ctx)
Running(t) == uaf = Nothing /\ threads[t] # <<>>
Executing(t, op) == Running(t) /\ At(now(t)).op = op
SetAct(t, fr) == threads' = [threads EXCEPT ![t] = Front(@) \o <<fr>>]
Value(fr, v) == IF IsGlobal(v) THEN Pointer(GlobalNo(v)) ELSE IF v \in DOMAIN fr.env THEN fr.env[v] ELSE Null
Put(fr, v, w) == [fr EXCEPT !.env = (v :> w) @@ @, !.pc = @ + 1]

runValue(t) ==
  /\ Running(t)
  /\ LET i == At(now(t))
     IN \/ i.op = "cast" /\ SetAct(t, Put(Act(t), i.def, Value(Act(t), i.src)))
        \/ i.op = "gep" /\ SetAct(t, Put(Act(t), i.def,
             IF Value(Act(t), i.base) = Null THEN Null ELSE [Value(Act(t), i.base) EXCEPT !.fid = i.fid]))
        \/ i.op \in {"bin", "select"} /\ \E v \in ToSet(i.srcs) : SetAct(t, Put(Act(t), i.def, Value(Act(t), v)))
  /\ UNCHANGED <<heap, uaf>>

runAlloca(t) ==
  /\ Executing(t, "alloca")
  /\ heap' = Append(heap, Instance_(NowAt(t), At(now(t)).ty, t, Null))
  /\ SetAct(t, Put(Act(t), At(now(t)).def, Pointer(Len(heap) + 1)))
  /\ UNCHANGED uaf

(* Null is not dereferenced: the invocation stops.                         *)
Stopped(t) == threads' = [threads EXCEPT ![t] = <<>>] /\ UNCHANGED <<heap, uaf>>
UseAfterFree(t, n) ==
  /\ uaf' = [to |-> n, f |-> heap[n].freed[1], fby |-> heap[n].freed[2], u |-> NowAt(t), uby |-> t]
  /\ UNCHANGED <<heap, threads>>
Dereferenced(t, p) ==
  IF p = Null THEN Stopped(t) ELSE heap[p.to].freed # Nothing /\ UseAfterFree(t, p.to)
Accessible(p) == p # Null /\ heap[p.to].freed = Nothing

runLoad(t) ==
  /\ Executing(t, "load")
  /\ LET p == Value(Act(t), At(now(t)).ptr)
         ty == FieldTypes[heap[p.to].ty][p.fid]
     IN \/ Dereferenced(t, p)
        \/ Accessible(p) /\ UNCHANGED uaf
           /\ \E w \in IF heap[p.to].cells[p.fid] # Unknown THEN {heap[p.to].cells[p.fid]}
                       ELSE {Null} \cup (IF ty = Scalar THEN {} ELSE {Pointer(Len(heap) + 1)}) :
                /\ heap' = [heap EXCEPT ![p.to].cells[p.fid] = w]
                             \o (IF w.to > Len(heap) THEN <<Environment(ty)>> ELSE <<>>)
                /\ SetAct(t, Put(Act(t), At(now(t)).def, w))

runStore(t) ==
  /\ Executing(t, "store")
  /\ LET p == Value(Act(t), At(now(t)).ptr)
     IN \/ Dereferenced(t, p)
        \/ /\ Accessible(p)
           /\ heap' = [heap EXCEPT ![p.to].cells[p.fid] = Value(Act(t), At(now(t)).val)]
           /\ SetAct(t, [Act(t) EXCEPT !.pc = @ + 1]) /\ UNCHANGED uaf

----------------------------------------------------------------------------
(* Calls.  What is pointed to is called if the pointer is given.           *)
runCall(t) ==
  /\ Executing(t, "call")
  /\ \E f \in At(now(t)).fn :
       /\ hasBody(f)
       /\ threads' = [threads EXCEPT ![t] = Append(@, Frame(CalleeCtx(Act(t).ctx, now(t), f),
            [v \in ToSet(params[f]) |->
               Value(Act(t), At(now(t)).args[CHOOSE k \in DOMAIN params[f] : params[f][k] = v])]))]
  /\ UNCHANGED <<heap, uaf>>

runAllocate(t) ==
  /\ Executing(t, "call") /\ At(now(t)).fn \cap Allocators # {}
  /\ heap' = Append(heap, Instance_(NowAt(t), PointeeTy[At(now(t)).def], t, Null))
  /\ SetAct(t, Put(Act(t), At(now(t)).def, Pointer(Len(heap) + 1)))
  /\ UNCHANGED uaf

runFree(t) ==
  /\ Executing(t, "call") /\ At(now(t)).fn \cap Deallocators # {}
  /\ LET p == Value(Act(t), At(now(t)).args[1])
     IN IF p # Null /\ heap[p.to].freed # Nothing THEN Stopped(t)
        ELSE /\ heap' = IF p = Null THEN heap ELSE [heap EXCEPT ![p.to].freed = <<NowAt(t), t>>]
             /\ SetAct(t, [Act(t) EXCEPT !.pc = @ + 1]) /\ UNCHANGED uaf

runReturn(t) ==
  /\ Executing(t, "ret")
  /\ LET st == threads[t]
         caller == st[Len(st) - 1]
         def == At(<<caller.b, caller.pc>>).def
     IN IF Len(st) = 1 THEN Stopped(t)
        ELSE /\ threads' = [threads EXCEPT ![t] = SubSeq(@, 1, Len(@) - 2) \o
                  <<Put(caller, def, IF At(now(t)).val = {} THEN Null
                                     ELSE Value(Act(t), CHOOSE v \in At(now(t)).val : TRUE))>>]
             /\ UNCHANGED <<heap, uaf>>

(* To the next block, whose phis take their values.                        *)
Into(fr, b) ==
  LET phis == {n \in DOMAIN code[b] : code[b][n].op = "phi"}
      Coming(i) == i.srcs[CHOOSE k \in DOMAIN i.from : i.from[k] = fr.b]
      nth(v) == code[b][CHOOSE n \in phis : code[b][n].def = v]
  IN [fr EXCEPT !.b = b, !.pc = Cardinality(phis) + 1, !.blocks = @ + 1,
                !.env = [v \in {code[b][n].def : n \in phis} |-> Value(fr, Coming(nth(v)))] @@ @]

runBranch(t) ==
  /\ Running(t) /\ At(now(t)).op \in {"br", "test"}
  /\ Act(t).blocks < MaxBlocks
  /\ LET ways == succ[Act(t).b]
         isNull == Value(Act(t), At(now(t)).on) = Null
     IN \E k \in DOMAIN ways :
          /\ At(now(t)).op = "test" => (k = 1) = isNull
          /\ SetAct(t, Into(Act(t), ways[k]))
  /\ UNCHANGED <<heap, uaf>>

RunStep ==
  \E t \in DOMAIN threads :
    \/ runValue(t) \/ runAlloca(t) \/ runLoad(t) \/ runStore(t)
    \/ runCall(t) \/ runAllocate(t) \/ runFree(t) \/ runReturn(t) \/ runBranch(t)

(* Every invocation has returned or stopped, has gone through the bound of *)
(* blocks, or one has made a use after free.                               *)
RunOver ==
  \/ uaf # Nothing
  \/ \A t \in DOMAIN threads :
       threads[t] # <<>> => Act(t).blocks = MaxBlocks /\ At(now(t)).op \in {"br", "test"}
=============================================================================
