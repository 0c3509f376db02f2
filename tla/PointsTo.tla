------------------------------ MODULE PointsTo ------------------------------
(***************************************************************************)
(* The alias pass (AliasAnalysisVisitor) and the points-to records of      *)
(* objects that it keeps (AliasObject), on one walk over an entry          *)
(* function.  The entry functions share the records.                       *)
(*                                                                         *)
(* Objects are of the type that their pointers say, without embedded       *)
(* objects and arrays; an object is its position in mem.objects.           *)
(***************************************************************************)
EXTENDS Walk, Objects, FiniteSetsExt

VARIABLES
  mem,          \* objects, the points-to records of their fields, lastPtoReset,
                \* and whether records of initialisers have the lower addresses
  ptos,         \* context and variable -> its points-to records
  freeSites,    \* object, where it is freed and by which record
  accessSites,  \* object and field, where it is read or written and by which record
  retVals       \* context -> retValPointsTo

aliasVars == <<mem, ptos, freeSites, accessSites, retVals>>

NoPtr == "no pointer"

(* A record of a variable has the way that its value has come by and the   *)
(* loads on it, the loadTag.  A record of a field is of the variable that  *)
(* was stored, or of none if it was made for a placeholder.                *)
Pto(dst, dfid, ptr, history, tag) ==
  [dst |-> dst, dfid |-> dfid, ptr |-> ptr, history |-> history, tag |-> tag]
FieldPto(o, f, p, history, weak) ==
  [src |-> o, fid |-> f, dst |-> p.dst, dfid |-> p.dfid, ptr |-> p.ptr,
   history |-> history, weak |-> weak, active |-> TRUE]
Target(p) == <<p.dst, p.dfid>>
propagatingInst(p) == Last(p.history)
add2History(h, l) == IF h # <<>> /\ Last(h) = l THEN h ELSE Append(h, l)

Created(m, o) == [m EXCEPT !.objects = Append(@, o)]
NewObj(m) == Len(m.objects) + 1
Object(kind, ty, l) == [kind |-> kind, ty |-> ty, loc |-> l]

----------------------------------------------------------------------------
(* The fields of objects                                                   *)
FieldPtos(m, o, f) == {n \in DOMAIN m.fields : m.fields[n].src = o /\ m.fields[n].fid = f}

(* The first record from a field to a target stands for it in the          *)
(* pointsFrom of the target: it is switched together with each of them.    *)
Registered(ps, n) ==
  CHOOSE k \in DOMAIN ps :
    /\ ps[k].src = ps[n].src /\ ps[k].fid = ps[n].fid /\ Target(ps[k]) = Target(ps[n])
    /\ \A j \in 1..(k - 1) : ~(ps[j].src = ps[n].src /\ ps[j].fid = ps[n].fid /\ Target(ps[j]) = Target(ps[n]))
activateFieldPto(ps, ns, act) ==
  LET both == ns \cup {Registered(ps, n) : n \in ns}
  IN [k \in DOMAIN ps |-> IF k \in both THEN [ps[k] EXCEPT !.active = act] ELSE ps[k]]

(* Mutant: the records of other entry functions stay.                      *)
resetNothing(m, o, f, entry) == [m EXCEPT !.reset = (<<o, f>> :> entry) @@ @]

(* Another entry function begins without what the last one has stored, and *)
(* with what initialisers have.  A record of a store that is switched off  *)
(* switches the one it is registered with, also one of an initialiser; the *)
(* set is in the order of addresses, so which comes first is open.         *)
resetPtos(m, o, f, entry) ==
  LET stored == {n \in FieldPtos(m, o, f) : m.fields[n].active /\ propagatingInst(m.fields[n]).ctx # <<>>
                                              /\ propagatingInst(m.fields[n]).ctx[1] # entry}
      preset == {n \in FieldPtos(m, o, f) : propagatingInst(m.fields[n]).ctx = <<>>}
      Off(ps) == activateFieldPto(ps, stored, FALSE)
      On(ps) == activateFieldPto(ps, preset, TRUE)
  IN IF <<o, f>> \in DOMAIN m.reset /\ m.reset[<<o, f>>] = entry THEN m
     ELSE [m EXCEPT !.reset = (<<o, f>> :> entry) @@ @,
                    !.fields = IF <<o, f>> \notin DOMAIN m.reset THEN @
                               ELSE IF m.presetsFirst THEN Off(On(@)) ELSE On(Off(@))]

(* A strong update removes what it always comes after; a store that is met *)
(* again is the same record.                                               *)
Kills(new, e) == e.active /\ ~new.weak /\ postDom(propagatingInst(new), propagatingInst(e), FALSE)
Same(e, new) ==
  /\ Target(e) = Target(new) /\ propagatingInst(e) = propagatingInst(new)
  /\ e.ptr \in {NoPtr, new.ptr}
Strengthened(ps, dup) ==
  [n \in DOMAIN ps |-> IF \E p \in DOMAIN dup : n \in dup[p] /\ p.weak # ps[n].weak
                       THEN [ps[n] EXCEPT !.weak = FALSE] ELSE ps[n]]
Joined(ps, added) == activateFieldPto(ps \o added, Len(ps) + 1..Len(ps) + Len(added), TRUE)
Updated(ps, to_del, dup) ==
  Joined(activateFieldPto(activateFieldPto(Strengthened(ps, dup), UNION Range(dup), TRUE), to_del, FALSE),
         SetToSeq({p \in DOMAIN dup : dup[p] = {}}))
updateFieldPointsTo_do(m, o, f, news) ==
  LET to_del == {n \in FieldPtos(m, o, f) : \E p \in news : Kills(p, m.fields[n])}
      dup == [p \in news |-> {n \in FieldPtos(m, o, f) : ~Kills(p, m.fields[n]) /\ Same(m.fields[n], p)}]
  IN [m EXCEPT !.fields = Updated(@, to_del, dup)]
updateFieldPointsTo(m, o, f, srcs, l, weak) ==
  IF srcs = {} THEN m
  ELSE updateFieldPointsTo_do(resetPtos(m, o, f, l.ctx[1]), o, f,
         {FieldPto(o, f, p, add2History(p.history, l), weak) : p \in srcs})

(* What a field may hold at a location: strong updates hide others.        *)
getLivePtos(m, o, f, l) ==
  LET act == {n \in FieldPtos(m, o, f) : m.fields[n].active}
      blocklist == {propagatingInst(m.fields[n]) : n \in {k \in act : ~m.fields[k].weak}}
  IN {n \in act : reachable(l, propagatingInst(m.fields[n]), blocklist)}

(* A field that holds nothing is given a placeholder, as from the entry.   *)
createFieldPointee(m, o, f, l) ==
  LET ty == FieldTypes[m.objects[o].ty][f]
      entry == Loc(l.ctx[1], getPrefix(l.ctx, 1))
      p == Pto(NewObj(m), 1, NoPtr, <<entry>>, <<>>)
  IN IF ty = Scalar THEN m
     ELSE updateFieldPointsTo_do(Created(m, Object("outside", ty, entry)), o, f,
            {FieldPto(o, f, p, p.history, FALSE)})
Placed(m, c) == [mem |-> c, got |-> (DOMAIN c.fields) \ DOMAIN m.fields]
Fetched(m, live, o, f, l) ==
  IF live # {} THEN [mem |-> m, got |-> live] ELSE Placed(m, createFieldPointee(m, o, f, l))
FetchedAfter(m, o, f, l) == Fetched(m, getLivePtos(m, o, f, l), o, f, l)
fetchPointsToObjects(m, o, f, l) == FetchedAfter(resetPtos(m, o, f, l.ctx[1]), o, f, l)

----------------------------------------------------------------------------
(* Variables                                                               *)
getPointsToObjects(ctx, v) ==
  IF <<ctx, v>> \in DOMAIN ptos THEN ptos[<<ctx, v>>]
  ELSE IF <<<<>>, v>> \in DOMAIN ptos THEN ptos[<<<<>>, v>>] ELSE {}
Here == Loc(curr, Top.ctx)
Mine(v) == getPointsToObjects(Top.ctx, v)
Propagated(p, v, l) == [p EXCEPT !.ptr = v, !.history = add2History(@, l)]

(* Targets that the variable has already are left out.                     *)
Targets(ps) == {Target(p) : p \in ps}
updatePointsToObjects(store, ctx, v, new) ==
  LET old == IF <<ctx, v>> \in DOMAIN store THEN store[<<ctx, v>>] ELSE {}
      both == old \cup {p \in new : Target(p) \notin Targets(old)}
  IN IF new = {} THEN store ELSE (<<ctx, v>> :> both) @@ store
Defined(new) == updatePointsToObjects(ptos, Top.ctx, At(curr).def, new)

(* Records for each target: which one of several is kept is arbitrary.     *)
OnePerTarget(ps) ==
  {r \in SUBSET ps : Targets(r) = Targets(ps) /\ Cardinality(r) = Cardinality(Targets(ps))}
mergePointsTo(vs, ptr) == OnePerTarget(UNION {{Propagated(p, ptr, Here) : p \in Mine(v)} : v \in vs})

(* getPtos with create_dummy: an outside object for a pointer to nothing.  *)
createOutsideObj(v) ==
  LET p == Pto(NewObj(mem), 1, v, <<Here>>, <<>>)
  IN IF Mine(v) # {} \/ IsGlobal(v) THEN [mem |-> mem, ptos |-> ptos, got |-> Mine(v)]
     ELSE [mem |-> Created(mem, Object("outside", PointeeTy[v], Here)),
           ptos |-> updatePointsToObjects(ptos, Top.ctx, v, {p}), got |-> {p}]

visitAllocaInst ==
  /\ At_("alloca")
  /\ IF Mine(At(curr).def) # {} THEN UNCHANGED <<mem, ptos>>
     ELSE /\ mem' = Created(mem, Object("stack", At(curr).ty, Here))
          /\ ptos' = Defined({Pto(NewObj(mem), 1, At(curr).def, <<Here>>, <<>>)})
  /\ UNCHANGED <<freeSites, accessSites, retVals>>

visitCastInst ==
  /\ At_("cast")
  /\ ptos' = Defined({Propagated(p, At(curr).def, Here) : p \in Mine(At(curr).src)})
  /\ UNCHANGED <<mem, freeSites, accessSites, retVals>>

visitGetElementPtrInst ==
  /\ At_("gep")
  /\ LET base == createOutsideObj(At(curr).base)
     IN /\ mem' = base.mem
        /\ ptos' = updatePointsToObjects(base.ptos, Top.ctx, At(curr).def,
                     {[Propagated(p, At(curr).def, Here) EXCEPT !.dfid = At(curr).fid] : p \in base.got})
  /\ UNCHANGED <<freeSites, accessSites, retVals>>

visitBinaryOperator ==
  /\ At_("bin")
  /\ \E r \in mergePointsTo(ToSet(At(curr).srcs), At(curr).def) : ptos' = Defined(r)
  /\ UNCHANGED <<mem, freeSites, accessSites, retVals>>

(* visitPHINode, visitSelectInst: the values are told apart by tags.       *)
Tag(l, id, o, f) == [v |-> l, id |-> id, priv |-> o, n |-> f]
Tagged(s, k, o, f) == [s[k] EXCEPT !.tag = Append(@, Tag(Here, k - 1, o, f))]
visitMerge ==
  /\ Walking /\ At(curr).op \in {"phi", "select"}
  /\ \E r \in mergePointsTo(ToSet(At(curr).srcs), At(curr).def) : \E s \in SetToSeqs(r) :
       ptos' = Defined({IF Len(s) > 1 THEN Tagged(s, k, 0, 0) ELSE s[k] : k \in DOMAIN s})
  /\ UNCHANGED <<mem, freeSites, accessSites, retVals>>

----------------------------------------------------------------------------
(* Loads and stores                                                        *)
LoadedBy(b, e) ==
  Pto(e.dst, e.dfid, At(curr).def, add2History(e.history, Here), Append(b.tag, Tag(Here, 0, b.dst, b.dfid)))
AddFetched(acc, b, r) ==
  [mem |-> r.mem, got |-> acc.got \cup {LoadedBy(b, r.mem.fields[n]) : n \in r.got}]
Fetch(acc, b) == AddFetched(acc, b, fetchPointsToObjects(acc.mem, b.dst, b.dfid, Here))
Numbered(p, id) == [p EXCEPT !.tag[Len(p.tag)].id = id]
visitLoadInst ==
  /\ At_("load")
  /\ \E base \in {createOutsideObj(At(curr).ptr)} :
       \E r \in {FoldLeft(Fetch, [mem |-> base.mem, got |-> {}], SetToSeq(base.got))} :
         /\ mem' = r.mem
         /\ accessSites' = accessSites \cup
              {[obj |-> b.dst, fid |-> b.dfid, loc |-> Here, pto |-> b, read |-> TRUE] : b \in base.got}
         /\ \E one \in OnePerTarget(r.got) : \E s \in SetToSeqs(one) :
              ptos' = updatePointsToObjects(base.ptos, Top.ctx, At(curr).def,
                        {Numbered(s[k], k - 1) : k \in DOMAIN s})
  /\ UNCHANGED <<freeSites, retVals>>

(* The k-th load tag from the back; whether all records have it, by the    *)
(* same load; how far they agree.                                          *)
Back(p, k) == p.tag[Len(p.tag) + 1 - k]
SimilarAt(ps, k) == \A p, q \in ps : k <= Len(p.tag) /\ k <= Len(q.tag) /\ Back(p, k).v = Back(q, k).v
isSimilarLoadTag(ps) == {n \in 1..Max({Len(p.tag) : p \in ps}) : \A k \in 1..n : SimilarAt(ps, k)}

(* Of many sources and many destinations, those that come by the same      *)
(* pointee of the last load that they have in common.                      *)
inferSrcDstMap(srcs, dsts) ==
  LET links == {c \in isSimilarLoadTag(srcs) \X isSimilarLoadTag(dsts) :
                  \E s \in srcs, d \in dsts : Back(s, c[1]).v = Back(d, c[2]).v}
      last == CHOOSE c \in links : \A e \in links : c[1] < e[1] \/ (c[1] = e[1] /\ c[2] <= e[2])
  IN [d \in dsts |-> IF Cardinality(dsts) <= 1 \/ links = {} THEN srcs
                     ELSE {s \in srcs : Back(s, last[1]).v = Back(d, last[2]).v
                                          /\ Back(s, last[1]).id = Back(d, last[2]).id}]

visitStoreInst ==
  /\ At_("store")
  /\ LET srcs == Mine(At(curr).val)
         dsts == Mine(At(curr).ptr)
         sdMap == inferSrcDstMap(srcs, dsts)
         Store(m, d) == updateFieldPointsTo(m, d.dst, d.dfid, sdMap[d], Here, Cardinality(dsts) > 1)
     IN IF srcs = {} \/ dsts = {} THEN UNCHANGED <<mem, accessSites>>
        ELSE /\ mem' = FoldLeft(Store, mem, SetToSeq(dsts))
             /\ accessSites' = accessSites \cup
                  {[obj |-> d.dst, fid |-> d.dfid, loc |-> Here, pto |-> d, read |-> FALSE] : d \in dsts}
  /\ UNCHANGED <<ptos, freeSites, retVals>>

----------------------------------------------------------------------------
(* Calls                                                                   *)
setupCallContext(callee, f) ==
  LET given == {k \in DOMAIN params[f] : k <= Len(At(curr).args) /\ Mine(At(curr).args[k]) # {}}
      Keys == {<<callee, params[f][k]>> : k \in given}
      Arg(key) == At(curr).args[CHOOSE k \in given : params[f][k] = key[2]]
  IN ptos' = [key \in Keys |-> {Propagated(p, key[2], Here) : p \in Mine(Arg(key))}] @@ ptos

markFreedObjs(v) ==
  LET p == Pto(NewObj(mem), 1, v, <<Here>>, <<>>)
      ps == IF Mine(v) # {} THEN Mine(v) ELSE {p}
  IN /\ freeSites' = freeSites \cup {[obj |-> q.dst, loc |-> Here, pto |-> q] : q \in ps}
     /\ IF Mine(v) # {} THEN UNCHANGED <<mem, ptos>>
        ELSE /\ mem' = Created(mem, Object("heap", PointeeTy[v], Here))
             /\ ptos' = updatePointsToObjects(ptos, Top.ctx, v, {p})

createNewHeapObject ==
  /\ mem' = Created(mem, Object("heap", PointeeTy[At(curr).def], Here))
  /\ ptos' = Defined({Pto(NewObj(mem), 1, At(curr).def, <<Here>>, <<>>)})

visitCallInst(f) ==
  /\ IF hasBody(f) THEN setupCallContext(CalleeCtx(Top.ctx, curr, f), f) /\ UNCHANGED <<mem, freeSites>>
     ELSE IF f \in Deallocators THEN markFreedObjs(At(curr).args[1])
     ELSE IF f \in Allocators THEN createNewHeapObject /\ UNCHANGED freeSites
     ELSE UNCHANGED <<mem, ptos, freeSites>>
  /\ UNCHANGED <<accessSites, retVals>>

Returned(ctx) == IF ctx \in DOMAIN retVals THEN retVals[ctx] ELSE {}
visitReturnInst ==
  /\ At_("ret")
  /\ LET new == UNION {{p \in Mine(v) : Target(p) \notin Targets(Returned(Top.ctx))} : v \in At(curr).val}
     IN retVals' = (Top.ctx :> (Returned(Top.ctx) \cup new)) @@ retVals
  /\ UNCHANGED <<mem, ptos, freeSites, accessSites>>

stitchChildContext ==
  LET ctx == SubSeq(Top.ctx, 1, Len(Top.ctx) - 2)
      i == Top.ctx[Len(Top.ctx) - 1]
  IN /\ ptos' = updatePointsToObjects(ptos, ctx, At(i).def,
                  {Propagated(p, At(i).def, Loc(i, ctx)) : p \in Returned(Top.ctx)})
     /\ UNCHANGED <<mem, freeSites, accessSites, retVals>>

----------------------------------------------------------------------------
(* setupGlobals                                                            *)
AliasInit ==
  LET Preset(p) == Pto(GlobalNo(p[3]), 1, NoPtr, <<GlobalLoc(p[1])>>, <<>>)
  IN /\ \E first \in BOOLEAN :
          mem = [objects |-> [k \in DOMAIN Globals |-> Object("global", PointeeTy[Globals[k]], GlobalLoc(Globals[k]))],
               fields |-> SetToSeq({FieldPto(GlobalNo(p[1]), p[2], Preset(p), <<GlobalLoc(p[1])>>, FALSE) : p \in Presets}),
               reset |-> <<>>, presetsFirst |-> first]
     /\ ptos = [key \in {<<<<>>, v>> : v \in ToSet(Globals)} |->
                  {Pto(GlobalNo(key[2]), 1, key[2], <<GlobalLoc(key[2])>>, <<>>)}]
     /\ freeSites = {} /\ accessSites = {} /\ retVals = <<>>
=============================================================================
