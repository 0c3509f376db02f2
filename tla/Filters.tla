------------------------------ MODULE Filters ------------------------------
(***************************************************************************)
(* What is asked of a warning before a schedule is made for it: the first  *)
(* part of validateUAF (ModuleState.h), on what the alias pass has found   *)
(* when all entry functions have been analysed.                            *)
(*                                                                         *)
(* Of several records that an object is used or freed by the code asks the *)
(* first one in a set of pointers: any of them.                            *)
(***************************************************************************)
EXTENDS PointsTo

CONSTANTS
  ListTypes,    \* struct list_head and its like, which isRecurTy knows by name
  PutFunctions, \* functions with "put_" or "_put" in their names
  Tables,       \* function pointers in constant structs: struct, its type, field, function
  InvalidRets   \* of a function that returns a pointer: locations that make it invalid

ReachedFrom(a, b, blocklist) == reachable(b, a, blocklist)
Before(a, b) == dom(a, b, FALSE)
After(a, b) == postDom(a, b, FALSE)
Tr == INSTANCE ScratchThread WITH Reaches <- ReachedFrom, Dom <- Before, PostDom <- After

Obj(o) == mem.objects[o]
isHeapLocationE(o) == Obj(o).kind = "heap"
isFunctionLocalE(o) == Obj(o).kind = "stack"
isGlobalObjectE(o) == Obj(o).kind = "global"

(* A heap object knows its allocation, or where it was freed first.        *)
isAllocation(l) == l.ctx # <<>> /\ At(l.inst).op = "call" /\ At(l.inst).fn \cap Allocators # {}
getFreePtos(o, l) == {s.pto : s \in {x \in freeSites : x.obj = o /\ x.loc = l}}
getUsePtos(o, l) == {s.pto : s \in {x \in accessSites : x.obj = o /\ x.loc = l}}

(* Where a variable comes from.                                            *)
DefOf(v) == {At(i) : i \in {j \in Inst : "def" \in DOMAIN At(j) /\ At(j).def = v}}

----------------------------------------------------------------------------
(* Mutant: only what is stored after the use or the free is looked at.     *)
canComeAfter(aloc, loc0, loc1, dir) == dir >= 0 /\ reachable(loc1, loc0, {aloc})

(* Whether two locations may mean the same allocation: there is a way from *)
(* one to the other without another one.                                   *)
canRefSameHeapObj(aloc, loc0, loc1, dir) ==
  \/ dir >= 0 /\ reachable(loc1, loc0, {aloc})
  \/ dir <= 0 /\ reachable(loc0, loc1, {aloc})

----------------------------------------------------------------------------
(* _hasGlobalEscape: something that other entry functions see points to    *)
(* the object, from a store that fits into the thread.                     *)
StoredIn(obj) ==
  {n \in DOMAIN mem.fields : mem.fields[n].dst = obj /\ Registered(mem.fields, n) = n}
RECURSIVE hasGlobalEscape(_, _, _, _)
hasGlobalEscape(his, refloc, s, pos) ==
  \E obj \in {Last(his)} :
    \/ isGlobalObjectE(obj)
    \/ \E n \in StoredIn(obj) :
         \E o \in {mem.fields[n].src}, eloc \in {propagatingInst(mem.fields[n])} :
           /\ o # obj /\ ~isFunctionLocalE(o) /\ o \notin ToSet(his)
           /\ isHeapLocationE(obj) => canRefSameHeapObj(Obj(obj).loc, refloc, eloc, 0)
           /\ \E r \in {Tr!TestLocInSeq(s, eloc, pos)} :
                /\ eloc.ctx = <<>> \/ Tr!Inserted(r)
                /\ isHeapLocationE(o) => hasGlobalEscape(Append(his, o), eloc, r.seq, pos)
Escapes(o, l, pos) == \E s \in {Tr!insertLoc(<<>>, l).seq} : hasGlobalEscape(<<o>>, l, s, pos)

(* Whether a pointer is got without memory that others see: stripped of    *)
(* what takes one variable only.                                           *)
SoleTrans(v) ==
  LET Step(u) == UNION {IF i.op = "cast" THEN {i.src} ELSE IF i.op = "gep" THEN {i.base}
                        ELSE IF i.op \in {"bin", "phi"} THEN ToSet(i.srcs) ELSE {} : i \in DefOf(u)}
      Strip(i, u) == IF Cardinality(Step(u)) = 1 THEN CHOOSE w \in Step(u) : TRUE ELSE u
  IN FoldSet(Strip, v, Inst)
RECURSIVE is_local_ptr(_, _)
is_local_ptr(v, ctx) ==
  LET np == SoleTrans(v)
      f == host[Last(ctx)[1]]
      no == {k \in DOMAIN params[f] : params[f][k] = np}
      args == At(ctx[Len(ctx) - 1]).args
  IN IF \E i \in DefOf(np) : i.op = "alloca" THEN 1
     ELSE IF no = {} THEN -2
     ELSE IF Len(ctx) <= 2 THEN -1
     ELSE IF \A k \in no : k > Len(args) THEN -2
     ELSE is_local_ptr(args[CHOOSE k \in no : TRUE], SubSeq(ctx, 1, Len(ctx) - 2))

(* Load tags; a location that is loaded at twice counts once.              *)
isLoad(t) == At(t.v.inst).op = "load"
Loads(p) ==
  {p.tag[n] : n \in {k \in DOMAIN p.tag : isLoad(p.tag[k]) /\ \A j \in DOMAIN p.tag : j > k => p.tag[j].v # p.tag[k].v}}
isPtoFromLocalPtr(p, ctx) ==
  IF Loads(p) = {} THEN is_local_ptr(p.ptr, ctx) # -1
  ELSE \A t \in Loads(p) :
         \/ isFunctionLocalE(t.priv)
         \/ isHeapLocationE(t.priv) /\ ~Escapes(t.priv, t.v, -1)
         \/ is_local_ptr(At(t.v.inst).ptr, t.v.ctx) > 0
isFromLocalPtr(ps, l) == IF ps = {} THEN {FALSE} ELSE {isPtoFromLocalPtr(p, l.ctx) : p \in ps}

----------------------------------------------------------------------------
(* _validateUAF_heu                                                        *)
isWithRefcnt(floc) ==
  \E i \in ToSet(floc.ctx) \cup {floc.inst} : getFunction(i) \in PutFunctions

isRecurTyAtIndex(ty, f) == ty \in ListTypes \/ FieldTypes[ty][f] \in {ty} \cup ListTypes
isRecNode(o) ==
  \E f \in DOMAIN FieldTypes[Obj(o).ty] : FieldTypes[Obj(o).ty][f] = Obj(o).ty /\ FieldPtos(mem, o, f) # {}
isFromLinkedList(o, ps) ==
  \/ isRecNode(o)
  \/ \E p \in ps : \E t \in Loads(p) :
       PointeeTy[At(t.v.inst).def] \in ListTypes \/ isRecurTyAtIndex(Obj(t.priv).ty, t.n)

(* The calls of a context through a pointer that comes from an argument.   *)
PtrSrcV(v) ==
  LET Step(u) == UNION {IF i.op = "cast" THEN {i.src} ELSE IF i.op = "gep" THEN {i.base}
                        ELSE IF i.op = "load" THEN {i.ptr} ELSE {} : i \in DefOf(u)}
      Before_(i, vs) == vs \cup UNION {Step(u) : u \in vs}
  IN FoldSet(Before_, {v}, Inst)
isOBIndCall(i) ==
  /\ "fptr" \in DOMAIN At(i)
  /\ \E a \in ToSet(At(i).args) : PtrSrcV(a) \cap PtrSrcV(At(i).fptr) # {}
OBCallSites(ctx) ==
  {getFunction(ctx[k + 1]) : k \in {n \in 2..Len(ctx) : n % 2 = 0 /\ isOBIndCall(ctx[n])}}
hasUnrelObjBoundIndirectCalls(loc0, loc1) ==
  \E f0 \in OBCallSites(loc0.ctx), f1 \in OBCallSites(loc1.ctx) :
    /\ f0 # f1
    /\ \E t0 \in Tables, t1 \in Tables :
         /\ t0.fn = f0 /\ t1.fn = f1 /\ t0.ty = t1.ty
         /\ t0.table # t1.table \/ t0.fid = t1.fid

heuRejects(floc, fobj, uloc, uobj) ==
  \/ isFunctionLocalE(fobj) \/ isFunctionLocalE(uobj)
  \/ isWithRefcnt(floc)
  \/ ~isGlobalObjectE(fobj) /\ isFromLinkedList(fobj, getFreePtos(fobj, floc))
  \/ ~isGlobalObjectE(uobj) /\ isFromLinkedList(uobj, getUsePtos(uobj, uloc))
  \/ hasUnrelObjBoundIndirectCalls(floc, uloc)
  \/ isHeapLocationE(fobj) /\ postDom(Obj(fobj).loc, floc, FALSE)

----------------------------------------------------------------------------
(* _isFreeWithInvalidRet: after the free an invalid pointer is returned.   *)
RetLocs(floc) ==
  {Loc(<<b, 1 + Cardinality({n \in DOMAIN code[b] : code[b][n].op = "phi"})>>, floc.ctx) :
     b \in {r \in getRetBBs(getFunction(floc.inst)) : At(Terminator(r)).op = "ret"}}
Rets(floc) == {r \in RetLocs(floc) : reachable(r, floc, {})}
isFreeWithInvalidRet(floc) ==
  LET f == getFunction(floc.inst)
      klocs == {Loc(i, floc.ctx) : i \in InvalidRets[f]}
  IN /\ f \in DOMAIN InvalidRets /\ InvalidRets[f] # {}
     /\ RetLocs(floc) # {} /\ \A r \in Rets(floc) : ~reachable(r, floc, klocs)
isUAFRet(fctx, uctx) == Common(fctx, uctx) < Len(fctx)

(* Mutant: also where the record itself has come by.                       *)
AltLocsOwn(p, s, uptos, uloc, uobj) ==
  UNION {ToSet(q.history) : q \in {r \in getPointsToObjects(uloc.ctx, p.ptr) \ uptos : r.dst # uobj}}

(* Where the pointer may be replaced by one to another object, unless that *)
(* is always so on the way of the record.                                  *)
AltLocs(p, s, uptos, uloc, uobj) ==
  LET others == {q \in getPointsToObjects(uloc.ctx, p.ptr) \ uptos : q.dst # uobj}
  IN {l \in (UNION {ToSet(q.history) : q \in others}) \ ToSet(p.history) : ~Tr!testInsertLoc(s, l, TRUE)}

(* _validateSeqUAF: the record with which the object is used makes a       *)
(* thread; the free fits into it, with no allocation or replacement of the *)
(* pointer on every way to it or from it.                                  *)
seqRejects(floc, uloc, uobj) ==
  \E uptos \in {getUsePtos(uobj, uloc)} : \E p \in uptos : \E t \in {Tr!init(p.history)} :
    /\ t.ok
    /\ \/ /\ isHeapLocationE(uobj) /\ Obj(uobj).loc.ctx # <<>> /\ At(Obj(uobj).loc.inst).op = "call"
          /\ ~canRefSameHeapObj(Obj(uobj).loc, floc, uloc, 1)
       \/ \E r \in {Tr!insertLoc(t.seq, floc)}, alts \in {AltLocs(p, t.seq, uptos, uloc, uobj)} :
            ~Tr!Inserted(r) \/ ~Tr!reachableWithBlockers(r.seq, floc, alts)

(* What an invocation has for itself must escape: before the use, or, if   *)
(* it is freed, also later, but not when an invalid pointer is returned.   *)
Own(o, l, ps) == isHeapLocationE(o) /\ TRUE \in isFromLocalPtr(ps, l)
Hidden(role, o, l) ==
  \E ends \in {IF role = "free" /\ isFreeWithInvalidRet(l) THEN Rets(l) ELSE {}} :
    \E k \in IF ends = {} THEN {l} ELSE ends :
      \E s \in {Tr!init(<<k, l>>).seq}, pos \in {IF role = "free" /\ ends = {} THEN 0 ELSE -1} :
        ~hasGlobalEscape(<<o>>, l, s, pos)

(* Of two invocations: neither may have the object for itself.             *)
conRejects(floc, fobj, uloc, uobj) ==
  \E own \in {{e \in {[role |-> "free", o |-> fobj, l |-> floc, ptos |-> getFreePtos(fobj, floc)],
                      [role |-> "use", o |-> uobj, l |-> uloc, ptos |-> getUsePtos(uobj, uloc)]} :
                 Own(e.o, e.l, e.ptos)}} :
    Cardinality(own) = 2 \/ \E e \in own : Hidden(e.role, e.o, e.l)

(* _validateUAF_obj                                                        *)
objRejects(floc, fobj, uloc, uobj) ==
  IF reachable(uloc, floc, {})
  THEN (isFreeWithInvalidRet(floc) /\ isUAFRet(floc.ctx, uloc.ctx)) \/ seqRejects(floc, uloc, uobj)
  ELSE conRejects(floc, fobj, uloc, uobj)

(* Whether the warning may be dropped.                                     *)
mayReject(floc, fobj, uloc, uobj) ==
  heuRejects(floc, fobj, uloc, uobj) \/ objRejects(floc, fobj, uloc, uobj)
=============================================================================
