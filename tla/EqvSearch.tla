----------------------------- MODULE EqvSearch -----------------------------
(***************************************************************************)
(* The search for equivalent objects (AliasObject::getForwardEqvObjs,      *)
(* getBackwardEqvObjs and their "Once" versions): what may be the same     *)
(* object as one that is stored in a field of another and loaded from      *)
(* there in a different entry function.                                    *)
(*                                                                         *)
(* The Once functions recurse over the objects that point to an object and *)
(* over the one it is embedded in; `stack' holds one frame per pending     *)
(* call.  One action is one iteration of the innermost loop; maps and sets *)
(* ordered by address are iterated in any order.  A map from objects to    *)
(* EqvObjPairs is a set of pairs <<object, path>>, and the pair of an      *)
(* object with itself, which has no paths, is the empty path.  Paths are   *)
(* trimmed when a pair has EF_PATH_TRIM_THRESHOLD (128) of them: left out. *)
(***************************************************************************)
EXTENDS EqvPath, FiniteSets

CONSTANTS
  Obj, NoObj,
  Pto,              \* pointsTo and pointsFrom of all objects: see Edge
  parent(_),        \* the object an object is embedded in, or NoObj
  getEmbObj(_, _),  \* getEmbObj(h, o): embedded in h where o is in parent(o), or NoObj
  isDummy(_),       \* a placeholder: an object that was not seen to be created
  type(_),          \* targetType
  RecurTypes,       \* isRecurTy: list nodes and the like
  SameTypes(_, _),  \* same_types, i8 matching any simple type
  MAX_EQV_OBJ_ITER, MAX_EQV_OBJ_NUM,
  MAX_EQV_OBJ_ENUM_CNT,  \* 0: no limit
  Queries           \* the calls <<direction, object>> of the rest of the program

(* Field `field' of src points to dst: to its base (dstfieldId = 0) or     *)
(* inside it; is_creation: dst was created to stand for what is loaded.    *)
Edge == [src : Obj, field : Nat, dst : Obj, base : BOOLEAN, is_creation : BOOLEAN]
Dir == {"forward", "backward"}

ASSUME EqvAssumption ==
  /\ NoObj \notin Obj /\ IsFiniteSet(Obj)
  /\ Pto \subseteq Edge
  /\ \A o \in Obj : parent(o) \in Obj \cup {NoObj} /\ isDummy(o) \in BOOLEAN
  /\ \A o, h \in Obj : getEmbObj(h, o) \in Obj \cup {NoObj} /\ SameTypes(o, h) \in BOOLEAN
  /\ \A o \in Obj : parent(o) # NoObj => getEmbObj(parent(o), o) \in {o, NoObj}
  /\ \A e \in Pto : e.is_creation => isDummy(e.dst)
  /\ MAX_EQV_OBJ_ITER \in Nat \ {0} /\ MAX_EQV_OBJ_NUM \in Nat
  /\ MAX_EQV_OBJ_ENUM_CNT \in Nat
  /\ Queries \subseteq Dir \X Obj

VARIABLES
  once,   \* fEqvObjs and bEqvObjs: {} if not cached
  all,    \* fEqvObjsAll and bEqvObjsAll
  query,  \* the state of getForwardEqvObjs or getBackwardEqvObjs
  stack,  \* the pending calls of the Once function
  cnt     \* curEqvEnumCnt, if there is a limit for it

vars == <<once, all, query, stack, cnt>>

NoQuery == [dir |-> "none", obj |-> NoObj, res |-> {}, new |-> {}, next |-> {}, iter |-> 0]

Init ==
  /\ once = [d \in Dir |-> [o \in Obj |-> {}]]
  /\ all = [d \in Dir |-> [o \in Obj |-> {}]]
  /\ query = NoQuery
  /\ stack = <<>>
  /\ cnt = 0

Keys(r) == { e[1] : e \in r }
Itself(o) == { <<o, <<>>>> }

----------------------------------------------------------------------------
(* Mutant: backward, every pointer to o counts.                            *)
EdgesToAny(d, o) == { e \in Pto : e.dst = o /\ e.base }

(* Pointers to the base of o; backward only those loaded as o.             *)
EdgesTo(d, o) ==
  { e \in Pto : e.dst = o /\ e.base /\ (d = "backward" => e.is_creation) }
PointsFrom(d, o) == { e.src : e \in EdgesTo(d, o) }

(* getFetchEdges and getEscapeEdges *)
FetchEdges(o, f) == { e \in Pto : e.src = o /\ e.field = f /\ e.is_creation }
EscapeEdges(o, f) == { e \in Pto : e.src = o /\ e.field = f }

Escape(e) == [label |-> "ESCAPE", pto |-> e]
Fetch(e) == [label |-> "FETCH", pto |-> e]

(* x may be the same object as o; what is loaded is a placeholder.         *)
MayBe(d, o, x) == x # o /\ SameTypes(o, x) /\ (d = "forward" => isDummy(x))

(* s points to o and q leads to what is equivalent to s.  Forward: o is    *)
(* stored in a field of s and loaded from that field of the other object.  *)
(* Backward: o is loaded from s, and something is stored in the other one. *)
Links(d, o, s, r) ==
  { t \in r \X EdgesTo(d, o) \X Pto :
      /\ t[2].src = s
      /\ t[3] \in IF d = "forward" THEN FetchEdges(t[1][1], t[2].field)
                                   ELSE EscapeEdges(t[1][1], t[2].field)
      /\ MayBe(d, o, t[3].dst) }

(* Mutant: the new nodes the other way around.                             *)
AroundCrossed(d, t) == Wrap(Escape(t[2]), t[1][2], Fetch(t[3]))

(* The path from where it escapes to where it is fetched.                  *)
Around(d, t) ==
  IF d = "forward" THEN Wrap(Escape(t[2]), t[1][2], Fetch(t[3]))
                   ELSE Wrap(Escape(t[3]), t[1][2], Fetch(t[2]))

(* r are the objects equivalent to s, which points to o.                   *)
ThroughPointer(d, o, s, r) == { <<t[3].dst, Around(d, t)>> : t \in Links(d, o, s, r) }

(* r are the objects equivalent to the one o is embedded in.               *)
ThroughHost(d, o, r) ==
  { <<getEmbObj(q[1], o), q[2]>> :
      q \in { t \in r : getEmbObj(t[1], o) # NoObj /\ MayBe(d, o, getEmbObj(t[1], o)) } }

----------------------------------------------------------------------------
(* validateEqvStack: a call that would not end, or take too long.          *)
Limited(n) == MAX_EQV_OBJ_ENUM_CNT > 0 /\ n > MAX_EQV_OBJ_ENUM_CNT

Validate(hist, o, n) ==
  LET pending == { hist[i] : i \in DOMAIN hist } IN
  CASE Limited(n) -> -9
    [] ~Limited(n) /\ o \in pending -> -1
    [] ~Limited(n) /\ o \notin pending /\ type(o) \in RecurTypes
         /\ type(o) \in { type(h) : h \in pending } -> -2
    [] ~Limited(n) /\ o \notin pending /\ type(o) \notin RecurTypes
         /\ Len(hist) > 1 /\ type(o) \in { type(h) : h \in pending } -> -3
    [] OTHER -> 0

(* A call that has started.  Only a placeholder came from somewhere.       *)
Frame(d, o) ==
  LET search == d = "forward" \/ isDummy(o) IN
  [obj |-> o, via |-> "none",
   host |-> search /\ parent(o) # NoObj,
   from |-> IF search THEN PointsFrom(d, o) ELSE {},
   res |-> Itself(o), err |-> 0, aborted |-> FALSE]

History == [i \in DOMAIN stack |-> stack[i].obj]
Counted == IF MAX_EQV_OBJ_ENUM_CNT = 0 THEN 0 ELSE cnt + 1

(* What frame f makes of the answer r and error e of its call for o.  In   *)
(* the loop of the forward search "err" is a variable of its own, and the  *)
(* function returns the one of the host.                                   *)
Absorb(f, o, r, e) ==
  IF f.via = "host"
  THEN [f EXCEPT !.host = FALSE, !.via = "none", !.err = e,
                 !.aborted = @ \/ e < 0,
                 !.res = @ \cup ThroughHost(query.dir, f.obj, r)]
  ELSE [f EXCEPT !.from = IF e = -9 THEN {} ELSE @ \ {o}, !.via = "none",
                 !.err = IF query.dir = "forward" THEN @ ELSE e,
                 !.aborted = @ \/ e < 0,
                 !.res = @ \cup ThroughPointer(query.dir, f.obj, o, r)]

(* The top frame calls for object o: a cached answer, an error, or a new   *)
(* frame.                                                                  *)
Call(o, via) ==
  LET top == [stack[Len(stack)] EXCEPT !.via = via]
      below == SubSeq(stack, 1, Len(stack) - 1)
      cached == once[query.dir][o]
      err == Validate(History, o, Counted)
  IN
  /\ \/ /\ cached # {}
        /\ stack' = Append(below, Absorb(top, o, cached, 0))
        /\ UNCHANGED cnt
     \/ /\ cached = {} /\ err < 0
        /\ stack' = Append(below, Absorb(top, o, {}, err))
        /\ cnt' = Counted
     \/ /\ cached = {} /\ err = 0
        /\ stack' = below \o <<top, Frame(query.dir, o)>>
        /\ cnt' = Counted
  /\ UNCHANGED <<once, all, query>>

callHost ==
  /\ stack # <<>>
  /\ stack[Len(stack)].host
  /\ Call(parent(stack[Len(stack)].obj), "host")

callPointsFrom(o) ==
  /\ stack # <<>>
  /\ ~stack[Len(stack)].host
  /\ o \in stack[Len(stack)].from
  /\ Call(o, "from")

----------------------------------------------------------------------------
(* The layer after o: its answer r goes into the result, by a path that    *)
(* leads over o; objects that are there already keep their paths.          *)
Joined(d, p, q) == IF d = "forward" THEN Connect(p, q) ELSE Connect(q, p)
AbsorbLayer(o, r) ==
  LET before == { x \in query.res : x[1] = o }
      fresh == { e \in r : e[1] \notin Keys(query.res) }
  IN
  [query EXCEPT
     !.res = @ \cup { <<t[2][1], Joined(query.dir, t[1][2], t[2][2])>> : t \in before \X fresh },
     !.next = @ \cup { x \in Keys(fresh) : query.dir = "forward" \/ isDummy(x) }]

(* "Fill in the cache if all recursions have been finished".               *)
MayCache(f) == Len(stack) = 1 \/ ~f.aborted

(* Mutant: it returns after the host or the first that points to it.       *)
returnEarly ==
  LET top == stack[Len(stack)]
      below == SubSeq(stack, 1, Len(stack) - 1)
      n == Len(below)
  IN
  /\ stack # <<>>
  /\ ~top.host
  /\ once' = [once EXCEPT ![query.dir][top.obj] = top.res]
  /\ IF n = 0
     THEN /\ stack' = <<>>
          /\ query' = AbsorbLayer(top.obj, top.res)
     ELSE /\ stack' = [below EXCEPT ![n] = Absorb(@, top.obj, top.res, top.err)]
          /\ UNCHANGED query
  /\ UNCHANGED <<all, cnt>>

return ==
  LET top == stack[Len(stack)]
      below == SubSeq(stack, 1, Len(stack) - 1)
      n == Len(below)
  IN
  /\ stack # <<>>
  /\ ~top.host /\ top.from = {}
  /\ once' = IF MayCache(top) THEN [once EXCEPT ![query.dir][top.obj] = top.res] ELSE once
  /\ IF n = 0
     THEN /\ stack' = <<>>
          /\ query' = AbsorbLayer(top.obj, top.res)
     ELSE /\ stack' = [below EXCEPT ![n] = Absorb(@, top.obj, top.res, top.err)]
          /\ UNCHANGED query
  /\ UNCHANGED <<all, cnt>>

----------------------------------------------------------------------------
(* getForwardEqvObjs, getBackwardEqvObjs: layer upon layer of once.        *)
ask(d, o) ==
  /\ query = NoQuery
  /\ <<d, o>> \in Queries
  /\ all[d][o] = {}
  /\ query' = [dir |-> d, obj |-> o, res |-> Itself(o), new |-> {o}, next |-> {}, iter |-> 0]
  /\ UNCHANGED <<once, all, stack, cnt>>

(* Mutant: the object is not taken off.                                    *)
takeNewKept(o) ==
  LET cached == once[query.dir][o] IN
  /\ stack = <<>>
  /\ o \in query.new
  /\ \/ /\ cached # {}
        /\ query' = AbsorbLayer(o, cached)
        /\ UNCHANGED <<stack, cnt>>
     \/ /\ cached = {}
        /\ stack' = <<Frame(query.dir, o)>>
        /\ cnt' = IF MAX_EQV_OBJ_ENUM_CNT = 0 THEN 0 ELSE 1
        /\ UNCHANGED query
  /\ UNCHANGED <<once, all>>

takeNew(o) ==
  LET cached == once[query.dir][o] IN
  /\ stack = <<>>
  /\ o \in query.new
  /\ \/ /\ cached # {}
        /\ query' = [AbsorbLayer(o, cached) EXCEPT !.new = @ \ {o}]
        /\ UNCHANGED <<stack, cnt>>
     \/ /\ cached = {}
        /\ query' = [query EXCEPT !.new = @ \ {o}]
        /\ stack' = <<Frame(query.dir, o)>>
        /\ cnt' = IF MAX_EQV_OBJ_ENUM_CNT = 0 THEN 0 ELSE 1
  /\ UNCHANGED <<once, all>>

endLayer ==
  LET last == \/ query.iter + 1 >= MAX_EQV_OBJ_ITER
              \/ Cardinality(Keys(query.res)) >= MAX_EQV_OBJ_NUM
              \/ query.next = {}
  IN
  /\ query # NoQuery /\ stack = <<>> /\ query.new = {}
  /\ \/ /\ last
        /\ all' = [all EXCEPT ![query.dir][query.obj] = query.res]
        /\ query' = NoQuery
     \/ /\ ~last
        /\ query' = [query EXCEPT !.new = query.next, !.next = {}, !.iter = @ + 1]
        /\ UNCHANGED all
  /\ UNCHANGED <<once, stack, cnt>>

Next ==
  \/ \E q \in Queries : ask(q[1], q[2])
  \/ \E o \in query.new : takeNew(o)
  \/ callHost
  \/ \E o \in Obj : callPointsFrom(o)
  \/ return \/ endLayer

Terminated ==
  /\ query = NoQuery
  /\ \A q \in Queries : all[q[1]][q[2]] # {}
  /\ UNCHANGED vars

Spec == Init /\ [][Next \/ Terminated]_vars
LiveSpec == Spec /\ WF_vars(Next)
----------------------------------------------------------------------------
(* Every cached answer has the object itself, and the pending calls are    *)
(* those of the query (the first one is an object of its layer).           *)
Pairs(r) == \A e \in r : e[1] \in Obj /\ \A i \in DOMAIN e[2] : e[2][i].pto \in Pto
TypeOK ==
  /\ \A d \in Dir, o \in Obj : \A r \in {once[d][o], all[d][o]} :
       Pairs(r) /\ (r # {} => <<o, <<>>>> \in r)
  /\ query # NoQuery =>
       /\ query.dir \in Dir /\ query.obj \in Obj /\ Pairs(query.res)
       /\ query.new \cup query.next \subseteq Keys(query.res)
       /\ query.iter \in 0..(MAX_EQV_OBJ_ITER - 1)
  /\ stack # <<>> =>
       /\ query # NoQuery /\ stack[1].obj \in Keys(query.res)
       /\ \A i \in DOMAIN stack :
            /\ stack[i].obj \in Obj /\ stack[i].from \subseteq Obj /\ Pairs(stack[i].res)
            /\ stack[i].err \in {0, -1, -2, -3, -9}
            /\ i < Len(stack) <=> stack[i].via # "none"
  /\ cnt \in Nat

(* o and the objects it is embedded in, as their parents or they know it.  *)
HostOf == [o \in Obj |-> { h \in Obj : h = parent(o) \/ \E x \in Obj : getEmbObj(h, x) = o }]
HostClosed == { S \in SUBSET Obj : \A x \in S : HostOf[x] \subseteq S }
HostsOf == [o \in Obj |-> { h \in Obj : \A S \in HostClosed : o \in S => h \in S }]

(* One node of a path leads on to the next one, possibly by way of an      *)
(* object embedded in the one that is reached.                             *)
LeadsOn(m, n) ==
  CASE m.label = "ESCAPE" /\ n.label = "ESCAPE" -> n.pto.dst \in HostsOf[m.pto.src]
    [] m.label = "ESCAPE" /\ n.label = "FETCH" -> n.pto.src = m.pto.src
    [] m.label = "FETCH" /\ n.label = "FETCH" -> m.pto.dst \in HostsOf[n.pto.src]
    [] OTHER -> \E o \in Obj : {m.pto.dst, n.pto.dst} \subseteq HostsOf[o]

(* p is a way in which x escapes and is fetched as y: node for node, and   *)
(* what is stored in a field is fetched from the same field.               *)
Leads(x, p, y) ==
  IF p = <<>> THEN x = y ELSE
  /\ p[1].label = "ESCAPE" /\ p[1].pto.dst \in HostsOf[x]
  /\ p[Len(p)].label = "FETCH" /\ p[Len(p)].pto.dst \in HostsOf[y]
  /\ \A i \in 1..(Len(p) - 1) : LeadsOn(p[i], p[i + 1])
  /\ Mirrored(p)
  /\ \A i \in DOMAIN p : p[PairedIndex(p, i)].pto.field = p[i].pto.field
  /\ \A i \in Labelled(p, "FETCH") : p[i].pto.is_creation

(* Every path that is found leads from the one object to the other:        *)
(* ThreadSched's replay of an EqvPath, and its pairing of escapes with     *)
(* fetches, rest on it.                                                    *)
PathsLead ==
  \A d \in Dir, o \in Obj : \A e \in once[d][o] \cup all[d][o] :
    IF d = "forward" THEN Leads(o, e[2], e[1]) ELSE Leads(e[1], e[2], o)

(* All that is found is found layer by layer: the objects of layer n + 1   *)
(* are those one escape and fetch away from layer n, until nothing new is  *)
(* found or a limit is reached, and the paths to an object all lead over   *)
(* one object of the layer before.                                         *)
Searched(d, S) == { x \in S : d = "forward" \/ isDummy(x) }
Layer(d, o) ==
  LET l[n \in 0..MAX_EQV_OBJ_ITER] ==
        IF n = 0 THEN {o}
        ELSE l[n - 1] \cup UNION { Keys(once[d][x]) : x \in Searched(d, l[n - 1]) \cup {o} }
  IN l
PathsTo(r, y) == { e[2] : e \in { x \in r : x[1] = y } }
AllIsLayers ==
  \A d \in Dir, o \in Obj : all[d][o] # {} =>
    /\ \E n \in 1..MAX_EQV_OBJ_ITER :
         /\ Keys(all[d][o]) = Layer(d, o)[n]
         /\ \A x \in Searched(d, Layer(d, o)[n - 1]) : once[d][x] # {}
         /\ \/ n = MAX_EQV_OBJ_ITER
            \/ Cardinality(Keys(all[d][o])) >= MAX_EQV_OBJ_NUM
            \/ Searched(d, Layer(d, o)[n]) \subseteq Layer(d, o)[n - 1]
    /\ \A y \in Keys(all[d][o]) \ {o} : \E x \in Searched(d, Keys(all[d][o])) \cup {o} :
         PathsTo(all[d][o], y) =
           { Joined(d, t[1], t[2]) : t \in PathsTo(all[d][o], x) \X PathsTo(once[d][x], y) }

(* What the search has to go through for o: hosts and objects that point   *)
(* to it, and theirs.                                                      *)
Host(o) == {parent(o)} \ {NoObj}
Sources == [d \in Dir |-> [o \in Obj |-> PointsFrom(d, o) \cup Host(o)]]
AllAbove(next) ==
  LET closed == { S \in SUBSET Obj : \A x \in S : next[x] \subseteq S }
  IN [o \in Obj |-> { x \in Obj : \A S \in closed : o \in S => x \in S }]
Above == [d \in Dir |-> AllAbove(Sources[d])]

(* No search for o meets one of the reasons to give up.                    *)
Settled(d) ==
  { o \in Obj :
      /\ \A x, y \in Above[d][o] : x # y => type(x) # type(y)
      /\ \A x \in Above[d][o] : \A y \in Sources[d][x] : x \notin Above[d][y] }

(* What a search that asks nobody else's cache returns for such an object. *)
FreshAnswer(d) ==
  LET f[o \in Settled(d)] ==
        Itself(o) \cup
        IF d = "backward" /\ ~isDummy(o) THEN {}
        ELSE (UNION { ThroughPointer(d, o, s, f[s]) : s \in PointsFrom(d, o) })
               \cup (IF parent(o) = NoObj THEN {} ELSE ThroughHost(d, o, f[parent(o)]))
  IN f
Fresh == [d \in Dir |-> FreshAnswer(d)]

(* No type repeats on the way over an object that can be searched to the   *)
(* end: only then does no call that others have made cut its search short. *)
TypesApart ==
  \A d \in Dir : \A o \in Settled(d) : \A x \in Obj \ {o} : \A y \in Above[d][o] \ {o} :
    o \in Above[d][x] => type(x) # type(y)

(* And none was made too often (curEqvEnumCnt).                            *)
NothingCutShort == TypesApart /\ MAX_EQV_OBJ_ENUM_CNT = 0

(* A cached answer is what a search would find that starts from nothing,   *)
(* whatever was searched before and whichever calls were cut short on the  *)
(* way: "Fill in the cache if all recursions have been finished".          *)
AsFresh ==
  \A d \in Dir : \A o \in DOMAIN Fresh[d] : once[d][o] # {} => once[d][o] = Fresh[d][o]

(* Both caches hold what a search from nothing finds, one layer and all.   *)
CachesExact == AsFresh /\ AllIsLayers

(* What the two directions look for is the same: no pointer leads into the *)
(* middle of an object, types compare the same both ways, and what is      *)
(* embedded knows where.                                                   *)
Convertible ==
  /\ \A e \in Pto : e.base
  /\ \A x, y \in Obj : SameTypes(x, y) => SameTypes(y, x)
  /\ \A x, y, h \in Obj :
       parent(x) # NoObj /\ x # y /\ SameTypes(x, y) /\ getEmbObj(h, x) = y =>
         parent(y) = h /\ getEmbObj(parent(x), y) = x

Agree(x, y) ==
  once["forward"][x] # {} /\ once["backward"][y] # {} =>
    PathsTo(once["forward"][x], y) = PathsTo(once["backward"][y], x)

(* The two directions agree: y is a forward equivalent of x exactly if x   *)
(* is a backward equivalent of y, by the same paths, as both "only care    *)
(* about the pto records which point to the base" of an object.            *)
Converse == \A x, y \in Obj : Agree(x, y)

(* Every query is answered.                                                *)
Answered == \A q \in Queries : <>(all[q[1]][q[2]] # {})
=============================================================================
