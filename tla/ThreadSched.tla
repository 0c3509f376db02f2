---------------------------- MODULE ThreadSched ----------------------------
(***************************************************************************)
(* The life of one schedule (class ThreadSched): GlobalState::validateUAF  *)
(* builds it for a warning and asks whether the free can come before the   *)
(* use.  The schedule starts with the two sites, is given the escape and   *)
(* fetch sites that lead the freed object to the use, then, round by       *)
(* round, the locks around every event and the condition checks on the way *)
(* to it with the sites that kill them, and finally the order constraints  *)
(* that the solver decides.                                                *)
(*                                                                         *)
(* One action is one iteration of the innermost loop.  Containers ordered  *)
(* by address are iterated in any order, except that the lock records keep *)
(* one order (warn.rank) throughout: it decides which unlock is "first"    *)
(* and how locks are clustered.  addSyncTrLocs is left out: it acts on     *)
(* GlobalState::callbacks, which no pass of this build fills.              *)
(***************************************************************************)
EXTENDS ThreadOps, EqvPath, FiniteSets

CONSTANTS
  Warnings,          \* the calls of validateUAF: see Warning
  LockInfos,         \* GlobalState::locks
  LockLoc(_),        \* LockInfo::loc, of a lock
  Unlocks(_),        \* LockInfo::pairs: the locations of its unlocks
  IsCtxPrefix(_, _), \* lock->loc->isCtxPrefix(loc) >= 0
  SameLockObjs(_, _),\* GlobalState::sameLockObjs
  CriticalBranches(_), \* getCriticalBranches: [check, killers] for a location
  EscapesLocalHeap(_), \* the escaped object is a heap object of that invocation
  MaxIterations,     \* MAX_SUPP_LOC_ADD_ITERATION
  MaxLocs            \* MAX_SUPP_LOC_ADD_NUM

EventTypes == {"FREE", "USE", "LOCK", "UNLOCK", "GSET", "GCHECK", "ESCAPE", "FETCH"}
PathNode == [label : {"ESCAPE", "FETCH"}, loc : Loc]

(* The free and the use site; the escape/fetch paths that end at them      *)
(* (empty: none); the order of addresses of locks and unlocks.             *)
Warning == [floc : Loc, uloc : Loc, paths : Seq(Seq(PathNode)), rank : Seq(LockInfos \cup Loc)]

ASSUME SchedAssumption ==
  /\ Types = EventTypes
  /\ Warnings \subseteq Warning
  /\ \A w \in Warnings : Len(w.paths) = 2 /\ Mirrored(w.paths[1]) /\ Mirrored(w.paths[2])
  /\ \A w \in Warnings : \A k \in LockInfos : {k} \cup Unlocks(k) \subseteq ToSet(w.rank)
  /\ \A l \in Loc : CriticalBranches(l) \subseteq [check : Loc, killers : SUBSET Loc]
  /\ \A l \in Loc : \A b \in CriticalBranches(l) : Dom(b.check, l) /\ b.check # l
  /\ \A k \in LockInfos : LockLoc(k) \in Loc /\ Unlocks(k) \subseteq Loc
  /\ MaxIterations \in Nat \ {0} /\ MaxLocs \in Nat

VARIABLES
  warn,     \* the arguments of validateUAF
  pc,       \* where validateUAF is
  trs,      \* ThreadSched::trs, each a sequence of nodes
  poc,      \* POConstraint: the pairs <<a, b>> with a before b
  excl,     \* POConstraint: the disjunctions, as sets of such pairs
  lockMap,  \* ThreadSched::lockMap
  ef,       \* addOneEFPath: path, index, currLoc and nextLoc
  work,     \* addSuppTrLocs: currLocs, newLocs, n_iter, n_locs
  job,      \* addLockTrLocs and addCondTrLocs: what they still have to do, and
            \* the threads without the check at hand, which only a property reads
  verdict   \* the answer of validateUAF

vars == <<warn, pc, trs, poc, excl, lockMap, ef, work, job, verdict>>

----------------------------------------------------------------------------
(* An event is a node of a thread (an InstLocTr): its thread and location. *)
None == <<0, 0>>
Live == UNION { { <<i, l>> : l \in Locs(trs[i]) } : i \in DOMAIN trs }
At(e) == IndexOf(trs[e[1]], e[2])
TypesOf(e) == trs[e[1]][At(e)].ty
FreeEvent == <<1, warn.floc>>
UseEvent == IF Reach(warn.floc, warn.uloc) THEN <<1, warn.uloc>> ELSE <<2, warn.uloc>>

TryInsert(s, l, ty, stop, start) == InsertLoc(s, l, {ty}, TRUE, FALSE, stop, start)
Put(i, r) == [trs EXCEPT ![i] = r.seq]

(* Mutant: only whole nodes are taken back.                               *)
RollBackNodes(s, l, ty, ec) == IF ec >= 0 THEN RemoveLoc(s, l, {ty}).seq ELSE s

(* An insertion is taken back unless the event had the type before.        *)
RollBack(s, l, ty, ec) == IF ec # SameExists THEN RemoveLoc(s, l, {ty}).seq ELSE s

(* ThreadSched::addLoc: the first thread that takes the location.          *)
Takers(ts, l, ty, blockList) ==
  { i \in DOMAIN ts \ blockList : Inserted(TryInsert(ts[i], l, ty, 0, 0)) }

(* initThread: a thread of one event.                                      *)
NewThread(l, ty) == <<[loc |-> l, ty |-> {ty}]>>

(* POConstraint::addConstraint drops a pair of one event with itself.      *)
Before(a, b) == { p \in {<<a, b>>} : a # b }

Idle == [loc |-> None, locks |-> {}, branches |-> {}, check |-> None,
         ec |-> 0, killers |-> {}, kept |-> {}, before |-> <<>>]

Init ==
  /\ warn \in Warnings
  /\ pc = "initFree"
  /\ trs = <<>>
  /\ poc = {} /\ excl = {} /\ lockMap = {}
  /\ ef = [path |-> 1, i |-> 0, curr |-> None, next |-> None]
  /\ work = [curr |-> {}, new |-> {}, iter |-> 0, locs |-> 0]
  /\ job = Idle
  /\ verdict = "none"

(* An early return of -1: validateUAF answers false.                       *)
Reject ==
  /\ pc' = "done"
  /\ verdict' = "infeasible"

----------------------------------------------------------------------------
(* initUAFThreads *)
initFree ==
  /\ pc = "initFree"
  /\ pc' = "initUse"
  /\ trs' = Append(trs, NewThread(warn.floc, "FREE"))
  /\ UNCHANGED <<warn, poc, excl, lockMap, ef, work, job, verdict>>

StartEF ==
  /\ pc' = "ef"
  /\ poc' = poc \cup Before(FreeEvent, UseEvent)
  /\ ef' = [path |-> 1, i |-> Len(warn.paths[1]), curr |-> FreeEvent, next |-> None]

(* The free reaches the use: one thread, the use right after the free.     *)
initUseSameThread ==
  LET r == TryInsert(trs[1], warn.uloc, "USE", 0, 0) IN
  /\ pc = "initUse"
  /\ Reach(warn.floc, warn.uloc)
  /\ trs' = Put(1, r)
  /\ \/ r.ec = 1 /\ StartEF /\ UNCHANGED verdict
     \/ r.ec # 1 /\ Reject /\ UNCHANGED <<poc, ef>>
  /\ UNCHANGED <<warn, excl, lockMap, work, job>>

initUseOtherThread ==
  /\ pc = "initUse"
  /\ ~Reach(warn.floc, warn.uloc)
  /\ trs' = Append(trs, NewThread(warn.uloc, "USE"))
  /\ StartEF
  /\ UNCHANGED <<warn, excl, lockMap, work, job, verdict>>

----------------------------------------------------------------------------
(* addEFPaths and addOneEFPath: each path from its end to its start. *)
EFPath == warn.paths[ef.path]

efEscapeNode ==
  /\ pc = "ef" /\ ef.i > 0
  /\ EFPath[ef.i].label = "ESCAPE"
  /\ ef' = [ef EXCEPT !.i = @ - 1, !.next = None,
                      !.curr = IF ef.next # None THEN ef.next ELSE @]
  /\ UNCHANGED <<warn, pc, trs, poc, excl, lockMap, work, job, verdict>>

(* The escape goes before the fetch in the same thread, or else into any   *)
(* other thread, or else into one of its own.                              *)
PlaceEscape(ts, ctr, fl, el) ==
  LET here == TryInsert(ts[ctr], el, "ESCAPE", IndexOf(ts[ctr], fl), 0)
      takers == Takers(ts, el, "ESCAPE", {ctr})
  IN
  IF Inserted(here) THEN [tr |-> ctr, trs |-> [ts EXCEPT ![ctr] = here.seq]]
  ELSE IF takers # {}
       THEN LET i == First(takers) IN
            [tr |-> i, trs |-> [ts EXCEPT ![i] = TryInsert(@, el, "ESCAPE", 0, 0).seq]]
       ELSE [tr |-> Len(ts) + 1, trs |-> Append(ts, NewThread(el, "ESCAPE"))]

(* A fetch node goes before currLoc in its thread, with its escape.  An    *)
(* object of that invocation cannot have escaped in one of its own.        *)
efFetchNode ==
  LET fl == EFPath[ef.i].loc
      el == EFPath[PairedIndex(EFPath, ef.i)].loc
      ctr == ef.curr[1]
  IN
  /\ pc = "ef" /\ ef.i > 0
  /\ EFPath[ef.i].label = "FETCH"
  /\ \E rf \in {TryInsert(trs[ctr], fl, "FETCH", At(ef.curr), 0)} :
       \/ /\ ~Inserted(rf)
          /\ Reject
          /\ UNCHANGED <<trs, poc, ef>>
       \/ /\ Inserted(rf)
          /\ \E es \in {PlaceEscape(Put(ctr, rf), ctr, fl, el)} :
               /\ trs' = es.trs
               /\ IF es.trs[es.tr] = NewThread(el, "ESCAPE") /\ EscapesLocalHeap(el)
                  THEN Reject /\ UNCHANGED <<poc, ef>>
                  ELSE /\ poc' = poc \cup Before(<<es.tr, el>>, <<ctr, fl>>)
                       /\ ef' = [ef EXCEPT !.i = @ - 1,
                                           !.next = IF @ = None THEN <<es.tr, el>> ELSE @]
                       /\ UNCHANGED <<pc, verdict>>
  /\ UNCHANGED <<warn, excl, lockMap, work, job>>

efNextPath ==
  /\ pc = "ef" /\ ef.i = 0 /\ ef.path = 1
  /\ ef' = [path |-> 2, i |-> Len(warn.paths[2]), curr |-> UseEvent, next |-> None]
  /\ UNCHANGED <<warn, pc, trs, poc, excl, lockMap, work, job, verdict>>

efDone ==
  /\ pc = "ef" /\ ef.i = 0 /\ ef.path = 2
  /\ pc' = "supp"
  /\ work' = [curr |-> Live, new |-> {}, iter |-> 0, locs |-> Cardinality(Live)]
  /\ UNCHANGED <<warn, trs, poc, excl, lockMap, ef, job, verdict>>

----------------------------------------------------------------------------
(* addSuppTrLocs: a worklist over the events. *)

(* GlobalState::getLock4Loc: the locks held at l, and their unlocks that l *)
(* reaches without taking the lock again.                                  *)
PairedUnlocks(k, l) == { u \in Unlocks(k) : Reaches(l, u, {LockLoc(k)}) }
Lock4Loc(l) ==
  { k \in LockInfos : /\ IsCtxPrefix(LockLoc(k), l)
                      /\ Reach(LockLoc(k), l)
                      /\ PairedUnlocks(k, l) # {} }

Foremost(rank, S) == rank[First({ i \in DOMAIN rank : rank[i] \in S })]

(* Mutant: the event stays on the worklist.                                *)
takeLocKept(e) ==
  /\ pc = "supp"
  /\ e \in work.curr
  /\ job' = [Idle EXCEPT !.loc = e, !.locks = Lock4Loc(e[2])]
  /\ pc' = "lock"
  /\ UNCHANGED <<warn, trs, poc, excl, lockMap, ef, work, verdict>>

takeLoc(e) ==
  /\ pc = "supp"
  /\ e \in work.curr
  /\ work' = [work EXCEPT !.curr = @ \ {e}]
  /\ job' = [Idle EXCEPT !.loc = e,
                         !.locks = Lock4Loc(e[2]),
                         !.branches = { b \in CriticalBranches(e[2]) : b.killers # {} }]
  /\ pc' = "lock"
  /\ UNCHANGED <<warn, trs, poc, excl, lockMap, ef, verdict>>

(* Only an event that the insertion created is new.                        *)
Created(e, ec) == { x \in {e} : ec >= 0 }

(* Lock k around event e, in its thread; the first of its unlocks is taken.*)
InsertLock(e, k) == TryInsert(trs[e[1]], LockLoc(k), "LOCK", At(e), 0)
FirstUnlock(e, k) == Foremost(warn.rank, PairedUnlocks(k, e[2]))

InsertUnlock(s, e, k) == TryInsert(s, FirstUnlock(e, k), "UNLOCK", 0, IndexOf(s, e[2]))
LockPair(e, k) ==
  [info |-> k, lk |-> <<e[1], LockLoc(k)>>, uk |-> <<e[1], FirstUnlock(e, k)>>]

(* addLockTrLocs, one lock: both the lock and the unlock go in, or neither.*)
addLock(k) ==
  LET i == job.loc[1]
      p == LockPair(job.loc, k)
  IN
  /\ pc = "lock"
  /\ k \in job.locks
  /\ job' = [job EXCEPT !.locks = @ \ {k}]
  /\ \E r0 \in {InsertLock(job.loc, k)} :
       \/ /\ ~Inserted(r0)
          /\ UNCHANGED <<trs, lockMap, work>>
       \/ /\ Inserted(r0)
          /\ \E r1 \in {InsertUnlock(r0.seq, job.loc, k)} :
               \/ /\ ~Inserted(r1)
                  /\ trs' = [trs EXCEPT ![i] = RollBack(r0.seq, p.lk[2], "LOCK", r0.ec)]
                  /\ UNCHANGED <<lockMap, work>>
               \/ /\ Inserted(r1)
                  /\ trs' = Put(i, r1)
                  /\ lockMap' = lockMap \cup {p}
                  /\ work' = [work EXCEPT !.new = @ \cup Created(p.lk, r0.ec)
                                                    \cup Created(p.uk, r1.ec)]
  /\ UNCHANGED <<warn, pc, poc, excl, ef, verdict>>

(* Mutant: the check may go anywhere in the thread of the event.           *)
InsertCheckAnywhere(b) == TryInsert(trs[job.loc[1]], b.check, "GCHECK", 0, 0)

(* addCondTrLocs, one check: it goes before the event in its thread.       *)
InsertCheck(b) == TryInsert(trs[job.loc[1]], b.check, "GCHECK", At(job.loc), 0)

addCheck(b) ==
  /\ pc = "lock" /\ job.locks = {}
  /\ b \in job.branches
  /\ \E r \in {InsertCheck(b)} :
       /\ trs' = Put(job.loc[1], r)
       /\ job' = [job EXCEPT !.branches = @ \ {b}, !.check = <<job.loc[1], b.check>>,
                             !.ec = r.ec, !.killers = IF Inserted(r) THEN b.killers ELSE {},
                             !.before = IF Inserted(r) THEN trs ELSE <<>>]
       /\ pc' = IF Inserted(r) THEN "killer" ELSE "lock"
  /\ UNCHANGED <<warn, poc, excl, lockMap, ef, work, verdict>>

(* In thread s of number i: the killer at l is not after the check.        *)
NotAfter(i, s, l) == i = job.check[1] /\ IndexOf(s, l) <= IndexOf(s, job.check[2])

(* _noKill: a killer before the check that does not dominate it, and that  *)
(* no free comes before, is not believed.                                  *)
NoKill(i, s, l) ==
  /\ NotAfter(i, s, l)
  /\ ~Dom(l, job.check[2])
  /\ \A j \in 1 .. IndexOf(s, l) - 1 : s[j].ty # {"FREE"}

(* The killer goes into any thread; whether it stays depends on where.     *)
addKiller(l) ==
  /\ pc = "killer"
  /\ l \in job.killers
  /\ \E takers \in {Takers(trs, l, "GSET", {})} :
       \/ /\ takers = {}
          /\ job' = [job EXCEPT !.killers = @ \ {l}]
          /\ UNCHANGED <<pc, trs, poc, work, verdict>>
       \/ /\ takers # {}
          /\ \E i \in {First(takers)} :
             \E r \in {TryInsert(trs[i], l, "GSET", 0, 0)} :
               \/ /\ NoKill(i, r.seq, l)
                  /\ trs' = [trs EXCEPT ![i] = RollBack(r.seq, l, "GSET", r.ec)]
                  /\ job' = [job EXCEPT !.killers = @ \ {l}]
                  /\ UNCHANGED <<pc, poc, work, verdict>>
               \/ /\ NotAfter(i, r.seq, l) /\ ~NoKill(i, r.seq, l)   \* _mustKill
                  /\ trs' = Put(i, r)
                  /\ Reject
                  /\ UNCHANGED <<poc, job, work>>
               \/ /\ ~NotAfter(i, r.seq, l)
                  /\ trs' = Put(i, r)
                  /\ poc' = poc \cup Before(job.check, <<i, l>>)
                  /\ job' = [job EXCEPT !.killers = @ \ {l}, !.kept = @ \cup {<<i, l>>}]
                  /\ work' = [work EXCEPT !.new = @ \cup Created(<<i, l>>, r.ec)]
                  /\ UNCHANGED <<pc, verdict>>
  /\ UNCHANGED <<warn, excl, lockMap, ef>>

(* Mutant: the check is taken out as if it were a killer.                  *)
endCheckAsKiller ==
  /\ pc = "killer"
  /\ job.killers = {}
  /\ \/ /\ job.kept = {}
        /\ trs' = [trs EXCEPT ![job.check[1]] = RollBack(@, job.check[2], "GSET", job.ec)]
        /\ UNCHANGED work
     \/ /\ job.kept # {}
        /\ work' = [work EXCEPT !.new = @ \cup Created(job.check, job.ec)]
        /\ UNCHANGED trs
  /\ job' = [job EXCEPT !.check = None, !.ec = 0, !.kept = {}, !.before = <<>>]
  /\ pc' = "lock"
  /\ UNCHANGED <<warn, poc, excl, lockMap, ef, verdict>>

(* A check left without a killer is taken out again.                       *)
endCheck ==
  LET i == job.check[1] IN
  /\ pc = "killer"
  /\ job.killers = {}
  /\ \/ /\ job.kept = {}
        /\ trs' = [trs EXCEPT ![i] = RollBack(@, job.check[2], "GCHECK", job.ec)]
        /\ UNCHANGED work
     \/ /\ job.kept # {}
        /\ work' = [work EXCEPT !.new = @ \cup Created(job.check, job.ec)]
        /\ UNCHANGED trs
  /\ job' = [job EXCEPT !.check = None, !.ec = 0, !.kept = {}, !.before = <<>>]
  /\ pc' = "lock"
  /\ UNCHANGED <<warn, poc, excl, lockMap, ef, verdict>>

endLoc ==
  /\ pc = "lock" /\ job.locks = {} /\ job.branches = {}
  /\ pc' = "supp"
  /\ job' = Idle
  /\ UNCHANGED <<warn, trs, poc, excl, lockMap, ef, work, verdict>>

(* The end of a round: at a limit what is new is not looked at any more.   *)
endRound ==
  LET stop == \/ work.iter + 1 >= MaxIterations
              \/ work.locs >= MaxLocs
              \/ work.new = {}
  IN
  /\ pc = "supp" /\ work.curr = {}
  /\ \/ /\ stop
        /\ pc' = "exclude"
        /\ work' = [work EXCEPT !.iter = @ + 1]
     \/ /\ ~stop
        /\ work' = [curr |-> work.new, new |-> {}, iter |-> work.iter + 1,
                    locs |-> work.locs + Cardinality(work.new)]
        /\ UNCHANGED pc
  /\ UNCHANGED <<warn, trs, poc, excl, lockMap, ef, job, verdict>>

----------------------------------------------------------------------------
(* Mutant: every lock has a cluster of its own.                            *)
AddToClusterAlone(eqvLocks, k) == Append(eqvLocks, {k})

(* Locks are put, in their order, into the first cluster that holds a lock *)
(* with the same object, or into one of their own.                         *)
AddToCluster(eqvLocks, k) ==
  LET eqv == { i \in DOMAIN eqvLocks : \E m \in eqvLocks[i] : SameLockObjs(k, m) } IN
  IF eqv = {} THEN Append(eqvLocks, {k})
  ELSE [eqvLocks EXCEPT ![First(eqv)] = @ \cup {k}]
ClustersUpTo[n \in 0 .. Len(warn.rank)] ==
  IF n = 0 THEN <<>>
  ELSE IF \E p \in lockMap : p.info = warn.rank[n]
       THEN AddToCluster(ClustersUpTo[n - 1], warn.rank[n])
       ELSE ClustersUpTo[n - 1]
Clusters == ClustersUpTo[Len(warn.rank)]

(* addConstraintOr: one region comes before the other.                     *)
Exclusion(p, q) == Before(p.uk, q.lk) \cup Before(q.uk, p.lk)
Apart(S) == { r \in S \X S : r[1].lk # r[2].lk /\ r[1].uk # r[2].uk }
Exclusive(S) == { Exclusion(r[1], r[2]) : r \in Apart(S) }

RegionsOf(c) == { p \in lockMap : p.info \in c }
Exclusions == UNION { Exclusive(RegionsOf(c)) : c \in ToSet(Clusters) }

addExclusions ==
  /\ pc = "exclude"
  /\ excl' = Exclusions \ {{}}
  /\ pc' = "order"
  /\ UNCHANGED <<warn, trs, poc, lockMap, ef, work, job, verdict>>

ThreadOrder ==
  UNION { { <<<<i, trs[i][j].loc>>, <<i, trs[i][j + 1].loc>>>> : j \in 1 .. Len(trs[i]) - 1 }
          : i \in DOMAIN trs }

(* Mutant: the order of the threads replaces the constraints so far.       *)
addSeqConstraintOnly ==
  /\ pc = "order"
  /\ poc' = ThreadOrder
  /\ pc' = "solve"
  /\ UNCHANGED <<warn, trs, excl, lockMap, ef, work, job, verdict>>

addSeqConstraint ==
  /\ pc = "order"
  /\ poc' = poc \cup ThreadOrder
  /\ pc' = "solve"
  /\ UNCHANGED <<warn, trs, excl, lockMap, ef, work, job, verdict>>

(* The solver: integers that satisfy the inequalities exist exactly if,    *)
(* for some choice in every disjunction, no events precede each other in a *)
(* cycle: each set of events has one that nothing in the set precedes.     *)
Ends(R) == { p[1] : p \in R } \cup { p[2] : p \in R }
Acyclic(R) ==
  \A S \in SUBSET Ends(R) : S # {} => \E b \in S : \A a \in S : <<a, b>> \notin R
Satisfiable(R, D) == \E chosen \in Choices(D) : Acyclic(R \cup chosen)

validate ==
  /\ pc = "solve"
  /\ verdict' = IF Satisfiable(poc, excl) THEN "feasible" ELSE "infeasible"
  /\ pc' = "done"
  /\ UNCHANGED <<warn, trs, poc, excl, lockMap, ef, work, job>>

Next ==
  \/ initFree \/ initUseSameThread \/ initUseOtherThread
  \/ efEscapeNode \/ efFetchNode \/ efNextPath \/ efDone
  \/ \E e \in work.curr : takeLoc(e)
  \/ \E k \in job.locks : addLock(k)
  \/ \E b \in job.branches : addCheck(b)
  \/ \E l \in job.killers : addKiller(l)
  \/ endCheck \/ endLoc \/ endRound
  \/ addExclusions \/ addSeqConstraint \/ validate

Terminated == pc = "done" /\ UNCHANGED vars

Spec == Init /\ [][Next \/ Terminated]_vars
LiveSpec == Spec /\ WF_vars(Next)

----------------------------------------------------------------------------
Event == Nat \X Loc
Pairs == SUBSET (Event \X Event)
Task == [loc : Event \cup {None}, locks : SUBSET LockInfos,
         branches : SUBSET [check : Loc, killers : SUBSET Loc],
         check : Event \cup {None}, ec : Int, killers : SUBSET Loc, kept : SUBSET Event,
         before : Seq(Seq(Node))]

(* Threads are sequences of typed nodes, everything else is about events.  *)
TypeOK ==
  /\ warn \in Warnings
  /\ pc \in {"initFree", "initUse", "ef", "supp", "lock", "killer",
             "exclude", "order", "solve", "done"}
  /\ trs \in Seq(Seq(Node))
  /\ poc \in Pairs
  /\ excl \subseteq Pairs
  /\ lockMap \subseteq [info : LockInfos, lk : Event, uk : Event]
  /\ ef \in [path : {1, 2}, i : Nat, curr : Event \cup {None}, next : Event \cup {None}]
  /\ work \in [curr : SUBSET Event, new : SUBSET Event, iter : Nat, locs : Nat]
  /\ job \in Task
  /\ verdict \in {"none", "feasible", "infeasible"}

(* What a schedule keeps of an event while the insertions around it come   *)
(* and go: no thread ever stops being an execution of its entry function.  *)
ThreadsExecutable ==
  \A i \in DOMAIN trs : \A j, k \in DOMAIN trs[i] :
    j < k => trs[i][j].loc # trs[i][k].loc /\ Follows(trs[i][j].loc, trs[i][k].loc)

(* A recorded lock pair is a critical region of its thread that still      *)
(* encloses a location the lock is held at, whatever went in since.        *)
RegionsEnclose ==
  \A p \in lockMap :
    /\ p.lk[1] = p.uk[1]
    /\ \E x \in Live : /\ x[1] = p.lk[1] /\ p.info \in Lock4Loc(x[2])
                       /\ At(p.lk) <= At(x) /\ At(x) <= At(p.uk)
                       /\ At(p.lk) < At(p.uk)

(* addCondTrLocs: "the cond check must happen before its killer", and it   *)
(* guards an event that comes later in its own thread, which loops and     *)
(* checks that are there for other events do not see to by themselves.     *)
ChecksGuard ==
  /\ pc = "killer" => At(job.check) < At(job.loc)
  /\ pc \notin {"killer", "done"} =>
       \A x \in Live : "GCHECK" \in TypesOf(x) =>
         \E y \in Live : \E b \in CriticalBranches(y[2]) :
           /\ y[1] = x[1] /\ b.check = x[2]
           /\ At(x) < At(y)
           /\ \E z \in Live : z[2] \in b.killers /\ <<x, z>> \in poc

(* A lock pair, a check or a killer that is given up leaves every thread   *)
(* exactly as it was: no type bit is lost and none stays behind.  A lock   *)
(* pair and a killer are given up in the step that tries them, a check when*)
(* none of its killers has stayed: then the threads are again as they were *)
(* when it was taken up, whatever was tried for its killers since.         *)
GivenUp ==
  \/ pc = "lock" /\ job'.locks # job.locks /\ lockMap' = lockMap
  \/ pc = "killer" /\ job'.killers # job.killers /\ job'.kept = job.kept
CheckGivenUp == pc = "killer" /\ job.killers = {} /\ job.kept = {}
RollbackExact ==
  [][ /\ GivenUp => trs' = trs
      /\ CheckGivenUp => trs' = job.before ]_vars

(* What keeps a location out before the event m, or behind it: it is there *)
(* on the other side, or a node on that side can neither come before it nor*)
(* after it.                                                               *)
Excluded(s, l, n) == n \in Locs(s) /\ n # l /\ ~Reach(l, n) /\ ~Reach(n, l)
NotBefore(s, l, m) ==
  \/ l \in Locs(s) /\ IndexOf(s, m) < IndexOf(s, l)
  \/ \E n \in Loc : Excluded(s, l, n) /\ IndexOf(s, n) < IndexOf(s, m)
NotBehind(s, l, m) ==
  \/ ~Reach(m, l)
  \/ l \in Locs(s) /\ IndexOf(s, l) <= IndexOf(s, m)
  \/ \E n \in Loc : Excluded(s, l, n) /\ IndexOf(s, m) < IndexOf(s, n)
NoRoom(s, m, l, u) == NotBefore(s, l, m) \/ u = l \/ NotBehind(s, u, m)

(* addSuppTrLocs: "we need to add all relavent nodes until no more can be  *)
(* added".  If no limit cut the rounds short, the worklist has left        *)
(* nothing: every lock held at an event of the schedule is recorded in its *)
(* thread, unless something in the thread leaves no room for it.           *)
Saturated ==
  pc = "exclude" /\ work.new = {} =>
    \A e \in Live : \A k \in Lock4Loc(e[2]) :
      \/ LockPair(e, k) \in lockMap
      \/ NoRoom(trs[e[1]], e[2], LockLoc(k), FirstUnlock(e, k))

(* What addSuppTrLocs puts into the threads stays around the events it was *)
(* put in for, and nothing that belongs there is missing.                  *)
InsertedAround == RegionsEnclose /\ ChecksGuard /\ Saturated

(* A feasible verdict means an interleaving of the threads in which the    *)
(* free precedes the use and no two critical regions on the same lock      *)
(* object overlap.  "find all the critical regions guarded by the same     *)
(* lock objects, and then add the mutual-exclusion partial-order           *)
(* constraints between them" (ModuleState.cpp:378).                        *)
SameObjectRegions ==
  { { <<r[1].uk, r[2].lk>>, <<r[2].uk, r[1].lk>> } :
      r \in { q \in Apart(lockMap) :
                q[1].info = q[2].info \/ SameLockObjs(q[1].info, q[2].info) } }
MutualExclusion ==
  verdict = "feasible" =>
    Satisfiable(ThreadOrder \cup poc \cup {<<FreeEvent, UseEvent>>}, SameObjectRegions)

(* To the solver it is the builder of a schedule: see module Schedule.     *)
Builder == INSTANCE Schedule
             WITH Event <- Event, events <- Live, order <- poc, either <- excl
BuildsSchedule == Builder!Spec

(* validateUAF always answers.                                             *)
Answers == <>(pc = "done")
=============================================================================
