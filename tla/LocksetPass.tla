---------------------------- MODULE LocksetPass ----------------------------
(***************************************************************************)
(* The lockset pass (LocksetAnalysisVisitor, LockInfo): the calls of lock  *)
(* functions, and which unlock belongs to which lock.                      *)
(***************************************************************************)
EXTENDS Program

VARIABLES
  locks,      \* GlobalState::locks and unlocks: sets of LockInfo
  unlocks,
  pairs       \* LockInfo::pairs: a lock and an unlock

lockVars == <<locks, unlocks, pairs>>
LockInit == locks = {} /\ unlocks = {} /\ pairs = {}

is_lock_function(f) == \E p \in LockPairs : f \in {p[1], p[2]}
isLock(f) == \E p \in LockPairs : f = p[1]
get_paired_lock_funcs(f) == {p[2] : p \in {q \in LockPairs : q[1] = f}} \cup {p[1] : p \in {q \in LockPairs : q[2] = f}}

LockInfo(ctx, i, f) ==
  [loc |-> Loc(i, ctx), fn |-> f,
   objs |-> UNION {Pointee[At(i).args[k].v] : k \in DOMAIN At(i).args}]

(* Locks without objects, like the console's, are all one.                 *)
sameLockObjs(l, m) == (l.objs = {} /\ m.objs = {}) \/ l.objs \cap m.objs # {}

isCtxPrefix(l, m) == IsPrefix(l.ctx, m.ctx)

(* Mutant: every unlock blocks, not those of this lock only.               *)
BelongsUnblocked(u, l) ==
  /\ l.fn \in get_paired_lock_funcs(u.fn) /\ isCtxPrefix(l.loc, u.loc) /\ sameLockObjs(u, l)
  /\ reachable(u.loc, l.loc, {v.loc : v \in unlocks})

(* The unlock belongs to the lock: it can be reached with the lock held,   *)
(* the unlocks that belong to it so far on no way.                         *)
Belongs(u, l) ==
  /\ l.fn \in get_paired_lock_funcs(u.fn)
  /\ isCtxPrefix(l.loc, u.loc)
  /\ sameLockObjs(u, l)
  /\ reachable(u.loc, l.loc, {p[2].loc : p \in {q \in pairs : q[1] = l}})

visitLockCall(ctx, i, f) ==
  IF ~is_lock_function(f) THEN UNCHANGED lockVars
  ELSE IF isLock(f)
  THEN locks' = locks \cup {LockInfo(ctx, i, f)} /\ UNCHANGED <<unlocks, pairs>>
  ELSE \E u \in {LockInfo(ctx, i, f)} :
         /\ unlocks' = unlocks \cup {u}
         /\ pairs' = pairs \cup {<<l, u>> : l \in {m \in locks : Belongs(u, m)}}
         /\ UNCHANGED locks
=============================================================================
