--------------------------- MODULE ScratchThread ---------------------------
(***************************************************************************)
(* A thread that is filled to try something out: its nodes have no roles.  *)
(***************************************************************************)
CONSTANTS Reaches(_, _, _), Dom(_, _), PostDom(_, _)

INSTANCE ThreadOps WITH Loc <- {}, Types <- {}, Follows <- LAMBDA a, b : TRUE

insertLoc(s, l) == InsertLoc(s, l, {}, TRUE, FALSE, 0, 0)
testInsertLoc(s, l, inevitable) == Inserted(InsertLoc(s, l, {}, TRUE, inevitable, 0, 0))

(* Thread::init.                                                           *)
PutResult(s, r) == [ok |-> s.ok /\ Inserted(r), seq |-> r.seq]
init(locs) ==
  FoldRight(LAMBDA l, s : PutResult(s, insertLoc(s.seq, l)), locs, [ok |-> TRUE, seq |-> <<>>])

reachableWithBlockers(s, l, blockers) ==
  LET i == IndexOf(s, l)
  IN /\ i > 1 => Reaches(s[i - 1].loc, l, blockers)
     /\ i < Len(s) => Reaches(l, s[i + 1].loc, blockers)
=============================================================================
