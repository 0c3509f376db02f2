----------------------------- MODULE ThreadOps -----------------------------
(***************************************************************************)
(* One thread of an execution schedule (class Thread, ModuleState.h).      *)
(*                                                                         *)
(* A Thread is a vector of nodes (InstLocTr): a program location and the   *)
(* set of roles ("types") it plays in the schedule.  The operators below   *)
(* are its methods, as functions from the old vector to the new one and    *)
(* the return code.  What the methods ask of the control-flow graph --     *)
(* InstLoc::reachable, dom and postDom -- is given by constants.           *)
(*                                                                         *)
(* What a thread is for is said with Follows: an execution that is at one  *)
(* location can get to the other.  Executions compose, so it is transitive.*)
(* The answers of reachable are not, when a call sits in a loop: from what *)
(* a call executes to the loop's head, from there to the call, but not     *)
(* from the end of the call to its beginning.  All that is assumed of them *)
(* is that what is said to be reachable is so (ReachMeansPath of Ways).    *)
(***************************************************************************)
EXTENDS Integers, SequencesExt

CONSTANTS
  Loc,              \* program locations (InstLoc)
  Types,            \* the type bits of InstLocTr that are in use
  Reaches(_, _, _), \* Reaches(a, b, blk): b->reachable(a, &blk)
  Follows(_, _),    \* Follows(a, b): some execution comes from a to b
  Dom(_, _),        \* Dom(a, b): a->dom(b)
  PostDom(_, _)     \* PostDom(a, b): a->postDom(b)

(* Without blockers: "loc1 can be executed after loc0 in one thread".      *)
Reach(a, b) == Reaches(a, b, {})

ASSUME ReachIsBoolean == \A a, b \in Loc : Reach(a, b) \in BOOLEAN

(* What reachable says is so; and executions compose.                      *)
ASSUME ReachIsSound == \A a, b \in Loc : Reach(a, b) => Follows(a, b)
ASSUME ExecutionsCompose ==
  \A a, b, c \in Loc : Follows(a, b) /\ Follows(b, c) => Follows(a, c)

Node == [loc : Loc, ty : SUBSET Types]
Locs(s) == { s[i].loc : i \in DOMAIN s }
IndexOf(s, l) == CHOOSE i \in DOMAIN s : s[i].loc = l

(* No location occurs twice; some execution runs the nodes in their order. *)
Distinct(s) == \A i, j \in 1 .. Len(s) : s[i].loc = s[j].loc => i = j
Ordered(s) == \A i, j \in 1 .. Len(s) : i < j => Follows(s[i].loc, s[j].loc)

----------------------------------------------------------------------------
(* The return codes of insertLoc that are not an index.                    *)
Incompatible == -1
SameExists   == -2
TypeMerged   == -3
OtherError   == -4
NotInevitable == -5
OutOfRange   == -6

(* Mutant: a new location may not go right before stop_loc.                *)
LastSlotShort(s, stop) == IF stop = 0 THEN Len(s) ELSE stop - 1

(* The last node a new location may be put before; stop = 0 is a null      *)
(* stop_loc.                                                               *)
LastSlot(s, stop) == IF stop = 0 THEN Len(s) ELSE stop

(* Mutant: the scan passes nodes that the location cannot follow.          *)
StopsUnchecked(s, l, stop, start) ==
  { i \in start + 1 .. LastSlot(s, stop) : Reach(l, s[i].loc) }

(* The nodes in the search range that "l" cannot simply be put after.      *)
Stops(s, l, stop, start) ==
  { i \in start + 1 .. LastSlot(s, stop) :
      Reach(l, s[i].loc) \/ ~Reach(s[i].loc, l) }

First(S) == CHOOSE i \in S : \A j \in S : i <= j

(* The dom flag: may "l" go before node i (or after the last one).         *)
Inevitable(s, l, i) ==
  IF i > Len(s) THEN i = 1 \/ PostDom(l, s[i - 1].loc)
  ELSE IF i = 1 THEN Dom(l, s[1].loc)
  ELSE ~Reaches(s[i - 1].loc, s[i].loc, {l})

(* A location already in the thread: only its types can change.            *)
InsertPresent(s, l, ty, merge, stop, start) ==
  LET i == IndexOf(s, l) IN
  CASE i > LastSlot(s, stop) \/ i <= start -> [ec |-> OutOfRange, seq |-> s]
    [] i \in start + 1 .. LastSlot(s, stop) /\ s[i].ty \cap ty # {} ->
         [ec |-> SameExists, seq |-> s]
    [] i \in start + 1 .. LastSlot(s, stop) /\ s[i].ty \cap ty = {} /\ merge ->
         [ec |-> TypeMerged, seq |-> [s EXCEPT ![i].ty = @ \cup ty]]
    [] OTHER -> [ec |-> OtherError, seq |-> s]

(* A new node before position i, if the dom flag lets it in.               *)
InsertBefore(s, l, ty, dom, i) ==
  IF dom /\ ~Inevitable(s, l, i)
  THEN [ec |-> NotInevitable, seq |-> s]
  ELSE [ec |-> i - 1, seq |-> InsertAt(s, i, [loc |-> l, ty |-> ty])]

(* A location that is not in the thread yet goes before the first node of  *)
(* the range it reaches, provided every node up to there reaches it.       *)
InsertAbsent(s, l, ty, dom, stop, start) ==
  LET S == Stops(s, l, stop, start) IN
  CASE S # {} /\ ~Reach(l, s[First(S)].loc) -> [ec |-> Incompatible, seq |-> s]
    [] S # {} /\ Reach(l, s[First(S)].loc) -> InsertBefore(s, l, ty, dom, First(S))
    [] S = {} /\ stop # 0 -> [ec |-> OutOfRange, seq |-> s]
    [] OTHER -> InsertBefore(s, l, ty, dom, Len(s) + 1)

(* Mutant: without the search for the same location.                       *)
InsertLocUnsearched(s, l, ty, merge, dom, stop, start) ==
  IF start # 0 /\ ~Reach(s[start].loc, l) THEN [ec |-> OutOfRange, seq |-> s]
  ELSE InsertAbsent(s, l, ty, dom, stop, start)

(* Thread::insertLoc.  stop and start are the positions of stop_loc and    *)
(* start_loc in s, 0 for a null pointer.                                   *)
InsertLoc(s, l, ty, merge, dom, stop, start) ==
  IF start # 0 /\ ~Reach(s[start].loc, l) THEN [ec |-> OutOfRange, seq |-> s]
  ELSE IF l \in Locs(s) THEN InsertPresent(s, l, ty, merge, stop, start)
  ELSE InsertAbsent(s, l, ty, dom, stop, start)

(* insertLoc returned a node rather than nullptr.                          *)
Inserted(r) == r.ec >= 0 \/ r.ec \in {SameExists, TypeMerged}

(* Thread::testLocInSeq: its insertion is a real one, with no type bit.    *)
TestLocInSeq(s, l, rpos) ==
  InsertLoc(s, l, {}, TRUE, FALSE,
            IF rpos < 0 THEN Len(s) ELSE 0,
            IF rpos > 0 /\ s # <<>> THEN 1 ELSE 0)

(* Thread::removeLoc: mask out type bits; a node left without any goes.    *)
Removed == -1
Absent  == -2

RemoveLoc(s, l, ty) ==
  LET i == IndexOf(s, l) IN
  CASE l \notin Locs(s) -> [ec |-> Absent, seq |-> s]
    [] l \in Locs(s) /\ s[i].ty \ ty = {} ->
         [ec |-> Removed, seq |-> RemoveAt(s, i)]
    [] OTHER -> [ec |-> i - 1, seq |-> [s EXCEPT ![i].ty = @ \ ty]]
=============================================================================
