------------------------------- MODULE Thread -------------------------------
(***************************************************************************)
(* A Thread object under any sequence of calls of its methods: the life of *)
(* one thread of a schedule, or of the scratch threads that the            *)
(* single-entry checks build (_validateSeqUAF, _hasGlobalEscape).          *)
(***************************************************************************)
EXTENDS ThreadOps

CONSTANT Trace      \* the propagation histories Thread::init is given

ASSUME TraceAssumption == Trace \subseteq Seq(Loc)

VARIABLES
  seq,   \* Thread::seq
  fill,  \* Thread::init's argument and how much of it is still to go in
  call   \* the last call: its name and the code it returned

vars == <<seq, fill, call>>

Filled == [trace |-> <<>>, left |-> 0]

Init ==
  /\ seq = <<>>
  /\ fill = Filled
  /\ call = [op |-> "new", ec |-> 0]

Positions == 0 .. Len(seq)

insertLoc(l, ty, merge, dom, stop, start) ==
  LET r == InsertLoc(seq, l, ty, merge, dom, stop, start) IN
  /\ fill.left = 0
  /\ seq' = r.seq
  /\ call' = [op |-> "insertLoc", ec |-> r.ec]
  /\ fill' = Filled

testLocInSeq(l, rpos) ==
  LET r == TestLocInSeq(seq, l, rpos) IN
  /\ fill.left = 0
  /\ seq' = r.seq
  /\ call' = [op |-> "testLocInSeq", ec |-> r.ec]
  /\ fill' = Filled

removeLoc(l, ty) ==
  LET r == RemoveLoc(seq, l, ty) IN
  /\ fill.left = 0
  /\ seq' = r.seq
  /\ call' = [op |-> "removeLoc", ec |-> r.ec]
  /\ fill' = Filled

(* Mutant: the loop starts one past the end of the trace.                  *)
initPastEnd(t) ==
  /\ fill.left = 0
  /\ seq = <<>>
  /\ fill' = [trace |-> t, left |-> Len(t) + 1]
  /\ call' = [op |-> "init", ec |-> 0]
  /\ UNCHANGED seq

(* Thread::init: the trace goes in from its back to its front.             *)
init(t) ==
  /\ fill.left = 0
  /\ seq = <<>>
  /\ fill' = [trace |-> t, left |-> Len(t)]
  /\ call' = [op |-> "init", ec |-> 0]
  /\ UNCHANGED seq

(* One round of its loop; a location that does not fit empties the thread. *)
initNext ==
  LET r == InsertLoc(seq, fill.trace[fill.left], {}, TRUE, FALSE, 0, 0) IN
  /\ fill.left > 0
  /\ \/ /\ Inserted(r)
        /\ seq' = r.seq
        /\ fill' = [fill EXCEPT !.left = @ - 1]
        /\ UNCHANGED call
     \/ /\ ~Inserted(r)
        /\ seq' = <<>>
        /\ fill' = [fill EXCEPT !.left = 0]
        /\ call' = [op |-> "init", ec |-> -1]

Next ==
  \/ \E l \in Loc, ty \in SUBSET Types, merge, dom \in BOOLEAN :
     \E stop, start \in Positions : insertLoc(l, ty, merge, dom, stop, start)
  \/ \E l \in Loc, rpos \in -1 .. 1 : testLocInSeq(l, rpos)
  \/ \E l \in Loc, ty \in SUBSET Types : removeLoc(l, ty)
  \/ \E t \in Trace : init(t)
  \/ initNext

Spec == Init /\ [][Next]_vars

----------------------------------------------------------------------------
Call == [op : {"new", "insertLoc", "testLocInSeq", "removeLoc", "init"}, ec : Int]

(* Nodes are locations with type bits; init's progress is within its trace.*)
TypeOK ==
  /\ seq \in Seq(Node)
  /\ fill \in [trace : Seq(Loc), left : Nat]
  /\ fill.left <= Len(fill.trace)
  /\ call \in Call

(* insertLoc (ModuleState.h: "First of all search for any same InstLoc"):  *)
(* no location appears twice in a thread, loops in the program or not.     *)
NoDup == Distinct(seq)

(* A thread is an execution: every insertion that insertLoc allows leaves  *)
(* nodes that some execution runs in their order, though insertLoc asks    *)
(* only about those of its search range, and though what reachable answers *)
(* about each two of them need not add up.                                 *)
Executable == Ordered(seq)

(* The slots a new location may take: after start, before stop.            *)
Slots(s, stop, start) ==
  start + 1 .. (IF stop = 0 THEN Len(s) + 1 ELSE stop)

(* A slot fits a new location that every node before it reaches and that   *)
(* reaches every node from there on.                                       *)
Fits(s, l, i) ==
  /\ \A j \in 1 .. i - 1 : Reach(s[j].loc, l)
  /\ \A j \in i .. Len(s) : Reach(l, s[j].loc)

(* When insertLoc refuses a new location, no slot of the range fits: the   *)
(* first fit never misses one, at neither end of the range.                *)
RejectionJustified ==
  \A l \in Loc \ Locs(seq), stop, start \in Positions :
    InsertLoc(seq, l, {}, TRUE, FALSE, stop, start).ec < 0 =>
      \A i \in Slots(seq, stop, start) : ~Fits(seq, l, i)

=============================================================================
