---------------------------- MODULE ThreadProofs ----------------------------
(***************************************************************************)
(* What holds of every Thread: for all programs, all traces and all orders *)
(* of calls, since every method keeps it an execution without repeated     *)
(* locations (ThreadOpsProofs).                                            *)
(***************************************************************************)
EXTENDS Thread, ThreadOpsProofs

----------------------------------------------------------------------------
(* The invariant.                                                          *)

IInv == TypeOK /\ Good(seq)

LEMMA InitIInv == Init => IInv
<1> SUFFICES ASSUME Init PROVE IInv
  OBVIOUS
<1>1. seq = <<>> /\ seq \in Seq(Node) /\ Len(seq) = 0
  BY DEF Init
<1>2. Good(seq)
  BY <1>1 DEF Good, Distinct, Ordered
<1>3. fill = [trace |-> <<>>, left |-> 0] /\ <<>> \in Seq(Loc) /\ Len(<<>>) = 0
  BY DEF Init, Filled
<1>5. call \in Call
  BY DEF Init, Call
<1>a. TypeOK
  BY <1>1, <1>3, <1>5 DEF TypeOK
<1>6. QED BY <1>2, <1>a DEF IInv

LEMMA FilledType ==
  /\ Filled \in [trace : Seq(Loc), left : Nat]
  /\ Filled.left <= Len(Filled.trace)
BY DEF Filled

LEMMA NextIInv == IInv /\ [Next]_vars => IInv'
<1> SUFFICES ASSUME IInv, [Next]_vars PROVE IInv'
  OBVIOUS
<1>1. seq \in Seq(Node) /\ Good(seq) /\ Positions = 0 .. Len(seq)
  BY DEF IInv, TypeOK, Positions
<1>2. ASSUME NEW l \in Loc, NEW ty \in SUBSET Types, NEW merge \in BOOLEAN,
             NEW dom \in BOOLEAN, NEW stop \in Positions, NEW start \in Positions,
             insertLoc(l, ty, merge, dom, stop, start)
      PROVE  IInv'
  <2> DEFINE r == InsertLoc(seq, l, ty, merge, dom, stop, start)
  <2>a. Good(r.seq) /\ r.ec \in Int
    BY <1>1, <1>2, InsertLocGood
  <2>b. seq' = r.seq /\ call' = [op |-> "insertLoc", ec |-> r.ec]
    BY <1>2 DEF insertLoc
  <2> HIDE DEF r
  <2>1. Good(seq') /\ call' \in Call
    BY <2>a, <2>b DEF Call
  <2>2. fill' = Filled
    BY <1>2 DEF insertLoc
  <2>3. QED BY <2>1, <2>2, FilledType DEF IInv, TypeOK, Good
<1>3. ASSUME NEW l \in Loc, NEW rpos \in -1 .. 1, testLocInSeq(l, rpos)
      PROVE  IInv'
  <2> DEFINE stop == IF rpos < 0 THEN Len(seq) ELSE 0
             start == IF rpos > 0 /\ seq # <<>> THEN 1 ELSE 0
  <2>1. Len(seq) \in Nat /\ (seq # <<>> => Len(seq) > 0)
    BY <1>1, EmptySeq
  <2>2. stop \in 0 .. Len(seq) /\ start \in 0 .. Len(seq)
    BY <2>1
  <2> DEFINE r == InsertLoc(seq, l, {}, TRUE, FALSE, stop, start)
  <2>3. seq' = r.seq /\ call' = [op |-> "testLocInSeq", ec |-> r.ec]
    BY <1>3 DEF testLocInSeq, TestLocInSeq
  <2> HIDE DEF stop, start
  <2>a. {} \in SUBSET Types /\ TRUE \in BOOLEAN /\ FALSE \in BOOLEAN
    OBVIOUS
  <2>b. Good(r.seq) /\ r.ec \in Int
    BY <1>1, <2>2, <2>a, InsertLocGood
  <2> HIDE DEF r
  <2>4. Good(seq') /\ call' \in Call
    BY <2>3, <2>b DEF Call
  <2>5. fill' = Filled
    BY <1>3 DEF testLocInSeq
  <2>6. QED BY <2>4, <2>5, FilledType DEF IInv, TypeOK, Good
<1>4. ASSUME NEW l \in Loc, NEW ty \in SUBSET Types, removeLoc(l, ty)
      PROVE  IInv'
  <2> DEFINE r == RemoveLoc(seq, l, ty)
  <2>a. Good(r.seq) /\ r.ec \in Int
    BY <1>1, <1>4, RemoveLocGood
  <2>b. seq' = r.seq /\ call' = [op |-> "removeLoc", ec |-> r.ec]
    BY <1>4 DEF removeLoc
  <2> HIDE DEF r
  <2>1. Good(seq') /\ call' \in Call
    BY <2>a, <2>b DEF Call
  <2>2. fill' = Filled
    BY <1>4 DEF removeLoc
  <2>3. QED BY <2>1, <2>2, FilledType DEF IInv, TypeOK, Good
<1>5. ASSUME NEW t \in Trace, init(t)
      PROVE  IInv'
  <2>1. t \in Seq(Loc) /\ Len(t) \in Nat
    BY TraceAssumption
  <2>2. fill' = [trace |-> t, left |-> Len(t)] /\ seq' = seq
        /\ call' = [op |-> "init", ec |-> 0]
    BY <1>5 DEF init
  <2>3. fill' \in [trace : Seq(Loc), left : Nat] /\ call' \in Call
    BY <2>1, <2>2 DEF Call
  <2>4. fill'.left <= Len(fill'.trace) /\ fill'.trace = t
    BY <2>1, <2>2
  <2>5. Good(seq')
    BY <1>1, <2>2
  <2>6. QED BY <2>1, <2>3, <2>4, <2>5 DEF IInv, TypeOK, Good
<1>6. ASSUME initNext
      PROVE  IInv'
  <2> DEFINE r == InsertLoc(seq, fill.trace[fill.left], {}, TRUE, FALSE, 0, 0)
  <2>1. /\ fill \in [trace : Seq(Loc), left : Nat] /\ fill.left > 0
        /\ fill.left <= Len(fill.trace)
    BY <1>6 DEF initNext, IInv, TypeOK
  <2>2. fill.trace[fill.left] \in Loc
    BY <2>1, ElementOfSeq
  <2>3. 0 \in 0 .. Len(seq) /\ {} \in SUBSET Types /\ TRUE \in BOOLEAN /\ FALSE \in BOOLEAN
    BY <1>1, LenProperties
  <2>4. Good(r.seq)
    BY <1>1, <2>2, <2>3, InsertLocGood
  <2> HIDE DEF r
  <2>5. CASE seq' = r.seq /\ fill' = [fill EXCEPT !.left = @ - 1] /\ UNCHANGED call
    <3>1. fill' \in [trace : Seq(Loc), left : Nat] /\ fill'.trace = fill.trace
          /\ fill'.left <= Len(fill'.trace)
      BY <2>1, <2>5, LenProperties
    <3>2. QED BY <2>1, <2>4, <2>5, <3>1 DEF IInv, TypeOK, Good
  <2>6. CASE /\ seq' = <<>> /\ fill' = [fill EXCEPT !.left = 0]
             /\ call' = [op |-> "init", ec |-> -1]
    <3>1. fill' \in [trace : Seq(Loc), left : Nat] /\ fill'.trace = fill.trace
          /\ fill'.left <= Len(fill'.trace)
      BY <2>1, <2>6, LenProperties
    <3>2. seq' \in Seq(Node) /\ Len(seq') = 0
      BY <2>6
    <3>3. Good(seq')
      BY <3>2 DEF Good, Distinct, Ordered
    <3>4. call' \in Call
      BY <2>6 DEF Call
    <3>5. QED BY <2>1, <3>1, <3>3, <3>4 DEF IInv, TypeOK, Good
  <2>7. QED BY <1>6, <2>5, <2>6 DEF initNext, r
<1>7. CASE UNCHANGED vars
  BY <1>7 DEF vars, IInv, TypeOK
<1>8. QED BY <1>2, <1>3, <1>4, <1>5, <1>6, <1>7 DEF Next

LEMMA IInvAlways == Spec => []IInv
BY InitIInv, NextIInv, PTL DEF Spec

(* The state of a Thread is well-formed after any calls (class Thread).    *)
THEOREM ThreadTypeOK == Spec => []TypeOK
<1>1. IInv => TypeOK
  BY DEF IInv
<1>2. QED BY <1>1, IInvAlways, PTL

(* No calls of insertLoc, testLocInSeq, removeLoc and init put a location  *)
(* into a thread twice, whatever loops the program has.                    *)
THEOREM ThreadNoDup == Spec => []NoDup
<1>1. IInv => NoDup
  BY DEF IInv, Good, NoDup
<1>2. QED BY <1>1, IInvAlways, PTL

(* No calls make a thread something that no execution runs in its order,   *)
(* for any transitive relation that contains the answers of reachable:     *)
(* these need not be transitive themselves, and are not over calls in loops*)
(* (CFGUtils.cpp 1395-1475).                                               *)
THEOREM ThreadExecutable == Spec => []Executable
<1>1. IInv => Executable
  BY DEF IInv, Good, Executable
<1>2. QED BY <1>1, IInvAlways, PTL

(* First fit is complete: insertLoc refuses a new location only if no slot *)
(* between start_loc and stop_loc fits it.                                 *)
LEMMA FirstFitComplete ==
  ASSUME NEW s, Good(s), NEW l \in Loc, l \notin Locs(s),
         NEW stop \in 0 .. Len(s), NEW start \in 0 .. Len(s),
         InsertLoc(s, l, {}, TRUE, FALSE, stop, start).ec < 0,
         NEW i \in Slots(s, stop, start)
  PROVE  ~Fits(s, l, i)
<1> DEFINE S == Stops(s, l, stop, start)
           k == First(S)
<1> SUFFICES ASSUME Fits(s, l, i) PROVE FALSE
  OBVIOUS
<1>1. s \in Seq(Node) /\ Len(s) \in Nat
  BY DEF Good
<1>2. i \in 1 .. Len(s) + 1 /\ i > start /\ (stop # 0 => i <= stop)
  BY <1>1 DEF Slots
<1>4. \A j \in 1 .. Len(s) : j < i => Reach(s[j].loc, l)
  BY <1>1, <1>2 DEF Fits
<1>5. \A j \in 1 .. Len(s) : j >= i => Reach(l, s[j].loc)
  BY <1>1, <1>2 DEF Fits
<1>6. start # 0 => Reach(s[start].loc, l)
  BY <1>1, <1>2, <1>4
<1>7. InsertAbsent(s, l, {}, FALSE, stop, start).ec < 0
  BY <1>6 DEF InsertLoc
<1>8. /\ S \subseteq 1 .. Len(s) /\ S \subseteq Nat
  BY <1>1, StopsAre
<1>9. CASE S # {}
  <2>1. k \in S /\ k \in 1 .. Len(s)
    BY <1>8, <1>9, FirstIs
  <2>2. Reach(l, s[k].loc)
    <3>1. Reach(l, s[k].loc) \/ ~Reach(s[k].loc, l)
      BY <2>1 DEF Stops
    <3>2. k < i \/ k >= i
      BY <1>2, <2>1
    <3>3. QED BY <1>4, <1>5, <2>1, <3>1, <3>2
  <2>3. InsertAbsent(s, l, {}, FALSE, stop, start).ec = k - 1
    BY <1>9, <2>2 DEF InsertAbsent, InsertBefore
  <2> DEFINE ec == InsertAbsent(s, l, {}, FALSE, stop, start).ec
  <2>4. ec < 0 /\ ec = k - 1 /\ k \in 1 .. Len(s)
    BY <1>7, <2>1, <2>3
  <2> HIDE DEF ec, k
  <2>5. QED BY <1>1, <2>4
<1>10. CASE S = {} /\ stop # 0
  <2>1. i \in start + 1 .. LastSlot(s, stop) /\ i \in 1 .. Len(s)
    BY <1>2, <1>10 DEF LastSlot
  <2>2. ~Reach(l, s[i].loc)
    BY <1>10, <2>1 DEF Stops
  <2>3. QED BY <1>5, <2>1, <2>2
<1>11. CASE S = {} /\ stop = 0
  <2>1. InsertAbsent(s, l, {}, FALSE, stop, start).ec = (Len(s) + 1) - 1
    BY <1>11 DEF InsertAbsent, InsertBefore
  <2> DEFINE ec == InsertAbsent(s, l, {}, FALSE, stop, start).ec
  <2>2. ec < 0 /\ ec = (Len(s) + 1) - 1
    BY <1>7, <2>1
  <2> HIDE DEF ec
  <2>3. QED BY <1>1, <2>2
<1>12. QED BY <1>9, <1>10, <1>11

(* insertLoc never turns away a location that some slot of the range fits: *)
(* a rejected warning is not an artefact of the search order.              *)
THEOREM ThreadRejectionJustified == Spec => []RejectionJustified
<1>1. IInv => RejectionJustified
  <2> SUFFICES ASSUME IInv,
                      NEW l \in Loc, l \notin Locs(seq),
                      NEW stop \in Positions, NEW start \in Positions,
                      InsertLoc(seq, l, {}, TRUE, FALSE, stop, start).ec < 0,
                      NEW i \in Slots(seq, stop, start)
               PROVE  ~Fits(seq, l, i)
    BY DEF RejectionJustified
  <2>1. Good(seq) /\ stop \in 0 .. Len(seq) /\ start \in 0 .. Len(seq)
    BY DEF IInv, Positions
  <2>2. QED BY <2>1, FirstFitComplete
<1>2. QED BY <1>1, IInvAlways, PTL
=============================================================================
