-------------------------- MODULE ThreadOpsProofs --------------------------
(***************************************************************************)
(* What the methods of a Thread do to its vector: for all programs and all *)
(* arguments.  insertLoc and removeLoc each take a thread that is an       *)
(* execution without repeated locations to another one; insertLoc puts a   *)
(* location where it was told to, and removeLoc undoes it exactly.         *)
(***************************************************************************)
EXTENDS ThreadOps, TLAPS, WellFoundedInduction, SequenceTheorems

----------------------------------------------------------------------------
(* Operators on vectors.                                                   *)

(* std::vector::insert: the new element is at its position, the others     *)
(* keep their order around it.                                             *)
LEMMA InsertAtIs ==
  ASSUME NEW S, NEW s \in Seq(S), NEW i \in 1 .. Len(s) + 1, NEW e \in S
  PROVE  /\ InsertAt(s, i, e) \in Seq(S)
         /\ Len(InsertAt(s, i, e)) = Len(s) + 1
         /\ \A j \in 1 .. Len(s) + 1 :
              InsertAt(s, i, e)[j] = IF j < i THEN s[j]
                                     ELSE IF j = i THEN e ELSE s[j - 1]
<1> DEFINE p == SubSeq(s, 1, i - 1)
           m == <<e>>
           q == SubSeq(s, i, Len(s))
<1>1. /\ Len(s) \in Nat
      /\ \A j \in 1 .. Len(s) : s[j] \in S
  BY LenProperties, ElementOfSeq
<1>2. /\ p \in Seq(S) /\ Len(p) = i - 1
      /\ \A j \in 1 .. i - 1 : p[j] = s[j]
  BY <1>1, SubSeqProperties
<1>3. /\ q \in Seq(S) /\ Len(q) = Len(s) - i + 1
      /\ \A j \in 1 .. Len(s) - i + 1 : q[j] = s[i + j - 1]
  BY <1>1, SubSeqProperties
<1>4. m \in Seq(S) /\ Len(m) = 1 /\ m[1] = e
  OBVIOUS
<1> HIDE DEF p, m, q
<1> DEFINE pm == p \o m
<1>a. /\ pm \in Seq(S) /\ Len(pm) = Len(p) + Len(m)
      /\ \A j \in 1 .. Len(p) + Len(m) :
           pm[j] = IF j <= Len(p) THEN p[j] ELSE m[j - Len(p)]
  BY <1>2, <1>4, ConcatProperties
<1> HIDE DEF pm
<1>5. /\ pm \in Seq(S) /\ Len(pm) = i
      /\ \A j \in 1 .. i : pm[j] = IF j < i THEN s[j] ELSE e
  BY <1>1, <1>2, <1>4, <1>a
<1>b. /\ pm \o q \in Seq(S) /\ Len(pm \o q) = Len(pm) + Len(q)
      /\ \A j \in 1 .. Len(pm) + Len(q) :
           (pm \o q)[j] = IF j <= Len(pm) THEN pm[j] ELSE q[j - Len(pm)]
  BY <1>3, <1>5, ConcatProperties
<1>6. /\ pm \o q \in Seq(S) /\ Len(pm \o q) = Len(s) + 1
      /\ \A j \in 1 .. Len(s) + 1 : (pm \o q)[j] = IF j <= i THEN pm[j] ELSE q[j - i]
  BY <1>1, <1>3, <1>5, <1>b
<1>7. \A j \in 1 .. Len(s) + 1 :
        (pm \o q)[j] = IF j < i THEN s[j] ELSE IF j = i THEN e ELSE s[j - 1]
  BY <1>1, <1>3, <1>5, <1>6
<1>8. InsertAt(s, i, e) = pm \o q
  BY DEF InsertAt, p, m, q, pm
<1>9. QED BY <1>6, <1>7, <1>8

(* std::vector::erase: the others keep their order.                        *)
LEMMA RemoveAtIs ==
  ASSUME NEW S, NEW s \in Seq(S), NEW i \in 1 .. Len(s)
  PROVE  /\ RemoveAt(s, i) \in Seq(S)
         /\ Len(RemoveAt(s, i)) = Len(s) - 1
         /\ \A j \in 1 .. Len(s) - 1 :
              RemoveAt(s, i)[j] = IF j < i THEN s[j] ELSE s[j + 1]
<1> DEFINE p == SubSeq(s, 1, i - 1)
           q == SubSeq(s, i + 1, Len(s))
<1>1. /\ Len(s) \in Nat
      /\ \A j \in 1 .. Len(s) : s[j] \in S
  BY LenProperties, ElementOfSeq
<1>2. /\ p \in Seq(S) /\ Len(p) = i - 1
      /\ \A j \in 1 .. i - 1 : p[j] = s[j]
  BY <1>1, SubSeqProperties
<1>3. /\ q \in Seq(S) /\ Len(q) = Len(s) - i
      /\ \A j \in 1 .. Len(s) - i : q[j] = s[i + j]
  BY <1>1, SubSeqProperties
<1> HIDE DEF p, q
<1>4. /\ p \o q \in Seq(S) /\ Len(p \o q) = Len(p) + Len(q)
      /\ \A j \in 1 .. Len(p) + Len(q) :
           (p \o q)[j] = IF j <= Len(p) THEN p[j] ELSE q[j - Len(p)]
  BY <1>2, <1>3, ConcatProperties
<1>5. \A j \in 1 .. Len(s) - 1 : (p \o q)[j] = IF j < i THEN s[j] ELSE s[j + 1]
  <2> DEFINE pq == p \o q
  <2>1. /\ Len(s) \in Nat /\ Len(p) = i - 1 /\ Len(q) = Len(s) - i
        /\ \A j \in 1 .. Len(p) + Len(q) :
             pq[j] = IF j <= Len(p) THEN p[j] ELSE q[j - Len(p)]
    BY <1>1, <1>2, <1>3, <1>4
  <2> HIDE DEF pq
  <2> SUFFICES ASSUME NEW j \in 1 .. Len(s) - 1
               PROVE  pq[j] = IF j < i THEN s[j] ELSE s[j + 1]
    BY DEF pq
  <2>2. CASE j < i
    <3>1. j \in 1 .. i - 1 /\ j <= Len(p) /\ j \in 1 .. Len(p) + Len(q)
      BY <2>1, <2>2
    <3>2. pq[j] = p[j] /\ p[j] = s[j]
      BY <1>2, <2>1, <3>1
    <3>3. QED BY <2>2, <3>2
  <2>3. CASE i <= j
    <3>1. ~(j <= Len(p)) /\ j \in 1 .. Len(p) + Len(q) /\ j - Len(p) \in 1 .. Len(s) - i
          /\ i + (j - Len(p)) = j + 1
      BY <2>1, <2>3
    <3>2. pq[j] = q[j - Len(p)] /\ q[j - Len(p)] = s[j + 1]
      BY <1>3, <2>1, <3>1
    <3>3. QED BY <2>3, <3>2
  <2>4. QED BY <2>1, <2>2, <2>3
<1>6. Len(p \o q) = Len(s) - 1
  BY <1>1, <1>2, <1>3, <1>4
<1>7. RemoveAt(s, i) = p \o q
  BY DEF RemoveAt, p, q
<1>8. QED BY <1>4, <1>5, <1>6, <1>7

(* The scan of insertLoc stops at the first node that makes it stop.       *)
LEMMA FirstIs ==
  ASSUME NEW S, S \subseteq Nat, S # {}
  PROVE  First(S) \in S /\ \A j \in S : First(S) <= j
<1> DEFINE R == { p \in Nat \X Nat : p[1] < p[2] }
<1>1. IsWellFoundedOn(R, Nat)
  BY NatLessThanWellFounded DEF OpToRel
<1>2. \A i, j \in Nat : <<i, j>> \in R <=> i < j
  OBVIOUS
<1> HIDE DEF R
<1>3. PICK i \in S : \A j \in S : ~(<<j, i>> \in R)
  BY <1>1, WFMin
<1>4. \A j \in S : ~(j < i)
  BY <1>2, <1>3
<1>5. \A j \in S : i <= j
  BY <1>4
<1>6. QED BY <1>5 DEF First

LEMMA IndexOfIs ==
  ASSUME NEW s \in Seq(Node), NEW l \in Locs(s)
  PROVE  IndexOf(s, l) \in 1 .. Len(s) /\ s[IndexOf(s, l)].loc = l
BY LenProperties DEF IndexOf, Locs, Node

----------------------------------------------------------------------------
(* One call of a method.                                                   *)

(* The inductive invariant, of one vector of nodes: NoDup and Executable   *)
(* hold of it together with its type.                                      *)
Good(s) == s \in Seq(Node) /\ Distinct(s) /\ Ordered(s)

(* The nodes of a vector have locations.                                   *)
LEMMA NodesHaveLoc ==
  ASSUME NEW s \in Seq(Node)
  PROVE  \A k \in 1 .. Len(s) : s[k].loc \in Loc /\ s[k].ty \in SUBSET Types
<1>1. \A k \in 1 .. Len(s) : s[k] \in Node
  BY ElementOfSeq
<1>2. \A n \in Node : n.loc \in Loc /\ n.ty \in SUBSET Types
  BY DEF Node
<1>3. QED BY <1>1, <1>2

LEMMA ReachType == \A l, m \in Loc : Reach(l, m) \in BOOLEAN
BY ReachIsBoolean DEF Reach

(* A new location that follows the nodes before i, and that those from i   *)
(* on follow, can go before i.                                             *)
LEMMA InsertAtGood ==
  ASSUME NEW s, Good(s), NEW l \in Loc, l \notin Locs(s), NEW ty \in SUBSET Types,
         NEW i \in 1 .. Len(s) + 1,
         \A j \in 1 .. i - 1 : Follows(s[j].loc, l),
         \A j \in i .. Len(s) : Follows(l, s[j].loc)
  PROVE  Good(InsertAt(s, i, [loc |-> l, ty |-> ty]))
<1> DEFINE e == [loc |-> l, ty |-> ty]
           t == InsertAt(s, i, e)
<1>1. s \in Seq(Node) /\ e \in Node /\ e.loc = l /\ Len(s) \in Nat
  BY DEF Good, Node
<1> HIDE DEF e
<1>2. /\ t \in Seq(Node) /\ Len(t) = Len(s) + 1
      /\ \A j \in 1 .. Len(s) + 1 :
           t[j] = IF j < i THEN s[j] ELSE IF j = i THEN e ELSE s[j - 1]
  BY ONLY <1>1, i \in 1 .. Len(s) + 1, InsertAtIs, SMTT(60)
<1> HIDE DEF t
<1>3. \A j \in 1 .. Len(s) : s[j].loc # l
  BY <1>1 DEF Locs
<1> DEFINE old(j) == IF j < i THEN j ELSE j - 1
<1>a. \A j \in 1 .. Len(t) : j # i => old(j) \in 1 .. Len(s) /\ t[j] = s[old(j)]
  BY <1>1, <1>2
<1>b. \A j, k \in 1 .. Len(t) : j < k /\ j # i /\ k # i => old(j) < old(k)
  BY <1>1, <1>2
<1>c. i \in 1 .. Len(t) /\ t[i] = e
  BY <1>1, <1>2
<1>d. \A j \in 1 .. Len(t) : j < i => Follows(t[j].loc, l)
  BY <1>1, <1>2
<1>e. \A k \in 1 .. Len(t) : i < k => Follows(l, t[k].loc)
  <2> SUFFICES ASSUME NEW k \in 1 .. Len(t), i < k PROVE Follows(l, t[k].loc)
    OBVIOUS
  <2>1. t[k] = s[k - 1] /\ k - 1 \in i .. Len(s)
    BY <1>1, <1>2
  <2>2. QED BY <2>1
<1> HIDE DEF old
<1>4. Distinct(t)
  <2> SUFFICES ASSUME NEW j \in 1 .. Len(t), NEW k \in 1 .. Len(t), j < k
               PROVE  t[j].loc # t[k].loc
    BY <1>1, <1>2 DEF Distinct
  <2>1. CASE j # i /\ k # i
    <3>1. old(j) < old(k) /\ old(j) \in 1 .. Len(s) /\ old(k) \in 1 .. Len(s)
      BY <2>1, <1>a, <1>b
    <3>2. old(j) # old(k)
      BY <3>1
    <3>3. QED BY <2>1, <3>1, <3>2, <1>a DEF Good, Distinct
  <2>2. CASE j = i
    BY <2>2, <1>1, <1>3, <1>a, <1>c
  <2>3. CASE k = i
    BY <2>3, <1>1, <1>3, <1>a, <1>c
  <2>4. QED BY <2>1, <2>2, <2>3
<1>5. Ordered(t)
  <2> SUFFICES ASSUME NEW j \in 1 .. Len(t), NEW k \in 1 .. Len(t), j < k
               PROVE  Follows(t[j].loc, t[k].loc)
    BY DEF Ordered
  <2>1. CASE j # i /\ k # i
    BY <2>1, <1>a, <1>b DEF Good, Ordered
  <2>2. CASE j = i
    BY <2>2, <1>1, <1>c, <1>e
  <2>3. CASE k = i
    BY <2>3, <1>1, <1>c, <1>d
  <2>4. QED BY <2>1, <2>2, <2>3
<1>6. QED BY <1>2, <1>4, <1>5 DEF Good, e, t

(* Erasing a node: its neighbours were ordered already.                    *)
LEMMA RemoveAtGood ==
  ASSUME NEW s, Good(s), NEW i \in 1 .. Len(s)
  PROVE  Good(RemoveAt(s, i))
<1> DEFINE t == RemoveAt(s, i)
           old(j) == IF j < i THEN j ELSE j + 1
<1>1. s \in Seq(Node) /\ Len(s) \in Nat
  BY DEF Good
<1>2. /\ t \in Seq(Node) /\ Len(t) = Len(s) - 1
      /\ \A j \in 1 .. Len(s) - 1 : t[j] = IF j < i THEN s[j] ELSE s[j + 1]
  BY <1>1, RemoveAtIs
<1> HIDE DEF t
<1>3. \A j \in 1 .. Len(t) : old(j) \in 1 .. Len(s) /\ t[j] = s[old(j)]
  BY <1>1, <1>2
<1>4. \A j, k \in 1 .. Len(t) : j < k => old(j) < old(k)
  BY <1>1, <1>2
<1> HIDE DEF old
<1>5. Distinct(t)
  <2> SUFFICES ASSUME NEW j \in 1 .. Len(t), NEW k \in 1 .. Len(t), j < k
               PROVE  t[j].loc # t[k].loc
    BY <1>1, <1>2 DEF Distinct
  <2>1. old(j) # old(k) /\ old(j) \in 1 .. Len(s) /\ old(k) \in 1 .. Len(s)
    BY <1>1, <1>3, <1>4
  <2>2. QED BY <2>1, <1>3 DEF Good, Distinct
<1>6. Ordered(t)
  BY <1>3, <1>4 DEF Good, Ordered
<1>7. QED BY <1>2, <1>5, <1>6 DEF Good, t

(* Changing the type bits of a node moves nothing.                         *)
LEMMA RetypeGood ==
  ASSUME NEW s, Good(s), NEW i \in 1 .. Len(s), NEW ty \in SUBSET Types
  PROVE  Good([s EXCEPT ![i].ty = ty])
<1> DEFINE t == [s EXCEPT ![i].ty = ty]
<1>1. s \in Seq(Node) /\ Len(s) \in Nat
  BY DEF Good
<1>2. \A j \in 1 .. Len(s) : s[j] \in Node
  BY <1>1, ElementOfSeq
<1>3. [s[i] EXCEPT !.ty = ty] \in Node
  BY <1>2 DEF Node
<1>4. t \in Seq(Node) /\ Len(t) = Len(s)
  BY <1>1, <1>3, ExceptSeq
<1>5. \A j \in 1 .. Len(s) : t[j].loc = s[j].loc
  BY <1>1, <1>2 DEF Node
<1> HIDE DEF t
<1>6. Distinct(t) /\ Ordered(t)
  BY <1>4, <1>5 DEF Good, Distinct, Ordered
<1>7. QED BY <1>4, <1>6 DEF Good, t

(* The search range of insertLoc: stop and start are nodes of s or null.   *)
LEMMA StopsAre ==
  ASSUME NEW s, s \in Seq(Node), NEW l \in Loc,
         NEW stop \in 0 .. Len(s), NEW start \in 0 .. Len(s)
  PROVE  /\ LastSlot(s, stop) \in 0 .. Len(s)
         /\ Stops(s, l, stop, start) \subseteq 1 .. Len(s)
         /\ Stops(s, l, stop, start) \subseteq Nat
BY LenProperties DEF LastSlot, Stops

(* A scan that reached position i found every node of the range before it  *)
(* to reach l; start_loc reaches l as well, and so l follows what start_loc*)
(* follows.                                                                *)
LEMMA ScannedFollow ==
  ASSUME NEW s, Good(s), NEW l \in Loc, NEW start \in 0 .. Len(s),
         start # 0 => Reach(s[start].loc, l),
         NEW i \in 1 .. Len(s) + 1,
         \A j \in start + 1 .. i - 1 : Reach(s[j].loc, l)
  PROVE  \A j \in 1 .. i - 1 : Follows(s[j].loc, l)
<1> SUFFICES ASSUME NEW j \in 1 .. i - 1 PROVE Follows(s[j].loc, l)
  OBVIOUS
<1>1. s \in Seq(Node) /\ Len(s) \in Nat
  BY DEF Good
<1>2. \A k \in 1 .. Len(s) : s[k].loc \in Loc
  BY <1>1, NodesHaveLoc
<1>3. CASE j >= start
  <2>1. Reach(s[j].loc, l) /\ s[j].loc \in Loc
    BY <1>1, <1>2, <1>3
  <2>2. QED BY <2>1, ReachIsSound
<1>5. CASE j < start
  <2>1. Follows(s[j].loc, s[start].loc)
    BY <1>1, <1>5 DEF Good, Ordered
  <2>2. Reach(s[start].loc, l)
    BY <1>1, <1>5
  <2>3. s[j].loc \in Loc /\ s[start].loc \in Loc
    BY <1>1, <1>2, <1>5
  <2>4. QED BY <2>1, <2>2, <2>3, ReachIsSound, ExecutionsCompose
<1>6. QED BY <1>1, <1>3, <1>5

(* Every insertion keeps a thread an execution without repeated locations. *)
LEMMA InsertAbsentGood ==
  ASSUME NEW s, Good(s), NEW l \in Loc, l \notin Locs(s),
         NEW ty \in SUBSET Types, NEW dom \in BOOLEAN,
         NEW stop \in 0 .. Len(s), NEW start \in 0 .. Len(s),
         start # 0 => Reach(s[start].loc, l)
  PROVE  /\ Good(InsertAbsent(s, l, ty, dom, stop, start).seq)
         /\ InsertAbsent(s, l, ty, dom, stop, start).ec \in Int
<1> DEFINE S == Stops(s, l, stop, start)
           i == First(S)
<1>1. s \in Seq(Node) /\ Len(s) \in Nat
  BY DEF Good
<1>2. /\ LastSlot(s, stop) \in 0 .. Len(s)
      /\ S \subseteq 1 .. Len(s) /\ S \subseteq Nat
  BY <1>1, StopsAre
<1>3. \A k \in 1 .. Len(s) : s[k].loc \in Loc
  BY <1>1, NodesHaveLoc
<1>4. CASE S # {} /\ ~Reach(l, s[i].loc)
  BY <1>4 DEF InsertAbsent, Incompatible
<1>5. CASE S # {} /\ Reach(l, s[i].loc)
  <2>1. i \in S /\ \A j \in S : i <= j
    BY <1>2, <1>5, FirstIs
  <2>2. i \in start + 1 .. LastSlot(s, stop) /\ i \in 1 .. Len(s)
    BY <1>2, <2>1 DEF Stops
  <2>3. \A j \in start + 1 .. i - 1 : Reach(s[j].loc, l)
    <3> SUFFICES ASSUME NEW j \in start + 1 .. i - 1 PROVE Reach(s[j].loc, l)
      OBVIOUS
    <3>1. j \notin S /\ j \in start + 1 .. LastSlot(s, stop)
      BY <1>1, <1>2, <2>1, <2>2
    <3>2. QED BY <3>1 DEF Stops
  <2>4. \A j \in 1 .. i - 1 : Follows(s[j].loc, l)
    BY <1>1, <2>2, <2>3, ScannedFollow
  <2>5. \A j \in i .. Len(s) : Follows(l, s[j].loc)
    <3> SUFFICES ASSUME NEW j \in i .. Len(s) PROVE Follows(l, s[j].loc)
      OBVIOUS
    <3>1. j = i \/ Follows(s[i].loc, s[j].loc)
      BY <1>1, <2>2 DEF Good, Ordered
    <3>2. s[i].loc \in Loc /\ s[j].loc \in Loc
      BY <1>1, <1>3, <2>2
    <3>3. Follows(l, s[i].loc)
      BY <1>5, <3>2, ReachIsSound
    <3>4. QED BY <3>1, <3>2, <3>3, ExecutionsCompose
  <2> HIDE DEF i
  <2>6. Good(InsertAt(s, i, [loc |-> l, ty |-> ty]))
    BY <1>1, <2>2, <2>4, <2>5, InsertAtGood
  <2>7. InsertAbsent(s, l, ty, dom, stop, start) = InsertBefore(s, l, ty, dom, i)
    BY <1>5 DEF InsertAbsent, i
  <2>8. QED BY <2>2, <2>6, <2>7 DEF InsertBefore, NotInevitable
<1>6. CASE S = {} /\ stop # 0
  BY <1>6 DEF InsertAbsent, OutOfRange
<1>7. CASE S = {} /\ stop = 0
  <2>1. \A j \in start + 1 .. Len(s) : Reach(s[j].loc, l)
    BY <1>7 DEF Stops, LastSlot
  <2>2. \A j \in 1 .. Len(s) : Follows(s[j].loc, l)
    <3>1. Len(s) + 1 \in 1 .. Len(s) + 1 /\ (Len(s) + 1) - 1 = Len(s)
      BY <1>1
    <3>2. \A j \in start + 1 .. (Len(s) + 1) - 1 : Reach(s[j].loc, l)
      BY <2>1, <3>1
    <3>3. \A j \in 1 .. (Len(s) + 1) - 1 : Follows(s[j].loc, l)
      BY <3>1, <3>2, ScannedFollow
    <3>4. QED BY <3>1, <3>3
  <2>3. Good(InsertAt(s, Len(s) + 1, [loc |-> l, ty |-> ty]))
    BY <1>1, <2>2, InsertAtGood
  <2>4. InsertAbsent(s, l, ty, dom, stop, start)
          = InsertBefore(s, l, ty, dom, Len(s) + 1)
    BY <1>7 DEF InsertAbsent
  <2>5. QED BY <1>1, <2>3, <2>4 DEF InsertBefore, NotInevitable
<1>8. QED BY <1>4, <1>5, <1>6, <1>7

LEMMA InsertPresentGood ==
  ASSUME NEW s, Good(s), NEW l \in Locs(s), NEW ty \in SUBSET Types,
         NEW merge \in BOOLEAN,
         NEW stop \in 0 .. Len(s), NEW start \in 0 .. Len(s)
  PROVE  /\ Good(InsertPresent(s, l, ty, merge, stop, start).seq)
         /\ InsertPresent(s, l, ty, merge, stop, start).ec \in Int
<1> DEFINE i == IndexOf(s, l)
<1>1. s \in Seq(Node) /\ i \in 1 .. Len(s) /\ Len(s) \in Nat
  BY IndexOfIs DEF Good
<1>2. s[i] \in Node
  BY <1>1, ElementOfSeq
<1>3. s[i].ty \cup ty \in SUBSET Types
  BY <1>2 DEF Node
<1> HIDE DEF i
<1>4. Good([s EXCEPT ![i].ty = s[i].ty \cup ty])
  BY <1>1, <1>3, RetypeGood
<1>5. [s EXCEPT ![i].ty = @ \cup ty] = [s EXCEPT ![i].ty = s[i].ty \cup ty]
  BY <1>1
<1>6. Good([s EXCEPT ![i].ty = @ \cup ty])
  BY <1>4, <1>5
<1> DEFINE r == InsertPresent(s, l, ty, merge, stop, start)
<1>7. /\ r.seq = s \/ r.seq = [s EXCEPT ![i].ty = @ \cup ty]
      /\ r.ec \in {OutOfRange, SameExists, TypeMerged, OtherError}
  BY DEF InsertPresent, i
<1>8. QED
  BY <1>6, <1>7 DEF OutOfRange, SameExists, TypeMerged, OtherError

LEMMA InsertLocGood ==
  ASSUME NEW s, Good(s), NEW l \in Loc, NEW ty \in SUBSET Types,
         NEW merge \in BOOLEAN, NEW dom \in BOOLEAN,
         NEW stop \in 0 .. Len(s), NEW start \in 0 .. Len(s)
  PROVE  /\ Good(InsertLoc(s, l, ty, merge, dom, stop, start).seq)
         /\ InsertLoc(s, l, ty, merge, dom, stop, start).ec \in Int
<1>1. CASE start # 0 /\ ~Reach(s[start].loc, l)
  BY <1>1 DEF InsertLoc, OutOfRange
<1>2. CASE (start # 0 => Reach(s[start].loc, l)) /\ l \in Locs(s)
  BY <1>2, InsertPresentGood DEF InsertLoc
<1>3. CASE (start # 0 => Reach(s[start].loc, l)) /\ l \notin Locs(s)
  BY <1>3, InsertAbsentGood DEF InsertLoc
<1>4. QED BY <1>1, <1>2, <1>3

(* So does every removal.                                                  *)
LEMMA RemoveLocGood ==
  ASSUME NEW s, Good(s), NEW l \in Loc, NEW ty \in SUBSET Types
  PROVE  Good(RemoveLoc(s, l, ty).seq) /\ RemoveLoc(s, l, ty).ec \in Int
<1> DEFINE i == IndexOf(s, l)
<1>1. CASE l \notin Locs(s)
  BY <1>1 DEF RemoveLoc, Absent
<1>2. CASE l \in Locs(s)
  <2>1. s \in Seq(Node) /\ i \in 1 .. Len(s) /\ Len(s) \in Nat
    BY <1>2, IndexOfIs DEF Good
  <2>2. s[i] \in Node
    BY <2>1, ElementOfSeq
  <2>3. s[i].ty \ ty \in SUBSET Types
    BY <2>2 DEF Node
  <2> HIDE DEF i
  <2>4. Good([s EXCEPT ![i].ty = s[i].ty \ ty])
    BY <2>1, <2>3, RetypeGood
  <2>5. [s EXCEPT ![i].ty = @ \ ty] = [s EXCEPT ![i].ty = s[i].ty \ ty]
    BY <2>1
  <2>6. Good(RemoveAt(s, i))
    BY <2>1, RemoveAtGood
  <2>7. \/ RemoveLoc(s, l, ty) = [ec |-> Removed, seq |-> RemoveAt(s, i)]
        \/ RemoveLoc(s, l, ty) = [ec |-> i - 1, seq |-> [s EXCEPT ![i].ty = @ \ ty]]
    BY <1>2 DEF RemoveLoc, i
  <2>8. CASE RemoveLoc(s, l, ty) = [ec |-> Removed, seq |-> RemoveAt(s, i)]
    BY <2>6, <2>8 DEF Removed
  <2>9. CASE RemoveLoc(s, l, ty)
               = [ec |-> i - 1, seq |-> [s EXCEPT ![i].ty = s[i].ty \ ty]]
    BY <2>1, <2>4, <2>9
  <2>10. QED BY <2>5, <2>7, <2>8, <2>9
<1>3. QED BY <1>1, <1>2

----------------------------------------------------------------------------
(* One insertion as a schedule makes it: one type, merged into a node that *)
(* is there, no dom flag.                                                  *)

(* A thread of a schedule: besides, no node is without a type.             *)
Sound(s) == Good(s) /\ \A i \in 1 .. Len(s) : s[i].ty # {}

InRange(i, stop, start) == start < i /\ (stop = 0 \/ i <= stop)

(* What insertLoc may do, r being its result: refuse; find the location    *)
(* with the type, or without; or put it in at the first slot that fits.    *)
StaysOut(s, r) == r.seq = s /\ ~Inserted(r)
WasThere(s, l, t, stop, start, r) ==
  /\ l \in Locs(s) /\ InRange(IndexOf(s, l), stop, start)
  /\ t \in s[IndexOf(s, l)].ty
  /\ r.ec = SameExists /\ r.seq = s
GetsType(s, l, t, stop, start, r) ==
  /\ l \in Locs(s) /\ InRange(IndexOf(s, l), stop, start)
  /\ t \notin s[IndexOf(s, l)].ty
  /\ r.ec = TypeMerged
  /\ r.seq = [s EXCEPT ![IndexOf(s, l)].ty = s[IndexOf(s, l)].ty \cup {t}]
GoesIn(s, l, t, stop, start, r, i) ==
  /\ l \notin Locs(s) /\ InRange(i, stop, start)
  /\ \A j \in 1 .. i - 1 : Follows(s[j].loc, l)
  /\ \A j \in i .. Len(s) : Follows(l, s[j].loc)
  /\ \A j \in start + 1 .. i - 1 : ~Reach(l, s[j].loc)
  /\ r.ec = i - 1 /\ r.seq = InsertAt(s, i, [loc |-> l, ty |-> {t}])

LEMMA CodesAre == Incompatible = -1 /\ SameExists = -2 /\ TypeMerged = -3 /\ OutOfRange = -6
BY DEF Incompatible, SameExists, TypeMerged, OutOfRange

LEMMA RefusedStaysOut ==
  ASSUME NEW s, NEW ec \in {Incompatible, OutOfRange}, NEW r, r = [ec |-> ec, seq |-> s]
  PROVE  StaysOut(s, r)
<1>1. r.ec = ec /\ r.seq = s
  OBVIOUS
<1>2. r.ec \in {-1, -6}
  BY <1>1, CodesAre
<1>3. ~(r.ec >= 0) /\ r.ec # SameExists /\ r.ec # TypeMerged
  BY <1>2, CodesAre
<1>4. QED BY <1>1, <1>3 DEF StaysOut, Inserted

LEMMA InsertAbsentCases ==
  ASSUME NEW s, Good(s), NEW l \in Loc, l \notin Locs(s), NEW t,
         NEW stop \in 0 .. Len(s), NEW start \in 0 .. Len(s),
         start # 0 => Reach(s[start].loc, l),
         NEW r, r = InsertAbsent(s, l, {t}, FALSE, stop, start)
  PROVE  \/ StaysOut(s, r)
         \/ \E i \in 1 .. Len(s) + 1 : GoesIn(s, l, t, stop, start, r, i)
<1> DEFINE S == Stops(s, l, stop, start)
           i == First(S)
<1>1. s \in Seq(Node) /\ Len(s) \in Nat
  BY DEF Good
<1>2. /\ LastSlot(s, stop) \in 0 .. Len(s)
      /\ S \subseteq 1 .. Len(s) /\ S \subseteq Nat
  BY <1>1, StopsAre
<1>3. \A k \in 1 .. Len(s) : s[k].loc \in Loc
  BY <1>1, NodesHaveLoc
<1>4. CASE S # {} /\ ~Reach(l, s[i].loc)
  <2>1. r = [ec |-> Incompatible, seq |-> s]
    BY <1>4 DEF InsertAbsent
  <2>2. QED BY <2>1, RefusedStaysOut
<1>5. CASE S # {} /\ Reach(l, s[i].loc)
  <2>1. i \in S /\ \A j \in S : i <= j
    BY <1>2, <1>5, FirstIs
  <2>2. i \in start + 1 .. LastSlot(s, stop) /\ i \in 1 .. Len(s)
    BY <1>2, <2>1 DEF Stops
  <2>3. \A j \in start + 1 .. i - 1 : Reach(s[j].loc, l) /\ ~Reach(l, s[j].loc)
    <3> SUFFICES ASSUME NEW j \in start + 1 .. i - 1
                 PROVE  Reach(s[j].loc, l) /\ ~Reach(l, s[j].loc)
      OBVIOUS
    <3>1. j \notin S /\ j \in start + 1 .. LastSlot(s, stop)
      BY <1>1, <1>2, <2>1, <2>2
    <3>2. QED BY <3>1 DEF Stops
  <2>4. \A j \in 1 .. i - 1 : Follows(s[j].loc, l)
    BY <1>1, <2>2, <2>3, ScannedFollow
  <2>5. \A j \in i .. Len(s) : Follows(l, s[j].loc)
    <3> SUFFICES ASSUME NEW j \in i .. Len(s) PROVE Follows(l, s[j].loc)
      OBVIOUS
    <3>1. j = i \/ Follows(s[i].loc, s[j].loc)
      BY <1>1, <2>2 DEF Good, Ordered
    <3>2. s[i].loc \in Loc /\ s[j].loc \in Loc
      BY <1>1, <1>3, <2>2
    <3>3. Follows(l, s[i].loc)
      BY <1>5, <3>2, ReachIsSound
    <3>4. QED BY <3>1, <3>2, <3>3, ExecutionsCompose
  <2>6. r = [ec |-> i - 1, seq |-> InsertAt(s, i, [loc |-> l, ty |-> {t}])]
    BY <1>5 DEF InsertAbsent, InsertBefore
  <2>7. InRange(i, stop, start)
    BY <1>1, <2>2 DEF InRange, LastSlot
  <2> HIDE DEF i
  <2>8. r.ec = i - 1 /\ r.seq = InsertAt(s, i, [loc |-> l, ty |-> {t}])
    BY ONLY <2>6
  <2>9. GoesIn(s, l, t, stop, start, r, i)
    BY <2>3, <2>4, <2>5, <2>7, <2>8 DEF GoesIn
  <2>10. i \in 1 .. Len(s) + 1
    BY <1>1, <2>2
  <2>11. QED BY <2>9, <2>10
<1>6. CASE S = {} /\ stop # 0
  <2>1. r = [ec |-> OutOfRange, seq |-> s]
    BY <1>6 DEF InsertAbsent
  <2>2. QED BY <2>1, RefusedStaysOut
<1>7. CASE S = {} /\ stop = 0
  <2>1. \A j \in start + 1 .. Len(s) : Reach(s[j].loc, l) /\ ~Reach(l, s[j].loc)
    BY <1>7 DEF Stops, LastSlot
  <2> DEFINE n == Len(s) + 1
  <2>2. n \in 1 .. Len(s) + 1 /\ n - 1 = Len(s) /\ n .. Len(s) = {}
    BY <1>1
  <2>3. r = [ec |-> n - 1, seq |-> InsertAt(s, n, [loc |-> l, ty |-> {t}])]
    BY <1>7 DEF InsertAbsent, InsertBefore
  <2>4. InRange(n, stop, start)
    BY <1>1, <1>7 DEF InRange
  <2> HIDE DEF n
  <2>5. \A j \in start + 1 .. n - 1 : Reach(s[j].loc, l) /\ ~Reach(l, s[j].loc)
    BY <2>1, <2>2
  <2>6. \A j \in 1 .. n - 1 : Follows(s[j].loc, l)
    BY <2>2, <2>5, ScannedFollow
  <2>7. r.ec = n - 1 /\ r.seq = InsertAt(s, n, [loc |-> l, ty |-> {t}])
    BY ONLY <2>3
  <2>8. \A j \in n .. Len(s) : Follows(l, s[j].loc)
    BY <2>2
  <2>9. GoesIn(s, l, t, stop, start, r, n)
    BY <2>4, <2>5, <2>6, <2>7, <2>8 DEF GoesIn
  <2>10. QED BY <2>2, <2>9
<1>8. QED BY <1>4, <1>5, <1>6, <1>7

LEMMA InsertCases ==
  ASSUME NEW s, Good(s), NEW l \in Loc, NEW t,
         NEW stop \in 0 .. Len(s), NEW start \in 0 .. Len(s),
         NEW r, r = InsertLoc(s, l, {t}, TRUE, FALSE, stop, start)
  PROVE  \/ StaysOut(s, r)
         \/ WasThere(s, l, t, stop, start, r)
         \/ GetsType(s, l, t, stop, start, r)
         \/ \E i \in 1 .. Len(s) + 1 : GoesIn(s, l, t, stop, start, r, i)
<1>1. CASE start # 0 /\ ~Reach(s[start].loc, l)
  <2>1. r = [ec |-> OutOfRange, seq |-> s]
    BY <1>1 DEF InsertLoc
  <2>2. QED BY <2>1, RefusedStaysOut
<1>2. CASE (start # 0 => Reach(s[start].loc, l)) /\ l \in Locs(s)
  <2> DEFINE i == IndexOf(s, l)
  <2>1. s \in Seq(Node) /\ i \in 1 .. Len(s) /\ Len(s) \in Nat
    BY <1>2, IndexOfIs DEF Good
  <2>2. r = InsertPresent(s, l, {t}, TRUE, stop, start)
    BY <1>2 DEF InsertLoc
  <2>3. CASE i > LastSlot(s, stop) \/ i <= start
    <3>1. i \notin start + 1 .. LastSlot(s, stop)
      BY <2>1, <2>3, StopsAre
    <3>2. r = [ec |-> OutOfRange, seq |-> s]
      BY ONLY <2>2, <2>3, <3>1 DEF InsertPresent
    <3>3. QED BY <3>2, RefusedStaysOut
  <2>4. CASE ~(i > LastSlot(s, stop) \/ i <= start)
    <3>1. i \in start + 1 .. LastSlot(s, stop) /\ InRange(i, stop, start)
      BY <2>1, <2>4 DEF InRange, LastSlot
    <3>2. CASE t \in s[i].ty
      <4>1. r = [ec |-> SameExists, seq |-> s]
        BY <2>2, <2>4, <3>1, <3>2 DEF InsertPresent
      <4>2. r.ec = SameExists /\ r.seq = s
        BY ONLY <4>1
      <4>3. QED BY <1>2, <3>1, <3>2, <4>2 DEF WasThere
    <3>3. CASE t \notin s[i].ty
      <4>1. r = [ec |-> TypeMerged, seq |-> [s EXCEPT ![i].ty = @ \cup {t}]]
        BY <2>2, <2>4, <3>1, <3>3 DEF InsertPresent
      <4>2. [s EXCEPT ![i].ty = @ \cup {t}] = [s EXCEPT ![i].ty = s[i].ty \cup {t}]
        BY <2>1
      <4>3. r.ec = TypeMerged /\ r.seq = [s EXCEPT ![i].ty = s[i].ty \cup {t}]
        BY ONLY <4>1, <4>2
      <4>4. QED BY <1>2, <3>1, <3>3, <4>3 DEF GetsType
    <3>4. QED BY <3>2, <3>3
  <2>5. QED BY <2>3, <2>4
<1>3. CASE (start # 0 => Reach(s[start].loc, l)) /\ l \notin Locs(s)
  <2>1. r = InsertAbsent(s, l, {t}, FALSE, stop, start)
    BY <1>3 DEF InsertLoc
  <2>2. QED BY <1>3, <2>1, InsertAbsentCases
<1>4. QED BY <1>1, <1>2, <1>3

----------------------------------------------------------------------------
(* Positions.                                                              *)

LEMMA LocAt ==
  ASSUME NEW s, Good(s), NEW l \in Locs(s)
  PROVE  /\ IndexOf(s, l) \in 1 .. Len(s) /\ s[IndexOf(s, l)].loc = l /\ l \in Loc
         /\ s[IndexOf(s, l)].ty \in SUBSET Types
<1>1. s \in Seq(Node)
  BY DEF Good
<1>2. IndexOf(s, l) \in 1 .. Len(s) /\ s[IndexOf(s, l)].loc = l
  BY <1>1, IndexOfIs
<1>3. QED BY <1>1, <1>2, NodesHaveLoc

LEMMA IndexIs ==
  ASSUME NEW s, Good(s), NEW j \in 1 .. Len(s)
  PROVE  s[j].loc \in Locs(s) /\ IndexOf(s, s[j].loc) = j
<1>1. s \in Seq(Node) /\ DOMAIN s = 1 .. Len(s)
  BY DEF Good
<1>2. s[j].loc \in Locs(s)
  BY <1>1 DEF Locs
<1>3. IndexOf(s, s[j].loc) \in 1 .. Len(s) /\ s[IndexOf(s, s[j].loc)].loc = s[j].loc
  BY <1>1, <1>2, IndexOfIs
<1>4. QED BY <1>2, <1>3 DEF Good, Distinct

LEMMA InsertAtIndex ==
  ASSUME NEW s, Good(s), NEW l \in Loc, l \notin Locs(s), NEW ty \in SUBSET Types,
         NEW i \in 1 .. Len(s) + 1, Good(InsertAt(s, i, [loc |-> l, ty |-> ty]))
  PROVE  LET u == InsertAt(s, i, [loc |-> l, ty |-> ty]) IN
         /\ Len(u) = Len(s) + 1 /\ Locs(u) = Locs(s) \cup {l}
         /\ IndexOf(u, l) = i /\ u[i].ty = ty
         /\ \A m \in Locs(s) :
              /\ IndexOf(u, m) = IF IndexOf(s, m) < i THEN IndexOf(s, m) ELSE IndexOf(s, m) + 1
              /\ u[IndexOf(u, m)] = s[IndexOf(s, m)]
<1> DEFINE e == [loc |-> l, ty |-> ty]
           u == InsertAt(s, i, e)
<1>1. s \in Seq(Node) /\ e \in Node /\ e.loc = l /\ e.ty = ty /\ Len(s) \in Nat
  BY DEF Good, Node
<1>2. Good(u)
  OBVIOUS
<1> HIDE DEF e
<1>3. /\ u \in Seq(Node) /\ Len(u) = Len(s) + 1
      /\ \A j \in 1 .. Len(s) + 1 :
           u[j] = IF j < i THEN s[j] ELSE IF j = i THEN e ELSE s[j - 1]
  BY ONLY <1>1, i \in 1 .. Len(s) + 1, InsertAtIs, SMTT(60)
<1> HIDE DEF u
<1> DEFINE new(j) == IF j < i THEN j ELSE j + 1
<1>4. \A j \in 1 .. Len(s) : new(j) \in 1 .. Len(u) /\ u[new(j)] = s[j] /\ new(j) # i
  BY <1>1, <1>3
<1>5. i \in 1 .. Len(u) /\ u[i] = e
  BY <1>1, <1>3
<1>6. \A j \in 1 .. Len(u) : u[j] = e \/ \E k \in 1 .. Len(s) : u[j] = s[k]
  <2> SUFFICES ASSUME NEW j \in 1 .. Len(u) PROVE u[j] = e \/ \E k \in 1 .. Len(s) : u[j] = s[k]
    OBVIOUS
  <2>1. CASE j < i
    <3>1. j \in 1 .. Len(s) /\ u[j] = s[j]
      BY <1>1, <1>3, <2>1
    <3>2. QED BY <3>1
  <2>2. CASE j = i
    BY <1>5, <2>2
  <2>3. CASE j > i
    <3>1. j - 1 \in 1 .. Len(s) /\ u[j] = s[j - 1]
      BY <1>1, <1>3, <2>3
    <3>2. QED BY <3>1
  <2>4. QED BY <1>1, <1>3, <2>1, <2>2, <2>3
<1>7. Locs(u) = Locs(s) \cup {l}
  <2>1. DOMAIN u = 1 .. Len(u) /\ DOMAIN s = 1 .. Len(s)
    BY <1>1, <1>3
  <2>2. Locs(u) \subseteq Locs(s) \cup {l}
    BY <1>1, <1>6, <2>1 DEF Locs
  <2>3. Locs(s) \subseteq Locs(u)
    BY <1>4, <2>1 DEF Locs
  <2>4. l \in Locs(u)
    BY <1>1, <1>5, <2>1 DEF Locs
  <2>5. QED BY <2>2, <2>3, <2>4
<1>8. IndexOf(u, l) = i /\ u[i].ty = ty
  BY <1>1, <1>2, <1>5, IndexIs
<1>9. ASSUME NEW m \in Locs(s)
      PROVE  IndexOf(u, m) = new(IndexOf(s, m)) /\ u[IndexOf(u, m)] = s[IndexOf(s, m)]
  <2> DEFINE k == IndexOf(s, m)
  <2>1. k \in 1 .. Len(s) /\ s[k].loc = m
    BY LocAt
  <2> HIDE DEF k
  <2>2. new(k) \in 1 .. Len(u) /\ u[new(k)] = s[k]
    BY <1>4, <2>1
  <2>3. IndexOf(u, u[new(k)].loc) = new(k)
    BY <1>2, <2>2, IndexIs
  <2>4. QED BY <2>1, <2>2, <2>3 DEF k
<1>10. QED BY <1>3, <1>7, <1>8, <1>9 DEF u, e

Retyped(s, i, ty) == [s EXCEPT ![i].ty = ty]

LEMMA RetypeBack ==
  ASSUME NEW s \in Seq(Node), NEW i \in 1 .. Len(s), NEW ty
  PROVE  Retyped(Retyped(s, i, ty), i, s[i].ty) = s
<1> DEFINE D == 1 .. Len(s)
           u == Retyped(s, i, ty)
<1>1. s = [j \in D |-> s[j]] /\ \A j \in D : s[j] \in Node
  BY ElementOfSeq
<1>2. s[i] = [loc |-> s[i].loc, ty |-> s[i].ty]
  BY <1>1 DEF Node
<1>3. u = [j \in D |-> IF j = i THEN [loc |-> s[i].loc, ty |-> ty] ELSE s[j]]
  <2>1. [s[i] EXCEPT !.ty = ty] = [loc |-> s[i].loc, ty |-> ty]
    BY <1>2
  <2>2. u = [s EXCEPT ![i] = [s[i] EXCEPT !.ty = ty]]
    BY DEF Retyped
  <2>3. u = [j \in D |-> IF j = i THEN [s[i] EXCEPT !.ty = ty] ELSE s[j]]
    BY <1>1, <2>2
  <2>4. QED BY <2>1, <2>3
<1> HIDE DEF u
<1>4. Retyped(u, i, s[i].ty) = [j \in D |-> IF j = i THEN [loc |-> s[i].loc, ty |-> s[i].ty] ELSE s[j]]
  BY <1>3 DEF Retyped
<1>5. \A j \in D : s[j] = IF j = i THEN [loc |-> s[i].loc, ty |-> s[i].ty] ELSE s[j]
  BY <1>2
<1>6. QED BY <1>1, <1>4, <1>5 DEF u

LEMMA RetypeIndex ==
  ASSUME NEW s, Good(s), NEW i \in 1 .. Len(s), NEW ty \in SUBSET Types
  PROVE  LET u == Retyped(s, i, ty) IN
         /\ Good(u) /\ Len(u) = Len(s) /\ Locs(u) = Locs(s)
         /\ \A j \in 1 .. Len(s) : u[j].loc = s[j].loc
         /\ \A j \in 1 .. Len(s) : u[j].ty = IF j = i THEN ty ELSE s[j].ty
         /\ \A m \in Locs(s) : IndexOf(u, m) = IndexOf(s, m)
<1> DEFINE u == Retyped(s, i, ty)
<1> USE DEF Retyped
<1>1. s \in Seq(Node) /\ Len(s) \in Nat /\ \A j \in 1 .. Len(s) : s[j] \in Node
  BY ElementOfSeq DEF Good
<1>2. Good(u)
  BY RetypeGood
<1>3. [s[i] EXCEPT !.ty = ty] \in Node
  BY <1>1 DEF Node
<1>4. u \in Seq(Node) /\ Len(u) = Len(s)
  BY <1>1, <1>3, ExceptSeq
<1>5. /\ \A j \in 1 .. Len(s) : u[j].loc = s[j].loc
      /\ \A j \in 1 .. Len(s) : u[j].ty = IF j = i THEN ty ELSE s[j].ty
  BY <1>1 DEF Node
<1> HIDE DEF u, Retyped
<1>6. DOMAIN u = 1 .. Len(s) /\ DOMAIN s = 1 .. Len(s)
  BY <1>1, <1>4
<1>7. Locs(u) = Locs(s)
  BY <1>5, <1>6 DEF Locs
<1>8. ASSUME NEW m \in Locs(s) PROVE IndexOf(u, m) = IndexOf(s, m)
  <2>1. IndexOf(s, m) \in 1 .. Len(u) /\ s[IndexOf(s, m)].loc = m
    BY <1>4, LocAt
  <2>2. u[IndexOf(s, m)].loc = m
    BY <1>4, <1>5, <2>1
  <2>3. QED BY <1>2, <2>1, <2>2, IndexIs
<1>9. QED BY <1>2, <1>4, <1>5, <1>7, <1>8 DEF u

----------------------------------------------------------------------------
(* A thread that has grown: it has all nodes of the old one, in the order  *)
(* they had, with all types they had.                                      *)
TypesAt(s, l) == s[IndexOf(s, l)].ty

Extends(s, u) ==
  \A l \in Locs(s) :
    /\ l \in Locs(u) /\ TypesAt(s, l) \subseteq TypesAt(u, l)
    /\ \A m \in Locs(s) : IndexOf(s, l) < IndexOf(s, m) => IndexOf(u, l) < IndexOf(u, m)

LEMMA ExtendsSelf == ASSUME NEW s PROVE Extends(s, s)
BY DEF Extends

LEMMA ExtendsTrans ==
  ASSUME NEW s, NEW u, NEW v, Extends(s, u), Extends(u, v)
  PROVE  Extends(s, v)
BY DEF Extends

LEMMA ExtendsOrder ==
  ASSUME NEW s, Good(s), NEW u, Good(u), Extends(s, u), NEW l \in Locs(s), NEW m \in Locs(s),
         IndexOf(s, l) <= IndexOf(s, m)
  PROVE  IndexOf(u, l) <= IndexOf(u, m)
<1>1. /\ IndexOf(s, l) \in Nat /\ IndexOf(s, m) \in Nat
      /\ s[IndexOf(s, l)].loc = l /\ s[IndexOf(s, m)].loc = m
  <2>1. s \in Seq(Node)
    BY DEF Good
  <2>2. QED BY <2>1, LocAt
<1>2. l \in Locs(u) /\ m \in Locs(u)
  BY DEF Extends
<1>3. u \in Seq(Node) /\ IndexOf(u, l) \in Nat /\ IndexOf(u, m) \in Nat
  BY <1>2, LocAt DEF Good
<1>4. CASE IndexOf(s, l) < IndexOf(s, m)
  BY <1>3, <1>4 DEF Extends
<1>5. CASE IndexOf(s, l) = IndexOf(s, m)
  BY <1>1, <1>3, <1>5
<1>6. QED BY <1>1, <1>4, <1>5

(* What a schedule relies on after an insertion.  The last two parts: what *)
(* a roll-back of it leaves is the old thread.                             *)
Outcome(s, l, t, stop, start, r) ==
  /\ r.ec \in Int /\ Sound(r.seq) /\ Extends(s, r.seq)
  /\ Locs(r.seq) \subseteq Locs(s) \cup {l}
  /\ \A m \in Locs(s) : TypesAt(r.seq, m) \subseteq TypesAt(s, m) \cup {x \in {t} : m = l}
  /\ l \notin Locs(s) /\ l \in Locs(r.seq) => r.ec >= 0 /\ TypesAt(r.seq, l) = {t}
  /\ r.ec >= 0 => l \notin Locs(s)
  /\ r.ec = SameExists => l \in Locs(s) /\ t \in TypesAt(s, l)
  /\ l \in Locs(s) /\ t \in TypesAt(s, l) => r.seq = s
  /\ ~Inserted(r) => r.seq = s
  /\ Inserted(r) =>
       /\ l \in Locs(r.seq) /\ t \in TypesAt(r.seq, l)
       /\ stop # 0 => IndexOf(r.seq, l) <= IndexOf(r.seq, s[stop].loc)
       /\ start # 0 => IndexOf(r.seq, s[start].loc) < IndexOf(r.seq, l)
  /\ Inserted(r) /\ r.ec = SameExists => r.seq = s
  /\ Inserted(r) /\ r.ec # SameExists => RemoveLoc(r.seq, l, {t}).seq = s

LEMMA StaysOutOutcome ==
  ASSUME NEW s, Sound(s), NEW l, NEW t, NEW stop, NEW start,
         NEW r, StaysOut(s, r), r.ec \in Int
  PROVE  Outcome(s, l, t, stop, start, r)
<1>1. r.seq = s /\ ~Inserted(r)
  BY DEF StaysOut
<1>2. ~(r.ec >= 0) /\ r.ec # SameExists
  BY <1>1 DEF Inserted
<1>3. QED BY <1>1, <1>2, ExtendsSelf DEF Outcome

LEMMA WasThereOutcome ==
  ASSUME NEW s, Sound(s), NEW l \in Loc, NEW t,
         NEW stop \in 0 .. Len(s), NEW start \in 0 .. Len(s),
         NEW r, WasThere(s, l, t, stop, start, r)
  PROVE  Outcome(s, l, t, stop, start, r)
<1>1. /\ r.seq = s /\ r.ec = SameExists /\ l \in Locs(s) /\ t \in TypesAt(s, l)
      /\ InRange(IndexOf(s, l), stop, start)
  BY DEF WasThere, TypesAt
<1>2. Good(s) /\ IndexOf(s, l) \in 1 .. Len(s) /\ Len(s) \in Nat
  BY <1>1, LocAt DEF Sound, Good
<1>3. stop # 0 => IndexOf(s, l) <= IndexOf(s, s[stop].loc)
  <2> SUFFICES ASSUME stop # 0 PROVE IndexOf(s, l) <= IndexOf(s, s[stop].loc)
    OBVIOUS
  <2>1. stop \in 1 .. Len(s)
    BY <1>2
  <2>2. IndexOf(s, s[stop].loc) = stop
    BY <1>2, <2>1, IndexIs
  <2>3. QED BY <1>1, <2>2 DEF InRange
<1>4. start # 0 => IndexOf(s, s[start].loc) < IndexOf(s, l)
  <2> SUFFICES ASSUME start # 0 PROVE IndexOf(s, s[start].loc) < IndexOf(s, l)
    OBVIOUS
  <2>1. start \in 1 .. Len(s)
    BY <1>2
  <2>2. IndexOf(s, s[start].loc) = start
    BY <1>2, <2>1, IndexIs
  <2>3. QED BY <1>1, <2>2 DEF InRange
<1>5. r.ec = -2 /\ ~(r.ec >= 0)
  BY <1>1, CodesAre
<1>6. QED BY <1>1, <1>3, <1>4, <1>5, ExtendsSelf DEF Outcome

LEMMA GetsTypeOutcome ==
  ASSUME NEW s, Sound(s), NEW l \in Loc, NEW t \in Types,
         NEW stop \in 0 .. Len(s), NEW start \in 0 .. Len(s),
         NEW r, GetsType(s, l, t, stop, start, r)
  PROVE  Outcome(s, l, t, stop, start, r)
<1> DEFINE i == IndexOf(s, l)
           ty == s[i].ty \cup {t}
           u == Retyped(s, i, ty)
<1>1. /\ r.seq = u /\ r.ec = TypeMerged /\ l \in Locs(s) /\ t \notin s[i].ty
      /\ InRange(i, stop, start)
  BY DEF GetsType, Retyped
<1>2. /\ Good(s) /\ s \in Seq(Node) /\ i \in 1 .. Len(s) /\ Len(s) \in Nat /\ s[i].loc = l
      /\ s[i].ty \in SUBSET Types /\ \A j \in 1 .. Len(s) : s[j].ty # {} /\ s[j] \in Node
  BY <1>1, LocAt, ElementOfSeq DEF Sound, Good
<1> HIDE DEF i
<1>3. ty \in SUBSET Types
  BY <1>2
<1> HIDE DEF ty
<1>4. /\ Good(u) /\ Len(u) = Len(s) /\ Locs(u) = Locs(s)
      /\ \A j \in 1 .. Len(s) : u[j].loc = s[j].loc
      /\ \A j \in 1 .. Len(s) : u[j].ty = IF j = i THEN ty ELSE s[j].ty
      /\ \A m \in Locs(s) : IndexOf(u, m) = IndexOf(s, m)
  BY <1>2, <1>3, RetypeIndex
<1>5. RemoveLoc(u, l, {t}).seq = s
  <2>2. IndexOf(u, l) = i /\ l \in Locs(u)
    BY <1>1, <1>4 DEF i
  <2>3. u[i].ty = ty /\ ty \ {t} = s[i].ty /\ ty \ {t} # {}
    BY <1>1, <1>2, <1>4 DEF ty
  <2>4. RemoveLoc(u, l, {t}).seq = [u EXCEPT ![i].ty = @ \ {t}]
    BY <2>2, <2>3 DEF RemoveLoc
  <2>5. [u EXCEPT ![i].ty = @ \ {t}] = Retyped(u, i, s[i].ty)
    BY <2>3 DEF Retyped
  <2>6. Retyped(u, i, s[i].ty) = s
    BY <1>2, RetypeBack
  <2>7. QED BY <2>4, <2>5, <2>6
<1> HIDE DEF u
<1>6. Sound(u)
  BY <1>2, <1>4, <1>3 DEF Sound, ty
<1>7. \A m \in Locs(s) : /\ IndexOf(s, m) \in 1 .. Len(s) /\ (m # l => IndexOf(s, m) # i)
                         /\ s[IndexOf(s, m)].loc = m
  BY <1>2, LocAt
<1>8. \A m \in Locs(s) : TypesAt(u, m) = IF m = l THEN ty ELSE TypesAt(s, m)
  BY <1>4, <1>7 DEF TypesAt, i
<1>9. TypesAt(s, l) = s[i].ty /\ IndexOf(s, l) = i
  BY DEF TypesAt, i
<1>10. Extends(s, u)
  BY <1>4, <1>8, <1>9 DEF Extends, ty
<1>11. stop # 0 => IndexOf(u, l) <= IndexOf(u, s[stop].loc)
  <2> SUFFICES ASSUME stop # 0 PROVE IndexOf(u, l) <= IndexOf(u, s[stop].loc)
    OBVIOUS
  <2>1. stop \in 1 .. Len(s)
    BY <1>2
  <2>2. IndexOf(s, s[stop].loc) = stop /\ s[stop].loc \in Locs(s)
    BY <1>2, <2>1, IndexIs
  <2>3. QED BY <1>1, <1>4, <1>9, <2>2 DEF InRange
<1>12. start # 0 => IndexOf(u, s[start].loc) < IndexOf(u, l)
  <2> SUFFICES ASSUME start # 0 PROVE IndexOf(u, s[start].loc) < IndexOf(u, l)
    OBVIOUS
  <2>1. start \in 1 .. Len(s)
    BY <1>2
  <2>2. IndexOf(s, s[start].loc) = start /\ s[start].loc \in Locs(s)
    BY <1>2, <2>1, IndexIs
  <2>3. QED BY <1>1, <1>4, <1>9, <2>2 DEF InRange
<1>13. r.ec = -3 /\ ~(r.ec >= 0) /\ r.ec # SameExists /\ Inserted(r)
  BY <1>1, CodesAre DEF Inserted
<1>14. t \in TypesAt(u, l)
  BY <1>1, <1>8 DEF ty
<1>15. \A m \in Locs(s) : TypesAt(u, m) \subseteq TypesAt(s, m) \cup {x \in {t} : m = l}
  BY <1>8, <1>9 DEF ty
<1>16. t \notin TypesAt(s, l)
  BY <1>1, <1>9 DEF i
<1>17. QED
  BY <1>1, <1>4, <1>5, <1>6, <1>16, <1>10, <1>11, <1>12, <1>13, <1>14, <1>15 DEF Outcome

(* Erasing what was just put in.                                           *)
LEMMA RemoveInserted ==
  ASSUME NEW s \in Seq(Node), NEW i \in 1 .. Len(s) + 1, NEW e \in Node
  PROVE  RemoveAt(InsertAt(s, i, e), i) = s
<1> DEFINE u == InsertAt(s, i, e)
           v == RemoveAt(u, i)
<1>1. Len(s) \in Nat /\ s = [j \in 1 .. Len(s) |-> s[j]]
  OBVIOUS
<1>2. /\ u \in Seq(Node) /\ Len(u) = Len(s) + 1
      /\ \A j \in 1 .. Len(s) + 1 : u[j] = IF j < i THEN s[j] ELSE IF j = i THEN e ELSE s[j - 1]
  BY ONLY s \in Seq(Node), i \in 1 .. Len(s) + 1, e \in Node, InsertAtIs, SMTT(60)
<1> HIDE DEF u
<1>3. i \in 1 .. Len(u)
  BY <1>1, <1>2
<1>4. /\ v \in Seq(Node) /\ Len(v) = Len(u) - 1
      /\ \A j \in 1 .. Len(u) - 1 : v[j] = IF j < i THEN u[j] ELSE u[j + 1]
  BY <1>2, <1>3, RemoveAtIs
<1> HIDE DEF v
<1>5. Len(v) = Len(s)
  BY <1>1, <1>2, <1>4
<1>6. ASSUME NEW j \in 1 .. Len(s) PROVE v[j] = s[j]
  <2>1. j \in 1 .. Len(u) - 1 /\ j \in 1 .. Len(s) + 1 /\ j + 1 \in 1 .. Len(s) + 1
        /\ (j + 1) - 1 = j
    BY <1>1, <1>2
  <2>2. CASE j < i
    BY <1>2, <1>4, <2>1, <2>2
  <2>3. CASE ~(j < i)
    <3>1. v[j] = u[j + 1]
      BY <1>4, <2>1, <2>3
    <3>2. ~(j + 1 < i) /\ j + 1 # i
      BY <2>3
    <3>3. u[j + 1] = s[j]
      BY <1>2, <2>1, <3>2
    <3>4. QED BY <3>1, <3>3
  <2>4. QED BY <2>2, <2>3
<1>7. v = [j \in 1 .. Len(s) |-> v[j]]
  BY <1>4, <1>5
<1>8. QED BY <1>1, <1>6, <1>7 DEF v, u

LEMMA GoesInOutcome ==
  ASSUME NEW s, Sound(s), NEW l \in Loc, NEW t \in Types,
         NEW stop \in 0 .. Len(s), NEW start \in 0 .. Len(s),
         NEW r, NEW i \in 1 .. Len(s) + 1, GoesIn(s, l, t, stop, start, r, i)
  PROVE  Outcome(s, l, t, stop, start, r)
<1> DEFINE e == [loc |-> l, ty |-> {t}]
           u == InsertAt(s, i, e)
<1>1. /\ l \notin Locs(s) /\ InRange(i, stop, start) /\ r.ec = i - 1 /\ r.seq = u
      /\ \A j \in 1 .. i - 1 : Follows(s[j].loc, l)
      /\ \A j \in i .. Len(s) : Follows(l, s[j].loc)
  BY DEF GoesIn
<1>2. /\ Good(s) /\ s \in Seq(Node) /\ Len(s) \in Nat
      /\ \A j \in 1 .. Len(s) : s[j].ty # {}
      /\ {t} \in SUBSET Types /\ e \in Node
  BY DEF Sound, Good, Node
<1>3. Good(u)
  BY <1>1, <1>2, InsertAtGood
<1>4. /\ Len(u) = Len(s) + 1 /\ Locs(u) = Locs(s) \cup {l}
      /\ IndexOf(u, l) = i /\ u[i].ty = {t}
      /\ \A m \in Locs(s) :
           /\ IndexOf(u, m) = IF IndexOf(s, m) < i THEN IndexOf(s, m) ELSE IndexOf(s, m) + 1
           /\ u[IndexOf(u, m)] = s[IndexOf(s, m)]
  <2> DEFINE ty == {t}
  <2>1. ty \in SUBSET Types /\ u = InsertAt(s, i, [loc |-> l, ty |-> ty])
    BY <1>2
  <2> HIDE DEF ty, u
  <2>2. Good(InsertAt(s, i, [loc |-> l, ty |-> ty]))
    BY <1>3, <2>1
  <2>3. LET w == InsertAt(s, i, [loc |-> l, ty |-> ty]) IN
        /\ Len(w) = Len(s) + 1 /\ Locs(w) = Locs(s) \cup {l}
        /\ IndexOf(w, l) = i /\ w[i].ty = ty
        /\ \A m \in Locs(s) :
             /\ IndexOf(w, m) = IF IndexOf(s, m) < i THEN IndexOf(s, m) ELSE IndexOf(s, m) + 1
             /\ w[IndexOf(w, m)] = s[IndexOf(s, m)]
    BY ONLY <1>1, <1>2, <2>1, <2>2, l \in Loc, i \in 1 .. Len(s) + 1, InsertAtIndex
  <2>4. QED BY <2>1, <2>3 DEF ty
<1>5. RemoveAt(u, i) = s
  BY <1>2, RemoveInserted
<1>6. \A j \in 1 .. Len(s) + 1 : u[j] = IF j < i THEN s[j] ELSE IF j = i THEN e ELSE s[j - 1]
  BY <1>2, InsertAtIs
<1>7. e.ty = {t}
  OBVIOUS
<1> HIDE DEF u, e
<1>8. RemoveLoc(u, l, {t}).seq = s
  <2>1. l \in Locs(u) /\ u[IndexOf(u, l)].ty \ {t} = {}
    BY <1>4
  <2>2. RemoveLoc(u, l, {t}).seq = RemoveAt(u, IndexOf(u, l))
    BY <2>1 DEF RemoveLoc
  <2>3. QED BY <1>4, <1>5, <2>2
<1>9. Sound(u)
  <2>1. ASSUME NEW j \in 1 .. Len(u) PROVE u[j].ty # {}
    <3>1. j \in 1 .. Len(s) + 1
      BY <1>4
    <3>2. CASE j < i
      BY <1>2, <1>6, <3>1, <3>2
    <3>3. CASE j = i
      BY <1>4, <3>3
    <3>4. CASE j > i
      <4>1. u[j] = s[j - 1] /\ j - 1 \in 1 .. Len(s)
        BY <1>2, <1>6, <3>1, <3>4
      <4>2. QED BY <1>2, <4>1
    <3>5. QED BY <3>1, <3>2, <3>3, <3>4
  <2>2. QED BY <1>3, <2>1 DEF Sound
<1>10. \A m \in Locs(s) : IndexOf(s, m) \in 1 .. Len(s) /\ m # l
  BY <1>1, <1>2, LocAt
<1>11. \A m \in Locs(s) : TypesAt(u, m) = TypesAt(s, m)
  BY <1>4 DEF TypesAt
<1>12. \A m, n \in Locs(s) : IndexOf(s, m) < IndexOf(s, n) => IndexOf(u, m) < IndexOf(u, n)
  BY <1>4, <1>10
<1>13. Extends(s, u)
  BY <1>4, <1>11, <1>12 DEF Extends
<1>14. stop # 0 => IndexOf(u, l) <= IndexOf(u, s[stop].loc)
  <2> SUFFICES ASSUME stop # 0 PROVE IndexOf(u, l) <= IndexOf(u, s[stop].loc)
    OBVIOUS
  <2>1. stop \in 1 .. Len(s)
    BY <1>2
  <2>2. IndexOf(s, s[stop].loc) = stop /\ s[stop].loc \in Locs(s)
    BY <1>2, <2>1, IndexIs
  <2>3. i <= stop
    BY <1>1 DEF InRange
  <2>4. QED BY <1>4, <2>1, <2>2, <2>3
<1>15. start # 0 => IndexOf(u, s[start].loc) < IndexOf(u, l)
  <2> SUFFICES ASSUME start # 0 PROVE IndexOf(u, s[start].loc) < IndexOf(u, l)
    OBVIOUS
  <2>1. start \in 1 .. Len(s)
    BY <1>2
  <2>2. IndexOf(s, s[start].loc) = start /\ s[start].loc \in Locs(s)
    BY <1>2, <2>1, IndexIs
  <2>3. start < i
    BY <1>1 DEF InRange
  <2>4. QED BY <1>4, <2>2, <2>3
<1>16. r.ec \in Int /\ r.ec >= 0 /\ r.ec # SameExists /\ Inserted(r)
  BY <1>1, CodesAre DEF Inserted
<1>17. l \in Locs(u) /\ TypesAt(u, l) = {t}
  BY <1>4 DEF TypesAt
<1>18. QED
  BY <1>1, <1>4, <1>8, <1>9, <1>11, <1>13, <1>14, <1>15, <1>16, <1>17 DEF Outcome

(* insertLoc, as a schedule calls it.                                      *)
LEMMA InsertOutcome ==
  ASSUME NEW s, Sound(s), NEW l \in Loc, NEW t \in Types,
         NEW stop \in 0 .. Len(s), NEW start \in 0 .. Len(s)
  PROVE  Outcome(s, l, t, stop, start, InsertLoc(s, l, {t}, TRUE, FALSE, stop, start))
<1> DEFINE r == InsertLoc(s, l, {t}, TRUE, FALSE, stop, start)
<1>1. Good(s) /\ {t} \in SUBSET Types
  BY DEF Sound
<1>2. r.ec \in Int
  BY <1>1, InsertLocGood
<1>3. \/ StaysOut(s, r)
      \/ WasThere(s, l, t, stop, start, r)
      \/ GetsType(s, l, t, stop, start, r)
      \/ \E i \in 1 .. Len(s) + 1 : GoesIn(s, l, t, stop, start, r, i)
  BY <1>1, InsertCases
<1> HIDE DEF r
<1>4. Outcome(s, l, t, stop, start, r)
  BY <1>2, <1>3, StaysOutOutcome, WasThereOutcome, GetsTypeOutcome, GoesInOutcome
<1>5. QED BY <1>4 DEF r

=============================================================================
