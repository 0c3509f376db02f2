----------------------------- MODULE EqvProofs -----------------------------
(***************************************************************************)
(* Proofs about the search for equivalent objects, for all objects, points *)
(* -to records and limits: every path it caches leads from the one object  *)
(* to the other, and what it caches does not depend on the searches before *)
(* and on what was pending at the time.                                    *)
(***************************************************************************)
EXTENDS EqvSearch, TLAPS, SequenceTheorems, WellFoundedInduction, FiniteSetTheorems

PathNode == [label : {"ESCAPE", "FETCH"}, pto : Pto]
Path == Seq(PathNode)

----------------------------------------------------------------------------
(* The nodes from a + 1 to a + 2 * n: n escapes, then the fetches from the *)
(* same fields in the opposite order.                                      *)
Block(p, a, n) ==
  /\ a + 2 * n <= Len(p)
  /\ \A i \in a + 1 .. a + n : p[i].label = "ESCAPE"
  /\ \A i \in a + n + 1 .. a + 2 * n : p[i].label = "FETCH"
  /\ \A i \in a + 1 .. a + 2 * n : p[2 * a + 2 * n + 1 - i].pto.field = p[i].pto.field

(* What one search finds is one block, what layers of them find is made of *)
(* blocks.                                                                 *)
OneBlock(p) == \E n \in Nat : Len(p) = 2 * n /\ Block(p, 0, n)
InBlock(p, i, a, n) == Block(p, a, n) /\ i \in a + 1 .. a + 2 * n
Blocks(p) == \A i \in 1 .. Len(p) : \E a, n \in Nat : InBlock(p, i, a, n)

LEMMA OneBlockBlocks ==
  ASSUME NEW p \in Path, OneBlock(p)
  PROVE  Blocks(p)
<1>1. PICK n \in Nat : Len(p) = 2 * n /\ Block(p, 0, n)
  BY DEF OneBlock
<1>2. \A i \in 1 .. Len(p) : InBlock(p, i, 0, n)
  BY <1>1 DEF InBlock
<1>3. QED BY <1>2 DEF Blocks

(* The mirror image of a node is the one of its block.                     *)
LEMMA PairedIs ==
  ASSUME NEW p \in Path, NEW a \in Nat, NEW n \in Nat, NEW i, InBlock(p, i, a, n)
  PROVE  /\ PairedIndex(p, i) = 2 * a + 2 * n + 1 - i
         /\ InBlock(p, PairedIndex(p, i), a, n)
         /\ i \in 1 .. Len(p) /\ PairedIndex(p, i) \in 1 .. Len(p)
<1> DEFINE m == 2 * a + 2 * n + 1 - i
<1>0. i \in a + 1 .. a + 2 * n /\ i \in Nat /\ a + 2 * n <= Len(p) /\ Len(p) \in Nat
      /\ DOMAIN p = 1 .. Len(p)
  BY DEF InBlock, Block, Path
<1>1. m \in a + 1 .. a + 2 * n /\ i \in 1 .. Len(p) /\ m \in 1 .. Len(p)
  BY <1>0
<1>2. CASE i \in a + 1 .. a + n
  <2> DEFINE j == a + n + 1
             F == Labelled(p, "FETCH")
  <2>1. p[i].label = "ESCAPE"
    BY <1>2 DEF InBlock, Block
  <2>2. j \in 1 .. Len(p) /\ j \in a + n + 1 .. a + 2 * n /\ m \in a + n + 1 .. a + 2 * n
    BY <1>0, <1>2
  <2>3. j \in F /\ m \in F
    BY <1>0, <1>1, <2>2 DEF InBlock, Block, Labelled
  <2>4. \A k \in F : k > i => j <= k
    <3> SUFFICES ASSUME NEW k \in F, k > i, k < j PROVE FALSE
      BY <1>0 DEF Labelled
    <3>1. k \in a + 1 .. a + n
      BY <1>0 DEF Labelled
    <3>2. p[k].label = "ESCAPE" /\ p[k].label = "FETCH"
      BY <3>1 DEF InBlock, Block, Labelled
    <3>3. QED BY <3>2
  <2>5. j > i /\ F \subseteq Nat
    BY <1>0, <1>2 DEF Labelled
  <2> HIDE DEF j, F
  <2>6. \A k \in F : k > i /\ (\A x \in F : x > i => k <= x) => k = j
    <3> SUFFICES ASSUME NEW k \in F, k > i, \A x \in F : x > i => k <= x PROVE k = j
      OBVIOUS
    <3>1. k <= j /\ j <= k /\ k \in Nat /\ j \in Nat
      BY <2>3, <2>4, <2>5
    <3>2. QED BY <3>1
  <2>7. FirstAfter(p, i, "FETCH") = j
    BY <2>3, <2>4, <2>5, <2>6 DEF FirstAfter, F
  <2>8. ~\A k \in F : k < i
    BY <1>0, <2>3, <2>5
  <2>9. 2 * j - i - 1 = m
    BY <1>0 DEF j
  <2> HIDE DEF m
  <2>10. PairedIndex(p, i) = m
    BY <2>1, <2>3, <2>7, <2>8, <2>9 DEF PairedIndex, F
  <2>11. QED BY <1>1, <2>10 DEF InBlock, m
<1>3. CASE i \in a + n + 1 .. a + 2 * n
  <2> DEFINE j == a + n
             F == Labelled(p, "ESCAPE")
  <2>1. p[i].label = "FETCH"
    BY <1>3 DEF InBlock, Block
  <2>2. j \in 1 .. Len(p) /\ j \in a + 1 .. a + n /\ m \in a + 1 .. a + n
    BY <1>0, <1>3
  <2>3. j \in F /\ m \in F
    BY <1>0, <1>1, <2>2 DEF InBlock, Block, Labelled
  <2>4. \A k \in F : k < i => k <= j
    <3> SUFFICES ASSUME NEW k \in F, k < i, k > j PROVE FALSE
      BY <1>0 DEF Labelled
    <3>1. k \in a + n + 1 .. a + 2 * n
      BY <1>0 DEF Labelled
    <3>2. p[k].label = "ESCAPE" /\ p[k].label = "FETCH"
      BY <3>1 DEF InBlock, Block, Labelled
    <3>3. QED BY <3>2
  <2>5. j < i /\ F \subseteq Nat
    BY <1>0, <1>3 DEF Labelled
  <2> HIDE DEF j, F
  <2>6. \A k \in F : k < i /\ (\A x \in F : x < i => x <= k) => k = j
    <3> SUFFICES ASSUME NEW k \in F, k < i, \A x \in F : x < i => x <= k PROVE k = j
      OBVIOUS
    <3>1. k <= j /\ j <= k /\ k \in Nat /\ j \in Nat
      BY <2>3, <2>4, <2>5
    <3>2. QED BY <3>1
  <2>7. LastBefore(p, i, "ESCAPE") = j
    BY <2>3, <2>4, <2>5, <2>6 DEF LastBefore, F
  <2>8. ~\A k \in F : k > i
    BY <1>0, <2>3, <2>5
  <2>9. 2 * j - i + 1 = m
    BY <1>0 DEF j
  <2> HIDE DEF m
  <2>10. PairedIndex(p, i) = m
    BY <2>1, <2>3, <2>7, <2>8, <2>9 DEF PairedIndex, F
  <2>11. QED BY <1>1, <2>10 DEF InBlock, m
<1>4. QED BY <1>0, <1>2, <1>3

(* A path of blocks pairs every node with one of the same field.           *)
LEMMA BlocksPaired ==
  ASSUME NEW p \in Path, Blocks(p)
  PROVE  /\ Mirrored(p)
         /\ \A i \in DOMAIN p : p[PairedIndex(p, i)].pto.field = p[i].pto.field
<1> SUFFICES ASSUME NEW i \in DOMAIN p
             PROVE  /\ PairedIndex(p, i) # 0 /\ PairedIndex(p, PairedIndex(p, i)) = i
                    /\ p[PairedIndex(p, i)].pto.field = p[i].pto.field
  BY DEF Mirrored
<1>1. PICK a \in Nat, n \in Nat : InBlock(p, i, a, n)
  BY DEF Blocks, Path
<1> DEFINE m == PairedIndex(p, i)
<1>2. m = 2 * a + 2 * n + 1 - i /\ InBlock(p, m, a, n) /\ i \in 1 .. Len(p) /\ m \in 1 .. Len(p)
  BY <1>1, PairedIs
<1>3. PairedIndex(p, m) = 2 * a + 2 * n + 1 - m
  BY <1>2, PairedIs
<1>4. PairedIndex(p, m) = i
  BY <1>2, <1>3
<1>5. p[m].pto.field = p[i].pto.field
  BY <1>1, <1>2 DEF InBlock, Block
<1>6. QED BY <1>2, <1>4, <1>5

----------------------------------------------------------------------------
(* Longer paths.                                                           *)

LEMMA WrapNodes ==
  ASSUME NEW p \in Path, NEW e \in PathNode, NEW f \in PathNode
  PROVE  /\ Wrap(e, p, f) \in Path
         /\ Len(Wrap(e, p, f)) = Len(p) + 2
         /\ Wrap(e, p, f)[1] = e
         /\ \A i \in 2 .. Len(p) + 1 : Wrap(e, p, f)[i] = p[i - 1]
         /\ Wrap(e, p, f)[Len(p) + 2] = f
<1> DEFINE u == <<e>> \o p
           w == u \o <<f>>
<1>1. /\ u \in Path /\ Len(u) = Len(p) + 1 /\ u[1] = e
      /\ \A i \in 2 .. Len(p) + 1 : u[i] = p[i - 1]
  BY DEF Path
<1> HIDE DEF u
<1>2. /\ w \in Path /\ Len(w) = Len(u) + 1 /\ w[Len(u) + 1] = f
      /\ \A i \in 1 .. Len(u) : w[i] = u[i]
  BY <1>1 DEF Path
<1>3. Wrap(e, p, f) = w
  BY DEF Wrap, u
<1> HIDE DEF w
<1>4. Len(p) \in Nat
  BY DEF Path
<1>5. QED BY <1>1, <1>2, <1>3, <1>4

LEMMA ConnectNodes ==
  ASSUME NEW p \in Path, NEW q \in Path
  PROVE  /\ Connect(p, q) \in Path
         /\ Len(Connect(p, q)) = Len(p) + Len(q)
         /\ \A i \in 1 .. Len(p) : Connect(p, q)[i] = p[i]
         /\ \A i \in 1 .. Len(q) : Connect(p, q)[Len(p) + i] = q[i]
BY DEF Path, Connect

LEMMA WrapBlock ==
  ASSUME NEW p \in Path, NEW e \in PathNode, NEW f \in PathNode, OneBlock(p),
         e.label = "ESCAPE", f.label = "FETCH", e.pto.field = f.pto.field
  PROVE  OneBlock(Wrap(e, p, f))
<1> DEFINE w == Wrap(e, p, f)
<1>1. PICK n \in Nat : Len(p) = 2 * n /\ Block(p, 0, n)
  BY DEF OneBlock
<1>2. /\ Len(w) = Len(p) + 2 /\ w[1] = e /\ w[Len(p) + 2] = f
      /\ \A i \in 2 .. Len(p) + 1 : w[i] = p[i - 1]
  BY WrapNodes
<1> HIDE DEF w
<1>3. Len(w) = 2 * (n + 1)
  BY <1>1, <1>2
<1>4. \A i \in 1 .. n + 1 : w[i].label = "ESCAPE"
  <2> SUFFICES ASSUME NEW i \in 1 .. n + 1 PROVE w[i].label = "ESCAPE"
    OBVIOUS
  <2>1. CASE i = 1
    BY <1>2, <2>1
  <2>2. CASE i \in 2 .. n + 1
    <3>1. i \in 2 .. Len(p) + 1 /\ i - 1 \in 0 + 1 .. 0 + n
      BY <1>1, <2>2
    <3>2. QED BY <1>1, <1>2, <3>1 DEF Block
  <2>3. QED BY <2>1, <2>2
<1>5. \A i \in n + 2 .. 2 * n + 2 : w[i].label = "FETCH"
  <2> SUFFICES ASSUME NEW i \in n + 2 .. 2 * n + 2 PROVE w[i].label = "FETCH"
    OBVIOUS
  <2>1. CASE i = 2 * n + 2
    BY <1>1, <1>2, <2>1
  <2>2. CASE i \in n + 2 .. 2 * n + 1
    <3>1. i \in 2 .. Len(p) + 1 /\ i - 1 \in 0 + n + 1 .. 0 + 2 * n
      BY <1>1, <2>2
    <3>2. QED BY <1>1, <1>2, <3>1 DEF Block
  <2>3. QED BY <2>1, <2>2
<1>6. \A i \in 1 .. 2 * n + 2 : w[2 * n + 3 - i].pto.field = w[i].pto.field
  <2> SUFFICES ASSUME NEW i \in 1 .. 2 * n + 2 PROVE w[2 * n + 3 - i].pto.field = w[i].pto.field
    OBVIOUS
  <2>1. CASE i = 1
    BY <1>1, <1>2, <2>1
  <2>2. CASE i = 2 * n + 2
    <3>1. 2 * n + 3 - i = 1
      BY <2>2
    <3>2. QED BY <1>1, <1>2, <2>2, <3>1
  <2>3. CASE i \in 2 .. 2 * n + 1
    <3> DEFINE j == i - 1
               k == 2 * n + 3 - i
    <3>1. /\ i \in 2 .. Len(p) + 1 /\ k \in 2 .. Len(p) + 1
          /\ j \in 0 + 1 .. 0 + 2 * n /\ 2 * 0 + 2 * n + 1 - j = k - 1
      BY <1>1, <2>3
    <3>2. w[i] = p[j] /\ w[k] = p[k - 1]
      BY <1>2, <3>1
    <3>3. p[2 * 0 + 2 * n + 1 - j].pto.field = p[j].pto.field
      BY <1>1, <3>1 DEF Block
    <3>4. QED BY <3>1, <3>2, <3>3
  <2>4. QED BY <2>1, <2>2, <2>3
<1>7. Block(w, 0, n + 1)
  <2>1. 0 + 1 .. 0 + (n + 1) = 1 .. n + 1 /\ 0 + (n + 1) + 1 .. 0 + 2 * (n + 1) = n + 2 .. 2 * n + 2
        /\ 0 + 1 .. 0 + 2 * (n + 1) = 1 .. 2 * n + 2
    OBVIOUS
  <2>2. \A i \in 1 .. 2 * n + 2 : 2 * 0 + 2 * (n + 1) + 1 - i = 2 * n + 3 - i
    OBVIOUS
  <2>3. QED BY <1>3, <1>4, <1>5, <1>6, <2>1, <2>2 DEF Block
<1>8. QED BY <1>3, <1>7 DEF OneBlock, w

LEMMA ConnectBlocks ==
  ASSUME NEW p \in Path, NEW q \in Path, Blocks(p), Blocks(q)
  PROVE  Blocks(Connect(p, q))
<1> DEFINE w == Connect(p, q)
           L == Len(p)
<1>1. /\ Len(w) = L + Len(q) /\ L \in Nat /\ Len(q) \in Nat
      /\ \A i \in 1 .. L : w[i] = p[i]
      /\ \A i \in 1 .. Len(q) : w[L + i] = q[i]
  <2>1. Len(p) \in Nat /\ Len(q) \in Nat
    BY DEF Path
  <2>2. QED BY <2>1, ConnectNodes
<1> HIDE DEF w
<1>2. ASSUME NEW i \in 1 .. L PROVE \E a, n \in Nat : InBlock(w, i, a, n)
  <2>1. PICK a \in Nat, n \in Nat : InBlock(p, i, a, n)
    BY DEF Blocks
  <2>2. a + 2 * n <= L
    BY <2>1 DEF InBlock, Block
  <2>3. \A k \in a + 1 .. a + 2 * n :
          /\ w[k] = p[k]
          /\ w[2 * a + 2 * n + 1 - k] = p[2 * a + 2 * n + 1 - k]
    <3> SUFFICES ASSUME NEW k \in a + 1 .. a + 2 * n
                 PROVE  /\ w[k] = p[k]
                        /\ w[2 * a + 2 * n + 1 - k] = p[2 * a + 2 * n + 1 - k]
      OBVIOUS
    <3> DEFINE m == 2 * a + 2 * n + 1 - k
    <3>1. k \in 1 .. L /\ m \in 1 .. L
      BY <1>1, <2>2
    <3> HIDE DEF m
    <3>2. w[k] = p[k] /\ w[m] = p[m]
      BY <1>1, <3>1
    <3>3. QED BY <3>2 DEF m
  <2>4. \A k \in a + 1 .. a + n : k \in a + 1 .. a + 2 * n
    OBVIOUS
  <2>5. \A k \in a + n + 1 .. a + 2 * n : k \in a + 1 .. a + 2 * n
    OBVIOUS
  <2>6. a + 2 * n <= Len(w)
    BY <1>1, <2>2
  <2>7. /\ \A k \in a + 1 .. a + n : w[k].label = "ESCAPE"
        /\ \A k \in a + n + 1 .. a + 2 * n : w[k].label = "FETCH"
    BY <2>1, <2>3, <2>4, <2>5 DEF InBlock, Block
  <2>8. \A k \in a + 1 .. a + 2 * n : w[2 * a + 2 * n + 1 - k].pto.field = w[k].pto.field
    BY <2>1, <2>3 DEF InBlock, Block
  <2>9. i \in a + 1 .. a + 2 * n
    BY <2>1 DEF InBlock
  <2>10. InBlock(w, i, a, n)
    BY <2>6, <2>7, <2>8, <2>9 DEF InBlock, Block
  <2>11. QED BY <2>10
<1>3. ASSUME NEW i \in 1 .. Len(q) PROVE \E a, n \in Nat : InBlock(w, L + i, a, n)
  <2>1. PICK a \in Nat, n \in Nat : InBlock(q, i, a, n)
    BY DEF Blocks
  <2> DEFINE b == L + a
  <2>2. a + 2 * n <= Len(q) /\ b \in Nat /\ i \in a + 1 .. a + 2 * n
    BY <1>1, <2>1 DEF InBlock, Block
  <2>3. ASSUME NEW k \in b + 1 .. b + 2 * n
        PROVE  /\ k - L \in a + 1 .. a + 2 * n
               /\ w[k] = q[k - L]
               /\ w[2 * b + 2 * n + 1 - k] = q[2 * a + 2 * n + 1 - (k - L)]
    <3>1. k - L \in 1 .. Len(q) /\ k - L \in a + 1 .. a + 2 * n
      BY <1>1, <2>2
    <3>2. 2 * a + 2 * n + 1 - (k - L) \in 1 .. Len(q)
      <4>1. \A j \in a + 1 .. a + 2 * n : 2 * a + 2 * n + 1 - j \in a + 1 .. a + 2 * n
        OBVIOUS
      <4>2. \A x \in a + 1 .. a + 2 * n : x \in 1 .. Len(q)
        BY <1>1, <2>2
      <4>3. QED BY <3>1, <4>1, <4>2
    <3>3. L + (k - L) = k
      BY <1>1
    <3>4. L + (2 * a + 2 * n + 1 - (k - L)) = 2 * b + 2 * n + 1 - k
      BY <1>1
    <3>5. w[L + (k - L)] = q[k - L]
      BY <1>1, <3>1
    <3>6. w[L + (2 * a + 2 * n + 1 - (k - L))] = q[2 * a + 2 * n + 1 - (k - L)]
      BY <1>1, <3>2
    <3> HIDE DEF b
    <3>7. QED BY <3>1, <3>3, <3>4, <3>5, <3>6
  <2>4. \A k \in b + 1 .. b + n : k - L \in a + 1 .. a + n /\ k \in b + 1 .. b + 2 * n
    BY <1>1
  <2>5. \A k \in b + n + 1 .. b + 2 * n :
          k - L \in a + n + 1 .. a + 2 * n /\ k \in b + 1 .. b + 2 * n
    BY <1>1
  <2>6. b + 2 * n <= Len(w) /\ L + i \in b + 1 .. b + 2 * n
    BY <1>1, <2>2
  <2> HIDE DEF b
  <2>7. \A k \in b + 1 .. b + n : w[k].label = "ESCAPE"
    <3>1. \A j \in a + 1 .. a + n : q[j].label = "ESCAPE"
      BY <2>1 DEF InBlock, Block
    <3>2. QED BY <2>3, <2>4, <3>1
  <2>8. \A k \in b + n + 1 .. b + 2 * n : w[k].label = "FETCH"
    BY <2>1, <2>3, <2>5 DEF InBlock, Block
  <2>9. \A k \in b + 1 .. b + 2 * n : w[2 * b + 2 * n + 1 - k].pto.field = w[k].pto.field
    BY <2>1, <2>3 DEF InBlock, Block
  <2>10. InBlock(w, L + i, b, n)
    BY <2>6, <2>7, <2>8, <2>9 DEF InBlock, Block
  <2>11. QED BY <2>2, <2>10
<1>4. \A i \in 1 .. Len(w) : i \in 1 .. L \/ (i - L \in 1 .. Len(q) /\ L + (i - L) = i)
  BY <1>1
<1>5. \A i \in 1 .. Len(w) : \E a, n \in Nat : InBlock(w, i, a, n)
  <2> SUFFICES ASSUME NEW i \in 1 .. Len(w), i \notin 1 .. L
               PROVE  \E a, n \in Nat : InBlock(w, i, a, n)
    BY <1>2
  <2>1. i - L \in 1 .. Len(q) /\ L + (i - L) = i
    BY <1>4
  <2>2. \E a, n \in Nat : InBlock(w, L + (i - L), a, n)
    BY <1>3, <2>1
  <2>3. QED BY <2>1, <2>2
<1>6. QED BY <1>5 DEF Blocks, w

----------------------------------------------------------------------------
(* Ways from an object to another one.                                     *)

LEMMA HostsSelf ==
  ASSUME NEW o \in Obj
  PROVE  o \in HostsOf[o]
BY DEF HostsOf

LEMMA HostsUp ==
  ASSUME NEW o \in Obj, NEW h \in HostOf[o]
  PROVE  h \in Obj /\ HostsOf[h] \subseteq HostsOf[o]
<1>1. h \in Obj
  BY DEF HostOf
<1>2. \A S \in HostClosed : o \in S => h \in S
  BY DEF HostClosed
<1>3. QED BY <1>1, <1>2 DEF HostsOf

(* What Leads asks for but the pairing of the nodes.                       *)
Way(x, p, y) ==
  /\ p \in Path
  /\ p = <<>> => x = y
  /\ p # <<>> =>
       /\ p[1].label = "ESCAPE" /\ p[1].pto.dst \in HostsOf[x]
       /\ p[Len(p)].label = "FETCH" /\ p[Len(p)].pto.dst \in HostsOf[y]
  /\ \A i \in 1 .. Len(p) - 1 : LeadsOn(p[i], p[i + 1])
  /\ \A i \in 1 .. Len(p) : p[i].label = "FETCH" => p[i].pto.is_creation

LEMMA WayLeads ==
  ASSUME NEW x, NEW p, NEW y, Way(x, p, y), Blocks(p)
  PROVE  Leads(x, p, y)
<1>1. p \in Path /\ Mirrored(p)
      /\ \A i \in DOMAIN p : p[PairedIndex(p, i)].pto.field = p[i].pto.field
  BY BlocksPaired DEF Way
<1>2. \A i \in Labelled(p, "FETCH") : p[i].pto.is_creation
  BY <1>1 DEF Way, Labelled, Path
<1>3. QED BY <1>1, <1>2 DEF Way, Leads

(* A node is a pointer between objects.                                    *)
LEMMA NodeIs ==
  ASSUME NEW e \in PathNode
  PROVE  /\ e.label \in {"ESCAPE", "FETCH"} /\ e.pto \in Pto
         /\ e.pto.src \in Obj /\ e.pto.dst \in Obj
<1>1. e.pto \in Edge
  BY EqvAssumption DEF PathNode
<1>2. QED BY <1>1 DEF PathNode, Edge

(* What is stored in a field and fetched from that of an equivalent object *)
(* is equivalent.                                                          *)
LEMMA WayWrap ==
  ASSUME NEW e \in Pto, NEW f \in Pto, NEW p, Way(e.src, p, f.src), f.is_creation
  PROVE  Way(e.dst, Wrap(Escape(e), p, Fetch(f)), f.dst)
<1> DEFINE w == Wrap(Escape(e), p, Fetch(f))
           L == Len(p)
           m == Escape(e)
           n == Fetch(f)
<1>1. /\ m \in PathNode /\ n \in PathNode /\ m.label = "ESCAPE" /\ n.label = "FETCH"
      /\ m.pto = e /\ n.pto = f
  BY DEF Escape, Fetch, PathNode
<1>2. e.src \in Obj /\ e.dst \in Obj /\ f.src \in Obj /\ f.dst \in Obj
  BY <1>1, NodeIs
<1>3. p \in Path /\ L \in Nat /\ \A i \in 1 .. L : p[i] \in PathNode
  BY DEF Way, Path
<1> HIDE DEF m, n
<1>4. /\ Wrap(m, p, n) \in Path /\ Len(Wrap(m, p, n)) = L + 2
      /\ Wrap(m, p, n)[1] = m /\ Wrap(m, p, n)[L + 2] = n
      /\ \A i \in 2 .. L + 1 : Wrap(m, p, n)[i] = p[i - 1]
  BY <1>1, <1>3, WrapNodes
<1>5. w = Wrap(m, p, n)
  BY DEF m, n
<1> HIDE DEF w
<1>6. /\ w \in Path /\ Len(w) = L + 2 /\ w[1] = m /\ w[L + 2] = n /\ w # <<>>
      /\ \A i \in 2 .. L + 1 : w[i] = p[i - 1]
  BY <1>3, <1>4, <1>5
<1>7. ASSUME NEW i \in 1 .. L + 1 PROVE LeadsOn(w[i], w[i + 1])
  <2>1. CASE L = 0
    <3>1. p = <<>> /\ i = 1
      BY <1>3, <2>1 DEF Path
    <3>2. e.src = f.src
      BY <3>1 DEF Way
    <3>3. w[i] = m /\ w[i + 1] = n
      BY <1>6, <2>1, <3>1
    <3>4. QED BY <1>1, <3>2, <3>3 DEF LeadsOn
  <2>2. CASE L # 0 /\ i = 1
    <3>1. p # <<>> /\ w[i] = m /\ w[i + 1] = p[1]
      BY <1>3, <1>6, <2>2
    <3>2. p[1].label = "ESCAPE" /\ p[1].pto.dst \in HostsOf[e.src]
      BY <3>1 DEF Way
    <3>3. QED BY <1>1, <3>1, <3>2 DEF LeadsOn
  <2>3. CASE L # 0 /\ i = L + 1
    <3>1. p # <<>> /\ w[i] = p[L] /\ w[i + 1] = n
      BY <1>3, <1>6, <2>3
    <3>2. p[L].label = "FETCH" /\ p[L].pto.dst \in HostsOf[f.src]
      BY <3>1 DEF Way
    <3>3. QED BY <1>1, <3>1, <3>2 DEF LeadsOn
  <2>4. CASE i \in 2 .. L
    <3>1. w[i] = p[i - 1] /\ w[i + 1] = p[i] /\ i - 1 \in 1 .. L - 1 /\ i - 1 + 1 = i
      BY <1>3, <1>6, <2>4
    <3>2. LeadsOn(p[i - 1], p[i - 1 + 1])
      BY <3>1 DEF Way
    <3>3. QED BY <3>1, <3>2
  <2>5. QED BY <1>3, <2>1, <2>2, <2>3, <2>4
<1>8. ASSUME NEW i \in 1 .. L + 2, w[i].label = "FETCH" PROVE w[i].pto.is_creation
  <2>1. CASE i = 1
    BY <1>1, <1>6, <1>8, <2>1
  <2>2. CASE i = L + 2
    BY <1>1, <1>6, <2>2
  <2>3. CASE i \in 2 .. L + 1
    <3>1. w[i] = p[i - 1] /\ i - 1 \in 1 .. L
      BY <1>3, <1>6, <2>3
    <3>2. QED BY <1>8, <3>1 DEF Way
  <2>4. QED BY <1>3, <2>1, <2>2, <2>3
<1>9. e.dst \in HostsOf[e.dst] /\ f.dst \in HostsOf[f.dst]
  BY <1>2, HostsSelf
<1>10. Len(w) - 1 = L + 1
  BY <1>3, <1>6
<1>11. Way(e.dst, w, f.dst)
  BY <1>1, <1>6, <1>7, <1>8, <1>9, <1>10 DEF Way
<1>12. QED BY <1>11 DEF w

(* What is embedded in equivalent objects is equivalent.                   *)
LEMMA WayEmbedded ==
  ASSUME NEW x \in Obj, NEW y \in Obj, NEW p, NEW h \in HostOf[x], NEW g \in HostOf[y],
         Way(h, p, g), h = g => x = y
  PROVE  Way(x, p, y)
<1>1. HostsOf[h] \subseteq HostsOf[x] /\ HostsOf[g] \subseteq HostsOf[y]
  BY HostsUp
<1>2. QED BY <1>1 DEF Way

LEMMA WayConnect ==
  ASSUME NEW x, NEW y \in Obj, NEW z, NEW p, NEW q, Way(x, p, y), Way(y, q, z)
  PROVE  Way(x, Connect(p, q), z)
<1> DEFINE w == Connect(p, q)
           L == Len(p)
           M == Len(q)
<1>1. p \in Path /\ q \in Path /\ L \in Nat /\ M \in Nat
  BY DEF Way, Path
<1>2. /\ w \in Path /\ Len(w) = L + M
      /\ \A i \in 1 .. L : w[i] = p[i]
      /\ \A i \in 1 .. M : w[L + i] = q[i]
  BY <1>1, ConnectNodes
<1>3. (p = <<>> <=> L = 0) /\ (q = <<>> <=> M = 0)
  BY <1>1 DEF Path
<1>4. w = <<>> <=> L + M = 0
  BY <1>1, <1>2 DEF Path
<1> HIDE DEF w
<1>5. ASSUME NEW i \in 1 .. L + M - 1 PROVE LeadsOn(w[i], w[i + 1])
  <2>1. CASE i \in 1 .. L - 1
    <3>1. w[i] = p[i] /\ w[i + 1] = p[i + 1]
      BY <1>1, <1>2, <2>1
    <3>2. QED BY <2>1, <3>1 DEF Way
  <2>2. CASE i = L
    <3>1. w[i] = p[L] /\ w[i + 1] = q[1] /\ L # 0 /\ M # 0
      BY <1>1, <1>2, <2>2
    <3>2. /\ p[L].label = "FETCH" /\ p[L].pto.dst \in HostsOf[y]
          /\ q[1].label = "ESCAPE" /\ q[1].pto.dst \in HostsOf[y]
      BY <1>3, <3>1 DEF Way
    <3>3. {p[L].pto.dst, q[1].pto.dst} \subseteq HostsOf[y]
      BY <3>2
    <3>4. QED BY <3>1, <3>2, <3>3 DEF LeadsOn
  <2>3. CASE i \in L + 1 .. L + M - 1
    <3> DEFINE j == i - L
    <3>1. j \in 1 .. M - 1 /\ L + j = i /\ L + (j + 1) = i + 1 /\ j \in 1 .. M /\ j + 1 \in 1 .. M
      BY <1>1, <2>3
    <3> HIDE DEF j
    <3>2. w[L + j] = q[j] /\ w[L + (j + 1)] = q[j + 1]
      BY <1>2, <3>1
    <3>3. LeadsOn(q[j], q[j + 1])
      BY <3>1 DEF Way
    <3>4. QED BY <3>1, <3>2, <3>3
  <2>4. QED BY <1>1, <2>1, <2>2, <2>3
<1>6. ASSUME NEW i \in 1 .. L + M, w[i].label = "FETCH" PROVE w[i].pto.is_creation
  <2>1. CASE i \in 1 .. L
    BY <1>2, <1>6, <2>1 DEF Way
  <2>2. CASE i \in L + 1 .. L + M
    <3> DEFINE j == i - L
    <3>1. j \in 1 .. M /\ L + j = i
      BY <1>1, <2>2
    <3> HIDE DEF j
    <3>2. w[i] = q[j]
      BY <1>2, <3>1
    <3>3. QED BY <1>6, <3>1, <3>2 DEF Way
  <2>3. QED BY <1>1, <2>1, <2>2
<1>7. w = <<>> => x = z
  BY <1>1, <1>3, <1>4 DEF Way
<1>8. w # <<>> => w[1].label = "ESCAPE" /\ w[1].pto.dst \in HostsOf[x]
  <2>1. CASE L # 0
    <3>1. w[1] = p[1]
      BY <1>1, <1>2, <2>1
    <3>2. QED BY <1>3, <2>1, <3>1 DEF Way
  <2>2. CASE L = 0 /\ M # 0
    <3>1. 1 \in 1 .. M /\ L + 1 = 1
      BY <1>1, <2>2
    <3>2. w[L + 1] = q[1]
      BY <1>2, <3>1
    <3>3. x = y /\ w[1] = q[1]
      BY <1>3, <2>2, <3>1, <3>2 DEF Way
    <3>4. QED BY <1>3, <2>2, <3>3 DEF Way
  <2>3. QED BY <1>1, <1>4, <2>1, <2>2
<1>9. w # <<>> => w[L + M].label = "FETCH" /\ w[L + M].pto.dst \in HostsOf[z]
  <2>1. CASE M # 0
    <3>1. M \in 1 .. M
      BY <1>1, <2>1
    <3>2. w[L + M] = q[M]
      BY <1>2, <3>1
    <3>3. QED BY <1>3, <2>1, <3>2 DEF Way
  <2>2. CASE M = 0 /\ L # 0
    <3>1. w[L + M] = p[L] /\ y = z
      BY <1>1, <1>2, <1>3, <2>2 DEF Way
    <3>2. QED BY <1>3, <2>2, <3>1 DEF Way
  <2>3. QED BY <1>1, <1>4, <2>1, <2>2
<1>10. Way(x, w, z)
  BY <1>2, <1>5, <1>6, <1>7, <1>8, <1>9 DEF Way
<1>11. QED BY <1>10 DEF w

----------------------------------------------------------------------------
(* What a search has found for o in direction d: pairs of an object and a  *)
(* path, which is one block unless layers were put together.               *)
Found == Obj \X Path
Between(d, o, p, x) == IF d = "forward" THEN Way(o, p, x) ELSE Way(x, p, o)
Reached(d, o, r) ==
  r \subseteq Found /\ \A t \in r : Between(d, o, t[2], t[1]) /\ OneBlock(t[2])
ReachedAll(d, o, r) ==
  r \subseteq Found /\ \A t \in r : Between(d, o, t[2], t[1]) /\ Blocks(t[2])

LEMMA ReachedIsAll ==
  ASSUME NEW d, NEW o, NEW r, Reached(d, o, r)
  PROVE  ReachedAll(d, o, r)
BY OneBlockBlocks DEF Reached, ReachedAll, Found

LEMMA ReachedUnion ==
  ASSUME NEW d, NEW o, NEW r, NEW q, Reached(d, o, r), Reached(d, o, q)
  PROVE  Reached(d, o, r \cup q)
BY DEF Reached

LEMMA ItselfReached ==
  ASSUME NEW d, NEW o \in Obj
  PROVE  Reached(d, o, Itself(o)) /\ <<o, <<>>>> \in Itself(o)
<1> DEFINE e == <<>>
<1>1. e \in Path /\ Len(e) = 0
  BY DEF Path
<1>2. Way(o, e, o)
  BY <1>1 DEF Way
<1>3. OneBlock(e)
  <2>1. Block(e, 0, 0)
    BY <1>1 DEF Block
  <2>2. Len(e) = 2 * 0
    BY <1>1
  <2>3. QED BY <2>1, <2>2 DEF OneBlock
<1> HIDE DEF e
<1>4. Reached(d, o, {<<o, e>>})
  BY <1>1, <1>2, <1>3 DEF Reached, Found, Between
<1>5. QED BY <1>4 DEF Itself, e

LEMMA PointerReached ==
  ASSUME NEW d \in Dir, NEW o \in Obj, NEW s \in Obj, NEW r, Reached(d, s, r)
  PROVE  Reached(d, o, ThroughPointer(d, o, s, r))
<1> SUFFICES ASSUME NEW t \in Links(d, o, s, r)
             PROVE  /\ t[3].dst \in Obj /\ Around(d, t) \in Path
                    /\ Between(d, o, Around(d, t), t[3].dst) /\ OneBlock(Around(d, t))
  BY DEF ThroughPointer, Reached, Found
<1>1. /\ t[1] \in r /\ t[2] \in Pto /\ t[3] \in Pto
      /\ t[2].dst = o /\ t[2].src = s
      /\ d = "backward" => t[2].is_creation
  BY DEF Links, EdgesTo
<1>2. /\ d = "forward" => t[3] \in FetchEdges(t[1][1], t[2].field)
      /\ d # "forward" => t[3] \in EscapeEdges(t[1][1], t[2].field)
  BY DEF Links
<1>3. /\ t[3].src = t[1][1] /\ t[3].field = t[2].field
      /\ d = "forward" => t[3].is_creation
  BY <1>2 DEF FetchEdges, EscapeEdges
<1>4. /\ t[1][2] \in Path /\ OneBlock(t[1][2]) /\ Between(d, s, t[1][2], t[1][1])
  BY <1>1 DEF Reached, Found
<1>5. \A e \in Pto : /\ Escape(e) \in PathNode /\ Fetch(e) \in PathNode /\ e.dst \in Obj
                     /\ Escape(e).label = "ESCAPE" /\ Fetch(e).label = "FETCH"
                     /\ Escape(e).pto = e /\ Fetch(e).pto = e
  BY EqvAssumption DEF Escape, Fetch, PathNode, Edge
<1>6. CASE d = "forward"
  <2>1. Way(t[2].src, t[1][2], t[3].src)
    BY <1>1, <1>3, <1>4, <1>6 DEF Between
  <2>2. Way(o, Wrap(Escape(t[2]), t[1][2], Fetch(t[3])), t[3].dst)
    BY <1>1, <1>3, <1>6, <2>1, WayWrap
  <2>3. OneBlock(Wrap(Escape(t[2]), t[1][2], Fetch(t[3])))
    BY <1>1, <1>3, <1>4, <1>5, WrapBlock
  <2>4. Wrap(Escape(t[2]), t[1][2], Fetch(t[3])) \in Path
    BY <2>2 DEF Way
  <2>5. QED BY <1>1, <1>5, <1>6, <2>2, <2>3, <2>4 DEF Around, Between
<1>7. CASE d = "backward"
  <2>1. Way(t[3].src, t[1][2], t[2].src)
    BY <1>1, <1>3, <1>4, <1>7 DEF Between
  <2>2. Way(t[3].dst, Wrap(Escape(t[3]), t[1][2], Fetch(t[2])), o)
    BY <1>1, <1>7, <2>1, WayWrap
  <2>3. OneBlock(Wrap(Escape(t[3]), t[1][2], Fetch(t[2])))
    BY <1>1, <1>3, <1>4, <1>5, WrapBlock
  <2>4. Wrap(Escape(t[3]), t[1][2], Fetch(t[2])) \in Path
    BY <2>2 DEF Way
  <2>5. QED BY <1>1, <1>5, <1>7, <2>2, <2>3, <2>4 DEF Around, Between
<1>8. QED BY <1>6, <1>7 DEF Dir

LEMMA HostReached ==
  ASSUME NEW d \in Dir, NEW o \in Obj, parent(o) \in Obj, NEW r, Reached(d, parent(o), r)
  PROVE  Reached(d, o, ThroughHost(d, o, r))
<1> DEFINE h == parent(o)
<1> SUFFICES ASSUME NEW q \in r, getEmbObj(q[1], o) # NoObj, MayBe(d, o, getEmbObj(q[1], o))
             PROVE  /\ getEmbObj(q[1], o) \in Obj /\ q[2] \in Path
                    /\ Between(d, o, q[2], getEmbObj(q[1], o)) /\ OneBlock(q[2])
  BY DEF ThroughHost, Reached, Found
<1> DEFINE x == getEmbObj(q[1], o)
<1>1. q[1] \in Obj /\ q[2] \in Path /\ Between(d, h, q[2], q[1]) /\ OneBlock(q[2])
  BY DEF Reached, Found
<1>2. x \in Obj /\ x # o
  BY <1>1, EqvAssumption DEF MayBe
<1>3. h \in HostOf[o] /\ q[1] \in HostOf[x]
  BY <1>1, <1>2 DEF HostOf
<1>4. q[1] # h
  <2>1. parent(o) # NoObj => getEmbObj(parent(o), o) \in {o, NoObj}
    BY EqvAssumption
  <2>2. parent(o) # NoObj
    BY EqvAssumption
  <2>3. QED BY <1>2, <2>1, <2>2
<1> HIDE DEF x, h
<1>5. CASE d = "forward"
  <2>1. Way(h, q[2], q[1])
    BY <1>1, <1>5 DEF Between
  <2>2. Way(o, q[2], x)
    BY <1>2, <1>3, <1>4, <2>1, WayEmbedded
  <2>3. QED BY <1>1, <1>2, <1>5, <2>2 DEF Between, x
<1>6. CASE d = "backward"
  <2>1. Way(q[1], q[2], h)
    BY <1>1, <1>6 DEF Between
  <2>2. Way(x, q[2], o)
    BY <1>2, <1>3, <1>4, <2>1, WayEmbedded
  <2>3. QED BY <1>1, <1>2, <1>6, <2>2 DEF Between, x
<1>7. QED BY <1>5, <1>6 DEF Dir

(* A path to an object of one layer and one from there make a path.        *)
LEMMA JoinedReached ==
  ASSUME NEW d \in Dir, NEW o \in Obj, NEW m \in Obj, NEW x \in Obj, NEW p, NEW q,
         Between(d, o, p, m), Blocks(p), Between(d, m, q, x), Blocks(q)
  PROVE  Joined(d, p, q) \in Path /\ Between(d, o, Joined(d, p, q), x) /\ Blocks(Joined(d, p, q))
<1>1. CASE d = "forward"
  <2>1. Way(o, p, m) /\ Way(m, q, x)
    BY <1>1 DEF Between
  <2>2. p \in Path /\ q \in Path
    BY <2>1 DEF Way
  <2>3. Way(o, Connect(p, q), x) /\ Blocks(Connect(p, q)) /\ Connect(p, q) \in Path
    BY <2>1, <2>2, WayConnect, ConnectBlocks, ConnectNodes
  <2>4. QED BY <1>1, <2>3 DEF Joined, Between
<1>2. CASE d = "backward"
  <2>1. Way(m, p, o) /\ Way(x, q, m)
    BY <1>2 DEF Between
  <2>2. p \in Path /\ q \in Path
    BY <2>1 DEF Way
  <2>3. Way(x, Connect(q, p), o) /\ Blocks(Connect(q, p)) /\ Connect(q, p) \in Path
    BY <2>1, <2>2, WayConnect, ConnectBlocks, ConnectNodes
  <2>4. QED BY <1>2, <2>3 DEF Joined, Between
<1>3. QED BY <1>1, <1>2 DEF Dir

----------------------------------------------------------------------------
FrameType ==
  [obj : Obj, via : {"none", "host", "from"}, host : BOOLEAN, from : SUBSET Obj,
   res : SUBSET Found, err : {0, -1, -2, -3, -9}, aborted : BOOLEAN]
QueryType ==
  [dir : Dir \cup {"none"}, obj : Obj \cup {NoObj}, res : SUBSET Found,
   new : SUBSET Obj, next : SUBSET Obj, iter : Nat]

(* A cached answer: what a search has found for o, o among it.             *)
CachesInv ==
  /\ once \in [Dir -> [Obj -> SUBSET Found]]
  /\ all \in [Dir -> [Obj -> SUBSET Found]]
  /\ \A d \in Dir, o \in Obj :
       /\ Reached(d, o, once[d][o]) /\ (once[d][o] # {} => <<o, <<>>>> \in once[d][o])
       /\ ReachedAll(d, o, all[d][o]) /\ (all[d][o] # {} => <<o, <<>>>> \in all[d][o])

(* A query: its result is for its object, and has the layers to come.      *)
QueryOK(q) ==
  /\ q \in QueryType
  /\ q # NoQuery =>
       /\ q.dir \in Dir /\ q.obj \in Obj
       /\ ReachedAll(q.dir, q.obj, q.res) /\ <<q.obj, <<>>>> \in q.res
       /\ q.new \cup q.next \subseteq Keys(q.res)
       /\ q.iter \in 0 .. MAX_EQV_OBJ_ITER - 1

(* A pending call: its result so far is for its object.                    *)
FrameOK(d, f) ==
  /\ f \in FrameType
  /\ Reached(d, f.obj, f.res) /\ <<f.obj, <<>>>> \in f.res
  /\ f.host => parent(f.obj) \in Obj

(* The one above it is the call that it waits for.                         *)
StackOK(s, q) ==
  /\ s \in Seq(FrameType)
  /\ s # <<>> => q # NoQuery /\ s[1].obj \in Keys(q.res)
  /\ \A i \in 1 .. Len(s) : FrameOK(q.dir, s[i]) /\ (i < Len(s) <=> s[i].via # "none")
  /\ \A i \in 1 .. Len(s) - 1 : s[i].via = "host" => s[i + 1].obj = parent(s[i].obj)

IInv == CachesInv /\ QueryOK(query) /\ StackOK(stack, query) /\ cnt \in Nat

----------------------------------------------------------------------------
LEMMA FrameStarts ==
  ASSUME NEW d \in Dir, NEW o \in Obj
  PROVE  FrameOK(d, Frame(d, o)) /\ Frame(d, o).obj = o /\ Frame(d, o).via = "none"
<1> DEFINE search == d = "forward" \/ isDummy(o)
           b == search /\ parent(o) # NoObj
           F == IF search THEN PointsFrom(d, o) ELSE {}
           R == Itself(o)
<1>1. b \in BOOLEAN /\ (b => parent(o) \in Obj)
  BY EqvAssumption
<1>2. F \subseteq Obj
  BY EqvAssumption DEF PointsFrom, EdgesTo, Edge
<1>3. Reached(d, o, R) /\ <<o, <<>>>> \in R /\ R \subseteq Found
  BY ItselfReached DEF Reached
<1>4. Frame(d, o) = [obj |-> o, via |-> "none", host |-> b, from |-> F,
                     res |-> R, err |-> 0, aborted |-> FALSE]
  BY DEF Frame
<1> HIDE DEF b, F, R
<1>5. QED BY <1>1, <1>2, <1>3, <1>4 DEF FrameOK, FrameType

(* A frame takes the answer of the call that it waited for.                *)
LEMMA FrameAbsorbs ==
  ASSUME query.dir \in Dir, NEW f, FrameOK(query.dir, f), NEW o \in Obj, NEW r,
         Reached(query.dir, o, r), f.via = "host" => o = parent(f.obj),
         NEW e \in {0, -1, -2, -3, -9}
  PROVE  /\ FrameOK(query.dir, Absorb(f, o, r, e))
         /\ Absorb(f, o, r, e).obj = f.obj /\ Absorb(f, o, r, e).via = "none"
<1> DEFINE d == query.dir
           a == f.aborted \/ e < 0
           H == f.res \cup ThroughHost(d, f.obj, r)
           P == f.res \cup ThroughPointer(d, f.obj, o, r)
           F == IF e = -9 THEN {} ELSE f.from \ {o}
           x == IF d = "forward" THEN f.err ELSE e
<1>1. f \in FrameType /\ Reached(d, f.obj, f.res) /\ <<f.obj, <<>>>> \in f.res /\ f.obj \in Obj
  BY DEF FrameOK, FrameType
<1>2. a \in BOOLEAN /\ F \subseteq Obj /\ x \in {0, -1, -2, -3, -9}
  BY <1>1 DEF FrameType
<1>3. CASE f.via = "host"
  <2>1. Reached(d, f.obj, H)
    BY <1>1, <1>3, HostReached, ReachedUnion
  <2>2. H \subseteq Found /\ <<f.obj, <<>>>> \in H
    BY <1>1, <2>1 DEF Reached
  <2>3. Absorb(f, o, r, e) =
          [f EXCEPT !.host = FALSE, !.via = "none", !.err = e, !.aborted = a, !.res = H]
    BY <1>3 DEF Absorb
  <2> HIDE DEF H, P, F, x, a, d
  <2> DEFINE A == Absorb(f, o, r, e)
  <2> HIDE DEF A
  <2>4. A = [f EXCEPT !.host = FALSE, !.via = "none", !.err = e, !.aborted = a, !.res = H]
    BY <2>3 DEF A
  <2>5. /\ A \in FrameType /\ A.obj = f.obj /\ A.via = "none" /\ A.res = H /\ A.host = FALSE
    BY <1>1, <1>2, <2>2, <2>4 DEF FrameType
  <2>6. FrameOK(d, A)
    BY <2>1, <2>2, <2>5 DEF FrameOK
  <2>7. QED BY <2>5, <2>6 DEF A, d
<1>4. CASE f.via # "host"
  <2>1. Reached(d, f.obj, P)
    BY <1>1, PointerReached, ReachedUnion
  <2>2. P \subseteq Found /\ <<f.obj, <<>>>> \in P
    BY <1>1, <2>1 DEF Reached
  <2>3. Absorb(f, o, r, e) =
          [f EXCEPT !.from = F, !.via = "none", !.err = x, !.aborted = a, !.res = P]
    BY <1>4 DEF Absorb
  <2>4. f.host => parent(f.obj) \in Obj
    BY DEF FrameOK
  <2> HIDE DEF H, P, F, x, a, d
  <2> DEFINE A == Absorb(f, o, r, e)
  <2> HIDE DEF A
  <2>5. A = [f EXCEPT !.from = F, !.via = "none", !.err = x, !.aborted = a, !.res = P]
    BY <2>3 DEF A
  <2>6. /\ A \in FrameType /\ A.obj = f.obj /\ A.via = "none" /\ A.res = P /\ A.host = f.host
    BY <1>1, <1>2, <2>2, <2>5 DEF FrameType
  <2>7. FrameOK(d, A)
    BY <2>1, <2>2, <2>4, <2>6 DEF FrameOK
  <2>8. QED BY <2>6, <2>7 DEF A, d
<1>5. QED BY <1>3, <1>4

(* The query takes the answer for an object of its layer.                  *)
LEMMA LayerAbsorbed ==
  ASSUME QueryOK(query), query # NoQuery, NEW o \in Obj, o \in Keys(query.res),
         NEW r, Reached(query.dir, o, r)
  PROVE  /\ QueryOK(AbsorbLayer(o, r)) /\ AbsorbLayer(o, r) # NoQuery
         /\ AbsorbLayer(o, r).dir = query.dir /\ AbsorbLayer(o, r).new = query.new
         /\ Keys(query.res) \subseteq Keys(AbsorbLayer(o, r).res)
<1> DEFINE d == query.dir
           B == { x \in query.res : x[1] = o }
           W == { e \in r : e[1] \notin Keys(query.res) }
           X == { <<t[2][1], Joined(d, t[1][2], t[2][2])>> : t \in B \X W }
           Y == { x \in Keys(W) : d = "forward" \/ isDummy(x) }
           R == query.res \cup X
           Q == AbsorbLayer(o, r)
<1>1. /\ query \in QueryType /\ d \in Dir /\ query.obj \in Obj
      /\ ReachedAll(d, query.obj, query.res) /\ <<query.obj, <<>>>> \in query.res
      /\ query.new \cup query.next \subseteq Keys(query.res)
      /\ query.iter \in 0 .. MAX_EQV_OBJ_ITER - 1
  BY DEF QueryOK
<1>2. ASSUME NEW t \in B \X W
      PROVE  /\ t[2][1] \in Obj /\ Joined(d, t[1][2], t[2][2]) \in Path
             /\ Between(d, query.obj, Joined(d, t[1][2], t[2][2]), t[2][1])
             /\ Blocks(Joined(d, t[1][2], t[2][2]))
  <2>1. t[1] \in query.res /\ t[1][1] = o /\ t[2] \in r
    OBVIOUS
  <2>2. Between(d, query.obj, t[1][2], o) /\ Blocks(t[1][2])
    BY <1>1, <2>1 DEF ReachedAll
  <2>3. ReachedAll(d, o, r)
    BY ReachedIsAll
  <2>4. Between(d, o, t[2][2], t[2][1]) /\ Blocks(t[2][2]) /\ t[2][1] \in Obj
    BY <2>1, <2>3 DEF ReachedAll, Found
  <2>5. QED BY <1>1, <2>2, <2>4, JoinedReached
<1>3. ReachedAll(d, query.obj, X)
  BY <1>2 DEF ReachedAll, Found
<1>4. ReachedAll(d, query.obj, R)
  BY <1>1, <1>3 DEF ReachedAll
<1>5. Q = [query EXCEPT !.res = R, !.next = query.next \cup Y]
  BY DEF AbsorbLayer
<1>6. Y \subseteq Obj /\ Y \subseteq Keys(R)
  <2>1. PICK x \in B : TRUE
    BY DEF Keys
  <2>2. ASSUME NEW e \in W PROVE e[1] \in Obj /\ e[1] \in Keys(R)
    <3> DEFINE t == <<x, e>>
    <3>1. t \in B \X W /\ t[2] = e
      BY <2>1
    <3> HIDE DEF t
    <3>2. <<t[2][1], Joined(d, t[1][2], t[2][2])>> \in X
      BY <3>1
    <3>3. \A y \in X : y[1] \in Keys(R)
      BY DEF Keys
    <3>4. <<t[2][1], Joined(d, t[1][2], t[2][2])>>[1] = t[2][1]
      OBVIOUS
    <3> HIDE DEF X, R
    <3>5. QED BY <1>2, <3>1, <3>2, <3>3, <3>4
  <2> HIDE DEF R, W
  <2>3. QED BY <2>2 DEF Keys
<1>7. Keys(query.res) \subseteq Keys(R)
  BY DEF Keys
<1>8. R \subseteq Found /\ <<query.obj, <<>>>> \in R
  BY <1>1, <1>4 DEF ReachedAll
<1> HIDE DEF Q, R, Y, d
<1>9. /\ Q \in QueryType /\ Q.dir = d /\ Q.obj = query.obj /\ Q.res = R
      /\ Q.new = query.new /\ Q.next = query.next \cup Y /\ Q.iter = query.iter
  BY <1>1, <1>5, <1>6, <1>8 DEF QueryType, d
<1>10. Q # NoQuery
  BY <1>1, <1>9 DEF NoQuery, Dir
<1>11. Q.new \cup Q.next \subseteq Keys(R)
  BY <1>1, <1>6, <1>7, <1>9
<1>12. QueryOK(Q)
  BY <1>1, <1>4, <1>8, <1>9, <1>11 DEF QueryOK
<1>13. QED BY <1>7, <1>9, <1>10, <1>12 DEF Q, d

----------------------------------------------------------------------------
(* The stack of pending calls.                                             *)

LEMMA BelowIs ==
  ASSUME NEW S, NEW s \in Seq(S), s # <<>>
  PROVE  /\ Len(s) \in Nat \ {0}
         /\ SubSeq(s, 1, Len(s) - 1) \in Seq(S)
         /\ Len(SubSeq(s, 1, Len(s) - 1)) = Len(s) - 1
         /\ \A i \in 1 .. Len(s) - 1 : SubSeq(s, 1, Len(s) - 1)[i] = s[i]
<1>1. Len(s) \in Nat \ {0}
  OBVIOUS
<1>2. PICK n \in Nat : n = Len(s) - 1
  BY <1>1
<1>3. \A i \in 1 .. n : s[i] \in S
  BY <1>2
<1> DEFINE b == SubSeq(s, 1, n)
<1>4. /\ b \in Seq(S)
      /\ Len(b) = IF 1 <= n THEN n - 1 + 1 ELSE 0
      /\ \A i \in 1 .. n - 1 + 1 : b[i] = s[1 + i - 1]
  BY <1>3, SubSeqProperties
<1> HIDE DEF b
<1>5. Len(b) = n
  BY ONLY <1>4, n \in Nat
<1>6. ASSUME NEW i \in 1 .. n PROVE b[i] = s[i]
  <2>1. i \in 1 .. n - 1 + 1 /\ 1 + i - 1 = i
    OBVIOUS
  <2>2. b[i] = s[1 + i - 1]
    BY <1>4, <2>1
  <2>3. QED BY <2>1, <2>2
<1>7. QED BY <1>1, <1>2, <1>4, <1>5, <1>6 DEF b

(* The three ways in which the stack changes.                              *)

LEMMA ReplacedIs ==
  ASSUME NEW S, NEW s \in Seq(S), s # <<>>, NEW f \in S
  PROVE  LET n == Append(SubSeq(s, 1, Len(s) - 1), f) IN
         /\ n \in Seq(S) /\ Len(n) = Len(s) /\ n[Len(s)] = f
         /\ \A i \in 1 .. Len(s) - 1 : n[i] = s[i]
<1> DEFINE N == Len(s)
           b == SubSeq(s, 1, N - 1)
<1>1. /\ N \in Nat \ {0} /\ b \in Seq(S) /\ Len(b) = N - 1
      /\ \A i \in 1 .. N - 1 : b[i] = s[i]
  BY BelowIs
<1> HIDE DEF b, N
<1>2. LET n == Append(b, f) IN
      /\ n \in Seq(S) /\ Len(n) = N /\ n[N] = f /\ \A i \in 1 .. N - 1 : n[i] = s[i]
  BY <1>1
<1>3. QED BY <1>2 DEF b, N

Pushed(S, s, f, g, n) ==
  /\ n \in Seq(S) /\ Len(n) = Len(s) + 1 /\ n[Len(s)] = f /\ n[Len(s) + 1] = g
  /\ \A i \in 1 .. Len(s) - 1 : n[i] = s[i]

LEMMA PushedIs ==
  ASSUME NEW S, NEW s \in Seq(S), s # <<>>, NEW f \in S, NEW g \in S
  PROVE  Pushed(S, s, f, g, SubSeq(s, 1, Len(s) - 1) \o <<f, g>>)
<1> DEFINE N == Len(s)
           b == SubSeq(s, 1, N - 1)
           u == <<f, g>>
           n == b \o u
<1>1. /\ N \in Nat \ {0} /\ b \in Seq(S) /\ Len(b) = N - 1
      /\ \A i \in 1 .. N - 1 : b[i] = s[i]
  BY BelowIs
<1>2. u \in Seq(S) /\ Len(u) = 2 /\ u[1] = f /\ u[2] = g
  OBVIOUS
<1> HIDE DEF b, N, u
<1>3. /\ n \in Seq(S) /\ Len(n) = Len(b) + Len(u)
      /\ \A i \in 1 .. Len(b) + Len(u) : n[i] = IF i <= Len(b) THEN b[i] ELSE u[i - Len(b)]
  BY <1>1, <1>2, ConcatProperties
<1>4. /\ Len(b) + Len(u) = N + 1 /\ N - Len(b) = 1 /\ N + 1 - Len(b) = 2
      /\ N \in 1 .. N + 1 /\ N + 1 \in 1 .. N + 1 /\ ~(N <= Len(b)) /\ ~(N + 1 <= Len(b))
      /\ \A i \in 1 .. N - 1 : i \in 1 .. N + 1 /\ i <= Len(b)
  BY <1>1, <1>2
<1> HIDE DEF n
<1>5. /\ n \in Seq(S) /\ Len(n) = N + 1 /\ n[N] = f /\ n[N + 1] = g
      /\ \A i \in 1 .. N - 1 : n[i] = s[i]
  BY <1>1, <1>2, <1>3, <1>4
<1>6. Pushed(S, s, f, g, n)
  BY <1>5 DEF Pushed, N
<1>7. QED BY <1>6 DEF n, b, N, u

Popped(S, s, f, n) ==
  /\ n \in Seq(S) /\ Len(n) = Len(s) - 1 /\ n[Len(s) - 1] = f
  /\ \A i \in 1 .. Len(s) - 2 : n[i] = s[i]

LEMMA PoppedIs ==
  ASSUME NEW S, NEW s \in Seq(S), Len(s) > 1, NEW f \in S
  PROVE  Popped(S, s, f, [SubSeq(s, 1, Len(s) - 1) EXCEPT ![Len(s) - 1] = f])
<1> DEFINE M == Len(s) - 1
           b == SubSeq(s, 1, M)
           n == [b EXCEPT ![M] = f]
<1>1. /\ M \in Nat \ {0} /\ b \in Seq(S) /\ Len(b) = M /\ Len(s) - 2 = M - 1
      /\ \A i \in 1 .. M : b[i] = s[i]
  <2>1. s # <<>>
    OBVIOUS
  <2>2. /\ Len(s) \in Nat \ {0} /\ b \in Seq(S) /\ Len(b) = Len(s) - 1
        /\ \A i \in 1 .. Len(s) - 1 : b[i] = s[i]
    BY <2>1, BelowIs
  <2> HIDE DEF b
  <2>3. QED BY <2>2
<1> HIDE DEF b, M
<1>2. n \in Seq(S) /\ Len(n) = M /\ n[M] = f /\ \A i \in 1 .. M - 1 : n[i] = s[i]
  BY <1>1
<1> HIDE DEF n
<1>3. Popped(S, s, f, n)
  BY <1>1, <1>2 DEF Popped, M
<1>4. QED BY <1>3 DEF n, b, M

LEMMA TopReplaced ==
  ASSUME NEW s, NEW q, StackOK(s, q), s # <<>>, NEW f, FrameOK(q.dir, f),
         f.obj = s[Len(s)].obj, f.via = "none"
  PROVE  StackOK(Append(SubSeq(s, 1, Len(s) - 1), f), q)
<1> DEFINE N == Len(s)
           n == Append(SubSeq(s, 1, N - 1), f)
<1>1. s \in Seq(FrameType) /\ N \in Nat \ {0} /\ f \in FrameType
  BY DEF StackOK, FrameOK
<1>3. /\ n \in Seq(FrameType) /\ Len(n) = N /\ n[N] = f
      /\ \A i \in 1 .. N - 1 : n[i] = s[i]
  BY <1>1, ReplacedIs
<1> HIDE DEF n, N
<1>4. \A i \in 1 .. N : i = N \/ i \in 1 .. N - 1
  BY <1>1
<1>5. \A i \in 1 .. N : n[i].obj = s[i].obj
  BY <1>3, <1>4 DEF N
<1>6. \A i \in 1 .. N : FrameOK(q.dir, n[i]) /\ (i < N <=> n[i].via # "none")
  BY <1>1, <1>3, <1>4 DEF StackOK, N
<1>7. ASSUME NEW i \in 1 .. N - 1, n[i].via = "host" PROVE n[i + 1].obj = parent(n[i].obj)
  <2>1. i \in 1 .. N /\ i + 1 \in 1 .. N
    BY <1>1
  <2>2. s[i + 1].obj = parent(s[i].obj)
    BY <1>3, <1>7 DEF StackOK, N
  <2>3. QED BY <1>5, <2>1, <2>2
<1>8. n # <<>> /\ n[1].obj = s[1].obj
  BY <1>1, <1>3, <1>5
<1>9. StackOK(n, q)
  BY <1>3, <1>6, <1>7, <1>8 DEF StackOK
<1>10. QED BY <1>9 DEF n, N

LEMMA FramePushed ==
  ASSUME NEW s, NEW q, StackOK(s, q), s # <<>>, NEW f, FrameOK(q.dir, f), NEW g, FrameOK(q.dir, g),
         f.obj = s[Len(s)].obj, f.via # "none", g.via = "none",
         f.via = "host" => g.obj = parent(f.obj)
  PROVE  StackOK(SubSeq(s, 1, Len(s) - 1) \o <<f, g>>, q)
<1> DEFINE N == Len(s)
           n == SubSeq(s, 1, N - 1) \o <<f, g>>
<1>1. s \in Seq(FrameType) /\ N \in Nat \ {0} /\ f \in FrameType /\ g \in FrameType
  BY DEF StackOK, FrameOK
<1>2. Pushed(FrameType, s, f, g, n)
  BY <1>1, PushedIs
<1> HIDE DEF n
<1>4. /\ n \in Seq(FrameType) /\ Len(n) = N + 1 /\ n[N] = f /\ n[N + 1] = g
      /\ \A i \in 1 .. N - 1 : n[i] = s[i]
  BY <1>2 DEF Pushed
<1> HIDE DEF N
<1>5. \A i \in 1 .. N + 1 : i = N + 1 \/ i = N \/ i \in 1 .. N - 1
  BY <1>1
<1>6. \A i \in 1 .. N : n[i].obj = s[i].obj
  BY <1>1, <1>4, <1>5 DEF N
<1>7. \A i \in 1 .. N - 1 : FrameOK(q.dir, s[i]) /\ s[i].via # "none"
  BY <1>1 DEF StackOK, N
<1>8. \A i \in 1 .. N + 1 : FrameOK(q.dir, n[i]) /\ (i < N + 1 <=> n[i].via # "none")
  BY <1>1, <1>4, <1>5, <1>7
<1>9. ASSUME NEW i \in 1 .. N, n[i].via = "host" PROVE n[i + 1].obj = parent(n[i].obj)
  <2>1. CASE i = N
    BY <1>4, <1>9, <2>1
  <2>2. CASE i \in 1 .. N - 1
    <3>1. i + 1 \in 1 .. N
      BY <1>1, <2>2
    <3>2. s[i + 1].obj = parent(s[i].obj)
      BY <1>4, <1>9, <2>2 DEF StackOK, N
    <3>3. QED BY <1>6, <3>1, <3>2
  <2>3. QED BY <1>1, <2>1, <2>2
<1>10. n # <<>> /\ n[1].obj = s[1].obj
  BY <1>1, <1>4, <1>6
<1>11. Len(n) - 1 = N
  BY <1>1, <1>4
<1>12. StackOK(n, q)
  BY <1>4, <1>8, <1>9, <1>10, <1>11 DEF StackOK
<1>13. QED BY <1>12 DEF n, N

LEMMA FramePopped ==
  ASSUME NEW s, NEW q, StackOK(s, q), Len(s) > 1, NEW f, FrameOK(q.dir, f),
         f.obj = s[Len(s) - 1].obj, f.via = "none"
  PROVE  StackOK([SubSeq(s, 1, Len(s) - 1) EXCEPT ![Len(s) - 1] = f], q)
<1> DEFINE M == Len(s) - 1
           n == [SubSeq(s, 1, Len(s) - 1) EXCEPT ![Len(s) - 1] = f]
<1>0. s \in Seq(FrameType) /\ s # <<>> /\ f \in FrameType
  BY DEF StackOK, FrameOK
<1>1. M \in Nat \ {0} /\ Len(s) = M + 1 /\ Len(s) - 2 = M - 1
  <2>1. PICK k \in Nat : k = Len(s)
    BY <1>0
  <2>2. M = k - 1 /\ k > 1
    BY <2>1
  <2> HIDE DEF M
  <2>3. QED BY <2>1, <2>2
<1>2. Popped(FrameType, s, f, n)
  BY <1>0, PoppedIs
<1> HIDE DEF n, M
<1>3. /\ n \in Seq(FrameType) /\ Len(n) = M /\ n[M] = f
      /\ \A i \in 1 .. M - 1 : n[i] = s[i]
  BY <1>1, <1>2 DEF Popped, M
<1>4. \A i \in 1 .. M : i = M \/ i \in 1 .. M - 1
  BY <1>1
<1>5. \A i \in 1 .. M : n[i].obj = s[i].obj
  BY <1>3, <1>4 DEF M
<1>6. \A i \in 1 .. M - 1 : FrameOK(q.dir, s[i]) /\ s[i].via # "none"
  BY <1>1 DEF StackOK
<1>7. \A i \in 1 .. M : FrameOK(q.dir, n[i]) /\ (i < M <=> n[i].via # "none")
  BY <1>1, <1>3, <1>4, <1>6
<1>8. ASSUME NEW i \in 1 .. M - 1, n[i].via = "host" PROVE n[i + 1].obj = parent(n[i].obj)
  <2>1. i \in 1 .. M /\ i + 1 \in 1 .. M /\ i \in 1 .. Len(s) - 1
    BY <1>1
  <2>2. s[i + 1].obj = parent(s[i].obj)
    BY <1>3, <1>8, <2>1 DEF StackOK
  <2>3. QED BY <1>5, <2>1, <2>2
<1>9. n # <<>> /\ n[1].obj = s[1].obj
  BY <1>1, <1>3, <1>5
<1>10. StackOK(n, q)
  BY <1>0, <1>3, <1>7, <1>8, <1>9 DEF StackOK
<1>11. QED BY <1>10 DEF n, M

----------------------------------------------------------------------------
(* The steps.                                                              *)

LEMMA InitInv == Init => IInv
<1> SUFFICES ASSUME Init PROVE IInv
  OBVIOUS
<1>1. once = [d \in Dir |-> [o \in Obj |-> {}]] /\ all = once /\ query = NoQuery /\ stack = <<>>
      /\ cnt = 0
  BY DEF Init
<1>2. \A d, o : Reached(d, o, {}) /\ ReachedAll(d, o, {})
  BY DEF Reached, ReachedAll
<1>3. CachesInv
  BY <1>1, <1>2 DEF CachesInv
<1>4. QueryOK(query)
  BY <1>1 DEF QueryOK, QueryType, NoQuery
<1>5. StackOK(stack, query)
  BY <1>1 DEF StackOK
<1>6. QED BY <1>1, <1>3, <1>4, <1>5 DEF IInv

LEMMA ErrorIs ==
  ASSUME NEW hist, NEW o, NEW n
  PROVE  Validate(hist, o, n) \in {0, -1, -2, -3, -9}
BY DEF Validate

LEMMA CountIs == cnt \in Nat => Counted \in Nat
BY DEF Counted

(* The frame on top, and what it is part of.                               *)
LEMMA TopIs ==
  ASSUME IInv, stack # <<>>
  PROVE  /\ query # NoQuery /\ query.dir \in Dir /\ Len(stack) \in Nat \ {0}
         /\ FrameOK(query.dir, stack[Len(stack)]) /\ stack[Len(stack)].via = "none"
         /\ stack[Len(stack)] \in FrameType /\ stack[Len(stack)].obj \in Obj
<1>1. StackOK(stack, query) /\ QueryOK(query)
  BY DEF IInv
<1>2. Len(stack) \in Nat \ {0}
  BY <1>1 DEF StackOK
<1>3. query # NoQuery /\ query.dir \in Dir
  BY <1>1 DEF StackOK, QueryOK
<1>4. Len(stack) \in 1 .. Len(stack) /\ ~(Len(stack) < Len(stack))
  BY <1>2
<1>5. FrameOK(query.dir, stack[Len(stack)]) /\ stack[Len(stack)].via = "none"
  BY <1>1, <1>4 DEF StackOK
<1>6. QED BY <1>2, <1>3, <1>5 DEF FrameOK, FrameType

LEMMA CallInv ==
  ASSUME IInv, stack # <<>>, NEW o \in Obj, NEW via \in {"host", "from"},
         via = "host" => o = parent(stack[Len(stack)].obj),
         Call(o, via)
  PROVE  IInv'
<1> DEFINE t == stack[Len(stack)]
           w == [t EXCEPT !.via = via]
           b == SubSeq(stack, 1, Len(stack) - 1)
           d == query.dir
           cached == once[d][o]
           err == Validate(History, o, Counted)
<1>1. /\ d \in Dir /\ FrameOK(d, t) /\ t \in FrameType /\ t.obj \in Obj
      /\ StackOK(stack, query) /\ CachesInv /\ QueryOK(query) /\ cnt \in Nat
  BY TopIs DEF IInv
<1>2. once' = once /\ all' = all /\ query' = query
  BY DEF Call
<1>3. FrameOK(d, w) /\ w.obj = t.obj /\ w.via = via
  <2>1. /\ w \in FrameType /\ w.obj = t.obj /\ w.via = via /\ w.res = t.res /\ w.host = t.host
    BY <1>1 DEF FrameType
  <2> HIDE DEF w
  <2>2. QED BY <1>1, <2>1 DEF FrameOK
<1>4. via = "host" => o = parent(w.obj)
  BY <1>3
<1>5. CachesInv' /\ QueryOK(query)'
  BY <1>1, <1>2 DEF CachesInv
<1>6. Counted \in Nat
  BY <1>1, CountIs
<1> HIDE DEF w
<1>7. ASSUME NEW r, Reached(d, o, r), NEW e \in {0, -1, -2, -3, -9},
             stack' = Append(b, Absorb(w, o, r, e))
      PROVE  StackOK(stack', query)
  <2> DEFINE f == Absorb(w, o, r, e)
  <2>1. FrameOK(d, f) /\ f.obj = w.obj /\ f.via = "none"
    BY <1>1, <1>3, <1>4, <1>7, FrameAbsorbs
  <2> HIDE DEF f
  <2>2. StackOK(Append(b, f), query)
    BY <1>1, <1>3, <2>1, TopReplaced
  <2>3. QED BY <1>7, <2>2 DEF f
<1>8. CASE cached # {} /\ stack' = Append(b, Absorb(w, o, cached, 0)) /\ cnt' = cnt
  <2>1. Reached(d, o, cached)
    BY <1>1 DEF CachesInv
  <2>2. StackOK(stack', query)
    BY <1>7, <1>8, <2>1
  <2>3. QED BY <1>1, <1>2, <1>5, <1>8, <2>2 DEF IInv
<1>9. CASE err < 0 /\ stack' = Append(b, Absorb(w, o, {}, err)) /\ cnt' = Counted
  <2>1. Reached(d, o, {})
    BY DEF Reached
  <2>2. err \in {0, -1, -2, -3, -9}
    BY ErrorIs
  <2> HIDE DEF err
  <2>3. StackOK(stack', query)
    BY <1>7, <1>9, <2>1, <2>2
  <2>4. QED BY <1>2, <1>5, <1>6, <1>9, <2>3 DEF IInv
<1>10. CASE stack' = b \o <<w, Frame(d, o)>> /\ cnt' = Counted
  <2> DEFINE g == Frame(d, o)
  <2>1. FrameOK(d, g) /\ g.obj = o /\ g.via = "none"
    BY <1>1, FrameStarts
  <2> HIDE DEF g
  <2>2. StackOK(b \o <<w, g>>, query)
    BY <1>1, <1>3, <2>1, FramePushed
  <2>3. QED BY <1>2, <1>5, <1>6, <1>10, <2>2 DEF IInv, g
<1>11. QED BY <1>8, <1>9, <1>10 DEF Call, w

LEMMA CallHostInv ==
  ASSUME IInv, callHost
  PROVE  IInv'
<1> DEFINE o == parent(stack[Len(stack)].obj)
<1>1. stack # <<>> /\ stack[Len(stack)].host /\ Call(o, "host")
  BY DEF callHost
<1>2. o \in Obj
  BY <1>1, TopIs DEF FrameOK
<1> HIDE DEF o
<1>3. o = parent(stack[Len(stack)].obj)
  BY DEF o
<1>4. QED BY <1>1, <1>2, <1>3, CallInv

LEMMA CallFromInv ==
  ASSUME IInv, NEW o \in Obj, callPointsFrom(o)
  PROVE  IInv'
<1>1. stack # <<>> /\ Call(o, "from")
  BY DEF callPointsFrom
<1>2. QED BY <1>1, CallInv

LEMMA ReturnInv ==
  ASSUME IInv, return
  PROVE  IInv'
<1> DEFINE t == stack[Len(stack)]
           b == SubSeq(stack, 1, Len(stack) - 1)
           n == Len(b)
           d == query.dir
<1>1. stack # <<>>
  BY DEF return
<1>2. /\ d \in Dir /\ FrameOK(d, t) /\ t \in FrameType /\ t.obj \in Obj
      /\ StackOK(stack, query) /\ CachesInv /\ QueryOK(query) /\ cnt \in Nat
      /\ query # NoQuery /\ Len(stack) \in Nat \ {0}
  BY <1>1, TopIs DEF IInv
<1>3. n = Len(stack) - 1
  BY <1>1, <1>2, BelowIs DEF StackOK
<1>4. Reached(d, t.obj, t.res) /\ <<t.obj, <<>>>> \in t.res /\ t.res \subseteq Found
  BY <1>2 DEF FrameOK, Reached
<1>5. /\ all' = all /\ cnt' = cnt
      /\ once' = once \/ once' = [once EXCEPT ![d][t.obj] = t.res]
  BY DEF return
<1>6. CachesInv'
  <2>1. CASE once' = once
    BY <1>2, <1>5, <2>1 DEF CachesInv
  <2>2. CASE once' = [once EXCEPT ![d][t.obj] = t.res]
    <3>1. once' \in [Dir -> [Obj -> SUBSET Found]]
      BY <1>2, <1>4, <2>2 DEF CachesInv
    <3>2. \A x \in Dir, o \in Obj :
            once'[x][o] = IF x = d /\ o = t.obj THEN t.res ELSE once[x][o]
      BY <1>2, <2>2 DEF CachesInv
    <3> HIDE DEF t, d
    <3>3. \A x \in Dir, o \in Obj :
            Reached(x, o, once'[x][o]) /\ (once'[x][o] # {} => <<o, <<>>>> \in once'[x][o])
      BY <1>2, <1>4, <3>2 DEF CachesInv
    <3>4. QED BY <1>2, <1>5, <3>1, <3>3 DEF CachesInv
  <2>3. QED BY <1>5, <2>1, <2>2
<1>7. CASE n = 0
  <2>1. stack' = <<>> /\ query' = AbsorbLayer(t.obj, t.res)
    BY <1>7 DEF return
  <2>2. t.obj \in Keys(query.res)
    <3>1. Len(stack) = 1
      BY <1>2, <1>3, <1>7
    <3>2. QED BY <1>1, <1>2, <3>1 DEF StackOK
  <2>3. QueryOK(AbsorbLayer(t.obj, t.res))
    BY <1>2, <1>4, <2>2, LayerAbsorbed
  <2>4. StackOK(<<>>, query')
    BY DEF StackOK
  <2>5. QED BY <1>2, <1>5, <1>6, <2>1, <2>3, <2>4 DEF IInv
<1>8. CASE n # 0
  <2> DEFINE u == b[n]
             f == Absorb(u, t.obj, t.res, t.err)
  <2>1. stack' = [b EXCEPT ![n] = Absorb(b[n], t.obj, t.res, t.err)] /\ query' = query
    BY <1>8 DEF return
  <2>2. n \in 1 .. Len(stack) - 1 /\ n \in 1 .. Len(stack) /\ n + 1 = Len(stack) /\ Len(stack) > 1
    BY <1>2, <1>3, <1>8
  <2>3. u = stack[n]
    BY <1>1, <1>2, <2>2, BelowIs DEF StackOK
  <2>4. FrameOK(d, u) /\ (u.via = "host" => t.obj = parent(u.obj))
    BY <1>2, <2>2, <2>3 DEF StackOK
  <2>5. t.err \in {0, -1, -2, -3, -9}
    BY <1>2 DEF FrameType
  <2>6. FrameOK(d, f) /\ f.obj = u.obj /\ f.via = "none"
    <3>1. ASSUME NEW g, FrameOK(d, g), NEW o \in Obj, NEW r, Reached(d, o, r),
                 g.via = "host" => o = parent(g.obj), NEW e \in {0, -1, -2, -3, -9}
          PROVE  /\ FrameOK(d, Absorb(g, o, r, e))
                 /\ Absorb(g, o, r, e).obj = g.obj /\ Absorb(g, o, r, e).via = "none"
      BY <1>2, <3>1, FrameAbsorbs
    <3> HIDE DEF u, t, d
    <3>2. QED BY <1>2, <1>4, <2>4, <2>5, <3>1
  <2>7. StackOK([b EXCEPT ![n] = f], query)
    <3> HIDE DEF f, u
    <3>1. f.obj = stack[Len(stack) - 1].obj
      BY <1>3, <2>3, <2>6
    <3>2. StackOK([SubSeq(stack, 1, Len(stack) - 1) EXCEPT ![Len(stack) - 1] = f], query)
      BY <1>2, <2>2, <2>6, <3>1, FramePopped
    <3>3. QED BY <1>3, <3>2
  <2>8. QED BY <1>2, <1>5, <1>6, <2>1, <2>7 DEF IInv
<1>9. QED BY <1>7, <1>8

LEMMA AskInv ==
  ASSUME IInv, NEW d, NEW o, Queries \subseteq Dir \X Obj, ask(d, o)
  PROVE  IInv'
<1> DEFINE R == Itself(o)
<1>1. /\ query = NoQuery /\ d \in Dir /\ o \in Obj
      /\ query' = [dir |-> d, obj |-> o, res |-> R, new |-> {o}, next |-> {}, iter |-> 0]
      /\ once' = once /\ all' = all /\ stack' = stack /\ cnt' = cnt
  BY DEF ask
<1>2. Reached(d, o, R) /\ ReachedAll(d, o, R) /\ <<o, <<>>>> \in R /\ R \subseteq Found
      /\ Keys(R) = {o}
  <2>1. Reached(d, o, R) /\ <<o, <<>>>> \in R
    BY <1>1, ItselfReached
  <2>2. Keys(R) = {o}
    BY DEF Keys, Itself
  <2>3. QED BY <2>1, <2>2, ReachedIsAll DEF Reached
<1>3. stack = <<>>
  BY <1>1 DEF IInv, StackOK
<1>4. 0 \in 0 .. MAX_EQV_OBJ_ITER - 1
  BY EqvAssumption
<1>5. QueryOK(query')
  <2> HIDE DEF R
  <2> DEFINE q == query'
  <2>1. /\ q.dir = d /\ q.obj = o /\ q.res = R /\ q.new = {o} /\ q.next = {} /\ q.iter = 0
        /\ q \in QueryType
    BY <1>1, <1>2 DEF QueryType
  <2> HIDE DEF q
  <2>2. QueryOK(q)
    BY <1>1, <1>2, <1>4, <2>1 DEF QueryOK
  <2>3. QED BY <2>2 DEF q
<1>6. CachesInv' /\ cnt' \in Nat
  BY <1>1 DEF IInv, CachesInv
<1>7. StackOK(stack', query')
  BY <1>1, <1>3 DEF StackOK
<1>8. QED BY <1>5, <1>6, <1>7 DEF IInv

LEMMA TakeNewInv ==
  ASSUME IInv, NEW o, takeNew(o)
  PROVE  IInv'
<1> DEFINE d == query.dir
           cached == once[d][o]
<1>1. stack = <<>> /\ o \in query.new /\ once' = once /\ all' = all
  BY DEF takeNew
<1>2. CachesInv /\ QueryOK(query) /\ query \in QueryType /\ cnt \in Nat
  BY DEF IInv, QueryOK
<1>3. query # NoQuery
  BY <1>1 DEF NoQuery
<1>4. /\ d \in Dir /\ o \in Keys(query.res) /\ o \in Obj
      /\ query.new \subseteq Obj
  BY <1>1, <1>2, <1>3 DEF QueryOK, QueryType
<1>5. CachesInv'
  BY <1>1, <1>2 DEF CachesInv
<1>6. ASSUME NEW q, QueryOK(q), q # NoQuery, NEW p, p = [q EXCEPT !.new = q.new \ {o}]
      PROVE  /\ QueryOK(p) /\ p # NoQuery /\ p.dir = q.dir /\ p.res = q.res
  <2>1. q \in QueryType
    BY <1>6 DEF QueryOK
  <2> DEFINE N == q.new \ {o}
  <2>2. N \subseteq Obj /\ N \subseteq q.new
    BY <2>1 DEF QueryType
  <2> HIDE DEF N
  <2>3. /\ p \in QueryType /\ p.dir = q.dir /\ p.obj = q.obj /\ p.res = q.res /\ p.new = N
        /\ p.next = q.next /\ p.iter = q.iter
    BY <1>6, <2>1, <2>2 DEF QueryType, N
  <2>4. q.dir \in Dir
    BY <1>6 DEF QueryOK
  <2>5. p # NoQuery
    BY <2>3, <2>4 DEF NoQuery, Dir
  <2>6. p.new \cup p.next \subseteq Keys(p.res)
    BY <1>6, <2>2, <2>3 DEF QueryOK
  <2>7. QueryOK(p)
    BY <1>6, <2>3, <2>6 DEF QueryOK
  <2>8. QED BY <2>3, <2>5, <2>7
<1>7. CASE cached # {} /\ stack' = stack /\ cnt' = cnt
           /\ query' = [AbsorbLayer(o, cached) EXCEPT !.new = @ \ {o}]
  <2> DEFINE q == AbsorbLayer(o, cached)
  <2>1. Reached(d, o, cached)
    BY <1>2, <1>4 DEF CachesInv
  <2>2. QueryOK(q) /\ q # NoQuery
    BY <1>2, <1>3, <1>4, <2>1, LayerAbsorbed
  <2>3. query' = [q EXCEPT !.new = q.new \ {o}]
    BY <1>7
  <2> HIDE DEF q
  <2>4. QueryOK(query')
    BY <1>6, <2>2, <2>3
  <2>5. StackOK(stack', query')
    BY <1>1, <1>7 DEF StackOK
  <2>6. QED BY <1>2, <1>5, <1>7, <2>4, <2>5 DEF IInv
<1>8. CASE /\ query' = [query EXCEPT !.new = @ \ {o}]
           /\ stack' = <<Frame(d, o)>>
           /\ cnt' = IF MAX_EQV_OBJ_ENUM_CNT = 0 THEN 0 ELSE 1
  <2> DEFINE f == Frame(d, o)
  <2>1. query' = [query EXCEPT !.new = query.new \ {o}]
    BY <1>8
  <2>2. QueryOK(query') /\ query' # NoQuery /\ query'.dir = d /\ query'.res = query.res
    BY <1>2, <1>3, <1>6, <2>1
  <2>3. FrameOK(d, f) /\ f.obj = o /\ f.via = "none" /\ f \in FrameType
    BY <1>4, FrameStarts DEF FrameOK
  <2>4. stack' = <<f>>
    BY <1>8
  <2> HIDE DEF f, d
  <2>5. stack' \in Seq(FrameType) /\ Len(stack') = 1 /\ stack'[1] = f
    BY <2>3, <2>4
  <2>6. StackOK(stack', query')
    BY <1>4, <2>2, <2>3, <2>5 DEF StackOK
  <2>7. cnt' \in Nat
    BY <1>8
  <2>8. QED BY <1>5, <2>2, <2>6, <2>7 DEF IInv
<1>9. QED BY <1>7, <1>8 DEF takeNew

LEMMA EndLayerInv ==
  ASSUME IInv, endLayer
  PROVE  IInv'
<1> DEFINE d == query.dir
           R == query.res
<1>1. query # NoQuery /\ stack = <<>> /\ once' = once /\ stack' = stack /\ cnt' = cnt
  BY DEF endLayer
<1>2. CachesInv /\ QueryOK(query) /\ query \in QueryType /\ cnt \in Nat
  BY DEF IInv, QueryOK
<1>3. /\ d \in Dir /\ query.obj \in Obj /\ R \subseteq Found
      /\ ReachedAll(d, query.obj, R) /\ <<query.obj, <<>>>> \in R
      /\ query.next \subseteq Keys(R) /\ query.next \subseteq Obj
      /\ query.iter \in 0 .. MAX_EQV_OBJ_ITER - 1
  BY <1>1, <1>2 DEF QueryOK, QueryType
<1>4. StackOK(stack', query')
  BY <1>1 DEF StackOK
<1>5. CASE all' = [all EXCEPT ![d][query.obj] = R] /\ query' = NoQuery
  <2>1. all' \in [Dir -> [Obj -> SUBSET Found]]
    BY <1>2, <1>3, <1>5 DEF CachesInv
  <2>2. \A x \in Dir, o \in Obj : all'[x][o] = IF x = d /\ o = query.obj THEN R ELSE all[x][o]
    BY <1>2, <1>5 DEF CachesInv
  <2> HIDE DEF d, R
  <2>3. \A x \in Dir, o \in Obj :
          ReachedAll(x, o, all'[x][o]) /\ (all'[x][o] # {} => <<o, <<>>>> \in all'[x][o])
    <3> SUFFICES ASSUME NEW x \in Dir, NEW o \in Obj
                 PROVE  /\ ReachedAll(x, o, all'[x][o])
                        /\ all'[x][o] # {} => <<o, <<>>>> \in all'[x][o]
      OBVIOUS
    <3>1. CASE x = d /\ o = query.obj
      <4>1. all'[x][o] = R
        BY <2>2, <3>1
      <4>2. QED BY <1>3, <3>1, <4>1
    <3>2. CASE ~(x = d /\ o = query.obj)
      <4>1. all'[x][o] = all[x][o]
        BY <2>2, <3>2
      <4>2. QED BY <1>2, <4>1 DEF CachesInv
    <3>3. QED BY <3>1, <3>2
  <2>4. CachesInv'
    BY <1>1, <1>2, <2>1, <2>3 DEF CachesInv
  <2>5. QueryOK(query')
    BY <1>5 DEF QueryOK, QueryType, NoQuery
  <2>6. QED BY <1>1, <1>2, <1>4, <2>4, <2>5 DEF IInv
<1>6. CASE /\ ~(query.iter + 1 >= MAX_EQV_OBJ_ITER)
           /\ query' = [query EXCEPT !.new = query.next, !.next = {}, !.iter = @ + 1]
           /\ all' = all
  <2> DEFINE n == query.iter + 1
             q == query'
  <2>1. n \in Nat /\ n \in 0 .. MAX_EQV_OBJ_ITER - 1
    BY <1>3, <1>6, EqvAssumption
  <2>2. q = [query EXCEPT !.new = query.next, !.next = {}, !.iter = n]
    BY <1>6
  <2> HIDE DEF n, q
  <2>3. /\ q \in QueryType /\ q.dir = d /\ q.obj = query.obj /\ q.res = R
        /\ q.new = query.next /\ q.next = {} /\ q.iter = n
    BY <1>2, <1>3, <2>1, <2>2 DEF QueryType
  <2>4. QueryOK(q)
    <3> HIDE DEF d, R
    <3>1. QED BY <1>3, <2>1, <2>3 DEF QueryOK
  <2>5. CachesInv'
    BY <1>1, <1>2, <1>6 DEF CachesInv
  <2>6. QED BY <1>1, <1>2, <1>4, <2>4, <2>5 DEF IInv, q
<1>7. QED BY <1>5, <1>6 DEF endLayer

(* The invariant of the search: the caches, the query and every pending    *)
(* call only hold objects with ways that lead to them.                     *)
LEMMA Inductive == IInv /\ [Next \/ Terminated]_vars => IInv'
<1> SUFFICES ASSUME IInv, [Next \/ Terminated]_vars PROVE IInv'
  OBVIOUS
<1>1. CASE \E q \in Queries : ask(q[1], q[2])
  BY <1>1, AskInv, EqvAssumption
<1>2. CASE \E o \in query.new : takeNew(o)
  BY <1>2, TakeNewInv
<1>3. CASE callHost
  BY <1>3, CallHostInv
<1>4. CASE \E o \in Obj : callPointsFrom(o)
  BY <1>4, CallFromInv
<1>5. CASE return
  BY <1>5, ReturnInv
<1>6. CASE endLayer
  BY <1>6, EndLayerInv
<1>7. CASE vars' = vars
  BY <1>7 DEF vars, IInv, CachesInv
<1>8. CASE Terminated
  BY <1>7, <1>8 DEF Terminated
<1>9. QED BY <1>1, <1>2, <1>3, <1>4, <1>5, <1>6, <1>7, <1>8 DEF Next

THEOREM InvariantHolds == Spec => []IInv
BY InitInv, Inductive, PTL DEF Spec

(* Both caches, of one layer and of all, only hold paths that really lead  *)
(* from the one object to the other: every node goes on where the one      *)
(* before ends, escapes and fetches pair off around their middle, through  *)
(* the same field, and each fetch is a load that made a placeholder.       *)
THEOREM PathsAlwaysLead == Spec => []PathsLead
<1>1. IInv => PathsLead
  <2> SUFFICES ASSUME IInv, NEW d \in Dir, NEW o \in Obj, NEW e \in once[d][o] \cup all[d][o]
               PROVE  IF d = "forward" THEN Leads(o, e[2], e[1]) ELSE Leads(e[1], e[2], o)
    BY DEF PathsLead
  <2>1. ReachedAll(d, o, once[d][o]) /\ ReachedAll(d, o, all[d][o])
    BY ReachedIsAll DEF IInv, CachesInv
  <2>2. Between(d, o, e[2], e[1]) /\ Blocks(e[2]) /\ e[1] \in Obj
    BY <2>1 DEF ReachedAll, Found
  <2>3. QED BY <2>2, WayLeads DEF Between
<1>2. QED BY <1>1, InvariantHolds, PTL
----------------------------------------------------------------------------
(* Sets of objects.                                                        *)

LEMMA LeastSubset ==
  ASSUME NEW S, IsFiniteSet(S), NEW F \in SUBSET SUBSET S, F # {}
  PROVE  \E x \in F : \A y \in F : y \subseteq x => y = x
<1>1. IsWellFoundedOn(StrictSubsetOrdering(S), SUBSET S)
  BY FS_StrictSubsetOrderingWellFounded, FS_FiniteSubsetsOfFinite
<1>2. PICK x \in F : \A y \in F : ~(<<y, x>> \in StrictSubsetOrdering(S))
  BY <1>1, WFMin
<1>3. \A y \in F : y \subseteq x => y = x
  BY <1>2 DEF StrictSubsetOrdering
<1>4. QED BY <1>3

LEMMA GreatestSubset ==
  ASSUME NEW S, IsFiniteSet(S), NEW F \in SUBSET SUBSET S, F # {}
  PROVE  \E x \in F : \A y \in F : x \subseteq y => y = x
<1> DEFINE G == {S \ x : x \in F}
<1>1. G \in SUBSET SUBSET S /\ G # {}
  <2>1. \A z \in G : z \in SUBSET S
    OBVIOUS
  <2>2. PICK x \in F : TRUE
    OBVIOUS
  <2>3. S \ x \in G
    BY <2>2
  <2>4. QED BY <2>1, <2>3
<1>2. PICK z \in G : \A y \in G : y \subseteq z => y = z
  <2> HIDE DEF G
  <2>1. QED BY <1>1, LeastSubset
<1>3. PICK x \in F : z = S \ x
  BY <1>2
<1>4. ASSUME NEW y \in F, x \subseteq y PROVE y = x
  <2>1. S \ y \in G /\ S \ y \subseteq z
    BY <1>3, <1>4
  <2>2. S \ y = S \ x
    BY <2>1, <1>2, <1>3
  <2>3. QED BY <2>2
<1>5. QED BY <1>4

----------------------------------------------------------------------------
(* What a search goes through.                                             *)

LEMMA SourcesIs ==
  ASSUME NEW d \in Dir, NEW o \in Obj
  PROVE  /\ Sources[d][o] = PointsFrom(d, o) \cup Host(o)
         /\ Sources[d][o] \subseteq Obj /\ PointsFrom(d, o) \subseteq Obj
         /\ parent(o) # NoObj => parent(o) \in Sources[d][o]
<1>1. Sources[d][o] = PointsFrom(d, o) \cup Host(o)
  BY DEF Sources
<1>2. PointsFrom(d, o) \subseteq Obj
  BY EqvAssumption DEF PointsFrom, EdgesTo, Edge
<1>3. Host(o) \subseteq Obj /\ (parent(o) # NoObj => parent(o) \in Host(o))
  BY EqvAssumption DEF Host
<1>4. QED BY <1>1, <1>2, <1>3

LEMMA AboveIs ==
  ASSUME NEW d \in Dir, NEW o \in Obj
  PROVE  /\ Above[d][o] \in SUBSET Obj /\ o \in Above[d][o]
         /\ \A x \in Above[d][o] : Sources[d][x] \subseteq Above[d][o] /\ Above[d][x] \subseteq Above[d][o]
<1> DEFINE next == Sources[d]
           closed == { S \in SUBSET Obj : \A x \in S : next[x] \subseteq S }
<1>1. \A u \in Obj : Above[d][u] = { x \in Obj : \A S \in closed : u \in S => x \in S }
  BY DEF Above, AllAbove
<1>2. \A x \in Obj : next[x] \subseteq Obj
  BY SourcesIs
<1> HIDE DEF next
<1>3. Above[d][o] \in SUBSET Obj /\ o \in Above[d][o]
  BY <1>1
<1>4. ASSUME NEW x \in Above[d][o] PROVE next[x] \subseteq Above[d][o] /\ Above[d][x] \subseteq Above[d][o]
  <2>1. x \in Obj /\ \A S \in closed : o \in S => x \in S
    BY <1>1
  <2>2. \A S \in closed : x \in S => next[x] \subseteq S
    OBVIOUS
  <2>3. next[x] \subseteq Above[d][o]
    BY <1>1, <1>2, <2>1, <2>2
  <2>4. Above[d][x] \subseteq Above[d][o]
    BY <1>1, <2>1
  <2>5. QED BY <2>3, <2>4
<1>5. QED BY <1>3, <1>4 DEF next

LEMMA SettledIs ==
  ASSUME NEW d \in Dir, NEW o \in Settled(d)
  PROVE  /\ o \in Obj /\ Above[d][o] \subseteq Settled(d)
         /\ \A x, y \in Above[d][o] : x # y => type(x) # type(y)
         /\ \A y \in Sources[d][o] :
              y \in Settled(d) /\ y \in Above[d][o] /\ y # o /\ o \notin Above[d][y] /\ y \in Obj
<1>1. /\ o \in Obj
      /\ \A x, y \in Above[d][o] : x # y => type(x) # type(y)
      /\ \A x \in Above[d][o] : \A y \in Sources[d][x] : x \notin Above[d][y]
  BY DEF Settled
<1>2. \A x \in Above[d][o] : x \in Obj /\ Above[d][x] \subseteq Above[d][o]
  BY <1>1, AboveIs
<1>3. Above[d][o] \subseteq Settled(d)
  BY <1>1, <1>2 DEF Settled
<1>4. ASSUME NEW y \in Sources[d][o]
      PROVE  y \in Settled(d) /\ y \in Above[d][o] /\ y # o /\ o \notin Above[d][y] /\ y \in Obj
  <2>1. o \in Above[d][o] /\ y \in Above[d][o]
    BY <1>1, AboveIs
  <2>2. o \notin Above[d][y]
    BY <1>1, <2>1
  <2>3. y # o
    BY <2>1, <2>2
  <2>4. QED BY <1>2, <1>3, <2>1, <2>2, <2>3
<1>5. QED BY <1>1, <1>3, <1>4

(* The answer for o, given those for what it goes through.                 *)
Searches(d, o) == d = "forward" \/ isDummy(o)
FromBy(d, o, f) == (UNION { ThroughPointer(d, o, s, f[s]) : s \in PointsFrom(d, o) })
HostBy(d, o, f) == (IF parent(o) = NoObj THEN {} ELSE ThroughHost(d, o, f[parent(o)]))
AnswerBy(d, o, f) ==
  Itself(o) \cup IF d = "backward" /\ ~isDummy(o) THEN {} ELSE FromBy(d, o, f) \cup HostBy(d, o, f)

LEMMA AnswerSame ==
  ASSUME NEW d \in Dir, NEW o \in Obj, NEW f, NEW g, \A s \in Sources[d][o] : f[s] = g[s]
  PROVE  AnswerBy(d, o, f) = AnswerBy(d, o, g)
<1>1. \A s \in PointsFrom(d, o) : f[s] = g[s]
  BY SourcesIs
<1>2. parent(o) # NoObj => f[parent(o)] = g[parent(o)]
  BY SourcesIs
<1>3. FromBy(d, o, f) = FromBy(d, o, g)
  BY <1>1 DEF FromBy
<1>4. HostBy(d, o, f) = HostBy(d, o, g)
  BY <1>2 DEF HostBy
<1>5. QED BY <1>3, <1>4 DEF AnswerBy

(* An object of a set that nothing else of the set is above.               *)
LEMMA Topmost ==
  ASSUME NEW d \in Dir, NEW R \in SUBSET Settled(d), R # {}
  PROVE  \E o \in R : Sources[d][o] \cap R = {}
<1> DEFINE F == {Above[d][o] : o \in R}
<1>1. R \subseteq Obj /\ \A o \in R : Above[d][o] \in SUBSET Obj
  BY SettledIs, AboveIs
<1>2. F \in SUBSET SUBSET Obj /\ F # {}
  BY <1>1
<1>3. PICK A \in F : \A B \in F : B \subseteq A => B = A
  <2> HIDE DEF F
  <2>1. QED BY <1>2, LeastSubset, EqvAssumption
<1>4. PICK o \in R : A = Above[d][o]
  BY <1>3
<1>5. ASSUME NEW y \in Sources[d][o], y \in R PROVE FALSE
  <2>1. y \in Above[d][o] /\ o \notin Above[d][y]
    BY <1>5, SettledIs
  <2>2. Above[d][y] \subseteq Above[d][o] /\ o \in Above[d][o]
    BY <1>1, <2>1, AboveIs
  <2>3. Above[d][y] \in F
    BY <1>5
  <2>4. Above[d][y] = Above[d][o]
    BY <1>3, <1>4, <2>2, <2>3
  <2>5. QED BY <2>1, <2>2, <2>4
<1>6. QED BY <1>5

LEMMA FreshDomain ==
  ASSUME NEW d \in Dir
  PROVE  /\ DOMAIN Fresh[d] = Settled(d)
         /\ \A o \in Settled(d) : Fresh[d][o] = AnswerBy(d, o, Fresh[d])
<1> DEFINE Eq(f, S) == f = [x \in S |-> AnswerBy(d, x, f)]
           Ts == {S \in SUBSET Settled(d) : (\A x \in S : Sources[d][x] \subseteq S) /\ \E f : Eq(f, S)}
<1>1. IsFiniteSet(Settled(d)) /\ Settled(d) \subseteq Obj
  <2>1. Settled(d) \subseteq Obj
    BY SettledIs
  <2>2. QED BY <2>1, EqvAssumption, FS_Subset
<1>2. {} \in Ts
  <2>1. Eq([x \in {} |-> 0], {})
    OBVIOUS
  <2>2. QED BY <2>1
<1>3. PICK S \in Ts : \A U \in Ts : S \subseteq U => U = S
  <2>1. Ts \in SUBSET SUBSET Settled(d) /\ Ts # {}
    BY <1>2
  <2> HIDE DEF Ts
  <2>2. QED BY <1>1, <2>1, GreatestSubset
<1>4. PICK f : Eq(f, S)
  BY <1>3
<1>5. S = Settled(d)
  <2>1. ASSUME S # Settled(d) PROVE FALSE
    <3> DEFINE R == Settled(d) \ S
    <3>1. PICK u \in R : Sources[d][u] \cap R = {}
      <4>1. R \in SUBSET Settled(d) /\ R # {}
        BY <1>3, <2>1
      <4> HIDE DEF R
      <4>2. QED BY <4>1, Topmost
    <3>2. Sources[d][u] \subseteq S /\ u \notin Sources[d][u] /\ u \in Obj /\ u \notin S
      BY <3>1, SettledIs
    <3> DEFINE U == S \cup {u}
               g == [x \in U |-> IF x = u THEN AnswerBy(d, u, f) ELSE f[x]]
    <3>3. ASSUME NEW x \in U PROVE g[x] = AnswerBy(d, x, g)
      <4>1. x \in Obj /\ Sources[d][x] \subseteq S
        BY <1>1, <1>3, <3>2
      <4>2. \A s \in Sources[d][x] : f[s] = g[s]
        BY <3>2, <4>1
      <4>3. AnswerBy(d, x, f) = AnswerBy(d, x, g)
        <5> HIDE DEF g
        <5>1. QED BY <4>1, <4>2, AnswerSame
      <4>4. CASE x = u
        BY <4>3, <4>4
      <4>5. CASE x # u
        <5>1. x \in S /\ g[x] = f[x]
          BY <4>5
        <5>2. f[x] = AnswerBy(d, x, f)
          BY <1>4, <5>1
        <5>3. QED BY <4>3, <5>1, <5>2
      <4>6. QED BY <4>4, <4>5
    <3>4. g = [x \in U |-> g[x]]
      OBVIOUS
    <3>5. Eq(g, U)
      <4> HIDE DEF g
      <4>1. QED BY <3>3, <3>4
    <3>6. U \in Ts
      <4>1. \A x \in U : Sources[d][x] \subseteq U
        BY <1>3, <3>2
      <4>2. U \in SUBSET Settled(d)
        BY <1>3, <3>1
      <4>3. \E h : Eq(h, U)
        <5> HIDE DEF Eq, g, U
        <5>1. QED BY <3>5
      <4> HIDE DEF U, Eq
      <4>4. QED BY <4>1, <4>2, <4>3
    <3>7. U = S
      BY <1>3, <3>6
    <3>8. QED BY <3>2, <3>7
  <2>2. QED BY <2>1
<1>6. FreshAnswer(d) = CHOOSE h : Eq(h, Settled(d))
  BY Zenon DEF FreshAnswer, AnswerBy, FromBy, HostBy
<1>7. Eq(FreshAnswer(d), Settled(d))
  <2>1. Eq(f, Settled(d))
    BY <1>4, <1>5
  <2> HIDE DEF Eq
  <2>2. QED BY <1>6, <2>1
<1>8. Fresh[d] = FreshAnswer(d)
  BY DEF Fresh
<1>9. QED BY <1>7, <1>8

LEMMA FreshIs ==
  ASSUME NEW d \in Dir, NEW o \in Settled(d)
  PROVE  Fresh[d][o] = AnswerBy(d, o, Fresh[d])
BY FreshDomain

----------------------------------------------------------------------------
(* What a frame still has to ask, and what it has found by then.           *)

FromOf(d, o) == IF Searches(d, o) THEN PointsFrom(d, o) ELSE {}
AsksHost(d, o) == Searches(d, o) /\ parent(o) # NoObj
FrameLeft(d, f) == f.from \subseteq FromOf(d, f.obj) /\ (f.host => AsksHost(d, f.obj))

PartFrom(d, o, from) ==
  UNION { ThroughPointer(d, o, s, Fresh[d][s]) : s \in FromOf(d, o) \ from }
PartHost(d, o, host) ==
  IF AsksHost(d, o) /\ ~host THEN ThroughHost(d, o, Fresh[d][parent(o)]) ELSE {}
Part(d, o, from, host) == Itself(o) \cup PartFrom(d, o, from) \cup PartHost(d, o, host)

Exact(d, f) ==
  f.obj \in Settled(d) =>
    f.res = Part(d, f.obj, f.from, f.host) /\ f.err = 0 /\ ~f.aborted

LEMMA AbsorbHost ==
  ASSUME NEW f \in FrameType, NEW o, NEW r, NEW e, f.via = "host"
  PROVE  /\ Absorb(f, o, r, e).obj = f.obj /\ Absorb(f, o, r, e).via = "none"
         /\ Absorb(f, o, r, e).aborted <=> (f.aborted \/ e < 0)
         /\ ~Absorb(f, o, r, e).host /\ Absorb(f, o, r, e).from = f.from
         /\ Absorb(f, o, r, e).err = e
         /\ Absorb(f, o, r, e).res = f.res \cup ThroughHost(query.dir, f.obj, r)
BY DEF Absorb, FrameType

LEMMA AbsorbFrom ==
  ASSUME NEW f \in FrameType, NEW o, NEW r, NEW e, f.via # "host"
  PROVE  /\ Absorb(f, o, r, e).obj = f.obj /\ Absorb(f, o, r, e).via = "none"
         /\ Absorb(f, o, r, e).host <=> f.host
         /\ Absorb(f, o, r, e).res = f.res \cup ThroughPointer(query.dir, f.obj, o, r)
BY DEF Absorb, FrameType

LEMMA AbsorbFromLeft ==
  ASSUME NEW f \in FrameType, NEW o, NEW r, NEW e, f.via # "host"
  PROVE  /\ Absorb(f, o, r, e).from \subseteq f.from
         /\ e # -9 => Absorb(f, o, r, e).from = f.from \ {o}
BY DEF Absorb, FrameType

LEMMA AbsorbFromErr ==
  ASSUME NEW f \in FrameType, NEW o, NEW r, f.via # "host", f.err = 0
  PROVE  Absorb(f, o, r, 0).err = 0
BY DEF Absorb, FrameType

LEMMA AbsorbFromCut ==
  ASSUME NEW f \in FrameType, NEW o, NEW r, f.via # "host", ~f.aborted
  PROVE  ~Absorb(f, o, r, 0).aborted
BY DEF Absorb, FrameType

LEMMA AbsorbIs ==
  ASSUME NEW f \in FrameType, NEW o, NEW r, NEW e
  PROVE  /\ Absorb(f, o, r, e).obj = f.obj /\ Absorb(f, o, r, e).via = "none"
         /\ Absorb(f, o, r, e).host => f.host
         /\ Absorb(f, o, r, e).from \subseteq f.from
<1>1. CASE f.via = "host"
  BY <1>1, AbsorbHost
<1>2. CASE f.via # "host"
  <2>1. Absorb(f, o, r, e).obj = f.obj /\ Absorb(f, o, r, e).via = "none"
    BY <1>2, AbsorbFrom
  <2>2. Absorb(f, o, r, e).host => f.host
    BY <1>2, AbsorbFrom
  <2>3. Absorb(f, o, r, e).from \subseteq f.from
    BY <1>2, AbsorbFromLeft
  <2>4. QED BY <2>1, <2>2, <2>3
<1>3. QED BY <1>1, <1>2

LEMMA FrameIs ==
  ASSUME NEW d, NEW o
  PROVE  /\ Frame(d, o).obj = o /\ Frame(d, o).via = "none"
         /\ Frame(d, o).from = FromOf(d, o) /\ (Frame(d, o).host <=> AsksHost(d, o))
         /\ Frame(d, o).res = Itself(o) /\ Frame(d, o).err = 0 /\ ~Frame(d, o).aborted
BY DEF Frame, FromOf, AsksHost, Searches

LEMMA FrameExact ==
  ASSUME NEW d \in Dir, NEW o \in Obj
  PROVE  FrameLeft(d, Frame(d, o)) /\ Exact(d, Frame(d, o))
<1> DEFINE f == Frame(d, o)
<1>1. /\ f.obj = o /\ f.from = FromOf(d, o) /\ (f.host <=> AsksHost(d, o))
      /\ f.res = Itself(o) /\ f.err = 0 /\ ~f.aborted
  BY FrameIs
<1> HIDE DEF f
<1>2. Part(d, o, f.from, f.host) = Itself(o)
  BY <1>1 DEF Part, PartFrom, PartHost
<1>3. FrameLeft(d, f)
  BY <1>1 DEF FrameLeft
<1>4. Exact(d, f)
  BY <1>1, <1>2 DEF Exact
<1>5. QED BY <1>3, <1>4 DEF f

LEMMA AbsorbLeft ==
  ASSUME NEW f \in FrameType, FrameLeft(query.dir, f), NEW o, NEW r, NEW e
  PROVE  FrameLeft(query.dir, Absorb(f, o, r, e))
<1> DEFINE g == Absorb(f, o, r, e)
<1>1. g.obj = f.obj
  BY AbsorbIs
<1>2. g.from \subseteq f.from
  BY AbsorbIs
<1>3. g.host => f.host
  BY AbsorbIs
<1> HIDE DEF g
<1>4. FrameLeft(query.dir, g)
  BY <1>1, <1>2, <1>3 DEF FrameLeft
<1>5. QED BY <1>4 DEF g

(* Exact answers keep a frame exact.                                       *)
LEMMA AbsorbExact ==
  ASSUME NEW f \in FrameType, FrameLeft(query.dir, f), Exact(query.dir, f),
         NEW o, NEW r, NEW e \in Int, f.via \in {"host", "from"},
         f.via = "host" => f.host /\ o = parent(f.obj),
         f.via = "from" => o \in f.from,
         f.obj \in Settled(query.dir) => e = 0 /\ r = Fresh[query.dir][o]
  PROVE  Exact(query.dir, Absorb(f, o, r, e))
<1> DEFINE g == Absorb(f, o, r, e)
           d == query.dir
           x == f.obj
<1> SUFFICES ASSUME x \in Settled(d)
             PROVE  g.res = Part(d, x, g.from, g.host) /\ g.err = 0 /\ ~g.aborted
  <2>1. g.obj = x
    BY AbsorbIs
  <2> HIDE DEF g
  <2>2. Exact(d, g) <=> (x \in Settled(d) => g.res = Part(d, x, g.from, g.host) /\ g.err = 0 /\ ~g.aborted)
    BY <2>1 DEF Exact
  <2>3. QED BY <2>2 DEF g
<1>1. /\ f.res = Part(d, x, f.from, f.host) /\ f.err = 0 /\ ~f.aborted
      /\ e = 0 /\ r = Fresh[d][o] /\ f.from \subseteq FromOf(d, x) /\ (f.host => AsksHost(d, x))
  BY DEF Exact, FrameLeft
<1>2. f.res = Itself(x) \cup PartFrom(d, x, f.from) \cup PartHost(d, x, f.host)
  BY <1>1 DEF Part
<1>3. CASE f.via = "host"
  <2>1. ~g.host /\ g.from = f.from /\ g.err = e /\ g.res = f.res \cup ThroughHost(d, x, r)
    BY <1>3, AbsorbHost
  <2>2. g.aborted <=> (f.aborted \/ e < 0)
    BY <1>3, AbsorbHost
  <2> HIDE DEF g
  <2>3. PartHost(d, x, f.host) = {} /\ PartHost(d, x, g.host) = ThroughHost(d, x, r)
    BY <1>1, <1>3, <2>1 DEF PartHost
  <2>4. g.res = Part(d, x, g.from, g.host)
    BY <1>2, <2>1, <2>3 DEF Part
  <2>5. QED BY <1>1, <2>1, <2>2, <2>4
<1>4. CASE f.via = "from"
  <2>1. (g.host <=> f.host) /\ g.res = f.res \cup ThroughPointer(d, x, o, r)
    BY <1>4, AbsorbFrom
  <2>2. g.from = f.from \ {o}
    BY <1>1, <1>4, AbsorbFromLeft
  <2>a. g.err = 0
    BY <1>1, <1>4, AbsorbFromErr
  <2>b. ~g.aborted
    BY <1>1, <1>4, AbsorbFromCut
  <2> HIDE DEF g
  <2>3. g.from = f.from \ {o} /\ g.err = 0 /\ ~g.aborted
    BY <2>2, <2>a, <2>b
  <2>4. FromOf(d, x) \ g.from = (FromOf(d, x) \ f.from) \cup {o}
    BY <1>1, <1>4, <2>3
  <2>5. PartFrom(d, x, g.from) = PartFrom(d, x, f.from) \cup ThroughPointer(d, x, o, r)
    BY <1>1, <2>4 DEF PartFrom
  <2>6. PartHost(d, x, g.host) = PartHost(d, x, f.host)
    BY <2>1 DEF PartHost
  <2>7. g.res = Part(d, x, g.from, g.host)
    BY <1>2, <2>1, <2>5, <2>6 DEF Part
  <2>8. QED BY <2>3, <2>7
<1>5. QED BY <1>3, <1>4

(* A frame that has asked all it has to.                                   *)
LEMMA PartAll ==
  ASSUME NEW d \in Dir, NEW o \in Settled(d)
  PROVE  Part(d, o, {}, FALSE) = Fresh[d][o]
<1>1. Fresh[d][o] = AnswerBy(d, o, Fresh[d])
  BY FreshIs
<1>2. FromOf(d, o) \ {} = FromOf(d, o)
  OBVIOUS
<1>3. CASE Searches(d, o)
  <2>1. FromOf(d, o) = PointsFrom(d, o) /\ (AsksHost(d, o) <=> parent(o) # NoObj)
    BY <1>3 DEF FromOf, AsksHost
  <2>2. ~(d = "backward" /\ ~isDummy(o))
    BY <1>3 DEF Searches
  <2>3. PartFrom(d, o, {}) = FromBy(d, o, Fresh[d])
    BY <1>2, <2>1 DEF PartFrom, FromBy
  <2>4. PartHost(d, o, FALSE) = HostBy(d, o, Fresh[d])
    BY <2>1 DEF PartHost, HostBy
  <2>5. AnswerBy(d, o, Fresh[d]) = Itself(o) \cup (PartFrom(d, o, {}) \cup PartHost(d, o, FALSE))
    BY <2>2, <2>3, <2>4 DEF AnswerBy
  <2>6. QED BY <1>1, <2>5 DEF Part
<1>4. CASE ~Searches(d, o)
  <2>1. FromOf(d, o) = {} /\ ~AsksHost(d, o)
    BY <1>4 DEF FromOf, AsksHost
  <2>2. d = "backward" /\ ~isDummy(o)
    BY <1>4 DEF Searches, Dir
  <2>3. PartFrom(d, o, {}) = {} /\ PartHost(d, o, FALSE) = {}
    BY <2>1 DEF PartFrom, PartHost
  <2>4. AnswerBy(d, o, Fresh[d]) = Itself(o)
    BY <2>2 DEF AnswerBy
  <2>5. QED BY <1>1, <2>3, <2>4 DEF Part
<1>5. QED BY <1>3, <1>4

----------------------------------------------------------------------------
(* The pending calls: each is for something above what the ones before it  *)
(* are for, different from them, not cached, and still to be asked by the  *)
(* one that waits for it.                                                  *)
Waits(f, g) == (f.via = "from" => g.obj \in f.from) /\ (f.via = "host" => f.host)
Chain(d, s) ==
  /\ \A i \in 1 .. Len(s) : FrameLeft(d, s[i]) /\ s[i].obj \in Obj
  /\ \A i \in 1 .. Len(s) : \A j \in 1 .. Len(s) :
       /\ i < j => s[i].obj # s[j].obj
       /\ i <= j => s[j].obj \in Above[d][s[i].obj]
  /\ \A i \in 1 .. Len(s) - 1 : Waits(s[i], s[i + 1])

LEMMA ChainReplaced ==
  ASSUME NEW d, NEW s \in Seq(FrameType), Chain(d, s), s # <<>>,
         NEW n \in Seq(FrameType), Len(n) = Len(s), \A i \in 1 .. Len(s) - 1 : n[i] = s[i],
         n[Len(s)].obj = s[Len(s)].obj, FrameLeft(d, n[Len(s)])
  PROVE  Chain(d, n)
<1>1. Len(s) \in Nat \ {0} /\ \A i \in 1 .. Len(s) : i = Len(s) \/ i \in 1 .. Len(s) - 1
  OBVIOUS
<1>2. \A i \in 1 .. Len(s) : n[i].obj = s[i].obj /\ FrameLeft(d, n[i])
  BY <1>1 DEF Chain
<1>3. \A i \in 1 .. Len(s) - 1 : i + 1 \in 1 .. Len(s)
  BY <1>1
<1>4. \A i \in 1 .. Len(s) - 1 : Waits(n[i], n[i + 1])
  BY <1>2, <1>3 DEF Chain, Waits
<1>5. \A i \in 1 .. Len(s) : FrameLeft(d, n[i]) /\ n[i].obj \in Obj
  BY <1>2 DEF Chain
<1>6. \A i \in 1 .. Len(s) : \A j \in 1 .. Len(s) :
        /\ i < j => n[i].obj # n[j].obj
        /\ i <= j => n[j].obj \in Above[d][n[i].obj]
  BY <1>2 DEF Chain
<1>7. QED BY <1>4, <1>5, <1>6 DEF Chain

LEMMA ChainPushed ==
  ASSUME NEW d \in Dir, NEW s \in Seq(FrameType), Chain(d, s), s # <<>>,
         NEW n \in Seq(FrameType), Len(n) = Len(s) + 1, \A i \in 1 .. Len(s) - 1 : n[i] = s[i],
         n[Len(s)].obj = s[Len(s)].obj, FrameLeft(d, n[Len(s)]), FrameLeft(d, n[Len(s) + 1]),
         Waits(n[Len(s)], n[Len(s) + 1]), n[Len(s) + 1].obj \in Sources[d][s[Len(s)].obj],
         \A i \in 1 .. Len(s) : s[i].obj # n[Len(s) + 1].obj
  PROVE  Chain(d, n)
<1> DEFINE N == Len(s)
           y == n[N + 1].obj
<1>1. N \in Nat \ {0} /\ \A i \in 1 .. N : i = N \/ i \in 1 .. N - 1
  OBVIOUS
<1>2. \A i \in 1 .. N + 1 : i = N + 1 \/ i \in 1 .. N
  BY <1>1
<1>3. \A i \in 1 .. N : n[i].obj = s[i].obj /\ FrameLeft(d, n[i]) /\ n[i].obj \in Obj
  BY <1>1 DEF Chain
<1>4. y \in Obj /\ y \in Above[d][y] /\ \A i \in 1 .. N : y \in Above[d][s[i].obj]
  <2>1. \A i \in 1 .. N : s[i].obj \in Obj /\ s[N].obj \in Above[d][s[i].obj]
    BY <1>1 DEF Chain
  <2>2. N \in 1 .. N
    BY <1>1
  <2>3. y \in Obj
    BY <2>1, <2>2, SourcesIs
  <2>4. \A i \in 1 .. N : y \in Above[d][s[i].obj]
    BY <2>1, AboveIs
  <2>5. QED BY <2>3, <2>4, AboveIs
<1>5. n[N + 1].obj = y
  OBVIOUS
<1> HIDE DEF y
<1>6. \A i \in 1 .. N : i + 1 \in 1 .. N + 1 /\ (i # N => i + 1 \in 1 .. N /\ i \in 1 .. N - 1)
  BY <1>1
<1>7. ASSUME NEW i \in 1 .. N PROVE Waits(n[i], n[i + 1])
  <2>1. CASE i = N
    BY <2>1
  <2>2. CASE i # N
    <3>1. i \in 1 .. N - 1 /\ i + 1 \in 1 .. N
      BY <1>6, <2>2
    <3>2. n[i] = s[i] /\ n[i + 1].obj = s[i + 1].obj
      BY <1>3, <3>1
    <3>3. Waits(s[i], s[i + 1])
      BY <3>1 DEF Chain
    <3>4. QED BY <3>2, <3>3 DEF Waits
  <2>3. QED BY <2>1, <2>2
<1>8. \A i \in 1 .. N + 1 : FrameLeft(d, n[i]) /\ n[i].obj \in Obj
  BY <1>2, <1>3, <1>4, <1>5
<1>9. ASSUME NEW i \in 1 .. N + 1, NEW j \in 1 .. N + 1
      PROVE  /\ i < j => n[i].obj # n[j].obj
             /\ i <= j => n[j].obj \in Above[d][n[i].obj]
  <2>1. CASE j = N + 1
    <3>1. CASE i = N + 1
      BY <1>1, <1>4, <1>5, <2>1, <3>1
    <3>2. CASE i \in 1 .. N
      BY <1>3, <1>4, <1>5, <2>1, <3>2 DEF y
    <3>3. QED BY <1>2, <3>1, <3>2
  <2>2. CASE j \in 1 .. N
    <3>1. CASE i = N + 1
      BY <1>1, <2>2, <3>1
    <3>2. CASE i \in 1 .. N
      BY <1>3, <2>2, <3>2 DEF Chain
    <3>3. QED BY <1>2, <3>1, <3>2
  <2>3. QED BY <1>2, <2>1, <2>2
<1>10. Len(n) - 1 = N
  BY <1>1
<1>11. QED BY <1>7, <1>8, <1>9, <1>10 DEF Chain

LEMMA ChainPopped ==
  ASSUME NEW d, NEW s \in Seq(FrameType), Chain(d, s), Len(s) > 1,
         NEW n \in Seq(FrameType), Len(n) = Len(s) - 1, \A i \in 1 .. Len(s) - 2 : n[i] = s[i],
         n[Len(s) - 1].obj = s[Len(s) - 1].obj, FrameLeft(d, n[Len(s) - 1])
  PROVE  Chain(d, n)
<1> DEFINE M == Len(s) - 1
<1>1. M \in Nat \ {0} /\ Len(n) = M /\ \A i \in 1 .. M : i = M \/ i \in 1 .. Len(s) - 2
  OBVIOUS
<1>2. \A i \in 1 .. M : i \in 1 .. Len(s)
  OBVIOUS
<1>3. FrameLeft(d, n[M]) /\ n[M].obj = s[M].obj
  OBVIOUS
<1> HIDE DEF M
<1>4. \A i \in 1 .. M : n[i].obj = s[i].obj /\ FrameLeft(d, n[i])
  BY <1>1, <1>2, <1>3 DEF Chain
<1>5. ASSUME NEW i \in 1 .. M - 1 PROVE Waits(n[i], n[i + 1])
  <2>1. i \in 1 .. Len(s) - 2 /\ i \in 1 .. Len(s) - 1 /\ i + 1 \in 1 .. M
    BY <1>1 DEF M
  <2>2. n[i] = s[i] /\ n[i + 1].obj = s[i + 1].obj
    BY <1>4, <2>1
  <2>3. Waits(s[i], s[i + 1])
    BY <2>1 DEF Chain
  <2>4. QED BY <2>2, <2>3 DEF Waits
<1>6. \A i \in 1 .. M : FrameLeft(d, n[i]) /\ n[i].obj \in Obj
  BY <1>2, <1>4 DEF Chain
<1>7. \A i \in 1 .. M : \A j \in 1 .. M :
        /\ i < j => n[i].obj # n[j].obj
        /\ i <= j => n[j].obj \in Above[d][n[i].obj]
  BY <1>2, <1>4 DEF Chain
<1>8. QED BY <1>1, <1>5, <1>6, <1>7 DEF Chain

----------------------------------------------------------------------------
Pending(s) ==
  /\ Chain(query.dir, s)
  /\ \A i \in 1 .. Len(s) : once[query.dir][s[i].obj] = {}
SomeExact(s) == \A i \in 1 .. Len(s) : Exact(query.dir, s[i])
StoredExact == \A d \in Dir : \A o \in Settled(d) : once[d][o] # {} => once[d][o] = Fresh[d][o]

PInv == IInv /\ Pending(stack)
XInv == NothingCutShort => SomeExact(stack) /\ StoredExact

(* A call that goes through: o is not pending.                             *)
LEMMA NotPending ==
  ASSUME stack \in Seq(FrameType), NEW o, NEW n, Validate(History, o, n) = 0
  PROVE  \A i \in 1 .. Len(stack) : stack[i].obj # o
<1>1. o \notin { History[i] : i \in DOMAIN History }
  BY DEF Validate
<1>2. DOMAIN stack = 1 .. Len(stack)
  OBVIOUS
<1>3. QED BY <1>1, <1>2 DEF History

(* What the object of the frame f is still to be asked for.                *)
LEMMA AskedFor ==
  ASSUME NEW d \in Dir, NEW f \in FrameType, FrameLeft(d, f), NEW o,
         (f.host /\ o = parent(f.obj)) \/ o \in f.from
  PROVE  o \in Sources[d][f.obj] /\ o \in Obj
<1>1. f.obj \in Obj
  BY DEF FrameType
<1>2. f.host => parent(f.obj) # NoObj
  BY DEF FrameLeft, AsksHost
<1>3. f.from \subseteq PointsFrom(d, f.obj)
  BY DEF FrameLeft, FromOf
<1>4. QED BY <1>1, <1>2, <1>3, SourcesIs

(* No call for the sake of a settled object is cut short.                  *)
LEMMA NotCutShort ==
  ASSUME NothingCutShort, IInv, Pending(stack), stack # <<>>,
         stack[Len(stack)].obj \in Settled(query.dir),
         NEW o \in Sources[query.dir][stack[Len(stack)].obj]
  PROVE  Validate(History, o, Counted) = 0
<1> DEFINE d == query.dir
           N == Len(stack)
           x == stack[N].obj
           H == { History[i] : i \in DOMAIN History }
<1>1. d \in Dir /\ N \in 1 .. N /\ stack \in Seq(FrameType)
  BY TopIs DEF IInv, StackOK
<1>2. /\ x \in Obj /\ o \in Obj /\ o \in Above[d][x] /\ o # x /\ x \notin Above[d][o]
      /\ \A u, v \in Above[d][x] : u # v => type(u) # type(v)
      /\ x \in Above[d][x]
  <2>1. x \in Settled(d)
    OBVIOUS
  <2> HIDE DEF x
  <2>2. x \in Obj
    BY <1>1, <2>1, SettledIs
  <2>3. o \in Sources[d][x]
    BY DEF x
  <2>4. QED BY <1>1, <2>1, <2>2, <2>3, SettledIs, AboveIs
<1>3. \A h \in H : h \in Obj /\ x \in Above[d][h]
  <2>1. \A i \in 1 .. N : stack[i].obj \in Obj /\ x \in Above[d][stack[i].obj]
    BY <1>1 DEF Pending, Chain
  <2>2. DOMAIN stack = 1 .. N
    BY <1>1
  <2>3. QED BY <2>1, <2>2 DEF History
<1>4. ASSUME NEW h \in H PROVE o # h /\ type(o) # type(h)
  <2>1. o # h
    BY <1>2, <1>3
  <2>2. CASE h = x
    BY <1>2, <2>1, <2>2
  <2>3. CASE h # x
    <3>1. h \in Obj \ {x} /\ o \in Above[d][x] \ {x} /\ x \in Above[d][h] /\ x \in Settled(d)
      BY <1>2, <1>3, <2>3
    <3>2. type(h) # type(o)
      <4> HIDE DEF x, d, H
      <4>1. QED BY <1>1, <3>1 DEF NothingCutShort, TypesApart
    <3>3. QED BY <2>1, <3>2
  <2>4. QED BY <2>2, <2>3
<1>5. ~Limited(Counted)
  BY DEF NothingCutShort, Limited
<1>6. o \notin H /\ type(o) \notin { type(h) : h \in H }
  BY <1>4
<1>7. QED BY <1>5, <1>6 DEF Validate

----------------------------------------------------------------------------
LEMMA CallPending ==
  ASSUME PInv, stack # <<>>, NEW o \in Obj, NEW via \in {"host", "from"},
         via = "host" => stack[Len(stack)].host /\ o = parent(stack[Len(stack)].obj),
         via = "from" => o \in stack[Len(stack)].from,
         Call(o, via)
  PROVE  /\ Pending(stack)' /\ (XInv => XInv')
         /\ stack' # <<>> /\ stack'[1].obj = stack[1].obj
<1> DEFINE t == stack[Len(stack)]
           w == [t EXCEPT !.via = via]
           b == SubSeq(stack, 1, Len(stack) - 1)
           d == query.dir
           N == Len(stack)
           cached == once[d][o]
           err == Validate(History, o, Counted)
<1>1. /\ d \in Dir /\ t \in FrameType /\ t.obj \in Obj
      /\ stack \in Seq(FrameType) /\ N \in 1 .. N /\ N \in Nat \ {0}
      /\ once' = once /\ query' = query /\ IInv /\ Pending(stack)
  BY TopIs DEF IInv, StackOK, PInv, Call
<1>2. FrameLeft(d, t) /\ \A i \in 1 .. N : once[d][stack[i].obj] = {}
  BY <1>1 DEF Pending, Chain
<1>3. /\ w \in FrameType /\ w.obj = t.obj /\ w.via = via /\ w.from = t.from
      /\ w.host = t.host /\ w.res = t.res /\ w.err = t.err /\ w.aborted = t.aborted
  BY <1>1 DEF FrameType
<1> HIDE DEF w
<1>4. FrameLeft(d, w) /\ (Exact(d, t) => Exact(d, w))
  BY <1>2, <1>3 DEF FrameLeft, Exact
<1>5. (w.via = "host" => w.host /\ o = parent(w.obj)) /\ (w.via = "from" => o \in w.from)
  BY <1>3
<1>6. o \in Sources[d][t.obj]
  BY <1>1, <1>2, AskedFor
<1>7. ASSUME NEW n \in Seq(FrameType), \A i \in 1 .. N - 1 : n[i] = stack[i], XInv,
             Len(n) >= N, \A i \in N .. Len(n) : NothingCutShort => Exact(d, n[i])
      PROVE  NothingCutShort => SomeExact(n)
  <2>1. ASSUME NothingCutShort, NEW i \in 1 .. Len(n) PROVE Exact(d, n[i])
    <3>1. i \in 1 .. N - 1 \/ i \in N .. Len(n)
      BY <1>1
    <3>2. i \in 1 .. N - 1 => i \in 1 .. N
      BY <1>1
    <3>3. QED BY <1>1, <1>7, <2>1, <3>1, <3>2 DEF XInv, SomeExact
  <2>2. QED BY <2>1 DEF SomeExact
<1>8. XInv => (NothingCutShort => Exact(d, t) /\ StoredExact)
  BY <1>1 DEF XInv, SomeExact
<1>9. NothingCutShort /\ t.obj \in Settled(d) => err = 0 /\ o \in Settled(d)
  <2>1. NothingCutShort /\ t.obj \in Settled(d) => err = 0
    BY <1>1, <1>6, NotCutShort
  <2>2. t.obj \in Settled(d) => o \in Settled(d)
    BY <1>1, <1>6, SettledIs
  <2>3. QED BY <2>1, <2>2
<1>10. ASSUME NEW r, NEW e \in {0, -1, -2, -3, -9},
              Absorb(w, o, r, e) \in FrameType, stack' = Append(b, Absorb(w, o, r, e)),
              XInv /\ NothingCutShort /\ w.obj \in Settled(d) => e = 0 /\ r = Fresh[d][o]
       PROVE  /\ Pending(stack)' /\ (XInv => XInv')
              /\ stack' # <<>> /\ stack'[1].obj = stack[1].obj
  <2> DEFINE f == Absorb(w, o, r, e)
             n == Append(b, f)
  <2>1. f.obj = t.obj /\ FrameLeft(d, f)
    BY <1>3, <1>4, AbsorbIs, AbsorbLeft
  <2>2. XInv /\ NothingCutShort => Exact(d, f)
    <3> SUFFICES ASSUME XInv, NothingCutShort PROVE Exact(d, f)
      OBVIOUS
    <3>1. Exact(d, w) /\ e \in Int
      BY <1>4, <1>8
    <3>2. w.obj \in Settled(d) => e = 0 /\ r = Fresh[d][o]
      BY <1>10
    <3> HIDE DEF d, t
    <3>3. w.via \in {"host", "from"}
      BY <1>3
    <3>4. QED BY <1>3, <1>4, <1>5, <3>1, <3>2, <3>3, AbsorbExact DEF d
  <2>3. /\ n \in Seq(FrameType) /\ Len(n) = N /\ n[N] = f
        /\ \A i \in 1 .. N - 1 : n[i] = stack[i]
    <3>1. f \in FrameType
      BY <1>10
    <3> HIDE DEF f
    <3>2. QED BY <1>1, <3>1, ReplacedIs
  <2>4. stack' = n
    BY <1>10
  <2> HIDE DEF n, f
  <2>5. Chain(d, n)
    BY <1>1, <2>1, <2>3, ChainReplaced DEF Pending
  <2>6. \A i \in 1 .. N : n[i].obj = stack[i].obj
    <3>1. \A i \in 1 .. N : i = N \/ i \in 1 .. N - 1
      BY <1>1
    <3>2. QED BY <2>1, <2>3, <3>1
  <2>7. Pending(n)
    BY <1>2, <2>3, <2>5, <2>6 DEF Pending
  <2>8. XInv => (NothingCutShort => SomeExact(n))
    <3>1. \A i \in N .. Len(n) : i = N
      BY <1>1, <2>3
    <3>2. Len(n) >= N
      BY <1>1, <2>3
    <3>3. QED BY <1>7, <2>2, <2>3, <3>1, <3>2
  <2>9. Pending(stack)'
    BY <1>1, <2>4, <2>7 DEF Pending
  <2>10. XInv => XInv'
    BY <1>1, <2>4, <2>8 DEF XInv, SomeExact, StoredExact
  <2>11. stack' # <<>> /\ stack'[1].obj = stack[1].obj
    <3>1. 1 \in 1 .. N
      BY <1>1
    <3>2. QED BY <2>3, <2>4, <2>6, <3>1
  <2>12. QED BY <2>9, <2>10, <2>11
<1>11. ASSUME NEW r, NEW e \in {0, -1, -2, -3, -9}, Reached(d, o, r) PROVE Absorb(w, o, r, e) \in FrameType
  <2>1. FrameOK(d, w)
    <3>1. FrameOK(d, t)
      BY <1>1, TopIs
    <3>2. QED BY <1>3, <3>1 DEF FrameOK
  <2>2. FrameOK(d, Absorb(w, o, r, e))
    BY <1>1, <1>5, <1>11, <2>1, FrameAbsorbs
  <2>3. QED BY <2>2 DEF FrameOK
<1>12. CASE cached # {} /\ stack' = Append(b, Absorb(w, o, cached, 0))
  <2>1. Reached(d, o, cached)
    BY <1>1 DEF IInv, CachesInv
  <2>2. XInv /\ NothingCutShort /\ w.obj \in Settled(d) => cached = Fresh[d][o]
    BY <1>1, <1>3, <1>8, <1>9, <1>12 DEF StoredExact
  <2> HIDE DEF cached
  <2>3. QED BY <1>10, <1>11, <1>12, <2>1, <2>2
<1>13. CASE err < 0 /\ stack' = Append(b, Absorb(w, o, {}, err))
  <2>1. Reached(d, o, {})
    BY DEF Reached
  <2>2. err \in {0, -1, -2, -3, -9}
    BY ErrorIs
  <2>3. ~(NothingCutShort /\ w.obj \in Settled(d))
    BY <1>3, <1>9, <1>13
  <2> HIDE DEF err
  <2>4. QED BY <1>10, <1>11, <1>13, <2>1, <2>2, <2>3
<1>14. CASE cached = {} /\ err = 0 /\ stack' = b \o <<w, Frame(d, o)>>
  <2> DEFINE g == Frame(d, o)
             n == b \o <<w, g>>
  <2>1. g.obj = o /\ FrameLeft(d, g) /\ Exact(d, g)
    BY <1>1, FrameIs, FrameExact
  <2>2. g \in FrameType
    BY <1>1, FrameStarts DEF FrameOK
  <2> HIDE DEF g
  <2>3. /\ n \in Seq(FrameType) /\ Len(n) = N + 1 /\ n[N] = w /\ n[N + 1] = g
        /\ \A i \in 1 .. N - 1 : n[i] = stack[i]
    <3>1. w \in FrameType /\ g \in FrameType /\ stack \in Seq(FrameType)
      BY <1>1, <1>3, <2>2
    <3>2. Pushed(FrameType, stack, w, g, n)
      BY <3>1, PushedIs
    <3> HIDE DEF n
    <3>3. QED BY <3>2 DEF Pushed
  <2>4. stack' = n
    BY <1>14 DEF g
  <2> HIDE DEF n
  <2>5. Waits(w, g)
    BY <1>5, <2>1 DEF Waits
  <2>6. \A i \in 1 .. N : stack[i].obj # o
    BY <1>1, <1>14, NotPending
  <2>7. Chain(d, n)
    <3>1. Chain(d, stack)
      BY <1>1 DEF Pending
    <3> HIDE DEF d
    <3>2. QED BY <1>1, <1>3, <1>4, <1>6, <2>1, <2>3, <2>5, <2>6, <3>1, ChainPushed
  <2>8. ASSUME NEW i \in 1 .. N + 1 PROVE once[d][n[i].obj] = {}
    <3>1. i \in 1 .. N - 1 \/ i = N \/ i = N + 1
      BY <1>1
    <3>2. i \in 1 .. N - 1 => i \in 1 .. N
      BY <1>1
    <3>3. QED BY <1>1, <1>2, <1>3, <1>14, <2>1, <2>3, <3>1, <3>2
  <2>9. Pending(n)
    BY <2>3, <2>7, <2>8 DEF Pending
  <2>10. XInv => (NothingCutShort => SomeExact(n))
    <3>1. \A i \in N .. Len(n) : i = N \/ i = N + 1
      BY <1>1, <2>3
    <3>2. Len(n) >= N
      BY <1>1, <2>3
    <3>3. QED BY <1>4, <1>7, <1>8, <2>1, <2>3, <3>1, <3>2
  <2>11. Pending(stack)'
    BY <1>1, <2>4, <2>9 DEF Pending
  <2>12. XInv => XInv'
    BY <1>1, <2>4, <2>10 DEF XInv, SomeExact, StoredExact
  <2>13. stack' # <<>> /\ stack'[1].obj = stack[1].obj
    <3>1. N = 1 \/ 1 \in 1 .. N - 1
      <4> HIDE DEF N
      <4>1. N \in Nat \ {0}
        BY <1>1
      <4>2. QED BY <4>1
    <3>2. CASE N = 1
      <4>1. stack'[1] = w /\ Len(stack') = N + 1
        BY <2>3, <2>4, <3>2
      <4>2. t = stack[1]
        BY <3>2
      <4>3. QED BY <1>1, <1>3, <4>1, <4>2
    <3>3. CASE 1 \in 1 .. N - 1
      BY <2>3, <2>4, <3>3
    <3>4. QED BY <3>1, <3>2, <3>3
  <2>14. QED BY <2>11, <2>12, <2>13
<1>15. QED BY <1>12, <1>13, <1>14 DEF Call, w

----------------------------------------------------------------------------
LEMMA NoneSomePending == Pending(<<>>) /\ SomeExact(<<>>)
<1>1. \A i \in 1 .. Len(<<>>) : FALSE
  OBVIOUS
<1>2. \A i \in 1 .. Len(<<>>) - 1 : FALSE
  OBVIOUS
<1>3. QED BY <1>1, <1>2 DEF Pending, Chain, SomeExact

(* What a search returns that has asked all it has to.                     *)
LEMMA ReturnedExact ==
  ASSUME NEW d \in Dir, NEW t, Exact(d, t), t.obj \in Settled(d), ~t.host, t.from = {}
  PROVE  t.res = Fresh[d][t.obj] /\ t.err = 0
<1> DEFINE o == t.obj
<1>1. t.res = Part(d, o, {}, t.host) /\ t.err = 0
  BY DEF Exact
<1>2. Part(d, o, {}, t.host) = Part(d, o, {}, FALSE)
  BY DEF Part, PartHost
<1>3. QED BY <1>1, <1>2, PartAll

LEMMA ReturnPending ==
  ASSUME PInv, return
  PROVE  /\ Pending(stack)' /\ (XInv => XInv')
         /\ Len(stack) > 1 => stack' # <<>> /\ stack'[1].obj = stack[1].obj
<1> DEFINE t == stack[Len(stack)]
           b == SubSeq(stack, 1, Len(stack) - 1)
           d == query.dir
           N == Len(stack)
<1>1. stack # <<>> /\ ~t.host /\ t.from = {}
  BY DEF return
<1>2. /\ d \in Dir /\ t \in FrameType /\ t.obj \in Obj
      /\ stack \in Seq(FrameType) /\ N \in 1 .. N /\ N \in Nat \ {0}
      /\ IInv /\ Pending(stack) /\ StackOK(stack, query) /\ CachesInv
  BY <1>1, TopIs DEF IInv, StackOK, PInv
<1>3. once' = once \/ once' = [once EXCEPT ![d][t.obj] = t.res]
  BY DEF return
<1>4. \A x \in Dir, o \in Obj : once'[x][o] # once[x][o] => x = d /\ o = t.obj /\ once'[x][o] = t.res
  <2>1. CASE once' = once
    BY <2>1
  <2>2. CASE once' = [once EXCEPT ![d][t.obj] = t.res]
    <3>1. \A x \in Dir, o \in Obj :
            once'[x][o] = IF x = d /\ o = t.obj THEN t.res ELSE once[x][o]
      BY <1>2, <2>2 DEF CachesInv
    <3>2. QED BY <3>1
  <2>3. QED BY <1>3, <2>1, <2>2
<1>5. XInv /\ NothingCutShort =>
        /\ \A i \in 1 .. N : Exact(d, stack[i])
        /\ t.obj \in Settled(d) => t.res = Fresh[d][t.obj] /\ t.err = 0
  <2> SUFFICES ASSUME XInv, NothingCutShort
               PROVE  /\ \A i \in 1 .. N : Exact(d, stack[i])
                      /\ t.obj \in Settled(d) => t.res = Fresh[d][t.obj] /\ t.err = 0
    OBVIOUS
  <2>1. \A i \in 1 .. N : Exact(d, stack[i])
    BY DEF XInv, SomeExact
  <2>2. Exact(d, t)
    BY <1>2, <2>1
  <2> HIDE DEF t, d
  <2>3. QED BY <1>1, <1>2, <2>1, <2>2, ReturnedExact DEF d, N
<1>6. XInv /\ NothingCutShort => StoredExact'
  <2> SUFFICES ASSUME XInv, NothingCutShort, NEW x \in Dir, NEW o \in Settled(x), once'[x][o] # {}
               PROVE  once'[x][o] = Fresh[x][o]
    BY DEF StoredExact
  <2>1. o \in Obj
    BY SettledIs
  <2>2. CASE once'[x][o] = once[x][o]
    BY <2>2 DEF XInv, StoredExact
  <2>3. CASE once'[x][o] # once[x][o]
    BY <1>4, <1>5, <2>1, <2>3
  <2>4. QED BY <2>2, <2>3
<1>7. CASE Len(b) = 0
  <2>1. stack' = <<>>
    BY <1>7 DEF return
  <2>2. Pending(stack)' /\ SomeExact(stack)'
    <3>1. \A i \in 1 .. Len(stack') : FALSE
      BY <2>1
    <3>2. \A i \in 1 .. Len(stack') - 1 : FALSE
      BY <2>1
    <3>3. QED BY <3>1, <3>2 DEF Pending, Chain, SomeExact
  <2>3. XInv => XInv'
    BY <1>6, <2>2 DEF XInv
  <2>4. Len(b) = N - 1
    BY <1>1, <1>2, BelowIs
  <2>5. ~(N > 1)
    BY <1>2, <1>7, <2>4
  <2>6. QED BY <2>2, <2>3, <2>5
<1>8. CASE Len(b) # 0
  <2> DEFINE M == N - 1
             u == stack[M]
             f == Absorb(u, t.obj, t.res, t.err)
             n == [b EXCEPT ![M] = f]
  <2>1. M = Len(b) /\ M \in 1 .. N - 1 /\ M \in 1 .. N /\ M + 1 = N /\ N > 1 /\ b[M] = u /\ N - 2 = M - 1
    <3>1. Len(b) = N - 1 /\ \A i \in 1 .. N - 1 : b[i] = stack[i]
      BY <1>1, <1>2, BelowIs
    <3> HIDE DEF b
    <3>2. QED BY <1>2, <1>8, <3>1
  <2>2. stack' = n /\ query' = query
    <3>1. stack' = [b EXCEPT ![Len(b)] = Absorb(b[Len(b)], t.obj, t.res, t.err)] /\ query' = query
      BY <1>8 DEF return
    <3> HIDE DEF b
    <3>2. QED BY <2>1, <3>1
  <2>3. FrameOK(d, u) /\ u \in FrameType /\ u.via # "none" /\ (u.via = "host" => t.obj = parent(u.obj))
    BY <1>2, <2>1 DEF StackOK, FrameOK
  <2>4. FrameLeft(d, u) /\ (u.via = "from" => t.obj \in u.from) /\ (u.via = "host" => u.host)
    BY <1>2, <2>1 DEF Pending, Chain, Waits
  <2>5. u.via \in {"host", "from"}
    BY <2>3 DEF FrameType
  <2>6. t.err \in {0, -1, -2, -3, -9} /\ Reached(d, t.obj, t.res)
    BY <1>1, <1>2, TopIs DEF FrameType, FrameOK
  <2>7. FrameOK(d, f) /\ f.obj = u.obj /\ f \in FrameType
    <3>1. ASSUME NEW g, FrameOK(d, g), NEW o \in Obj, NEW r, Reached(d, o, r),
                 g.via = "host" => o = parent(g.obj), NEW e \in {0, -1, -2, -3, -9}
          PROVE  FrameOK(d, Absorb(g, o, r, e)) /\ Absorb(g, o, r, e).obj = g.obj
      BY <1>2, <3>1, FrameAbsorbs
    <3> HIDE DEF u, t, d
    <3>2. FrameOK(d, f) /\ f.obj = u.obj
      BY <1>2, <2>3, <2>6, <3>1
    <3>3. QED BY <3>2 DEF FrameOK
  <2>8. FrameLeft(d, f)
    <3> HIDE DEF u, t
    <3>1. QED BY <2>3, <2>4, AbsorbLeft
  <2>9. u.obj \in Settled(d) => t.obj \in Settled(d)
    <3>1. t.obj \in Sources[d][u.obj]
      <4> HIDE DEF u, t, d
      <4>1. QED BY <1>2, <2>3, <2>4, <2>5, AskedFor
    <3> HIDE DEF u, t, d
    <3>2. QED BY <1>2, <3>1, SettledIs
  <2>10. XInv /\ NothingCutShort => Exact(d, f)
    <3> SUFFICES ASSUME XInv, NothingCutShort PROVE Exact(d, f)
      OBVIOUS
    <3>1. Exact(d, u)
      BY <1>5, <2>1
    <3>2. u.obj \in Settled(d) => t.err = 0 /\ t.res = Fresh[d][t.obj]
      BY <1>5, <2>9
    <3>3. t.err \in Int
      BY <2>6
    <3> HIDE DEF u, t, d
    <3>4. QED BY <2>3, <2>4, <2>5, <3>1, <3>2, <3>3, AbsorbExact DEF d
  <2> HIDE DEF f, u
  <2>11. /\ n \in Seq(FrameType) /\ Len(n) = N - 1 /\ n[N - 1] = f
         /\ \A i \in 1 .. N - 2 : n[i] = stack[i]
    <3>1. Popped(FrameType, stack, f, n)
      BY <1>2, <2>1, <2>7, PoppedIs
    <3> HIDE DEF n
    <3>2. QED BY <3>1 DEF Popped
  <2> HIDE DEF n
  <2>12. Chain(d, n)
    <3>1. n[N - 1].obj = stack[N - 1].obj
      BY <2>7, <2>11 DEF u
    <3>2. QED BY <1>2, <2>1, <2>8, <2>11, <3>1, ChainPopped DEF Pending
  <2>13. \A i \in 1 .. M : i \in 1 .. N /\ i < N /\ n[i].obj = stack[i].obj
    <3>1. \A i \in 1 .. M : i \in 1 .. N /\ i < N /\ (i = M \/ i \in 1 .. N - 2)
      BY <1>2
    <3>2. QED BY <2>7, <2>11, <3>1 DEF u
  <2>14. ASSUME NEW i \in 1 .. M PROVE once'[d][n[i].obj] = {}
    <3>1. stack[i].obj # t.obj /\ stack[i].obj \in Obj /\ once[d][stack[i].obj] = {}
      BY <1>2, <2>13 DEF Pending, Chain
    <3>2. QED BY <1>2, <1>4, <2>13, <3>1
  <2>15. Pending(stack)'
    BY <2>2, <2>11, <2>12, <2>14 DEF Pending
  <2>16. XInv /\ NothingCutShort => SomeExact(n)
    <3> SUFFICES ASSUME XInv, NothingCutShort, NEW i \in 1 .. M PROVE Exact(d, n[i])
      BY <2>11 DEF SomeExact
    <3>1. i = M \/ i \in 1 .. N - 2
      BY <1>2
    <3>2. QED BY <1>5, <2>10, <2>11, <2>13, <3>1
  <2>17. XInv => XInv'
    BY <1>6, <2>2, <2>16 DEF XInv, SomeExact
  <2>18. stack' # <<>> /\ stack'[1].obj = stack[1].obj
    <3>1. 1 \in 1 .. M
      BY <1>2, <2>1
    <3>2. QED BY <2>2, <2>11, <2>13, <3>1
  <2>19. QED BY <2>15, <2>17, <2>18
<1>9. QED BY <1>7, <1>8

LEMMA TakeNewPending ==
  ASSUME PInv, NEW o, takeNew(o)
  PROVE  Pending(stack)' /\ (XInv => XInv')
<1> DEFINE d == query.dir
<1>1. stack = <<>> /\ o \in query.new /\ once' = once
  BY DEF takeNew
<1>2. query # NoQuery /\ QueryOK(query) /\ query \in QueryType
  BY <1>1 DEF NoQuery, PInv, IInv, QueryOK
<1>3. d \in Dir /\ o \in Obj
  BY <1>1, <1>2 DEF QueryOK, QueryType
<1>4. CASE stack' = stack
  <2>1. \A i \in 1 .. Len(stack') : FALSE
    BY <1>1, <1>4
  <2>2. \A i \in 1 .. Len(stack') - 1 : FALSE
    BY <1>1, <1>4
  <2>3. Pending(stack)' /\ SomeExact(stack)'
    BY <2>1, <2>2 DEF Pending, Chain, SomeExact
  <2>4. QED BY <1>1, <2>3 DEF XInv, StoredExact
<1>5. CASE /\ once[d][o] = {} /\ stack' = <<Frame(d, o)>>
           /\ query' = [query EXCEPT !.new = @ \ {o}]
  <2> DEFINE g == Frame(d, o)
  <2>1. g.obj = o /\ FrameLeft(d, g) /\ Exact(d, g)
    BY <1>3, FrameIs, FrameExact
  <2>2. query'.dir = d
    BY <1>2, <1>5 DEF QueryType
  <2>3. stack' = <<g>>
    BY <1>5
  <2> HIDE DEF g
  <2>4. Len(stack') = 1 /\ stack'[1] = g
    BY <2>3
  <2> HIDE DEF d
  <2>5. o \in Above[d][o]
    BY <1>3, AboveIs
  <2>6. Chain(d, stack')
    <3>1. \A i \in 1 .. 1 : i = 1
      OBVIOUS
    <3>2. \A i \in 1 .. 1 - 1 : FALSE
      OBVIOUS
    <3>3. QED BY <1>3, <2>1, <2>4, <2>5, <3>1, <3>2 DEF Chain
  <2>7. \A i \in 1 .. Len(stack') : Exact(d, stack'[i]) /\ once'[d][stack'[i].obj] = {}
    BY <1>1, <1>5, <2>1, <2>4 DEF d
  <2>8. Pending(stack)' /\ SomeExact(stack)'
    BY <2>2, <2>6, <2>7 DEF Pending, SomeExact
  <2>9. QED BY <1>1, <2>8 DEF XInv, StoredExact
<1>6. QED BY <1>4, <1>5 DEF takeNew

(* Nothing is pending before and after the other steps.                    *)
LEMMA IdlePending ==
  ASSUME once' = once, stack' = stack, stack = <<>> \/ query' = query, PInv
  PROVE  Pending(stack)' /\ (XInv => XInv')
<1>1. CASE query' = query
  BY <1>1 DEF PInv, Pending, XInv, SomeExact, StoredExact
<1>2. CASE stack = <<>>
  <2>1. \A i \in 1 .. Len(stack') : FALSE
    BY <1>2
  <2>2. \A i \in 1 .. Len(stack') - 1 : FALSE
    BY <1>2
  <2>3. Pending(stack)' /\ SomeExact(stack)'
    BY <2>1, <2>2 DEF Pending, Chain, SomeExact
  <2>4. QED BY <2>3 DEF XInv, StoredExact
<1>3. QED BY <1>1, <1>2

LEMMA PendingInductive ==
  ASSUME PInv, [Next \/ Terminated]_vars
  PROVE  PInv' /\ (XInv => XInv')
<1>1. IInv'
  BY Inductive DEF PInv
<1>2. ASSUME Pending(stack)' /\ (XInv => XInv') PROVE PInv' /\ (XInv => XInv')
  BY <1>1, <1>2 DEF PInv
<1>3. CASE \E q \in Queries : ask(q[1], q[2])
  <2>1. once' = once /\ stack' = stack /\ query = NoQuery
    BY <1>3 DEF ask
  <2>2. stack = <<>>
    BY <2>1 DEF PInv, IInv, StackOK
  <2>3. QED BY <1>2, <2>1, <2>2, IdlePending
<1>4. CASE \E o \in query.new : takeNew(o)
  BY <1>2, <1>4, TakeNewPending
<1>5. CASE callHost
  <2> DEFINE o == parent(stack[Len(stack)].obj)
  <2>1. stack # <<>> /\ stack[Len(stack)].host /\ Call(o, "host")
    BY <1>5 DEF callHost
  <2>2. o \in Obj
    BY <2>1, TopIs DEF FrameOK, PInv
  <2>3. o = parent(stack[Len(stack)].obj)
    OBVIOUS
  <2> HIDE DEF o
  <2>4. QED BY <1>2, <2>1, <2>2, <2>3, CallPending
<1>6. CASE \E o \in Obj : callPointsFrom(o)
  <2>1. PICK o \in Obj : callPointsFrom(o)
    BY <1>6
  <2>2. stack # <<>> /\ o \in stack[Len(stack)].from /\ Call(o, "from")
    BY <2>1 DEF callPointsFrom
  <2>3. QED BY <1>2, <2>2, CallPending
<1>7. CASE return
  BY <1>2, <1>7, ReturnPending
<1>8. CASE endLayer
  <2>1. once' = once /\ stack' = stack /\ stack = <<>>
    BY <1>8 DEF endLayer
  <2>2. QED BY <1>2, <2>1, IdlePending
<1>9. CASE vars' = vars
  <2>1. once' = once /\ stack' = stack /\ query' = query
    BY <1>9 DEF vars
  <2>2. QED BY <1>2, <2>1, IdlePending
<1>10. CASE Terminated
  BY <1>9, <1>10 DEF Terminated
<1>11. QED BY <1>3, <1>4, <1>5, <1>6, <1>7, <1>8, <1>9, <1>10 DEF Next

LEMMA PendingInit == Init => PInv /\ XInv
<1> SUFFICES ASSUME Init PROVE PInv /\ XInv
  OBVIOUS
<1>1. IInv
  BY InitInv
<1>2. stack = <<>> /\ once = [d \in Dir |-> [o \in Obj |-> {}]]
  BY DEF Init
<1>3. Pending(stack) /\ SomeExact(stack)
  BY <1>2, NoneSomePending
<1>4. StoredExact
  <2> SUFFICES ASSUME NEW d \in Dir, NEW o \in Settled(d) PROVE once[d][o] = {}
    BY DEF StoredExact
  <2>1. o \in Obj
    BY SettledIs
  <2>2. QED BY <1>2, <2>1
<1>5. QED BY <1>1, <1>3, <1>4 DEF PInv, XInv

LEMMA PendingHolds == Spec => [](PInv /\ XInv)
<1>1. (PInv /\ XInv) /\ [Next \/ Terminated]_vars => (PInv /\ XInv)'
  BY PendingInductive
<1>2. QED BY <1>1, PendingInit, PTL DEF Spec

(* The answer that is cached for an object whose search meets no reason to *)
(* give up is the one that a search would find that starts from nothing:   *)
(* "Fill in the cache if all recursions have been finished" holds for it,  *)
(* whatever was searched before and whichever other calls were cut short.  *)
THEOREM CachedAsFresh == NothingCutShort => (Spec => []AsFresh)
<1> SUFFICES ASSUME NothingCutShort PROVE Spec => []AsFresh
  OBVIOUS
<1>1. PInv /\ XInv => AsFresh
  BY FreshDomain DEF XInv, StoredExact, AsFresh
<1>2. QED BY <1>1, PendingHolds, PTL

----------------------------------------------------------------------------
LEMMA GreatestNumber ==
  ASSUME NEW n \in Nat, NEW T \in SUBSET (0..n), T # {}
  PROVE  \E k \in T : \A j \in T : j <= k
<1> DEFINE F == {0..k : k \in T}
           S == 0..n
<1>1. F \in SUBSET SUBSET S
  BY SMT
<1>2. F # {}
  OBVIOUS
<1>3. IsFiniteSet(S)
  BY FS_Interval
<1>4. PICK x \in F : \A y \in F : x \subseteq y => y = x
  <2> HIDE DEF F, S
  <2>1. QED BY <1>1, <1>2, <1>3, GreatestSubset
<1>5. PICK k \in T : x = 0..k
  BY <1>4
<1>6. ASSUME NEW j \in T PROVE j <= k
  <2>1. j \in Nat /\ k \in Nat
    OBVIOUS
  <2>2. CASE k < j
    <3>1. 0..k \subseteq 0..j /\ j \in 0..j /\ j \notin 0..k
      BY <2>1, <2>2
    <3>2. 0..j \in F
      OBVIOUS
    <3>3. 0..j = 0..k
      BY <1>4, <1>5, <3>1, <3>2
    <3>4. QED BY <3>1, <3>3
  <2>3. QED BY <2>1, <2>2
<1>7. QED BY <1>6

----------------------------------------------------------------------------
(* The layers that a cache c makes.                                        *)

LayerNext(c, d, o, S) == S \cup UNION { Keys(c[d][x]) : x \in Searched(d, S) \cup {o} }
LayerBy(c, d, o) ==
  LET l[n \in 0..MAX_EQV_OBJ_ITER] == IF n = 0 THEN {o} ELSE LayerNext(c, d, o, l[n - 1])
  IN l

LEMMA LayerIs ==
  ASSUME NEW d, NEW o
  PROVE  Layer(d, o) = LayerBy(once, d, o)
BY Zenon DEF Layer, LayerBy, LayerNext

LEMMA LayersAre ==
  ASSUME NEW c, NEW d, NEW o
  PROVE  /\ LayerBy(c, d, o)[0] = {o}
         /\ \A n \in 0..MAX_EQV_OBJ_ITER - 1 :
              LayerBy(c, d, o)[n + 1] = LayerNext(c, d, o, LayerBy(c, d, o)[n])
<1> DEFINE N == MAX_EQV_OBJ_ITER
           Step(f, n) == IF n = 0 THEN {o} ELSE LayerNext(c, d, o, f[n - 1])
           Eq(f, k) == f = [n \in 0..k |-> Step(f, n)]
           T == {k \in 0..N : \E f : Eq(f, k)}
<1>1. N \in Nat \ {0}
  BY EqvAssumption
<1> HIDE DEF N
<1>2. 0 \in T
  <2> DEFINE g == [n \in 0..0 |-> {o}]
  <2>1. \A n \in 0..0 : n = 0
    OBVIOUS
  <2>2. Eq(g, 0)
    BY <2>1
  <2> HIDE DEF Eq
  <2>3. \E f : Eq(f, 0)
    BY <2>2
  <2>4. 0 \in 0..N
    BY <1>1
  <2>5. QED BY <2>3, <2>4
<1>3. PICK k \in T : \A j \in T : j <= k
  <2>1. T \in SUBSET (0..N) /\ T # {}
    BY <1>2
  <2> HIDE DEF T
  <2>2. QED BY <1>1, <2>1, GreatestNumber
<1>4. PICK f : Eq(f, k)
  BY <1>3
<1>5. k \in 0..N
  OBVIOUS
<1>6. k = N
  <2>1. ASSUME k # N PROVE FALSE
    <3>1. k + 1 \in 0..N /\ k \in Nat /\ \A n \in 0..k + 1 : n \in 0..k \/ n = k + 1
      BY <1>1, <1>5, <2>1
    <3> DEFINE g == [n \in 0..k + 1 |-> IF n = k + 1 THEN LayerNext(c, d, o, f[k]) ELSE f[n]]
    <3>2. ASSUME NEW n \in 0..k + 1 PROVE g[n] = Step(g, n)
      <4>1. CASE n = k + 1
        <5>1. n - 1 = k /\ n # 0 /\ k \in 0..k + 1 /\ k # k + 1
          BY <3>1, <4>1
        <5>2. g[k] = f[k] /\ g[n] = LayerNext(c, d, o, f[k])
          BY <4>1, <5>1
        <5> HIDE DEF g
        <5>3. QED BY <5>1, <5>2
      <4>2. CASE n \in 0..k
        <5>1. n # k + 1 /\ (n # 0 => n - 1 \in 0..k + 1 /\ n - 1 # k + 1)
          BY <3>1, <4>2
        <5>2. g[n] = f[n] /\ (n # 0 => g[n - 1] = f[n - 1])
          BY <5>1
        <5>3. f[n] = Step(f, n)
          BY <1>4, <4>2
        <5> HIDE DEF g
        <5>4. QED BY <5>2, <5>3
      <4>3. QED BY <3>1, <4>1, <4>2
    <3>3. g = [n \in 0..k + 1 |-> g[n]]
      OBVIOUS
    <3>4. Eq(g, k + 1)
      <4> HIDE DEF g, Step
      <4>1. QED BY <3>2, <3>3
    <3> HIDE DEF g, Eq
    <3>5. k + 1 \in T
      BY <3>1, <3>4
    <3>6. k + 1 <= k
      BY <1>3, <3>5
    <3>7. QED BY <3>1, <3>6
  <2>2. QED BY <2>1
<1> DEFINE l == LayerBy(c, d, o)
<1>7. l = CHOOSE h : Eq(h, N)
  BY DEF LayerBy, N
<1>8. Eq(l, N)
  <2>1. Eq(f, N)
    BY <1>4, <1>6
  <2> HIDE DEF Eq, l
  <2>2. QED BY <1>7, <2>1
<1> HIDE DEF l
<1>9. \A n \in 0..N : l[n] = Step(l, n)
  BY <1>8
<1>10. l[0] = {o}
  <2>1. 0 \in 0..N
    BY <1>1
  <2>2. QED BY <1>9, <2>1
<1>11. ASSUME NEW n \in 0..N - 1 PROVE l[n + 1] = LayerNext(c, d, o, l[n])
  <2>1. n + 1 \in 0..N /\ n + 1 # 0 /\ n + 1 - 1 = n
    BY <1>1
  <2>2. l[n + 1] = Step(l, n + 1)
    BY <1>9, <2>1
  <2>3. QED BY <2>1, <2>2
<1>12. QED BY <1>10, <1>11 DEF l, N

----------------------------------------------------------------------------
(* Caches grow: an answer is not replaced.                                 *)
Grows(c, e) == \A d \in Dir, x \in Obj : c[d][x] # {} => e[d][x] = c[d][x]

(* All that layer i is made of is cached.                                  *)
Done(c, d, o, i) ==
  \A j \in 0..i - 1 : \A x \in Searched(d, LayerBy(c, d, o)[j]) \cup {o} : x \in Obj /\ c[d][x] # {}

LEMMA LayersStay ==
  ASSUME NEW d \in Dir, NEW o, NEW i \in 0..MAX_EQV_OBJ_ITER,
         NEW c, NEW e, Grows(c, e), Done(c, d, o, i)
  PROVE  \A j \in 0..i : LayerBy(e, d, o)[j] = LayerBy(c, d, o)[j]
<1> DEFINE L == LayerBy(c, d, o)
           M == LayerBy(e, d, o)
           T == {k \in 0..i : \A j \in 0..k : M[j] = L[j]}
<1>1. i \in Nat /\ MAX_EQV_OBJ_ITER \in Nat
  BY EqvAssumption
<1>2. L[0] = {o} /\ M[0] = {o}
  BY LayersAre
<1>3. ASSUME NEW n \in 0..i - 1, M[n] = L[n] PROVE M[n + 1] = L[n + 1]
  <2>1. n \in 0..MAX_EQV_OBJ_ITER - 1
    BY <1>1
  <2>2. L[n + 1] = LayerNext(c, d, o, L[n]) /\ M[n + 1] = LayerNext(e, d, o, M[n])
    BY <2>1, LayersAre
  <2>3. \A x \in Searched(d, L[n]) \cup {o} : e[d][x] = c[d][x]
    BY DEF Done, Grows
  <2> HIDE DEF L, M
  <2>4. LayerNext(c, d, o, L[n]) = LayerNext(e, d, o, L[n])
    BY <2>3 DEF LayerNext
  <2>5. QED BY <1>3, <2>2, <2>4
<1> HIDE DEF L, M
<1>4. 0 \in T
  <2>1. \A j \in 0..0 : j = 0
    OBVIOUS
  <2>2. QED BY <1>1, <1>2, <2>1
<1>5. PICK k \in T : \A j \in T : j <= k
  <2>1. T \in SUBSET (0..i) /\ T # {}
    BY <1>4
  <2> HIDE DEF T
  <2>2. QED BY <1>1, <2>1, GreatestNumber
<1>6. k = i
  <2>1. ASSUME k # i PROVE FALSE
    <3>1. k \in 0..i - 1 /\ k \in 0..k /\ k + 1 \in 0..i /\ \A j \in 0..k + 1 : j \in 0..k \/ j = k + 1
      BY <1>1, <2>1
    <3>2. M[k] = L[k]
      BY <3>1
    <3>3. M[k + 1] = L[k + 1]
      BY <1>3, <3>1, <3>2
    <3>4. \A j \in 0..k + 1 : M[j] = L[j]
      BY <3>1, <3>3
    <3>5. k + 1 \in T
      BY <3>1, <3>4
    <3>6. k + 1 <= k /\ k \in Nat
      BY <1>5, <3>1, <3>5
    <3>7. QED BY <3>6
  <2>2. QED BY <2>1
<1>7. QED BY <1>5, <1>6 DEF L, M

----------------------------------------------------------------------------
(* The object whose search is under way.                                   *)
Busy(s) == IF s = <<>> THEN {} ELSE {s[1].obj}

(* The paths to an object of r all lead over one object of r.              *)
TracedOver(c, d, r, x, y) ==
  c[d][x] # {} /\
  PathsTo(r, y) = { Joined(d, t[1], t[2]) : t \in PathsTo(r, x) \X PathsTo(c[d][x], y) }
Traced(c, d, o, r) ==
  \A y \in Keys(r) \ {o} : \E x \in Searched(d, Keys(r)) \cup {o} :
    x \in Obj /\ TracedOver(c, d, r, x, y)

(* S is the layer that is searched.  Each of its objects is still to be    *)
(* searched for, or what was found for it is in the result.                *)
InLayer(c, q, busy, S) ==
  /\ S \subseteq Keys(q.res)
  /\ Keys(q.res) \subseteq LayerNext(c, q.dir, q.obj, S)
  /\ q.new \cup busy \subseteq Searched(q.dir, S) \cup {q.obj}
  /\ q.next = Searched(q.dir, Keys(q.res) \ S)
  /\ \A x \in Searched(q.dir, S) \cup {q.obj} :
       x \in q.new \cup busy \/ (c[q.dir][x] # {} /\ Keys(c[q.dir][x]) \subseteq Keys(q.res))
Layered(c, q, busy) ==
  /\ InLayer(c, q, busy, LayerBy(c, q.dir, q.obj)[q.iter])
  /\ Done(c, q.dir, q.obj, q.iter)
  /\ Traced(c, q.dir, q.obj, q.res)

(* The result r for o is n layers.                                         *)
Complete(c, d, o, r, n) ==
  /\ Keys(r) = LayerBy(c, d, o)[n]
  /\ Done(c, d, o, n)
  /\ \/ n = MAX_EQV_OBJ_ITER
     \/ Cardinality(Keys(r)) >= MAX_EQV_OBJ_NUM
     \/ Searched(d, LayerBy(c, d, o)[n]) \subseteq LayerBy(c, d, o)[n - 1]
AllLayered(c, d, o, r) ==
  Traced(c, d, o, r) /\ \E n \in 1..MAX_EQV_OBJ_ITER : Complete(c, d, o, r, n)

LInv ==
  /\ query # NoQuery => Layered(once, query, Busy(stack))
  /\ \A d \in Dir, o \in Obj : all[d][o] # {} => AllLayered(once, d, o, all[d][o])

----------------------------------------------------------------------------
(* Growing caches change nothing of that.                                  *)

LEMMA TracedStays ==
  ASSUME NEW d \in Dir, NEW o \in Obj, NEW r, NEW c, NEW e, Grows(c, e), Traced(c, d, o, r)
  PROVE  Traced(e, d, o, r)
<1>1. ASSUME NEW x \in Obj, NEW y, TracedOver(c, d, r, x, y) PROVE TracedOver(e, d, r, x, y)
  <2>1. c[d][x] # {}
    BY <1>1 DEF TracedOver
  <2>2. e[d][x] = c[d][x]
    BY <2>1 DEF Grows
  <2>3. QED BY <1>1, <2>2 DEF TracedOver
<1>2. QED BY <1>1 DEF Traced

LEMMA DoneStays ==
  ASSUME NEW d \in Dir, NEW o, NEW i \in 0..MAX_EQV_OBJ_ITER,
         NEW c, NEW e, Grows(c, e), Done(c, d, o, i)
  PROVE  Done(e, d, o, i)
<1>1. \A j \in 0..i : LayerBy(e, d, o)[j] = LayerBy(c, d, o)[j]
  BY LayersStay
<1>2. \A j \in 0..i - 1 : j \in 0..i
  BY EqvAssumption
<1>3. \A x \in Obj : c[d][x] # {} => e[d][x] # {}
  BY DEF Grows
<1>4. QED BY <1>1, <1>2, <1>3 DEF Done

LEMMA AllLayeredStays ==
  ASSUME NEW d \in Dir, NEW o \in Obj, NEW r, NEW c, NEW e, Grows(c, e), AllLayered(c, d, o, r)
  PROVE  AllLayered(e, d, o, r)
<1>1. PICK n \in 1..MAX_EQV_OBJ_ITER : Complete(c, d, o, r, n)
  BY DEF AllLayered
<1>2. n \in 0..MAX_EQV_OBJ_ITER /\ n \in 0..n /\ n - 1 \in 0..n
  BY EqvAssumption
<1>3. LayerBy(e, d, o)[n] = LayerBy(c, d, o)[n] /\ LayerBy(e, d, o)[n - 1] = LayerBy(c, d, o)[n - 1]
  BY <1>1, <1>2, LayersStay DEF Complete
<1>4. Done(e, d, o, n)
  BY <1>1, <1>2, DoneStays DEF Complete
<1>5. Complete(e, d, o, r, n)
  BY <1>1, <1>3, <1>4 DEF Complete
<1>6. Traced(e, d, o, r)
  BY TracedStays DEF AllLayered
<1>7. QED BY <1>5, <1>6 DEF AllLayered

LEMMA NextGrows ==
  ASSUME NEW c, NEW e, NEW d \in Dir, NEW o \in Obj, NEW S \in SUBSET Obj, Grows(c, e)
  PROVE  LayerNext(c, d, o, S) \subseteq LayerNext(e, d, o, S)
<1>1. \A x \in Searched(d, S) \cup {o} : x \in Obj
  BY DEF Searched
<1>2. \A x \in Obj : Keys(c[d][x]) \subseteq Keys(e[d][x])
  <2> SUFFICES ASSUME NEW x \in Obj PROVE Keys(c[d][x]) \subseteq Keys(e[d][x])
    OBVIOUS
  <2>1. CASE c[d][x] = {}
    BY <2>1 DEF Keys
  <2>2. CASE c[d][x] # {}
    BY <2>2 DEF Grows
  <2>3. QED BY <2>1, <2>2
<1>3. QED BY <1>1, <1>2 DEF LayerNext

LEMMA InLayerStays ==
  ASSUME NEW c, NEW e, Grows(c, e), NEW q, q.dir \in Dir, q.obj \in Obj, NEW busy,
         NEW S \in SUBSET Obj, InLayer(c, q, busy, S)
  PROVE  InLayer(e, q, busy, S)
<1>1. LayerNext(c, q.dir, q.obj, S) \subseteq LayerNext(e, q.dir, q.obj, S)
  BY NextGrows
<1>2. \A x \in Searched(q.dir, S) \cup {q.obj} : x \in Obj
  BY DEF Searched
<1>3. \A x \in Obj : c[q.dir][x] # {} => e[q.dir][x] = c[q.dir][x]
  BY DEF Grows
<1>4. QED BY <1>1, <1>2, <1>3 DEF InLayer

LEMMA LayeredStays ==
  ASSUME NEW c, NEW e, Grows(c, e), NEW q, QueryOK(q), q # NoQuery, NEW busy, Layered(c, q, busy)
  PROVE  Layered(e, q, busy)
<1> DEFINE S == LayerBy(c, q.dir, q.obj)[q.iter]
<1>1. q.dir \in Dir /\ q.obj \in Obj /\ q.iter \in 0..MAX_EQV_OBJ_ITER /\ q.iter \in 0..q.iter
  BY EqvAssumption DEF QueryOK
<1>2. Keys(q.res) \subseteq Obj
  BY DEF QueryOK, QueryType, Keys, Found
<1>3. Done(c, q.dir, q.obj, q.iter) /\ InLayer(c, q, busy, S) /\ Traced(c, q.dir, q.obj, q.res)
  BY DEF Layered
<1>4. S \in SUBSET Obj
  BY <1>2, <1>3 DEF InLayer
<1>5. LayerBy(e, q.dir, q.obj)[q.iter] = S
  BY <1>1, <1>3, LayersStay
<1> HIDE DEF S
<1>6. InLayer(e, q, busy, S)
  BY <1>1, <1>3, <1>4, InLayerStays
<1>7. Done(e, q.dir, q.obj, q.iter)
  BY <1>1, <1>3, DoneStays
<1>8. Traced(e, q.dir, q.obj, q.res)
  BY <1>1, <1>3, TracedStays
<1>9. QED BY <1>5, <1>6, <1>7, <1>8 DEF Layered

----------------------------------------------------------------------------
(* The answer r for x goes into the result.                                *)

LEMMA AbsorbLayerIs ==
  ASSUME QueryOK(query), query # NoQuery, NEW x \in Keys(query.res), NEW r
  PROVE  LET q == AbsorbLayer(x, r) IN
         /\ q.dir = query.dir /\ q.obj = query.obj /\ q.new = query.new /\ q.iter = query.iter
         /\ Keys(q.res) = Keys(query.res) \cup Keys(r)
         /\ q.next = query.next \cup Searched(query.dir, Keys(r) \ Keys(query.res))
<1> DEFINE d == query.dir
           before == { z \in query.res : z[1] = x }
           fresh == { e \in r : e[1] \notin Keys(query.res) }
           more == { <<t[2][1], Joined(d, t[1][2], t[2][2])>> : t \in before \X fresh }
           q == AbsorbLayer(x, r)
<1>1. query \in QueryType
  BY DEF QueryOK
<1>2. /\ q.dir = d /\ q.obj = query.obj /\ q.new = query.new /\ q.iter = query.iter
      /\ q.res = query.res \cup more
      /\ q.next = query.next \cup { z \in Keys(fresh) : d = "forward" \/ isDummy(z) }
  BY <1>1 DEF AbsorbLayer, QueryType
<1> HIDE DEF q
<1>3. Keys(fresh) = Keys(r) \ Keys(query.res)
  BY DEF Keys
<1>4. Keys(more) = Keys(fresh)
  <2>1. PICK b \in before : TRUE
    BY DEF Keys
  <2>2. ASSUME NEW y \in Keys(fresh) PROVE y \in Keys(more)
    <3>1. PICK e \in fresh : y = e[1]
      BY DEF Keys
    <3>2. <<e[1], Joined(d, b[2], e[2])>> \in more
      <4>1. <<b, e>> \in before \X fresh /\ <<b, e>>[1] = b /\ <<b, e>>[2] = e
        OBVIOUS
      <4> HIDE DEF before, fresh
      <4>2. QED BY <4>1
    <3>3. <<e[1], Joined(d, b[2], e[2])>>[1] = y
      BY <3>1
    <3> HIDE DEF more
    <3>4. QED BY <3>2, <3>3 DEF Keys
  <2>3. ASSUME NEW y \in Keys(more) PROVE y \in Keys(fresh)
    <3>1. PICK t \in before \X fresh : y = <<t[2][1], Joined(d, t[1][2], t[2][2])>>[1]
      BY DEF Keys
    <3>2. t[2] \in fresh /\ y = t[2][1]
      BY <3>1
    <3> HIDE DEF fresh
    <3>3. QED BY <3>2 DEF Keys
  <2>4. QED BY <2>2, <2>3
<1> HIDE DEF fresh, more
<1>5. Keys(q.res) = Keys(query.res) \cup Keys(more)
  BY <1>2 DEF Keys
<1>6. { z \in Keys(fresh) : d = "forward" \/ isDummy(z) } = Searched(d, Keys(r) \ Keys(query.res))
  BY <1>3 DEF Searched
<1>7. QED BY <1>2, <1>3, <1>4, <1>5, <1>6 DEF q

----------------------------------------------------------------------------
LEMMA TracedAbsorb ==
  ASSUME QueryOK(query), query # NoQuery, NEW c,
         NEW x \in Obj, x \in Keys(query.res), x \in Searched(query.dir, Keys(query.res)) \cup {query.obj},
         NEW r, c[query.dir][x] = r, r # {}, Traced(c, query.dir, query.obj, query.res)
  PROVE  Traced(c, query.dir, query.obj, AbsorbLayer(x, r).res)
<1> DEFINE d == query.dir
           K == Keys(query.res)
           before == { z \in query.res : z[1] = x }
           fresh == { e \in r : e[1] \notin K }
           more == { <<t[2][1], Joined(d, t[1][2], t[2][2])>> : t \in before \X fresh }
           R == AbsorbLayer(x, r).res
<1>1. query \in QueryType /\ query.obj \in K
  BY DEF QueryOK, Keys
<1>2. R = query.res \cup more
  BY <1>1 DEF AbsorbLayer, QueryType
<1>3. Keys(R) = K \cup Keys(r)
  BY AbsorbLayerIs
<1> HIDE DEF R
<1>4. \A m \in more : m[1] \notin K
  <2> SUFFICES ASSUME NEW t \in before \X fresh
               PROVE  <<t[2][1], Joined(d, t[1][2], t[2][2])>>[1] \notin K
    OBVIOUS
  <2>1. t[2] \in fresh
    OBVIOUS
  <2>2. t[2][1] \notin K
    BY <2>1
  <2>3. QED BY <2>2
<1>5. \A z \in K : PathsTo(R, z) = PathsTo(query.res, z)
  <2> HIDE DEF more, K
  <2>1. QED BY <1>2, <1>4 DEF PathsTo
<1>6. ASSUME NEW y, y \notin K
      PROVE  PathsTo(R, y) = { Joined(d, t[1], t[2]) : t \in PathsTo(query.res, x) \X PathsTo(r, y) }
  <2>1. \A m \in R : m[1] = y => m \in more
    BY <1>2, <1>6 DEF Keys
  <2>2. \A m \in more : m \in R
    BY <1>2
  <2>3. ASSUME NEW p \in PathsTo(R, y)
        PROVE  p \in { Joined(d, t[1], t[2]) : t \in PathsTo(query.res, x) \X PathsTo(r, y) }
    <3>1. PICK m \in R : m[1] = y /\ p = m[2]
      BY DEF PathsTo
    <3>2. PICK t \in before \X fresh : m = <<t[2][1], Joined(d, t[1][2], t[2][2])>>
      BY <2>1, <3>1
    <3>3. t[1] \in before /\ t[2] \in fresh /\ t[2][1] = y /\ p = Joined(d, t[1][2], t[2][2])
      BY <3>1, <3>2
    <3>4. t[1][2] \in PathsTo(query.res, x)
      BY <3>3 DEF PathsTo
    <3>5. t[2][2] \in PathsTo(r, y)
      BY <3>3 DEF PathsTo
    <3> DEFINE u == <<t[1][2], t[2][2]>>
    <3>6. u \in PathsTo(query.res, x) \X PathsTo(r, y) /\ u[1] = t[1][2] /\ u[2] = t[2][2]
      BY <3>4, <3>5
    <3> HIDE DEF u
    <3>7. p = Joined(d, u[1], u[2])
      BY <3>3, <3>6
    <3>8. QED BY <3>6, <3>7
  <2>4. ASSUME NEW p \in PathsTo(query.res, x), NEW q \in PathsTo(r, y)
        PROVE  Joined(d, p, q) \in PathsTo(R, y)
    <3>1. PICK b \in before : p = b[2]
      BY DEF PathsTo
    <3>2. PICK e \in fresh : q = e[2] /\ e[1] = y
      BY <1>6 DEF PathsTo
    <3> DEFINE u == <<b, e>>
    <3>3. u \in before \X fresh /\ u[1] = b /\ u[2] = e
      OBVIOUS
    <3> HIDE DEF u
    <3>4. <<u[2][1], Joined(d, u[1][2], u[2][2])>> \in more
      BY <3>3
    <3>5. <<y, Joined(d, p, q)>> \in more
      BY <3>1, <3>2, <3>3, <3>4
    <3>6. <<y, Joined(d, p, q)>> \in R
      BY <2>2, <3>5
    <3>7. <<y, Joined(d, p, q)>>[1] = y /\ <<y, Joined(d, p, q)>>[2] = Joined(d, p, q)
      OBVIOUS
    <3>8. QED BY <3>6, <3>7 DEF PathsTo
  <2>5. \A t \in PathsTo(query.res, x) \X PathsTo(r, y) : Joined(d, t[1], t[2]) \in PathsTo(R, y)
    BY <2>4
  <2>6. QED BY <2>3, <2>5
<1> HIDE DEF d, K, more
<1>7. Searched(d, K) \subseteq Searched(d, Keys(R)) /\ Searched(d, K) \subseteq K
  BY <1>3 DEF Searched
<1>8. ASSUME NEW y \in Keys(R) \ {query.obj}
      PROVE  \E z \in Searched(d, Keys(R)) \cup {query.obj} : z \in Obj /\ TracedOver(c, d, R, z, y)
  <2>1. CASE y \in K
    <3>1. PICK z \in Searched(d, K) \cup {query.obj} : z \in Obj /\ TracedOver(c, d, query.res, z, y)
      BY <2>1 DEF Traced, d, K
    <3>2. z \in K
      BY <1>1, <1>7, <3>1
    <3>3. TracedOver(c, d, R, z, y)
      BY <1>5, <2>1, <3>1, <3>2 DEF TracedOver
    <3>4. QED BY <1>7, <3>1, <3>3
  <2>2. CASE y \notin K
    <3>1. PathsTo(R, y) = { Joined(d, t[1], t[2]) : t \in PathsTo(R, x) \X PathsTo(c[d][x], y) }
      BY <1>5, <1>6, <2>2 DEF K, d
    <3>2. TracedOver(c, d, R, x, y)
      BY <3>1 DEF TracedOver, d
    <3>3. QED BY <1>7, <3>2 DEF d, K
  <2>3. QED BY <2>1, <2>2
<1>9. Traced(c, d, query.obj, R)
  BY <1>8 DEF Traced
<1>10. QED BY <1>9 DEF R, d

LEMMA InLayerAbsorb ==
  ASSUME QueryOK(query), query # NoQuery, NEW c, NEW S, NEW busy, InLayer(c, query, busy, S),
         NEW x, x \in query.new \cup busy, x \in Keys(query.res),
         NEW r, c[query.dir][x] = r, r # {},
         NEW q, q.dir = query.dir, q.obj = query.obj, q.iter = query.iter,
         q.res = AbsorbLayer(x, r).res, q.next = AbsorbLayer(x, r).next,
         NEW left, q.new \cup left \subseteq query.new \cup busy,
         query.new \cup busy \subseteq q.new \cup left \cup {x}
  PROVE  InLayer(c, q, left, S)
<1> DEFINE d == query.dir
           o == query.obj
           K == Keys(query.res)
<1>1. Keys(q.res) = K \cup Keys(r) /\ q.next = query.next \cup Searched(d, Keys(r) \ K)
  BY AbsorbLayerIs
<1>2. /\ S \subseteq K /\ K \subseteq LayerNext(c, d, o, S)
      /\ query.new \cup busy \subseteq Searched(d, S) \cup {o}
      /\ query.next = Searched(d, K \ S)
      /\ \A z \in Searched(d, S) \cup {o} :
           z \in query.new \cup busy \/ (c[d][z] # {} /\ Keys(c[d][z]) \subseteq K)
  BY DEF InLayer
<1> HIDE DEF K, d, o
<1>3. S \subseteq Keys(q.res)
  BY <1>1, <1>2
<1>4. Keys(q.res) \subseteq LayerNext(c, d, o, S)
  <2>1. x \in Searched(d, S) \cup {o}
    BY <1>2
  <2>2. Keys(c[d][x]) \subseteq LayerNext(c, d, o, S)
    BY <2>1 DEF LayerNext
  <2>3. Keys(c[d][x]) = Keys(r)
    BY DEF d
  <2>4. QED BY <1>1, <1>2, <2>2, <2>3
<1>5. q.next = Searched(d, Keys(q.res) \ S)
  BY <1>1, <1>2 DEF Searched
<1>6. ASSUME NEW z \in Searched(d, S) \cup {o}
      PROVE  z \in q.new \cup left \/ (c[d][z] # {} /\ Keys(c[d][z]) \subseteq Keys(q.res))
  <2>1. CASE z = x
    BY <1>1, <2>1 DEF d
  <2>2. CASE z # x
    BY <1>1, <1>2, <2>2
  <2>3. QED BY <2>1, <2>2
<1>7. q.new \cup left \subseteq Searched(d, S) \cup {o}
  BY <1>2
<1>8. q.dir = d /\ q.obj = o
  BY DEF d, o
<1>9. QED BY <1>3, <1>4, <1>5, <1>6, <1>7, <1>8 DEF InLayer

(* The answer for an object of the layer is absorbed.                      *)
LEMMA LayeredAbsorb ==
  ASSUME QueryOK(query), query # NoQuery, NEW c, NEW busy, Layered(c, query, busy),
         NEW x, x \in query.new \cup busy, x \in Keys(query.res),
         NEW r, c[query.dir][x] = r, r # {},
         NEW q, q.dir = query.dir, q.obj = query.obj, q.iter = query.iter,
         q.res = AbsorbLayer(x, r).res, q.next = AbsorbLayer(x, r).next,
         NEW left, q.new \cup left \subseteq query.new \cup busy,
         query.new \cup busy \subseteq q.new \cup left \cup {x}
  PROVE  Layered(c, q, left)
<1> DEFINE S == LayerBy(c, query.dir, query.obj)[query.iter]
<1>1. InLayer(c, query, busy, S) /\ Done(c, query.dir, query.obj, query.iter)
      /\ Traced(c, query.dir, query.obj, query.res)
  BY DEF Layered
<1>2. LayerBy(c, q.dir, q.obj)[q.iter] = S
  OBVIOUS
<1> HIDE DEF S
<1>3. InLayer(c, q, left, S)
  BY <1>1, InLayerAbsorb
<1>4. x \in Obj
  BY DEF QueryOK, QueryType, Keys, Found
<1>5. x \in Searched(query.dir, Keys(query.res)) \cup {query.obj}
  BY <1>1 DEF InLayer, Searched
<1>6. Traced(c, query.dir, query.obj, AbsorbLayer(x, r).res)
  BY <1>1, <1>4, <1>5, TracedAbsorb
<1>7. QED BY <1>1, <1>2, <1>3, <1>6 DEF Layered

----------------------------------------------------------------------------
LEMMA AllStays ==
  ASSUME LInv, Grows(once, once'), all' = all
  PROVE  \A d \in Dir, o \in Obj : all'[d][o] # {} => AllLayered(once', d, o, all'[d][o])
BY AllLayeredStays DEF LInv

LEMMA GrowsSelf ==
  ASSUME NEW c
  PROVE  Grows(c, c)
BY DEF Grows

(* Steps of the calls that are pending.                                    *)
LEMMA PendingLayered ==
  ASSUME PInv, LInv, Grows(once, once'), all' = all, query' = query, Busy(stack') = Busy(stack)
  PROVE  LInv'
<1>1. query # NoQuery => Layered(once', query, Busy(stack))
  <2>1. QueryOK(query)
    BY DEF PInv, IInv
  <2>2. QED BY <2>1, LayeredStays DEF LInv
<1>2. \A d \in Dir, o \in Obj : all'[d][o] # {} => AllLayered(once', d, o, all'[d][o])
  BY AllStays
<1>3. QED BY <1>1, <1>2 DEF LInv

LEMMA AskLayered ==
  ASSUME PInv, LInv, NEW d \in Dir, NEW o \in Obj, ask(d, o)
  PROVE  LInv'
<1> DEFINE q == query'
<1>1. /\ query = NoQuery /\ once' = once /\ all' = all /\ stack' = stack
      /\ query' = [dir |-> d, obj |-> o, res |-> Itself(o), new |-> {o}, next |-> {}, iter |-> 0]
  BY DEF ask
<1>2. stack = <<>>
  BY <1>1 DEF PInv, IInv, StackOK
<1>3. q.dir = d /\ q.obj = o /\ q.res = Itself(o) /\ q.new = {o} /\ q.next = {} /\ q.iter = 0
  BY <1>1
<1> HIDE DEF q
<1>4. Keys(q.res) = {o}
  BY <1>3 DEF Keys, Itself
<1>5. LayerBy(once, d, o)[0] = {o}
  BY LayersAre
<1>6. InLayer(once, q, {}, {o})
  <2>1. {o} \subseteq LayerNext(once, d, o, {o})
    BY DEF LayerNext
  <2>2. Searched(d, {o}) \cup {o} = {o} /\ Searched(d, {o} \ {o}) = {}
    BY DEF Searched
  <2>3. QED BY <1>3, <1>4, <2>1, <2>2 DEF InLayer
<1>7. Done(once, d, o, 0)
  BY DEF Done
<1>8. Traced(once, d, o, q.res)
  BY <1>4 DEF Traced
<1>9. Layered(once, q, {})
  BY <1>3, <1>5, <1>6, <1>7, <1>8 DEF Layered
<1>10. Busy(stack') = {}
  BY <1>1, <1>2 DEF Busy
<1>11. \A x \in Dir, y \in Obj : all'[x][y] # {} => AllLayered(once', x, y, all'[x][y])
  BY <1>1 DEF LInv
<1>12. QED BY <1>1, <1>9, <1>10, <1>11 DEF LInv, q

LEMMA TakeNewLayered ==
  ASSUME PInv, LInv, NEW o, takeNew(o)
  PROVE  LInv'
<1> DEFINE d == query.dir
<1>1. stack = <<>> /\ o \in query.new /\ once' = once /\ all' = all
  BY DEF takeNew
<1>2. query # NoQuery /\ QueryOK(query) /\ query \in QueryType
  BY <1>1 DEF NoQuery, PInv, IInv, QueryOK
<1>3. o \in Keys(query.res) /\ Busy(stack) = {}
  BY <1>1, <1>2 DEF QueryOK, Busy
<1>4. Layered(once, query, {})
  BY <1>2, <1>3 DEF LInv
<1>5. \A x \in Dir, y \in Obj : all'[x][y] # {} => AllLayered(once', x, y, all'[x][y])
  BY <1>1 DEF LInv
<1>6. CASE /\ once[d][o] # {} /\ stack' = stack
           /\ query' = [AbsorbLayer(o, once[d][o]) EXCEPT !.new = @ \ {o}]
  <2> DEFINE p == AbsorbLayer(o, once[d][o])
             q == query'
  <2>1. p.dir = d /\ p.obj = query.obj /\ p.new = query.new /\ p.iter = query.iter
    BY <1>2, <1>3, AbsorbLayerIs
  <2>2. /\ q.dir = p.dir /\ q.obj = p.obj /\ q.iter = p.iter /\ q.res = p.res /\ q.next = p.next
        /\ q.new = p.new \ {o}
    <3>1. p = [query EXCEPT !.res = p.res, !.next = p.next]
      BY <1>2 DEF AbsorbLayer, QueryType
    <3>2. q = [p EXCEPT !.new = p.new \ {o}]
      BY <1>6
    <3> HIDE DEF p, q
    <3>3. QED BY <1>2, <3>1, <3>2 DEF QueryType
  <2> HIDE DEF q
  <2>3. q.new \cup {} \subseteq query.new \cup {} /\ query.new \cup {} \subseteq q.new \cup {} \cup {o}
    BY <2>1, <2>2
  <2>4. o \in query.new \cup {}
    BY <1>1
  <2>5. once[d][o] # {}
    BY <1>6
  <2>6. Layered(once, q, {})
    BY <1>2, <1>3, <1>4, <2>1, <2>2, <2>3, <2>4, <2>5, LayeredAbsorb
  <2>7. Busy(stack') = {}
    BY <1>3, <1>6
  <2>8. QED BY <1>1, <1>5, <2>6, <2>7 DEF LInv, q
<1>7. CASE stack' = <<Frame(d, o)>> /\ query' = [query EXCEPT !.new = @ \ {o}]
  <2> DEFINE q == query'
             S == LayerBy(once, d, query.obj)[query.iter]
             g == Frame(d, o)
  <2>1. /\ q.dir = d /\ q.obj = query.obj /\ q.iter = query.iter /\ q.res = query.res
        /\ q.next = query.next /\ q.new = query.new \ {o}
    BY <1>2, <1>7 DEF QueryType
  <2>2. Busy(stack') = {o}
    <3>1. g.obj = o /\ stack' = <<g>>
      BY <1>7, FrameIs
    <3> HIDE DEF g
    <3>2. QED BY <3>1 DEF Busy
  <2> HIDE DEF q
  <2>3. InLayer(once, query, {}, S) /\ Done(once, d, query.obj, query.iter)
        /\ Traced(once, d, query.obj, query.res)
    BY <1>4 DEF Layered
  <2>4. q.new \cup {o} = query.new \cup {}
    BY <1>1, <2>1
  <2> HIDE DEF S
  <2>5. InLayer(once, q, {o}, S)
    BY <2>1, <2>3, <2>4 DEF InLayer
  <2>6. Layered(once, q, {o})
    BY <2>1, <2>3, <2>5 DEF Layered, S
  <2>7. QED BY <1>1, <1>5, <2>2, <2>6 DEF LInv, q
<1>8. QED BY <1>6, <1>7 DEF takeNew

(* A layer is done: what has been found is the next one.                   *)
LEMMA LayerEnd ==
  ASSUME NEW c, NEW q, QueryOK(q), q # NoQuery, Layered(c, q, {}), q.new = {}
  PROVE  LET L == LayerBy(c, q.dir, q.obj) IN
         /\ Keys(q.res) = L[q.iter + 1]
         /\ Done(c, q.dir, q.obj, q.iter + 1)
         /\ q.next = Searched(q.dir, L[q.iter + 1] \ L[q.iter])
         /\ \A x \in Searched(q.dir, L[q.iter]) \cup {q.obj} :
              c[q.dir][x] # {} /\ Keys(c[q.dir][x]) \subseteq Keys(q.res)
<1> DEFINE L == LayerBy(c, q.dir, q.obj)
           S == L[q.iter]
           d == q.dir
           o == q.obj
<1>1. q.iter \in 0..MAX_EQV_OBJ_ITER - 1 /\ Keys(q.res) \subseteq Obj /\ o \in Obj
  BY DEF QueryOK, QueryType, Keys, Found
<1>2. L[q.iter + 1] = LayerNext(c, d, o, S)
  BY <1>1, LayersAre
<1>3. InLayer(c, q, {}, S) /\ Done(c, d, o, q.iter)
  BY DEF Layered
<1> HIDE DEF L, S
<1>4. \A x \in Searched(d, S) \cup {o} : c[d][x] # {} /\ Keys(c[d][x]) \subseteq Keys(q.res)
  BY <1>3 DEF InLayer
<1>5. LayerNext(c, d, o, S) \subseteq Keys(q.res)
  BY <1>3, <1>4 DEF InLayer, LayerNext
<1>6. Keys(q.res) = L[q.iter + 1] /\ q.next = Searched(d, L[q.iter + 1] \ S)
  BY <1>2, <1>3, <1>5 DEF InLayer
<1>7. Done(c, d, o, q.iter + 1)
  <2> DEFINE n == q.iter + 1
  <2>1. ASSUME NEW j \in 0..n - 1, NEW x \in Searched(d, LayerBy(c, d, o)[j]) \cup {o}
        PROVE  x \in Obj /\ c[d][x] # {}
    <3>1. j \in 0..q.iter - 1 \/ j = q.iter
      BY <1>1
    <3>2. CASE j \in 0..q.iter - 1
      BY <1>3, <3>2 DEF Done
    <3>3. CASE j = q.iter
      <4>1. x \in Searched(d, S) \cup {o}
        BY <3>3 DEF S, L
      <4>2. S \subseteq Obj
        BY <1>1, <1>3 DEF InLayer
      <4>3. QED BY <1>1, <1>4, <4>1, <4>2 DEF Searched
    <3>4. QED BY <3>1, <3>2, <3>3
  <2> HIDE DEF n
  <2>2. Done(c, d, o, n)
    BY <2>1 DEF Done
  <2>3. QED BY <2>2 DEF n
<1>8. QED BY <1>4, <1>6, <1>7 DEF S, L

LEMMA EndLayerLayered ==
  ASSUME PInv, LInv, endLayer
  PROVE  LInv'
<1> DEFINE d == query.dir
           o == query.obj
           R == query.res
           L == LayerBy(once, d, o)
           i == query.iter
<1>1. query # NoQuery /\ stack = <<>> /\ query.new = {} /\ once' = once /\ stack' = stack
  BY DEF endLayer
<1>2. QueryOK(query) /\ query \in QueryType /\ CachesInv
  BY DEF PInv, IInv, QueryOK
<1>3. d \in Dir /\ o \in Obj /\ i \in 0..MAX_EQV_OBJ_ITER - 1
  BY <1>1, <1>2 DEF QueryOK
<1>4. Busy(stack) = {} /\ Busy(stack') = {}
  BY <1>1 DEF Busy
<1>5. Layered(once, query, {})
  BY <1>1, <1>4 DEF LInv
<1>6. /\ Keys(R) = L[i + 1] /\ Done(once, d, o, i + 1)
      /\ query.next = Searched(d, L[i + 1] \ L[i])
      /\ \A x \in Searched(d, L[i]) \cup {o} : once[d][x] # {} /\ Keys(once[d][x]) \subseteq Keys(R)
  BY <1>1, <1>2, <1>5, LayerEnd
<1>7. Traced(once, d, o, R)
  BY <1>5 DEF Layered
<1>8. CASE /\ i + 1 >= MAX_EQV_OBJ_ITER \/ Cardinality(Keys(R)) >= MAX_EQV_OBJ_NUM \/ query.next = {}
           /\ all' = [all EXCEPT ![d][o] = R] /\ query' = NoQuery
  <2>1. i + 1 \in 1..MAX_EQV_OBJ_ITER /\ i + 1 - 1 = i /\ (i + 1 >= MAX_EQV_OBJ_ITER => i + 1 = MAX_EQV_OBJ_ITER)
    BY <1>3, EqvAssumption
  <2>2. query.next = {} => Searched(d, L[i + 1]) \subseteq L[i]
    <3> HIDE DEF L, i
    <3>1. QED BY <1>6 DEF Searched
  <2>3. Complete(once, d, o, R, i + 1)
    <3> HIDE DEF i
    <3> DEFINE n == i + 1
    <3>1. n - 1 = i /\ (n >= MAX_EQV_OBJ_ITER => n = MAX_EQV_OBJ_ITER)
      BY <1>3, EqvAssumption
    <3>2. Keys(R) = L[n] /\ Done(once, d, o, n) /\ (query.next = {} => Searched(d, L[n]) \subseteq L[n - 1])
      BY <1>6, <2>2, <3>1
    <3>3. n >= MAX_EQV_OBJ_ITER \/ Cardinality(Keys(R)) >= MAX_EQV_OBJ_NUM \/ query.next = {}
      BY <1>8
    <3> HIDE DEF R, d, o, n
    <3>4. Complete(once, d, o, R, n)
      BY <3>1, <3>2, <3>3 DEF Complete
    <3>5. QED BY <3>4 DEF n
  <2>4. AllLayered(once, d, o, R)
    BY <1>7, <2>1, <2>3 DEF AllLayered
  <2>5. \A x \in Dir, y \in Obj : all'[x][y] = IF x = d /\ y = o THEN R ELSE all[x][y]
    BY <1>2, <1>8 DEF CachesInv
  <2> HIDE DEF d, o, R
  <2>6. \A x \in Dir, y \in Obj : all'[x][y] # {} => AllLayered(once', x, y, all'[x][y])
    BY <1>1, <2>4, <2>5 DEF LInv
  <2>7. QED BY <1>8, <2>6 DEF LInv
<1>9. CASE /\ ~(i + 1 >= MAX_EQV_OBJ_ITER)
           /\ query' = [query EXCEPT !.new = query.next, !.next = {}, !.iter = @ + 1]
           /\ all' = all
  <2> DEFINE q == query'
             n == i + 1
             T == L[n]
  <2>1. /\ q.dir = d /\ q.obj = o /\ q.res = R /\ q.new = query.next /\ q.next = {} /\ q.iter = n
    BY <1>2, <1>9 DEF QueryType
  <2> HIDE DEF q, n
  <2>2. Keys(R) = T /\ Done(once, d, o, n) /\ query.next = Searched(d, T \ L[i])
    BY <1>6 DEF n
  <2> HIDE DEF T, d, o, R, L
  <2>3. InLayer(once, q, {}, T)
    <3>1. T \subseteq LayerNext(once, d, o, T)
      BY DEF LayerNext
    <3>2. Searched(d, T \ T) = {} /\ Searched(d, T \ L[i]) \subseteq Searched(d, T)
      BY DEF Searched
    <3>3. \A x \in Searched(d, T) \cup {o} :
            x \in Searched(d, T \ L[i]) \/ x \in Searched(d, L[i]) \cup {o}
      BY DEF Searched
    <3>4. \A x \in Searched(d, T) \cup {o} :
            x \in query.next \/ (once[d][x] # {} /\ Keys(once[d][x]) \subseteq Keys(R))
      BY <1>6, <2>2, <3>3
    <3>5. QED BY <2>1, <2>2, <3>1, <3>2, <3>4 DEF InLayer
  <2>4. Layered(once, q, {})
    BY <1>7, <2>1, <2>2, <2>3 DEF Layered, T, L
  <2>5. \A x \in Dir, y \in Obj : all'[x][y] # {} => AllLayered(once', x, y, all'[x][y])
    BY <1>1, <1>9 DEF LInv
  <2>6. QED BY <1>1, <1>4, <2>4, <2>5 DEF LInv, q
<1>10. QED BY <1>8, <1>9 DEF endLayer

----------------------------------------------------------------------------
(* What a search returns is cached, for the object that it was for.        *)
LEMMA ReturnGrows ==
  ASSUME PInv, return
  PROVE  /\ Grows(once, once') /\ stack # <<>>
         /\ Len(stack) = 1 => once'[query.dir][stack[1].obj] = stack[1].res
<1> DEFINE t == stack[Len(stack)]
           d == query.dir
<1>1. stack # <<>>
  BY DEF return
<1>2. /\ d \in Dir /\ t.obj \in Obj /\ Len(stack) \in 1 .. Len(stack) /\ CachesInv /\ Pending(stack)
  BY <1>1, TopIs DEF PInv, IInv
<1>3. once[d][t.obj] = {}
  BY <1>2 DEF Pending
<1>4. once' = IF MayCache(t) THEN [once EXCEPT ![d][t.obj] = t.res] ELSE once
  BY DEF return
<1>5. ASSUME once' = [once EXCEPT ![d][t.obj] = t.res]
      PROVE  Grows(once, once') /\ once'[d][t.obj] = t.res
  <2>1. \A x \in Dir, y \in Obj : once'[x][y] = IF x = d /\ y = t.obj THEN t.res ELSE once[x][y]
    BY <1>2, <1>5 DEF CachesInv
  <2> HIDE DEF d, t
  <2>2. QED BY <1>2, <1>3, <2>1 DEF Grows
<1>6. Grows(once, once')
  <2>1. CASE once' = once
    BY <2>1, GrowsSelf
  <2>2. CASE once' = [once EXCEPT ![d][t.obj] = t.res]
    BY <1>5, <2>2
  <2>3. QED BY <1>4, <2>1, <2>2
<1>7. ASSUME Len(stack) = 1 PROVE once'[d][stack[1].obj] = stack[1].res
  <2>1. MayCache(t)
    BY <1>7 DEF MayCache
  <2>2. once'[d][t.obj] = t.res
    BY <1>4, <1>5, <2>1
  <2>3. QED BY <1>7, <2>2
<1>8. QED BY <1>1, <1>6, <1>7

LEMMA ReturnLayered ==
  ASSUME PInv, LInv, return
  PROVE  LInv'
<1>1. Grows(once, once') /\ stack # <<>> /\ all' = all
  BY ReturnGrows DEF return
<1> DEFINE N == Len(stack)
<1>2. N \in Nat \ {0} /\ query # NoQuery /\ QueryOK(query) /\ StackOK(stack, query)
  BY <1>1, TopIs DEF PInv, IInv
<1>3. CASE N > 1
  <2>1. stack' # <<>> /\ stack'[1].obj = stack[1].obj
    BY <1>3, ReturnPending
  <2>2. Busy(stack') = Busy(stack)
    BY <1>1, <2>1 DEF Busy
  <2>3. query' = query
    <3>1. Len(SubSeq(stack, 1, Len(stack) - 1)) = Len(stack) - 1
      BY <1>1, <1>2, BelowIs DEF StackOK
    <3>2. N - 1 # 0
      <4> HIDE DEF N
      <4>1. QED BY <1>2, <1>3
    <3>3. QED BY <3>1, <3>2 DEF return
  <2>4. QED BY <1>1, <2>2, <2>3, PendingLayered
<1>4. CASE N = 1
  <2> DEFINE t == stack[1]
             q == query'
             p == AbsorbLayer(t.obj, t.res)
  <2>1. stack' = <<>> /\ query' = p
    <3>1. Len(SubSeq(stack, 1, Len(stack) - 1)) = 0
      BY <1>1, <1>2, <1>4, BelowIs DEF StackOK
    <3>2. QED BY <1>4, <3>1 DEF return
  <2>2. once'[query.dir][t.obj] = t.res
    BY <1>4, ReturnGrows
  <2>3. t.obj \in Keys(query.res) /\ t.res # {}
    <3>1. t = stack[Len(stack)]
      BY <1>4
    <3>2. <<t.obj, <<>>>> \in t.res
      BY <1>1, <3>1, TopIs DEF PInv, FrameOK
    <3>3. QED BY <1>1, <1>2, <3>2 DEF StackOK
  <2>4. Busy(stack) = {t.obj} /\ Busy(stack') = {}
    BY <1>1, <2>1 DEF Busy
  <2> HIDE DEF t
  <2>5. p.dir = query.dir /\ p.obj = query.obj /\ p.new = query.new /\ p.iter = query.iter
    BY <1>2, <2>3, AbsorbLayerIs
  <2>6. Layered(once', query, {t.obj})
    BY <1>1, <1>2, <2>4, LayeredStays DEF LInv
  <2>7. p.new \cup {} \subseteq query.new \cup {t.obj} /\ query.new \cup {t.obj} \subseteq p.new \cup {} \cup {t.obj}
    BY <2>5
  <2>8. t.obj \in query.new \cup {t.obj} /\ p.res = AbsorbLayer(t.obj, t.res).res
        /\ p.next = AbsorbLayer(t.obj, t.res).next
    OBVIOUS
  <2> HIDE DEF p
  <2>9. Layered(once', p, {})
    BY <1>2, <2>2, <2>3, <2>5, <2>6, <2>7, <2>8, LayeredAbsorb
  <2>10. \A x \in Dir, y \in Obj : all'[x][y] # {} => AllLayered(once', x, y, all'[x][y])
    BY <1>1, AllStays
  <2>11. QED BY <2>1, <2>4, <2>9, <2>10 DEF LInv
<1>5. N > 1 \/ N = 1
  <2> HIDE DEF N
  <2>1. QED BY <1>2
<1>6. QED BY <1>3, <1>4, <1>5

LEMMA LayeredInductive ==
  ASSUME PInv, LInv, [Next \/ Terminated]_vars
  PROVE  LInv'
<1>1. Grows(once, once)
  BY GrowsSelf
<1>2. ASSUME NEW o \in Obj, NEW via \in {"host", "from"}, stack # <<>>, Call(o, via),
             via = "host" => stack[Len(stack)].host /\ o = parent(stack[Len(stack)].obj),
             via = "from" => o \in stack[Len(stack)].from
      PROVE  LInv'
  <2>1. stack' # <<>> /\ stack'[1].obj = stack[1].obj
    BY <1>2, CallPending
  <2>2. Busy(stack') = Busy(stack)
    BY <1>2, <2>1 DEF Busy
  <2>3. once' = once /\ all' = all /\ query' = query
    BY <1>2 DEF Call
  <2>4. QED BY <1>1, <2>2, <2>3, PendingLayered
<1>3. CASE \E q \in Queries : ask(q[1], q[2])
  BY <1>3, AskLayered, EqvAssumption
<1>4. CASE \E o \in query.new : takeNew(o)
  BY <1>4, TakeNewLayered
<1>5. CASE callHost
  <2> DEFINE o == parent(stack[Len(stack)].obj)
  <2>1. stack # <<>> /\ stack[Len(stack)].host /\ Call(o, "host")
    BY <1>5 DEF callHost
  <2>2. o \in Obj
    BY <2>1, TopIs DEF FrameOK, PInv
  <2>3. o = parent(stack[Len(stack)].obj)
    OBVIOUS
  <2> HIDE DEF o
  <2>4. QED BY <1>2, <2>1, <2>2, <2>3
<1>6. CASE \E o \in Obj : callPointsFrom(o)
  <2>1. PICK o \in Obj : callPointsFrom(o)
    BY <1>6
  <2>2. stack # <<>> /\ o \in stack[Len(stack)].from /\ Call(o, "from")
    BY <2>1 DEF callPointsFrom
  <2>3. QED BY <1>2, <2>2
<1>7. CASE return
  BY <1>7, ReturnLayered
<1>8. CASE endLayer
  BY <1>8, EndLayerLayered
<1>9. CASE vars' = vars
  BY <1>9 DEF vars, LInv
<1>10. CASE Terminated
  BY <1>9, <1>10 DEF Terminated
<1>11. QED BY <1>3, <1>4, <1>5, <1>6, <1>7, <1>8, <1>9, <1>10 DEF Next

(* What getForwardEqvObjs and getBackwardEqvObjs cache are whole layers of *)
(* what the Once searches cache, up to the limits, and the paths to an     *)
(* object all lead over one object of the layers before.                   *)
THEOREM LayersKept == Spec => []AllIsLayers
<1>1. Init => LInv
  BY DEF Init, LInv
<1>2. PInv /\ LInv /\ [Next \/ Terminated]_vars => LInv'
  BY LayeredInductive
<1>3. LInv => AllIsLayers
  <2> SUFFICES ASSUME LInv, NEW d \in Dir, NEW o \in Obj, all[d][o] # {}
               PROVE  /\ \E n \in 1..MAX_EQV_OBJ_ITER :
                           /\ Keys(all[d][o]) = Layer(d, o)[n]
                           /\ \A x \in Searched(d, Layer(d, o)[n - 1]) : once[d][x] # {}
                           /\ \/ n = MAX_EQV_OBJ_ITER
                              \/ Cardinality(Keys(all[d][o])) >= MAX_EQV_OBJ_NUM
                              \/ Searched(d, Layer(d, o)[n]) \subseteq Layer(d, o)[n - 1]
                      /\ \A y \in Keys(all[d][o]) \ {o} : \E x \in Searched(d, Keys(all[d][o])) \cup {o} :
                           PathsTo(all[d][o], y) =
                             { Joined(d, t[1], t[2]) : t \in PathsTo(all[d][o], x) \X PathsTo(once[d][x], y) }
    BY DEF AllIsLayers
  <2> DEFINE r == all[d][o]
  <2>1. AllLayered(once, d, o, r)
    BY DEF LInv
  <2> HIDE DEF r
  <2>2. PICK n \in 1..MAX_EQV_OBJ_ITER : Complete(once, d, o, r, n)
    BY <2>1 DEF AllLayered
  <2>3. n - 1 \in 0..n - 1
    BY EqvAssumption
  <2>4. \A x \in Searched(d, Layer(d, o)[n - 1]) : once[d][x] # {}
    BY <2>2, <2>3, LayerIs DEF Complete, Done
  <2>5. \A y \in Keys(r) \ {o} : \E x \in Searched(d, Keys(r)) \cup {o} :
          PathsTo(r, y) = { Joined(d, t[1], t[2]) : t \in PathsTo(r, x) \X PathsTo(once[d][x], y) }
    BY <2>1 DEF AllLayered, Traced, TracedOver
  <2>6. /\ Keys(r) = Layer(d, o)[n]
        /\ \/ n = MAX_EQV_OBJ_ITER
           \/ Cardinality(Keys(r)) >= MAX_EQV_OBJ_NUM
           \/ Searched(d, Layer(d, o)[n]) \subseteq Layer(d, o)[n - 1]
    BY <2>2, LayerIs DEF Complete
  <2>7. QED BY <2>4, <2>5, <2>6 DEF r
<1>4. QED BY <1>1, <1>2, <1>3, PendingHolds, PTL DEF Spec

(* Both caches hold what a search from nothing finds, one layer and all.   *)
THEOREM CachesAreExact == NothingCutShort => (Spec => []CachesExact)
BY CachedAsFresh, LayersKept, PTL DEF CachesExact

----------------------------------------------------------------------------
(* The search forward and the search backward, which the code writes twice,*)
(* have the same answers for objects that both search to the end.          *)

(* The answers of a search from nothing are ways.                          *)
LEMMA FreshFound ==
  ASSUME NEW d \in Dir, NEW o \in Settled(d)
  PROVE  Reached(d, o, Fresh[d][o])
<1> DEFINE R == {x \in Settled(d) : ~Reached(d, x, Fresh[d][x])}
<1>1. SUFFICES ASSUME R # {} PROVE FALSE
  OBVIOUS
<1>2. PICK x \in R : Sources[d][x] \cap R = {}
  <2>1. R \in SUBSET Settled(d)
    OBVIOUS
  <2> HIDE DEF R
  <2>2. QED BY <1>1, <2>1, Topmost
<1>3. x \in Settled(d) /\ x \in Obj /\ ~Reached(d, x, Fresh[d][x])
  BY SettledIs
<1>4. \A s \in Sources[d][x] : s \in Obj /\ Reached(d, s, Fresh[d][s])
  BY <1>2, <1>3, SettledIs
<1> HIDE DEF R
<1>5. Reached(d, x, Itself(x))
  BY <1>3, ItselfReached
<1>6. Reached(d, x, FromBy(d, x, Fresh[d]))
  <2>1. \A s \in PointsFrom(d, x) : Reached(d, x, ThroughPointer(d, x, s, Fresh[d][s]))
    BY <1>3, <1>4, SourcesIs, PointerReached
  <2>2. QED BY <2>1 DEF FromBy, Reached
<1>7. Reached(d, x, HostBy(d, x, Fresh[d]))
  <2>1. CASE parent(x) = NoObj
    BY <2>1 DEF HostBy, Reached
  <2>2. CASE parent(x) # NoObj
    <3>1. parent(x) \in Obj /\ Reached(d, parent(x), Fresh[d][parent(x)])
      BY <1>3, <1>4, <2>2, SourcesIs
    <3>2. QED BY <1>3, <2>2, <3>1, HostReached DEF HostBy
  <2>3. QED BY <2>1, <2>2
<1>8. Reached(d, x, AnswerBy(d, x, Fresh[d]))
  <2>1. Reached(d, x, FromBy(d, x, Fresh[d]) \cup HostBy(d, x, Fresh[d]))
    BY <1>6, <1>7, ReachedUnion
  <2>2. Reached(d, x, {})
    BY DEF Reached
  <2>3. QED BY <1>5, <2>1, <2>2, ReachedUnion DEF AnswerBy
<1>9. QED BY <1>3, <1>8, FreshIs

(* They are pairs of an object and a path.                                 *)
LEMMA FreshPair ==
  ASSUME NEW d \in Dir, NEW o \in Settled(d), NEW t \in Fresh[d][o]
  PROVE  t[1] \in Obj /\ t = <<t[1], t[2]>>
<1>1. t \in Obj \X Path
  BY FreshFound DEF Reached, Found
<1>2. QED BY <1>1

(* An escape and a fetch, and what is between them, from both ends.        *)
Turn(x, y, s, z, e, f) ==
  /\ e \in Pto /\ e.dst = x /\ e.src = s /\ e.base
  /\ f \in Pto /\ f.dst = y /\ f.src = z /\ f.base /\ f.is_creation /\ f.field = e.field
  /\ x # y /\ SameTypes(x, y) /\ SameTypes(y, x) /\ isDummy(y)

(* Every pointer that the forward search goes through is such a turn.      *)
LEMMA TurnForward ==
  ASSUME Convertible, NEW x \in Settled("forward"), NEW y, NEW p, <<y, p>> \in FromBy("forward", x, Fresh["forward"])
  PROVE  \E s \in PointsFrom("forward", x), z \in Obj : \E q, e, f :
           Turn(x, y, s, z, e, f) /\ p = Wrap(Escape(e), q, Fetch(f)) /\ <<z, q>> \in Fresh["forward"][s]
<1> DEFINE F == Fresh["forward"]
<1>1. "forward" \in Dir /\ x \in Obj
  BY SettledIs DEF Dir
<1>2. PICK s \in PointsFrom("forward", x) : <<y, p>> \in ThroughPointer("forward", x, s, F[s])
  BY DEF FromBy
<1>3. PICK t \in Links("forward", x, s, F[s]) : y = t[3].dst /\ p = Around("forward", t)
  BY <1>2 DEF ThroughPointer
<1>4. /\ t[1] \in F[s] /\ t[2] \in EdgesTo("forward", x) /\ t[3] \in Pto /\ t[2].src = s
      /\ t[3] \in FetchEdges(t[1][1], t[2].field) /\ MayBe("forward", x, t[3].dst)
  BY <1>3 DEF Links
<1>5. s \in Settled("forward")
  BY <1>1, SourcesIs, SettledIs
<1>6. t[1][1] \in Obj /\ t[1] = <<t[1][1], t[1][2]>>
  BY <1>1, <1>4, <1>5, FreshPair
<1>7. y \in Obj
  BY <1>3, <1>4, EqvAssumption DEF Edge
<1>8. Turn(x, y, s, t[1][1], t[2], t[3])
  <2>1. t[2] \in Pto /\ t[2].dst = x /\ t[2].base
    BY <1>4 DEF EdgesTo
  <2>2. t[3].src = t[1][1] /\ t[3].field = t[2].field /\ t[3].is_creation
    BY <1>4 DEF FetchEdges
  <2>3. t[3].base
    BY <1>4 DEF Convertible
  <2>4. y # x /\ SameTypes(x, y) /\ isDummy(y)
    BY <1>3, <1>4 DEF MayBe
  <2>5. SameTypes(y, x)
    BY <1>1, <1>7, <2>4 DEF Convertible
  <2>6. QED BY <1>3, <1>4, <2>1, <2>2, <2>3, <2>4, <2>5 DEF Turn
<1>9. p = Wrap(Escape(t[2]), t[1][2], Fetch(t[3]))
  BY <1>3 DEF Around
<1>10. <<t[1][1], t[1][2]>> \in F[s]
  BY <1>4, <1>6
<1>11. QED BY <1>6, <1>8, <1>9, <1>10

(* So is every one of the backward search.                                 *)
LEMMA TurnBackward ==
  ASSUME Convertible, NEW y \in Settled("backward"), NEW x, NEW p, isDummy(y),
         <<x, p>> \in FromBy("backward", y, Fresh["backward"])
  PROVE  \E z \in PointsFrom("backward", y), s \in Obj : \E q, e, f :
           Turn(x, y, s, z, e, f) /\ p = Wrap(Escape(e), q, Fetch(f)) /\ <<s, q>> \in Fresh["backward"][z]
<1> DEFINE B == Fresh["backward"]
<1>1. "backward" \in Dir /\ y \in Obj
  BY SettledIs DEF Dir
<1>2. PICK z \in PointsFrom("backward", y) : <<x, p>> \in ThroughPointer("backward", y, z, B[z])
  BY DEF FromBy
<1>3. PICK t \in Links("backward", y, z, B[z]) : x = t[3].dst /\ p = Around("backward", t)
  BY <1>2 DEF ThroughPointer
<1>4. /\ t[1] \in B[z] /\ t[2] \in EdgesTo("backward", y) /\ t[3] \in Pto /\ t[2].src = z
      /\ t[3] \in EscapeEdges(t[1][1], t[2].field) /\ MayBe("backward", y, t[3].dst)
  BY <1>3 DEF Links
<1>5. z \in Settled("backward")
  BY <1>1, SourcesIs, SettledIs
<1>6. t[1][1] \in Obj /\ t[1] = <<t[1][1], t[1][2]>>
  BY <1>1, <1>4, <1>5, FreshPair
<1>7. x \in Obj
  BY <1>3, <1>4, EqvAssumption DEF Edge
<1>8. Turn(x, y, t[1][1], z, t[3], t[2])
  <2>1. t[2] \in Pto /\ t[2].dst = y /\ t[2].base /\ t[2].is_creation
    BY <1>4 DEF EdgesTo
  <2>2. t[3].src = t[1][1] /\ t[3].field = t[2].field
    BY <1>4 DEF EscapeEdges
  <2>3. t[3].base
    BY <1>4 DEF Convertible
  <2>4. y # x /\ SameTypes(y, x)
    BY <1>3, <1>4 DEF MayBe
  <2>5. SameTypes(x, y)
    BY <1>1, <1>7, <2>4 DEF Convertible
  <2>6. QED BY <1>3, <1>4, <2>1, <2>2, <2>3, <2>4, <2>5 DEF Turn
<1>9. p = Wrap(Escape(t[3]), t[1][2], Fetch(t[2]))
  BY <1>3 DEF Around
<1>10. <<t[1][1], t[1][2]>> \in B[z]
  BY <1>4, <1>6
<1>11. QED BY <1>6, <1>8, <1>9, <1>10

(* Each direction asks the pointer at its own end.                         *)
LEMMA TurnPoints ==
  ASSUME NEW x, NEW y, NEW s, NEW z, NEW e, NEW f, Turn(x, y, s, z, e, f)
  PROVE  s \in PointsFrom("forward", x) /\ z \in PointsFrom("backward", y)
BY DEF Turn, PointsFrom, EdgesTo

(* From the other end it is an answer as well.                             *)
LEMMA TurnFound ==
  ASSUME NEW x, NEW y, NEW s, NEW z, NEW e, NEW f, Turn(x, y, s, z, e, f), NEW q, NEW F, NEW B
  PROVE  LET p == Wrap(Escape(e), q, Fetch(f))
         IN /\ <<z, q>> \in F[s] => <<y, p>> \in FromBy("forward", x, F)
            /\ <<s, q>> \in B[z] => <<x, p>> \in FromBy("backward", y, B)
<1> DEFINE p == Wrap(Escape(e), q, Fetch(f))
<1>1. e \in EdgesTo("forward", x) /\ f \in EdgesTo("backward", y)
  BY DEF Turn, EdgesTo
<1>2. s \in PointsFrom("forward", x) /\ z \in PointsFrom("backward", y)
  BY TurnPoints
<1>3. ASSUME <<z, q>> \in F[s] PROVE <<y, p>> \in FromBy("forward", x, F)
  <2> DEFINE t == <<<<z, q>>, e, f>>
  <2>1. t[1] = <<z, q>> /\ t[1][1] = z /\ t[1][2] = q /\ t[2] = e /\ t[3] = f
    OBVIOUS
  <2>2. f \in FetchEdges(z, e.field) /\ MayBe("forward", x, f.dst)
    BY DEF Turn, FetchEdges, MayBe
  <2>3. t \in F[s] \X EdgesTo("forward", x) \X Pto
    BY <1>1, <1>3 DEF Turn
  <2>4. e.src = s /\ f.dst = y
    BY DEF Turn
  <2> HIDE DEF t
  <2>5. t \in Links("forward", x, s, F[s])
    BY <2>1, <2>2, <2>3, <2>4 DEF Links
  <2>6. Around("forward", t) = p
    BY <2>1 DEF Around
  <2>7. <<y, p>> \in ThroughPointer("forward", x, s, F[s])
    BY <2>1, <2>4, <2>5, <2>6 DEF ThroughPointer
  <2>8. QED BY <1>2, <2>7 DEF FromBy
<1>4. ASSUME <<s, q>> \in B[z] PROVE <<x, p>> \in FromBy("backward", y, B)
  <2> DEFINE t == <<<<s, q>>, f, e>>
  <2>1. t[1] = <<s, q>> /\ t[1][1] = s /\ t[1][2] = q /\ t[2] = f /\ t[3] = e
    OBVIOUS
  <2>2. e \in EscapeEdges(s, f.field) /\ MayBe("backward", y, e.dst)
    BY DEF Turn, EscapeEdges, MayBe
  <2>3. t \in B[z] \X EdgesTo("backward", y) \X Pto
    BY <1>1, <1>4 DEF Turn
  <2>4. f.src = z /\ e.dst = x
    BY DEF Turn
  <2> HIDE DEF t
  <2>5. t \in Links("backward", y, z, B[z])
    BY <2>1, <2>2, <2>3, <2>4 DEF Links
  <2>6. Around("backward", t) = p
    BY <2>1 DEF Around
  <2>7. <<x, p>> \in ThroughPointer("backward", y, z, B[z])
    BY <2>1, <2>4, <2>5, <2>6 DEF ThroughPointer
  <2>8. QED BY <1>2, <2>7 DEF FromBy
<1>5. QED BY <1>3, <1>4

(* The same for objects in hosts that may be the same.                     *)
Inside(x, y, h, g) ==
  /\ h \in Obj /\ parent(x) = h /\ getEmbObj(h, y) = x
  /\ g \in Obj /\ parent(y) = g /\ getEmbObj(g, x) = y
  /\ x # y /\ SameTypes(x, y) /\ SameTypes(y, x) /\ isDummy(y)

(* Every host that the forward search goes through is such a host.         *)
LEMMA InsideForward ==
  ASSUME Convertible, NEW x \in Settled("forward"), NEW y, NEW p, <<y, p>> \in HostBy("forward", x, Fresh["forward"])
  PROVE  \E h, g : Inside(x, y, h, g) /\ <<g, p>> \in Fresh["forward"][h]
<1> DEFINE F == Fresh["forward"]
           h == parent(x)
<1>1. "forward" \in Dir /\ x \in Obj
  BY SettledIs DEF Dir
<1>2. h # NoObj /\ <<y, p>> \in ThroughHost("forward", x, F[h])
  BY DEF HostBy
<1>3. h \in Settled("forward") /\ h \in Obj
  BY <1>1, <1>2, SourcesIs, SettledIs
<1>4. PICK t \in F[h] : /\ getEmbObj(t[1], x) # NoObj /\ MayBe("forward", x, getEmbObj(t[1], x))
                        /\ y = getEmbObj(t[1], x) /\ p = t[2]
  BY <1>2 DEF ThroughHost
<1>5. t[1] \in Obj /\ t = <<t[1], t[2]>>
  BY <1>1, <1>3, FreshPair
<1>6. y \in Obj
  BY <1>1, <1>4, <1>5, EqvAssumption
<1>7. y # x /\ SameTypes(x, y) /\ isDummy(y)
  BY <1>4 DEF MayBe
<1>8. SameTypes(y, x) /\ parent(y) = t[1] /\ getEmbObj(h, y) = x
  BY <1>1, <1>2, <1>4, <1>5, <1>6, <1>7 DEF Convertible
<1>9. Inside(x, y, h, t[1])
  BY <1>3, <1>4, <1>5, <1>7, <1>8 DEF Inside
<1>10. <<t[1], p>> \in F[h]
  BY <1>4, <1>5
<1>11. QED BY <1>9, <1>10

(* So is every one of the backward search.                                 *)
LEMMA InsideBackward ==
  ASSUME Convertible, NEW y \in Settled("backward"), NEW x, NEW p, isDummy(y),
         <<x, p>> \in HostBy("backward", y, Fresh["backward"])
  PROVE  \E h, g : Inside(x, y, h, g) /\ <<h, p>> \in Fresh["backward"][g]
<1> DEFINE B == Fresh["backward"]
           g == parent(y)
<1>1. "backward" \in Dir /\ y \in Obj
  BY SettledIs DEF Dir
<1>2. g # NoObj /\ <<x, p>> \in ThroughHost("backward", y, B[g])
  BY DEF HostBy
<1>3. g \in Settled("backward") /\ g \in Obj
  BY <1>1, <1>2, SourcesIs, SettledIs
<1>4. PICK t \in B[g] : /\ getEmbObj(t[1], y) # NoObj /\ MayBe("backward", y, getEmbObj(t[1], y))
                        /\ x = getEmbObj(t[1], y) /\ p = t[2]
  BY <1>2 DEF ThroughHost
<1>5. t[1] \in Obj /\ t = <<t[1], t[2]>>
  BY <1>1, <1>3, FreshPair
<1>6. x \in Obj
  BY <1>1, <1>4, <1>5, EqvAssumption
<1>7. y # x /\ SameTypes(y, x)
  BY <1>4 DEF MayBe
<1>8. SameTypes(x, y) /\ parent(x) = t[1] /\ getEmbObj(g, x) = y
  BY <1>1, <1>2, <1>4, <1>5, <1>6, <1>7 DEF Convertible
<1>9. Inside(x, y, t[1], g)
  BY <1>3, <1>4, <1>5, <1>7, <1>8 DEF Inside
<1>10. <<t[1], p>> \in B[g]
  BY <1>4, <1>5
<1>11. QED BY <1>9, <1>10

(* Through hosts as well, each end finds the other.                        *)
LEMMA InsideFound ==
  ASSUME NEW x, NEW y, NEW h, NEW g, Inside(x, y, h, g), NEW p, NEW F, NEW B,
         x \in Obj, y \in Obj
  PROVE  /\ <<g, p>> \in F[h] => <<y, p>> \in HostBy("forward", x, F)
         /\ <<h, p>> \in B[g] => <<x, p>> \in HostBy("backward", y, B)
<1>1. h # NoObj /\ g # NoObj /\ x # NoObj /\ y # NoObj
  BY EqvAssumption DEF Inside
<1>2. ASSUME <<g, p>> \in F[h] PROVE <<y, p>> \in HostBy("forward", x, F)
  <2> DEFINE t == <<g, p>>
  <2>1. t[1] = g /\ t[2] = p /\ t \in F[h]
    BY <1>2
  <2>2. MayBe("forward", x, y)
    BY DEF Inside, MayBe
  <2> HIDE DEF t
  <2>3. <<y, p>> \in ThroughHost("forward", x, F[h])
    BY <1>1, <2>1, <2>2 DEF ThroughHost, Inside
  <2>4. QED BY <1>1, <2>3 DEF HostBy, Inside
<1>3. ASSUME <<h, p>> \in B[g] PROVE <<x, p>> \in HostBy("backward", y, B)
  <2> DEFINE t == <<h, p>>
  <2>1. t[1] = h /\ t[2] = p /\ t \in B[g]
    BY <1>3
  <2>2. MayBe("backward", y, x)
    BY DEF Inside, MayBe
  <2> HIDE DEF t
  <2>3. <<x, p>> \in ThroughHost("backward", y, B[g])
    BY <1>1, <2>1, <2>2 DEF ThroughHost, Inside
  <2>4. QED BY <1>1, <2>3 DEF HostBy, Inside
<1>4. QED BY <1>2, <1>3

(* What is found forward from x is found backward to x: a first object of  *)
(* which it is not would be reached by way of another one.                 *)
LEMMA ForwardIsBackward ==
  ASSUME Convertible, NEW x \in Settled("forward"), NEW y \in Settled("backward"), NEW p,
         <<y, p>> \in Fresh["forward"][x]
  PROVE  <<x, p>> \in Fresh["backward"][y]
<1> DEFINE F == Fresh["forward"]
           B == Fresh["backward"]
           Odd(u, v, q) == <<v, q>> \in F[u] /\ <<u, q>> \notin B[v]
           R == {u \in Settled("forward") : \E v \in Settled("backward"), q \in Path : Odd(u, v, q)}
<1>1. "forward" \in Dir /\ "backward" \in Dir
  BY DEF Dir
<1>2. ASSUME NEW u \in Settled("forward"), Sources["forward"][u] \cap R = {},
             NEW v \in Settled("backward"), NEW q, <<v, q>> \in F[u]
      PROVE  <<u, q>> \in B[v]
  <2>1. u \in Obj /\ v \in Obj /\ F[u] = AnswerBy("forward", u, F) /\ B[v] = AnswerBy("backward", v, B)
    BY <1>1, SettledIs, FreshIs
  <2>2. ASSUME NEW a \in Sources["forward"][u], NEW b \in Sources["backward"][v], NEW w, <<b, w>> \in F[a]
        PROVE  <<a, w>> \in B[b]
    <3>1. a \in Settled("forward") /\ b \in Settled("backward") /\ a \notin R
      BY <1>1, <1>2, SettledIs
    <3>2. w \in Path
      <4>1. <<b, w>> \in Obj \X Path
        BY <1>1, <2>2, <3>1, FreshFound DEF Reached, Found
      <4>2. QED BY <4>1
    <3>3. QED BY <2>2, <3>1, <3>2
  <2> HIDE DEF F, B, R
  <2>3. CASE <<v, q>> \in Itself(u)
    <3>1. <<u, q>> \in Itself(v)
      BY <2>3 DEF Itself
    <3>2. QED BY <2>1, <3>1 DEF AnswerBy
  <2>4. CASE <<v, q>> \in FromBy("forward", u, F)
    <3>0. PICK s \in PointsFrom("forward", u), z \in Obj : \E w, e, f :
            Turn(u, v, s, z, e, f) /\ q = Wrap(Escape(e), w, Fetch(f)) /\ <<z, w>> \in F[s]
      BY <2>4, TurnForward DEF F
    <3>1. PICK w, e, f :
            Turn(u, v, s, z, e, f) /\ q = Wrap(Escape(e), w, Fetch(f)) /\ <<z, w>> \in F[s]
      BY <3>0
    <3>2. s \in Sources["forward"][u]
      BY <1>1, <2>1, SourcesIs
    <3>3. z \in Sources["backward"][v]
      <4>1. s \in PointsFrom("forward", u) /\ z \in PointsFrom("backward", v)
        BY <3>1, TurnPoints
      <4>2. QED BY <1>1, <2>1, <4>1, SourcesIs
    <3>4. <<s, w>> \in B[z]
      BY <2>2, <3>1, <3>2, <3>3
    <3>5. <<u, q>> \in FromBy("backward", v, B) /\ isDummy(v)
      BY <3>1, <3>4, TurnFound DEF Turn
    <3>6. QED BY <2>1, <3>5 DEF AnswerBy
  <2>5. CASE <<v, q>> \in HostBy("forward", u, F)
    <3>1. PICK h, g : Inside(u, v, h, g) /\ <<g, q>> \in F[h]
      BY <2>5, InsideForward DEF F
    <3>2. h # NoObj /\ g # NoObj /\ parent(u) = h /\ parent(v) = g /\ isDummy(v)
      BY <3>1, EqvAssumption DEF Inside
    <3>3. h \in Sources["forward"][u] /\ g \in Sources["backward"][v]
      BY <1>1, <2>1, <3>2, SourcesIs
    <3>4. <<h, q>> \in B[g]
      BY <2>2, <3>1, <3>3
    <3>5. <<u, q>> \in HostBy("backward", v, B)
      BY <2>1, <3>1, <3>4, InsideFound
    <3>6. QED BY <2>1, <3>2, <3>5 DEF AnswerBy
  <2>6. QED BY <1>2, <2>1, <2>3, <2>4, <2>5 DEF AnswerBy
<1>3. R = {}
  <2>1. SUFFICES ASSUME R # {} PROVE FALSE
    OBVIOUS
  <2>2. PICK u \in R : Sources["forward"][u] \cap R = {}
    <3>1. R \in SUBSET Settled("forward")
      OBVIOUS
    <3> HIDE DEF R
    <3>2. QED BY <1>1, <2>1, <3>1, Topmost
  <2>3. PICK v \in Settled("backward"), q \in Path : u \in Settled("forward") /\ <<v, q>> \in F[u] /\ <<u, q>> \notin B[v]
    OBVIOUS
  <2> HIDE DEF R, F, B
  <2>4. QED BY <1>2, <2>2, <2>3
<1>4. Sources["forward"][x] \cap R = {}
  BY <1>3
<1> HIDE DEF R
<1>5. QED BY <1>2, <1>4

(* And the other way round.                                                *)
LEMMA BackwardIsForward ==
  ASSUME Convertible, NEW x \in Settled("forward"), NEW y \in Settled("backward"), NEW p,
         <<x, p>> \in Fresh["backward"][y]
  PROVE  <<y, p>> \in Fresh["forward"][x]
<1> DEFINE F == Fresh["forward"]
           B == Fresh["backward"]
           Odd(u, v, q) == <<u, q>> \in B[v] /\ <<v, q>> \notin F[u]
           R == {v \in Settled("backward") : \E u \in Settled("forward"), q \in Path : Odd(u, v, q)}
<1>1. "forward" \in Dir /\ "backward" \in Dir
  BY DEF Dir
<1>2. ASSUME NEW v \in Settled("backward"), Sources["backward"][v] \cap R = {},
             NEW u \in Settled("forward"), NEW q, <<u, q>> \in B[v]
      PROVE  <<v, q>> \in F[u]
  <2>1. u \in Obj /\ v \in Obj /\ F[u] = AnswerBy("forward", u, F) /\ B[v] = AnswerBy("backward", v, B)
    BY <1>1, SettledIs, FreshIs
  <2>2. ASSUME NEW b \in Sources["backward"][v], NEW a \in Sources["forward"][u], NEW w, <<a, w>> \in B[b]
        PROVE  <<b, w>> \in F[a]
    <3>1. a \in Settled("forward") /\ b \in Settled("backward") /\ b \notin R
      BY <1>1, <1>2, SettledIs
    <3>2. w \in Path
      <4>1. <<a, w>> \in Obj \X Path
        BY <1>1, <2>2, <3>1, FreshFound DEF Reached, Found
      <4>2. QED BY <4>1
    <3>3. QED BY <2>2, <3>1, <3>2
  <2> HIDE DEF F, B, R
  <2>3. CASE <<u, q>> \in Itself(v)
    <3>1. <<v, q>> \in Itself(u)
      BY <2>3 DEF Itself
    <3>2. QED BY <2>1, <3>1 DEF AnswerBy
  <2>4. CASE isDummy(v) /\ <<u, q>> \in FromBy("backward", v, B)
    <3>0. PICK z \in PointsFrom("backward", v), s \in Obj : \E w, e, f :
            Turn(u, v, s, z, e, f) /\ q = Wrap(Escape(e), w, Fetch(f)) /\ <<s, w>> \in B[z]
      BY <2>4, TurnBackward DEF B
    <3>1. PICK w, e, f :
            Turn(u, v, s, z, e, f) /\ q = Wrap(Escape(e), w, Fetch(f)) /\ <<s, w>> \in B[z]
      BY <3>0
    <3>2. z \in Sources["backward"][v]
      BY <1>1, <2>1, SourcesIs
    <3>3. s \in Sources["forward"][u]
      <4>1. s \in PointsFrom("forward", u) /\ z \in PointsFrom("backward", v)
        BY <3>1, TurnPoints
      <4>2. QED BY <1>1, <2>1, <4>1, SourcesIs
    <3>4. <<z, w>> \in F[s]
      BY <2>2, <3>1, <3>2, <3>3
    <3>5. <<v, q>> \in FromBy("forward", u, F)
      BY <3>1, <3>4, TurnFound
    <3>6. QED BY <2>1, <3>5 DEF AnswerBy
  <2>5. CASE isDummy(v) /\ <<u, q>> \in HostBy("backward", v, B)
    <3>1. PICK h, g : Inside(u, v, h, g) /\ <<h, q>> \in B[g]
      BY <2>5, InsideBackward DEF B
    <3>2. h # NoObj /\ g # NoObj /\ parent(u) = h /\ parent(v) = g
      BY <3>1, EqvAssumption DEF Inside
    <3>3. h \in Sources["forward"][u] /\ g \in Sources["backward"][v]
      BY <1>1, <2>1, <3>2, SourcesIs
    <3>4. <<g, q>> \in F[h]
      BY <2>2, <3>1, <3>3
    <3>5. <<v, q>> \in HostBy("forward", u, F)
      BY <2>1, <3>1, <3>4, InsideFound
    <3>6. QED BY <2>1, <3>5 DEF AnswerBy
  <2>6. QED BY <1>2, <2>1, <2>3, <2>4, <2>5 DEF AnswerBy
<1>3. R = {}
  <2>1. SUFFICES ASSUME R # {} PROVE FALSE
    OBVIOUS
  <2>2. PICK v \in R : Sources["backward"][v] \cap R = {}
    <3>1. R \in SUBSET Settled("backward")
      OBVIOUS
    <3> HIDE DEF R
    <3>2. QED BY <1>1, <2>1, <3>1, Topmost
  <2>3. PICK u \in Settled("forward"), q \in Path : v \in Settled("backward") /\ <<u, q>> \in B[v] /\ <<v, q>> \notin F[u]
    OBVIOUS
  <2> HIDE DEF R, F, B
  <2>4. QED BY <1>2, <2>2, <2>3
<1>4. Sources["backward"][y] \cap R = {}
  BY <1>3
<1> HIDE DEF R
<1>5. QED BY <1>2, <1>4

(* The answers of both directions, where they are cached.                  *)
LEMMA SettledAgree ==
  ASSUME Convertible, AsFresh, NEW x \in Settled("forward"), NEW y \in Settled("backward")
  PROVE  Agree(x, y)
<1> DEFINE F == once["forward"][x]
           B == once["backward"][y]
<1>1. SUFFICES ASSUME F # {}, B # {} PROVE PathsTo(F, y) = PathsTo(B, x)
  BY DEF Agree
<1>2. "forward" \in Dir /\ "backward" \in Dir
  BY DEF Dir
<1>3. F = Fresh["forward"][x] /\ B = Fresh["backward"][y]
  BY <1>1, <1>2, FreshDomain DEF AsFresh
<1>4. /\ \A t \in F : t = <<t[1], t[2]>>
      /\ \A t \in B : t = <<t[1], t[2]>>
  BY <1>2, <1>3, FreshPair
<1>5. \A p : <<y, p>> \in F <=> <<x, p>> \in B
  BY <1>3, ForwardIsBackward, BackwardIsForward
<1> HIDE DEF F, B
<1>6. PathsTo(F, y) = {t[2] : t \in {u \in F : u[1] = y}}
  BY DEF PathsTo
<1>7. PathsTo(B, x) = {t[2] : t \in {u \in B : u[1] = x}}
  BY DEF PathsTo
<1>8. \A p : p \in PathsTo(F, y) <=> <<y, p>> \in F
  BY <1>4, <1>6
<1>9. \A p : p \in PathsTo(B, x) <=> <<x, p>> \in B
  BY <1>4, <1>7
<1>10. QED BY <1>5, <1>8, <1>9

(* Whatever was searched before, the caches of getForwardEqvObjsOnce and of*)
(* getBackwardEqvObjsOnce agree about two objects that can be searched to  *)
(* the end, path for path.                                                 *)
THEOREM SettledConverse ==
  NothingCutShort /\ Convertible =>
    (Spec => [](\A x \in Settled("forward"), y \in Settled("backward") : Agree(x, y)))
<1> SUFFICES ASSUME NothingCutShort, Convertible
             PROVE  Spec => [](\A x \in Settled("forward"), y \in Settled("backward") : Agree(x, y))
  OBVIOUS
<1>1. AsFresh => \A x \in Settled("forward"), y \in Settled("backward") : Agree(x, y)
  BY SettledAgree
<1>2. QED BY <1>1, CachedAsFresh, PTL

(* If all objects can be searched to the end, they agree about all.        *)
THEOREM SearchesConverse ==
  NothingCutShort /\ Convertible /\ (\A d \in Dir : Settled(d) = Obj) => (Spec => []Converse)
<1> SUFFICES ASSUME NothingCutShort, Convertible, \A d \in Dir : Settled(d) = Obj
             PROVE  Spec => []Converse
  OBVIOUS
<1>1. AsFresh => Converse
  <2>1. Settled("forward") = Obj /\ Settled("backward") = Obj
    BY DEF Dir
  <2>2. QED BY <2>1, SettledAgree DEF Converse
<1>2. QED BY <1>1, CachedAsFresh, PTL
=============================================================================
