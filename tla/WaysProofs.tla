----------------------------- MODULE WaysProofs -----------------------------
(***************************************************************************)
(* Control flow, for every program: what the searches through blocks       *)
(* answer, that the critical branches are those that decide, that the      *)
(* queries across functions are right about the ways through the program   *)
(* with all calls expanded, and that the order in which the blocks of a    *)
(* function are analysed is one that leads.                                *)
(*                                                                         *)
(* What is reached is the least set that is closed under what comes next:  *)
(* instead of following a path, a proof names a closed set.                *)
(***************************************************************************)
EXTENDS Ways, BlockOrder, TLAPS, WellFoundedInduction, FiniteSetTheorems, SequenceTheorems

----------------------------------------------------------------------------
(* Searches.                                                               *)

LEMMA LeastSubset ==
  ASSUME NEW S, IsFiniteSet(S), NEW F \in SUBSET SUBSET S, F # {}
  PROVE  \E x \in F : \A y \in F : y \subseteq x => y = x
<1>1. IsWellFoundedOn(StrictSubsetOrdering(S), SUBSET S)
  BY FS_StrictSubsetOrderingWellFounded, FS_FiniteSubsetsOfFinite
<1>2. PICK x \in F : \A y \in F : ~(<<y, x>> \in StrictSubsetOrdering(S))
  BY <1>1, WFMin
<1>3. \A y \in F : y \subseteq x => y = x
  BY <1>2 DEF StrictSubsetOrdering
<1>4. QED BY <1>3

LEMMA GreatestSubset ==
  ASSUME NEW S, IsFiniteSet(S), NEW F \in SUBSET SUBSET S, F # {}
  PROVE  \E x \in F : \A y \in F : x \subseteq y => y = x
<1> DEFINE G == {S \ x : x \in F}
<1>1. G \in SUBSET SUBSET S /\ G # {}
  <2>1. \A z \in G : z \in SUBSET S
    OBVIOUS
  <2>2. PICK x \in F : TRUE
    OBVIOUS
  <2>3. S \ x \in G
    BY <2>2
  <2>4. QED BY <2>1, <2>3
<1>2. PICK z \in G : \A y \in G : y \subseteq z => y = z
  <2> HIDE DEF G
  <2>1. QED BY <1>1, LeastSubset
<1>3. PICK x \in F : z = S \ x
  BY <1>2
<1>4. ASSUME NEW y \in F, x \subseteq y PROVE y = x
  <2>1. S \ y \in G /\ S \ y \subseteq z
    BY <1>3, <1>4
  <2>2. S \ y = S \ x
    BY <2>1, <1>2, <1>3
  <2>3. QED BY <2>2
<1>5. QED BY <1>4

Closed(next, C) == \A x \in C : next[x] \subseteq C

(* A search finds the least closed set around the nodes it starts from.    *)
LEMMA ReachedIs ==
  ASSUME NEW next, IsFiniteSet(DOMAIN next),
         \A x \in DOMAIN next : next[x] \subseteq DOMAIN next,
         NEW W \in SUBSET DOMAIN next
  PROVE  /\ Reached(next)[W] \in SUBSET DOMAIN next
         /\ W \subseteq Reached(next)[W]
         /\ Closed(next, Reached(next)[W])
         /\ \A C \in SUBSET DOMAIN next :
              W \subseteq C /\ Closed(next, C) => Reached(next)[W] \subseteq C
<1> DEFINE D == DOMAIN next
           Step(S) == S \cup UNION {next[x] : x \in S}
           Eq(r) == r = [S \in SUBSET D |-> IF Step(S) = S THEN S ELSE r[Step(S)]]
           Around(S) == {C \in SUBSET D : S \subseteq C /\ Closed(next, C)}
           g == [S \in SUBSET D |-> {y \in D : \A C \in Around(S) : y \in C}]
           r == Reached(next)
<1>1. \A S \in SUBSET D : Step(S) \in SUBSET D /\ S \subseteq Step(S)
  OBVIOUS
<1>2. \A C \in SUBSET D : Closed(next, C) <=> Step(C) = C
  BY DEF Closed
<1>3. \A S \in SUBSET D : Around(Step(S)) = Around(S)
  BY <1>1 DEF Closed
<1>4. Eq(g)
  <2>1. ASSUME NEW S \in SUBSET D PROVE g[S] = IF Step(S) = S THEN S ELSE g[Step(S)]
    <3>1. CASE Step(S) = S
      <4>1. S \in Around(S)
        BY <3>1, <1>2
      <4>2. QED BY <4>1, <3>1
    <3>2. CASE Step(S) # S
      <4>1. g[Step(S)] = g[S]
        BY <1>1, <1>3
      <4>2. QED BY <4>1, <3>2
    <3>3. QED BY <3>1, <3>2
  <2>2. QED BY <2>1
<1>5. r = CHOOSE h : Eq(h)
  BY DEF Reached
<1>6. Eq(r)
  <2> HIDE DEF Eq, g, r
  <2>1. QED BY <1>4, <1>5
<1>7. r = g
  <2> DEFINE Bad == {S \in SUBSET D : r[S] # g[S]}
  <2>1. ASSUME Bad # {} PROVE FALSE
    <3>1. Bad \in SUBSET SUBSET D
      OBVIOUS
    <3>2. PICK S \in Bad : \A T \in Bad : S \subseteq T => T = S
      <4> HIDE DEF Bad
      <4>1. QED BY <2>1, <3>1, GreatestSubset
    <3>3. Step(S) \in SUBSET D /\ S \subseteq Step(S)
      BY <1>1
    <3>4. r[S] = (IF Step(S) = S THEN S ELSE r[Step(S)]) /\ g[S] = (IF Step(S) = S THEN S ELSE g[Step(S)])
      BY <1>4, <1>6
    <3>5. CASE Step(S) = S
      BY <3>4, <3>5
    <3>6. CASE Step(S) # S
      <4>1. r[Step(S)] = g[Step(S)]
        BY <3>2, <3>3, <3>6
      <4>2. QED BY <4>1, <3>4, <3>6
    <3>7. QED BY <3>5, <3>6
  <2>2. DOMAIN r = SUBSET D /\ DOMAIN g = SUBSET D
    BY <1>6
  <2>3. \A S \in SUBSET D : r[S] = g[S]
    BY <2>1
  <2>4. r = [S \in SUBSET D |-> r[S]] /\ g = [S \in SUBSET D |-> g[S]]
    BY <1>6
  <2>5. QED BY <2>2, <2>3, <2>4
<1>8. r[W] = {y \in D : \A C \in Around(W) : y \in C}
  BY <1>7
<1>9. Closed(next, r[W])
  BY <1>8 DEF Closed
<1>10. QED BY <1>8, <1>9

LEMMA SuccIs ==
  ASSUME NEW b \in Block
  PROVE  /\ ToSet(succ[b]) \in SUBSET Block /\ IsFiniteSet(ToSet(succ[b]))
         /\ host[b] \in DOMAIN entryBB /\ entryBB[host[b]] \in Block
         /\ host[entryBB[host[b]]] = host[b]
         /\ \A s \in ToSet(succ[b]) : host[s] = host[b]
<1>1. succ[b] \in Seq(Block)
  BY FlowAssumption
<1>2. ToSet(succ[b]) \in SUBSET Block
  BY <1>1 DEF ToSet
<1>3. IsFiniteSet(ToSet(succ[b]))
  BY <1>2, FlowAssumption, FS_Subset
<1>4. QED BY <1>2, <1>3, FlowAssumption

(* A search through blocks.                                                *)
LEMMA VisitedIs ==
  ASSUME NEW W \in SUBSET Block, NEW D
  PROVE  /\ Visited(W, D) \in SUBSET Block
         /\ W \subseteq Visited(W, D)
         /\ \A x \in Visited(W, D) \ D : ToSet(succ[x]) \subseteq Visited(W, D)
         /\ \A C \in SUBSET Block :
              W \subseteq C /\ (\A x \in C \ D : ToSet(succ[x]) \subseteq C) => Visited(W, D) \subseteq C
<1> DEFINE next == [b \in Block |-> IF b \in D THEN {} ELSE ToSet(succ[b])]
           V == Reached(next)[W]
<1>1. IsFiniteSet(DOMAIN next) /\ DOMAIN next = Block
  BY FlowAssumption
<1>2. \A x \in Block : ToSet(succ[x]) \subseteq Block
  BY SuccIs
<1>3. \A x \in DOMAIN next : next[x] \subseteq DOMAIN next
  BY <1>1, <1>2
<1>4. /\ V \in SUBSET Block /\ W \subseteq V /\ Closed(next, V)
      /\ \A C \in SUBSET Block : W \subseteq C /\ Closed(next, C) => V \subseteq C
  <2> HIDE DEF next
  <2>1. QED BY <1>1, <1>3, ReachedIs
<1>5. Visited(W, D) = V
  BY DEF Visited
<1>6. \A C \in SUBSET Block : Closed(next, C) <=> \A x \in C \ D : ToSet(succ[x]) \subseteq C
  BY DEF Closed
<1> HIDE DEF V, next
<1>7. QED BY <1>4, <1>5, <1>6

(* A search without one branch.                                            *)
Onward(d, s, x) == IF x = d THEN ToSet(succ[x]) \ {s} ELSE ToSet(succ[x])

LEMMA WithoutIs ==
  ASSUME NEW d \in Block, NEW s \in Block, NEW W \in SUBSET Block
  PROVE  /\ Without(d, s)[W] \in SUBSET Block
         /\ W \subseteq Without(d, s)[W]
         /\ \A x \in Without(d, s)[W] :
              Onward(d, s, x) \subseteq Without(d, s)[W]
         /\ \A C \in SUBSET Block :
              /\ W \subseteq C
              /\ \A x \in C : Onward(d, s, x) \subseteq C
              => Without(d, s)[W] \subseteq C
<1> DEFINE next == [b \in Block |-> IF b = d THEN ToSet(succ[b]) \ {s} ELSE ToSet(succ[b])]
           V == Reached(next)[W]
<1>1. IsFiniteSet(DOMAIN next) /\ DOMAIN next = Block
  BY FlowAssumption
<1>2. \A x \in Block : ToSet(succ[x]) \subseteq Block
  BY SuccIs
<1>3. \A x \in DOMAIN next : next[x] \subseteq DOMAIN next
  BY <1>1, <1>2
<1>4. /\ V \in SUBSET Block /\ W \subseteq V /\ Closed(next, V)
      /\ \A C \in SUBSET Block : W \subseteq C /\ Closed(next, C) => V \subseteq C
  <2> HIDE DEF next
  <2>1. QED BY <1>1, <1>3, ReachedIs
<1>5. Without(d, s)[W] = V
  BY DEF Without
<1>6. \A C \in SUBSET Block : Closed(next, C) <=>
        \A x \in C : Onward(d, s, x) \subseteq C
  BY DEF Closed, Onward
<1> HIDE DEF V, next
<1>7. QED BY <1>4, <1>5, <1>6

(* A search does not leave its function.                                   *)
LEMMA VisitedHost ==
  ASSUME NEW f, NEW W \in SUBSET Block, \A x \in W : host[x] = f, NEW D
  PROVE  \A x \in Visited(W, D) : host[x] = f
<1> DEFINE C == {x \in Block : host[x] = f}
<1>1. W \subseteq C /\ \A x \in C \ D : ToSet(succ[x]) \subseteq C
  BY SuccIs
<1>2. C \in SUBSET Block
  OBVIOUS
<1>3. Visited(W, D) \subseteq C
  <2> HIDE DEF C
  <2>1. QED BY <1>1, <1>2, VisitedIs
<1>4. QED BY <1>3

(* What comes after a block that a search comes to, the search comes to.   *)
LEMMA VisitedOn ==
  ASSUME NEW x \in Block, NEW y \in Block, NEW D, x \notin D, y \in ToSet(succ[x])
  PROVE  Visited({y}, D) \subseteq Visited({x}, D)
<1>1. /\ {x} \in SUBSET Block /\ {y} \in SUBSET Block
      /\ Visited({x}, D) \in SUBSET Block /\ x \in Visited({x}, D)
      /\ \A z \in Visited({x}, D) \ D : ToSet(succ[z]) \subseteq Visited({x}, D)
  BY VisitedIs
<1>2. {y} \subseteq Visited({x}, D)
  BY <1>1
<1>3. QED BY <1>1, <1>2, VisitedIs

(* It comes to nothing but the block itself and what its successors lead to. *)
LEMMA VisitedStep ==
  ASSUME NEW o \in Block, NEW D
  PROVE  Visited({o}, D) \subseteq {o} \cup Visited(ToSet(succ[o]), D)
<1> DEFINE V == Visited(ToSet(succ[o]), D)
           C == {o} \cup V
<1>1. ToSet(succ[o]) \in SUBSET Block
  BY SuccIs
<1>2. V \in SUBSET Block /\ ToSet(succ[o]) \subseteq V
      /\ \A x \in V \ D : ToSet(succ[x]) \subseteq V
  BY <1>1, VisitedIs
<1>3. C \in SUBSET Block /\ {o} \subseteq C /\ \A x \in C \ D : ToSet(succ[x]) \subseteq C
  BY <1>2
<1>4. {o} \in SUBSET Block
  OBVIOUS
<1> HIDE DEF C
<1>5. Visited({o}, D) \subseteq C
  BY <1>3, <1>4, VisitedIs
<1>6. QED BY <1>5 DEF C

----------------------------------------------------------------------------
(* The critical branches.                                                  *)

(* One successor leads to another one, other than by the branch, just if a *)
(* search that ends in the branching block says so.                        *)
LEMMA LeadsTo ==
  ASSUME NEW d \in Block, NEW s \in Block \ {d}, NEW o \in Block \ {d, s}, host[o] = host[s]
  PROVE  isPotentiallyReachable(First(o), First(s), {First(d)}) <=> s \in Visited(ToSet(succ[o]), {d})
<1> DEFINE A == <<o, 1>>
           B == <<s, 1>>
           I == <<d, 1>>
<1>1. A # None /\ B # None /\ A # I /\ A[1] = o /\ B[1] = s /\ I[1] = d /\ A[2] = 1 /\ B[2] = 1
  BY DEF None
<1>2. isPotentiallyReachable(A, B, {I}) <=> host[A[1]] = host[B[1]] /\ Between(A, B, {I})
  BY <1>1 DEF isPotentiallyReachable, getFunction
<1>3. ~isReachableInBB(A, B) /\ getParent(A) # getParent(B)
  BY <1>1 DEF isReachableInBB, getParent
<1>4. Ahead(A, {I}) = {} /\ ~Shut(B, {I})
  BY <1>1 DEF Ahead, Shut, isReachableInBB, getParent
<1>5. Between(A, B, {I}) <=> isPotentiallyReachableFromMany(ToSet(succ[o]), B, {I})
  BY <1>1, <1>3, <1>4 DEF Between, getParent
<1>6. {getParent(i) : i \in {I}} = {d}
  BY <1>1 DEF getParent
<1>7. isPotentiallyReachableFromMany(ToSet(succ[o]), B, {I}) <=> s \in Visited(ToSet(succ[o]), {d})
  BY <1>1, <1>6 DEF isPotentiallyReachableFromMany, getParent
<1>8. QED BY <1>1, <1>2, <1>5, <1>7 DEF First

(* The branch from d to s as getCriticalBranches judges it.                *)
Critical(d, s, b) ==
  /\ d \in getDominators(b) /\ s \in getDominators(b) \cup {b}
  /\ s \in ToSet(succ[d]) \ {d} /\ d \in getDominators(s)
  /\ Cardinality(ToSet(succ[d])) > 1
  /\ \A o \in ToSet(succ[d]) \ {s, d} : s \notin Visited(ToSet(succ[o]), {d})

LEMMA CriticalIs ==
  ASSUME NEW b \in Block
  PROVE  getCriticalBranches(b) = {p \in Block \X Block : Critical(p[1], p[2], b)}
<1>1. getDominators(b) \in SUBSET Block
  BY DEF getDominators
<1>2. ASSUME NEW d \in Block, NEW s \in Block
      PROVE  (\E e \in getCondCoverMap(d) : e[1] = s /\ Cardinality(e[2]) = 1)
                <=> /\ s \in ToSet(succ[d]) \ {d} /\ d \in getDominators(s)
                    /\ Cardinality(ToSet(succ[d])) > 1
                    /\ \A o \in ToSet(succ[d]) \ {s, d} : s \notin Visited(ToSet(succ[o]), {d})
  <2> DEFINE L == Leading(d, s)
  <2>1. (\E e \in getCondCoverMap(d) : e[1] = s /\ Cardinality(e[2]) = 1)
           <=> /\ s \in ToSet(succ[d]) \ {d} /\ d \in getDominators(s)
               /\ Cardinality(L) < Cardinality(ToSet(succ[d])) /\ Cardinality(L) = 1
    <3>1. \A e : e \in getCondCoverMap(d) <=>
            \E t \in ToSet(succ[d]) \ {d} :
              /\ d \in getDominators(t) /\ e = <<t, Leading(d, t)>>
              /\ Cardinality(e[2]) < Cardinality(ToSet(succ[d]))
      BY DEF getCondCoverMap
    <3>2. ASSUME NEW e \in getCondCoverMap(d), e[1] = s, Cardinality(e[2]) = 1
          PROVE  /\ s \in ToSet(succ[d]) \ {d} /\ d \in getDominators(s)
                 /\ Cardinality(L) < Cardinality(ToSet(succ[d])) /\ Cardinality(L) = 1
      <4>1. PICK t \in ToSet(succ[d]) \ {d} :
              /\ d \in getDominators(t) /\ e = <<t, Leading(d, t)>>
              /\ Cardinality(e[2]) < Cardinality(ToSet(succ[d]))
        BY <3>1
      <4>2. t = s /\ e[2] = L
        BY <4>1, <3>2
      <4>3. QED BY <4>1, <4>2, <3>2
    <3>3. ASSUME s \in ToSet(succ[d]) \ {d}, d \in getDominators(s),
                 Cardinality(L) < Cardinality(ToSet(succ[d])), Cardinality(L) = 1
          PROVE  \E e \in getCondCoverMap(d) : e[1] = s /\ Cardinality(e[2]) = 1
      <4> DEFINE e == <<s, L>>
      <4>1. e[1] = s /\ e[2] = L
        OBVIOUS
      <4>2. e \in getCondCoverMap(d)
        BY <3>1, <3>3, <4>1
      <4>3. QED BY <4>1, <4>2, <3>3
    <3>4. QED BY <3>2, <3>3
  <2>2. ASSUME s \in ToSet(succ[d]) \ {d}
        PROVE  L = {s} \cup {o \in ToSet(succ[d]) \ {s, d} : s \in Visited(ToSet(succ[o]), {d})}
    <3>1. \A o \in ToSet(succ[d]) : o \in Block /\ host[o] = host[s]
      BY <2>2, SuccIs
    <3>2. \A o \in ToSet(succ[d]) \ {s, d} :
            isPotentiallyReachable(First(o), First(s), {First(d)}) <=> s \in Visited(ToSet(succ[o]), {d})
      BY <2>2, <3>1, LeadsTo
    <3>3. QED BY <3>2 DEF Leading
  <2>3. ASSUME s \in ToSet(succ[d]) \ {d}
        PROVE  /\ Cardinality(ToSet(succ[d])) \in Nat
               /\ Cardinality(L) = 1 <=> \A o \in ToSet(succ[d]) \ {s, d} : s \notin Visited(ToSet(succ[o]), {d})
    <3>1. L \subseteq ToSet(succ[d]) /\ s \in L
      BY <2>2, <2>3
    <3>2. IsFiniteSet(L) /\ Cardinality(ToSet(succ[d])) \in Nat
      BY <3>1, SuccIs, FS_Subset, FS_CardinalityType
    <3>3. Cardinality(L) = 1 <=> L = {s}
      <4>1. Cardinality({s}) = 1
        BY FS_Singleton
      <4>2. ASSUME Cardinality(L) = 1 PROVE L = {s}
        BY <3>1, <3>2, <4>1, <4>2, FS_Subset
      <4>3. QED BY <4>1, <4>2
    <3>4. L = {s} <=> \A o \in ToSet(succ[d]) \ {s, d} : s \notin Visited(ToSet(succ[o]), {d})
      BY <2>2, <2>3
    <3>5. QED BY <3>2, <3>3, <3>4
  <2> HIDE DEF L
  <2>4. QED BY <2>1, <2>3
<1>3. ASSUME NEW p \in Block \X Block
      PROVE  p \in getCriticalBranches(b) <=> Critical(p[1], p[2], b)
  <2>1. p[1] \in Block /\ p[2] \in Block /\ p = <<p[1], p[2]>>
    OBVIOUS
  <2>2. p \in getCriticalBranches(b) <=>
          /\ p[1] \in getDominators(b) /\ p[2] \in getDominators(b) \cup {b}
          /\ \E e \in getCondCoverMap(p[1]) : e[1] = p[2] /\ Cardinality(e[2]) = 1
    BY <2>1 DEF getCriticalBranches
  <2>3. QED BY <2>1, <2>2, <1>2 DEF Critical
<1>4. getCriticalBranches(b) \subseteq Block \X Block
  BY <1>1 DEF getCriticalBranches
<1>5. QED BY <1>3, <1>4

(* A branch that is critical is on every path to b: without it a search    *)
(* stays where nothing leads to s and nothing passes s.                    *)
LEMMA CriticalDecides ==
  ASSUME NEW f \in DOMAIN entryBB, NEW b \in Block, host[b] = f,
         NEW d \in Block, NEW s \in Block, Critical(d, s, b)
  PROVE  b \notin Without(d, s)[{entryBB[f]}]
<1> DEFINE e == entryBB[f]
           P == {y \in Block : s \in Visited({y}, {d})}
           C == (Block \ P) \cup {d}
           R == Without(d, s)[{e}]
           V == Visited({e} \ {s}, {s})
<1>1. e \in Block /\ {e} \in SUBSET Block /\ {e} \ {s} \in SUBSET Block /\ host[e] = f
  BY FlowAssumption
<1>2. /\ host[d] = f /\ d # b /\ s # d /\ host[s] = f
      /\ s \in getDominators(b) \cup {b}
      /\ d \in getDominators(s)
      /\ \A o \in ToSet(succ[d]) \ {s, d} : s \notin Visited(ToSet(succ[o]), {d})
  BY SuccIs DEF Critical, getDominators
<1>3. s \notin C
  <2>1. s \in Visited({s}, {d})
    BY VisitedIs
  <2>2. QED BY <2>1, <1>2
<1>4. e \in C
  <2>1. CASE e = d
    BY <2>1
  <2>2. CASE e # d
    <3>1. s \notin Visited({entryBB[host[s]]} \ {d}, {d})
      BY <1>2 DEF getDominators, Dominates
    <3>2. {entryBB[host[s]]} \ {d} = {e}
      BY <2>2, <1>2
    <3>3. e \notin P
      BY <3>1, <3>2
    <3>4. QED BY <3>3, <1>1
  <2>3. QED BY <2>1, <2>2
<1>5. ASSUME NEW x \in C, NEW y \in ToSet(succ[x]), x = d => y # s
      PROVE  y \in C
  <2>1. x \in Block /\ y \in Block
    BY SuccIs
  <2>2. CASE x = d
    <3>1. CASE y = d
      BY <3>1
    <3>2. CASE y # d
      <4>1. y # s /\ s \notin Visited(ToSet(succ[y]), {d})
        BY <1>5, <2>2, <3>2, <1>2
      <4>2. s \notin Visited({y}, {d})
        BY <4>1, <2>1, VisitedStep
      <4>3. QED BY <4>2, <2>1
    <3>3. QED BY <3>1, <3>2
  <2>3. CASE x # d
    <3>1. s \notin Visited({x}, {d})
      BY <2>3, <2>1
    <3>2. s \notin Visited({y}, {d})
      BY <2>1, <2>3, <3>1, VisitedOn
    <3>3. QED BY <3>2, <2>1
  <2>4. QED BY <2>2, <2>3
<1>6. C \in SUBSET Block
  OBVIOUS
<1>7. b = s \/ b \notin V
  BY <1>2 DEF getDominators, Dominates
<1>8. e # s
  BY <1>3, <1>4
<1>9. V \in SUBSET Block /\ e \in V /\ \A x \in V \ {s} : ToSet(succ[x]) \subseteq V
  BY <1>1, <1>8, VisitedIs
<1> HIDE DEF C, V, e
<1>10. R \subseteq C \cap V
  <2> DEFINE W == {e}
             Q == C \cap V
  <2>1. C \cap V \in SUBSET Block /\ {e} \subseteq C \cap V
    BY <1>6, <1>9, <1>4
  <2>2. \A x \in C \cap V : Onward(d, s, x) \subseteq C \cap V
    <3>1. ASSUME NEW x \in C \cap V, NEW y \in ToSet(succ[x]), x = d => y # s PROVE y \in C \cap V
      BY <3>1, <1>5, <1>3, <1>9
    <3>2. QED BY <3>1 DEF Onward
  <2> HIDE DEF W, Q
  <2>3. W \in SUBSET Block /\ W \subseteq Q /\ Q \in SUBSET Block /\ \A x \in Q : Onward(d, s, x) \subseteq Q
    BY <2>1, <2>2, <1>1 DEF W, Q
  <2>4. Without(d, s)[W] \subseteq Q
    BY <2>3, WithoutIs
  <2>5. QED BY <2>4 DEF W, Q
<1>11. b \notin C \cap V
  BY <1>7, <1>3
<1>12. QED BY <1>10, <1>11 DEF e

(* A branch that every path to b takes is critical: what is reached        *)
(* without it is closed but for the branching block.                       *)
LEMMA DecidingIsCritical ==
  ASSUME NEW f \in DOMAIN entryBB, NEW b \in Visited({entryBB[f]}, {}),
         NEW d \in Block, NEW s \in ToSet(succ[d]), Cardinality(ToSet(succ[d])) > 1,
         b \notin Without(d, s)[{entryBB[f]}]
  PROVE  Critical(d, s, b)
<1> DEFINE e == entryBB[f]
           R == Without(d, s)[{e}]
           V == Visited({e}, {})
<1>1. e \in Block /\ {e} \in SUBSET Block /\ {e} \ {s} \in SUBSET Block /\ {e} \ {d} \in SUBSET Block
      /\ host[e] = f /\ s \in Block
  BY FlowAssumption, SuccIs
<1>2. /\ V \in SUBSET Block /\ e \in V /\ (\A x \in V : ToSet(succ[x]) \subseteq V)
      /\ \A C \in SUBSET Block : {e} \subseteq C /\ (\A x \in C \ {} : ToSet(succ[x]) \subseteq C) => V \subseteq C
  BY <1>1, VisitedIs
<1>3. /\ R \in SUBSET Block /\ e \in R
      /\ \A x \in R : Onward(d, s, x) \subseteq R
      /\ \A C \in SUBSET Block :
           /\ {e} \subseteq C
           /\ \A x \in C : Onward(d, s, x) \subseteq C
           => R \subseteq C
  <2> DEFINE W == {e}
  <2>1. W \in SUBSET Block /\ e \in W
    BY <1>1
  <2>2. R = Without(d, s)[W]
    OBVIOUS
  <2> HIDE DEF e, W, R
  <2>3. W = {e}
    BY DEF W
  <2>4. /\ R \in SUBSET Block /\ W \subseteq R
        /\ \A x \in R : Onward(d, s, x) \subseteq R
        /\ \A C \in SUBSET Block :
             W \subseteq C /\ (\A x \in C : Onward(d, s, x) \subseteq C) => R \subseteq C
    BY <2>1, <2>2, <1>1, WithoutIs
  <2>5. QED BY <2>4, <2>3
<1>4. b \in V /\ b \notin R /\ b \in Block
  BY <1>2
<1> HIDE DEF e, R, V
<1>5. d \in R
  <2>1. ASSUME d \notin R PROVE FALSE
    <3>1. \A x \in R \ {} : ToSet(succ[x]) \subseteq R
      BY <2>1, <1>3 DEF Onward
    <3>2. QED BY <3>1, <1>2, <1>3, <1>4
  <2>2. QED BY <2>1
<1>6. s \notin R
  <2>1. ASSUME s \in R PROVE FALSE
    <3>1. \A x \in R \ {} : ToSet(succ[x]) \subseteq R
      BY <2>1, <1>3 DEF Onward
    <3>2. QED BY <3>1, <1>2, <1>3, <1>4
  <2>2. QED BY <2>1
<1>7. R \subseteq V
  <2>1. \A x \in V : Onward(d, s, x) \subseteq V
    BY <1>2 DEF Onward
  <2>2. QED BY <2>1, <1>2, <1>3
<1>8. \A x \in V : host[x] = f
  BY <1>1, VisitedHost DEF V
<1>9. host[d] = f /\ host[s] = f /\ host[b] = f /\ s # d /\ d # b /\ e # s
  BY <1>2, <1>3, <1>4, <1>5, <1>6, <1>7, <1>8
<1>10. Visited({e} \ {d}, {d}) \subseteq R
  <2>1. {e} \ {d} \subseteq R /\ \A x \in R \ {d} : ToSet(succ[x]) \subseteq R
    BY <1>3 DEF Onward
  <2>2. QED BY <2>1, <1>1, <1>3, VisitedIs
<1>11. Visited({e} \ {s}, {s}) \subseteq R \cup {s}
  <2> DEFINE W == {e} \ {s}
             Q == R \cup {s}
  <2>1. {e} \ {s} \subseteq R \cup {s} /\ \A x \in (R \cup {s}) \ {s} : ToSet(succ[x]) \subseteq R \cup {s}
    <3>1. \A x \in R : ToSet(succ[x]) \subseteq R \cup {s}
      BY <1>3 DEF Onward
    <3>2. QED BY <1>3, <3>1
  <2>2. R \cup {s} \in SUBSET Block
    BY <1>1, <1>3
  <2>3. W \in SUBSET Block
    BY <1>1
  <2> HIDE DEF W, Q
  <2>4. W \subseteq Q /\ (\A x \in Q \ {s} : ToSet(succ[x]) \subseteq Q) /\ Q \in SUBSET Block
    BY <2>1, <2>2 DEF W, Q
  <2>5. Visited(W, {s}) \subseteq Q
    BY <2>3, <2>4, VisitedIs
  <2>6. QED BY <2>5 DEF W, Q
<1>12. e = entryBB[host[b]] /\ e = entryBB[host[s]]
  BY <1>9 DEF e
<1>13. d \in getDominators(b) /\ d \in getDominators(s)
  BY <1>4, <1>6, <1>9, <1>10, <1>12 DEF getDominators, Dominates
<1>14. s \in getDominators(b) \cup {b}
  BY <1>1, <1>4, <1>9, <1>11, <1>12 DEF getDominators, Dominates
<1>15. ASSUME NEW o \in ToSet(succ[d]) \ {s, d} PROVE s \notin Visited(ToSet(succ[o]), {d})
  <2>1. o \in R /\ o \in Block
    BY <1>3, <1>5, SuccIs DEF Onward
  <2>2. ToSet(succ[o]) \subseteq R /\ ToSet(succ[o]) \in SUBSET Block
    BY <2>1, <1>3, SuccIs DEF Onward
  <2>3. \A x \in R \ {d} : ToSet(succ[x]) \subseteq R
    BY <1>3 DEF Onward
  <2>4. Visited(ToSet(succ[o]), {d}) \subseteq R
    BY <2>2, <2>3, <1>3, VisitedIs
  <2>5. QED BY <2>4, <1>6
<1>16. QED BY <1>9, <1>13, <1>14, <1>15 DEF Critical

(* "blocks that end in a branch which must be taken to get to b": the      *)
(* critical branches of every flow graph are those that all paths take.    *)
THEOREM TakenAreCritical == BranchesAreTaken
<1> SUFFICES ASSUME NEW f \in DOMAIN entryBB, NEW b \in Visited({entryBB[f]}, {})
             PROVE  getCriticalBranches(b) =
                      {p \in Block \X Block :
                         /\ p[2] \in ToSet(succ[p[1]]) /\ Cardinality(ToSet(succ[p[1]])) > 1
                         /\ b \notin Without(p[1], p[2])[{entryBB[f]}]}
  BY DEF BranchesAreTaken
<1>1. entryBB[f] \in Block /\ {entryBB[f]} \in SUBSET Block /\ host[entryBB[f]] = f
  BY FlowAssumption
<1>2. b \in Block /\ host[b] = f
  <2>1. \A x \in {entryBB[f]} : host[x] = f
    BY <1>1
  <2> DEFINE W == {entryBB[f]}
  <2>2. W \in SUBSET Block /\ (\A x \in W : host[x] = f) /\ b \in Visited(W, {})
    BY <1>1
  <2> HIDE DEF W
  <2>3. Visited(W, {}) \in SUBSET Block
    BY <2>2, VisitedIs
  <2>4. QED BY <2>2, <2>3, VisitedHost
<1>3. ASSUME NEW d \in Block, NEW s \in Block
      PROVE  Critical(d, s, b) <=> /\ s \in ToSet(succ[d]) /\ Cardinality(ToSet(succ[d])) > 1
                                   /\ b \notin Without(d, s)[{entryBB[f]}]
  <2>1. Critical(d, s, b) => s \in ToSet(succ[d]) /\ Cardinality(ToSet(succ[d])) > 1
    BY DEF Critical
  <2>2. Critical(d, s, b) => b \notin Without(d, s)[{entryBB[f]}]
    BY <1>2, CriticalDecides
  <2>3. QED BY <2>1, <2>2, DecidingIsCritical
<1>4. QED BY <1>2, <1>3, CriticalIs

----------------------------------------------------------------------------
(* Instructions, contexts, locations.                                      *)

LEMMA OddEven ==
  ASSUME NEW n \in Nat
  PROVE  /\ n % 2 = 0 \/ n % 2 = 1
         /\ n % 2 = 1 <=> (n + 1) % 2 = 0
         /\ n % 2 = 0 <=> (n + 1) % 2 = 1
         /\ n % 2 = (n + 2) % 2
         /\ n >= 1 => (n % 2 = 1 <=> (n - 1) % 2 = 0) /\ (n % 2 = 0 <=> (n - 1) % 2 = 1)
OBVIOUS

LEMMA InstIs ==
  /\ \A i \in Inst : /\ i = <<i[1], i[2]>> /\ i[1] \in Block /\ i[2] \in 1..Size[i[1]]
                     /\ Size[i[1]] \in Nat \ {0}
  /\ \A b \in Block : Size[b] \in Nat \ {0} /\ \A n \in 1..Size[b] : <<b, n>> \in Inst
  /\ \A b \in Block : First(b) \in Inst /\ First(b)[1] = b /\ First(b)[2] = 1
BY ProgramAssumption DEF Inst, First

LEMMA CallIs ==
  ASSUME NEW i \in Calls
  PROVE  /\ i \in Inst /\ i[2] < Size[i[1]] /\ <<i[1], i[2] + 1>> \in Inst
         /\ FirstOf(Target[i]) \in Inst /\ getFunction(FirstOf(Target[i])) = Target[i]
         /\ Target[i] # getFunction(i)
<1>1. i \in Inst /\ i[2] < Size[i[1]] /\ Target[i] \in DOMAIN entryBB /\ Target[i] # getFunction(i)
  BY ProgramAssumption
<1>2. entryBB[Target[i]] \in Block /\ host[entryBB[Target[i]]] = Target[i]
  BY <1>1, FlowAssumption
<1>3. i[1] \in Block /\ i[2] + 1 \in 1..Size[i[1]]
  BY <1>1, InstIs
<1>4. QED BY <1>1, <1>2, <1>3, InstIs DEF FirstOf, getFunction

LEMMA ContextIs ==
  ASSUME NEW c \in Contexts
  PROVE  /\ c \in Seq(Inst) /\ Len(c) \in Nat \ {0} /\ Len(c) % 2 = 1
         /\ \A p \in 1..Len(c) : c[p] \in Inst
         /\ c[1] = FirstOf(main)
         /\ \A p \in 1..Len(c) : p % 2 = 0 =>
              /\ c[p] \in Calls /\ getFunction(c[p]) = getFunction(c[p - 1])
              /\ c[p + 1] = FirstOf(Target[c[p]]) /\ p + 1 \in 1..Len(c)
         /\ \A p \in 1..Len(c) : p % 2 = 1 => c[p] = First(entryBB[getFunction(c[p])])
<1>1. IsContext(c)
  BY ContextAssumption
<1>2. c \in Seq(Inst) /\ Len(c) \in Nat /\ \A p \in 1..Len(c) : c[p] \in Inst
  BY <1>1, LenProperties, ElementOfSeq DEF IsContext
<1>3. Len(c) % 2 = 1 /\ c[1] = FirstOf(main) /\ Len(c) # 0
  BY <1>1, <1>2 DEF IsContext
<1>4. ASSUME NEW p \in 1..Len(c), p % 2 = 0
      PROVE  /\ c[p] \in Calls /\ getFunction(c[p]) = getFunction(c[p - 1])
             /\ c[p + 1] = FirstOf(Target[c[p]]) /\ p + 1 \in 1..Len(c)
  BY <1>1, <1>2, <1>3, <1>4 DEF IsContext
<1>5. ASSUME NEW p \in 1..Len(c), p % 2 = 1
      PROVE  c[p] = First(entryBB[getFunction(c[p])])
  <2>1. CASE p = 1
    <3>1. main \in DOMAIN entryBB /\ host[entryBB[main]] = main
      BY ProgramAssumption, FlowAssumption
    <3>2. QED BY <2>1, <3>1, <1>3 DEF FirstOf, First, getFunction
  <2>2. CASE p # 1
    <3>1. p - 1 \in 1..Len(c) /\ (p - 1) % 2 = 0 /\ (p - 1) + 1 = p
      BY <1>2, <1>5, <2>2
    <3>2. c[p - 1] \in Calls /\ c[p] = FirstOf(Target[c[p - 1]])
      BY <1>4, <3>1
    <3>3. QED BY <3>2, CallIs DEF FirstOf
  <2>3. QED BY <2>1, <2>2
<1>6. QED BY <1>2, <1>3, <1>4, <1>5

LEMMA PrefixIs ==
  ASSUME NEW c \in Contexts, NEW k \in 0..Len(c)
  PROVE  /\ getPrefix(c, k) \in Seq(Inst) /\ Len(getPrefix(c, k)) = k
         /\ \A p \in 1..k : getPrefix(c, k)[p] = c[p]
         /\ k % 2 = 1 => getPrefix(c, k) \in Contexts
<1>1. c \in Seq(Inst) /\ Len(c) \in Nat /\ \A p \in 1..Len(c) : c[p] \in Inst
  BY ContextIs
<1>2. \A p \in 1..k : c[p] \in Inst
  BY <1>1
<1>3. k \in Nat /\ (IF 1 <= k THEN k - 1 + 1 ELSE 0) = k /\ k - 1 + 1 = k
  BY <1>1
<1>4. /\ SubSeq(c, 1, k) \in Seq(Inst) /\ Len(SubSeq(c, 1, k)) = k
      /\ \A p \in 1..k : SubSeq(c, 1, k)[p] = c[1 + p - 1]
  BY <1>2, <1>3, SubSeqProperties
<1>5. \A p \in 1..k : 1 + p - 1 = p
  BY <1>3
<1>6. k % 2 = 1 => k \in 1..Len(c)
  BY <1>1
<1>7. QED BY <1>4, <1>5, <1>6, ContextAssumption DEF getPrefix

(* One context is a prefix of another one.                                 *)
LEMMA IsPrefixIs ==
  ASSUME NEW c \in Contexts, NEW d \in Contexts
  PROVE  /\ IsPrefix(c, d) <=> Len(c) <= Len(d) /\ \A p \in 1..Len(c) : c[p] = d[p]
         /\ IsPrefix(c, d) <=> Len(c) <= Len(d) /\ getPrefix(d, Len(c)) = c
<1>1. c \in Seq(Inst) /\ d \in Seq(Inst) /\ Len(c) \in Nat /\ Len(d) \in Nat
  BY ContextIs
<1>2. SubSeq(c, 1, Len(c)) = c
  BY <1>1, SubSeqFull
<1>3. IsPrefix(c, d) <=> Len(c) <= Len(d) /\ c = getPrefix(d, Len(c))
  BY <1>2 DEF IsPrefix, getPrefix
<1>4. ASSUME Len(c) <= Len(d)
      PROVE  c = getPrefix(d, Len(c)) <=> \A p \in 1..Len(c) : c[p] = d[p]
  <2>1. /\ getPrefix(d, Len(c)) \in Seq(Inst) /\ Len(getPrefix(d, Len(c))) = Len(c)
        /\ \A p \in 1..Len(c) : getPrefix(d, Len(c))[p] = d[p]
    BY <1>1, <1>4, PrefixIs
  <2>2. (\A p \in 1..Len(c) : c[p] = d[p]) => c = getPrefix(d, Len(c))
    BY <1>1, <2>1, SeqEqual
  <2>3. QED BY <2>1, <2>2
<1>5. QED BY <1>3, <1>4

LEMMA ContextEqual ==
  ASSUME NEW c \in Contexts, NEW d \in Contexts, Len(c) = Len(d), \A p \in 1..Len(c) : c[p] = d[p]
  PROVE  c = d
BY ContextIs, SeqEqual

LEMMA LocIs ==
  /\ \A l \in Locs : /\ l = Loc(l.inst, l.ctx) /\ l.inst \in Inst /\ l.ctx \in Contexts
                     /\ getFunction(l.inst) = getFunction(Last(l.ctx))
  /\ \A i \in Inst, c \in Contexts :
       getFunction(i) = getFunction(Last(c)) =>
         Loc(i, c) \in Locs /\ Loc(i, c).inst = i /\ Loc(i, c).ctx = c
  /\ \A l, m \in Locs : l.inst = m.inst /\ l.ctx = m.ctx => l = m
<1>1. \A i, c : Loc(i, c).inst = i /\ Loc(i, c).ctx = c
  BY DEF Loc
<1>2. ASSUME NEW l \in Locs
      PROVE  \E i \in Inst, c \in Contexts : Within(c, i) /\ l = Loc(i, c)
  <2>1. PICK p \in Inst \X Contexts : Within(p[2], p[1]) /\ l = Loc(p[1], p[2])
    BY DEF Locs
  <2>2. QED BY <2>1
<1>3. ASSUME NEW i \in Inst, NEW c \in Contexts, Within(c, i)
      PROVE  Loc(i, c) \in Locs
  <2> DEFINE p == <<i, c>>
  <2>1. p \in {q \in Inst \X Contexts : Within(q[2], q[1])} /\ Loc(i, c) = Loc(p[1], p[2])
    BY <1>3
  <2>2. QED BY <2>1 DEF Locs
<1>4. \A l \in Locs : /\ l = Loc(l.inst, l.ctx) /\ l.inst \in Inst /\ l.ctx \in Contexts
                      /\ Within(l.ctx, l.inst)
  BY <1>1, <1>2
<1>5. QED BY <1>1, <1>3, <1>4 DEF Within

LEMMA LocsFinite == IsFiniteSet(Inst) /\ IsFiniteSet(Locs)
<1>1. ASSUME NEW S, IsFiniteSet(S), NEW T, NEW f \in [S -> T], \A t \in T : \E s \in S : f[s] = t
      PROVE  IsFiniteSet(T)
  BY <1>1, FS_Surjection DEF Surjection
<1>2. IsFiniteSet(Inst)
  <2> DEFINE In(b) == {<<b, n>> : n \in 1..Size[b]}
             T == {In(b) : b \in Block}
             f == [b \in Block |-> In(b)]
  <2>1. IsFiniteSet(T)
    <3>1. f \in [Block -> T] /\ \A t \in T : \E b \in Block : f[b] = t
      OBVIOUS
    <3>2. IsFiniteSet(Block)
      BY FlowAssumption
    <3> HIDE DEF f, T
    <3>3. QED BY <3>1, <3>2, <1>1
  <2>2. ASSUME NEW b \in Block PROVE IsFiniteSet(In(b))
    <3> DEFINE g == [n \in 1..Size[b] |-> <<b, n>>]
               U == In(b)
    <3>1. g \in [1..Size[b] -> U] /\ \A t \in U : \E n \in 1..Size[b] : g[n] = t
      OBVIOUS
    <3>2. IsFiniteSet(1..Size[b])
      BY InstIs, FS_Interval
    <3> HIDE DEF g, U
    <3>3. IsFiniteSet(U)
      BY <3>1, <3>2, <1>1
    <3>4. QED BY <3>3 DEF U
  <2>3. \A t \in T : IsFiniteSet(t)
    BY <2>2
  <2>4. Inst = UNION T
    BY DEF Inst
  <2> HIDE DEF T, In
  <2>5. QED BY <2>1, <2>3, <2>4, FS_UNION
<1>3. IsFiniteSet(Locs)
  <2> DEFINE P == {q \in Inst \X Contexts : Within(q[2], q[1])}
             f == [p \in P |-> Loc(p[1], p[2])]
  <2>1. IsFiniteSet(Inst \X Contexts)
    BY <1>2, ContextAssumption, FS_Product
  <2>2. IsFiniteSet(P)
    BY <2>1, FS_Subset
  <2>3. f \in [P -> Locs] /\ \A l \in Locs : \E p \in P : f[p] = l
    BY DEF Locs
  <2> HIDE DEF P, f
  <2>4. QED BY <2>2, <2>3, <1>1
<1>4. QED BY <1>2, <1>3

(* A call puts the callee's context on top of the caller's.                *)
LEMMA CalleeIs ==
  ASSUME NEW c \in Contexts, NEW i \in Calls, getFunction(i) = getFunction(Last(c))
  PROVE  /\ Callee(c, i) \in Contexts /\ Len(Callee(c, i)) = Len(c) + 2
         /\ \A p \in 1..Len(c) : Callee(c, i)[p] = c[p]
         /\ Callee(c, i)[Len(c) + 1] = i /\ Callee(c, i)[Len(c) + 2] = FirstOf(Target[i])
         /\ IsPrefix(c, Callee(c, i)) /\ getPrefix(Callee(c, i), Len(c)) = c
<1> DEFINE t == <<i, FirstOf(Target[i])>>
<1>1. Callee(c, i) \in Contexts
  BY ContextAssumption DEF Within
<1>2. c \in Seq(Inst) /\ Len(c) \in Nat /\ t \in Seq(Inst) /\ Len(t) = 2 /\ t[1] = i /\ t[2] = FirstOf(Target[i])
  <2>1. c \in Seq(Inst) /\ Len(c) \in Nat
    BY ContextIs
  <2>2. i \in Inst /\ FirstOf(Target[i]) \in Inst
    BY CallIs
  <2>3. QED BY <2>1, <2>2
<1>3. Callee(c, i) = c \o t
  BY DEF Callee
<1> HIDE DEF t
<1>4. /\ Len(c \o t) = Len(c) + 2
      /\ \A p \in 1..Len(c) + 2 : (c \o t)[p] = IF p <= Len(c) THEN c[p] ELSE t[p - Len(c)]
  <2>1. /\ Len(c \o t) = Len(c) + Len(t)
        /\ \A p \in 1..Len(c) + Len(t) : (c \o t)[p] = IF p <= Len(c) THEN c[p] ELSE t[p - Len(c)]
    BY <1>2, ConcatProperties
  <2>2. Len(c) + Len(t) = Len(c) + 2
    BY <1>2
  <2>3. QED BY <2>1, <2>2
<1>5. /\ \A p \in 1..Len(c) : p \in 1..Len(c) + 2 /\ p <= Len(c)
      /\ Len(c) + 1 \in 1..Len(c) + 2 /\ ~(Len(c) + 1 <= Len(c)) /\ Len(c) + 1 - Len(c) = 1
      /\ Len(c) + 2 \in 1..Len(c) + 2 /\ ~(Len(c) + 2 <= Len(c)) /\ Len(c) + 2 - Len(c) = 2
      /\ Len(c) <= Len(c) + 2
  BY <1>2
<1>6. /\ \A p \in 1..Len(c) : (c \o t)[p] = c[p]
      /\ (c \o t)[Len(c) + 1] = t[1] /\ (c \o t)[Len(c) + 2] = t[2]
  BY <1>4, <1>5
<1>7. IsPrefix(c, Callee(c, i)) /\ getPrefix(Callee(c, i), Len(c)) = c
  <2> DEFINE d == Callee(c, i)
  <2>1. Len(d) = Len(c) + 2 /\ \A p \in 1..Len(c) : c[p] = d[p]
    BY <1>3, <1>4, <1>6
  <2>2. d \in Contexts /\ Len(c) <= Len(d)
    BY <1>1, <1>5, <2>1
  <2> HIDE DEF d
  <2>3. IsPrefix(c, d) /\ getPrefix(d, Len(c)) = c
    BY <2>1, <2>2, IsPrefixIs
  <2>4. QED BY <2>3 DEF d
<1>8. QED BY <1>1, <1>2, <1>3, <1>4, <1>6, <1>7

(* One instruction follows another one in its function.                    *)
Moves(i, j) ==
  \/ i[2] < Size[i[1]] /\ j = <<i[1], i[2] + 1>>
  \/ i[2] = Size[i[1]] /\ \E s \in ToSet(succ[i[1]]) : j = First(s)

Returns(i) == i[2] = Size[i[1]] /\ succ[i[1]] = <<>>

LEMMA MovesIs ==
  /\ \A i \in Inst : \A j : Moves(i, j) => j \in Inst /\ getFunction(j) = getFunction(i)
  /\ \A i \in Inst : i[2] < Size[i[1]] => Moves(i, <<i[1], i[2] + 1>>)
  /\ \A i \in Inst : Returns(i) <=> i[2] = Size[i[1]] /\ ToSet(succ[i[1]]) = {}
  /\ \A i \in Inst : Returns(i) => i \notin Calls
<1>1. ASSUME NEW i \in Inst, NEW j, Moves(i, j)
      PROVE  j \in Inst /\ getFunction(j) = getFunction(i)
  <2>0. i[1] \in Block /\ i[2] \in 1..Size[i[1]] /\ Size[i[1]] \in Nat
    BY InstIs
  <2>1. CASE i[2] < Size[i[1]] /\ j = <<i[1], i[2] + 1>>
    <3>1. i[2] + 1 \in 1..Size[i[1]]
      BY <2>0, <2>1
    <3>2. QED BY <2>0, <2>1, <3>1, InstIs DEF getFunction
  <2>2. CASE \E s \in ToSet(succ[i[1]]) : j = First(s)
    <3>1. PICK s \in ToSet(succ[i[1]]) : j = First(s)
      BY <2>2
    <3>2. s \in Block /\ host[s] = host[i[1]]
      BY <2>0, SuccIs
    <3>3. QED BY <3>1, <3>2, InstIs DEF getFunction
  <2>3. QED BY <1>1, <2>1, <2>2 DEF Moves
<1>2. ASSUME NEW i \in Inst PROVE succ[i[1]] = <<>> <=> ToSet(succ[i[1]]) = {}
  <2>1. succ[i[1]] \in Seq(Block)
    BY InstIs, FlowAssumption
  <2>2. succ[i[1]] = <<>> => ToSet(succ[i[1]]) = {}
    BY DEF ToSet
  <2>3. ASSUME ToSet(succ[i[1]]) = {} PROVE succ[i[1]] = <<>>
    <3>1. DOMAIN succ[i[1]] = {}
      BY <2>3 DEF ToSet
    <3>2. Len(succ[i[1]]) = 0
      BY <2>1, <3>1, LenProperties
    <3>3. QED BY <2>1, <3>2, EmptySeq
  <2>4. QED BY <2>2, <2>3
<1>3. ASSUME NEW i \in Calls PROVE i[2] \in Nat /\ Size[i[1]] \in Nat /\ i[2] < Size[i[1]]
  <2>1. i \in Inst /\ i[2] < Size[i[1]]
    BY CallIs
  <2>2. QED BY <2>1, InstIs
<1>4. \A i \in Calls : i[2] # Size[i[1]]
  BY <1>3
<1>5. QED BY <1>1, <1>2, <1>4 DEF Returns, Moves

(* The search through the ways.                                            *)
LEMMA AfterIs ==
  ASSUME NEW l \in Locs
  PROVE  /\ After(l) = {Loc(j, l.ctx) : j \in {i \in Inst : Moves(l.inst, i)}}
         /\ After(l) \in SUBSET Locs
         /\ After(l) = {} <=> Returns(l.inst)
<1>1. /\ l.inst \in Inst /\ l.ctx \in Contexts /\ getFunction(l.inst) = getFunction(Last(l.ctx))
      /\ l.inst[1] \in Block /\ l.inst[2] \in 1..Size[l.inst[1]] /\ Size[l.inst[1]] \in Nat
  BY LocIs, InstIs
<1>2. \A s \in ToSet(succ[l.inst[1]]) : First(s) \in Inst
  BY <1>1, SuccIs, InstIs
<1>3. CASE l.inst[2] < Size[l.inst[1]]
  <2> DEFINE n == <<l.inst[1], l.inst[2] + 1>>
  <2>1. After(l) = {Loc(n, l.ctx)}
    BY <1>3 DEF After, getParent
  <2>2. Moves(l.inst, n) /\ n \in Inst
    BY <1>1, <1>3, MovesIs
  <2>3. \A i \in Inst : Moves(l.inst, i) => i = n
    BY <1>1, <1>3 DEF Moves
  <2>4. ~Returns(l.inst)
    BY <1>1, <1>3 DEF Returns
  <2>5. {i \in Inst : Moves(l.inst, i)} = {n}
    BY <2>2, <2>3
  <2>6. Loc(n, l.ctx) \in Locs
    BY <2>2, <1>1, MovesIs, LocIs
  <2> HIDE DEF n
  <2>7. QED BY <2>1, <2>4, <2>5, <2>6
<1>4. CASE ~(l.inst[2] < Size[l.inst[1]])
  <2>1. After(l) = {Loc(First(b), l.ctx) : b \in ToSet(succ[l.inst[1]])} /\ l.inst[2] = Size[l.inst[1]]
    BY <1>1, <1>4 DEF After, getParent
  <2>2. \A i : i \in Inst /\ Moves(l.inst, i) <=> \E s \in ToSet(succ[l.inst[1]]) : i = First(s)
    BY <1>2, <1>4, <2>1 DEF Moves
  <2>3. After(l) = {Loc(j, l.ctx) : j \in {i \in Inst : Moves(l.inst, i)}}
    BY <2>1, <2>2
  <2>4. \A i \in Inst : Moves(l.inst, i) => Loc(i, l.ctx) \in Locs
    BY <1>1, MovesIs, LocIs
  <2>5. After(l) = {} <=> ToSet(succ[l.inst[1]]) = {}
    BY <2>1
  <2>6. Returns(l.inst) <=> ToSet(succ[l.inst[1]]) = {}
    BY <1>1, <2>1, MovesIs
  <2>7. QED BY <2>3, <2>4, <2>5, <2>6
<1>5. QED BY <1>3, <1>4

Calling(x, y) ==
  x.inst \in Calls /\ y.ctx = Callee(x.ctx, x.inst) /\ y.inst = Last(y.ctx)
Moving(x, y) ==
  x.inst \notin Calls /\ y.ctx = x.ctx /\ Moves(x.inst, y.inst)
Returning(x, y) ==
  /\ x.inst \notin Calls /\ Returns(x.inst) /\ Len(x.ctx) > 1
  /\ y.ctx = getPrefix(x.ctx, Len(x.ctx) - 2) /\ Moves(x.ctx[Len(x.ctx) - 1], y.inst)

LEMMA CallerIs ==
  ASSUME NEW c \in Contexts, Len(c) > 1
  PROVE  /\ Len(c) - 2 \in 1..Len(c) /\ (Len(c) - 2) % 2 = 1 /\ Len(c) - 1 \in 1..Len(c)
         /\ c[Len(c) - 1] \in Calls
         /\ Caller(c) \in Locs /\ Caller(c).inst = c[Len(c) - 1]
         /\ Caller(c).ctx = getPrefix(c, Len(c) - 2)
<1> DEFINE n == Len(c)
<1>1. n \in Nat /\ n % 2 = 1
  BY ContextIs
<1>2. n - 2 \in 1..n /\ (n - 2) % 2 = 1 /\ n - 1 \in 1..n /\ (n - 1) % 2 = 0 /\ n - 1 - 1 = n - 2 /\ n - 2 \in 0..n
  BY <1>1
<1> HIDE DEF n
<1>3. c[n - 1] \in Calls /\ getFunction(c[n - 1]) = getFunction(c[n - 2]) /\ c[n - 1] \in Inst
  BY <1>2, ContextIs DEF n
<1>4. /\ getPrefix(c, n - 2) \in Contexts /\ Len(getPrefix(c, n - 2)) = n - 2
      /\ \A p \in 1..(n - 2) : getPrefix(c, n - 2)[p] = c[p]
  BY <1>2, PrefixIs DEF n
<1>5. n - 2 \in 1..(n - 2)
  BY <1>2
<1>6. Last(getPrefix(c, n - 2)) = c[n - 2]
  BY <1>4, <1>5 DEF Last
<1>7. Caller(c) = Loc(c[n - 1], getPrefix(c, n - 2))
  BY <1>2 DEF Caller, CallSite, Loc, n
<1>8. QED BY <1>2, <1>3, <1>4, <1>6, <1>7, LocIs DEF n

LEMMA StartIs ==
  ASSUME NEW c \in Contexts
  PROVE  Start(c) \in Locs /\ Start(c).ctx = c /\ Start(c).inst = Last(c) /\ Last(c) \in Inst
<1>1. Last(c) \in Inst
  BY ContextIs DEF Last
<1>2. QED BY <1>1, LocIs DEF Start

(* What follows a location, read from the three kinds of steps.            *)
LEMMA FollowsIs ==
  ASSUME NEW x \in Locs
  PROVE  /\ x.inst \in Calls => Follows[x] = {Start(Callee(x.ctx, x.inst))}
         /\ x.inst \notin Calls /\ Returns(x.inst) /\ Len(x.ctx) > 1 =>
              Follows[x] = After(Caller(x.ctx))
         /\ x.inst \notin Calls /\ ~(Returns(x.inst) /\ Len(x.ctx) > 1) => Follows[x] = After(x)
         /\ Follows[x] \in SUBSET Locs
<1>1. x.inst \in Inst /\ x.ctx \in Contexts /\ getFunction(x.inst) = getFunction(Last(x.ctx))
  BY LocIs
<1>2. Follows[x] = Then(x)
  BY DEF Follows
<1>3. After(x) = {} <=> Returns(x.inst)
  BY AfterIs
<1>4. CASE x.inst \in Calls
  <2>1. Follows[x] = {Start(Callee(x.ctx, x.inst))}
    BY <1>2, <1>4 DEF Then
  <2>2. Start(Callee(x.ctx, x.inst)) \in Locs
    BY <1>1, <1>4, CalleeIs, StartIs
  <2>3. QED BY <1>4, <2>1, <2>2
<1>5. CASE x.inst \notin Calls /\ Returns(x.inst) /\ Len(x.ctx) > 1
  <2>1. Follows[x] = After(Caller(x.ctx))
    BY <1>2, <1>3, <1>5 DEF Then
  <2>2. After(Caller(x.ctx)) \in SUBSET Locs
    BY <1>1, <1>5, CallerIs, AfterIs
  <2>3. QED BY <1>5, <2>1, <2>2
<1>6. CASE x.inst \notin Calls /\ ~(Returns(x.inst) /\ Len(x.ctx) > 1)
  <2>1. Follows[x] = After(x)
    BY <1>2, <1>3, <1>6 DEF Then
  <2>2. QED BY <1>6, <2>1, AfterIs
<1>7. QED BY <1>4, <1>5, <1>6

LEMMA FollowsKinds ==
  ASSUME NEW x \in Locs, NEW y \in Follows[x]
  PROVE  y \in Locs /\ (Calling(x, y) \/ Moving(x, y) \/ Returning(x, y))
<1>1. x.inst \in Inst /\ x.ctx \in Contexts /\ getFunction(x.inst) = getFunction(Last(x.ctx))
  BY LocIs
<1>2. y \in Locs
  BY FollowsIs
<1>3. ASSUME NEW l \in Locs, y \in After(l)
      PROVE  y.ctx = l.ctx /\ Moves(l.inst, y.inst)
  <2>1. PICK j \in {i \in Inst : Moves(l.inst, i)} : y = Loc(j, l.ctx)
    BY <1>3, AfterIs
  <2>2. QED BY <2>1 DEF Loc
<1>4. CASE x.inst \in Calls
  <2>1. y = Start(Callee(x.ctx, x.inst))
    BY <1>4, FollowsIs
  <2>2. Callee(x.ctx, x.inst) \in Contexts
    BY <1>1, <1>4, CalleeIs
  <2>3. QED BY <1>2, <1>4, <2>1, <2>2, StartIs DEF Calling
<1>5. CASE x.inst \notin Calls /\ Returns(x.inst) /\ Len(x.ctx) > 1
  <2>1. y \in After(Caller(x.ctx))
    BY <1>5, FollowsIs
  <2>2. /\ Caller(x.ctx) \in Locs /\ Caller(x.ctx).inst = x.ctx[Len(x.ctx) - 1]
        /\ Caller(x.ctx).ctx = getPrefix(x.ctx, Len(x.ctx) - 2)
    BY <1>1, <1>5, CallerIs
  <2>3. QED BY <1>2, <1>3, <1>5, <2>1, <2>2 DEF Returning
<1>6. CASE x.inst \notin Calls /\ ~(Returns(x.inst) /\ Len(x.ctx) > 1)
  <2>1. y \in After(x)
    BY <1>6, FollowsIs
  <2>2. QED BY <1>2, <1>3, <1>6, <2>1 DEF Moving
<1>7. QED BY <1>4, <1>5, <1>6

LEMMA ExecutedIs ==
  ASSUME NEW W \in SUBSET Locs, NEW D, NEW A \in SUBSET Locs
  PROVE  /\ Executed(W, D, A) \in SUBSET Locs
         /\ W \subseteq Executed(W, D, A)
         /\ \A x \in Executed(W, D, A) \ D : Follows[x] \cap A \subseteq Executed(W, D, A)
         /\ \A C \in SUBSET Locs :
              W \subseteq C /\ (\A x \in C \ D : Follows[x] \cap A \subseteq C) => Executed(W, D, A) \subseteq C
<1> DEFINE next == [l \in Locs |-> IF l \in D THEN {} ELSE Follows[l] \cap A]
           V == Reached(next)[W]
<1>1. IsFiniteSet(DOMAIN next) /\ DOMAIN next = Locs
  BY LocsFinite
<1>2. \A x \in DOMAIN next : next[x] \subseteq DOMAIN next
  BY <1>1
<1>3. /\ V \in SUBSET Locs /\ W \subseteq V /\ Closed(next, V)
      /\ \A C \in SUBSET Locs : W \subseteq C /\ Closed(next, C) => V \subseteq C
  <2> HIDE DEF next
  <2>1. QED BY <1>1, <1>2, ReachedIs
<1>4. Executed(W, D, A) = V
  BY DEF Executed
<1>5. \A C \in SUBSET Locs : Closed(next, C) <=> \A x \in C \ D : Follows[x] \cap A \subseteq C
  BY DEF Closed
<1> HIDE DEF V, next
<1>6. QED BY <1>3, <1>4, <1>5

----------------------------------------------------------------------------
(* The activations that a location is in, one per level of its context.    *)

At(x, k) == Inside(x, k).inst

LEMMA AtIs ==
  ASSUME NEW x \in Locs, NEW k \in 1..Len(x.ctx), k % 2 = 1
  PROVE  /\ At(x, k) \in Inst /\ getFunction(At(x, k)) = getFunction(x.ctx[k])
         /\ k = Len(x.ctx) => At(x, k) = x.inst
         /\ k < Len(x.ctx) => At(x, k) = x.ctx[k + 1] /\ At(x, k) \in Calls /\ k + 2 \in 1..Len(x.ctx)
         /\ x.ctx[k] = First(entryBB[getFunction(At(x, k))])
<1>1. x.inst \in Inst /\ x.ctx \in Contexts /\ getFunction(x.inst) = getFunction(Last(x.ctx))
  BY LocIs
<1>2. Len(x.ctx) \in Nat /\ Len(x.ctx) % 2 = 1 /\ x.ctx[k] = First(entryBB[getFunction(x.ctx[k])])
  BY <1>1, ContextIs
<1>3. CASE k = Len(x.ctx)
  <2>1. At(x, k) = x.inst
    BY <1>3, <1>2 DEF At, Inside
  <2>2. QED BY <2>1, <1>1, <1>2, <1>3 DEF Last
<1>4. CASE k < Len(x.ctx)
  <2>1. At(x, k) = x.ctx[k + 1]
    BY <1>4 DEF At, Inside, CallSite, Loc
  <2> DEFINE q == k + 1
             n == Len(x.ctx)
  <2>2. q \in 1..n /\ q % 2 = 0 /\ q - 1 = k /\ q + 1 = k + 2
    <3>1. n \in Nat /\ k \in 1..n /\ k < n
      BY <1>2, <1>4
    <3> HIDE DEF n
    <3>2. k \in Nat /\ q \in 1..n /\ q - 1 = k /\ q + 1 = k + 2
      BY <3>1
    <3>3. q % 2 = 0
      BY <3>2, OddEven
    <3>4. QED BY <3>2, <3>3
  <2> HIDE DEF q
  <2>3. x.ctx[q] \in Calls /\ getFunction(x.ctx[q]) = getFunction(x.ctx[q - 1])
        /\ q + 1 \in 1..Len(x.ctx) /\ x.ctx[q] \in Inst
    BY <1>1, <2>2, ContextIs
  <2>4. QED BY <1>2, <1>4, <2>1, <2>2, <2>3 DEF q
<1>5. QED BY <1>2, <1>3, <1>4

(* A step is seen in at most one activation that it does not enter: the    *)
(* one that it is in, or that it returns to.                               *)
Seen(x, y, k) ==
  /\ Moves(At(x, k), At(y, k)) /\ Len(y.ctx) = k /\ y.inst = At(y, k)
  /\ \/ x.ctx = y.ctx /\ x.inst = At(x, k) /\ x.inst \notin Calls
     \/ Len(x.ctx) = k + 2 /\ Returns(x.inst) /\ x.inst \notin Calls

LEMMA LevelStep ==
  ASSUME NEW x \in Locs, NEW y \in Follows[x], NEW k \in 1..Len(x.ctx), k <= Len(y.ctx), k % 2 = 1
  PROVE  /\ \A p \in 1..k : y.ctx[p] = x.ctx[p]
         /\ At(y, k) = At(x, k) \/ Seen(x, y, k)
<1> DEFINE n == Len(x.ctx)
           m == Len(y.ctx)
<1>1. y \in Locs /\ (Calling(x, y) \/ Moving(x, y) \/ Returning(x, y))
  BY FollowsKinds
<1>2. /\ x.ctx \in Contexts /\ y.ctx \in Contexts /\ x.inst \in Inst
      /\ getFunction(x.inst) = getFunction(Last(x.ctx))
      /\ n \in Nat /\ m \in Nat /\ n % 2 = 1 /\ m % 2 = 1
  BY <1>1, LocIs, ContextIs
<1>3. k \in Nat /\ k \in 1..n /\ k <= m /\ k \in 1..m
  BY <1>2
<1>4. /\ k = n => At(x, k) = x.inst
      /\ k < n => At(x, k) = x.ctx[k + 1] /\ k + 2 \in 1..n
  BY <1>3, AtIs
<1>5. /\ k = m => At(y, k) = y.inst
      /\ k < m => At(y, k) = y.ctx[k + 1] /\ k + 2 \in 1..m
  BY <1>1, <1>3, AtIs
<1>6. CASE Calling(x, y)
  <2>1. m = n + 2 /\ (\A p \in 1..n : y.ctx[p] = x.ctx[p]) /\ y.ctx[n + 1] = x.inst
    BY <1>2, <1>6, CalleeIs DEF Calling
  <2> HIDE DEF n, m
  <2>2. k < m /\ \A p \in 1..k : p \in 1..n
    BY <1>2, <1>3, <2>1
  <2>3. CASE k = n
    BY <2>1, <2>2, <2>3, <1>4, <1>5
  <2>4. CASE k # n
    <3>1. k < n /\ k + 1 \in 1..n
      BY <1>2, <1>3, <2>4
    <3>2. QED BY <2>1, <2>2, <3>1, <1>4, <1>5
  <2>5. QED BY <2>3, <2>4
<1>7. CASE Moving(x, y)
  <2>1. y.ctx = x.ctx /\ m = n
    BY <1>7 DEF Moving
  <2>2. CASE k = n
    <3>1. At(x, k) = x.inst /\ At(y, k) = y.inst
      BY <1>4, <1>5, <2>1, <2>2
    <3>2. QED BY <1>7, <2>1, <2>2, <3>1 DEF Moving, Seen
  <2>3. CASE k # n
    <3>1. k < n
      BY <1>2, <1>3, <2>3
    <3>2. QED BY <1>4, <1>5, <2>1, <3>1
  <2>4. QED BY <2>2, <2>3
<1>8. CASE Returning(x, y)
  <2>1. /\ n > 1 /\ Returns(x.inst) /\ x.inst \notin Calls
        /\ y.ctx = getPrefix(x.ctx, n - 2) /\ Moves(x.ctx[n - 1], y.inst)
    BY <1>8 DEF Returning
  <2> HIDE DEF n
  <2>2. n - 2 \in 0..n
    BY <1>2, <2>1
  <2>3. m = n - 2 /\ \A p \in 1..(n - 2) : y.ctx[p] = x.ctx[p]
    BY <1>2, <2>1, <2>2, PrefixIs DEF n
  <2> HIDE DEF m
  <2>4. k < n /\ \A p \in 1..k : p \in 1..(n - 2)
    BY <1>2, <1>3, <2>3
  <2>5. CASE k = m
    <3>1. k + 1 = n - 1 /\ n = k + 2
      BY <1>2, <1>3, <2>3, <2>5
    <3>2. At(x, k) = x.ctx[n - 1] /\ At(y, k) = y.inst
      BY <1>4, <1>5, <2>4, <2>5, <3>1
    <3>3. Seen(x, y, k)
      BY <2>1, <2>5, <3>1, <3>2 DEF Seen, n, m
    <3>4. QED BY <2>3, <2>4, <3>3
  <2>6. CASE k # m
    <3>1. k < m /\ k + 1 \in 1..(n - 2)
      BY <1>2, <1>3, <2>3, <2>6
    <3>2. QED BY <1>4, <1>5, <2>3, <2>4, <3>1
  <2>7. QED BY <2>5, <2>6
<1>9. QED BY <1>1, <1>6, <1>7, <1>8

(* A level that is new is that of the function called, at its start.       *)
LEMMA LevelNew ==
  ASSUME NEW x \in Locs, NEW y \in Follows[x], NEW k \in 1..Len(y.ctx), Len(x.ctx) < k, k % 2 = 1
  PROVE  /\ x.inst \in Calls /\ y.ctx = Callee(x.ctx, x.inst) /\ Len(y.ctx) = k /\ k = Len(x.ctx) + 2
         /\ At(y, k) = y.inst /\ y.inst = y.ctx[k]
<1> DEFINE n == Len(x.ctx)
           m == Len(y.ctx)
<1>1. y \in Locs /\ (Calling(x, y) \/ Moving(x, y) \/ Returning(x, y))
  BY FollowsKinds
<1>2. /\ x.ctx \in Contexts /\ y.ctx \in Contexts /\ x.inst \in Inst
      /\ getFunction(x.inst) = getFunction(Last(x.ctx))
      /\ n \in Nat /\ m \in Nat /\ n % 2 = 1 /\ m % 2 = 1
  BY <1>1, LocIs, ContextIs
<1>3. ~Moving(x, y)
  BY <1>2 DEF Moving
<1>4. ~Returning(x, y)
  <2>1. ASSUME Returning(x, y) PROVE FALSE
    <3>1. n > 1 /\ y.ctx = getPrefix(x.ctx, n - 2)
      BY <2>1 DEF Returning
    <3>2. n - 2 \in 0..Len(x.ctx)
      BY <1>2, <3>1
    <3>3. m = n - 2
      BY <1>2, <3>1, <3>2, PrefixIs
    <3>4. QED BY <1>2, <3>3
  <2>2. QED BY <2>1
<1>5. Calling(x, y)
  BY <1>1, <1>3, <1>4
<1>6. m = n + 2
  BY <1>2, <1>5, CalleeIs DEF Calling
<1>7. k = m
  <2> HIDE DEF n, m
  <2>1. k \in Nat /\ n < k /\ k <= m
    BY <1>2 DEF n, m
  <2>2. k # n + 1
    BY <1>2, <2>1, OddEven
  <2>3. QED BY <1>2, <1>6, <2>1, <2>2
<1>8. At(y, k) = y.inst
  BY <1>1, <1>7, AtIs
<1>9. QED BY <1>5, <1>6, <1>7, <1>8 DEF Calling, Last

LEMMA GreatestNumber ==
  ASSUME NEW n \in Nat, NEW T \in SUBSET (0..n), T # {}
  PROVE  \E k \in T : \A j \in T : j <= k
<1> DEFINE F == {0..k : k \in T}
           S == 0..n
<1>1. F \in SUBSET SUBSET S
  BY SMT
<1>2. F # {}
  OBVIOUS
<1>3. IsFiniteSet(S)
  BY FS_Interval
<1>4. PICK x \in F : \A y \in F : x \subseteq y => y = x
  <2> HIDE DEF F, S
  <2>1. QED BY <1>1, <1>2, <1>3, GreatestSubset
<1>5. PICK k \in T : x = 0..k
  BY <1>4
<1>6. ASSUME NEW j \in T PROVE j <= k
  <2>1. j \in Nat /\ k \in Nat
    OBVIOUS
  <2>2. CASE k < j
    <3>1. 0..k \subseteq 0..j /\ j \in 0..j /\ j \notin 0..k
      BY <2>1, <2>2
    <3>2. 0..j \in F
      OBVIOUS
    <3>3. 0..j = 0..k
      BY <1>4, <1>5, <3>1, <3>2
    <3>4. QED BY <3>1, <3>3
  <2>3. QED BY <2>1, <2>2
<1>7. QED BY <1>6

(* Two contexts part at a call: their last common function is active in    *)
(* both.                                                                   *)
LEMMA CommonIs ==
  ASSUME NEW c \in Contexts, NEW d \in Contexts
  PROVE  /\ Common(c, d) \in 1..Len(c) /\ Common(c, d) \in 1..Len(d) /\ Common(c, d) % 2 = 1
         /\ \A p \in 1..Common(c, d) : c[p] = d[p]
         /\ getPrefix(c, Common(c, d)) = getPrefix(d, Common(c, d))
         /\ Common(c, d) < Len(c) /\ Common(c, d) < Len(d) =>
              c[Common(c, d) + 1] # d[Common(c, d) + 1]
<1> DEFINE n == Len(c)
           m == Len(d)
           Agree(k) == k <= m /\ getPrefix(c, k) = getPrefix(d, k)
           T == {k \in 0..n : Agree(k)}
           Q(k) == k <= m /\ getPrefix(c, k) = getPrefix(d, k) /\ (k < n /\ k < m => c[k + 1] # d[k + 1])
           r == Common(c, d)
<1>1. n \in Nat \ {0} /\ m \in Nat \ {0} /\ n % 2 = 1 /\ m % 2 = 1
  BY ContextIs
<1>2. \A k \in 0..n : k <= m =>
        (getPrefix(c, k) = getPrefix(d, k) <=> \A p \in 1..k : c[p] = d[p])
  <2>1. ASSUME NEW k \in 0..n, k <= m
        PROVE  getPrefix(c, k) = getPrefix(d, k) <=> \A p \in 1..k : c[p] = d[p]
    <3>1. k \in 0..m
      BY <1>1, <2>1
    <3>2. /\ getPrefix(c, k) \in Seq(Inst) /\ Len(getPrefix(c, k)) = k
          /\ \A p \in 1..k : getPrefix(c, k)[p] = c[p]
      BY PrefixIs
    <3>3. /\ getPrefix(d, k) \in Seq(Inst) /\ Len(getPrefix(d, k)) = k
          /\ \A p \in 1..k : getPrefix(d, k)[p] = d[p]
      BY <3>1, PrefixIs
    <3>4. (\A p \in 1..k : c[p] = d[p]) => getPrefix(c, k) = getPrefix(d, k)
      BY <3>2, <3>3, SeqEqual
    <3>5. QED BY <3>2, <3>3, <3>4
  <2>2. QED BY <2>1
<1>3. 0 \in T
  <2>1. 0 \in 0..n /\ 0 <= m /\ \A p \in 1..0 : c[p] = d[p]
    BY <1>1
  <2>2. QED BY <1>2, <2>1
<1>4. \E k \in 0..n : Q(k)
  <2>1. PICK k \in T : \A j \in T : j <= k
    <3>1. T \in SUBSET (0..n)
      OBVIOUS
    <3> HIDE DEF T
    <3>2. QED BY <1>1, <1>3, <3>1, GreatestNumber
  <2>2. ASSUME k < n, k < m, c[k + 1] = d[k + 1] PROVE FALSE
    <3> HIDE DEF n, m
    <3>1. k \in 0..n /\ k + 1 \in 0..n /\ k + 1 <= m /\ k \in Nat /\ k <= m
      BY <1>1, <2>1, <2>2
    <3>2. \A p \in 1..k : c[p] = d[p]
      BY <1>2, <2>1, <3>1
    <3>3. \A p \in 1..(k + 1) : p \in 1..k \/ p = k + 1
      BY <3>1
    <3>4. \A p \in 1..(k + 1) : c[p] = d[p]
      BY <2>2, <3>2, <3>3
    <3>5. k + 1 \in T
      BY <1>2, <3>1, <3>4
    <3>6. QED BY <2>1, <3>1, <3>5
  <2>3. QED BY <2>1, <2>2
<1>5. r \in 0..n /\ Q(r)
  <2>1. r = CHOOSE k \in 0..n : Q(k)
    BY DEF Common
  <2> HIDE DEF Q, r, n
  <2>2. QED BY <1>4, <2>1
<1> HIDE DEF n, m, r
<1>6. r \in Nat /\ r <= n /\ r <= m
  BY <1>1, <1>5
<1>7. \A p \in 1..r : c[p] = d[p]
  BY <1>2, <1>5
<1>8. r # 0
  <2>1. c[1] = d[1]
    BY ContextIs
  <2>2. 0 < n /\ 0 < m /\ 0 + 1 = 1
    BY <1>1
  <2>3. QED BY <2>1, <2>2, <1>5
<1>9. r % 2 = 1
  <2>1. ASSUME r % 2 = 0 PROVE FALSE
    <3>1. r # n /\ r # m
      BY <2>1, <1>1
    <3>2. r < n /\ r < m /\ r \in 1..n /\ r \in 1..m /\ r \in 1..r
      BY <1>1, <1>6, <1>8, <3>1
    <3>3. c[r + 1] = FirstOf(Target[c[r]])
      BY <2>1, <3>2, ContextIs DEF n
    <3>4. d[r + 1] = FirstOf(Target[d[r]])
      BY <2>1, <3>2, ContextIs DEF m
    <3>5. c[r] = d[r]
      BY <1>7, <3>2
    <3>6. QED BY <1>5, <3>2, <3>3, <3>4, <3>5
  <2>2. QED BY <1>6, <2>1, OddEven
<1>10. r \in 1..n /\ r \in 1..m
  BY <1>1, <1>6, <1>8
<1>11. QED BY <1>5, <1>7, <1>9, <1>10 DEF n, m, r

----------------------------------------------------------------------------
(* What a search says of instructions.                                     *)

(* A way from the entry of the function comes to j, none of B being on it. *)
Arrives(j, B) ==
  /\ j[1] \in Visited({entryBB[getFunction(j)]}, {i[1] : i \in B})
  /\ \A i \in B : i[1] = j[1] => i[2] >= j[2]

LEMMA ArrivesFirst ==
  ASSUME NEW f \in DOMAIN entryBB, NEW B \in SUBSET Inst
  PROVE  Arrives(First(entryBB[f]), B)
<1>1. entryBB[f] \in Block /\ host[entryBB[f]] = f /\ {entryBB[f]} \in SUBSET Block
  BY FlowAssumption
<1>2. First(entryBB[f])[1] = entryBB[f] /\ First(entryBB[f])[2] = 1
  BY <1>1, InstIs
<1>3. entryBB[f] \in Visited({entryBB[f]}, {i[1] : i \in B})
  BY <1>1, VisitedIs
<1>4. \A i \in B : i[2] >= 1
  BY InstIs
<1>5. QED BY <1>1, <1>2, <1>3, <1>4 DEF Arrives, getFunction

LEMMA ArrivesMoves ==
  ASSUME NEW B \in SUBSET Inst, NEW i \in Inst \ B, Arrives(i, B), NEW j, Moves(i, j)
  PROVE  Arrives(j, B)
<1> DEFINE K == {b[1] : b \in B}
           V == Visited({entryBB[getFunction(i)]}, K)
<1>1. j \in Inst /\ getFunction(j) = getFunction(i) /\ i[1] \in Block /\ i[2] \in Nat /\ i[2] <= Size[i[1]]
      /\ Size[i[1]] \in Nat
  BY MovesIs, InstIs
<1>2. entryBB[getFunction(i)] \in Block /\ {entryBB[getFunction(i)]} \in SUBSET Block
  BY <1>1, SuccIs DEF getFunction
<1>3. i[1] \in V /\ \A x \in V \ K : ToSet(succ[x]) \subseteq V
  BY <1>2, VisitedIs DEF Arrives
<1>4. \A b \in B : b = <<b[1], b[2]>> /\ b[2] \in Nat /\ 1 <= b[2] /\ b[2] <= Size[b[1]] /\ i = <<i[1], i[2]>>
  BY InstIs
<1> HIDE DEF V
<1>5. CASE i[2] < Size[i[1]] /\ j = <<i[1], i[2] + 1>>
  <2>1. j[1] = i[1] /\ j[2] = i[2] + 1
    BY <1>5
  <2>2. ASSUME NEW b \in B, b[1] = j[1] PROVE b[2] >= j[2]
    <3>1. b[2] >= i[2]
      BY <2>1, <2>2 DEF Arrives
    <3>2. b[2] # i[2]
      BY <1>4, <2>1, <2>2
    <3>3. QED BY <1>1, <1>4, <2>1, <3>1, <3>2
  <2>3. QED BY <1>1, <1>3, <2>1, <2>2 DEF Arrives, V
<1>6. CASE i[2] = Size[i[1]] /\ \E s \in ToSet(succ[i[1]]) : j = First(s)
  <2>1. PICK s \in ToSet(succ[i[1]]) : j = First(s)
    BY <1>6
  <2>2. s \in Block /\ j[1] = s /\ j[2] = 1
    BY <1>1, <2>1, SuccIs, InstIs
  <2>3. i[1] \notin K
    <3>1. ASSUME NEW b \in B, b[1] = i[1] PROVE FALSE
      <4>1. b[2] >= i[2] /\ b[2] <= i[2]
        BY <1>4, <1>6, <3>1 DEF Arrives
      <4>2. b[2] = i[2]
        BY <1>1, <1>4, <4>1
      <4>3. QED BY <1>4, <3>1, <4>2
    <3>2. QED BY <3>1
  <2>4. j[1] \in V
    BY <1>3, <2>1, <2>2, <2>3
  <2>5. \A b \in B : b[2] >= j[2]
    BY <1>4, <2>2
  <2>6. QED BY <1>1, <2>4, <2>5 DEF Arrives, V
<1>7. QED BY <1>5, <1>6 DEF Moves

LEMMA VisitedEnd ==
  ASSUME NEW b \in Block
  PROVE  Visited({b}, {b}) = {b}
<1>1. {b} \in SUBSET Block /\ {b} \subseteq {b} /\ \A x \in {b} \ {b} : ToSet(succ[x]) \subseteq {b}
  OBVIOUS
<1> DEFINE W == {b}
<1> HIDE DEF W
<1>2. W \in SUBSET Block /\ W \subseteq W /\ \A x \in W \ W : ToSet(succ[x]) \subseteq W
  BY <1>1 DEF W
<1>3. Visited(W, W) \subseteq W /\ W \subseteq Visited(W, W)
  BY <1>2, VisitedIs
<1>4. QED BY <1>3 DEF W

(* Dominance, for instructions: a search that ends in i does not come to   *)
(* what i dominates, nor to a return if i dominates that backwards.        *)
LEMMA DomArrives ==
  ASSUME NEW i \in Inst, NEW j \in Inst, i # j, instDom(i, j, FALSE)
  PROVE  ~Arrives(j, {i})
<1> DEFINE e == entryBB[getFunction(j)]
<1>1. /\ i = <<i[1], i[2]>> /\ j = <<j[1], j[2]>> /\ i[1] \in Block /\ j[1] \in Block
      /\ i[2] \in Nat /\ j[2] \in Nat
  BY InstIs
<1>2. e = entryBB[host[j[1]]] /\ e \in Block
  BY <1>1, SuccIs DEF getFunction
<1>3. {b[1] : b \in {i}} = {i[1]}
  OBVIOUS
<1> HIDE DEF e
<1>4. CASE i[1] = j[1]
  <2>1. i[2] < j[2]
    BY <1>4 DEF instDom, getParent, InOrder
  <2>2. ~(i[2] >= j[2])
    BY <1>1, <2>1
  <2>3. QED BY <1>4, <2>2 DEF Arrives
<1>5. CASE i[1] # j[1]
  <2>1. j[1] \notin Visited({e} \ {i[1]}, {i[1]})
    BY <1>2, <1>5 DEF instDom, getParent, Dominates
  <2>2. j[1] \notin Visited({e}, {i[1]})
    <3>1. CASE e = i[1]
      <4>1. Visited({e}, {i[1]}) = {e}
        BY <1>2, <3>1, VisitedEnd
      <4>2. QED BY <4>1, <3>1, <1>5
    <3>2. CASE e # i[1]
      <4>1. {e} \ {i[1]} = {e}
        BY <3>2
      <4>2. QED BY <4>1, <2>1
    <3>3. QED BY <3>1, <3>2
  <2>3. QED BY <1>3, <2>2 DEF Arrives, e
<1>6. QED BY <1>4, <1>5

LEMMA PostDomArrives ==
  ASSUME NEW f \in DOMAIN entryBB, NEW t \in Inst, instPostDom(First(entryBB[f]), t, FALSE),
         NEW j \in Inst, getFunction(j) = f, Returns(j), j # t
  PROVE  ~Arrives(j, {t})
<1> DEFINE e == entryBB[f]
<1>1. /\ t = <<t[1], t[2]>> /\ j = <<j[1], j[2]>> /\ t[1] \in Block /\ j[1] \in Block
      /\ t[2] \in Nat /\ j[2] \in Nat /\ t[2] <= Size[t[1]] /\ j[2] = Size[j[1]]
  BY InstIs DEF Returns
<1>2. e \in Block /\ First(e)[1] = e
  BY FlowAssumption, InstIs
<1>3. {b[1] : b \in {t}} = {t[1]}
  OBVIOUS
<1>4. ASSUME Arrives(j, {t}) PROVE FALSE
  <2>1. j[1] \in Visited({e}, {t[1]}) /\ (t[1] = j[1] => t[2] >= j[2])
    BY <1>3, <1>4 DEF Arrives
  <2>2. t[1] # j[1]
    <3>1. ASSUME t[1] = j[1] PROVE FALSE
      <4>1. t[2] = j[2]
        BY <1>1, <2>1, <3>1
      <4>2. QED BY <1>1, <3>1, <4>1
    <3>2. QED BY <3>1
  <2>3. e # t[1]
    BY <1>2, <2>1, <2>2, VisitedEnd
  <2>4. \A r \in Visited({e} \ {t[1]}, {t[1]}) \ {t[1]} : succ[r] # <<>>
    BY <1>2, <2>3 DEF instPostDom, PostDominates, getParent
  <2>5. {e} \ {t[1]} = {e}
    BY <2>3
  <2>6. succ[j[1]] = <<>>
    BY DEF Returns
  <2> HIDE DEF e
  <2>7. QED BY <2>1, <2>2, <2>4, <2>5, <2>6
<1>5. QED BY <1>4

(* A way from i on comes to j, none of B being on it after i.              *)
Comes(i, j, B) ==
  \/ i[1] = j[1] /\ i[2] <= j[2] /\ \A b \in B : b[1] = i[1] => ~(i[2] < b[2] /\ b[2] < j[2])
  \/ /\ \A b \in B : b[1] = i[1] => b[2] <= i[2]
     /\ j[1] \in Visited(ToSet(succ[i[1]]), {b[1] : b \in B})
     /\ \A b \in B : b[1] = j[1] => b[2] >= j[2]

LEMMA ComesMoves ==
  ASSUME NEW B \in SUBSET Inst, NEW i \in Inst, NEW j \in Inst, Comes(i, j, B),
         j \notin B \/ j = i, NEW k, Moves(j, k)
  PROVE  Comes(i, k, B)
<1> DEFINE K == {b[1] : b \in B}
           V == Visited(ToSet(succ[i[1]]), K)
<1>1. /\ k \in Inst /\ j[1] \in Block /\ j[2] \in Nat /\ j[2] <= Size[j[1]] /\ Size[j[1]] \in Nat
      /\ i[1] \in Block /\ i[2] \in Nat /\ i = <<i[1], i[2]>> /\ j = <<j[1], j[2]>>
  BY MovesIs, InstIs
<1>2. ToSet(succ[i[1]]) \in SUBSET Block
  BY <1>1, SuccIs
<1>3. ToSet(succ[i[1]]) \subseteq V /\ \A x \in V \ K : ToSet(succ[x]) \subseteq V
  BY <1>2, VisitedIs
<1>4. \A b \in B : b = <<b[1], b[2]>> /\ b[2] \in Nat /\ 1 <= b[2] /\ b[2] <= Size[b[1]]
  BY InstIs
<1> HIDE DEF V, K
<1>5. \A b \in B : b[1] = j[1] /\ b[2] = j[2] => j = i
  BY <1>1, <1>4
<1>6. ASSUME i[1] = j[1], i[2] <= j[2], \A b \in B : b[1] = i[1] => ~(i[2] < b[2] /\ b[2] < j[2])
      PROVE  Comes(i, k, B)
  <2>1. \A b \in B : b[1] = i[1] => ~(i[2] < b[2] /\ b[2] <= j[2])
    BY <1>1, <1>4, <1>5, <1>6
  <2>2. CASE j[2] < Size[j[1]] /\ k = <<j[1], j[2] + 1>>
    <3>1. k[1] = i[1] /\ k[2] = j[2] + 1 /\ i[2] <= k[2]
      BY <1>1, <1>6, <2>2
    <3>2. \A b \in B : b[1] = i[1] => ~(i[2] < b[2] /\ b[2] < k[2])
      BY <1>1, <1>4, <2>1, <3>1
    <3>3. QED BY <3>1, <3>2 DEF Comes
  <2>3. CASE j[2] = Size[j[1]] /\ \E s \in ToSet(succ[j[1]]) : k = First(s)
    <3>1. PICK s \in ToSet(succ[j[1]]) : k = First(s)
      BY <2>3
    <3>2. s \in Block /\ k[1] = s /\ k[2] = 1
      BY <1>1, <3>1, SuccIs, InstIs
    <3>3. \A b \in B : b[1] = i[1] => b[2] <= i[2]
      BY <1>1, <1>4, <1>6, <2>1, <2>3
    <3>4. k[1] \in V
      BY <1>3, <1>6, <3>1, <3>2
    <3>5. \A b \in B : b[2] >= k[2]
      BY <1>4, <3>2
    <3>6. QED BY <3>3, <3>4, <3>5 DEF Comes, V, K
  <2>4. QED BY <2>2, <2>3 DEF Moves
<1>7. ASSUME j # i,
             \A b \in B : b[1] = i[1] => b[2] <= i[2], j[1] \in V,
             \A b \in B : b[1] = j[1] => b[2] >= j[2]
      PROVE  Comes(i, k, B)
  <2>1. CASE j[2] < Size[j[1]] /\ k = <<j[1], j[2] + 1>>
    <3>1. k[1] = j[1] /\ k[2] = j[2] + 1
      BY <2>1
    <3>2. \A b \in B : b[1] = k[1] => b[2] >= k[2]
      BY <1>1, <1>4, <1>5, <1>7, <3>1
    <3>3. QED BY <1>7, <3>1, <3>2 DEF Comes, V, K
  <2>2. CASE j[2] = Size[j[1]] /\ \E s \in ToSet(succ[j[1]]) : k = First(s)
    <3>1. PICK s \in ToSet(succ[j[1]]) : k = First(s)
      BY <2>2
    <3>2. s \in Block /\ k[1] = s /\ k[2] = 1
      BY <1>1, <3>1, SuccIs, InstIs
    <3>3. \A b \in B : b[1] # j[1]
      BY <1>1, <1>4, <1>5, <1>7, <2>2
    <3>4. j[1] \notin K
      BY <3>3 DEF K
    <3>5. k[1] \in V
      BY <1>3, <1>7, <3>1, <3>2, <3>4
    <3>6. \A b \in B : b[2] >= k[2]
      BY <1>4, <3>2
    <3>7. QED BY <1>7, <3>5, <3>6 DEF Comes, V, K
  <2>3. QED BY <2>1, <2>2 DEF Moves
<1>8. CASE j = i
  <2>1. \A b \in B : b[1] = i[1] => ~(i[2] < b[2] /\ b[2] < j[2])
    BY <1>1, <1>4, <1>8
  <2>2. i[2] <= j[2]
    BY <1>1, <1>8
  <2>3. QED BY <1>6, <1>8, <2>1, <2>2
<1>9. QED BY <1>6, <1>7, <1>8 DEF Comes, V, K

LEMMA PostDomComes ==
  ASSUME NEW i \in Inst, NEW t \in Inst, i # t, instPostDom(i, t, FALSE),
         NEW j \in Inst, Returns(j), j # t
  PROVE  ~Comes(i, j, {t})
<1> DEFINE V == Visited(ToSet(succ[i[1]]), {t[1]})
<1>1. /\ t = <<t[1], t[2]>> /\ j = <<j[1], j[2]>> /\ i = <<i[1], i[2]>>
      /\ t[1] \in Block /\ j[1] \in Block /\ i[1] \in Block
      /\ t[2] \in Nat /\ j[2] \in Nat /\ i[2] \in Nat /\ t[2] <= Size[t[1]] /\ j[2] = Size[j[1]]
  BY InstIs DEF Returns
<1>2. {b[1] : b \in {t}} = {t[1]}
  OBVIOUS
<1>3. ASSUME Comes(i, j, {t}) PROVE FALSE
  <2>1. \/ i[1] = j[1] /\ (t[1] = i[1] => ~(i[2] < t[2] /\ t[2] < j[2]))
        \/ (t[1] = i[1] => t[2] <= i[2]) /\ j[1] \in V /\ (t[1] = j[1] => t[2] >= j[2])
    BY <1>2, <1>3 DEF Comes
  <2>2. CASE t[1] = i[1]
    <3>1. i[2] < t[2]
      BY <2>2 DEF instPostDom, getParent, InOrder
    <3>2. i[1] = j[1] /\ ~(t[2] < j[2])
      BY <1>1, <2>1, <2>2, <3>1
    <3>3. t[2] = j[2]
      BY <1>1, <2>2, <3>2
    <3>4. QED BY <1>1, <2>2, <3>2, <3>3
  <2>3. CASE t[1] # i[1]
    <3>1. \A r \in Visited({i[1]} \ {t[1]}, {t[1]}) \ {t[1]} : succ[r] # <<>>
      BY <2>3 DEF instPostDom, getParent, PostDominates
    <3>2. {i[1]} \ {t[1]} = {i[1]}
      BY <2>3
    <3> DEFINE W == {i[1]}
               D == {t[1]}
               U == Visited(W, D)
    <3>a. W \in SUBSET Block /\ i[1] \in W /\ i[1] \notin D /\ ToSet(succ[i[1]]) \in SUBSET Block
      BY <1>1, <2>3, SuccIs
    <3> HIDE DEF W, D
    <3>3. i[1] \in U /\ U \in SUBSET Block /\ \A x \in U \ D : ToSet(succ[x]) \subseteq U
      BY <3>a, VisitedIs
    <3>b. Visited(ToSet(succ[i[1]]), D) \subseteq U
      BY <3>a, <3>3, VisitedIs
    <3>4. V \subseteq Visited({i[1]}, {t[1]}) /\ i[1] \in Visited({i[1]}, {t[1]})
      BY <3>3, <3>b DEF U, W, D
    <3>5. j[1] \in Visited({i[1]}, {t[1]}) /\ j[1] # t[1]
      <4>1. CASE i[1] = j[1]
        BY <3>4, <2>3, <4>1
      <4>2. CASE i[1] # j[1]
        <5>1. j[1] \in V /\ (t[1] = j[1] => t[2] >= j[2])
          BY <2>1, <4>2
        <5>2. t[1] = j[1] => t[2] = j[2]
          BY <1>1, <5>1
        <5>3. QED BY <1>1, <3>4, <5>1, <5>2
      <4>3. QED BY <4>1, <4>2
    <3>6. succ[j[1]] = <<>>
      BY DEF Returns
    <3>7. QED BY <3>1, <3>2, <3>5, <3>6
  <2>4. QED BY <2>2, <2>3
<1>4. QED BY <1>3

----------------------------------------------------------------------------
(* Executions that end at a location: where they are in the activation     *)
(* that the location is in, or is called from.                             *)

LEMMA ActivationIs ==
  ASSUME NEW c \in Contexts
  PROVE  /\ Activation(c) \in SUBSET Locs
         /\ \A x \in Activation(c) : /\ Len(c) \in 1..Len(x.ctx) /\ Len(c) % 2 = 1
                                     /\ \A p \in 1..Len(c) : x.ctx[p] = c[p]
                                     /\ getPrefix(x.ctx, Len(c)) = c
                                     /\ Len(x.ctx) = Len(c) => x.ctx = c
<1>1. Activation(c) \in SUBSET Locs
  BY DEF Activation
<1>2. ASSUME NEW x \in Activation(c)
      PROVE  /\ Len(c) \in 1..Len(x.ctx) /\ Len(c) % 2 = 1
             /\ \A p \in 1..Len(c) : x.ctx[p] = c[p]
             /\ getPrefix(x.ctx, Len(c)) = c
             /\ Len(x.ctx) = Len(c) => x.ctx = c
  <2>1. x.ctx \in Contexts /\ IsPrefix(c, x.ctx)
    BY <1>1, LocIs DEF Activation
  <2>2. /\ Len(c) <= Len(x.ctx) /\ (\A p \in 1..Len(c) : c[p] = x.ctx[p])
        /\ getPrefix(x.ctx, Len(c)) = c
    BY <2>1, IsPrefixIs
  <2>3. Len(c) \in Nat \ {0} /\ Len(c) % 2 = 1 /\ Len(x.ctx) \in Nat
    BY <2>1, ContextIs
  <2>4. Len(x.ctx) = Len(c) => x.ctx = c
    BY <2>1, <2>2, ContextEqual
  <2>5. Len(c) \in 1..Len(x.ctx)
    BY <2>2, <2>3
  <2>6. QED BY <2>2, <2>3, <2>4, <2>5
<1>3. QED BY <1>1, <1>2

LEMMA HereStays ==
  ASSUME NEW s \in Locs, NEW I \in SUBSET Inst,
         \A i \in I \ {s.inst} : \A j : Moves(i, j) => j \in I,
         NEW o \in Activation(s.ctx), At(o, Len(s.ctx)) \in I,
         At(o, Len(s.ctx)) = s.inst => o.ctx = s.ctx
  PROVE  \A x \in Executed({o}, {s}, Activation(s.ctx)) :
           At(x, Len(s.ctx)) \in I /\ (At(x, Len(s.ctx)) = s.inst => x.ctx = s.ctx)
<1> DEFINE c == s.ctx
           k == Len(c)
           A == Activation(c)
           C == {x \in A : At(x, k) \in I /\ (At(x, k) = s.inst => x.ctx = c)}
           W == {o}
           D == {s}
<1>1. c \in Contexts
  BY LocIs
<1>2. A \in SUBSET Locs /\ \A x \in A : /\ k \in 1..Len(x.ctx) /\ k % 2 = 1
                                        /\ \A p \in 1..k : x.ctx[p] = c[p]
                                        /\ Len(x.ctx) = k => x.ctx = c
  BY <1>1, ActivationIs
<1>3. W \in SUBSET Locs /\ C \in SUBSET Locs /\ W \subseteq C
  BY <1>2
<1> HIDE DEF A, k, c
<1>4. ASSUME NEW x \in C, x # s, NEW y \in Follows[x] \cap A
      PROVE  y \in C
  <2>1. x \in Locs /\ y \in Locs /\ k \in 1..Len(x.ctx) /\ k <= Len(y.ctx) /\ k % 2 = 1
    BY <1>2, <1>3
  <2>2. At(x, k) # s.inst
    <3>1. ASSUME At(x, k) = s.inst PROVE FALSE
      <4>1. x.ctx = c
        BY <3>1
      <4>2. At(x, k) = x.inst
        BY <2>1, <4>1, AtIs DEF k
      <4>3. QED BY <1>4, <2>1, <3>1, <4>1, <4>2, LocIs DEF c
    <3>2. QED BY <3>1
  <2>3. At(y, k) = At(x, k) \/ Seen(x, y, k)
    BY <2>1, LevelStep
  <2>4. CASE At(y, k) = At(x, k)
    BY <2>2, <2>4
  <2>5. CASE Seen(x, y, k)
    <3>1. At(y, k) \in I /\ Len(y.ctx) = k
      BY <2>2, <2>5 DEF Seen
    <3>2. y.ctx = c
      BY <1>2, <3>1
    <3>3. QED BY <3>1, <3>2
  <2>6. QED BY <2>3, <2>4, <2>5
<1>5. \A x \in C \ D : Follows[x] \cap A \subseteq C
  BY <1>4
<1> HIDE DEF C, W, D
<1>6. Executed(W, D, A) \subseteq C
  BY <1>2, <1>3, <1>5, ExecutedIs
<1>7. QED BY <1>6 DEF C, W, D, A, k, c

LEMMA CallStays ==
  ASSUME NEW t \in Locs, t.inst \notin Calls, NEW c \in Contexts, Len(t.ctx) = Len(c) + 2,
         IsPrefix(c, t.ctx), instPostDom(Last(t.ctx), t.inst, FALSE),
         NEW I \in SUBSET Inst, \A i \in I \ {At(t, Len(c))} : \A j : Moves(i, j) => j \in I,
         NEW o \in Activation(c), o.ctx = c, At(o, Len(c)) \in I
  PROVE  \A x \in Executed({o}, {t}, Activation(c)) : At(x, Len(c)) \in I
<1> DEFINE k == Len(c)
           A == Activation(c)
           On(x) == IsPrefix(t.ctx, x.ctx)
           C == {x \in A : At(x, k) \in I /\ (On(x) => Arrives(At(x, k + 2), {t.inst}))}
           W == {o}
           D == {t}
<1>1. /\ t.ctx \in Contexts /\ t.inst \in Inst /\ getFunction(t.inst) = getFunction(Last(t.ctx))
      /\ k \in Nat \ {0} /\ k % 2 = 1 /\ Len(t.ctx) = k + 2 /\ t \in A
  BY LocIs, ContextIs DEF Activation
<1>2. A \in SUBSET Locs /\ \A x \in A : /\ k \in 1..Len(x.ctx) /\ k % 2 = 1
                                        /\ \A p \in 1..k : x.ctx[p] = c[p]
                                        /\ Len(x.ctx) = k => x.ctx = c
  BY ActivationIs
<1>3. \A x \in A : On(x) <=> k + 2 <= Len(x.ctx) /\ \A p \in 1..(k + 2) : t.ctx[p] = x.ctx[p]
  BY <1>1, <1>2, LocIs, IsPrefixIs
<1> HIDE DEF A, On, k
<1>4. W \in SUBSET Locs /\ C \in SUBSET Locs /\ W \subseteq C
  <2>1. ~On(o)
    BY <1>1, <1>3 DEF k, A
  <2>2. At(o, k) \in I /\ o \in A
    BY DEF k, A
  <2>3. QED BY <1>2, <2>1, <2>2
<1>5. /\ k + 2 \in 1..Len(t.ctx) /\ k \in 1..Len(t.ctx) /\ (k + 2) % 2 = 1 /\ k < Len(t.ctx)
      /\ k + 2 - 1 = k + 1 /\ k + 1 \in 1..Len(t.ctx) /\ (k + 1) % 2 = 0 /\ k + 1 + 1 = k + 2
  BY <1>1
<1>6. /\ At(t, k) = t.ctx[k + 1] /\ At(t, k) \in Calls /\ Last(t.ctx) = t.ctx[k + 2]
      /\ t.ctx[k + 2] = FirstOf(Target[At(t, k)])
      /\ t.ctx[k + 2] = First(entryBB[getFunction(t.inst)])
  <2>1. At(t, k) = t.ctx[k + 1] /\ At(t, k) \in Calls
    BY <1>1, <1>5, AtIs
  <2>2. Last(t.ctx) = t.ctx[k + 2]
    BY <1>1 DEF Last
  <2>3. t.ctx[k + 2] = FirstOf(Target[t.ctx[k + 1]])
    BY <1>1, <1>5, ContextIs
  <2>4. t.ctx[k + 2] = First(entryBB[getFunction(t.ctx[k + 2])])
    BY <1>1, <1>5, ContextIs
  <2>5. QED BY <1>1, <2>1, <2>2, <2>3, <2>4
(* What returns to the activation has passed t.                            *)
<1>7. ASSUME NEW x \in C, x # t, At(x, k) = At(t, k), Len(x.ctx) = k + 2, Returns(x.inst)
      PROVE  FALSE
  <2>1. /\ x \in Locs /\ x \in A /\ x.ctx \in Contexts /\ x.inst \in Inst
        /\ getFunction(x.inst) = getFunction(Last(x.ctx))
    BY <1>4, LocIs
  <2>2. k \in 1..Len(x.ctx) /\ k < Len(x.ctx) /\ k + 2 \in 1..Len(x.ctx) /\ k + 1 \in 1..Len(x.ctx)
    BY <1>1, <1>7
  <2>3. x.ctx[k + 1] = At(t, k)
    BY <1>1, <1>7, <2>1, <2>2, AtIs
  <2>4. x.ctx[k + 2] = t.ctx[k + 2]
    <3> DEFINE q == k + 1
    <3>1. q \in 1..Len(x.ctx) /\ q % 2 = 0 /\ q + 1 = k + 2 /\ x.ctx[q] = At(t, k)
      BY <1>5, <2>2, <2>3
    <3> HIDE DEF q
    <3>2. x.ctx[q + 1] = FirstOf(Target[x.ctx[q]])
      BY <2>1, <3>1, ContextIs
    <3>3. QED BY <1>6, <3>1, <3>2
  <2>5. \A p \in 1..(k + 2) : p \in 1..k \/ p = k + 1 \/ p = k + 2
    BY <1>1
  <2>6. \A p \in 1..k : t.ctx[p] = x.ctx[p]
    BY <1>1, <1>2, <2>1
  <2>7. \A p \in 1..(k + 2) : t.ctx[p] = x.ctx[p]
    BY <1>6, <2>3, <2>4, <2>5, <2>6
  <2>8. x.ctx = t.ctx
    BY <1>1, <1>7, <2>1, <2>7, ContextEqual
  <2>9. Arrives(At(x, k + 2), {t.inst})
    BY <1>1, <1>3, <1>7, <2>1, <2>7
  <2>10. At(x, k + 2) = x.inst
    BY <1>5, <1>7, <2>1, <2>2, AtIs
  <2>11. x.inst # t.inst
    BY <1>7, <2>1, <2>8, LocIs
  <2> DEFINE f == getFunction(x.inst)
  <2>12. f \in DOMAIN entryBB /\ First(entryBB[f]) = Last(t.ctx)
    <3>1. f = getFunction(t.inst)
      BY <1>1, <2>1, <2>8
    <3>2. host[x.inst[1]] \in DOMAIN entryBB
      BY <2>1, InstIs, SuccIs
    <3>3. QED BY <1>6, <3>1, <3>2 DEF getFunction
  <2>13. ~Arrives(x.inst, {t.inst})
    <3> HIDE DEF f
    <3>1. getFunction(x.inst) = f
      BY DEF f
    <3>2. instPostDom(First(entryBB[f]), t.inst, FALSE)
      BY <2>12
    <3>3. QED BY <1>1, <1>7, <2>1, <2>11, <2>12, <3>1, <3>2, PostDomArrives
  <2>14. QED BY <2>9, <2>10, <2>13
<1>8. ASSUME NEW x \in C, x # t, NEW y \in Follows[x] \cap A
      PROVE  y \in C
  <2>1. x \in Locs /\ x \in A /\ y \in Locs /\ y \in A /\ k \in 1..Len(x.ctx) /\ k <= Len(y.ctx)
        /\ y \in Follows[x] /\ At(x, k) \in I /\ Len(x.ctx) \in Nat /\ Len(y.ctx) \in Nat
    BY <1>2, <1>4, LocIs, ContextIs
  <2>2. At(y, k) \in I
    <3>1. At(y, k) = At(x, k) \/ Seen(x, y, k)
      BY <1>1, <2>1, LevelStep
    <3>2. ASSUME Seen(x, y, k) PROVE At(x, k) # At(t, k)
      BY <1>6, <1>7, <1>8, <3>2 DEF Seen
    <3>3. Seen(x, y, k) => At(y, k) \in I
      BY <2>1, <3>2 DEF Seen, k
    <3>4. QED BY <2>1, <3>1, <3>3
  <2>3. ASSUME On(y) PROVE Arrives(At(y, k + 2), {t.inst})
    <3>1. k + 2 <= Len(y.ctx) /\ \A p \in 1..(k + 2) : t.ctx[p] = y.ctx[p]
      BY <1>3, <2>1, <2>3
    <3>2. k + 2 \in 1..Len(y.ctx) /\ k + 2 \in Nat /\ k + 2 \in 1..(k + 2)
      BY <1>1, <2>1, <3>1
    <3>3. CASE k + 2 <= Len(x.ctx)
      <4>1. k + 2 \in 1..Len(x.ctx)
        BY <1>1, <2>1, <3>3
      <4>2. (\A p \in 1..(k + 2) : y.ctx[p] = x.ctx[p]) /\ (At(y, k + 2) = At(x, k + 2) \/ Seen(x, y, k + 2))
        BY <1>5, <2>1, <3>1, <4>1, LevelStep
      <4>3. On(x)
        BY <1>3, <2>1, <3>1, <3>3, <4>2
      <4>4. Arrives(At(x, k + 2), {t.inst}) /\ At(x, k + 2) \in Inst
        BY <1>5, <2>1, <4>1, <4>3, AtIs
      <4>5. CASE At(y, k + 2) = At(x, k + 2)
        BY <4>4, <4>5
      <4>6. CASE Seen(x, y, k + 2)
        <5>1. At(x, k + 2) # t.inst
          <6>1. CASE x.ctx = y.ctx /\ x.inst = At(x, k + 2)
            <7>1. Len(x.ctx) = k + 2
              BY <4>6, <6>1 DEF Seen
            <7>2. x.ctx = t.ctx
              BY <1>1, <2>1, <3>1, <6>1, <7>1, LocIs, ContextEqual
            <7>3. QED BY <1>8, <2>1, <6>1, <7>2, LocIs
          <6>2. CASE Len(x.ctx) = k + 2 + 2
            <7>1. k + 2 < Len(x.ctx)
              BY <1>1, <6>2
            <7>2. At(x, k + 2) \in Calls
              BY <1>5, <2>1, <4>1, <7>1, AtIs
            <7>3. QED BY <7>2
          <6>3. QED BY <4>6, <6>1, <6>2 DEF Seen
        <5>2. Moves(At(x, k + 2), At(y, k + 2))
          BY <4>6 DEF Seen
        <5>3. {t.inst} \in SUBSET Inst
          BY <1>1
        <5>4. At(x, k + 2) \in Inst \ {t.inst}
          BY <4>4, <5>1
        <5> DEFINE B == {t.inst}
                   i == At(x, k + 2)
                   j == At(y, k + 2)
        <5>5. B \in SUBSET Inst /\ i \in Inst \ B /\ Arrives(i, B) /\ Moves(i, j)
          BY <4>4, <5>2, <5>3, <5>4
        <5> HIDE DEF B, i, j
        <5>6. Arrives(j, B)
          BY <5>5, ArrivesMoves
        <5>7. QED BY <5>6 DEF B, j
      <4>7. QED BY <4>2, <4>5, <4>6
    <3>4. CASE ~(k + 2 <= Len(x.ctx))
      <4>1. Len(x.ctx) < k + 2
        BY <1>1, <2>1, <3>4
      <4>2. At(y, k + 2) = y.inst /\ y.inst = y.ctx[k + 2]
        BY <1>5, <2>1, <3>2, <4>1, LevelNew
      <4>3. At(y, k + 2) = First(entryBB[getFunction(t.inst)])
        BY <1>6, <3>1, <3>2, <4>2
      <4>4. getFunction(t.inst) \in DOMAIN entryBB /\ {t.inst} \in SUBSET Inst
        BY <1>1, InstIs, SuccIs DEF getFunction
      <4> DEFINE B == {t.inst}
                 f == getFunction(t.inst)
      <4> HIDE DEF B, f
      <4>5. f \in DOMAIN entryBB /\ B \in SUBSET Inst
        BY <4>4 DEF B, f
      <4>6. Arrives(First(entryBB[f]), B)
        BY <4>5, ArrivesFirst
      <4>7. QED BY <4>3, <4>6 DEF B, f
    <3>5. QED BY <3>3, <3>4
  <2>4. QED BY <2>1, <2>2, <2>3
<1>9. \A x \in C \ D : Follows[x] \cap A \subseteq C
  BY <1>8
<1> HIDE DEF C, W, D
<1>10. Executed(W, D, A) \subseteq C
  BY <1>2, <1>4, <1>9, ExecutedIs
<1>11. QED BY <1>10 DEF C, W, D, A, k

(* An instruction that dominates what the activation is at was executed.   *)
LEMMA BeforeHere ==
  ASSUME NEW s \in Locs, NEW o \in Activation(s.ctx), o # s,
         instDom(s.inst, At(o, Len(s.ctx)), FALSE)
  PROVE  o \notin Executed({Start(s.ctx)}, {s}, Activation(s.ctx))
<1> DEFINE c == s.ctx
           k == Len(c)
           B == {s.inst}
           I == {i \in Inst : Arrives(i, B)}
           st == Start(c)
<1>1. c \in Contexts /\ s.inst \in Inst /\ k \in 1..k /\ k % 2 = 1 /\ B \in SUBSET Inst
  <2>1. c \in Contexts /\ s.inst \in Inst
    BY LocIs
  <2>2. k \in Nat \ {0} /\ k % 2 = 1
    BY <2>1, ContextIs
  <2>3. B \in SUBSET Inst
    BY <2>1
  <2> HIDE DEF k, B
  <2>4. k \in 1..k
    BY <2>2
  <2>5. QED BY <2>1, <2>2, <2>3, <2>4
<1>2. st \in Locs /\ st.ctx = c /\ st.inst = Last(c)
  BY <1>1, StartIs
<1>3. /\ o \in Locs /\ k \in 1..Len(o.ctx) /\ (Len(o.ctx) = k => o.ctx = c)
      /\ At(o, k) \in Inst
  BY <1>1, ActivationIs, AtIs
<1>4. At(st, k) = st.inst /\ At(st, k) = First(entryBB[getFunction(st.inst)])
  <2>1. k = Len(st.ctx)
    BY <1>2
  <2>2. At(st, k) = st.inst /\ st.ctx[k] = First(entryBB[getFunction(At(st, k))])
    BY <1>1, <1>2, <2>1, AtIs
  <2>3. st.inst = st.ctx[k]
    BY <1>2, <2>1 DEF Last
  <2>4. QED BY <2>2, <2>3
<1>5. getFunction(st.inst) \in DOMAIN entryBB
  BY <1>2, LocIs, InstIs, SuccIs DEF getFunction
<1>6. st \in Activation(c)
  BY <1>1, <1>2, IsPrefixIs DEF Activation
<1> HIDE DEF st, B, k
<1>7. At(st, k) \in I
  BY <1>1, <1>2, <1>4, <1>5, LocIs, ArrivesFirst
<1>8. \A i \in I \ {s.inst} : \A j : Moves(i, j) => j \in I
  <2>1. ASSUME NEW i \in I \ {s.inst}, NEW j, Moves(i, j) PROVE j \in I
    <3>1. i \in Inst \ B /\ Arrives(i, B)
      BY <2>1 DEF B
    <3>2. Arrives(j, B) /\ j \in Inst
      BY <1>1, <2>1, <3>1, ArrivesMoves, MovesIs
    <3>3. QED BY <3>2
  <2>2. QED BY <2>1
<1>9. I \in SUBSET Inst
  OBVIOUS
<1> HIDE DEF I
<1>10. \A x \in Executed({st}, {s}, Activation(c)) : At(x, k) \in I /\ (At(x, k) = s.inst => x.ctx = c)
  BY <1>2, <1>6, <1>7, <1>8, <1>9, HereStays DEF k
<1>11. ASSUME o \in Executed({st}, {s}, Activation(c)) PROVE FALSE
  <2>1. Arrives(At(o, k), B) /\ (At(o, k) = s.inst => o.ctx = c)
    BY <1>10, <1>11 DEF I
  <2>2. At(o, k) # s.inst
    <3>1. ASSUME At(o, k) = s.inst PROVE FALSE
      <4>1. o.ctx = c
        BY <2>1, <3>1
      <4>2. At(o, k) = o.inst
        BY <1>1, <1>3, <4>1, AtIs DEF k
      <4>3. QED BY <1>3, <3>1, <4>1, <4>2, LocIs
    <3>2. QED BY <3>1
  <2>3. instDom(s.inst, At(o, k), FALSE)
    BY DEF k
  <2>4. QED BY <1>1, <1>3, <2>1, <2>2, <2>3, DomArrives DEF B
<1>12. QED BY <1>11 DEF st, k

LEMMA SharedIs ==
  ASSUME NEW l \in Locs, NEW m \in Locs
  PROVE  /\ Shared(l, m) \in Contexts /\ Shared(l, m) = getPrefix(l.ctx, Common(l.ctx, m.ctx))
         /\ Len(Shared(l, m)) = Common(l.ctx, m.ctx)
         /\ l \in Activation(Shared(l, m)) /\ m \in Activation(Shared(l, m))
<1> DEFINE k == Common(l.ctx, m.ctx)
           c == getPrefix(l.ctx, k)
<1>1. l.ctx \in Contexts /\ m.ctx \in Contexts /\ m.ctx # <<>>
  BY LocIs, ContextIs
<1>2. Shared(l, m) = c
  BY <1>1 DEF Shared
<1>3. /\ k \in 1..Len(l.ctx) /\ k \in 1..Len(m.ctx) /\ k % 2 = 1
      /\ c = getPrefix(m.ctx, k) /\ k \in 0..Len(l.ctx)
      /\ k <= Len(l.ctx) /\ k <= Len(m.ctx)
  BY <1>1, CommonIs, ContextIs
<1> HIDE DEF k
<1>4. c \in Contexts /\ Len(c) = k
  BY <1>1, <1>3, PrefixIs
<1>5. IsPrefix(c, l.ctx) /\ IsPrefix(c, m.ctx)
  BY <1>1, <1>3, <1>4, IsPrefixIs
<1>6. QED BY <1>2, <1>4, <1>5 DEF Activation, k

(* To be inevitable from its call on, a location is in what is called, or  *)
(* the branches would lead from one function to another one.               *)
LEMMA InevitableIs ==
  ASSUME NEW l \in Locs, NEW k \in 1..Len(l.ctx), k % 2 = 1, k < Len(l.ctx), Inevitable(l, k + 2)
  PROVE  Len(l.ctx) = k + 2 /\ instPostDom(Last(l.ctx), l.inst, FALSE)
<1> DEFINE n == Len(l.ctx)
<1>1. l.ctx \in Contexts /\ n \in Nat /\ n % 2 = 1
  BY LocIs, ContextIs
<1>2. /\ instPostDom(Last(l.ctx), l.inst, FALSE)
      /\ \A q \in (k + 2)..(n - 1) : instPostDom(l.ctx[q], l.ctx[q + 1], FALSE)
  BY DEF Inevitable
<1>3. k \in Nat /\ k < n /\ k <= n
  BY <1>1
<1> DEFINE q == k + 3
<1>4. q \in (k + 2)..(n - 1) => FALSE
  <2>1. ASSUME q \in (k + 2)..(n - 1) PROVE FALSE
    <3>1. q % 2 = 0 /\ q \in 1..n
      BY <1>1, <1>3, <2>1
    <3> HIDE DEF q
    <3>2. l.ctx[q] \in Calls /\ l.ctx[q + 1] = FirstOf(Target[l.ctx[q]])
      BY <1>1, <3>1, ContextIs
    <3>3. getFunction(l.ctx[q]) = getFunction(l.ctx[q + 1])
      BY <1>2, <2>1 DEF instPostDom
    <3>4. QED BY <3>2, <3>3, CallIs
  <2>2. QED BY <2>1
<1> HIDE DEF n
<1>5. n = k + 2
  BY <1>1, <1>3, <1>4
<1>6. QED BY <1>2, <1>5 DEF n

(* What dom says is executed before, is.                                   *)
LEMMA DomIsBefore ==
  ASSUME NEW t \in Locs, t.inst \notin Calls, NEW o \in Locs, o.inst \notin Calls, t # o,
         dom(t, o, FALSE)
  PROVE  Before(t, o)
<1> DEFINE k == Common(t.ctx, o.ctx)
           c == Shared(t, o)
<1>1. t.ctx \in Contexts /\ o.ctx \in Contexts /\ t.inst \in Inst /\ o.inst \in Inst
  BY LocIs
<1>2. k \in 1..Len(t.ctx) /\ k \in 1..Len(o.ctx) /\ k % 2 = 1 /\ k % 2 # 0
  BY <1>1, CommonIs
<1>3. c \in Contexts /\ Len(c) = k /\ t \in Activation(c) /\ o \in Activation(c)
  BY SharedIs
<1>4. IF k = Len(t.ctx) THEN instDom(At(t, k), At(o, k), FALSE)
      ELSE /\ k = Len(o.ctx) /\ instDom(At(t, k), At(o, k), FALSE)
           /\ Inevitable(t, k + 2)
  BY <1>2 DEF dom, At
<1> HIDE DEF k, c
<1>5. CASE k = Len(t.ctx)
  <2>1. t.ctx = c /\ At(t, k) = t.inst
    BY <1>2, <1>3, <1>5, ActivationIs, AtIs
  <2>2. o \notin Executed({Start(t.ctx)}, {t}, Activation(t.ctx))
    BY <1>3, <1>4, <1>5, <2>1, BeforeHere
  <2>3. QED BY <2>1, <2>2 DEF Before, c
<1>6. CASE k # Len(t.ctx)
  <2>1. k < Len(t.ctx) /\ k = Len(o.ctx) /\ k = Len(c) /\ k \in Nat /\ Len(t.ctx) \in Nat
    <3>1. Len(t.ctx) \in Nat
      BY <1>1, ContextIs
    <3>2. k \in Nat /\ k < Len(t.ctx)
      BY <1>2, <1>6, <3>1
    <3>3. k = Len(o.ctx) /\ k = Len(c)
      BY <1>3, <1>4, <1>6
    <3>4. QED BY <3>1, <3>2, <3>3
  <2>2. Len(t.ctx) = k + 2 /\ instPostDom(Last(t.ctx), t.inst, FALSE)
    BY <1>2, <1>4, <1>6, <2>1, InevitableIs
  <2>3. At(t, k) \in Calls /\ At(t, k) \in Inst /\ At(o, k) = o.inst /\ o.ctx = c
    <3>1. At(t, k) \in Calls /\ At(t, k) \in Inst
      BY <1>2, <2>1, AtIs
    <3>2. At(o, k) = o.inst
      BY <1>2, <2>1, AtIs
    <3>3. o.ctx = c
      BY <1>3, <2>1, ActivationIs
    <3>4. QED BY <3>1, <3>2, <3>3
  <2> DEFINE B == {At(t, k)}
             I == {i \in Inst : Arrives(i, B)}
             st == Start(c)
  <2>4. st \in Activation(c) /\ st.ctx = c /\ st \in Locs /\ st.inst = Last(c)
    <3>1. st \in Locs /\ st.ctx = c /\ st.inst = Last(c)
      BY <1>3, StartIs
    <3>2. IsPrefix(c, c)
      BY <1>2, <1>3, <2>1, IsPrefixIs
    <3>3. QED BY <3>1, <3>2 DEF Activation
  <2>5. At(st, k) \in Inst /\ At(st, k) = First(entryBB[getFunction(st.inst)]) /\ getFunction(st.inst) \in DOMAIN entryBB
    <3>1. k = Len(st.ctx) /\ k \in 1..Len(st.ctx)
      BY <2>1, <2>4, <1>2
    <3>2. At(st, k) = st.inst /\ st.ctx[k] = First(entryBB[getFunction(At(st, k))]) /\ At(st, k) \in Inst
      BY <1>2, <2>4, <3>1, AtIs
    <3>3. st.inst = st.ctx[k]
      BY <2>4, <3>1 DEF Last
    <3>4. getFunction(st.inst) \in DOMAIN entryBB
      BY <3>2, InstIs, SuccIs DEF getFunction
    <3>5. QED BY <3>2, <3>3, <3>4
  <2>6. B \in SUBSET Inst
    BY <2>3
  <2> HIDE DEF B, st
  <2>7. At(st, k) \in I
    BY <2>5, <2>6, ArrivesFirst
  <2>8. \A i \in I \ {At(t, k)} : \A j : Moves(i, j) => j \in I
    <3>1. ASSUME NEW i \in I \ {At(t, k)}, NEW j, Moves(i, j) PROVE j \in I
      <4>1. i \in Inst \ B /\ Arrives(i, B)
        BY <3>1 DEF B
      <4>2. Arrives(j, B) /\ j \in Inst
        BY <2>6, <3>1, <4>1, ArrivesMoves, MovesIs
      <4>3. QED BY <4>2
    <3>2. QED BY <3>1
  <2>9. I \in SUBSET Inst
    OBVIOUS
  <2> HIDE DEF I
  <2>10. IsPrefix(c, t.ctx)
    BY <1>3 DEF Activation
  <2>11. \A x \in Executed({st}, {t}, Activation(c)) : At(x, Len(c)) \in I
    BY <1>3, <2>1, <2>2, <2>4, <2>7, <2>8, <2>9, <2>10, CallStays
  <2>12. ASSUME o \in Executed({st}, {t}, Activation(c)) PROVE FALSE
    <3>1. Arrives(o.inst, {At(t, k)})
      BY <2>1, <2>3, <2>11, <2>12 DEF I, B
    <3>2. instDom(At(t, k), o.inst, FALSE) /\ At(t, k) # o.inst
      BY <1>4, <1>6, <2>3
    <3>3. QED BY <1>1, <2>3, <3>1, <3>2, DomArrives
  <2>13. QED BY <2>12 DEF Before, c, st
<1>7. QED BY <1>5, <1>6

(* What leaves an activation returns from it.                              *)
LEMMA LeavesReturn ==
  ASSUME NEW c \in Contexts, NEW l \in Leaves(c)
  PROVE  l \in Activation(c) /\ l \in Locs /\ l.ctx = c /\ Returns(l.inst) /\ l.inst \in Inst
<1>1. l \in Activation(c) /\ l \in Locs /\ l.ctx = c /\ Follows[l] \cap Activation(c) = {}
  BY DEF Leaves, Activation
<1>2. l.inst \in Inst /\ getFunction(l.inst) = getFunction(Last(c))
  BY <1>1, LocIs
<1>3. l.inst \notin Calls
  <2>1. ASSUME l.inst \in Calls PROVE FALSE
    <3>1. Follows[l] = {Start(Callee(c, l.inst))}
      BY <1>1, <2>1, FollowsIs
    <3>2. Callee(c, l.inst) \in Contexts /\ IsPrefix(c, Callee(c, l.inst))
      BY <1>2, <2>1, CalleeIs
    <3>3. Start(Callee(c, l.inst)) \in Activation(c)
      BY <3>2, StartIs DEF Activation
    <3>4. QED BY <1>1, <3>1, <3>3
  <2>2. QED BY <2>1
<1>4. Returns(l.inst)
  <2>1. ASSUME ~Returns(l.inst) PROVE FALSE
    <3>1. Follows[l] = After(l)
      BY <1>1, <1>3, <2>1, FollowsIs
    <3>2. PICK y \in After(l) : TRUE
      BY <1>1, <2>1, AfterIs
    <3>3. y \in Locs /\ y.ctx = c
      BY <1>1, <3>2, AfterIs DEF Loc
    <3>4. y \in Activation(c)
      BY <1>1, <3>3 DEF Activation
    <3>5. QED BY <1>1, <3>1, <3>2, <3>4
  <2>2. QED BY <2>1
<1>5. QED BY <1>1, <1>2, <1>4

(* What postDom says is executed after, is.                                *)
LEMMA PostDomIsBehind ==
  ASSUME NEW t \in Locs, t.inst \notin Calls, NEW o \in Locs, o.inst \notin Calls, t # o,
         postDom(t, o, FALSE)
  PROVE  Behind(t, o)
<1> DEFINE k == Common(t.ctx, o.ctx)
           c == Shared(t, o)
           src == At(o, k)
<1>1. t.ctx \in Contexts /\ o.ctx \in Contexts /\ t.inst \in Inst /\ o.inst \in Inst /\ o.ctx # <<>>
  BY LocIs, ContextIs
<1>2. k \in 1..Len(t.ctx) /\ k \in 1..Len(o.ctx) /\ k % 2 = 1 /\ k % 2 # 0
  BY <1>1, CommonIs
<1>3. c \in Contexts /\ Len(c) = k /\ t \in Activation(c) /\ o \in Activation(c)
  BY SharedIs
<1>4. IF k = Len(t.ctx) THEN instPostDom(src, At(t, k), FALSE)
      ELSE /\ k = Len(o.ctx) /\ instPostDom(src, At(t, k), FALSE)
           /\ Inevitable(t, k + 2)
  BY <1>1, <1>2 DEF postDom, At
<1> HIDE DEF k, c
<1>5. src \in Inst /\ At(t, k) \in Inst
  BY <1>2, AtIs
<1> HIDE DEF src
<1> DEFINE e == At(t, k)
           B == {e}
           I == {j \in Inst : Comes(src, j, B)}
<1>6. B \in SUBSET Inst /\ I \in SUBSET Inst
  BY <1>5
<1>7. src \in I
  <2>1. src[2] \in Nat /\ src[2] <= src[2]
    BY <1>5, InstIs
  <2>2. ~(src[2] < e[2] /\ e[2] < src[2])
    BY <1>5, InstIs
  <2>3. Comes(src, src, B)
    BY <2>1, <2>2 DEF Comes
  <2>4. QED BY <1>5, <2>3
<1>8. \A i \in I \ {e} : \A j : Moves(i, j) => j \in I
  <2>1. ASSUME NEW i \in I \ {e}, NEW j, Moves(i, j) PROVE j \in I
    <3>1. i \in Inst /\ i \notin B /\ Comes(src, i, B)
      BY <2>1
    <3> HIDE DEF B
    <3>2. Comes(src, j, B) /\ j \in Inst
      BY <1>5, <1>6, <2>1, <3>1, ComesMoves, MovesIs
    <3>3. QED BY <3>2
  <2>2. QED BY <2>1
<1>9. IF k = Len(t.ctx)
      THEN \A x \in Executed({o}, {t}, Activation(c)) : At(x, k) \in I
      ELSE \A x \in Executed({o}, {t}, Activation(c)) : At(x, k) \in I /\ e \in Calls
  <2> HIDE DEF I
  <2>1. CASE k = Len(t.ctx)
    <3>1. t.ctx = c /\ e = t.inst
      <4>1. t.ctx = c
        BY <1>3, <2>1, ActivationIs
      <4>2. e = t.inst
        BY <1>2, <2>1, AtIs
      <4>3. QED BY <4>1, <4>2
    <3>2. src = t.inst => o.ctx = c
      <4>1. CASE k = Len(o.ctx)
        BY <1>3, <4>1, ActivationIs
      <4>2. CASE k < Len(o.ctx)
        <5>1. src \in Calls
          BY <1>2, <4>2, AtIs DEF src
        <5>2. QED BY <5>1
      <4>3. QED BY <1>1, <1>2, <4>1, <4>2, ContextIs
    <3>3. \A i \in I \ {t.inst} : \A j : Moves(i, j) => j \in I
      BY <1>8, <3>1
    <3>4. \A x \in Executed({o}, {t}, Activation(c)) : At(x, k) \in I
      BY <1>3, <1>6, <1>7, <2>1, <3>1, <3>2, <3>3, HereStays DEF src
    <3>5. QED BY <2>1, <3>4
  <2>2. CASE k # Len(t.ctx)
    <3>1. k < Len(t.ctx) /\ k = Len(o.ctx) /\ k = Len(c)
      BY <1>1, <1>2, <1>3, <1>4, <2>2, ContextIs
    <3>2. Len(t.ctx) = k + 2 /\ instPostDom(Last(t.ctx), t.inst, FALSE)
      BY <1>2, <1>4, <2>2, <3>1, InevitableIs
    <3>3. e \in Calls
      BY <1>2, <3>1, AtIs
    <3>4. o.ctx = c
      BY <1>3, <3>1, ActivationIs
    <3>5. IsPrefix(c, t.ctx)
      BY <1>3 DEF Activation
    <3>6. \A x \in Executed({o}, {t}, Activation(c)) : At(x, k) \in I
      BY <1>3, <1>6, <1>7, <1>8, <3>1, <3>2, <3>4, <3>5, CallStays DEF src
    <3>7. QED BY <2>2, <3>3, <3>6
  <2>3. QED BY <2>1, <2>2
<1>10. src # e
  <2>1. CASE k = Len(t.ctx)
    <3>1. t.ctx = c /\ e = t.inst
      <4>1. t.ctx = c
        BY <1>3, <2>1, ActivationIs
      <4>2. e = t.inst
        BY <1>2, <2>1, AtIs
      <4>3. QED BY <4>1, <4>2
    <3>2. CASE k = Len(o.ctx)
      <4>1. o.ctx = c /\ src = o.inst
        <5>1. o.ctx = c
          BY <1>3, <3>2, ActivationIs
        <5>2. src = o.inst
          BY <1>2, <3>2, AtIs DEF src
        <5>3. QED BY <5>1, <5>2
      <4>2. QED BY <3>1, <4>1, LocIs
    <3>3. CASE k < Len(o.ctx)
      <4>1. src \in Calls
        BY <1>2, <3>3, AtIs DEF src
      <4>2. QED BY <3>1, <4>1
    <3>4. QED BY <1>1, <1>2, <3>2, <3>3, ContextIs
  <2>2. CASE k # Len(t.ctx)
    <3>1. k < Len(t.ctx) /\ k = Len(o.ctx)
      BY <1>1, <1>2, <1>4, <2>2, ContextIs
    <3>2. e \in Calls /\ src = o.inst
      BY <1>2, <3>1, AtIs DEF src
    <3>3. QED BY <3>2
  <2>3. QED BY <2>1, <2>2
<1>11. instPostDom(src, e, FALSE)
  BY <1>4
<1>12. ASSUME NEW l \in Leaves(c), l \in Executed({o}, {t}, Activation(c)), l # t PROVE FALSE
  <2>1. /\ l \in Activation(c) /\ l \in Locs /\ l.ctx = c /\ Returns(l.inst) /\ l.inst \in Inst
        /\ l.inst \notin Calls
    BY <1>3, <1>12, LeavesReturn, MovesIs
  <2>2. At(l, k) = l.inst
    <3>1. k = Len(l.ctx) /\ k \in 1..Len(l.ctx)
      BY <1>3, <2>1, ActivationIs
    <3>2. QED BY <1>2, <2>1, <3>1, AtIs
  <2>3. l.inst \in I /\ (k # Len(t.ctx) => e \in Calls)
    BY <1>9, <1>12, <2>2
  <2>4. l.inst # e
    <3>1. CASE k = Len(t.ctx)
      <4>1. t.ctx = c
        BY <1>3, <3>1, ActivationIs
      <4>a. e = t.inst
        BY <1>2, <3>1, AtIs
      <4>2. QED BY <1>12, <2>1, <4>1, <4>a, LocIs
    <3>2. CASE k # Len(t.ctx)
      BY <2>1, <2>3, <3>2
    <3>3. QED BY <3>1, <3>2
  <2>5. Comes(src, l.inst, {e})
    BY <2>3
  <2> HIDE DEF e
  <2>6. ~Comes(src, l.inst, {e})
    BY <1>5, <1>10, <1>11, <2>1, <2>4, PostDomComes DEF e
  <2>7. QED BY <2>5, <2>6
<1>13. Leaves(c) \cap (Executed({o}, {t}, Activation(c)) \ {t}) = {}
  BY <1>12
<1>14. QED BY <1>13 DEF Behind, c

(* The branches at which a location's condition is looked for, in its      *)
(* function and in its callers, have been taken.                           *)
LEMMA CriticalIsBefore ==
  ASSUME NEW l \in Locs, NEW s \in locCriticalBranches(l), s # l
  PROVE  Before(s, l)
<1> DEFINE n == Len(l.ctx)
           Sites == {l} \cup {CallSite(l, p) : p \in {q \in 1..n : q % 2 = 0}}
<1>1. l.ctx \in Contexts /\ l.inst \in Inst /\ n \in Nat \ {0} /\ n % 2 = 1 /\ l.ctx \in Seq(Inst)
  BY LocIs, ContextIs
<1>a. PICK u \in Sites : \E e \in getCriticalBranches(getParent(u.inst)) : s = Loc(First(e[2]), u.ctx)
  BY DEF locCriticalBranches
<1>2. PICK b \in getCriticalBranches(getParent(u.inst)) : s = Loc(First(b[2]), u.ctx)
  BY <1>a
<1>3. PICK k \in 1..n : k % 2 = 1 /\ u.inst = At(l, k) /\ u.ctx = getPrefix(l.ctx, k)
  <2>1. CASE u = l
    <3>1. n \in 1..n
      BY <1>1
    <3>2. At(l, n) = l.inst
      BY <1>1, <3>1, AtIs
    <3>3. getPrefix(l.ctx, n) = l.ctx
      BY <1>1, SubSeqFull DEF getPrefix
    <3>4. QED BY <1>1, <2>1, <3>1, <3>2, <3>3
  <2>2. CASE u \in {CallSite(l, p) : p \in {q \in 1..n : q % 2 = 0}}
    <3>1. PICK p \in 1..n : p % 2 = 0 /\ u = CallSite(l, p)
      BY <2>2
    <3> HIDE DEF n
    <3>2. p - 1 \in 1..n /\ (p - 1) % 2 = 1 /\ p - 1 < n /\ p - 1 + 1 = p
      BY <1>1, <3>1
    <3>3. At(l, p - 1) = l.ctx[p]
      BY <3>2, AtIs DEF n
    <3>4. u.inst = l.ctx[p] /\ u.ctx = getPrefix(l.ctx, p - 1)
      BY <3>1 DEF CallSite, Loc
    <3>5. QED BY <3>2, <3>3, <3>4
  <2>3. QED BY <2>1, <2>2
<1>4. At(l, k) \in Inst /\ getFunction(At(l, k)) = getFunction(l.ctx[k])
  BY <1>3, AtIs
<1> DEFINE a == At(l, k)
           c == u.ctx
<1>5. /\ c \in Contexts /\ Len(c) = k /\ Last(c) = l.ctx[k] /\ IsPrefix(c, l.ctx) /\ l \in Activation(c)
  <2>1. k \in 0..n /\ k \in 1..k
    BY <1>1
  <2>2. c \in Contexts /\ Len(c) = k /\ c[k] = l.ctx[k]
    BY <1>1, <1>3, <2>1, PrefixIs
  <2>3. IsPrefix(c, l.ctx)
    BY <1>1, <1>3, <2>1, <2>2, IsPrefixIs
  <2>4. QED BY <2>2, <2>3 DEF Last, Activation
<1>6. a[1] \in Block /\ a[2] \in Nat /\ 1 <= a[2] /\ getParent(u.inst) = a[1]
  BY <1>3, <1>4, InstIs DEF getParent
<1>7. b[2] \in getDominators(a[1]) \cup {a[1]}
  BY <1>2, <1>6 DEF getCriticalBranches
<1>8. b[2] \in Block /\ host[b[2]] = host[a[1]] /\ (b[2] # a[1] => Dominates(b[2], a[1]))
  BY <1>6, <1>7 DEF getDominators
<1>9. First(b[2]) \in Inst /\ First(b[2])[1] = b[2] /\ First(b[2])[2] = 1
  BY <1>8, InstIs
<1>10. s \in Locs /\ s.inst = First(b[2]) /\ s.ctx = c
  <2>1. getFunction(First(b[2])) = getFunction(Last(c))
    BY <1>4, <1>5, <1>8, <1>9 DEF getFunction
  <2>2. QED BY <1>2, <1>5, <1>9, <2>1, LocIs
<1>11. instDom(s.inst, a, FALSE)
  <2>1. getFunction(s.inst) = getFunction(a)
    BY <1>8, <1>9, <1>10 DEF getFunction
  <2>2. CASE b[2] = a[1]
    <3>1. s.inst[1] = a[1] /\ (s.inst[2] < a[2] \/ s.inst = a)
      <4>1. a = <<a[1], a[2]>>
        BY <1>4, InstIs
      <4>2. s.inst = <<b[2], 1>>
        BY <1>10 DEF First
      <4>3. a[2] = 1 \/ 1 < a[2]
        BY <1>6
      <4> HIDE DEF a
      <4>4. QED BY <2>2, <4>1, <4>2, <4>3
    <3>2. QED BY <2>1, <3>1 DEF instDom, getParent, InOrder
  <2>3. CASE b[2] # a[1]
    BY <1>8, <1>9, <1>10, <2>1, <2>3 DEF instDom, getParent
  <2>4. QED BY <2>2, <2>3
<1>12. l \notin Executed({Start(c)}, {s}, Activation(c))
  <2>1. l \in Activation(s.ctx) /\ At(l, Len(s.ctx)) = a
    BY <1>5, <1>10
  <2>2. QED BY <1>10, <1>11, <2>1, BeforeHere
<1>13. Shared(s, l) = c
  <2> DEFINE r == Common(s.ctx, l.ctx)
  <2>1. /\ r \in 1..Len(c) /\ (r < Len(c) /\ r < Len(l.ctx) => c[r + 1] # l.ctx[r + 1])
    BY <1>1, <1>5, <1>10, CommonIs
  <2> HIDE DEF r
  <2>2. r = Len(c)
    <3>1. ASSUME r < Len(c) PROVE FALSE
      <4>1. r + 1 \in 1..Len(c) /\ r < Len(l.ctx)
        BY <1>1, <1>5, <2>1, <3>1
      <4>2. c[r + 1] = l.ctx[r + 1]
        BY <1>1, <1>5, <4>1, IsPrefixIs
      <4>3. QED BY <2>1, <3>1, <4>1, <4>2
    <3>2. QED BY <1>5, <2>1, <3>1
  <2>3. Shared(s, l) \in Contexts /\ Len(Shared(s, l)) = r /\ s \in Activation(Shared(s, l))
    BY <1>10, SharedIs DEF r
  <2>4. QED BY <1>5, <1>10, <2>2, <2>3, ActivationIs
<1>14. QED BY <1>12, <1>13 DEF Before

----------------------------------------------------------------------------
(* Questions.                                                              *)

QueryOK ==
  query # NoQuery =>
    /\ query.this \in Subjects /\ query.other \in Subjects \cup {Global}
    /\ query.blocklist \in Blocklists /\ {query.this, query.other} \cap query.blocklist = {}

LEMMA QueriesOK == Spec => []QueryOK
<1>1. Init => QueryOK
  BY DEF Init, QueryOK
<1>2. QueryOK /\ [Next]_query => QueryOK'
  <2> SUFFICES ASSUME QueryOK, [Next]_query PROVE QueryOK'
    OBVIOUS
  <2>1. CASE Ask
    <3>1. PICK this \in Subjects, other \in Subjects \cup {Global} :
            \E B \in {b \in Blocklists : {this, other} \cap b = {}} :
              query' = [this |-> this, other |-> other, blocklist |-> B]
      BY <2>1 DEF Ask
    <3>2. PICK B \in {b \in Blocklists : {this, other} \cap b = {}} :
            query' = [this |-> this, other |-> other, blocklist |-> B]
      BY <3>1
    <3>3. query'.this = this /\ query'.other = other /\ query'.blocklist = B
      BY <3>2
    <3>4. QED BY <3>2, <3>3 DEF QueryOK
  <2>2. CASE Answered \/ UNCHANGED query
    BY <2>2 DEF Answered, QueryOK
  <2>3. QED BY <2>1, <2>2 DEF Next
<1>3. QED BY <1>1, <1>2, PTL DEF Spec

LEMMA SubjectsAre ==
  /\ \A l \in Subjects : l \in Locs /\ l.inst \notin Calls
  /\ \A B \in Blocklists : \A b \in B : b \in Locs /\ b.inst \notin Calls
  /\ Global \notin Locs /\ Global.ctx = <<>>
<1>1. Global.ctx = <<>>
  BY DEF Global, Loc
<1>2. Global \notin Locs
  BY <1>1, LocIs, ContextIs
<1>3. QED BY <1>1, <1>2, QueryAssumption

(* The branches that checks are looked for at are those that every         *)
(* execution takes the same way, in every program.                         *)
THEOREM BranchesAlwaysDecide == Spec => []BranchesDecide
<1>1. BranchesDecide
  BY TakenAreCritical DEF BranchesDecide
<1>2. QED BY <1>1, PTL

(* dom, postDom and the critical branches of a location say what is true   *)
(* of every execution, for every program and all pairs of locations.       *)
THEOREM DomIsSound == Spec => []DomSound
<1>1. QueryOK => DomSound
  <2> SUFFICES ASSUME QueryOK, Asked, query.blocklist = {}
               PROVE  /\ query.other \notin {Global, query.this} =>
                           /\ dom(query.this, query.other, FALSE) => Before(query.this, query.other)
                           /\ postDom(query.this, query.other, FALSE) => Behind(query.this, query.other)
                      /\ query.other = Global =>
                           \A s \in locCriticalBranches(query.this) \ {query.this} : Before(s, query.this)
    BY DEF DomSound
  <2>1. query.this \in Subjects /\ query.other \in Subjects \cup {Global}
    BY DEF QueryOK, Asked
  <2>2. query.this \in Locs /\ query.this.inst \notin Calls
    BY <2>1, SubjectsAre
  <2>3. ASSUME query.other \notin {Global, query.this}
        PROVE  query.other \in Locs /\ query.other.inst \notin Calls /\ query.this # query.other
    BY <2>1, <2>3, SubjectsAre
  <2>4. QED BY <2>2, <2>3, DomIsBefore, PostDomIsBehind, CriticalIsBefore
<1>2. QED BY <1>1, QueriesOK, PTL

----------------------------------------------------------------------------
(* What blocks in a function: the blocking instructions of its context and *)
(* the calls whose callees cannot be passed.                               *)

LEMMA Deepest ==
  ASSUME NEW T \in SUBSET Contexts, T # {}
  PROVE  \E d \in T : \A e \in T : IsPrefix(d, e) => e = d
<1> DEFINE Ups(d) == {e \in T : IsPrefix(d, e) /\ e # d}
           F == {Ups(d) : d \in T}
<1>1. IsFiniteSet(T)
  BY ContextAssumption, FS_Subset
<1>2. F \in SUBSET SUBSET T /\ F # {}
  <2>1. \A x \in F : x \in SUBSET T
    OBVIOUS
  <2>2. PICK d \in T : TRUE
    OBVIOUS
  <2>3. Ups(d) \in F
    BY <2>2
  <2>4. QED BY <2>1, <2>3
<1>3. PICK x \in F : \A y \in F : y \subseteq x => y = x
  <2> HIDE DEF F
  <2>1. QED BY <1>1, <1>2, LeastSubset
<1>4. PICK d \in T : x = Ups(d)
  BY <1>3
<1>5. ASSUME NEW e \in T, IsPrefix(d, e), e # d PROVE FALSE
  <2>1. d \in Contexts /\ e \in Contexts /\ Len(d) \in Nat /\ Len(e) \in Nat
    BY ContextIs
  <2>2. Len(d) <= Len(e) /\ \A p \in 1..Len(d) : d[p] = e[p]
    BY <1>5, <2>1, IsPrefixIs
  <2>3. ASSUME NEW g \in Ups(e) PROVE g \in Ups(d)
    <3>1. g \in Contexts /\ IsPrefix(e, g) /\ Len(g) \in Nat
      BY ContextIs
    <3>2. Len(e) <= Len(g) /\ \A p \in 1..Len(e) : e[p] = g[p]
      BY <2>1, <3>1, IsPrefixIs
    <3>3. IsPrefix(d, g)
      <4>1. Len(d) <= Len(g) /\ \A p \in 1..Len(d) : p \in 1..Len(e)
        BY <2>1, <2>2, <3>1, <3>2
      <4>2. QED BY <2>1, <2>2, <3>1, <3>2, <4>1, IsPrefixIs
    <3>4. g # d
      <4>1. ASSUME g = d PROVE FALSE
        <5>1. Len(e) = Len(d)
          BY <2>1, <2>2, <3>2, <4>1
        <5>2. e = d
          BY <2>1, <2>2, <5>1, ContextEqual
        <5>3. QED BY <1>5, <5>2
      <4>2. QED BY <4>1
    <3>5. QED BY <3>3, <3>4
  <2>4. Ups(e) = Ups(d)
    BY <1>3, <1>4, <2>3
  <2>5. e \in Ups(d)
    BY <1>5
  <2>6. QED BY <2>4, <2>5
<1>6. QED BY <1>5

Allowed(bl) == \A b \in bl : b \in Locs /\ b.inst \notin Calls

LEMMA EnteredIs ==
  ASSUME NEW bl, Allowed(bl)
  PROVE  /\ Entered(bl) \in SUBSET Contexts
         /\ \A b \in bl : b.ctx \in Entered(bl)
         /\ \A d \in Entered(bl), c \in Contexts : IsPrefix(c, d) => c \in Entered(bl)
<1>1. \A e : e \in Entered(bl) <=>
         \E b \in bl : \E k \in 1..Len(b.ctx) : k % 2 = 1 /\ e = getPrefix(b.ctx, k)
  BY DEF Entered
<1>2. ASSUME NEW b \in bl
      PROVE  b.ctx \in Contexts /\ Len(b.ctx) \in 1..Len(b.ctx) /\ Len(b.ctx) % 2 = 1 /\ getPrefix(b.ctx, Len(b.ctx)) = b.ctx
             /\ \A k \in 1..Len(b.ctx) : k \in 0..Len(b.ctx)
  <2>1. b.ctx \in Contexts
    BY LocIs DEF Allowed
  <2>2. b.ctx \in Seq(Inst) /\ Len(b.ctx) \in Nat \ {0} /\ Len(b.ctx) % 2 = 1
    BY <2>1, ContextIs
  <2>3. getPrefix(b.ctx, Len(b.ctx)) = b.ctx
    BY <2>2, SubSeqFull DEF getPrefix
  <2> DEFINE n == Len(b.ctx)
  <2>4. n \in Nat \ {0} => n \in 1..n /\ \A k \in 1..n : k \in 0..n
    <3> HIDE DEF n
    <3>1. QED OBVIOUS
  <2> HIDE DEF n
  <2>5. QED BY <2>1, <2>2, <2>3, <2>4 DEF n
<1>3. Entered(bl) \in SUBSET Contexts
  <2>1. ASSUME NEW e \in Entered(bl) PROVE e \in Contexts
    <3>1. PICK b \in bl : \E k \in 1..Len(b.ctx) : k % 2 = 1 /\ e = getPrefix(b.ctx, k)
      BY <1>1
    <3>2. PICK k \in 1..Len(b.ctx) : k % 2 = 1 /\ e = getPrefix(b.ctx, k)
      BY <3>1
    <3>3. b.ctx \in Contexts /\ k \in 0..Len(b.ctx)
      BY <1>2
    <3>4. QED BY <3>2, <3>3, PrefixIs
  <2>2. QED BY <2>1
<1>4. \A b \in bl : b.ctx \in Entered(bl)
  BY <1>1, <1>2
<1>5. ASSUME NEW d \in Entered(bl), NEW c \in Contexts, IsPrefix(c, d)
      PROVE  c \in Entered(bl)
  <2>1. PICK b \in bl : \E k \in 1..Len(b.ctx) : k % 2 = 1 /\ d = getPrefix(b.ctx, k)
    BY <1>1
  <2>2. PICK k \in 1..Len(b.ctx) : k % 2 = 1 /\ d = getPrefix(b.ctx, k)
    BY <2>1
  <2>3. b.ctx \in Contexts /\ d \in Contexts /\ Len(d) = k /\ \A p \in 1..k : d[p] = b.ctx[p]
    BY <1>2, <1>3, <2>2, PrefixIs
  <2>4. Len(c) <= Len(d) /\ (\A p \in 1..Len(c) : c[p] = d[p]) /\ Len(c) \in Nat \ {0} /\ Len(c) % 2 = 1
    BY <1>5, <2>3, IsPrefixIs, ContextIs
  <2>5. Len(c) \in 1..Len(b.ctx) /\ Len(c) <= Len(b.ctx) /\ \A p \in 1..Len(c) : p \in 1..k
    <3>1. Len(b.ctx) \in Nat
      BY <2>3, ContextIs
    <3>2. QED BY <2>2, <2>3, <2>4, <3>1
  <2>6. \A p \in 1..Len(c) : c[p] = b.ctx[p]
    BY <2>3, <2>4, <2>5
  <2>7. c = getPrefix(b.ctx, Len(c))
    BY <2>3, <2>5, <2>6, IsPrefixIs
  <2>8. QED BY <1>1, <2>4, <2>5, <2>7
<1>6. QED BY <1>3, <1>4, <1>5

LEMMA PrefixNumber ==
  ASSUME NEW c \in Contexts, NEW d \in Contexts
  PROVE  /\ isPrefix(c, d) = 0 <=> c = d
         /\ isPrefix(c, d) > 0 <=> IsPrefix(c, d) /\ d # c
<1>1. Len(c) \in Nat \ {0}
  BY ContextIs
<1>2. IsPrefix(c, c)
  BY <1>1, IsPrefixIs
<1>3. QED BY <1>1, <1>2 DEF isPrefix

(* The recursion of getBlockersInCurrFunc ends: it has a result for every  *)
(* context that it enters.                                                 *)
LEMMA InEnteredIs ==
  ASSUME NEW bl, Allowed(bl)
  PROVE  \A d \in Entered(bl) : InEntered(bl)[d] = getBlockersInCurrFunc(d, bl)
<1> DEFINE E == Entered(bl)
           Above(c) == {x \in E : isPrefix(c, x) > 0}
           Solves(f, U) == \A d \in U : f[d] = BlockersIn(d, bl, f)
           F == {U \in SUBSET E : (\A d \in U : Above(d) \subseteq U) /\ \E f : Solves(f, U)}
<1>1. E \in SUBSET Contexts /\ IsFiniteSet(E)
  BY EnteredIs, ContextAssumption, FS_Subset
<1>2. ASSUME NEW c, NEW f, NEW g, \A e \in Above(c) : f[e] = g[e]
      PROVE  BlockersIn(c, bl, f) = BlockersIn(c, bl, g)
  <2>1. [e \in Above(c) |-> f[e]] = [e \in Above(c) |-> g[e]]
    BY <1>2
  <2>2. QED BY <2>1 DEF BlockersIn
<1>3. {} \in F
  OBVIOUS
<1>4. PICK U \in F : \A V \in F : U \subseteq V => V = U
  <2>1. F \in SUBSET SUBSET E /\ F # {}
    BY <1>3
  <2> HIDE DEF F, E
  <2>2. QED BY <1>1, <2>1, GreatestSubset
<1>5. U = E
  <2>1. ASSUME U # E PROVE FALSE
    <3> DEFINE T == E \ U
    <3>1. T \in SUBSET Contexts /\ T # {}
      BY <1>1, <1>4, <2>1
    <3>2. PICK d \in T : \A e \in T : IsPrefix(d, e) => e = d
      <4> HIDE DEF T
      <4>1. QED BY <3>1, Deepest
    <3>3. d \in E /\ d \notin U /\ Above(d) \subseteq U
      <4>1. ASSUME NEW e \in E, isPrefix(d, e) > 0 PROVE e \in U
        <5>1. IsPrefix(d, e) /\ e # d
          BY <1>1, <3>2, <4>1, PrefixNumber
        <5>2. QED BY <3>2, <5>1
      <4>2. QED BY <3>2, <4>1
    <3>4. PICK f : Solves(f, U)
      BY <1>4
    <3> DEFINE V == U \cup {d}
               g == [e \in V |-> IF e = d THEN BlockersIn(d, bl, f) ELSE f[e]]
    <3>5. \A e \in U : g[e] = f[e]
      BY <3>3
    <3>6. \A e \in V : Above(e) \subseteq U
      BY <1>4, <3>3
    <3>7. \A e \in V : BlockersIn(e, bl, g) = BlockersIn(e, bl, f)
      <4>1. ASSUME NEW e \in V PROVE BlockersIn(e, bl, g) = BlockersIn(e, bl, f)
        <5>1. \A a \in Above(e) : g[a] = f[a]
          BY <3>5, <3>6
        <5> HIDE DEF g, Above
        <5>2. QED BY <1>2, <5>1
      <4>2. QED BY <4>1
    <3>8. Solves(g, V)
      <4>1. g[d] = BlockersIn(d, bl, f)
        OBVIOUS
      <4>2. \A e \in U : g[e] = BlockersIn(e, bl, f)
        BY <3>4, <3>5
      <4> HIDE DEF g
      <4>3. QED BY <3>7, <4>1, <4>2
    <3>9. V \in F
      <4> HIDE DEF g
      <4>1. V \in SUBSET E /\ \A e \in V : Above(e) \subseteq V
        BY <1>4, <3>3, <3>6
      <4>2. QED BY <3>8, <4>1
    <3>10. QED BY <1>4, <3>3, <3>9
  <2>2. QED BY <2>1
<1>6. PICK f : Solves(f, E)
  BY <1>4, <1>5
<1> DEFINE h == [d \in E |-> f[d]]
           Eq(b) == b = [d \in E |-> BlockersIn(d, bl, b)]
<1>7. Eq(h)
  <2>1. \A d \in E : BlockersIn(d, bl, h) = BlockersIn(d, bl, f)
    <3>1. \A d \in E : \A e \in Above(d) : h[e] = f[e]
      OBVIOUS
    <3> HIDE DEF h, Above
    <3>2. QED BY <1>2, <3>1
  <2>2. QED BY <1>6, <2>1
<1>8. InEntered(bl) = CHOOSE b : Eq(b)
  BY DEF InEntered
<1>9. Eq(InEntered(bl))
  <2> HIDE DEF Eq, h
  <2>1. QED BY <1>7, <1>8
<1>10. QED BY <1>9 DEF getBlockersInCurrFunc

Bl(c, bl) == getBlockersInCurrFunc(c, bl)

(* A call that blocks: its callee cannot be passed.                        *)
CallBlocked(i, c, bl) ==
  /\ i \in Calls /\ getFunction(i) = getFunction(Last(c))
  /\ ~Passable(FirstOf(Target[i]), Bl(Callee(c, i), bl))

(* What is on a context that a blocking one extends.                       *)
LEMMA EnteredNext ==
  ASSUME NEW bl, Allowed(bl), NEW c \in Contexts, NEW d \in Entered(bl), isPrefix(c, d) > 0
  PROVE  /\ d[Len(c) + 1] \in Calls /\ getFunction(d[Len(c) + 1]) = getFunction(Last(c))
         /\ Callee(c, d[Len(c) + 1]) \in Entered(bl)
         /\ Len(d) = Len(c) + 2 => d = Callee(c, d[Len(c) + 1])
<1> DEFINE n == Len(c)
           q == n + 1
           i == d[q]
<1>1. d \in Contexts /\ IsPrefix(c, d) /\ d # c
  BY EnteredIs, PrefixNumber
<1>2. n \in Nat \ {0} /\ n % 2 = 1 /\ Len(d) \in Nat /\ Len(d) % 2 = 1
  BY <1>1, ContextIs
<1>3. n <= Len(d) /\ \A p \in 1..n : c[p] = d[p]
  BY <1>1, IsPrefixIs
<1>4. n # Len(d)
  BY <1>1, <1>3, ContextEqual
<1> HIDE DEF n
<1>5. n < Len(d) /\ n \in 1..n /\ n + 2 <= Len(d)
  BY <1>2, <1>3, <1>4
<1>6. q \in 1..Len(d) /\ q % 2 = 0 /\ q - 1 = n /\ q + 1 = n + 2
  BY <1>2, <1>5, OddEven
<1> HIDE DEF q
<1>7. /\ d[q] \in Calls /\ getFunction(d[q]) = getFunction(d[q - 1])
      /\ d[q + 1] = FirstOf(Target[d[q]]) /\ q + 1 \in 1..Len(d)
  BY <1>1, <1>6, ContextIs
<1>8. i \in Calls /\ getFunction(i) = getFunction(Last(c))
  BY <1>3, <1>5, <1>6, <1>7 DEF Last, n
<1> DEFINE e == Callee(c, i)
<1>9. e \in Contexts /\ Len(e) = n + 2 /\ (\A p \in 1..n : e[p] = c[p])
      /\ e[n + 1] = i /\ e[n + 2] = FirstOf(Target[i])
  BY <1>8, CalleeIs DEF n
<1>10. \A p \in 1..(n + 2) : p \in 1..n \/ p = n + 1 \/ p = n + 2
  BY <1>2
<1> HIDE DEF e
<1>11. \A p \in 1..Len(e) : e[p] = d[p]
  BY <1>3, <1>6, <1>7, <1>9, <1>10 DEF q
<1>12. IsPrefix(e, d)
  BY <1>1, <1>5, <1>9, <1>11, IsPrefixIs
<1>13. e \in Entered(bl)
  BY <1>9, <1>12, EnteredIs
<1>14. Len(d) = n + 2 => d = e
  BY <1>1, <1>9, <1>11, ContextEqual
<1>15. QED BY <1>8, <1>13, <1>14 DEF n, q, e

LEMMA NotEntered ==
  ASSUME NEW bl, Allowed(bl), NEW c \in Contexts, c \notin Entered(bl)
  PROVE  Bl(c, bl) = {}
<1>1. ASSUME NEW b \in bl PROVE isPrefix(c, b.ctx) # 0
  <2>1. b.ctx \in Entered(bl) /\ b.ctx \in Contexts
    BY EnteredIs
  <2>2. QED BY <2>1, PrefixNumber
<1>2. ASSUME NEW d \in Entered(bl) PROVE ~(isPrefix(c, d) > 0)
  <2>1. d \in Contexts
    BY EnteredIs
  <2>2. QED BY <2>1, EnteredIs, PrefixNumber
<1> DEFINE A == {x \in Entered(bl) : isPrefix(c, x) > 0}
           g == [e \in A |-> InEntered(bl)[e]]
<1>3. A = {}
  BY <1>2
<1>4. CallsOn(c, g) = {}
  <2>1. DOMAIN g = {}
    BY <1>3
  <2> HIDE DEF g
  <2>2. QED BY <2>1 DEF CallsOn
<1>5. BlockingCalls(c, g) = {}
  <2> HIDE DEF g
  <2>1. QED BY <1>4 DEF BlockingCalls
<1>6. Bl(c, bl) = {b.inst : b \in {x \in bl : isPrefix(c, x.ctx) = 0}} \cup BlockingCalls(c, g)
  BY DEF Bl, getBlockersInCurrFunc, BlockersIn
<1>7. QED BY <1>1, <1>5, <1>6

LEMMA PassableFree ==
  ASSUME NEW f
  PROVE  Passable(FirstOf(f), {})
<1>1. Cardinality({}) # 1
  BY FS_EmptySet
<1>2. FirstOf(f) # None
  BY DEF FirstOf, First, None
<1>3. isPotentiallyReachable(FirstOf(f), None, {})
  BY <1>2 DEF isPotentiallyReachable, ToReturn
<1>4. QED BY <1>1, <1>3 DEF Passable

LEMMA BlIs ==
  ASSUME NEW bl, Allowed(bl), NEW c \in Contexts
  PROVE  /\ Bl(c, bl) \in SUBSET Inst
         /\ \A i \in Bl(c, bl) : getFunction(i) = getFunction(Last(c))
         /\ \A i : i \in Bl(c, bl) <=> Loc(i, c) \in bl \/ CallBlocked(i, c, bl)
<1> DEFINE A == {x \in Entered(bl) : isPrefix(c, x) > 0}
           g == [e \in A |-> InEntered(bl)[e]]
           n == Len(c)
<1>1. Bl(c, bl) = {b.inst : b \in {x \in bl : isPrefix(c, x.ctx) = 0}} \cup BlockingCalls(c, g)
  BY DEF Bl, getBlockersInCurrFunc, BlockersIn
<1>2. \A i : Loc(i, c) \in bl <=> i \in {b.inst : b \in {x \in bl : isPrefix(c, x.ctx) = 0}}
  <2>1. \A b \in bl : b.ctx \in Contexts /\ b = Loc(b.inst, b.ctx) /\ (isPrefix(c, b.ctx) = 0 <=> c = b.ctx)
    <3>1. \A b \in bl : b.ctx \in Contexts /\ b = Loc(b.inst, b.ctx)
      BY LocIs DEF Allowed
    <3>2. QED BY <3>1, PrefixNumber
  <2>2. \A i : Loc(i, c).inst = i /\ Loc(i, c).ctx = c
    BY DEF Loc
  <2>3. QED BY <2>1, <2>2
<1>3. \A d \in A : g[d] = Bl(d, bl) /\ d \in Contexts /\ d \in Entered(bl) /\ isPrefix(c, d) > 0
  BY EnteredIs, InEnteredIs DEF Bl
<1>4. DOMAIN g = A
  OBVIOUS
<1>5. ASSUME NEW i \in Calls, getFunction(i) = getFunction(Last(c)), Callee(c, i) \in Entered(bl)
      PROVE  /\ Callee(c, i) \in A /\ i \in CallsOn(c, g)
             /\ bypassCall(c, i, g) <=> Passable(FirstOf(Target[i]), Bl(Callee(c, i), bl))
  <2> DEFINE e == Callee(c, i)
             f == FirstOf(Target[i])
  <2>1. /\ e \in Contexts /\ Len(e) = n + 2 /\ (\A p \in 1..n : e[p] = c[p])
        /\ e[n + 1] = i /\ e[n + 2] = f /\ IsPrefix(c, e) /\ n \in Nat
    BY <1>5, CalleeIs, ContextIs
  <2>2. Len(e) # Len(c)
    BY <2>1
  <2>3. e # c
    BY <2>2
  <2>4. e \in A
    BY <1>5, <2>1, <2>3, PrefixNumber
  <2>5. Last(e) = f /\ IsPrefix(Append(c, i), e)
    <3>1. Last(e) = f
      BY <2>1 DEF Last
    <3>2. IsPrefix(Append(c, i), e)
      <4>1. c \in Seq(Inst) /\ i \in Inst /\ e \in Seq(Inst)
        BY <2>1, ContextIs, CallIs
      <4> DEFINE a == Append(c, i)
      <4>2. a \in Seq(Inst) /\ Len(a) = n + 1 /\ (\A p \in 1..n : a[p] = c[p]) /\ a[n + 1] = i
        BY <4>1, AppendProperties
      <4> HIDE DEF e, a, n
      <4>3. \A p \in 1..(n + 1) : p \in 1..n \/ p = n + 1
        BY <2>1
      <4>4. \A p \in 1..(n + 1) : a[p] = e[p]
        BY <2>1, <4>2, <4>3
      <4>5. SubSeq(a, 1, n + 1) = a
        BY <4>2, SubSeqFull
      <4>6. n + 1 \in 0..Len(e)
        BY <2>1
      <4>7. getPrefix(e, n + 1) \in Seq(Inst) /\ Len(getPrefix(e, n + 1)) = n + 1
            /\ \A p \in 1..(n + 1) : getPrefix(e, n + 1)[p] = e[p]
        BY <2>1, <4>6, PrefixIs
      <4>8. a = getPrefix(e, n + 1)
        BY <4>2, <4>4, <4>7, SeqEqual
      <4>9. n + 1 <= Len(e)
        BY <2>1
      <4>10. IsPrefix(a, e)
        BY <4>2, <4>5, <4>8, <4>9 DEF IsPrefix, getPrefix
      <4>11. QED BY <4>10 DEF a
    <3>3. QED BY <3>1, <3>2
  <2>6. i \in CallsOn(c, g)
    <3> HIDE DEF g, e
    <3>1. i = e[Len(c) + 1]
      BY <2>1 DEF n
    <3>2. QED BY <1>3, <1>4, <2>4, <3>1 DEF CallsOn
  <2>7. ASSUME NEW d \in A, Len(d) = Len(c) + 2, IsPrefix(Append(c, i), d)
        PROVE  d = e
    <3>1. d = Callee(c, d[Len(c) + 1])
      BY <1>3, <2>7, EnteredNext
    <3>2. d[Len(c) + 1] = i
      <4>1. c \in Seq(Inst) /\ i \in Inst /\ d \in Contexts /\ Len(c) \in Nat
        BY <1>3, ContextIs, CallIs
      <4> DEFINE a == Append(c, i)
                 q == Len(c) + 1
      <4>2. a \in Seq(Inst) /\ Len(a) = q /\ a[q] = i
        BY <4>1, AppendProperties
      <4>3. SubSeq(a, 1, q) = a
        BY <4>2, SubSeqFull
      <4>4. q \in 0..Len(d) /\ q \in 1..q
        BY <4>1, <2>7
      <4>5. a = getPrefix(d, q)
        BY <2>7, <4>2, <4>3 DEF IsPrefix, getPrefix
      <4> HIDE DEF a, q
      <4>6. \A p \in 1..q : getPrefix(d, q)[p] = d[p]
        BY <4>1, <4>4, PrefixIs
      <4>7. QED BY <4>2, <4>4, <4>5, <4>6 DEF q
    <3>3. QED BY <3>1, <3>2
  <2>8. bypassCall(c, i, g) <=> \E d \in A : /\ Len(d) = Len(c) + 2 /\ IsPrefix(Append(c, i), d)
                                            /\ Passable(Last(d), g[d])
    <3> HIDE DEF g, A
    <3>1. QED BY <1>4 DEF bypassCall
  <2>9. g[e] = Bl(e, bl)
    BY <1>3, <2>4
  <2> HIDE DEF A, g, f
  <2>10. \A d \in A : Len(d) = Len(c) + 2 /\ IsPrefix(Append(c, i), d) <=> d = e
    <3>1. Len(e) = Len(c) + 2
      BY <2>1 DEF n
    <3> HIDE DEF e
    <3>2. QED BY <2>5, <2>7, <3>1
  <2>11. bypassCall(c, i, g) <=> Passable(f, Bl(e, bl))
    <3> HIDE DEF e
    <3>1. QED BY <2>4, <2>5, <2>8, <2>9, <2>10
  <2>12. QED BY <2>4, <2>6, <2>11 DEF f
<1>6. ASSUME NEW i \in CallsOn(c, g)
      PROVE  i \in Calls /\ getFunction(i) = getFunction(Last(c)) /\ Callee(c, i) \in Entered(bl)
  <2>1. PICK d \in A : i = d[Len(c) + 1]
    BY <1>3, <1>4 DEF CallsOn
  <2>2. QED BY <1>3, <2>1, EnteredNext
<1>7. \A i : i \in BlockingCalls(c, g) <=> CallBlocked(i, c, bl)
  <2>1. ASSUME NEW i, CallBlocked(i, c, bl) PROVE Callee(c, i) \in Entered(bl)
    <3>1. Callee(c, i) \in Contexts
      BY <2>1, CalleeIs DEF CallBlocked
    <3>2. QED BY <2>1, <3>1, NotEntered, PassableFree DEF CallBlocked
  <2>2. ASSUME NEW i, CallBlocked(i, c, bl) PROVE i \in BlockingCalls(c, g)
    <3>1. i \in CallsOn(c, g) /\ ~bypassCall(c, i, g)
      BY <1>5, <2>1, <2>2 DEF CallBlocked
    <3> HIDE DEF g
    <3>2. QED BY <3>1 DEF BlockingCalls
  <2>3. ASSUME NEW i \in BlockingCalls(c, g) PROVE CallBlocked(i, c, bl)
    <3>1. i \in CallsOn(c, g) /\ ~bypassCall(c, i, g)
      <4> HIDE DEF g
      <4>1. QED BY DEF BlockingCalls
    <3>2. QED BY <1>5, <1>6, <3>1 DEF CallBlocked
  <2>4. QED BY <2>2, <2>3
<1>8. \A i : i \in Bl(c, bl) <=> Loc(i, c) \in bl \/ CallBlocked(i, c, bl)
  <2> HIDE DEF g
  <2>1. QED BY <1>1, <1>2, <1>7
<1>9. ASSUME NEW i \in Bl(c, bl) PROVE i \in Inst /\ getFunction(i) = getFunction(Last(c))
  <2>1. CASE Loc(i, c) \in bl
    <3>1. Loc(i, c) \in Locs /\ Loc(i, c).inst = i /\ Loc(i, c).ctx = c
      BY <2>1 DEF Allowed, Loc
    <3>2. QED BY <3>1, LocIs
  <2>2. CASE CallBlocked(i, c, bl)
    BY <2>2, CallIs DEF CallBlocked
  <2>3. QED BY <1>8, <2>1, <2>2
<1>10. QED BY <1>8, <1>9

LEMMA VisitedStops ==
  ASSUME NEW b \in Block, NEW D, b \in D
  PROVE  Visited({b}, D) = {b}
<1> DEFINE W == {b}
<1>1. W \in SUBSET Block /\ W \subseteq W /\ \A x \in W \ D : ToSet(succ[x]) \subseteq W
  OBVIOUS
<1> HIDE DEF W
<1>2. Visited(W, D) \subseteq W /\ W \subseteq Visited(W, D)
  BY <1>1, VisitedIs
<1>3. QED BY <1>2 DEF W

(* A return that is come to is not in a block with a blocking instruction. *)
LEMMA ReturnFree ==
  ASSUME NEW R \in SUBSET Inst, NEW j \in Inst \ R, Returns(j), \A b \in R : b[1] = j[1] => b[2] >= j[2]
  PROVE  j[1] \notin {b[1] : b \in R}
<1>1. ASSUME NEW b \in R, b[1] = j[1] PROVE FALSE
  <2>1. /\ b = <<b[1], b[2]>> /\ j = <<j[1], j[2]>>
        /\ b[2] \in 1..Size[b[1]] /\ Size[b[1]] \in Nat /\ j[2] = Size[j[1]]
    BY InstIs DEF Returns
  <2>2. b[2] >= j[2]
    BY <1>1
  <2>3. b[2] = j[2]
    BY <1>1, <2>1, <2>2
  <2>4. QED BY <1>1, <2>1, <2>3
<1>2. QED BY <1>1

LEMMA PassableBy ==
  ASSUME NEW f \in DOMAIN entryBB, NEW R \in SUBSET Inst,
         NEW j \in Inst \ R, getFunction(j) = f, Returns(j), Arrives(j, R)
  PROVE  Passable(First(entryBB[f]), R)
<1> DEFINE e == entryBB[f]
           K == {b[1] : b \in R}
           r == j[1]
<1>1. e \in Block /\ host[e] = f /\ First(e) \in Inst /\ First(e)[1] = e /\ First(e)[2] = 1
  BY FlowAssumption, InstIs
<1>2. r \in Block /\ host[r] = f /\ succ[r] = <<>> /\ r \in Visited({e}, K) /\ r \notin K
  BY ReturnFree, InstIs DEF Arrives, Returns, getFunction
<1>3. e \notin K
  BY <1>1, <1>2, VisitedStops
<1>4. ASSUME NEW i \in R, Cardinality(R) = 1 PROVE i[1] \notin getDomsForRet(f)
  <2>1. R = {i}
    <3>1. PICK x : R = {x}
      BY <1>4, LocsFinite, FS_Subset, FS_Singleton
    <3>2. QED BY <3>1
  <2>2. K = {i[1]} /\ {e} \ {i[1]} = {e}
    BY <1>3, <2>1
  <2>3. r \in getRetBBs(f)
    BY <1>2 DEF getRetBBs
  <2>4. ASSUME i[1] \in getDominators(r) PROVE FALSE
    <3>1. i[1] # r /\ r \notin Visited({e} \ {i[1]}, {i[1]})
      BY <1>1, <1>2, <2>4 DEF getDominators, Dominates
    <3>2. QED BY <1>2, <2>2, <3>1
  <2>5. QED BY <2>3, <2>4 DEF getDomsForRet
<1>5. isPotentiallyReachable(First(e), None, R)
  <2>1. Ahead(First(e), R) = {}
    BY <1>1, <1>3 DEF Ahead, isReachableInBB, getParent
  <2>2. r = e \/ r \in Visited(ToSet(succ[e]), K)
    BY <1>1, <1>2, VisitedStep
  <2>3. r = e \/ isPotentiallyReachableFromMany(ToSet(succ[e]), None, R)
    <3>1. CASE r \in Visited(ToSet(succ[e]), K)
      BY <1>2, <3>1 DEF isPotentiallyReachableFromMany, getParent
    <3>2. QED BY <2>2, <3>1
  <2>4. ToReturn(First(e), R)
    BY <1>1, <1>2, <2>1, <2>3 DEF ToReturn, getParent
  <2>5. First(e) # None
    BY DEF First, None
  <2>6. QED BY <2>4, <2>5 DEF isPotentiallyReachable
<1>6. getFunction(First(e)) = f
  BY <1>1 DEF getFunction
<1>7. QED BY <1>4, <1>5, <1>6 DEF Passable, getParent

LEMMA ReturnBy ==
  ASSUME NEW R \in SUBSET Inst, NEW i \in Inst,
         NEW j \in Inst \ R, Returns(j), Comes(i, j, R)
  PROVE  ToReturn(i, R)
<1> DEFINE K == {b[1] : b \in R}
<1>1. /\ i = <<i[1], i[2]>> /\ j = <<j[1], j[2]>> /\ i[2] \in Nat /\ j[2] \in Nat
      /\ j[2] = Size[j[1]] /\ succ[j[1]] = <<>>
  BY InstIs DEF Returns
<1>2. \A b \in R : b = <<b[1], b[2]>> /\ b[2] \in Nat /\ b[2] <= Size[b[1]]
  BY InstIs
<1>3. CASE i[1] = j[1] /\ i[2] <= j[2] /\ \A b \in R : b[1] = i[1] => ~(i[2] < b[2] /\ b[2] < j[2])
  <2>1. ASSUME NEW b \in Ahead(i, R) PROVE FALSE
    <3>1. b \in R /\ b # i /\ b[1] = i[1] /\ i[2] <= b[2]
      BY <2>1 DEF Ahead, isReachableInBB, getParent
    <3>2. b[2] # i[2] /\ b[2] # j[2]
      BY <1>1, <1>2, <1>3, <3>1
    <3>3. i[2] < b[2] /\ b[2] < j[2]
      BY <1>1, <1>2, <1>3, <3>1, <3>2
    <3>4. QED BY <1>3, <3>1, <3>3
  <2>2. QED BY <1>1, <1>3, <2>1 DEF ToReturn, getParent
<1>4. CASE /\ \A b \in R : b[1] = i[1] => b[2] <= i[2]
           /\ j[1] \in Visited(ToSet(succ[i[1]]), K)
           /\ \A b \in R : b[1] = j[1] => b[2] >= j[2]
  <2>1. ASSUME NEW b \in Ahead(i, R) PROVE FALSE
    <3>1. b \in R /\ b # i /\ b[1] = i[1] /\ i[2] <= b[2]
      BY <2>1 DEF Ahead, isReachableInBB, getParent
    <3>2. b[2] = i[2]
      BY <1>1, <1>2, <1>4, <3>1
    <3>3. QED BY <1>1, <1>2, <3>1, <3>2
  <2>2. j[1] \notin K
    BY <1>4, ReturnFree
  <2>3. isPotentiallyReachableFromMany(ToSet(succ[i[1]]), None, R)
    BY <1>1, <1>4, <2>2 DEF isPotentiallyReachableFromMany, getParent
  <2>4. QED BY <2>1, <2>3 DEF ToReturn, getParent
<1>5. QED BY <1>3, <1>4 DEF Comes

LEMMA EntryApart ==
  ASSUME NEW b \in Block, NEW K
  PROVE  entryBB[host[b]] \notin Visited(ToSet(succ[b]), K)
<1> DEFINE W == ToSet(succ[b])
           C == {x \in Block : x # entryBB[host[b]]}
<1>1. W \in SUBSET Block /\ host[entryBB[host[b]]] = host[b] /\ \A x \in W : host[x] = host[b]
  BY SuccIs
<1>2. W \subseteq C
  BY <1>1, ProgramAssumption
<1>3. ASSUME NEW x \in C, NEW y \in ToSet(succ[x]) PROVE y \in C
  <2>1. y \in Block /\ host[y] = host[x] /\ y # entryBB[host[x]]
    BY SuccIs, ProgramAssumption
  <2>2. QED BY <1>1, <2>1
<1> HIDE DEF W
<1>4. Visited(W, K) \subseteq C
  <2> C \in SUBSET Block
    OBVIOUS
  <2> HIDE DEF C
  <2>1. QED BY <1>1, <1>2, <1>3, VisitedIs
<1>5. QED BY <1>4 DEF W

LEMMA BetweenBy ==
  ASSUME NEW R \in SUBSET Inst, NEW i \in Inst, NEW j \in Inst \ R,
         getFunction(i) = getFunction(j), Comes(i, j, R)
  PROVE  Between(i, j, R)
<1> DEFINE K == {b[1] : b \in R}
<1>1. /\ i = <<i[1], i[2]>> /\ j = <<j[1], j[2]>> /\ i[2] \in Nat /\ j[2] \in Nat
      /\ i[1] \in Block /\ j[1] \in Block /\ host[i[1]] = host[j[1]]
  BY InstIs DEF getFunction
<1>2. \A b \in R : b = <<b[1], b[2]>> /\ b[2] \in Nat
  BY InstIs
<1>3. \A b \in Ahead(i, R) : b \in R /\ b # i /\ b[1] = i[1] /\ i[2] < b[2]
  <2>1. ASSUME NEW b \in Ahead(i, R) PROVE b \in R /\ b # i /\ b[1] = i[1] /\ i[2] <= b[2]
    BY DEF Ahead, isReachableInBB, getParent
  <2>2. ASSUME NEW b \in Ahead(i, R) PROVE i[2] # b[2]
    BY <1>1, <1>2, <2>1
  <2>3. QED BY <1>1, <1>2, <2>1, <2>2
<1>4. CASE i[1] = j[1] /\ i[2] <= j[2] /\ \A b \in R : b[1] = i[1] => ~(i[2] < b[2] /\ b[2] < j[2])
  <2>1. isReachableInBB(i, j)
    BY <1>4 DEF isReachableInBB, getParent
  <2>2. \A b \in Ahead(i, R) : b[2] >= j[2]
    BY <1>1, <1>2, <1>3, <1>4
  <2>3. QED BY <2>1, <2>2 DEF Between
<1>5. CASE /\ \A b \in R : b[1] = i[1] => b[2] <= i[2]
           /\ j[1] \in Visited(ToSet(succ[i[1]]), K)
           /\ \A b \in R : b[1] = j[1] => b[2] >= j[2]
  <2>1. Ahead(i, R) = {}
    BY <1>1, <1>2, <1>3, <1>5
  <2>2. j[1] # entryBB[host[i[1]]]
    BY <1>1, <1>5, EntryApart
  <2>3. ~Shut(j, R)
    <3>1. ASSUME NEW b \in R, b[1] = j[1], b[2] <= j[2] PROVE FALSE
      <4>1. b[2] = j[2]
        BY <1>1, <1>2, <1>5, <3>1
      <4>2. QED BY <1>1, <1>2, <3>1, <4>1
    <3>2. QED BY <3>1 DEF Shut, isReachableInBB, getParent
  <2>4. j # None
    BY <1>1 DEF None
  <2>5. isPotentiallyReachableFromMany(ToSet(succ[i[1]]), j, R)
    BY <1>5, <2>4 DEF isPotentiallyReachableFromMany, getParent
  <2>6. QED BY <2>1, <2>2, <2>3, <2>5 DEF Between, getParent, getFunction
<1>6. QED BY <1>4, <1>5 DEF Comes

LEMMA FromEntryBy ==
  ASSUME NEW R \in SUBSET Inst, NEW j \in Inst \ R, Arrives(j, R)
  PROVE  FromEntry(j, R)
<1>1. j = <<j[1], j[2]>> /\ j[2] \in Nat /\ \A b \in R : b = <<b[1], b[2]>> /\ b[2] \in Nat
  BY InstIs
<1>2. ~Shut(j, R)
  <2>1. ASSUME NEW b \in R, b[1] = j[1], b[2] <= j[2] PROVE FALSE
    <3>1. b[2] >= j[2]
      BY <2>1 DEF Arrives
    <3>2. b[2] = j[2]
      BY <1>1, <2>1, <3>1
    <3>3. QED BY <1>1, <2>1, <3>2
  <2>2. QED BY <2>1 DEF Shut, isReachableInBB, getParent
<1>3. j # None
  BY <1>1 DEF None
<1>4. QED BY <1>2, <1>3 DEF FromEntry, Arrives, isPotentiallyReachableFromMany, getParent

(* What blocks in the activation at level k of x.                          *)
BlAt(x, k, bl) == Bl(getPrefix(x.ctx, k), bl)

LEMMA PrefixSame ==
  ASSUME NEW c \in Contexts, NEW d \in Contexts, NEW k \in 0..Len(c), k <= Len(d),
         \A p \in 1..k : c[p] = d[p]
  PROVE  getPrefix(c, k) = getPrefix(d, k)
<1>1. k \in 0..Len(d)
  BY ContextIs
<1>2. /\ getPrefix(c, k) \in Seq(Inst) /\ Len(getPrefix(c, k)) = k
      /\ \A p \in 1..k : getPrefix(c, k)[p] = c[p]
  BY PrefixIs
<1>3. /\ getPrefix(d, k) \in Seq(Inst) /\ Len(getPrefix(d, k)) = k
      /\ \A p \in 1..k : getPrefix(d, k)[p] = d[p]
  BY <1>1, PrefixIs
<1>4. \A p \in 1..k : getPrefix(c, k)[p] = getPrefix(d, k)[p]
  BY <1>2, <1>3
<1>5. QED BY <1>2, <1>3, <1>4, SeqEqual

(* The context of the activation at an odd position of x's.                *)
LEMMA LevelIs ==
  ASSUME NEW x \in Locs, NEW k \in 1..Len(x.ctx), k % 2 = 1
  PROVE  /\ getPrefix(x.ctx, k) \in Contexts /\ Len(getPrefix(x.ctx, k)) = k
         /\ \A p \in 1..k : getPrefix(x.ctx, k)[p] = x.ctx[p]
         /\ Last(getPrefix(x.ctx, k)) = x.ctx[k]
         /\ getFunction(At(x, k)) = getFunction(Last(getPrefix(x.ctx, k)))
         /\ k = Len(x.ctx) => getPrefix(x.ctx, k) = x.ctx
         /\ k < Len(x.ctx) => /\ At(x, k) \in Calls /\ k + 2 \in 1..Len(x.ctx)
                              /\ getPrefix(x.ctx, k + 2) = Callee(getPrefix(x.ctx, k), At(x, k))
<1> DEFINE c == getPrefix(x.ctx, k)
<1>1. x.ctx \in Contexts /\ x.ctx \in Seq(Inst) /\ Len(x.ctx) \in Nat
  BY LocIs, ContextIs
<1>2. k \in 0..Len(x.ctx) /\ k \in 1..k /\ k \in Nat
  BY <1>1
<1>3. c \in Contexts /\ Len(c) = k /\ \A p \in 1..k : c[p] = x.ctx[p]
  BY <1>1, <1>2, PrefixIs
<1>4. Last(c) = x.ctx[k]
  BY <1>2, <1>3 DEF Last
<1>5. getFunction(At(x, k)) = getFunction(x.ctx[k])
  BY AtIs
<1>6. k = Len(x.ctx) => c = x.ctx
  BY <1>1, SubSeqFull DEF getPrefix
<1>7. ASSUME k < Len(x.ctx)
      PROVE  /\ At(x, k) \in Calls /\ k + 2 \in 1..Len(x.ctx)
             /\ getPrefix(x.ctx, k + 2) = Callee(c, At(x, k))
  <2> DEFINE i == At(x, k)
             q == k + 2
             u == k + 1
             d == Callee(c, i)
             e == getPrefix(x.ctx, q)
  <2>1. i \in Calls /\ i = x.ctx[u] /\ q \in 1..Len(x.ctx)
    BY <1>7, AtIs
  <2> HIDE DEF c, i
  <2>2. d \in Contexts /\ Len(d) = q /\ (\A p \in 1..k : d[p] = c[p]) /\ d[u] = i /\ d[q] = FirstOf(Target[i])
    BY <1>3, <1>4, <1>5, <2>1, CalleeIs DEF i
  <2>3. q % 2 = 1 /\ q \in 0..Len(x.ctx) /\ u \in 1..Len(x.ctx) /\ u % 2 = 0 /\ u + 1 = q
        /\ \A p \in 1..q : p \in 1..k \/ p = u \/ p = q
    BY <1>2, <1>1, <2>1
  <2> HIDE DEF d, e, q, u
  <2>4. e \in Contexts /\ Len(e) = q /\ \A p \in 1..q : e[p] = x.ctx[p]
    BY <1>1, <2>3, PrefixIs DEF e
  <2>5. x.ctx[q] = FirstOf(Target[i])
    BY <1>1, <2>1, <2>3, ContextIs
  <2>6. \A p \in 1..q : e[p] = d[p]
    BY <1>3, <2>1, <2>2, <2>3, <2>4, <2>5
  <2>7. e = d
    BY <2>2, <2>4, <2>6, ContextEqual
  <2>8. QED BY <2>1, <2>7 DEF e, d, q, i
<1>8. QED BY <1>3, <1>4, <1>5, <1>6, <1>7

(* What is not blocked at a level: the location itself, or a call whose    *)
(* callee can be passed.                                                   *)
LEMMA OpenHere ==
  ASSUME NEW bl, Allowed(bl), NEW x \in Locs \ bl, x.inst \notin Calls
  PROVE  x.inst \notin Bl(x.ctx, bl) /\ Bl(x.ctx, bl) \in SUBSET Inst
<1>1. x.ctx \in Contexts /\ x = Loc(x.inst, x.ctx)
  BY LocIs
<1>2. QED BY <1>1, BlIs DEF CallBlocked

LEMMA SeenOpen ==
  ASSUME NEW bl, Allowed(bl), NEW x \in Locs \ bl, NEW y \in Follows[x],
         NEW k \in 1..Len(x.ctx), k % 2 = 1, Seen(x, y, k),
         Len(x.ctx) = k + 2 => Arrives(x.inst, Bl(x.ctx, bl))
  PROVE  At(x, k) \in Inst \ BlAt(x, k, bl)
<1> DEFINE c == getPrefix(x.ctx, k)
           i == At(x, k)
<1>1. c \in Contexts /\ Len(c) = k /\ (k = Len(x.ctx) => c = x.ctx)
  BY LevelIs
<1>2. i \in Inst /\ (k = Len(x.ctx) => i = x.inst)
  BY AtIs
<1>3. Len(x.ctx) \in Nat /\ x.ctx \in Contexts /\ x.inst \in Inst
  BY LocIs, ContextIs
<1>4. CASE x.ctx = y.ctx /\ x.inst \notin Calls
  <2>1. k = Len(x.ctx)
    BY <1>4 DEF Seen
  <2>2. QED BY <1>1, <1>2, <1>4, <2>1, OpenHere DEF BlAt
<1>5. CASE Len(x.ctx) = k + 2 /\ Returns(x.inst) /\ x.inst \notin Calls
  <2>1. k < Len(x.ctx)
    BY <1>3, <1>5
  <2>2. /\ i \in Calls /\ getFunction(i) = getFunction(Last(c))
        /\ getPrefix(x.ctx, k + 2) = Callee(c, i)
    BY <2>1, LevelIs
  <2>3. x.ctx = Callee(c, i)
    <3> DEFINE n == Len(x.ctx)
    <3>0. n \in Nat \ {0} /\ n % 2 = 1
      BY <1>3, ContextIs
    <3>1. n \in 1..Len(x.ctx) /\ n % 2 = 1
      <4> HIDE DEF n
      <4>1. n \in 1..n
        BY <3>0
      <4>2. QED BY <3>0, <4>1 DEF n
    <3>2. getPrefix(x.ctx, n) = x.ctx
      <4> HIDE DEF n
      <4>1. QED BY <3>1, LevelIs DEF n
    <3>3. QED BY <1>5, <2>2, <3>2
  <2> DEFINE f == Target[i]
             R == Bl(x.ctx, bl)
  <2>4. getFunction(x.inst) = f /\ f \in DOMAIN entryBB
    <3>1. getFunction(x.inst) = getFunction(Last(x.ctx))
      BY LocIs
    <3>2. Len(x.ctx) = k + 2 /\ x.ctx[k + 2] = FirstOf(Target[i])
      BY <1>1, <1>5, <2>2, <2>3, CalleeIs
    <3>3. Last(x.ctx) = FirstOf(Target[i])
      BY <3>2 DEF Last
    <3>4. QED BY <2>2, <3>1, <3>3, CallIs, ProgramAssumption
  <2>5. x.inst \in Inst \ R /\ R \in SUBSET Inst /\ Arrives(x.inst, R)
    BY <1>3, <1>5, OpenHere
  <2> HIDE DEF f, R
  <2>6. Passable(First(entryBB[f]), R)
    BY <1>5, <2>4, <2>5, PassableBy
  <2>7. ~CallBlocked(i, c, bl)
    BY <2>3, <2>6 DEF CallBlocked, f, R, FirstOf
  <2>8. Loc(i, c) \notin bl
    BY <2>2 DEF Allowed, Loc
  <2> HIDE DEF c, i
  <2>9. i \notin Bl(c, bl)
    BY <1>1, <2>7, <2>8, BlIs
  <2>10. QED BY <1>2, <2>9 DEF BlAt, c, i
<1>6. QED BY <1>4, <1>5 DEF Seen

(* In the levels above m, a way from the entry of the function comes to    *)
(* where x is.                                                             *)
Deep(x, m, bl) ==
  \A k \in 1..Len(x.ctx) : k % 2 = 1 /\ k > m => Arrives(At(x, k), BlAt(x, k, bl))

LEMMA DeepStep ==
  ASSUME NEW bl, Allowed(bl), NEW x \in Locs \ bl, NEW y \in Follows[x],
         NEW m \in Nat, Deep(x, m, bl)
  PROVE  Deep(y, m, bl)
<1>1. /\ y \in Locs /\ x.ctx \in Contexts /\ y.ctx \in Contexts /\ x.inst \in Inst
      /\ Len(x.ctx) \in Nat \ {0} /\ Len(x.ctx) % 2 = 1 /\ Len(y.ctx) \in Nat
  BY FollowsKinds, LocIs, ContextIs
<1> SUFFICES ASSUME NEW k \in 1..Len(y.ctx), k % 2 = 1, k > m
             PROVE  Arrives(At(y, k), BlAt(y, k, bl))
  BY DEF Deep
<1>2. CASE k <= Len(x.ctx)
  <2>1. k \in 1..Len(x.ctx) /\ k \in 0..Len(x.ctx) /\ k <= Len(y.ctx) /\ k \in Nat
    BY <1>1, <1>2
  <2>2. (\A p \in 1..k : y.ctx[p] = x.ctx[p]) /\ (At(y, k) = At(x, k) \/ Seen(x, y, k))
    BY <2>1, LevelStep
  <2>3. BlAt(y, k, bl) = BlAt(x, k, bl)
    BY <1>1, <2>1, <2>2, PrefixSame DEF BlAt
  <2>4. Arrives(At(x, k), BlAt(x, k, bl))
    BY <2>1 DEF Deep
  <2>5. CASE Seen(x, y, k)
    <3>1. Len(x.ctx) = k + 2 => Arrives(x.inst, Bl(x.ctx, bl))
      <4>1. ASSUME Len(x.ctx) = k + 2 PROVE Arrives(x.inst, Bl(x.ctx, bl))
        <5> DEFINE n == Len(x.ctx)
        <5>1. n \in 1..Len(x.ctx) /\ n > m /\ n % 2 = 1
          BY <1>1, <2>1, <4>1
        <5>2. At(x, n) = x.inst
          BY <5>1, AtIs
        <5>3. getPrefix(x.ctx, n) = x.ctx
          <6> HIDE DEF n
          <6>1. QED BY <5>1, LevelIs DEF n
        <5>4. Arrives(At(x, n), BlAt(x, n, bl))
          BY <5>1 DEF Deep
        <5>5. QED BY <5>2, <5>3, <5>4 DEF BlAt
      <4>2. QED BY <4>1
    <3>2. At(x, k) \in Inst \ BlAt(x, k, bl)
      BY <2>1, <2>5, <3>1, SeenOpen
    <3>3. BlAt(x, k, bl) \in SUBSET Inst
      BY <2>1, LevelIs, BlIs DEF BlAt
    <3>4. Moves(At(x, k), At(y, k))
      BY <2>5 DEF Seen
    <3>5. QED BY <2>3, <2>4, <3>2, <3>3, <3>4, ArrivesMoves
  <2>6. QED BY <2>2, <2>3, <2>4, <2>5
<1>3. CASE Len(x.ctx) < k
  <2>1. At(y, k) = y.inst /\ y.inst = y.ctx[k]
    BY <1>3, LevelNew
  <2>2. y.ctx[k] = First(entryBB[getFunction(At(y, k))]) /\ At(y, k) \in Inst
    BY <1>1, AtIs
  <2>3. BlAt(y, k, bl) \in SUBSET Inst
    BY <1>1, LevelIs, BlIs DEF BlAt
  <2>4. getFunction(At(y, k)) \in DOMAIN entryBB
    BY <2>2, InstIs, SuccIs DEF getFunction
  <2>5. QED BY <2>1, <2>2, <2>3, <2>4, ArrivesFirst
<1>4. QED BY <1>1, <1>2, <1>3

(* The levels that chainable looks at.                                     *)
End(i, R, callFrom) == IF callFrom THEN FromEntry(i, R) ELSE ToReturn(i, R)

LEMMA EndIs ==
  ASSUME NEW i \in Inst, NEW R, NEW fe \in BOOLEAN
  PROVE  isPotentiallyReachable((IF fe THEN <<None, i>> ELSE <<i, None>>)[1],
                                (IF fe THEN <<None, i>> ELSE <<i, None>>)[2], R) <=> End(i, R, fe)
<1>1. i # None
  BY InstIs DEF None
<1>2. CASE fe
  BY <1>1, <1>2 DEF isPotentiallyReachable, End
<1>3. CASE ~fe
  BY <1>1, <1>3 DEF isPotentiallyReachable, End
<1>4. QED BY <1>2, <1>3

LEMMA BlNone ==
  ASSUME NEW c \in Contexts
  PROVE  Bl(c, {}) = {}
<1> DEFINE bl == {}
<1>1. Allowed(bl)
  BY DEF Allowed
<1>2. c \notin Entered(bl)
  BY DEF Entered
<1> HIDE DEF bl
<1>3. Bl(c, bl) = {}
  BY <1>1, <1>2, NotEntered
<1>4. QED BY <1>3 DEF bl

LEMMA InsideIs ==
  ASSUME NEW l \in Locs, NEW k \in 1..Len(l.ctx), k % 2 = 1
  PROVE  /\ Inside(l, k).inst = At(l, k) /\ Inside(l, k).ctx = getPrefix(l.ctx, k)
         /\ k = Len(l.ctx) => Inside(l, k) = l
         /\ k < Len(l.ctx) => Inside(l, k) = CallSite(l, k + 1)
<1>1. Len(l.ctx) \in Nat /\ k \in Nat /\ k + 1 - 1 = k
  BY LocIs, ContextIs
<1>2. CASE k = Len(l.ctx)
  <2>1. Inside(l, k) = l
    BY <1>1, <1>2 DEF Inside
  <2>2. getPrefix(l.ctx, k) = l.ctx
    BY <1>2, LevelIs
  <2>3. QED BY <1>1, <1>2, <2>1, <2>2 DEF At
<1>3. CASE k < Len(l.ctx)
  BY <1>1, <1>3 DEF Inside, CallSite, Loc, At
<1>4. QED BY <1>1, <1>2, <1>3

LEMMA ChainableIs ==
  ASSUME NEW bl, Allowed(bl), NEW l \in Locs, NEW ip \in Nat, ip < Len(l.ctx), ip = 0 \/ ip % 2 = 1,
         NEW fe \in BOOLEAN
  PROVE  chainable(l, ip, bl, fe) <=>
           \A k \in 1..Len(l.ctx) : k % 2 = 1 /\ k > ip => End(At(l, k), BlAt(l, k, bl), fe)
<1> DEFINE n == Len(l.ctx)
           first == IF ip % 2 = 0 THEN ip + 2 ELSE ip + 3
           P == {p \in first..n : p % 2 = 0}
           S == {l} \cup {CallSite(l, p) : p \in P}
           K == {k \in 1..n : k % 2 = 1 /\ k > ip}
<1>1. l.ctx \in Contexts /\ n \in Nat \ {0} /\ n % 2 = 1
  BY LocIs, ContextIs
<1>2. l.ctx # <<>>
  BY <1>1
<1>3. \A k \in K : /\ canReachEnd(Inside(l, k), bl, fe) <=> End(At(l, k), BlAt(l, k, bl), fe)
  <2>1. ASSUME NEW k \in K
        PROVE  canReachEnd(Inside(l, k), bl, fe) <=> End(At(l, k), BlAt(l, k, bl), fe)
    <3>1. Inside(l, k).inst = At(l, k) /\ Inside(l, k).ctx = getPrefix(l.ctx, k)
      BY InsideIs
    <3>2. At(l, k) \in Inst
      BY AtIs
    <3> DEFINE i == At(l, k)
               R == BlAt(l, k, bl)
               way == IF fe THEN <<None, i>> ELSE <<i, None>>
    <3>3. canReachEnd(Inside(l, k), bl, fe) <=> isPotentiallyReachable(way[1], way[2], R)
      BY <3>1 DEF canReachEnd, BlAt, Bl
    <3>4. isPotentiallyReachable(way[1], way[2], R) <=> End(i, R, fe)
      BY <3>2, EndIs
    <3>5. QED BY <3>3, <3>4
  <2>2. QED BY <2>1
<1>4. S = {Inside(l, k) : k \in K}
  <2>1. n \in K /\ Inside(l, n) = l
    <3> HIDE DEF n
    <3>1. n \in 1..n /\ n > ip
      BY <1>1 DEF n
    <3>2. n \in K
      BY <1>1, <3>1
    <3> HIDE DEF K
    <3>3. Inside(l, n) = l
      BY <1>1, <3>1, InsideIs DEF n
    <3>4. QED BY <3>2, <3>3
  <2>2. ASSUME NEW p \in P PROVE CallSite(l, p) \in {Inside(l, k) : k \in K}
    <3> DEFINE k == p - 1
    <3>1. p \in Nat /\ p % 2 = 0 /\ first <= p /\ p <= n /\ first \in Nat /\ first >= ip + 2
      BY <1>1
    <3> HIDE DEF n, first, P
    <3>2. k \in 1..n /\ k % 2 = 1 /\ k > ip /\ k < n /\ k + 1 = p
      <4>1. p # n /\ p \in Nat \ {0}
        BY <1>1, <3>1
      <4>2. QED BY <1>1, <3>1, <4>1
    <3> HIDE DEF k
    <3>3. Inside(l, k) = CallSite(l, p)
      BY <3>2, InsideIs DEF n
    <3>4. QED BY <3>2, <3>3
  <2>3. ASSUME NEW k \in K, k # n PROVE Inside(l, k) \in S
    <3> DEFINE p == k + 1
    <3>1. k \in Nat /\ k % 2 = 1 /\ k > ip /\ k < n /\ p \in Nat
      BY <1>1, <2>3
    <3>2. first <= p
      <4>1. CASE ip = 0
        <5>1. first = 2
          BY <4>1
        <5>2. QED BY <3>1, <5>1
      <4>2. CASE ip % 2 = 1
        <5>1. first = ip + 3
          BY <4>2
        <5> HIDE DEF first
        <5>2. k # ip + 1
          BY <3>1, <4>2
        <5>3. QED BY <3>1, <5>1, <5>2
      <4>3. QED BY <4>1, <4>2
    <3>3. p \in first..n /\ p % 2 = 0
      <4>1. first \in Nat
        OBVIOUS
      <4> HIDE DEF first
      <4>2. p \in first..n
        BY <1>1, <3>1, <3>2, <4>1
      <4>3. p % 2 = 0
        BY <3>1
      <4>4. QED BY <4>2, <4>3
    <3>4. p \in P
      BY <3>3
    <3> HIDE DEF P
    <3>5. Inside(l, k) = CallSite(l, p)
      BY <3>1, InsideIs
    <3>6. QED BY <3>4, <3>5
  <2> HIDE DEF K, n, P
  <2>4. QED BY <2>1, <2>2, <2>3
<1>5. chainable(l, ip, bl, fe) <=> (bl # {} => \A s \in S : canReachEnd(s, bl, fe))
  BY <1>2 DEF chainable
<1> HIDE DEF S
<1>6. chainable(l, ip, bl, fe) <=> (bl # {} => \A k \in K : End(At(l, k), BlAt(l, k, bl), fe))
  <2> HIDE DEF K
  <2>1. QED BY <1>3, <1>4, <1>5
<1>7. ASSUME bl = {}, NEW k \in K PROVE End(At(l, k), BlAt(l, k, bl), fe)
  <2>1. getPrefix(l.ctx, k) \in Contexts
    BY LevelIs
  <2>2. BlAt(l, k, bl) = {}
    BY <1>7, <2>1, BlNone DEF BlAt
  <2>3. QED BY <2>2 DEF End, FromEntry, ToReturn
<1>8. QED BY <1>6, <1>7

(* What reachable answers, level by level.                                 *)
LEMMA ReachableIs ==
  ASSUME NEW bl, Allowed(bl), NEW t \in Locs, NEW o \in Locs,
         NEW ip, ip = Common(t.ctx, o.ctx)
  PROVE  reachable(t, o, bl) <=>
           /\ \A k \in 1..Len(o.ctx) : k % 2 = 1 /\ k > ip => ToReturn(At(o, k), BlAt(o, k, bl))
           /\ \A k \in 1..Len(t.ctx) : k % 2 = 1 /\ k > ip => FromEntry(At(t, k), BlAt(t, k, bl))
           /\ Between(At(o, ip), At(t, ip), BlAt(t, ip, bl))
<1>1. /\ t.ctx \in Contexts /\ o.ctx \in Contexts /\ Len(t.ctx) \in Nat \ {0} /\ Len(o.ctx) \in Nat \ {0}
  BY LocIs, ContextIs
<1>2. ip \in 1..Len(t.ctx) /\ ip \in 1..Len(o.ctx) /\ ip % 2 = 1 /\ \A p \in 1..ip : t.ctx[p] = o.ctx[p]
  BY <1>1, CommonIs
<1>3. o.ctx # <<>>
  BY <1>1
<1>4. ip < Len(o.ctx) =>
        (chainable(o, ip, bl, FALSE) <=>
           \A k \in 1..Len(o.ctx) : k % 2 = 1 /\ k > ip => ToReturn(At(o, k), BlAt(o, k, bl)))
  <2>1. ip < Len(o.ctx) =>
        (chainable(o, ip, bl, FALSE) <=>
           \A k \in 1..Len(o.ctx) : k % 2 = 1 /\ k > ip => End(At(o, k), BlAt(o, k, bl), FALSE))
    <3>1. ip \in Nat /\ FALSE \in BOOLEAN
      BY <1>1, <1>2
    <3>2. QED BY <1>2, <3>1, ChainableIs
  <2>2. QED BY <2>1 DEF End
<1>5. ip < Len(t.ctx) =>
        (chainable(t, ip, bl, TRUE) <=>
           \A k \in 1..Len(t.ctx) : k % 2 = 1 /\ k > ip => FromEntry(At(t, k), BlAt(t, k, bl)))
  <2>1. ip < Len(t.ctx) =>
        (chainable(t, ip, bl, TRUE) <=>
           \A k \in 1..Len(t.ctx) : k % 2 = 1 /\ k > ip => End(At(t, k), BlAt(t, k, bl), TRUE))
    <3>1. ip \in Nat /\ TRUE \in BOOLEAN
      BY <1>1, <1>2
    <3>2. QED BY <1>2, <3>1, ChainableIs
  <2>2. QED BY <2>1 DEF End
<1>6. ~(ip < Len(o.ctx)) => \A k \in 1..Len(o.ctx) : ~(k > ip)
  BY <1>1, <1>2
<1>7. ~(ip < Len(t.ctx)) => \A k \in 1..Len(t.ctx) : ~(k > ip)
  BY <1>1, <1>2
<1> DEFINE src == At(o, ip)
           end == At(t, ip)
           R == BlAt(t, ip, bl)
<1>8. isPotentiallyReachable(src, end, R) <=> Between(src, end, R)
  <2>1. src \in Inst /\ end \in Inst
    BY <1>2, AtIs
  <2>2. getFunction(src) = getFunction(end)
    <3>1. getFunction(src) = getFunction(o.ctx[ip])
      BY <1>2, AtIs
    <3>2. getFunction(end) = getFunction(t.ctx[ip])
      BY <1>2, AtIs
    <3>3. ip \in 1..ip
      BY <1>1, <1>2
    <3>4. QED BY <1>2, <3>1, <3>2, <3>3
  <2>3. src # None /\ end # None
    BY <2>1, InstIs DEF None
  <2> HIDE DEF src, end, R
  <2>4. QED BY <2>2, <2>3 DEF isPotentiallyReachable
<1>9. reachable(t, o, bl) <=>
        /\ ip < Len(o.ctx) => chainable(o, ip, bl, FALSE)
        /\ ip < Len(t.ctx) => chainable(t, ip, bl, TRUE)
        /\ isPotentiallyReachable(src, end, R)
  <2> DEFINE Pairs == {<<o, FALSE>>, <<t, TRUE>>}
             Ends == \A e \in Pairs : ip < Len(e[1].ctx) => chainable(e[1], ip, bl, e[2])
  <2>1. Ends <=> /\ ip < Len(o.ctx) => chainable(o, ip, bl, FALSE)
                 /\ ip < Len(t.ctx) => chainable(t, ip, bl, TRUE)
    OBVIOUS
  <2>2. reachable(t, o, bl) <=> Ends /\ isPotentiallyReachable(src, end, R)
    BY <1>2, <1>3 DEF reachable, At, BlAt, Bl
  <2> HIDE DEF Ends
  <2>3. QED BY <2>1, <2>2
<1> HIDE DEF src, end, R
<1>10. QED BY <1>4, <1>5, <1>6, <1>7, <1>8, <1>9 DEF src, end, R

LEMMA ReachableStart ==
  ASSUME NEW bl, Allowed(bl), NEW t \in Locs
  PROVE  reachable(t, Global, bl) <=>
           \A k \in 1..Len(t.ctx) : k % 2 = 1 => FromEntry(At(t, k), BlAt(t, k, bl))
<1>1. Global.ctx = <<>> /\ Len(<<>>) = 0
  BY DEF Global, Loc
<1>2. Len(t.ctx) \in Nat \ {0}
  BY LocIs, ContextIs
<1>3. 0 \in Nat /\ 0 < Len(t.ctx) /\ TRUE \in BOOLEAN
  BY <1>2
<1>4. chainable(t, 0, bl, TRUE) <=>
        \A k \in 1..Len(t.ctx) : k % 2 = 1 /\ k > 0 => End(At(t, k), BlAt(t, k, bl), TRUE)
  BY <1>3, ChainableIs
<1>5. reachable(t, Global, bl) <=> chainable(t, 0, bl, TRUE)
  <2> DEFINE Pairs == {<<Global, FALSE>>, <<t, TRUE>>}
             Ends == \A e \in Pairs : 0 < Len(e[1].ctx) => chainable(e[1], 0, bl, e[2])
  <2>0. Len(Global.ctx) = 0 /\ ~(0 < 0)
    BY <1>1
  <2>1. Ends <=> chainable(t, 0, bl, TRUE)
    <3> DEFINE a == <<Global, FALSE>>
               b == <<t, TRUE>>
    <3>1. a[1] = Global /\ a[2] = FALSE /\ b[1] = t /\ b[2] = TRUE
      OBVIOUS
    <3>2. Pairs = {a, b}
      OBVIOUS
    <3> HIDE DEF a, b, Pairs
    <3>3. QED BY <1>3, <2>0, <3>1, <3>2
  <2>2. reachable(t, Global, bl) <=> Ends
    BY <1>1 DEF reachable
  <2> HIDE DEF Ends
  <2>3. QED BY <2>1, <2>2
<1>6. \A k \in 1..Len(t.ctx) : k > 0
  OBVIOUS
<1>7. QED BY <1>4, <1>5, <1>6 DEF End

----------------------------------------------------------------------------
(* No way is missed.                                                       *)

(* The levels of o above m can be left.                                    *)
Up(o, m, bl) ==
  \A k \in 1..Len(o.ctx) : k % 2 = 1 /\ k > m => ToReturn(At(o, k), BlAt(o, k, bl))

(* Where an execution that started at o is: it has returned to level m of  *)
(* o, gone on there, and entered the levels of x above it.                 *)
OnWay(o, x, m, bl) ==
  /\ m \in 1..Len(o.ctx) /\ m \in 1..Len(x.ctx) /\ m % 2 = 1
  /\ \A p \in 1..m : x.ctx[p] = o.ctx[p]
  /\ Up(o, m, bl) /\ Deep(x, m, bl)
  /\ Comes(At(o, m), At(x, m), BlAt(o, m, bl))

LEMMA OnWayStays ==
  ASSUME NEW bl, Allowed(bl), NEW o \in Locs, NEW x \in Locs \ bl, NEW y \in Follows[x],
         NEW m, OnWay(o, x, m, bl), m <= Len(y.ctx)
  PROVE  OnWay(o, y, m, bl)
<1>1. /\ y \in Locs /\ x.ctx \in Contexts /\ y.ctx \in Contexts /\ o.ctx \in Contexts
      /\ Len(x.ctx) \in Nat /\ Len(y.ctx) \in Nat /\ Len(x.ctx) % 2 = 1
  BY FollowsKinds, LocIs, ContextIs
<1>2. /\ m \in 1..Len(o.ctx) /\ m \in 1..Len(x.ctx) /\ m % 2 = 1 /\ m \in Nat
      /\ (\A p \in 1..m : x.ctx[p] = o.ctx[p]) /\ Deep(x, m, bl)
      /\ Comes(At(o, m), At(x, m), BlAt(o, m, bl))
  BY DEF OnWay
<1>3. m \in 1..Len(y.ctx) /\ m \in 0..Len(x.ctx) /\ m <= Len(o.ctx)
  BY <1>1, <1>2
<1>4. (\A p \in 1..m : y.ctx[p] = x.ctx[p]) /\ (At(y, m) = At(x, m) \/ Seen(x, y, m))
  BY <1>2, LevelStep
<1>5. Deep(y, m, bl)
  BY <1>2, DeepStep
<1>6. BlAt(o, m, bl) = BlAt(x, m, bl)
  BY <1>1, <1>2, <1>3, PrefixSame DEF BlAt
<1>7. ASSUME Seen(x, y, m) PROVE Comes(At(o, m), At(y, m), BlAt(o, m, bl))
  <2>1. Len(x.ctx) = m + 2 => Arrives(x.inst, Bl(x.ctx, bl))
    <3>1. ASSUME Len(x.ctx) = m + 2 PROVE Arrives(x.inst, Bl(x.ctx, bl))
      <4> DEFINE n == Len(x.ctx)
      <4>1. n \in 1..Len(x.ctx) /\ n > m /\ n % 2 = 1
        <5> HIDE DEF n
        <5>1. n \in 1..n /\ n > m
          BY <1>1, <1>2, <3>1 DEF n
        <5>2. QED BY <1>1, <5>1 DEF n
      <4>2. At(x, n) = x.inst
        BY <4>1, AtIs
      <4> HIDE DEF n
      <4>3. getPrefix(x.ctx, n) = x.ctx
        BY <4>1, LevelIs DEF n
      <4>4. Arrives(At(x, n), BlAt(x, n, bl))
        BY <1>2, <4>1 DEF Deep
      <4>5. QED BY <4>2, <4>3, <4>4 DEF BlAt
    <3>2. QED BY <3>1
  <2>2. At(x, m) \in Inst \ BlAt(x, m, bl)
    BY <1>2, <1>7, <2>1, SeenOpen
  <2>3. BlAt(x, m, bl) \in SUBSET Inst
    BY <1>2, LevelIs, BlIs DEF BlAt
  <2>4. At(o, m) \in Inst
    BY <1>2, AtIs
  <2>5. Moves(At(x, m), At(y, m))
    BY <1>7 DEF Seen
  <2>6. QED BY <1>2, <1>6, <2>2, <2>3, <2>4, <2>5, ComesMoves
<1>8. Comes(At(o, m), At(y, m), BlAt(o, m, bl))
  BY <1>2, <1>4, <1>7
<1>9. QED BY <1>2, <1>3, <1>4, <1>5, <1>8 DEF OnWay

LEMMA OnWayReturns ==
  ASSUME NEW bl, Allowed(bl), NEW o \in Locs, NEW x \in Locs \ bl, NEW y \in Follows[x],
         NEW m, OnWay(o, x, m, bl), Len(y.ctx) < m
  PROVE  /\ m - 2 = Len(y.ctx) /\ OnWay(o, y, m - 2, bl)
<1>1. /\ y \in Locs /\ x.ctx \in Contexts /\ y.ctx \in Contexts /\ o.ctx \in Contexts /\ x.inst \in Inst
      /\ Len(x.ctx) \in Nat /\ Len(y.ctx) \in Nat \ {0} /\ Len(x.ctx) % 2 = 1 /\ Len(y.ctx) % 2 = 1
      /\ Len(o.ctx) \in Nat
  BY FollowsKinds, LocIs, ContextIs
<1>2. /\ m \in 1..Len(o.ctx) /\ m \in 1..Len(x.ctx) /\ m % 2 = 1 /\ m \in Nat
      /\ (\A p \in 1..m : x.ctx[p] = o.ctx[p]) /\ Up(o, m, bl)
      /\ Comes(At(o, m), At(x, m), BlAt(o, m, bl))
  BY DEF OnWay
<1> DEFINE n == Len(x.ctx)
           q == m - 2
           u == m - 1
<1>3. Returning(x, y)
  <2>1. Len(y.ctx) < n
    <3>1. m <= n
      BY <1>2
    <3>2. QED BY <1>1, <1>2, <3>1
  <2>2. ~Moving(x, y)
    BY <1>1, <2>1 DEF Moving
  <2>3. ASSUME Calling(x, y) PROVE FALSE
    <3>1. Len(y.ctx) = n + 2
      BY <1>1, <2>3, LocIs, CalleeIs DEF Calling
    <3>2. QED BY <1>1, <2>1, <3>1
  <2>4. QED BY <2>2, <2>3, FollowsKinds
<1>4. /\ x.inst \notin Calls /\ Returns(x.inst) /\ n > 1
      /\ y.ctx = getPrefix(x.ctx, n - 2) /\ Moves(x.ctx[n - 1], y.inst)
  BY <1>3 DEF Returning
<1> DEFINE w == n - 2
<1> HIDE DEF n, q, u
<1>5. Len(y.ctx) = n - 2 /\ \A p \in 1..(n - 2) : y.ctx[p] = x.ctx[p]
  <2>1. w \in 0..Len(x.ctx)
    BY <1>1, <1>4 DEF n
  <2> HIDE DEF w
  <2>2. Len(getPrefix(x.ctx, w)) = w /\ \A p \in 1..w : getPrefix(x.ctx, w)[p] = x.ctx[p]
    BY <1>1, <2>1, PrefixIs
  <2>3. QED BY <1>4, <2>2 DEF w
<1>6. m = n
  <2>0. n \in Nat /\ n % 2 = 1 /\ m <= n /\ n - 2 < m
    <3>1. n \in Nat /\ n % 2 = 1
      BY <1>1 DEF n
    <3>2. m <= n
      BY <1>2 DEF n
    <3>3. n - 2 < m
      BY <1>5
    <3>4. QED BY <3>1, <3>2, <3>3
  <2>1. m # n - 1
    <3>1. (m + 1) % 2 = 0 /\ m \in Nat /\ m % 2 = 1
      BY <1>2, OddEven
    <3>2. m + 1 # n
      BY <2>0, <3>1
    <3>3. QED BY <2>0, <3>1, <3>2
  <2>2. QED BY <1>2, <2>0, <2>1
<1>7. At(x, m) = x.inst /\ getPrefix(x.ctx, m) = x.ctx
  <2>1. m = Len(x.ctx)
    BY <1>6 DEF n
  <2>2. At(x, m) = x.inst
    BY <1>2, <2>1, AtIs
  <2>3. QED BY <1>2, <2>1, <2>2, LevelIs
<1>8. BlAt(o, m, bl) = Bl(x.ctx, bl)
  <2>1. m \in 0..Len(x.ctx) /\ m <= Len(o.ctx)
    BY <1>1, <1>2
  <2>2. getPrefix(x.ctx, m) = getPrefix(o.ctx, m)
    BY <1>1, <1>2, <2>1, PrefixSame
  <2>3. QED BY <1>7, <2>2 DEF BlAt
<1>9. ToReturn(At(o, m), BlAt(o, m, bl))
  <2>1. At(o, m) \in Inst
    BY <1>2, AtIs
  <2>2. x.inst \in Inst \ Bl(x.ctx, bl) /\ Bl(x.ctx, bl) \in SUBSET Inst
    BY <1>1, <1>4, OpenHere
  <2>3. QED BY <1>2, <1>4, <1>7, <1>8, <2>1, <2>2, ReturnBy
<1>10. /\ q \in 1..Len(o.ctx) /\ q % 2 = 1 /\ q \in 1..Len(y.ctx) /\ q < Len(o.ctx) /\ q + 1 = u /\ q \in Nat
       /\ q = Len(y.ctx) /\ u \in 1..m /\ u = n - 1
  <2>1. Len(y.ctx) = q
    BY <1>5, <1>6 DEF q
  <2>2. q \in Nat \ {0}
    BY <1>1, <2>1
  <2>3. q + 1 = u /\ u \in 1..m /\ u = n - 1 /\ q <= m /\ q < Len(o.ctx)
    BY <1>1, <1>2, <1>6, <2>2 DEF q, u
  <2>4. q \in 1..Len(o.ctx) /\ q \in 1..q
    BY <1>1, <2>2, <2>3
  <2>5. q % 2 = 1
    BY <1>1, <2>1
  <2>6. QED BY <2>1, <2>2, <2>3, <2>4, <2>5
<1>11. Up(o, q, bl)
  <2>1. ASSUME NEW k \in 1..Len(o.ctx), k % 2 = 1, k > q PROVE ToReturn(At(o, k), BlAt(o, k, bl))
    <3>1. CASE k > m
      BY <1>2, <2>1, <3>1 DEF Up
    <3>2. CASE ~(k > m)
      <4>1. k = m
        <5>1. k # m - 1
          BY <1>2, <2>1
        <5>2. QED BY <1>1, <1>2, <2>1, <3>2, <5>1 DEF q
      <4>2. QED BY <1>9, <4>1
    <3>3. QED BY <3>1, <3>2
  <2>2. QED BY <2>1 DEF Up
<1>12. \A p \in 1..q : y.ctx[p] = o.ctx[p]
  <2>1. \A p \in 1..q : p \in 1..m /\ p \in 1..(n - 2)
    BY <1>1, <1>2, <1>6, <1>10 DEF q
  <2>2. QED BY <1>2, <1>5, <2>1
<1>13. Deep(y, q, bl)
  BY <1>10 DEF Deep
<1>14. Comes(At(o, q), At(y, q), BlAt(o, q, bl))
  <2>1. At(o, q) \in Inst /\ At(o, q) = o.ctx[u]
    BY <1>10, AtIs
  <2>2. At(o, q) = x.ctx[n - 1]
    BY <1>2, <1>10, <2>1
  <2>3. At(y, q) = y.inst
    BY <1>1, <1>10, AtIs
  <2>4. BlAt(o, q, bl) \in SUBSET Inst
    BY <1>10, LevelIs, BlIs DEF BlAt
  <2> DEFINE i == At(o, q)
             R == BlAt(o, q, bl)
  <2>5. Comes(i, i, R)
    <3>1. i[2] \in Nat
      BY <2>1, InstIs
    <3>2. \A b \in R : b[2] \in Nat
      BY <2>4, InstIs
    <3> HIDE DEF i, R
    <3>3. QED BY <3>1, <3>2 DEF Comes
  <2>6. Moves(i, At(y, q))
    BY <1>4, <2>2, <2>3
  <2> HIDE DEF i, R
  <2>7. i \in Inst /\ R \in SUBSET Inst
    BY <2>1, <2>4 DEF i, R
  <2>8. Comes(i, At(y, q), R)
    BY <2>5, <2>6, <2>7, ComesMoves
  <2>9. QED BY <2>8 DEF i, R
<1>15. OnWay(o, y, q, bl)
  BY <1>10, <1>11, <1>12, <1>13, <1>14 DEF OnWay
<1>16. QED BY <1>10, <1>15 DEF q

(* Where executions come to that start at o.                               *)
LEMMA OnWayAll ==
  ASSUME NEW bl, Allowed(bl), NEW o \in Locs \ bl, NEW c \in Contexts, o \in Activation(c)
  PROVE  \A x \in {o} \cup Executed(Follows[o] \cap Activation(c), bl, Activation(c)) :
           \E m \in 1..Len(o.ctx) : m >= Len(c) /\ OnWay(o, x, m, bl)
<1> DEFINE A == Activation(c)
           W == Follows[o] \cap A
           C == {x \in A : \E m \in 1..Len(o.ctx) : m >= Len(c) /\ OnWay(o, x, m, bl)}
<1>1. A \in SUBSET Locs /\ W \in SUBSET Locs
  BY ActivationIs
<1>2. o \in C
  <2> DEFINE n == Len(o.ctx)
             i == At(o, n)
             R == BlAt(o, n, bl)
  <2>1. n \in Nat \ {0} /\ n % 2 = 1
    BY LocIs, ContextIs
  <2>2. Len(c) \in 1..Len(o.ctx)
    BY ActivationIs
  <2> HIDE DEF n
  <2>3. n \in 1..n /\ n >= Len(c) /\ \A k \in 1..n : ~(k > n)
    BY <2>1, <2>2 DEF n
  <2>4. i \in Inst
    BY <2>1, <2>3, AtIs DEF n
  <2>5. R \in SUBSET Inst
    BY <2>1, <2>3, LevelIs, BlIs DEF n, BlAt
  <2>6. Comes(i, i, R)
    <3>1. i[2] \in Nat
      BY <2>4, InstIs
    <3>2. \A b \in R : b[2] \in Nat
      BY <2>5, InstIs
    <3> HIDE DEF i, R
    <3>3. QED BY <3>1, <3>2 DEF Comes
  <2>7. Up(o, n, bl) /\ Deep(o, n, bl)
    BY <2>3 DEF Up, Deep, n
  <2>8. OnWay(o, o, n, bl)
    BY <2>1, <2>3, <2>6, <2>7 DEF OnWay, n
  <2>9. QED BY <2>3, <2>8 DEF n
<1>3. ASSUME NEW x \in C \ bl, NEW y \in Follows[x] \cap A PROVE y \in C
  <2>1. PICK m \in 1..Len(o.ctx) : m >= Len(c) /\ OnWay(o, x, m, bl)
    OBVIOUS
  <2>2. x \in Locs /\ y \in Locs /\ Len(y.ctx) \in Nat /\ m \in Nat /\ Len(c) <= Len(y.ctx) /\ Len(c) \in Nat
    <3>1. x \in Locs /\ y \in Locs
      BY <1>1
    <3>2. Len(y.ctx) \in Nat /\ Len(c) \in 1..Len(y.ctx)
      BY <3>1, LocIs, ContextIs, ActivationIs
    <3>3. QED BY <3>1, <3>2
  <2>3. CASE m <= Len(y.ctx)
    <3>1. OnWay(o, y, m, bl)
      BY <2>1, <2>2, <2>3, OnWayStays
    <3>2. QED BY <2>1, <3>1
  <2>4. CASE Len(y.ctx) < m
    <3> DEFINE q == m - 2
    <3>1. q = Len(y.ctx) /\ OnWay(o, y, q, bl)
      BY <2>1, <2>2, <2>4, OnWayReturns
    <3>2. q \in 1..Len(o.ctx)
      BY <3>1 DEF OnWay
    <3>3. q >= Len(c)
      <4> HIDE DEF q
      <4>1. QED BY <2>2, <3>1
    <3> HIDE DEF q
    <3>4. QED BY <3>1, <3>2, <3>3
  <2>5. QED BY <2>2, <2>3, <2>4
<1>4. W \subseteq C /\ \A x \in C \ bl : Follows[x] \cap A \subseteq C
  BY <1>2, <1>3
<1> HIDE DEF C, A, W
<1>5. C \in SUBSET Locs
  BY <1>1 DEF C
<1>6. Executed(W, bl, A) \subseteq C
  BY <1>1, <1>4, <1>5, ExecutedIs
<1>7. QED BY <1>2, <1>6 DEF C, A, W

(* The ways into t are open at the levels of the calls that lead to it.    *)
LEMMA LevelOpen ==
  ASSUME NEW bl, Allowed(bl), NEW t \in Locs \ bl, t.inst \notin Calls, CallsOpen(t, bl),
         NEW k \in 1..Len(t.ctx), k % 2 = 1
  PROVE  At(t, k) \in Inst \ BlAt(t, k, bl) /\ BlAt(t, k, bl) \in SUBSET Inst
<1>1. At(t, k) \in Inst /\ (k = Len(t.ctx) => At(t, k) = t.inst)
      /\ (k < Len(t.ctx) => At(t, k) = t.ctx[k + 1])
  BY AtIs
<1>2. BlAt(t, k, bl) \in SUBSET Inst /\ (k = Len(t.ctx) => getPrefix(t.ctx, k) = t.ctx)
  BY LevelIs, BlIs DEF BlAt
<1>3. Len(t.ctx) \in Nat /\ t.ctx \in Seq(Inst)
  BY LocIs, ContextIs
<1>4. CASE k = Len(t.ctx)
  BY <1>1, <1>2, <1>4, OpenHere DEF BlAt
<1>5. CASE k < Len(t.ctx)
  <2> DEFINE p == k + 1
  <2>1. p \in 1..Len(t.ctx) /\ p % 2 = 0 /\ p - 1 = k
    BY <1>3, <1>5
  <2> HIDE DEF p
  <2>2. p \in DOMAIN t.ctx
    BY <1>3, <2>1, LenProperties
  <2>3. t.ctx[p] \notin Bl(getPrefix(t.ctx, p - 1), bl)
    BY <2>1, <2>2 DEF CallsOpen, Bl
  <2>4. QED BY <1>1, <1>2, <1>5, <2>1, <2>3 DEF BlAt, p
<1>6. QED BY <1>3, <1>4, <1>5

LEMMA PathIsReach ==
  ASSUME NEW bl, Allowed(bl), NEW t \in Locs \ bl, t.inst \notin Calls, CallsOpen(t, bl),
         NEW o \in Locs \ bl, SomePath(t, o, bl)
  PROVE  reachable(t, o, bl)
<1> DEFINE ip == Common(t.ctx, o.ctx)
           c == Shared(t, o)
           A == Activation(c)
<1>1. /\ t.ctx \in Contexts /\ o.ctx \in Contexts /\ Len(t.ctx) \in Nat /\ Len(o.ctx) \in Nat
  BY LocIs, ContextIs
<1>2. /\ ip \in 1..Len(t.ctx) /\ ip \in 1..Len(o.ctx) /\ ip % 2 = 1 /\ \A p \in 1..ip : t.ctx[p] = o.ctx[p]
      /\ getPrefix(t.ctx, ip) = getPrefix(o.ctx, ip)
      /\ (ip < Len(t.ctx) /\ ip < Len(o.ctx) => t.ctx[ip + 1] # o.ctx[ip + 1])
  BY <1>1, CommonIs
<1>3. c \in Contexts /\ Len(c) = ip /\ o \in A
  BY SharedIs
<1>4. t = o \/ t \in Executed(Follows[o] \cap A, bl, A)
  <2>1. o # Global
    BY SubjectsAre
  <2>2. QED BY <2>1 DEF SomePath
<1> HIDE DEF ip, c
<1>5. PICK m \in 1..Len(o.ctx) : m >= Len(c) /\ OnWay(o, t, m, bl)
  BY <1>3, <1>4, OnWayAll
<1>6. m = ip
  <2>1. m \in Nat /\ ip \in Nat /\ ip <= m /\ m \in 1..Len(t.ctx) /\ \A p \in 1..m : t.ctx[p] = o.ctx[p]
    BY <1>1, <1>2, <1>3, <1>5 DEF OnWay
  <2>2. ASSUME ip < m PROVE FALSE
    <3>1. ip < Len(t.ctx) /\ ip < Len(o.ctx) /\ ip + 1 \in 1..m
      BY <1>1, <1>5, <2>1, <2>2
    <3>2. QED BY <1>2, <2>1, <3>1
  <2>3. QED BY <2>1, <2>2
<1>7. Up(o, ip, bl) /\ Deep(t, ip, bl) /\ Comes(At(o, ip), At(t, ip), BlAt(o, ip, bl))
  BY <1>5, <1>6 DEF OnWay
<1>8. BlAt(o, ip, bl) = BlAt(t, ip, bl)
  BY <1>2 DEF BlAt
<1>9. Between(At(o, ip), At(t, ip), BlAt(t, ip, bl))
  <2>1. At(t, ip) \in Inst \ BlAt(t, ip, bl) /\ BlAt(t, ip, bl) \in SUBSET Inst
    BY <1>2, LevelOpen
  <2>2. At(o, ip) \in Inst
    BY <1>2, AtIs
  <2>3. getFunction(At(o, ip)) = getFunction(At(t, ip))
    <3>1. getFunction(At(o, ip)) = getFunction(o.ctx[ip])
      BY <1>2, AtIs
    <3>2. getFunction(At(t, ip)) = getFunction(t.ctx[ip])
      BY <1>2, AtIs
    <3>3. ip \in 1..ip
      BY <1>2
    <3>4. QED BY <1>2, <3>1, <3>2, <3>3
  <2>4. QED BY <1>7, <1>8, <2>1, <2>2, <2>3, BetweenBy
<1>10. \A k \in 1..Len(t.ctx) : k % 2 = 1 /\ k > ip => FromEntry(At(t, k), BlAt(t, k, bl))
  <2>1. ASSUME NEW k \in 1..Len(t.ctx), k % 2 = 1, k > ip PROVE FromEntry(At(t, k), BlAt(t, k, bl))
    <3>1. At(t, k) \in Inst \ BlAt(t, k, bl) /\ BlAt(t, k, bl) \in SUBSET Inst
      BY <2>1, LevelOpen
    <3>2. Arrives(At(t, k), BlAt(t, k, bl))
      BY <1>7, <2>1 DEF Deep
    <3>3. QED BY <3>1, <3>2, FromEntryBy
  <2>2. QED BY <2>1
<1>11. QED BY <1>7, <1>9, <1>10, ReachableIs DEF Up, ip

(* The same from the start of the entry function.                          *)
LEMMA PathIsReachStart ==
  ASSUME NEW bl, Allowed(bl), NEW t \in Locs \ bl, t.inst \notin Calls, CallsOpen(t, bl),
         SomePath(t, Global, bl)
  PROVE  reachable(t, Global, bl)
<1> DEFINE c == <<FirstOf(main)>>
           A == Activation(c)
           W == {Start(c)} \ bl
           C == {x \in Locs : Deep(x, 0, bl)}
<1>1. c \in Contexts /\ A \in SUBSET Locs
  <2>1. c \in Contexts
    BY ContextAssumption
  <2> HIDE DEF c
  <2>2. QED BY <2>1, ActivationIs
<1>2. Global.ctx = <<>> /\ t # Global
  BY SubjectsAre
<1>3. t \in Executed(W, bl, A)
  BY <1>2 DEF SomePath, Shared
<1>4. Start(c) \in Locs /\ Start(c).ctx = c /\ Start(c).inst = Last(c) /\ Last(c) \in Inst
  BY <1>1, StartIs
<1>5. Start(c) \in C
  <2> DEFINE s == Start(c)
  <2>0. Len(c) = 1
    OBVIOUS
  <2> HIDE DEF c, s
  <2>1. s \in Locs /\ s.ctx = c /\ s.inst = Last(c) /\ Len(s.ctx) = 1 /\ Last(c) = c[1]
    BY <1>4, <2>0 DEF Last, s
  <2>2. 1 \in 1..Len(s.ctx) /\ 1 % 2 = 1 /\ \A k \in 1..Len(s.ctx) : k = 1
    BY <2>1
  <2>3. At(s, 1) = s.inst /\ At(s, 1) \in Inst /\ s.ctx[1] = First(entryBB[getFunction(At(s, 1))])
    BY <2>1, <2>2, AtIs
  <2>4. BlAt(s, 1, bl) \in SUBSET Inst
    BY <2>1, <2>2, LevelIs, BlIs DEF BlAt
  <2>5. getFunction(At(s, 1)) \in DOMAIN entryBB
    BY <2>3, InstIs, SuccIs DEF getFunction
  <2>6. Arrives(At(s, 1), BlAt(s, 1, bl))
    BY <2>1, <2>3, <2>4, <2>5, ArrivesFirst
  <2>7. Deep(s, 0, bl)
    BY <2>2, <2>6 DEF Deep
  <2>8. QED BY <2>1, <2>7 DEF s
<1>6. ASSUME NEW x \in C \ bl, NEW y \in Follows[x] PROVE y \in C
  <2>1. y \in Locs /\ 0 \in Nat /\ Deep(x, 0, bl) /\ x \in Locs \ bl
    BY FollowsKinds
  <2>2. QED BY <2>1, DeepStep
<1>7. C \in SUBSET Locs /\ W \subseteq C /\ W \in SUBSET Locs /\ \A x \in C \ bl : Follows[x] \cap A \subseteq C
  BY <1>4, <1>5, <1>6
<1> HIDE DEF C, A, W
<1>8. Executed(W, bl, A) \subseteq C
  BY <1>1, <1>7, ExecutedIs
<1>9. Deep(t, 0, bl)
  BY <1>3, <1>8 DEF C
<1>10. \A k \in 1..Len(t.ctx) : k % 2 = 1 => FromEntry(At(t, k), BlAt(t, k, bl))
  <2>1. ASSUME NEW k \in 1..Len(t.ctx), k % 2 = 1 PROVE FromEntry(At(t, k), BlAt(t, k, bl))
    <3>1. At(t, k) \in Inst \ BlAt(t, k, bl) /\ BlAt(t, k, bl) \in SUBSET Inst
      BY <2>1, LevelOpen
    <3>2. k > 0
      OBVIOUS
    <3>3. Arrives(At(t, k), BlAt(t, k, bl))
      BY <1>9, <2>1, <3>2 DEF Deep
    <3>4. QED BY <3>1, <3>3, FromEntryBy
  <2>2. QED BY <2>1
<1>11. QED BY <1>10, ReachableStart

(* reachable misses no way, in any program, unless a call that leads to    *)
(* the location blocks as a whole.                                         *)
THEOREM PathsAreReached == Spec => []PathMeansReach
<1>1. QueryOK => PathMeansReach
  <2> SUFFICES ASSUME QueryOK, Asked, CallsOpen(query.this, query.blocklist),
                      SomePath(query.this, query.other, query.blocklist)
               PROVE  reachable(query.this, query.other, query.blocklist)
    BY DEF PathMeansReach
  <2> DEFINE t == query.this
             o == query.other
             bl == query.blocklist
  <2>1. /\ t \in Subjects /\ o \in Subjects \cup {Global} /\ bl \in Blocklists /\ t \notin bl /\ o \notin bl
    BY DEF QueryOK, Asked
  <2>2. t \in Locs \ bl /\ t.inst \notin Calls /\ Allowed(bl) /\ (o = Global \/ o \in Locs \ bl)
    BY <2>1, SubjectsAre DEF Allowed
  <2>3. CallsOpen(t, bl) /\ SomePath(t, o, bl)
    OBVIOUS
  <2> HIDE DEF t, o, bl
  <2>4. reachable(t, o, bl)
    BY <2>2, <2>3, PathIsReach, PathIsReachStart
  <2>5. QED BY <2>4 DEF t, o, bl
<1>2. QED BY <1>1, QueriesOK, PTL

----------------------------------------------------------------------------
(* A way is as it is said: a set of instructions that is left only at      *)
(* blocking ones.                                                          *)

Open(I, R) == \A i \in I \ R : \A j : Moves(i, j) => j \in I

LEMMA WithinBlock ==
  ASSUME NEW I \in SUBSET Inst, NEW R, Open(I, R), NEW b \in Block,
         NEW n \in 1..Size[b], NEW m \in 1..Size[b], n <= m, <<b, n>> \in I,
         \A k \in n..m : k < m => <<b, k>> \notin R
  PROVE  <<b, m>> \in I
<1> DEFINE T == {k \in 0..m : k >= n /\ <<b, k>> \in I}
           s == Size[b]
<1>1. s \in Nat /\ n \in 1..s /\ m \in 1..s
  BY InstIs
<1> HIDE DEF s
<1>2. n \in T /\ m \in Nat /\ n \in Nat
  BY <1>1
<1>3. PICK k \in T : \A j \in T : j <= k
  <2>1. T \in SUBSET (0..m) /\ T # {}
    BY <1>2
  <2> HIDE DEF T
  <2>2. QED BY <1>2, <2>1, GreatestNumber
<1>4. k = m
  <2>1. ASSUME k < m PROVE FALSE
    <3> DEFINE q == k + 1
               i == <<b, k>>
               j == <<b, q>>
    <3>1. k \in n..m /\ k < s /\ k \in Nat /\ q \in 0..m /\ q >= n
      BY <1>1, <1>2, <1>3, <2>1
    <3>2. i \in I \ R
      BY <1>3, <2>1, <3>1
    <3>3. Moves(i, j)
      BY <3>1, <3>2 DEF Moves, s
    <3>4. j \in I
      BY <3>2, <3>3 DEF Open
    <3>5. q \in T
      BY <3>1, <3>4
    <3>6. q <= k
      BY <1>3, <3>5
    <3>7. QED BY <3>1, <3>6
  <2>2. QED BY <1>2, <2>1
<1>5. QED BY <1>3, <1>4

LEMMA BlockWay ==
  ASSUME NEW R \in SUBSET Inst, NEW I \in SUBSET Inst, Open(I, R),
         NEW W \in SUBSET Block, \A b \in W : First(b) \in I
  PROVE  \A b \in Visited(W, {r[1] : r \in R}) :
           /\ First(b) \in I
           /\ b \notin {r[1] : r \in R} => <<b, Size[b]>> \in I \ R
<1> DEFINE K == {r[1] : r \in R}
           C == {b \in Block : First(b) \in I}
<1>1. ASSUME NEW b \in C \ K PROVE <<b, Size[b]>> \in I \ R
  <2> DEFINE s == Size[b]
             n == 1
  <2>1. s \in Nat \ {0} /\ <<b, n>> \in I
    BY InstIs DEF First
  <2>2. \A k : <<b, k>> \notin R
    <3>1. ASSUME NEW k, <<b, k>> \in R PROVE FALSE
      <4> DEFINE r == <<b, k>>
      <4>1. r[1] = b /\ r \in R
        BY <3>1
      <4>2. QED BY <4>1
    <3>2. QED BY <3>1
  <2> HIDE DEF s
  <2>3. n \in 1..s /\ s \in 1..s /\ n <= s
    BY <2>1
  <2> HIDE DEF n, C, K
  <2>4. b \in Block
    BY DEF C
  <2>5. <<b, s>> \in I
    BY <2>1, <2>2, <2>3, <2>4, WithinBlock DEF s
  <2>6. QED BY <2>2, <2>5 DEF s
<1>2. ASSUME NEW b \in C \ K, NEW t \in ToSet(succ[b]) PROVE t \in C
  <2> DEFINE i == <<b, Size[b]>>
  <2>1. i \in I \ R
    BY <1>1
  <2>2. Moves(i, First(t))
    BY DEF Moves
  <2>3. First(t) \in I
    BY <2>1, <2>2 DEF Open
  <2>4. t \in Block
    BY SuccIs
  <2>5. QED BY <2>3, <2>4
<1>3. C \in SUBSET Block /\ W \subseteq C /\ \A x \in C \ K : ToSet(succ[x]) \subseteq C
  BY <1>2
<1>4. \A b \in C : First(b) \in I
  OBVIOUS
<1> HIDE DEF C, K
<1>5. Visited(W, K) \subseteq C
  BY <1>3, VisitedIs
<1>6. QED BY <1>1, <1>4, <1>5 DEF K

(* To the end of i's block, if nothing there blocks.                       *)
LEMMA BlockEnd ==
  ASSUME NEW R \in SUBSET Inst, NEW I \in SUBSET Inst, Open(I, R),
         NEW i \in Inst, \A j : Moves(i, j) => j \in I, Ahead(i, R) = {}
  PROVE  /\ i[2] = Size[i[1]] \/ <<i[1], Size[i[1]]>> \in I \ R
         /\ \A s \in ToSet(succ[i[1]]) : First(s) \in I
<1> DEFINE b == i[1]
           z == Size[b]
           n == i[2] + 1
<1>1. b \in Block /\ z \in Nat \ {0} /\ i[2] \in 1..z /\ i = <<b, i[2]>>
  BY InstIs
<1>2. \A r \in R : r[1] = b => ~(r # i /\ i[2] <= r[2])
  BY DEF Ahead, isReachableInBB, getParent
<1>3. ASSUME i[2] # z PROVE <<b, z>> \in I \ R
  <2> HIDE DEF b, z
  <2>1. i[2] < z /\ n \in 1..z /\ z \in 1..z /\ n <= z /\ i[2] \in Nat
    BY <1>1, <1>3
  <2>2. Moves(i, <<b, n>>)
    BY <2>1 DEF Moves, b, z
  <2>3. <<b, n>> \in I
    BY <2>2
  <2>4. ASSUME NEW k \in n..z PROVE <<b, k>> \notin R
    <3> DEFINE r == <<b, k>>
    <3>1. r[1] = b /\ r[2] = k /\ i[2] <= k /\ k # i[2]
      BY <2>1
    <3>2. r # i
      BY <1>1, <3>1
    <3>3. QED BY <1>2, <3>1, <3>2 DEF b
  <2> HIDE DEF n
  <2>5. z \in n..z
    BY <2>1
  <2>6. <<b, z>> \in I
    BY <1>1, <2>1, <2>3, <2>4, WithinBlock DEF z
  <2>7. QED BY <2>4, <2>5, <2>6
<1>4. ASSUME NEW s \in ToSet(succ[b]) PROVE First(s) \in I
  <2>1. CASE i[2] = z
    <3>1. Moves(i, First(s))
      BY <2>1 DEF Moves
    <3>2. QED BY <3>1
  <2>2. CASE i[2] # z
    <3> DEFINE j == <<b, z>>
    <3>1. j \in I \ R
      BY <1>3, <2>2
    <3>2. Moves(j, First(s))
      BY DEF Moves
    <3>3. QED BY <3>1, <3>2 DEF Open
  <2>3. QED BY <2>1, <2>2
<1>5. QED BY <1>3, <1>4

(* To a return.                                                            *)
LEMMA ReturnWay ==
  ASSUME NEW R \in SUBSET Inst, NEW I \in SUBSET Inst, Open(I, R),
         NEW i \in Inst, \A j : Moves(i, j) => j \in I, ToReturn(i, R)
  PROVE  Returns(i) \/ \E j \in I \ R : Returns(j)
<1> DEFINE b == i[1]
           K == {r[1] : r \in R}
           W == ToSet(succ[b])
<1>1. b \in Block /\ W \in SUBSET Block
  BY InstIs, SuccIs
<1>2. Ahead(i, R) = {}
  BY DEF ToReturn, Ahead
<1>3. i[2] = Size[b] \/ <<b, Size[b]>> \in I \ R
  BY <1>2, BlockEnd
<1>4. \A s \in W : First(s) \in I
  BY <1>2, BlockEnd
<1>5. CASE succ[b] = <<>>
  <2>1. CASE i[2] = Size[b]
    BY <1>5, <2>1 DEF Returns
  <2>2. CASE i[2] # Size[b]
    <3> DEFINE j == <<b, Size[b]>>
    <3>1. j \in I \ R /\ j[1] = b /\ j[2] = Size[b]
      BY <1>3, <2>2
    <3>2. Returns(j)
      BY <1>5, <3>1 DEF Returns
    <3>3. QED BY <3>1, <3>2
  <2>3. QED BY <2>1, <2>2
<1>6. CASE succ[b] # <<>>
  <2>1. \E r \in Visited(W, K) \ K : succ[r] = <<>>
    <3>1. CASE R = {}
      <4>1. K = {}
        BY <3>1
      <4>2. PICK r \in Visited({b}, {}) : succ[r] = <<>>
        BY <1>1, ProgramAssumption
      <4>3. r \in {b} \cup Visited(W, {})
        <5> DEFINE D == {}
        <5>1. r \in Visited({b}, D)
          BY <4>2
        <5> HIDE DEF D, b, W
        <5>2. r \in {b} \cup Visited(ToSet(succ[b]), D)
          BY <1>1, <5>1, VisitedStep
        <5>3. QED BY <5>2 DEF D, W
      <4>4. r \in Visited(W, K) /\ r \notin K
        BY <1>6, <4>1, <4>2, <4>3
      <4>5. QED BY <4>2, <4>4
    <3>2. CASE R # {}
      BY <1>6, <3>2 DEF ToReturn, isPotentiallyReachableFromMany, getParent
    <3>3. QED BY <3>1, <3>2
  <2>2. PICK r \in Visited(W, K) \ K : succ[r] = <<>>
    BY <2>1
  <2> DEFINE j == <<r, Size[r]>>
  <2> HIDE DEF W
  <2>3. j \in I \ R
    BY <1>1, <1>4, <2>2, BlockWay
  <2>4. Returns(j)
    BY <2>2 DEF Returns
  <2> HIDE DEF j
  <2>5. QED BY <2>3, <2>4
<1>7. QED BY <1>5, <1>6

(* From a block to an instruction of it that nothing blocks.               *)
LEMMA BlockTo ==
  ASSUME NEW R \in SUBSET Inst, NEW I \in SUBSET Inst, Open(I, R),
         NEW j \in Inst, First(j[1]) \in I, \A r \in R : r[1] = j[1] => r[2] >= j[2]
  PROVE  j \in I
<1> DEFINE b == j[1]
           n == 1
           m == j[2]
           z == Size[b]
<1>1. b \in Block /\ z \in Nat \ {0} /\ m \in 1..z /\ j = <<b, m>> /\ <<b, n>> \in I
  BY InstIs DEF First
<1> HIDE DEF b, z, m
<1>2. n \in 1..z /\ n <= m /\ m \in Nat
  BY <1>1
<1>3. ASSUME NEW k \in n..m, k < m PROVE <<b, k>> \notin R
  <2> DEFINE r == <<b, k>>
  <2>1. r[1] = b /\ r[2] = k /\ k \in Nat
    BY <1>2
  <2>2. ~(k >= m)
    BY <1>2, <1>3, <2>1
  <2>3. QED BY <2>1, <2>2 DEF b, m
<1> HIDE DEF n
<1>4. <<b, m>> \in I
  BY <1>1, <1>2, <1>3, WithinBlock DEF z
<1>5. QED BY <1>1, <1>4

LEMMA FromEntryWay ==
  ASSUME NEW R \in SUBSET Inst, NEW I \in SUBSET Inst, Open(I, R),
         NEW j \in Inst, First(entryBB[getFunction(j)]) \in I, FromEntry(j, R)
  PROVE  j \in I
<1> DEFINE e == entryBB[getFunction(j)]
           K == {r[1] : r \in R}
           W == {e}
<1>1. j[1] \in Block /\ e \in Block /\ W \in SUBSET Block
  BY InstIs, SuccIs DEF getFunction
<1>2. j # None
  BY InstIs DEF None
<1>3. j[1] \in Visited(W, K) /\ \A r \in R : r[1] = j[1] => r[2] >= j[2]
  <2>1. CASE R = {}
    <3>1. K = {}
      BY <2>1
    <3>2. j[1] \in Visited(W, {})
      BY <1>1, ProgramAssumption DEF getFunction
    <3>3. QED BY <2>1, <3>1, <3>2
  <2>2. CASE R # {}
    BY <1>2, <2>2 DEF FromEntry, isPotentiallyReachableFromMany, getParent
  <2>3. QED BY <2>1, <2>2
<1>4. \A x \in W : First(x) \in I
  OBVIOUS
<1> HIDE DEF W
<1>5. First(j[1]) \in I
  <2> DEFINE x == j[1]
  <2>1. x \in Visited(W, K)
    BY <1>3
  <2> HIDE DEF x
  <2>2. First(x) \in I
    BY <1>1, <1>4, <2>1, BlockWay
  <2>3. QED BY <2>2 DEF x
<1>6. QED BY <1>3, <1>5, BlockTo

LEMMA BetweenWay ==
  ASSUME NEW R \in SUBSET Inst, NEW I \in SUBSET Inst, Open(I, R),
         NEW i \in Inst, \A j : Moves(i, j) => j \in I,
         NEW j \in Inst, j # i, getFunction(i) = getFunction(j), Between(i, j, R)
  PROVE  j \in I
<1> DEFINE b == i[1]
           K == {r[1] : r \in R}
           W == ToSet(succ[b])
           e == entryBB[getFunction(i)]
<1>1. /\ b \in Block /\ W \in SUBSET Block /\ j[1] \in Block /\ e \in Block
      /\ i = <<b, i[2]>> /\ j = <<j[1], j[2]>> /\ i[2] \in Nat /\ j[2] \in Nat
  BY InstIs, SuccIs DEF getFunction
<1>2. j # None
  BY <1>1 DEF None
<1>3. CASE isReachableInBB(i, j)
  <2> DEFINE n == i[2] + 1
             m == j[2]
             z == Size[b]
  <2>1. j[1] = b /\ i[2] <= m
    BY <1>3 DEF isReachableInBB, getParent
  <2>2. i[2] # m
    BY <1>1, <2>1
  <2>3. z \in Nat /\ i[2] \in 1..z /\ m \in 1..z
    BY <2>1, InstIs
  <2> HIDE DEF z, b, m
  <2>4. n \in 1..z /\ n <= m /\ i[2] < z
    BY <2>1, <2>2, <2>3
  <2>5. Moves(i, <<b, n>>)
    BY <2>4 DEF Moves, z, b
  <2>6. <<b, n>> \in I
    BY <2>5
  <2>7. ASSUME NEW k \in n..m, k < m PROVE <<b, k>> \notin R
    <3> DEFINE r == <<b, k>>
    <3>1. r[1] = b /\ r[2] = k /\ i[2] <= k /\ k # i[2] /\ ~(k >= m)
      BY <2>3, <2>4, <2>7
    <3>2. r # i
      BY <1>1, <3>1
    <3>3. r \in R => r \in Ahead(i, R)
      BY <3>1, <3>2 DEF Ahead, isReachableInBB, getParent, b
    <3>4. \A x \in Ahead(i, R) : x[2] >= m
      BY <1>3 DEF Between, m
    <3>5. QED BY <3>1, <3>3, <3>4
  <2> HIDE DEF n
  <2>8. <<b, m>> \in I
    BY <1>1, <2>3, <2>4, <2>6, <2>7, WithinBlock DEF z
  <2>9. QED BY <1>1, <2>1, <2>8 DEF m
<1>4. CASE ~isReachableInBB(i, j)
  <2>1. /\ Ahead(i, R) = {}
        /\ j[1] \in Visited(W, K)
        /\ \A r \in R : r[1] = j[1] => r[2] >= j[2]
    <3>1. CASE R = {} /\ getParent(i) # getParent(j) /\ e \in {getParent(i), getParent(j)}
      <4>1. K = {} /\ Ahead(i, R) = {}
        BY <3>1 DEF Ahead
      <4>2. b = e /\ j[1] # b
        BY <1>4, <3>1 DEF Between, getParent
      <4>3. j[1] \in Visited({e}, {})
        BY <1>1, ProgramAssumption DEF getFunction
      <4>4. j[1] \in {b} \cup Visited(W, {})
        <5> DEFINE D == {}
        <5>1. j[1] \in Visited({b}, D)
          BY <4>2, <4>3
        <5> HIDE DEF D, b, W
        <5>2. j[1] \in {b} \cup Visited(ToSet(succ[b]), D)
          BY <1>1, <5>1, VisitedStep
        <5>3. QED BY <5>2 DEF D, W
      <4>5. QED BY <3>1, <4>1, <4>2, <4>4
    <3>2. CASE ~(R = {} /\ getParent(i) # getParent(j) /\ e \in {getParent(i), getParent(j)})
      <4>1. Ahead(i, R) = {} /\ isPotentiallyReachableFromMany(ToSet(succ[getParent(i)]), j, R)
        BY <1>4, <3>2 DEF Between
      <4>2. QED BY <1>2, <4>1 DEF isPotentiallyReachableFromMany, getParent
    <3>3. QED BY <3>1, <3>2
  <2>2. \A s \in W : First(s) \in I
    BY <2>1, BlockEnd
  <2> HIDE DEF W
  <2>3. First(j[1]) \in I
    <3> DEFINE x == j[1]
    <3>1. x \in Visited(W, K)
      BY <2>1
    <3> HIDE DEF x
    <3>2. First(x) \in I
      BY <1>1, <2>2, <3>1, BlockWay
    <3>3. QED BY <3>2 DEF x
  <2>4. QED BY <2>1, <2>3, BlockTo
<1>5. QED BY <1>3, <1>4

(* A callee that can be passed, judged by more than its first instruction, *)
(* has a way to a return.                                                  *)
LEMMA PassableWay ==
  ASSUME NEW f \in DOMAIN entryBB, NEW R \in SUBSET Inst,
         \A i \in R : getFunction(i) = f /\ i # First(entryBB[f]) /\ getRetBBs(f) # {i[1]},
         Passable(First(entryBB[f]), R)
  PROVE  \E r \in Visited({entryBB[f]}, {i[1] : i \in R}) \ {i[1] : i \in R} : succ[r] = <<>>
<1> DEFINE e == entryBB[f]
           K == {i[1] : i \in R}
           W == {e}
           V == Visited(W, K)
           doms == getDomsForRet(f)
<1>1. /\ e \in Block /\ host[e] = f /\ First(e) \in Inst /\ First(e)[1] = e /\ First(e)[2] = 1
      /\ W \in SUBSET Block /\ First(e) # None
  BY FlowAssumption, InstIs DEF None
<1>2. getFunction(First(e)) = f
  BY <1>1 DEF getFunction
<1>3. \A i \in R : i[1] \in Block /\ host[i[1]] = f /\ i = <<i[1], i[2]>> /\ i[2] \in Nat /\ 1 <= i[2]
  BY InstIs DEF getFunction
<1>4. CASE Cardinality(R) = 1 /\ doms # {}
  <2>1. PICK i : R = {i}
    BY <1>4, LocsFinite, FS_Subset, FS_Singleton
  <2> DEFINE b == i[1]
             D == {b}
  <2>2. /\ i \in R /\ K = D /\ b \in Block /\ host[b] = f /\ getRetBBs(f) # D
    BY <1>3, <2>1
  <2>3. b \notin doms
    BY <1>2, <1>4, <2>2 DEF Passable, getParent
  <2>4. PICK r \in getRetBBs(f) : b \notin getDominators(r)
    BY <1>4, <2>3 DEF getDomsForRet
  <2>5. \A x \in getRetBBs(f) : x \in Block /\ host[x] = f /\ succ[x] = <<>>
    BY DEF getRetBBs
  <2> HIDE DEF b
  <2>6. ASSUME NEW x \in getRetBBs(f), x # b, b \notin getDominators(x)
        PROVE  x \in V \ K
    <3>1. x \in Visited({entryBB[host[x]]} \ {b}, {b})
      BY <2>2, <2>5, <2>6 DEF getDominators, Dominates
    <3>2. e # b
      <4>1. ASSUME e = b PROVE FALSE
        <5> DEFINE N == {}
        <5>1. {entryBB[host[x]]} \ {b} = N
          BY <2>5, <2>6, <4>1
        <5>2. x \in Visited(N, {b})
          BY <3>1, <5>1
        <5>3. N \in SUBSET Block /\ N \subseteq N /\ \A y \in N \ D : ToSet(succ[y]) \subseteq N
          OBVIOUS
        <5> HIDE DEF N, D
        <5>4. Visited(N, D) \subseteq N
          BY <5>3, VisitedIs
        <5>5. x \in N
          BY <5>2, <5>4 DEF D
        <5>6. QED BY <5>5 DEF N
      <4>2. QED BY <4>1
    <3>3. {entryBB[host[x]]} \ {b} = W
      BY <2>5, <2>6, <3>2
    <3>4. QED BY <2>2, <2>6, <3>1, <3>3
  <2>7. CASE r # b
    BY <2>4, <2>5, <2>6, <2>7
  <2>8. CASE r = b
    <3>1. PICK x \in getRetBBs(f) : x # b
      BY <2>2, <2>4, <2>8
    <3>2. x \in V \ K
      <4>1. x \in Visited(W, {})
        BY <2>5, <3>1, ProgramAssumption
      <4>2. \A y \in V : ToSet(succ[y]) \subseteq V
        <5>1. \A y \in V \ K : ToSet(succ[y]) \subseteq V
          <6> HIDE DEF W, K
          <6>1. QED BY <1>1, VisitedIs
        <5>2. ToSet(succ[b]) = {}
          BY <2>4, <2>5, <2>8 DEF ToSet
        <5>3. QED BY <2>2, <5>1, <5>2
      <4> DEFINE N == {}
      <4> HIDE DEF W, K
      <4>3. V \in SUBSET Block /\ W \subseteq V
        BY <1>1, VisitedIs
      <4> HIDE DEF V
      <4>4. x \in Visited(W, N)
        BY <4>1
      <4> HIDE DEF N
      <4>5. Visited(W, N) \subseteq V
        BY <1>1, <4>2, <4>3, VisitedIs
      <4>6. QED BY <2>2, <3>1, <4>4, <4>5
    <3>3. QED BY <2>5, <3>2
  <2>9. QED BY <2>7, <2>8
<1>5. CASE ~(Cardinality(R) = 1 /\ doms # {})
  <2>1. ToReturn(First(e), R)
    <3>1. isPotentiallyReachable(First(e), None, R)
      BY <1>2, <1>5 DEF Passable
    <3>2. QED BY <1>1, <3>1 DEF isPotentiallyReachable
  <2>2. CASE R = {}
    <3>1. K = {}
      BY <2>2
    <3>2. \E r \in Visited({e}, {}) : succ[r] = <<>>
      BY <1>1, ProgramAssumption
    <3>3. QED BY <3>1, <3>2
  <2>3. CASE R # {}
    <3>1. e \notin K
      <4>1. ASSUME NEW i \in R, i[1] = e PROVE FALSE
        <5>1. i \in Ahead(First(e), R)
          BY <1>1, <1>3, <4>1 DEF Ahead, isReachableInBB, getParent
        <5>2. QED BY <2>1, <2>3, <5>1 DEF ToReturn
      <4>2. QED BY <4>1
    <3> DEFINE X == ToSet(succ[e])
    <3>2. X \in SUBSET Block
      BY <1>1, SuccIs
    <3> HIDE DEF K, W
    <3>3. V \in SUBSET Block /\ W \subseteq V /\ \A y \in V \ K : ToSet(succ[y]) \subseteq V
      BY <1>1, VisitedIs
    <3>4. e \in V \ K
      BY <3>1, <3>3 DEF W
    <3> HIDE DEF V
    <3>5. Visited(X, K) \subseteq V
      <4>1. X \subseteq V
        BY <3>3, <3>4
      <4> HIDE DEF X
      <4>2. QED BY <3>2, <3>3, <4>1, VisitedIs
    <3>6. succ[e] = <<>> \/ \E r \in Visited(X, K) \ K : succ[r] = <<>>
      BY <1>1, <2>1, <2>3 DEF ToReturn, isPotentiallyReachableFromMany, getParent, K
    <3>7. QED BY <3>4, <3>5, <3>6 DEF V, W, K
  <2>4. QED BY <2>2, <2>3
<1>6. QED BY <1>4, <1>5

----------------------------------------------------------------------------
(* What executions come to, as a set that is left only at blocking         *)
(* locations.                                                              *)

OpenIn(S, c, bl) ==
  S \in SUBSET Activation(c) /\ \A x \in S \ bl : Follows[x] \cap Activation(c) \subseteq S

InstsOf(S, d) == {i \in Inst : Loc(i, d) \in S}

LEMMA Extends ==
  ASSUME NEW c \in Contexts, NEW d \in Contexts, IsPrefix(c, d),
         NEW i \in Inst, getFunction(i) = getFunction(Last(d))
  PROVE  Loc(i, d) \in Activation(c) /\ Loc(i, d) \in Locs /\ Loc(i, d).inst = i /\ Loc(i, d).ctx = d
BY LocIs DEF Activation

(* From a call that does not block to what comes after it, if the          *)
(* callee's instructions are passed.                                       *)
LEMMA CallPassed ==
  ASSUME NEW bl, Allowed(bl), Judged(bl), NEW c \in Contexts, NEW S, OpenIn(S, c, bl),
         NEW d \in Contexts, IsPrefix(c, d), NEW i \in Calls, getFunction(i) = getFunction(Last(d)),
         Loc(i, d) \in S, ~CallBlocked(i, d, bl),
         Open(InstsOf(S, Callee(d, i)), Bl(Callee(d, i), bl)),
         NEW j, Moves(i, j)
  PROVE  Loc(j, d) \in S
<1> DEFINE e == Callee(d, i)
           f == Target[i]
           R == Bl(e, bl)
           I == InstsOf(S, e)
           x == Loc(i, d)
           s == Start(e)
<1>1. /\ e \in Contexts /\ Len(e) = Len(d) + 2 /\ (\A p \in 1..Len(d) : e[p] = d[p]) /\ IsPrefix(d, e)
      /\ e[Len(d) + 1] = i /\ e[Len(d) + 2] = FirstOf(f) /\ getPrefix(e, Len(d)) = d /\ Len(d) \in Nat \ {0}
      /\ Len(c) \in Nat
  BY CalleeIs, ContextIs
<1>2. IsPrefix(c, e)
  <2>1. Len(c) <= Len(d) /\ \A p \in 1..Len(c) : c[p] = d[p]
    BY IsPrefixIs
  <2> HIDE DEF e
  <2>2. Len(c) <= Len(e) /\ \A p \in 1..Len(c) : p \in 1..Len(d)
    BY <1>1, <2>1
  <2>3. \A p \in 1..Len(c) : c[p] = e[p]
    BY <1>1, <2>1, <2>2
  <2>4. QED BY <1>1, <2>2, <2>3, IsPrefixIs
<1>3. /\ f \in DOMAIN entryBB /\ FirstOf(f) \in Inst /\ getFunction(FirstOf(f)) = f
      /\ Last(e) = FirstOf(f) /\ i \in Inst
  BY <1>1, CallIs, ProgramAssumption DEF Last
<1>4. x \in Locs /\ x.inst = i /\ x.ctx = d /\ x \in Activation(c)
  BY <1>3, Extends
<1>5. x \in S \ bl
  BY <1>4 DEF Allowed
<1>6. s \in S /\ s = Loc(FirstOf(f), e)
  <2>1. Follows[x] = {s}
    BY <1>4, FollowsIs
  <2>2. s = Loc(FirstOf(f), e)
    BY <1>3 DEF Start
  <2> HIDE DEF e, f
  <2>3. s \in Activation(c)
    BY <1>1, <1>2, <1>3, <2>2, Extends
  <2>4. QED BY <1>5, <2>1, <2>2, <2>3 DEF OpenIn
<1>7. R \in SUBSET Inst /\ \A r \in R : getFunction(r) = f /\ r # First(entryBB[f]) /\ getRetBBs(f) # {r[1]}
  <2> HIDE DEF e
  <2>1. R \in SUBSET Inst /\ \A r \in R : getFunction(r) = f
    BY <1>1, <1>3, BlIs
  <2>2. ASSUME NEW r \in R PROVE r # FirstOf(f) /\ getRetBBs(f) # {r[1]}
    <3>1. e \in Entered(bl)
      BY <1>1, NotEntered
    <3>2. Len(e) > 1
      BY <1>1
    <3>3. r # Last(e) /\ getRetBBs(getFunction(r)) # {getParent(r)}
      BY <3>1, <3>2 DEF Judged, Bl
    <3>4. QED BY <1>3, <2>1, <3>3 DEF getParent
  <2>3. QED BY <2>1, <2>2 DEF FirstOf
<1>8. Passable(First(entryBB[f]), R)
  BY DEF CallBlocked, FirstOf
<1> HIDE DEF e, f, R
<1>9. PICK b \in Visited({entryBB[f]}, {r[1] : r \in R}) \ {r[1] : r \in R} : succ[b] = <<>>
  BY <1>3, <1>7, <1>8, PassableWay
<1> DEFINE z == <<b, Size[b]>>
           y == Loc(z, e)
<1>10. z \in I \ R
  <2> DEFINE W == {entryBB[f]}
  <2>1. W \in SUBSET Block
    BY <1>3, FlowAssumption
  <2>2. \A w \in W : First(w) \in I
    BY <1>3, <1>6 DEF InstsOf, FirstOf
  <2>3. I \in SUBSET Inst /\ Open(I, R)
    BY DEF InstsOf, e, R
  <2>4. b \in Visited(W, {r[1] : r \in R}) /\ b \notin {r[1] : r \in R}
    BY <1>9
  <2> HIDE DEF W, I
  <2>5. QED BY <1>7, <2>1, <2>2, <2>3, <2>4, BlockWay
<1>11. Returns(z) /\ z \in Inst /\ y \in S
  BY <1>9, <1>10 DEF Returns, InstsOf
<1>12. z \notin Calls
  BY <1>11, MovesIs
<1> HIDE DEF z
<1>13. y \in Locs /\ y.inst = z /\ y.ctx = e
  <2>1. y \in Locs
    BY <1>11, ActivationIs DEF OpenIn
  <2>2. QED BY <2>1 DEF Loc
<1>14. y \notin bl
  <2>1. y \in bl => z \in R
    BY <1>1, BlIs DEF R
  <2>2. QED BY <1>10, <2>1
<1>15. Loc(j, d) \in Follows[y]
  <2>1. Len(e) > 1
    BY <1>1
  <2>2. Follows[y] = After(Caller(e))
    BY <1>11, <1>12, <1>13, <2>1, FollowsIs
  <2>3. Caller(e) \in Locs /\ Caller(e).inst = i /\ Caller(e).ctx = d
    <3>1. Len(e) - 1 = Len(d) + 1 /\ Len(e) - 2 = Len(d)
      BY <1>1
    <3>2. Caller(e) \in Locs /\ Caller(e).inst = e[Len(e) - 1] /\ Caller(e).ctx = getPrefix(e, Len(e) - 2)
      BY <1>1, <2>1, CallerIs
    <3>3. QED BY <1>1, <3>1, <3>2
  <2>4. j \in Inst
    BY <1>3, MovesIs
  <2>5. QED BY <2>2, <2>3, <2>4, AfterIs
<1>16. Loc(j, d) \in Activation(c)
  <2>1. j \in Inst /\ getFunction(j) = getFunction(Last(d))
    BY <1>3, MovesIs
  <2>2. QED BY <2>1, Extends
<1>17. QED BY <1>11, <1>14, <1>15, <1>16 DEF OpenIn

LEMMA Passes ==
  ASSUME NEW bl, Allowed(bl), Judged(bl), NEW c \in Contexts, NEW S, OpenIn(S, c, bl)
  PROVE  \A d \in Contexts : IsPrefix(c, d) => Open(InstsOf(S, d), Bl(d, bl))
<1> DEFINE T == {d \in Contexts : IsPrefix(c, d) /\ ~Open(InstsOf(S, d), Bl(d, bl))}
<1>1. ASSUME T # {} PROVE FALSE
  <2>1. PICK d \in T : \A e \in T : IsPrefix(d, e) => e = d
    <3>1. T \in SUBSET Contexts
      OBVIOUS
    <3> HIDE DEF T
    <3>2. QED BY <1>1, <3>1, Deepest
  <2>2. d \in Contexts /\ IsPrefix(c, d)
    OBVIOUS
  <2>3. PICK i \in InstsOf(S, d) \ Bl(d, bl) : \E j : Moves(i, j) /\ j \notin InstsOf(S, d)
    BY DEF Open
  <2>4. PICK j : Moves(i, j) /\ j \notin InstsOf(S, d)
    BY <2>3
  <2> DEFINE x == Loc(i, d)
  <2>5. i \in Inst /\ x \in S /\ x \in Activation(c) /\ x \in Locs /\ x.inst = i /\ x.ctx = d
    <3>1. i \in Inst /\ x \in S
      BY DEF InstsOf
    <3>2. x \in Activation(c) /\ x \in Locs
      BY <3>1, ActivationIs DEF OpenIn
    <3>3. QED BY <3>1, <3>2 DEF Loc
  <2>6. getFunction(i) = getFunction(Last(d)) /\ j \in Inst /\ getFunction(j) = getFunction(Last(d))
    BY <2>4, <2>5, LocIs, MovesIs
  <2>7. Loc(i, d) \notin bl /\ ~CallBlocked(i, d, bl)
    BY <2>2, <2>3, BlIs
  <2>8. CASE i \in Calls
    <3> DEFINE e == Callee(d, i)
    <3>1. e \in Contexts /\ IsPrefix(d, e) /\ Len(e) = Len(d) + 2 /\ Len(d) \in Nat /\ Len(c) \in Nat
          /\ \A p \in 1..Len(d) : e[p] = d[p]
      BY <2>2, <2>6, <2>8, CalleeIs, ContextIs
    <3> HIDE DEF e
    <3>2. e # d
      <4>1. Len(e) # Len(d)
        BY <3>1
      <4>2. QED BY <4>1
    <3>3. IsPrefix(c, e)
      <4>1. Len(c) <= Len(d) /\ \A p \in 1..Len(c) : c[p] = d[p]
        BY <2>2, IsPrefixIs
      <4>2. Len(c) <= Len(e) /\ \A p \in 1..Len(c) : p \in 1..Len(d)
        BY <3>1, <4>1
      <4>3. \A p \in 1..Len(c) : c[p] = e[p]
        BY <3>1, <4>1, <4>2
      <4>4. QED BY <3>1, <4>2, <4>3, IsPrefixIs
    <3>4. Open(InstsOf(S, e), Bl(e, bl))
      BY <2>1, <3>1, <3>2, <3>3
    <3>5. Loc(j, d) \in S
      BY <2>2, <2>4, <2>5, <2>6, <2>7, <2>8, <3>4, CallPassed DEF e
    <3>6. QED BY <2>4, <2>6, <3>5 DEF InstsOf
  <2>9. CASE i \notin Calls
    <3>1. ~Returns(i)
      <4>1. ASSUME Returns(i) PROVE FALSE
        <5>1. After(x) = {}
          BY <2>5, <4>1, AfterIs
        <5>2. Loc(j, d) \in After(x)
          BY <2>4, <2>5, <2>6, AfterIs
        <5>3. QED BY <5>1, <5>2
      <4>2. QED BY <4>1
    <3>2. Loc(j, d) \in Follows[x]
      <4>1. Follows[x] = After(x)
        BY <2>5, <2>9, <3>1, FollowsIs
      <4>2. Loc(j, d) \in After(x)
        BY <2>4, <2>5, <2>6, AfterIs
      <4>3. QED BY <4>1, <4>2
    <3>3. Loc(j, d) \in Activation(c)
      BY <2>2, <2>6, Extends
    <3>4. Loc(j, d) \in S
      BY <2>5, <2>7, <3>2, <3>3 DEF OpenIn
    <3>5. QED BY <2>4, <2>6, <3>4 DEF InstsOf
  <2>10. QED BY <2>8, <2>9
<1>2. QED BY <1>1

LEMMA InsideLoc ==
  ASSUME NEW l \in Locs, NEW k \in 1..Len(l.ctx), k % 2 = 1
  PROVE  Inside(l, k) = Loc(At(l, k), getPrefix(l.ctx, k))
<1>1. Inside(l, k).inst = At(l, k) /\ Inside(l, k).ctx = getPrefix(l.ctx, k)
  BY InsideIs
<1>2. CASE k = Len(l.ctx)
  <2>1. Inside(l, k) = l
    BY <1>2, InsideIs
  <2>2. QED BY <1>1, <2>1, LocIs
<1>3. CASE k < Len(l.ctx)
  <2>1. Inside(l, k) = CallSite(l, k + 1)
    BY <1>3, InsideIs
  <2>2. QED BY <1>1, <2>1 DEF CallSite, Loc
<1>4. Len(l.ctx) \in Nat
  BY LocIs, ContextIs
<1>5. QED BY <1>2, <1>3, <1>4

(* Down into the functions that lead to t.                                 *)
LEMMA DownWay ==
  ASSUME NEW bl, Allowed(bl), Judged(bl), NEW c \in Contexts, NEW S, OpenIn(S, c, bl),
         NEW t \in Locs, t \in Activation(c), Inside(t, Len(c)) \in S,
         \A k \in 1..Len(t.ctx) : k % 2 = 1 /\ k > Len(c) => FromEntry(At(t, k), BlAt(t, k, bl))
  PROVE  t \in S
<1> DEFINE n == Len(t.ctx)
           T == {k \in 1..n : k % 2 = 1 /\ k >= Len(c) /\ Inside(t, k) \in S}
<1>1. n \in Nat \ {0} /\ n % 2 = 1 /\ Len(c) \in Nat /\ Len(c) \in 1..n /\ Len(c) % 2 = 1 /\ t.ctx \in Contexts
  BY LocIs, ContextIs, ActivationIs
<1>2. ASSUME NEW k \in T, k # n PROVE k + 2 \in T
  <2> DEFINE q == k + 2
             d == getPrefix(t.ctx, k)
             i == At(t, k)
             e == getPrefix(t.ctx, q)
             j == At(t, q)
             R == Bl(e, bl)
             I == InstsOf(S, e)
  <2>1. k \in 1..Len(t.ctx) /\ k % 2 = 1 /\ k >= Len(c) /\ Inside(t, k) \in S /\ k < Len(t.ctx) /\ k \in Nat
    <3> HIDE DEF n
    <3>1. k \in 1..n /\ k < n /\ k \in Nat
      BY <1>1, <1>2
    <3>2. QED BY <3>1 DEF n
  <2>2. /\ d \in Contexts /\ Len(d) = k /\ getFunction(i) = getFunction(Last(d)) /\ i \in Calls
        /\ e = Callee(d, i) /\ q \in 1..Len(t.ctx) /\ \A p \in 1..k : d[p] = t.ctx[p]
    BY <2>1, LevelIs
  <2>3. q % 2 = 1 /\ q > Len(c) /\ q \in Nat
    <3>1. q % 2 = 1
      BY <2>1
    <3>2. q > Len(c) /\ q \in Nat
      BY <1>1, <2>1
    <3>3. QED BY <3>1, <3>2
  <2> HIDE DEF q, n
  <2>4. e \in Contexts /\ Len(e) = q /\ getFunction(j) = getFunction(Last(e)) /\ Last(e) = t.ctx[q]
        /\ \A p \in 1..q : e[p] = t.ctx[p]
    BY <2>2, <2>3, LevelIs
  <2>5. j \in Inst /\ t.ctx[q] = First(entryBB[getFunction(j)])
    BY <2>2, <2>3, AtIs
  <2> DEFINE x == Loc(i, d)
             s == Start(e)
  <2>6. Inside(t, k) = x /\ x \in Locs /\ x.inst = i /\ x.ctx = d
    <3>1. x \in Locs /\ x.inst = i /\ x.ctx = d
      BY <2>2, CallIs, LocIs
    <3>2. QED BY <2>1, <3>1, InsideLoc
  <2>7. x \in S \ bl
    BY <2>1, <2>2, <2>6 DEF Allowed
  <2>8. IsPrefix(c, e)
    <3>1. \A p \in 1..Len(c) : t.ctx[p] = c[p]
      BY ActivationIs
    <3> HIDE DEF e
    <3>2. Len(c) <= Len(e) /\ \A p \in 1..Len(c) : p \in 1..q
      BY <1>1, <2>3, <2>4
    <3>3. \A p \in 1..Len(c) : c[p] = e[p]
      BY <2>4, <3>1, <3>2
    <3>4. QED BY <2>4, <3>2, <3>3, IsPrefixIs
  <2>9. s \in S
    <3>1. Follows[x] = {s}
      BY <2>2, <2>6, FollowsIs
    <3>2. s \in Locs /\ s.ctx = e
      BY <2>4, StartIs
    <3>3. s \in Activation(c)
      BY <2>8, <3>2 DEF Activation
    <3>4. QED BY <2>7, <3>1, <3>3 DEF OpenIn
  <2>10. First(entryBB[getFunction(j)]) \in I
    <3>1. Last(e) \in Inst
      BY <2>4, StartIs
    <3>2. s = Loc(Last(e), e)
      BY DEF Start
    <3>3. QED BY <2>4, <2>5, <2>9, <3>1, <3>2 DEF InstsOf
  <2>11. FromEntry(j, R)
    BY <2>2, <2>3 DEF BlAt
  <2>12. I \in SUBSET Inst /\ R \in SUBSET Inst /\ Open(I, R)
    <3> HIDE DEF e
    <3>1. R \in SUBSET Inst
      BY <2>4, BlIs
    <3>2. Open(I, R)
      BY <2>4, <2>8, Passes
    <3>3. QED BY <3>1, <3>2 DEF InstsOf
  <2> HIDE DEF I, R
  <2>13. j \in I
    BY <2>5, <2>10, <2>11, <2>12, FromEntryWay
  <2>14. Inside(t, q) \in S
    <3>1. Loc(j, e) \in S
      BY <2>13 DEF I, InstsOf
    <3>2. Inside(t, q) = Loc(j, e)
      BY <2>2, <2>3, InsideLoc
    <3>3. QED BY <3>1, <3>2
  <2>15. q \in T
    <3>1. q \in 1..n /\ q >= Len(c)
      BY <1>1, <2>2, <2>3 DEF n
    <3>2. QED BY <2>3, <2>14, <3>1
  <2>16. QED BY <2>15 DEF q
<1>3. Len(c) \in T
  BY <1>1
<1>4. PICK k \in T : \A j \in T : j <= k
  <2>1. T \in SUBSET (0..n) /\ T # {}
    BY <1>3
  <2> HIDE DEF T, n
  <2>2. QED BY <1>1, <2>1, GreatestNumber
<1>5. k = n
  <2>1. ASSUME k # n PROVE FALSE
    <3> DEFINE q == k + 2
    <3>1. q \in T /\ k \in Nat
      BY <1>2, <2>1
    <3>2. q <= k
      <4> HIDE DEF q, T
      <4>1. QED BY <1>4, <3>1
    <3>3. QED BY <3>1, <3>2
  <2>2. QED BY <2>1
<1>6. Inside(t, n) \in S
  BY <1>4, <1>5
<1>7. Inside(t, n) = t
  <2>1. n \in 1..Len(t.ctx) /\ n % 2 = 1 /\ n = Len(t.ctx)
    BY <1>1, <1>4, <1>5
  <2> HIDE DEF n
  <2>2. QED BY <2>1, InsideIs
<1>8. QED BY <1>6, <1>7

(* What follows o at level k is come to; if o returns there, its location  *)
(* is.                                                                     *)
Left(o, k, S, bl) ==
  /\ \A j : Moves(At(o, k), j) => Loc(j, getPrefix(o.ctx, k)) \in S
  /\ Returns(At(o, k)) => Loc(At(o, k), getPrefix(o.ctx, k)) \in S \ bl

(* Up from the functions that lead to o.                                   *)
LEMMA UpWay ==
  ASSUME NEW bl, Allowed(bl), Judged(bl), NEW c \in Contexts, NEW S, OpenIn(S, c, bl),
         NEW o \in S \ bl, o \in Locs, o.inst \notin Calls, o \in Activation(c),
         Up(o, Len(c), bl)
  PROVE  Left(o, Len(c), S, bl)
<1> DEFINE n == Len(o.ctx)
           T == {k \in 1..n : k % 2 = 1 /\ k >= Len(c) /\ ~Left(o, k, S, bl)}
<1>1. n \in Nat \ {0} /\ n % 2 = 1 /\ Len(c) \in Nat /\ Len(c) \in 1..n /\ Len(c) % 2 = 1 /\ o.ctx \in Contexts
  BY LocIs, ContextIs, ActivationIs
<1>2. Left(o, n, S, bl) /\ n \in 1..n
  <2>1. n \in 1..n
    <3> HIDE DEF n
    <3>1. QED BY <1>1
  <2>2. At(o, n) = o.inst /\ getPrefix(o.ctx, n) = o.ctx
    <3>1. n = Len(o.ctx)
      OBVIOUS
    <3> HIDE DEF n
    <3>2. QED BY <1>1, <2>1, <3>1, AtIs, LevelIs
  <2>3. o = Loc(o.inst, o.ctx) /\ o.inst \in Inst
    BY LocIs
  <2>4. o.inst \notin Bl(o.ctx, bl)
    BY OpenHere
  <2>5. IsPrefix(c, o.ctx)
    BY DEF Activation
  <2>6. Open(InstsOf(S, o.ctx), Bl(o.ctx, bl))
    BY <1>1, <2>5, Passes
  <2>7. o.inst \in InstsOf(S, o.ctx)
    BY <2>3 DEF InstsOf
  <2>8. \A j : Moves(o.inst, j) => Loc(j, o.ctx) \in S
    BY <2>4, <2>6, <2>7 DEF Open, InstsOf
  <2> HIDE DEF n
  <2>9. QED BY <2>1, <2>2, <2>3, <2>8 DEF Left
<1>3. ASSUME NEW k \in T, k + 2 \notin T PROVE FALSE
  <2> DEFINE q == k + 2
             d == getPrefix(o.ctx, k)
             i == At(o, k)
             e == getPrefix(o.ctx, q)
             a == At(o, q)
             R == Bl(e, bl)
             I == InstsOf(S, e)
  <2>1. k # n /\ k \in 1..n /\ k % 2 = 1 /\ k >= Len(c) /\ ~Left(o, k, S, bl)
    BY <1>2
  <2>2. k < Len(o.ctx) /\ k \in Nat /\ k \in 1..Len(o.ctx)
    <3> HIDE DEF n
    <3>1. k < n /\ k \in Nat
      BY <1>1, <2>1
    <3>2. QED BY <2>1, <3>1 DEF n
  <2>3. /\ d \in Contexts /\ Len(d) = k /\ getFunction(i) = getFunction(Last(d)) /\ i \in Calls
        /\ e = Callee(d, i) /\ q \in 1..Len(o.ctx) /\ \A p \in 1..k : d[p] = o.ctx[p]
    BY <2>1, <2>2, LevelIs
  <2>4. q % 2 = 1 /\ q > Len(c) /\ q \in Nat
    <3>1. q % 2 = 1
      BY <2>1, <2>2
    <3>2. q > Len(c) /\ q \in Nat
      BY <1>1, <2>1, <2>2
    <3>3. QED BY <3>1, <3>2
  <2>5. Left(o, q, S, bl)
    <3>1. q \in 1..n /\ q >= Len(c)
      BY <1>1, <2>3, <2>4
    <3>2. q \notin T
      BY <1>3
    <3>3. QED BY <2>4, <3>1, <3>2
  <2> HIDE DEF q, n, T
  <2>6. e \in Contexts /\ Len(e) = q /\ getFunction(a) = getFunction(Last(e))
        /\ \A p \in 1..q : e[p] = o.ctx[p]
    BY <2>3, <2>4, LevelIs
  <2>7. a \in Inst
    BY <2>3, <2>4, AtIs
  <2>8. IsPrefix(c, e) /\ IsPrefix(c, d)
    <3>1. \A p \in 1..Len(c) : o.ctx[p] = c[p]
      BY ActivationIs
    <3>2. /\ Len(c) <= Len(e) /\ \A p \in 1..Len(c) : p \in 1..q
          /\ Len(c) <= Len(d) /\ \A p \in 1..Len(c) : p \in 1..k
      BY <1>1, <2>1, <2>2, <2>3, <2>4, <2>6
    <3> HIDE DEF e, d
    <3>3. \A p \in 1..Len(c) : c[p] = e[p] /\ c[p] = d[p]
      BY <2>3, <2>6, <3>1, <3>2
    <3>4. QED BY <2>3, <2>6, <3>2, <3>3, IsPrefixIs
  <2>9. ToReturn(a, R)
    BY <2>3, <2>4 DEF Up, BlAt
  <2>10. I \in SUBSET Inst /\ R \in SUBSET Inst /\ Open(I, R)
    <3> HIDE DEF e
    <3>1. R \in SUBSET Inst
      BY <2>6, BlIs
    <3>2. Open(I, R)
      BY <2>6, <2>8, Passes
    <3>3. QED BY <3>1, <3>2 DEF InstsOf
  <2>11. \A j : Moves(a, j) => j \in I
    BY <2>5, <2>7, MovesIs DEF Left, InstsOf
  <2> HIDE DEF a
  <2>12. PICK z \in Inst : Returns(z) /\ Loc(z, e) \in S \ bl
    <3>1. CASE Returns(a)
      BY <2>5, <2>7, <3>1 DEF Left, a
    <3>2. CASE \E j \in I \ R : Returns(j)
      <4>1. PICK j \in I \ R : Returns(j)
        BY <3>2
      <4>2. j \in Inst /\ Loc(j, e) \in S
        BY <4>1 DEF InstsOf
      <4>3. Loc(j, e) \notin bl
        <5> HIDE DEF e
        <5>1. QED BY <2>6, <4>1, BlIs
      <4>4. QED BY <4>1, <4>2, <4>3
    <3>3. Returns(a) \/ \E j \in I \ R : Returns(j)
      <4> HIDE DEF I, R
      <4>1. QED BY <2>7, <2>9, <2>10, <2>11, ReturnWay
    <3>4. QED BY <3>1, <3>2, <3>3
  <2> DEFINE y == Loc(z, e)
  <2>13. y \in Locs /\ y.inst = z /\ y.ctx = e /\ y \in S \ bl /\ z \notin Calls
    <3>1. y \in Locs
      BY <2>12, ActivationIs DEF OpenIn
    <3>2. QED BY <2>12, <3>1, MovesIs DEF Loc
  <2>14. Follows[y] = After(Caller(e)) /\ Caller(e) \in Locs /\ Caller(e).inst = i /\ Caller(e).ctx = d
    <3>1. Len(e) > 1 /\ Len(e) - 1 = k + 1 /\ Len(e) - 2 = k
      BY <2>2, <2>6 DEF q
    <3>2. Follows[y] = After(Caller(e))
      BY <2>12, <2>13, <3>1, FollowsIs
    <3>3. Caller(e) \in Locs /\ Caller(e).inst = e[Len(e) - 1] /\ Caller(e).ctx = getPrefix(e, Len(e) - 2)
      BY <2>6, <3>1, CallerIs
    <3>4. getPrefix(e, k) = d /\ e[k + 1] = i
      <4> HIDE DEF d, i
      <4>1. QED BY <2>3, CalleeIs
    <3>5. QED BY <3>1, <3>2, <3>3, <3>4
  <2>15. \A j : Moves(i, j) => Loc(j, d) \in S
    <3>1. ASSUME NEW j, Moves(i, j) PROVE Loc(j, d) \in S
      <4>1. j \in Inst /\ getFunction(j) = getFunction(Last(d))
        BY <2>3, <3>1, CallIs, MovesIs
      <4>2. Loc(j, d) \in Follows[y]
        <5> HIDE DEF i, d, y
        <5>1. QED BY <2>14, <3>1, <4>1, AfterIs
      <4>3. Loc(j, d) \in Activation(c)
        BY <2>3, <2>8, <4>1, Extends
      <4>4. QED BY <2>13, <4>2, <4>3 DEF OpenIn
    <3>2. QED BY <3>1
  <2>16. ~Returns(i)
    BY <2>3, CallIs, MovesIs
  <2>17. QED BY <2>1, <2>15, <2>16 DEF Left
<1>4. ASSUME T # {} PROVE FALSE
  <2>1. PICK k \in T : \A j \in T : j <= k
    <3>1. T \in SUBSET (0..n)
      OBVIOUS
    <3> HIDE DEF T, n
    <3>2. QED BY <1>1, <1>4, <3>1, GreatestNumber
  <2> DEFINE q == k + 2
  <2>2. k \in Nat
    OBVIOUS
  <2>3. q \notin T
    <3>1. ~(q <= k)
      BY <2>2
    <3> HIDE DEF q, T
    <3>2. QED BY <2>1, <3>1
  <2>4. QED BY <1>3, <2>3
<1>5. QED BY <1>1, <1>4

LEMMA ExecutedOpen ==
  ASSUME NEW bl, NEW c \in Contexts, NEW W \in SUBSET Activation(c)
  PROVE  OpenIn(Executed(W, bl, Activation(c)), c, bl) /\ W \subseteq Executed(W, bl, Activation(c))
<1> DEFINE A == Activation(c)
<1>1. A \in SUBSET Locs /\ W \in SUBSET Locs /\ W \subseteq A /\ \A x \in A \ bl : Follows[x] \cap A \subseteq A
  BY ActivationIs
<1> HIDE DEF A
<1>2. Executed(W, bl, A) \subseteq A
  BY <1>1, ExecutedIs
<1>3. W \subseteq Executed(W, bl, A)
  BY <1>1, ExecutedIs
<1>4. \A x \in Executed(W, bl, A) \ bl : Follows[x] \cap A \subseteq Executed(W, bl, A)
  BY <1>1, ExecutedIs
<1>5. QED BY <1>2, <1>3, <1>4 DEF OpenIn, A

LEMMA ReachIsPath ==
  ASSUME NEW bl, Allowed(bl), Judged(bl), NEW t \in Locs \ bl, t.inst \notin Calls,
         NEW o \in Locs \ bl, o.inst \notin Calls, reachable(t, o, bl)
  PROVE  SomePath(t, o, bl)
<1> DEFINE ip == Common(t.ctx, o.ctx)
           c == Shared(t, o)
           A == Activation(c)
           W == Follows[o] \cap A
           X == Executed(W, bl, A)
           S == {o} \cup X
<1>1. /\ t.ctx \in Contexts /\ o.ctx \in Contexts /\ Len(t.ctx) \in Nat /\ Len(o.ctx) \in Nat
  BY LocIs, ContextIs
<1>2. /\ ip \in 1..Len(t.ctx) /\ ip \in 1..Len(o.ctx) /\ ip % 2 = 1 /\ \A p \in 1..ip : t.ctx[p] = o.ctx[p]
      /\ getPrefix(t.ctx, ip) = getPrefix(o.ctx, ip)
      /\ (ip < Len(t.ctx) /\ ip < Len(o.ctx) => t.ctx[ip + 1] # o.ctx[ip + 1])
  BY <1>1, CommonIs
<1>3. c \in Contexts /\ c = getPrefix(t.ctx, ip) /\ Len(c) = ip /\ t \in A /\ o \in A
  BY SharedIs
<1> SUFFICES ASSUME t # o PROVE t \in S
  <2>1. o # Global
    BY SubjectsAre
  <2>2. QED BY <2>1 DEF SomePath
<1> HIDE DEF ip, c
<1>4. OpenIn(S, c, bl)
  <2>1. OpenIn(X, c, bl) /\ W \subseteq X
    <3>1. W \in SUBSET Activation(c)
      OBVIOUS
    <3> HIDE DEF W
    <3>2. QED BY <1>3, <3>1, ExecutedOpen
  <2> HIDE DEF X
  <2>2. QED BY <1>3, <2>1 DEF OpenIn
<1>5. /\ Up(o, ip, bl)
      /\ \A k \in 1..Len(t.ctx) : k % 2 = 1 /\ k > ip => FromEntry(At(t, k), BlAt(t, k, bl))
      /\ Between(At(o, ip), At(t, ip), BlAt(t, ip, bl))
  BY ReachableIs DEF ip, Up
<1> DEFINE i == At(o, ip)
           j == At(t, ip)
           R == Bl(c, bl)
           I == InstsOf(S, c)
<1>6. o \in S \ bl
  OBVIOUS
<1> HIDE DEF S
<1>7. Left(o, ip, S, bl)
  BY <1>3, <1>4, <1>5, <1>6, UpWay
<1>8. i \in Inst /\ j \in Inst /\ getFunction(i) = getFunction(j)
  <2>1. i \in Inst /\ getFunction(i) = getFunction(o.ctx[ip])
    BY <1>2, AtIs
  <2>2. j \in Inst /\ getFunction(j) = getFunction(t.ctx[ip])
    BY <1>2, AtIs
  <2>3. ip \in 1..ip
    BY <1>2
  <2>4. QED BY <1>2, <2>1, <2>2, <2>3
<1>9. j # i
  <2>1. /\ ip = Len(o.ctx) => i = o.inst
        /\ ip < Len(o.ctx) => i = o.ctx[ip + 1] /\ i \in Calls
    BY <1>2, AtIs
  <2>2. /\ ip = Len(t.ctx) => j = t.inst
        /\ ip < Len(t.ctx) => j = t.ctx[ip + 1] /\ j \in Calls
    BY <1>2, AtIs
  <2>3. ip <= Len(o.ctx) /\ ip <= Len(t.ctx) /\ ip \in Nat
    BY <1>1, <1>2
  <2>4. ASSUME j = i PROVE FALSE
    <3>1. ip = Len(o.ctx) /\ ip = Len(t.ctx)
      <4>1. CASE ip < Len(o.ctx) /\ ip < Len(t.ctx)
        BY <1>2, <2>1, <2>2, <2>4, <4>1
      <4>2. CASE ip < Len(o.ctx) /\ ip = Len(t.ctx)
        BY <2>1, <2>2, <2>4, <4>2
      <4>3. CASE ip = Len(o.ctx) /\ ip < Len(t.ctx)
        BY <2>1, <2>2, <2>4, <4>3
      <4>4. QED BY <1>1, <2>3, <4>1, <4>2, <4>3
    <3>2. o.inst = t.inst
      BY <2>1, <2>2, <2>4, <3>1
    <3>3. o.ctx = t.ctx
      BY <1>1, <1>2, <3>1, ContextEqual
    <3>4. QED BY <3>2, <3>3, LocIs
  <2>5. QED BY <2>4
<1>10. \A k : Moves(i, k) => k \in I
  <2>1. \A k : Moves(i, k) => Loc(k, c) \in S
    BY <1>2, <1>3, <1>7 DEF Left
  <2>2. QED BY <1>8, <2>1, MovesIs DEF InstsOf
<1>11. I \in SUBSET Inst /\ R \in SUBSET Inst /\ Open(I, R)
  <2>1. R \in SUBSET Inst
    BY <1>3, BlIs
  <2>2. IsPrefix(c, c)
    BY <1>3, IsPrefixIs, ContextIs
  <2>3. Open(I, R)
    BY <1>3, <1>4, <2>2, Passes
  <2>4. QED BY <2>1, <2>3 DEF InstsOf
<1>12. Between(i, j, R)
  BY <1>3, <1>5 DEF BlAt
<1> HIDE DEF i, j, I, R
<1>13. j \in I
  BY <1>8, <1>9, <1>10, <1>11, <1>12, BetweenWay
<1>14. Inside(t, Len(c)) \in S
  <2>1. Inside(t, ip) = Loc(j, c)
    BY <1>2, <1>3, InsideLoc DEF j
  <2>2. QED BY <1>3, <1>13, <2>1 DEF I, InstsOf
<1>15. QED BY <1>3, <1>4, <1>5, <1>14, DownWay

(* The same from the start of the entry function.                          *)
LEMMA ReachIsPathStart ==
  ASSUME NEW bl, Allowed(bl), Judged(bl), NEW t \in Locs \ bl, t.inst \notin Calls,
         reachable(t, Global, bl)
  PROVE  SomePath(t, Global, bl)
<1> DEFINE c == <<FirstOf(main)>>
           A == Activation(c)
           s == Start(c)
           W == {s} \ bl
           S == Executed(W, bl, A)
           k == 1
           e == entryBB[main]
           j == At(t, k)
           R == Bl(c, bl)
           I == InstsOf(S, c)
<1>1. c \in Contexts /\ Len(c) = 1 /\ Last(c) = FirstOf(main)
  BY ContextAssumption DEF Last
<1>2. t \in A /\ IsPrefix(c, c) /\ t.ctx \in Contexts /\ Len(t.ctx) \in Nat \ {0}
  <2>1. t.ctx \in Contexts /\ Len(t.ctx) \in Nat \ {0} /\ t.ctx[1] = FirstOf(main)
    BY LocIs, ContextIs
  <2>2. c[1] = FirstOf(main)
    OBVIOUS
  <2> HIDE DEF c
  <2>3. IsPrefix(c, t.ctx)
    <3>1. Len(c) <= Len(t.ctx) /\ \A p \in 1..Len(c) : p = 1
      BY <1>1, <2>1
    <3>2. \A p \in 1..Len(c) : c[p] = t.ctx[p]
      BY <2>1, <2>2, <3>1
    <3>3. QED BY <1>1, <2>1, <3>1, <3>2, IsPrefixIs
  <2>4. IsPrefix(c, c)
    <3>1. Len(c) <= Len(c)
      BY <1>1
    <3>2. QED BY <1>1, <3>1, IsPrefixIs
  <2>5. QED BY <2>1, <2>3, <2>4 DEF Activation
<1>3. Shared(t, Global) = c /\ t # Global
  BY SubjectsAre DEF Shared
<1> HIDE DEF c
<1>4. main \in DOMAIN entryBB /\ e \in Block /\ host[e] = main /\ FirstOf(main) \in Inst
      /\ FirstOf(main) = First(e) /\ First(e)[1] = e /\ First(e)[2] = 1
  BY ProgramAssumption, FlowAssumption, InstIs DEF FirstOf
<1>5. k \in 1..Len(t.ctx) /\ k % 2 = 1 /\ getPrefix(t.ctx, k) = c
  <2>1. k \in 1..Len(t.ctx) /\ k % 2 = 1
    BY <1>2
  <2>2. getPrefix(t.ctx, Len(c)) = c
    BY <1>1, <1>2, ActivationIs
  <2>3. QED BY <1>1, <2>1, <2>2
<1>6. j \in Inst /\ getFunction(j) = main
  <2> HIDE DEF k
  <2>1. j \in Inst /\ getFunction(j) = getFunction(Last(getPrefix(t.ctx, k)))
    BY <1>5, AtIs, LevelIs
  <2>2. QED BY <1>1, <1>4, <1>5, <2>1 DEF getFunction
<1>7. FromEntry(j, R) /\ \A q \in 1..Len(t.ctx) : q % 2 = 1 => FromEntry(At(t, q), BlAt(t, q, bl))
  <2>1. \A q \in 1..Len(t.ctx) : q % 2 = 1 => FromEntry(At(t, q), BlAt(t, q, bl))
    BY ReachableStart
  <2> HIDE DEF k
  <2>2. QED BY <1>5, <2>1 DEF BlAt
<1>8. s \in Locs /\ s = Loc(FirstOf(main), c) /\ s \in A
  BY <1>1, <1>2, StartIs DEF Start, Activation
<1>9. R \in SUBSET Inst
  BY <1>1, BlIs
<1> HIDE DEF j, R, s, k
<1>10. s \notin bl
  <2>1. ASSUME s \in bl PROVE FALSE
    <3>1. First(e) \in R
      BY <1>1, <1>4, <1>8, <2>1, BlIs DEF R
    <3> DEFINE K == {r[1] : r \in R}
               V == Visited({e}, K)
    <3>2. e \in K
      BY <1>4, <3>1
    <3>3. j # None
      BY <1>6, InstIs DEF None
    <3>4. j[1] \in V
      BY <1>6, <1>7, <3>1, <3>3 DEF FromEntry, isPotentiallyReachableFromMany, getParent
    <3>5. V = {e}
      <4> HIDE DEF K
      <4>1. QED BY <1>4, <3>2, VisitedStops
    <3>6. Shut(j, R)
      <4>1. j[1] = e /\ 1 <= j[2]
        <5>1. j[1] = e
          BY <3>4, <3>5
        <5>2. j[2] \in 1..Size[j[1]]
          BY <1>6, InstIs
        <5>3. QED BY <5>1, <5>2
      <4>2. QED BY <1>4, <3>1, <4>1 DEF Shut, isReachableInBB, getParent
    <3>7. QED BY <1>7, <3>1, <3>6 DEF FromEntry
  <2>2. QED BY <2>1
<1>11. OpenIn(S, c, bl) /\ s \in S
  <2>1. W \in SUBSET Activation(c) /\ s \in W
    BY <1>8, <1>10
  <2> HIDE DEF W
  <2>2. QED BY <1>1, <2>1, ExecutedOpen
<1> HIDE DEF S
<1>12. First(entryBB[getFunction(j)]) \in I
  BY <1>4, <1>6, <1>8, <1>11 DEF InstsOf
<1>13. I \in SUBSET Inst /\ Open(I, R)
  BY <1>1, <1>2, <1>11, Passes DEF InstsOf, R
<1> HIDE DEF I
<1>14. j \in I
  BY <1>6, <1>7, <1>9, <1>12, <1>13, FromEntryWay
<1>15. Inside(t, Len(c)) \in S
  <2>1. Inside(t, k) = Loc(j, c)
    BY <1>5, InsideLoc DEF j
  <2>2. QED BY <1>1, <1>14, <2>1 DEF I, InstsOf, k
<1>16. t \in S
  BY <1>1, <1>2, <1>7, <1>11, <1>15, DownWay
<1>17. QED BY <1>3, <1>16 DEF SomePath, S, W, s

(* What reachable says can be reached is reached by an execution that      *)
(* meets no blocking location, in any program and for every blocklist that *)
(* its judgement of callees is right for.                                  *)
THEOREM ReachedHavePaths == Spec => []ReachMeansPath
<1>1. QueryOK => ReachMeansPath
  <2> SUFFICES ASSUME QueryOK, Asked, reachable(query.this, query.other, query.blocklist),
                      Judged(query.blocklist)
               PROVE  SomePath(query.this, query.other, query.blocklist)
    BY DEF ReachMeansPath
  <2> DEFINE t == query.this
             o == query.other
             bl == query.blocklist
  <2>1. /\ t \in Subjects /\ o \in Subjects \cup {Global} /\ bl \in Blocklists /\ t \notin bl /\ o \notin bl
    BY DEF QueryOK, Asked
  <2>2. /\ t \in Locs \ bl /\ t.inst \notin Calls /\ Allowed(bl)
        /\ o = Global \/ (o \in Locs \ bl /\ o.inst \notin Calls)
    <3>1. t \in Locs \ bl /\ t.inst \notin Calls /\ Allowed(bl)
      BY <2>1, SubjectsAre DEF Allowed
    <3>2. ASSUME o # Global PROVE o \in Locs \ bl /\ o.inst \notin Calls
      <4>1. o \in Subjects
        BY <2>1, <3>2
      <4> HIDE DEF o
      <4>2. QED BY <2>1, <4>1, SubjectsAre
    <3>3. QED BY <3>1, <3>2
  <2>3. reachable(t, o, bl) /\ Judged(bl)
    OBVIOUS
  <2> HIDE DEF t, o, bl
  <2>4. SomePath(t, o, bl)
    BY <2>2, <2>3, ReachIsPath, ReachIsPathStart
  <2>5. QED BY <2>4 DEF t, o, bl
<1>2. QED BY <1>1, QueriesOK, PTL

----------------------------------------------------------------------------
(* The order of blocks.  Searches inside of a set of blocks, and the       *)
(* components of a flow graph.  Two blocks of a component reach each other *)
(* by its blocks, which is why a search from its root meets all of them.   *)

(* A search inside of W finds the least set with b that is closed in W.    *)
ClosedIn(next, W, C) == \A x \in C : next[x] \cap W \subseteq C

LEMMA ReachFromIs ==
  ASSUME NEW next, NEW W, IsFiniteSet(W), NEW b \in W, W \subseteq DOMAIN next
  PROVE  /\ ReachFrom(next, b, W) \in SUBSET W
         /\ b \in ReachFrom(next, b, W)
         /\ ClosedIn(next, W, ReachFrom(next, b, W))
         /\ \A C \in SUBSET W : b \in C /\ ClosedIn(next, W, C) => ReachFrom(next, b, W) \subseteq C
<1> DEFINE in == [x \in W |-> next[x] \cap W]
           TA(S) == S \cup (W \cap UNION {next[x] : x \in S})
           TB(S) == S \cup UNION {in[x] : x \in S}
           FA(r) == [S \in SUBSET W |-> IF TA(S) = S THEN S ELSE r[TA(S)]]
           FB(r) == [S \in SUBSET W |-> IF TB(S) = S THEN S ELSE r[TB(S)]]
           R == Reached(in)[{b}]
<1>1. \A S \in SUBSET W : TA(S) = TB(S)
  <2> SUFFICES ASSUME NEW S \in SUBSET W PROVE TA(S) = TB(S)
    OBVIOUS
  <2>1. W \cap UNION {next[x] : x \in S} = UNION {in[x] : x \in S}
    <3>1. \A y : y \in UNION {next[x] : x \in S} <=> \E x \in S : y \in next[x]
      OBVIOUS
    <3>2. \A y : y \in UNION {in[x] : x \in S} <=> \E x \in S : y \in in[x]
      OBVIOUS
    <3>3. \A x \in S : in[x] = next[x] \cap W
      OBVIOUS
    <3> HIDE DEF in
    <3>4. QED BY <3>1, <3>2, <3>3
  <2>2. QED BY <2>1
<1>2. \A r : FA(r) = FB(r)
  BY <1>1
<1>3. DOMAIN in = W /\ \A x \in W : in[x] = next[x] \cap W
  OBVIOUS
<1>4. ReachFrom(next, b, W) = (CHOOSE r : r = FA(r))[{b}]
  BY DEF ReachFrom
<1>5. R = (CHOOSE r : r = FB(r))[{b}]
  BY <1>3 DEF Reached
<1>6. (CHOOSE r : r = FA(r)) = (CHOOSE r : r = FB(r))
  <2> HIDE DEF FA, FB
  <2>1. QED BY <1>2
<1>7. ReachFrom(next, b, W) = R
  BY <1>4, <1>5, <1>6
<1>8. /\ R \in SUBSET W /\ {b} \subseteq R /\ Closed(in, R)
      /\ \A C \in SUBSET W : {b} \subseteq C /\ Closed(in, C) => R \subseteq C
  <2>1. \A x \in W : in[x] \subseteq W
    BY <1>3
  <2>2. {b} \in SUBSET W /\ IsFiniteSet(DOMAIN in) /\ \A x \in DOMAIN in : in[x] \subseteq DOMAIN in
    BY <1>3, <2>1
  <2> HIDE DEF in
  <2>3. QED BY <1>3, <2>2, ReachedIs
<1>9. \A C \in SUBSET W : Closed(in, C) <=> ClosedIn(next, W, C)
  <2> HIDE DEF in
  <2>1. QED BY <1>3 DEF Closed, ClosedIn
<1> HIDE DEF R, in
<1>10. QED BY <1>7, <1>8, <1>9

(* The blocks of a path reach each other.                                  *)
LEMMA PathReaches ==
  ASSUME NEW next, NEW W, IsFiniteSet(W), W \subseteq DOMAIN next,
         NEW s \in Seq(W), \A k \in 1..(Len(s) - 1) : s[k + 1] \in next[s[k]],
         NEW k \in DOMAIN s, NEW m \in k..Len(s)
  PROVE  s[m] \in ReachFrom(next, s[k], W)
<1> DEFINE R == ReachFrom(next, s[k], W)
           G == {n \in k..Len(s) : s[n] \in R}
           T == {n \in k..Len(s) : \A j \in k..n : j \in G}
<1>1. Len(s) \in Nat /\ DOMAIN s = 1..Len(s) /\ k \in 1..Len(s) /\ \A n \in 1..Len(s) : s[n] \in W
  OBVIOUS
<1>2. s[k] \in R /\ ClosedIn(next, W, R)
  BY <1>1, ReachFromIs
<1>3. k \in T
  BY <1>1, <1>2
<1>4. T \in SUBSET (0..Len(s))
  BY <1>1
<1>5. PICK n \in T : \A j \in T : j <= n
  <2> HIDE DEF T
  <2>1. QED BY <1>1, <1>3, <1>4, GreatestNumber
<1>6. CASE n < Len(s)
  <2>1. n \in k..Len(s) /\ n \in G /\ n \in 1..(Len(s) - 1) /\ n + 1 \in k..Len(s)
    BY <1>1, <1>6
  <2>2. s[n + 1] \in next[s[n]] /\ s[n + 1] \in W /\ s[n] \in R
    BY <1>1, <2>1
  <2>3. n + 1 \in G
    BY <1>2, <2>1, <2>2 DEF ClosedIn
  <2>4. n + 1 \in T
    <3>1. \A j \in k..(n + 1) : j \in k..n \/ j = n + 1
      BY <1>1, <2>1
    <3> HIDE DEF G
    <3>2. QED BY <2>1, <2>3, <3>1
  <2>5. QED BY <1>1, <1>5, <2>1, <2>4
<1>7. CASE n = Len(s)
  BY <1>1, <1>7
<1>8. n \in Nat /\ n <= Len(s)
  BY <1>1
<1>9. n < Len(s) \/ n = Len(s)
  <2>1. PICK l \in Nat : l = Len(s)
    BY <1>1
  <2>2. n \in Nat /\ n <= l
    BY <1>8, <2>1
  <2>3. n < l \/ n = l
    BY <2>2
  <2>4. QED BY <2>1, <2>3
<1>10. QED BY <1>6, <1>7, <1>9

----------------------------------------------------------------------------
(* Components.                                                             *)
LEMMA GraphIs ==
  ASSUME NEW g \in Graphs
  PROVE  /\ IsFiniteSet(DOMAIN g) /\ IsFiniteSet(Live(g))
         /\ 1 \in Live(g) /\ Live(g) \in SUBSET DOMAIN g
         /\ Live(g) \subseteq DOMAIN Succs(g) /\ DOMAIN Succs(g) = DOMAIN g
         /\ \A b \in DOMAIN g : Succs(g)[b] = ToSet(g[b]) /\ ToSet(g[b]) \in SUBSET DOMAIN g
         /\ \A b \in Live(g) : ToSet(g[b]) \in SUBSET Live(g)
<1>1. IsFiniteSet(DOMAIN g) /\ 1 \in DOMAIN g /\ \A b \in DOMAIN g : g[b] \in Seq(DOMAIN g)
  BY GraphsAssumption
<1>2. DOMAIN Succs(g) = DOMAIN g /\ \A b \in DOMAIN g : Succs(g)[b] = ToSet(g[b])
  BY DEF Succs
<1>3. \A b \in DOMAIN g : ToSet(g[b]) \in SUBSET DOMAIN g
  BY <1>1 DEF ToSet
<1>4. /\ Live(g) \in SUBSET DOMAIN g /\ 1 \in Live(g)
      /\ ClosedIn(Succs(g), DOMAIN g, Live(g))
  BY <1>1, <1>2, ReachFromIs DEF Live
<1>5. IsFiniteSet(Live(g))
  BY <1>1, <1>4, FS_Subset
<1>6. \A b \in Live(g) : ToSet(g[b]) \in SUBSET Live(g)
  BY <1>2, <1>3, <1>4 DEF ClosedIn
<1>7. QED BY <1>1, <1>2, <1>3, <1>4, <1>5, <1>6

(* What a live block leads to: itself, and all that follows.               *)
LEMMA ReachedFromIs ==
  ASSUME NEW g \in Graphs
  PROVE  /\ DOMAIN ReachedFrom(g) = Live(g)
         /\ \A b \in Live(g) :
              /\ ReachedFrom(g)[b] \in SUBSET Live(g) /\ b \in ReachedFrom(g)[b]
              /\ \A x \in ReachedFrom(g)[b] : ToSet(g[x]) \subseteq ReachedFrom(g)[b]
              /\ \A C \in SUBSET Live(g) :
                   b \in C /\ (\A x \in C : ToSet(g[x]) \subseteq C) => ReachedFrom(g)[b] \subseteq C
<1>1. \A b \in Live(g) : ReachedFrom(g)[b] = ReachFrom(Succs(g), b, Live(g))
  BY DEF ReachedFrom
<1>2. \A C \in SUBSET Live(g) :
        ClosedIn(Succs(g), Live(g), C) <=> \A x \in C : ToSet(g[x]) \subseteq C
  <2>1. \A x \in Live(g) : Succs(g)[x] \cap Live(g) = ToSet(g[x])
    BY GraphIs
  <2>2. QED BY <2>1 DEF ClosedIn
<1>3. IsFiniteSet(Live(g)) /\ Live(g) \subseteq DOMAIN Succs(g)
  BY GraphIs
<1>4. ASSUME NEW b \in Live(g)
      PROVE  /\ ReachedFrom(g)[b] \in SUBSET Live(g) /\ b \in ReachedFrom(g)[b]
             /\ \A x \in ReachedFrom(g)[b] : ToSet(g[x]) \subseteq ReachedFrom(g)[b]
             /\ \A C \in SUBSET Live(g) :
                   b \in C /\ (\A x \in C : ToSet(g[x]) \subseteq C) => ReachedFrom(g)[b] \subseteq C
  <2> DEFINE R == ReachFrom(Succs(g), b, Live(g))
  <2>1. /\ R \in SUBSET Live(g) /\ b \in R /\ ClosedIn(Succs(g), Live(g), R)
        /\ \A C \in SUBSET Live(g) : b \in C /\ ClosedIn(Succs(g), Live(g), C) => R \subseteq C
    BY <1>3, ReachFromIs
  <2>2. ReachedFrom(g)[b] = R
    BY <1>1
  <2> HIDE DEF R
  <2>3. QED BY <2>1, <2>2, <1>2
<1>5. DOMAIN ReachedFrom(g) = Live(g)
  BY DEF ReachedFrom
<1>6. QED BY <1>4, <1>5

LEMMA ReachedOn ==
  ASSUME NEW g \in Graphs, NEW a \in Live(g), NEW b \in ReachedFrom(g)[a]
  PROVE  b \in Live(g) /\ ReachedFrom(g)[b] \subseteq ReachedFrom(g)[a]
BY ReachedFromIs

Class(g, b) == {c \in ReachedFrom(g)[b] : b \in ReachedFrom(g)[c]}

(* The components part the live blocks: each is the class of its blocks.   *)
LEMMA ComponentsAre ==
  ASSUME NEW g \in Graphs
  PROVE  /\ Components(g) = {Class(g, b) : b \in Live(g)}
         /\ IsFiniteSet(Components(g))
         /\ \A b \in Live(g) : Class(g, b) \in SUBSET Live(g) /\ b \in Class(g, b)
         /\ \A b \in Live(g) : \A c \in Class(g, b) : Class(g, c) = Class(g, b)
         /\ \A c \in Components(g) : c \in SUBSET Live(g) /\ c # {} /\ \A b \in c : c = Class(g, b)
<1>1. Components(g) = {Class(g, b) : b \in Live(g)}
  BY ReachedFromIs DEF Components, Class
<1>2. \A b \in Live(g) : Class(g, b) \in SUBSET Live(g) /\ b \in Class(g, b)
  BY ReachedFromIs DEF Class
<1>3. ASSUME NEW b \in Live(g), NEW c \in Class(g, b) PROVE Class(g, c) = Class(g, b)
  <2>1. c \in ReachedFrom(g)[b] /\ b \in ReachedFrom(g)[c] /\ c \in Live(g)
    BY <1>2, <1>3 DEF Class
  <2>2. ReachedFrom(g)[c] = ReachedFrom(g)[b]
    BY <2>1, ReachedOn
  <2>3. \A x \in ReachedFrom(g)[b] : b \in ReachedFrom(g)[x] <=> c \in ReachedFrom(g)[x]
    BY <2>1, ReachedOn
  <2>4. QED BY <2>2, <2>3 DEF Class
<1>4. Components(g) \in SUBSET SUBSET Live(g)
  BY <1>1, <1>2
<1>5. IsFiniteSet(Components(g))
  <2>1. IsFiniteSet(SUBSET Live(g))
    BY GraphIs, FS_SUBSET
  <2>2. QED BY <1>4, <2>1, FS_Subset
<1>6. \A c \in Components(g) : c \in SUBSET Live(g) /\ c # {} /\ \A b \in c : c = Class(g, b)
  BY <1>1, <1>2, <1>3
<1>7. QED BY <1>1, <1>2, <1>3, <1>5, <1>6

(* Inside of a component every block leads to all of it.                   *)
LEMMA ComponentConnected ==
  ASSUME NEW g \in Graphs, NEW c \in Components(g), NEW S \in SUBSET c, NEW h \in S,
         \A x \in S : ToSet(g[x]) \cap c \subseteq S
  PROVE  S = c
<1>1. h \in c /\ c \in SUBSET Live(g) /\ c = Class(g, h) /\ h \in Live(g)
  BY ComponentsAre
<1>2. SUFFICES ASSUME NEW x \in c PROVE x \in S
  OBVIOUS
<1> DEFINE T == S \cup {y \in Live(g) : x \notin ReachedFrom(g)[y]}
<1>3. T \in SUBSET Live(g) /\ h \in T
  BY <1>1
<1>4. ASSUME NEW y \in T, NEW z \in ToSet(g[y]) PROVE z \in T
  <2>1. y \in Live(g) /\ z \in Live(g) /\ z \in ReachedFrom(g)[y]
    <3>1. y \in Live(g)
      BY <1>3
    <3>2. QED BY <3>1, GraphIs, ReachedFromIs
  <2>2. CASE x \notin ReachedFrom(g)[y]
    <3>1. x \notin ReachedFrom(g)[z]
      BY <2>1, <2>2, ReachedOn
    <3>2. QED BY <2>1, <3>1
  <2>3. CASE x \in ReachedFrom(g)[y] /\ x \in ReachedFrom(g)[z]
    <3>1. y \in S
      BY <1>4, <2>3
    <3>2. y \in c
      BY <3>1
    <3>3. y \in ReachedFrom(g)[h] /\ h \in ReachedFrom(g)[x]
      BY <1>1, <3>2, <1>2 DEF Class
    <3>4. z \in ReachedFrom(g)[h]
      BY <1>1, <2>1, <3>3, ReachedOn
    <3>5. h \in ReachedFrom(g)[z]
      BY <2>1, <2>3, <3>3, ReachedOn
    <3>6. z \in c
      BY <1>1, <3>4, <3>5 DEF Class
    <3>7. QED BY <3>1, <3>6
  <2>4. CASE x \notin ReachedFrom(g)[z]
    BY <2>1, <2>4
  <2>5. QED BY <2>2, <2>3, <2>4
<1>5. ReachedFrom(g)[h] \subseteq T
  <2> HIDE DEF T
  <2>1. \A y \in T : ToSet(g[y]) \subseteq T
    BY <1>4
  <2>2. QED BY <1>1, <1>3, <2>1, ReachedFromIs
<1>6. x \in ReachedFrom(g)[h] /\ x \in Live(g) /\ x \in ReachedFrom(g)[x]
  BY <1>1, <1>2, ReachedFromIs DEF Class
<1>7. QED BY <1>5, <1>6

----------------------------------------------------------------------------
(* What scc_iterator lists: every component once, as a sequence of all its *)
(* blocks that ends with a root, before those that lead to it.             *)

LEMMA SeqsAre ==
  ASSUME NEW S, IsFiniteSet(S), NEW t \in SetToSeqs(S)
  PROVE  /\ t \in Seq(S) /\ ToSet(t) = S
         /\ \A i, j \in DOMAIN t : t[i] = t[j] => i = j
<1> DEFINE n == Cardinality(S)
<1>1. n \in Nat
  BY FS_CardinalityType
<1>2. t \in [1..n -> S] /\ \A i, j \in 1..n : i # j => t[i] # t[j]
  BY DEF SetToSeqs
<1>3. t \in Seq(S) /\ DOMAIN t = 1..n
  BY <1>1, <1>2
<1>4. t \in Injection(1..n, S)
  BY <1>2 DEF Injection, IsInjective
<1>5. Cardinality(1..n) = n
  BY <1>1, FS_Interval
<1>6. t \in Surjection(1..n, S)
  BY <1>4, <1>5, FS_Injection
<1>7. \A x \in S : \E i \in 1..n : t[i] = x
  BY <1>6 DEF Surjection
<1>8. ToSet(t) = S
  BY <1>2, <1>3, <1>7 DEF ToSet
<1>9. QED BY <1>2, <1>3, <1>8

(* A list of the components as scc_iterator gives it.                      *)
Lists(g, s) ==
  /\ s \in Seq(Seq(Live(g)))
  /\ \A i \in DOMAIN s :
       /\ s[i] # <<>> /\ ToSet(s[i]) \in Components(g)
       /\ Last(s[i]) \in Roots(g, ToSet(s[i]))
       /\ \A m, n \in DOMAIN s[i] : s[i][m] = s[i][n] => m = n
  /\ \A c \in Components(g) : \E i \in DOMAIN s : ToSet(s[i]) = c
  /\ \A i, j \in DOMAIN s : ToSet(s[i]) = ToSet(s[j]) => i = j
  /\ \A i, j \in DOMAIN s : i < j => \A a \in ToSet(s[i]) : ToSet(g[a]) \cap ToSet(s[j]) = {}

(* What scc_iterator may list is such a list.                              *)
LEMMA IteratorLists ==
  ASSUME NEW g \in Graphs, NEW s \in scc_iterator(g)
  PROVE  Lists(g, s)
<1> DEFINE comps == Components(g)
           listed(scc) == {t \in SetToSeqs(scc) : Last(t) \in Roots(g, scc)}
           ordered(q) == \A i, j \in DOMAIN q : i < j => \A a \in q[i] : ToSet(g[a]) \cap q[j] = {}
<1>1. PICK q \in SetToSeqs(comps) :
        /\ ordered(q)
        /\ \E f \in [comps -> UNION {listed(c) : c \in comps}] :
             /\ \A c \in comps : f[c] \in listed(c)
             /\ s = [i \in DOMAIN q |-> f[q[i]]]
  BY DEF scc_iterator
<1>2. PICK f : /\ \A c \in comps : f[c] \in listed(c)
               /\ s = [i \in DOMAIN q |-> f[q[i]]]
  BY <1>1
<1>3. IsFiniteSet(comps) /\ \A c \in comps : c \in SUBSET Live(g) /\ c # {} /\ IsFiniteSet(c)
  <2>1. IsFiniteSet(Live(g))
    BY GraphIs
  <2>2. QED BY <2>1, ComponentsAre, FS_Subset
<1>4. q \in Seq(comps) /\ ToSet(q) = comps /\ \A i, j \in DOMAIN q : q[i] = q[j] => i = j
  BY <1>1, <1>3, SeqsAre
<1>5. DOMAIN s = DOMAIN q /\ DOMAIN q = 1..Len(q) /\ Len(q) \in Nat /\ \A i \in DOMAIN q : q[i] \in comps
  BY <1>2, <1>4
<1>6. ASSUME NEW i \in DOMAIN q
      PROVE  /\ s[i] \in Seq(Live(g)) /\ ToSet(s[i]) = q[i] /\ s[i] # <<>>
             /\ Last(s[i]) \in Roots(g, q[i])
             /\ \A m, n \in DOMAIN s[i] : s[i][m] = s[i][n] => m = n
  <2>1. s[i] = f[q[i]] /\ q[i] \in comps
    BY <1>2, <1>5
  <2>2. s[i] \in SetToSeqs(q[i]) /\ Last(s[i]) \in Roots(g, q[i])
    BY <1>2, <2>1
  <2>3. /\ s[i] \in Seq(q[i]) /\ ToSet(s[i]) = q[i]
        /\ \A m, n \in DOMAIN s[i] : s[i][m] = s[i][n] => m = n
    BY <1>3, <2>1, <2>2, SeqsAre
  <2>4. s[i] \in Seq(Live(g))
    BY <1>3, <2>1, <2>3
  <2>5. s[i] # <<>>
    <3>1. PICK x : x \in q[i]
      BY <1>3, <2>1
    <3>2. QED BY <2>3, <3>1 DEF ToSet
  <2>6. QED BY <2>2, <2>3, <2>4, <2>5
<1>7. s \in Seq(Seq(Live(g)))
  <2>1. s = [i \in 1..Len(q) |-> s[i]]
    BY <1>2, <1>5
  <2>2. \A i \in 1..Len(q) : s[i] \in Seq(Live(g))
    BY <1>5, <1>6
  <2>3. QED BY <1>5, <2>1, <2>2
<1>8. \A c \in comps : \E i \in DOMAIN s : ToSet(s[i]) = c
  BY <1>4, <1>5, <1>6 DEF ToSet
<1>9. \A i, j \in DOMAIN s : ToSet(s[i]) = ToSet(s[j]) => i = j
  BY <1>4, <1>5, <1>6
<1>10. \A i, j \in DOMAIN s : i < j => \A a \in ToSet(s[i]) : ToSet(g[a]) \cap ToSet(s[j]) = {}
  BY <1>1, <1>5, <1>6
<1>11. \A i \in DOMAIN s : ToSet(s[i]) \in Components(g) /\ s[i] # <<>> /\ Last(s[i]) \in Roots(g, ToSet(s[i]))
  BY <1>5, <1>6
<1>12. \A i \in DOMAIN s : \A m, n \in DOMAIN s[i] : s[i][m] = s[i][n] => m = n
  BY <1>5, <1>6
<1> HIDE DEF comps, listed, ordered
<1>13. QED BY <1>7, <1>8, <1>9, <1>10, <1>11, <1>12 DEF Lists, comps

----------------------------------------------------------------------------
(* What a component is when it is sorted, and while it is.                 *)

Distinct(q) == \A i, j \in DOMAIN q : q[i] = q[j] => i = j
Forward(next, q) == \A i, j \in DOMAIN q : q[j] \in next[q[i]] => i < j

(* A component when it is sorted.                                          *)
SortedIn(g, q, c) ==
  /\ q \in Seq(c) /\ ToSet(q) = c /\ Distinct(q)
  /\ \A h \in c : Roots(g, c) = {h} /\ Reducible(ForwardEdges(g, c, h)) =>
       Forward(ForwardEdges(g, c, h), q)

(* While it is: gr is a path of edges that are no back edges, what follows *)
(* the blocks that were put down has been met, and put down before if the  *)
(* component is reducible.                                                 *)
Searching(g, c, h, gr, so) ==
  /\ gr \in Seq(c) /\ gr # <<>> /\ gr[1] = h /\ Distinct(gr)
  /\ so \in Seq(c) /\ Distinct(so) /\ ToSet(gr) \cap ToSet(so) = {}
  /\ \A k \in 1..(Len(gr) - 1) : gr[k + 1] \in ForwardEdges(g, c, h)[gr[k]]
  /\ \A x \in ToSet(so) : ToSet(g[x]) \cap c \subseteq ToSet(gr) \cup ToSet(so)
  /\ Reducible(ForwardEdges(g, c, h)) =>
       /\ Forward(ForwardEdges(g, c, h), so)
       /\ \A x \in ToSet(so) : ForwardEdges(g, c, h)[x] \subseteq ToSet(so)

(* The last, all but the last, one more behind, one more in front.         *)
LEMMA LastIs ==
  ASSUME NEW S, NEW q \in Seq(S), q # <<>>
  PROVE  /\ Len(q) \in Nat \ {0} /\ DOMAIN q = 1..Len(q)
         /\ Last(q) = q[Len(q)] /\ Last(q) \in S /\ Last(q) \in ToSet(q) /\ ToSet(q) \in SUBSET S
         /\ \A x \in ToSet(q) : \E k \in 1..Len(q) : x = q[k]
         /\ \A k \in 1..Len(q) : q[k] \in ToSet(q)
<1>1. Len(q) \in Nat \ {0} /\ DOMAIN q = 1..Len(q)
  OBVIOUS
<1>2. Last(q) = q[Len(q)]
  BY DEF Last
<1>3. \A k \in 1..Len(q) : q[k] \in ToSet(q) /\ q[k] \in S
  BY <1>1 DEF ToSet
<1>4. \A x \in ToSet(q) : \E k \in 1..Len(q) : x = q[k]
  BY <1>1 DEF ToSet
<1>5. Len(q) \in 1..Len(q)
  BY <1>1
<1>6. QED BY <1>1, <1>2, <1>3, <1>4, <1>5

LEMMA FrontIs ==
  ASSUME NEW S, NEW q \in Seq(S), Len(q) > 1
  PROVE  /\ Front(q) \in Seq(S) /\ Len(Front(q)) = Len(q) - 1 /\ Front(q) # <<>>
         /\ \A k \in 1..(Len(q) - 1) : Front(q)[k] = q[k]
         /\ ToSet(q) = ToSet(Front(q)) \cup {Last(q)}
         /\ Distinct(q) => Distinct(Front(q)) /\ Last(q) \notin ToSet(Front(q))
<1>1. PICK n \in Nat : n = Len(q) /\ n > 1
  OBVIOUS
<1>2. /\ Front(q) \in Seq(S) /\ Len(Front(q)) = n - 1 /\ DOMAIN Front(q) = 1..(n - 1)
      /\ \A k \in 1..(n - 1) : Front(q)[k] = q[k]
  BY <1>1 DEF Front
<1>3. DOMAIN q = 1..n /\ Last(q) = q[n] /\ q # <<>>
  BY <1>1 DEF Last
<1>4. ToSet(q) = ToSet(Front(q)) \cup {Last(q)}
  <2>1. \A k \in 1..n : k \in 1..(n - 1) \/ k = n
    BY <1>1
  <2>2. n \in 1..n /\ 1..(n - 1) \subseteq 1..n
    BY <1>1
  <2>3. QED BY <1>2, <1>3, <2>1, <2>2 DEF ToSet
<1>5. ASSUME Distinct(q) PROVE Distinct(Front(q)) /\ Last(q) \notin ToSet(Front(q))
  <2>1. 1..(n - 1) \subseteq 1..n /\ n \in 1..n /\ n \notin 1..(n - 1)
    BY <1>1
  <2>2. QED BY <1>2, <1>3, <1>5, <2>1 DEF Distinct, ToSet
<1>6. Front(q) # <<>>
  BY <1>1, <1>2
<1>7. QED BY <1>1, <1>2, <1>4, <1>5, <1>6

LEMMA AppendIs ==
  ASSUME NEW S, NEW q \in Seq(S), NEW y \in S
  PROVE  /\ Append(q, y) \in Seq(S) /\ Len(Append(q, y)) = Len(q) + 1 /\ Append(q, y) # <<>>
         /\ \A k \in 1..Len(q) : Append(q, y)[k] = q[k]
         /\ Append(q, y)[Len(q) + 1] = y
         /\ ToSet(Append(q, y)) = ToSet(q) \cup {y}
         /\ Distinct(q) /\ y \notin ToSet(q) => Distinct(Append(q, y))
<1>1. PICK n \in Nat : n = Len(q)
  OBVIOUS
<1> DEFINE p == Append(q, y)
<1>2. /\ p \in Seq(S) /\ Len(p) = n + 1 /\ DOMAIN p = 1..(n + 1) /\ DOMAIN q = 1..n
      /\ (\A k \in 1..n : p[k] = q[k]) /\ p[n + 1] = y
  BY <1>1
<1>3. p # <<>>
  BY <1>2
<1> HIDE DEF p
<1>4. \A k \in 1..(n + 1) : k \in 1..n \/ k = n + 1
  BY <1>1
<1>5. 1..n \subseteq 1..(n + 1) /\ n + 1 \in 1..(n + 1)
  BY <1>1
<1>6. ToSet(p) = ToSet(q) \cup {y}
  BY <1>2, <1>4, <1>5 DEF ToSet
<1>7. Distinct(q) /\ y \notin ToSet(q) => Distinct(p)
  BY <1>2, <1>4, <1>5 DEF ToSet, Distinct
<1>8. QED BY <1>1, <1>2, <1>3, <1>6, <1>7 DEF p

LEMMA PutIs ==
  ASSUME NEW S, NEW q \in Seq(S), NEW x \in S
  PROVE  /\ <<x>> \o q \in Seq(S) /\ Len(<<x>> \o q) = Len(q) + 1 /\ <<x>> \o q # <<>>
         /\ (<<x>> \o q)[1] = x
         /\ \A k \in 1..Len(q) : (<<x>> \o q)[k + 1] = q[k]
         /\ ToSet(<<x>> \o q) = ToSet(q) \cup {x}
         /\ Distinct(q) /\ x \notin ToSet(q) => Distinct(<<x>> \o q)
         /\ \A next : Forward(next, q) /\ next[x] \subseteq ToSet(q) /\ x \notin ToSet(q)
                        /\ (\A z \in ToSet(q) : x \notin next[z])
                      => Forward(next, <<x>> \o q)
<1>1. PICK n \in Nat : n = Len(q)
  OBVIOUS
<1> DEFINE p == <<x>> \o q
<1>2. /\ p \in Seq(S) /\ Len(p) = n + 1 /\ DOMAIN p = 1..(n + 1) /\ DOMAIN q = 1..n
      /\ p[1] = x
  BY <1>1
<1>3. \A k \in 1..n : p[k + 1] = q[k]
  BY <1>1
<1>4. p # <<>>
  BY <1>2
<1> HIDE DEF p
<1>5. \A k \in 1..(n + 1) : k = 1 \/ (k - 1 \in 1..n /\ k = (k - 1) + 1)
  BY <1>1
<1>6. 1 \in 1..(n + 1) /\ \A k \in 1..n : k + 1 \in 1..(n + 1)
  BY <1>1
<1>7. ToSet(p) = ToSet(q) \cup {x}
  <2>1. ASSUME NEW z \in ToSet(p) PROVE z \in ToSet(q) \cup {x}
    <3>1. PICK k \in 1..(n + 1) : z = p[k]
      BY <1>2, <2>1 DEF ToSet
    <3>2. CASE k - 1 \in 1..n /\ k = (k - 1) + 1
      BY <1>2, <1>3, <3>1, <3>2 DEF ToSet
    <3>3. QED BY <1>2, <1>5, <3>1, <3>2
  <2>2. ASSUME NEW z \in ToSet(q) PROVE z \in ToSet(p)
    <3>1. PICK k \in 1..n : z = q[k]
      BY <1>2, <2>2 DEF ToSet
    <3>2. z = p[k + 1] /\ k + 1 \in DOMAIN p
      BY <1>2, <1>3, <1>6, <3>1
    <3>3. QED BY <3>2 DEF ToSet
  <2>3. x \in ToSet(p)
    BY <1>2, <1>6 DEF ToSet
  <2>4. QED BY <2>1, <2>2, <2>3
<1>8. \A k \in 2..(n + 1) : p[k] = q[k - 1] /\ k - 1 \in DOMAIN q /\ p[k] \in ToSet(q)
  <2>1. ASSUME NEW k \in 2..(n + 1) PROVE p[k] = q[k - 1] /\ k - 1 \in DOMAIN q /\ p[k] \in ToSet(q)
    <3>1. PICK j \in 1..n : k = j + 1 /\ j = k - 1
      BY <1>1
    <3>2. QED BY <1>2, <1>3, <3>1 DEF ToSet
  <2>2. QED BY <2>1
<1>9. \A k \in DOMAIN p : k = 1 \/ k \in 2..(n + 1)
  BY <1>1, <1>2
<1>10. Distinct(q) /\ x \notin ToSet(q) => Distinct(p)
  <2>1. ASSUME Distinct(q), x \notin ToSet(q), NEW i \in DOMAIN p, NEW j \in DOMAIN p, p[i] = p[j]
        PROVE  i = j
    <3>1. CASE i = 1 \/ j = 1
      BY <1>2, <1>8, <1>9, <2>1, <3>1
    <3>2. CASE i \in 2..(n + 1) /\ j \in 2..(n + 1)
      <4>1. i - 1 = j - 1
        BY <1>8, <2>1, <3>2 DEF Distinct
      <4>2. QED BY <3>2, <4>1
    <3>3. QED BY <1>9, <3>1, <3>2
  <2>2. QED BY <2>1 DEF Distinct
<1>11. ASSUME NEW next, Forward(next, q), next[x] \subseteq ToSet(q), x \notin ToSet(q),
              \A z \in ToSet(q) : x \notin next[z]
       PROVE  Forward(next, p)
  <2>1. ASSUME NEW i \in DOMAIN p, NEW j \in DOMAIN p, p[j] \in next[p[i]] PROVE i < j
    <3>1. CASE j = 1
      BY <1>2, <1>8, <1>9, <1>11, <2>1, <3>1
    <3>2. CASE i = 1 /\ j \in 2..(n + 1)
      BY <3>2
    <3>3. CASE i \in 2..(n + 1) /\ j \in 2..(n + 1)
      <4>1. i - 1 < j - 1
        BY <1>8, <1>11, <2>1, <3>3 DEF Forward
      <4>2. QED BY <3>3, <4>1
    <3>4. QED BY <1>9, <3>1, <3>2, <3>3
  <2>2. QED BY <2>1 DEF Forward
<1>12. QED BY <1>1, <1>2, <1>3, <1>4, <1>7, <1>10, <1>11 DEF p

----------------------------------------------------------------------------
(* The steps of recursiveDFSToposort.  A successor that is grey is not     *)
(* followed by a forward edge of a reducible loop: the path that the grey  *)
(* blocks are would close a circle of edges that are no back edges.        *)

LEMMA ForwardIs ==
  ASSUME NEW g, NEW c, NEW h
  PROVE  /\ DOMAIN ForwardEdges(g, c, h) = c
         /\ \A b \in c : ForwardEdges(g, c, h)[b] = {x \in ToSet(g[b]) \cap c : ~DominatesIn(g, c, h, x, b)}
BY DEF ForwardEdges

(* The next white block becomes grey.  No way to it has come by it.        *)
LEMMA Pushed ==
  ASSUME NEW g \in Graphs, NEW c \in Components(g), NEW h \in c, NEW gr, NEW so,
         Searching(g, c, h, gr, so),
         NEW y \in c, y \in ToSet(g[Last(gr)]), y \notin ToSet(gr) \cup ToSet(so)
  PROVE  Searching(g, c, h, Append(gr, y), so)
<1> DEFINE F == ForwardEdges(g, c, h)
           p == Append(gr, y)
           x == Last(gr)
<1>1. gr \in Seq(c) /\ gr # <<>> /\ Distinct(gr) /\ gr[1] = h
  BY DEF Searching
<1>2. PICK n \in Nat \ {0} : n = Len(gr)
  BY <1>1
<1>3. /\ DOMAIN gr = 1..n /\ x = gr[n] /\ x \in c /\ \A k \in 1..n : gr[k] \in ToSet(gr)
  BY <1>1, <1>2, LastIs
<1>4. /\ p \in Seq(c) /\ Len(p) = n + 1 /\ p # <<>>
      /\ (\A k \in 1..n : p[k] = gr[k]) /\ p[n + 1] = y
      /\ ToSet(p) = ToSet(gr) \cup {y} /\ Distinct(p)
  BY <1>1, <1>2, AppendIs
<1>5. ~DominatesIn(g, c, h, y, x)
  <2> DEFINE W == c \ {y}
  <2>1. \A k \in 1..n : gr[k] \in W
    BY <1>1, <1>2, <1>3
  <2>2. gr \in Seq(W)
    BY <1>1, <1>2, <1>3, <2>1
  <2>3. c \in SUBSET DOMAIN g /\ DOMAIN Succs(g) = DOMAIN g /\ IsFiniteSet(DOMAIN g)
        /\ \A b \in DOMAIN g : Succs(g)[b] = ToSet(g[b])
    BY GraphIs, ComponentsAre
  <2>4. IsFiniteSet(W) /\ W \subseteq DOMAIN Succs(g)
    BY <2>3, FS_Subset
  <2>5. \A k \in 1..(n - 1) : gr[k + 1] \in Succs(g)[gr[k]]
    <3>1. \A k \in 1..(n - 1) : gr[k + 1] \in F[gr[k]] /\ gr[k] \in c
      BY <1>1, <1>2, <1>3, <2>1 DEF Searching
    <3> HIDE DEF F
    <3>2. \A b \in c : F[b] \subseteq ToSet(g[b])
      BY ForwardIs DEF F
    <3>3. QED BY <2>3, <3>1, <3>2
  <2>6. gr[n] \in ReachFrom(Succs(g), gr[1], W)
    <3>1. 1 \in DOMAIN gr /\ n \in 1..Len(gr)
      BY <1>2, <1>3
    <3> HIDE DEF W
    <3>2. QED BY <1>2, <2>2, <2>4, <2>5, <3>1, PathReaches
  <2>7. y # h /\ y # x
    BY <1>1, <1>2, <1>3
  <2>8. QED BY <1>1, <1>3, <2>6, <2>7 DEF DominatesIn
<1>6. y \in F[x]
  BY <1>3, <1>5, ForwardIs
<1>7. \A k \in 1..(Len(p) - 1) : p[k + 1] \in F[p[k]]
  <2>1. ASSUME NEW k \in 1..n PROVE p[k + 1] \in F[p[k]]
    <3>1. CASE k = n
      BY <1>3, <1>4, <1>6, <3>1
    <3>2. CASE k < n
      <4>1. k \in 1..(n - 1) /\ k + 1 \in 1..n
        BY <1>2, <3>2
      <4>2. gr[k + 1] \in F[gr[k]]
        BY <1>2, <4>1 DEF Searching
      <4>3. QED BY <1>4, <4>1, <4>2
    <3>3. QED BY <1>2, <3>1, <3>2
  <2>2. Len(p) - 1 = n
    BY <1>2, <1>4
  <2> HIDE DEF p, F
  <2>3. QED BY <2>1, <2>2
<1>8. p[1] = h
  BY <1>1, <1>2, <1>4
<1>9. /\ so \in Seq(c) /\ Distinct(so) /\ ToSet(gr) \cap ToSet(so) = {}
      /\ \A z \in ToSet(so) : ToSet(g[z]) \cap c \subseteq ToSet(gr) \cup ToSet(so)
      /\ Reducible(F) =>
           /\ Forward(F, so) /\ \A z \in ToSet(so) : F[z] \subseteq ToSet(so)
  BY DEF Searching
<1>10. ToSet(p) \cap ToSet(so) = {}
  BY <1>4, <1>9
<1>11. \A z \in ToSet(so) : ToSet(g[z]) \cap c \subseteq ToSet(p) \cup ToSet(so)
  BY <1>4, <1>9
<1> HIDE DEF F, p
<1>12. QED BY <1>4, <1>7, <1>8, <1>9, <1>10, <1>11 DEF Searching, F, p

(* A block is put down: what follows it inside of the loop is before it.   *)
LEMMA Finishing ==
  ASSUME NEW g \in Graphs, NEW c \in Components(g), NEW h \in c, NEW gr, NEW so,
         Searching(g, c, h, gr, so),
         ToSet(g[Last(gr)]) \cap (c \ (ToSet(gr) \cup ToSet(so))) = {}
  PROVE  LET x == Last(gr)
             p == <<x>> \o so
         IN /\ x \in c /\ p \in Seq(c) /\ Distinct(p) /\ ToSet(p) = ToSet(so) \cup {x}
            /\ \A z \in ToSet(p) : ToSet(g[z]) \cap c \subseteq ToSet(gr) \cup ToSet(p)
            /\ Reducible(ForwardEdges(g, c, h)) =>
                 /\ Forward(ForwardEdges(g, c, h), p)
                 /\ \A z \in ToSet(p) : ForwardEdges(g, c, h)[z] \subseteq ToSet(p)
<1> DEFINE F == ForwardEdges(g, c, h)
           x == Last(gr)
           p == <<x>> \o so
<1>1. gr \in Seq(c) /\ gr # <<>> /\ so \in Seq(c) /\ Distinct(so) /\ ToSet(gr) \cap ToSet(so) = {}
      /\ \A z \in ToSet(so) : ToSet(g[z]) \cap c \subseteq ToSet(gr) \cup ToSet(so)
  BY DEF Searching
<1>2. PICK n \in Nat \ {0} : n = Len(gr)
  BY <1>1
<1>3. /\ DOMAIN gr = 1..n /\ x = gr[n] /\ x \in c /\ x \in ToSet(gr) /\ \A k \in 1..n : gr[k] \in c
      /\ \A z \in ToSet(gr) : \E k \in 1..n : z = gr[k]
  BY <1>1, <1>2, LastIs
<1>4. x \notin ToSet(so)
  BY <1>1, <1>3
<1>5. /\ p \in Seq(c) /\ ToSet(p) = ToSet(so) \cup {x} /\ Distinct(p)
      /\ Forward(F, so) /\ F[x] \subseteq ToSet(so) /\ (\A z \in ToSet(so) : x \notin F[z]) => Forward(F, p)
  <2> HIDE DEF F, x
  <2>1. QED BY <1>1, <1>3, <1>4, PutIs
<1>6. \A z \in ToSet(p) : ToSet(g[z]) \cap c \subseteq ToSet(gr) \cup ToSet(p)
  BY <1>1, <1>5
<1>7. ASSUME Reducible(F) PROVE Forward(F, p) /\ \A z \in ToSet(p) : F[z] \subseteq ToSet(p)
  <2>1. Forward(F, so) /\ \A z \in ToSet(so) : F[z] \subseteq ToSet(so)
    BY <1>7 DEF Searching
  <2>2. ASSUME NEW y \in F[x] PROVE y \in ToSet(so)
    <3>1. y \in c /\ y \in ToSet(g[x])
      BY <1>3, <2>2, ForwardIs
    <3>2. SUFFICES ASSUME y \in ToSet(gr) PROVE FALSE
      BY <3>1
    <3>3. PICK k \in 1..n : y = gr[k]
      BY <1>3, <3>2
    <3>4. \A m \in 1..(n - 1) : gr[m + 1] \in F[gr[m]]
      BY <1>2 DEF Searching
    <3>5. DOMAIN F = c
      BY ForwardIs
    <3>6. IsFiniteSet(c)
      BY GraphIs, ComponentsAre, FS_Subset
    <3>7. gr[n] \in ReachFrom(F, gr[k], c)
      <4>1. k \in DOMAIN gr /\ n \in k..Len(gr)
        BY <1>2, <1>3
      <4> HIDE DEF F
      <4>2. QED BY <1>1, <1>2, <3>4, <3>5, <3>6, <4>1, PathReaches
    <3> HIDE DEF F, x
    <3>8. QED BY <1>3, <1>7, <2>2, <3>3, <3>5, <3>7 DEF Reducible
  <2> HIDE DEF F, x, p
  <2>3. Forward(F, p)
    BY <1>4, <1>5, <2>1, <2>2
  <2>4. QED BY <1>5, <2>1, <2>2, <2>3
<1> HIDE DEF F, x, p
<1>8. QED BY <1>3, <1>5, <1>6, <1>7 DEF F, x, p

(* The path without its last block, which is put down.                     *)
LEMMA Popped ==
  ASSUME NEW g \in Graphs, NEW c \in Components(g), NEW h \in c, NEW gr, NEW so,
         Searching(g, c, h, gr, so), Len(gr) # 1,
         ToSet(g[Last(gr)]) \cap (c \ (ToSet(gr) \cup ToSet(so))) = {}
  PROVE  Searching(g, c, h, Front(gr), <<Last(gr)>> \o so)
<1> DEFINE F == ForwardEdges(g, c, h)
           x == Last(gr)
           p == <<x>> \o so
           q == Front(gr)
<1>1. gr \in Seq(c) /\ gr # <<>> /\ Distinct(gr) /\ gr[1] = h /\ ToSet(gr) \cap ToSet(so) = {}
      /\ \A k \in 1..(Len(gr) - 1) : gr[k + 1] \in F[gr[k]]
  BY DEF Searching
<1>2. PICK n \in Nat \ {0} : n = Len(gr)
  BY <1>1
<1>3. n > 1
  BY <1>2
<1>4. /\ q \in Seq(c) /\ Len(q) = n - 1 /\ q # <<>> /\ (\A k \in 1..(n - 1) : q[k] = gr[k])
      /\ ToSet(gr) = ToSet(q) \cup {x} /\ Distinct(q) /\ x \notin ToSet(q)
  BY <1>1, <1>2, <1>3, FrontIs
<1>5. /\ p \in Seq(c) /\ Distinct(p) /\ ToSet(p) = ToSet(so) \cup {x}
      /\ \A z \in ToSet(p) : ToSet(g[z]) \cap c \subseteq ToSet(gr) \cup ToSet(p)
      /\ Reducible(F) => Forward(F, p) /\ \A z \in ToSet(p) : F[z] \subseteq ToSet(p)
  BY Finishing
<1> HIDE DEF F, x, p, q
<1>6. q[1] = h
  BY <1>1, <1>3, <1>4
<1>7. \A k \in 1..(Len(q) - 1) : q[k + 1] \in F[q[k]]
  <2>1. ASSUME NEW k \in 1..(n - 2) PROVE q[k + 1] \in F[q[k]]
    <3>1. k \in 1..(n - 1) /\ k + 1 \in 1..(n - 1)
      BY <1>3
    <3>2. gr[k + 1] \in F[gr[k]]
      BY <1>1, <1>2, <3>1
    <3>3. QED BY <1>4, <3>1, <3>2
  <2>2. Len(q) - 1 = n - 2
    BY <1>3, <1>4
  <2>3. QED BY <2>1, <2>2
<1>8. ToSet(q) \cap ToSet(p) = {}
  BY <1>1, <1>4, <1>5
<1>9. \A z \in ToSet(p) : ToSet(g[z]) \cap c \subseteq ToSet(q) \cup ToSet(p)
  BY <1>4, <1>5
<1>10. QED BY <1>4, <1>5, <1>6, <1>7, <1>8, <1>9 DEF Searching, F, x, p, q

(* The last one that is put down is the head, and nothing is left.         *)
LEMMA PutLast ==
  ASSUME NEW g \in Graphs, NEW c \in Components(g), NEW h \in c, h \in Roots(g, c), NEW gr, NEW so,
         Searching(g, c, h, gr, so), Len(gr) = 1,
         ToSet(g[Last(gr)]) \cap (c \ (ToSet(gr) \cup ToSet(so))) = {}
  PROVE  SortedIn(g, <<Last(gr)>> \o so, c)
<1> DEFINE F == ForwardEdges(g, c, h)
           x == Last(gr)
           p == <<x>> \o so
<1>1. gr \in Seq(c) /\ gr # <<>> /\ gr[1] = h
  BY DEF Searching
<1>2. x = h /\ ToSet(gr) = {h}
  BY <1>1 DEF Last, ToSet
<1>3. /\ p \in Seq(c) /\ Distinct(p) /\ ToSet(p) = ToSet(so) \cup {x}
      /\ \A z \in ToSet(p) : ToSet(g[z]) \cap c \subseteq ToSet(gr) \cup ToSet(p)
      /\ Reducible(F) => Forward(F, p) /\ \A z \in ToSet(p) : F[z] \subseteq ToSet(p)
  BY Finishing
<1> HIDE DEF F, x, p
<1>4. ToSet(p) \in SUBSET c
  BY <1>3 DEF ToSet
<1>5. ToSet(p) = c
  <2>1. h \in ToSet(p) /\ \A z \in ToSet(p) : ToSet(g[z]) \cap c \subseteq ToSet(p)
    BY <1>2, <1>3
  <2>2. QED BY <1>4, <2>1, ComponentConnected
<1>6. ASSUME NEW e \in c, Roots(g, c) = {e}, Reducible(ForwardEdges(g, c, e))
      PROVE  Forward(ForwardEdges(g, c, e), p)
  <2>1. e = h
    BY <1>6
  <2>2. QED BY <1>3, <1>6, <2>1 DEF F
<1>7. QED BY <1>3, <1>5, <1>6 DEF SortedIn, p, x

(* One block is sorted: an edge to itself is a back edge.                  *)
LEMMA SingleSorted ==
  ASSUME NEW g, NEW c, NEW q \in Seq(c), Len(q) = 1, ToSet(q) = c
  PROVE  SortedIn(g, q, c)
<1>1. DOMAIN q = {1} /\ q[1] \in c /\ c = {q[1]}
  BY DEF ToSet
<1>2. Distinct(q)
  BY <1>1 DEF Distinct
<1>3. ASSUME NEW h \in c PROVE Forward(ForwardEdges(g, c, h), q)
  <2>1. q[1] \notin ForwardEdges(g, c, h)[q[1]]
    BY <1>1, ForwardIs DEF DominatesIn
  <2>2. QED BY <1>1, <2>1 DEF Forward
<1>4. QED BY <1>2, <1>3 DEF SortedIn

(* A search starts with a root alone on the path.                          *)
LEMMA SearchStarts ==
  ASSUME NEW g, NEW c, NEW h \in c
  PROVE  Searching(g, c, h, <<h>>, <<>>)
<1> DEFINE q == <<h>>
<1>1. /\ q \in Seq(c) /\ q # <<>> /\ Len(q) = 1 /\ DOMAIN q = {1} /\ q[1] = h
      /\ <<>> \in Seq(c) /\ DOMAIN <<>> = {}
  OBVIOUS
<1>2. Distinct(q) /\ Distinct(<<>>) /\ ToSet(<<>>) = {}
  BY <1>1 DEF Distinct, ToSet
<1>3. \A next : Forward(next, <<>>)
  BY <1>1 DEF Forward
<1>4. 1..(Len(q) - 1) = {}
  BY <1>1
<1> HIDE DEF q
<1>5. QED BY <1>1, <1>2, <1>3, <1>4 DEF Searching, q

----------------------------------------------------------------------------
(* Sorted components in front of each other are an order that leads.       *)

(* The components that are sorted so far, the last listed first.           *)
Ordered(g, s, ord) ==
  /\ ord \in Seq(Seq(Live(g))) /\ Len(ord) <= Len(s)
  /\ \A i \in 1..Len(ord) : SortedIn(g, ord[i], ToSet(s[Len(ord) + 1 - i]))

(* A sorted component is put in front of those before.                     *)
LEMMA OrderGrows ==
  ASSUME NEW g \in Graphs, NEW s, Lists(g, s), NEW ord, Ordered(g, s, ord), Len(ord) < Len(s),
         NEW q, SortedIn(g, q, ToSet(s[Len(ord) + 1]))
  PROVE  Ordered(g, s, <<q>> \o ord)
<1> DEFINE p == <<q>> \o ord
<1>1. ord \in Seq(Seq(Live(g)))
  BY DEF Ordered
<1>2. PICK n \in Nat : n = Len(ord)
  BY <1>1
<1>3. Len(s) \in Nat /\ n + 1 \in DOMAIN s
  <2>1. s \in Seq(Seq(Live(g)))
    BY DEF Lists
  <2>2. QED BY <1>2, <2>1
<1>4. q \in Seq(Live(g))
  <2>1. ToSet(s[n + 1]) \in SUBSET Live(g)
    BY <1>3, ComponentsAre DEF Lists
  <2>2. QED BY <1>2, <2>1 DEF SortedIn
<1>5. /\ p \in Seq(Seq(Live(g))) /\ Len(p) = n + 1 /\ p[1] = q
      /\ \A k \in 1..n : p[k + 1] = ord[k]
  BY <1>1, <1>2, <1>4, PutIs
<1> HIDE DEF p
<1>6. ASSUME NEW i \in 1..(n + 1) PROVE SortedIn(g, p[i], ToSet(s[(n + 1) + 1 - i]))
  <2>1. CASE i = 1
    <3>1. (n + 1) + 1 - i = n + 1
      BY <1>2, <2>1
    <3>2. QED BY <1>2, <1>5, <2>1, <3>1
  <2>2. CASE i # 1
    <3>1. PICK k \in 1..n : i = k + 1 /\ (n + 1) + 1 - i = n + 1 - k
      <4>1. i - 1 \in 1..n /\ i = (i - 1) + 1 /\ (n + 1) + 1 - i = n + 1 - (i - 1)
        BY <1>2, <2>2
      <4>2. QED BY <4>1
    <3>2. SortedIn(g, ord[k], ToSet(s[n + 1 - k]))
      BY <1>2, <3>1 DEF Ordered
    <3>3. QED BY <1>5, <3>1, <3>2
  <2>3. QED BY <2>1, <2>2
<1>7. Len(p) <= Len(s)
  BY <1>2, <1>3, <1>5
<1>8. QED BY <1>5, <1>6, <1>7 DEF Ordered, p

(* What is listed last, the root, is where the search starts.              *)
LEMMA ReverseIs ==
  ASSUME NEW S, NEW q \in Seq(S), q # <<>>
  PROVE  /\ Reverse(q) \in Seq(S) /\ Len(Reverse(q)) = Len(q)
         /\ Reverse(q)[1] = Last(q) /\ ToSet(Reverse(q)) = ToSet(q)
<1>1. PICK n \in Nat \ {0} : n = Len(q)
  OBVIOUS
<1> DEFINE r == Reverse(q)
<1>2. DOMAIN q = 1..n /\ \A i \in 1..n : q[i] \in S
  BY <1>1
<1>3. r = [j \in 1..n |-> q[n - j + 1]]
  BY <1>1 DEF Reverse
<1>4. \A i \in 1..n : n - i + 1 \in 1..n /\ n - (n - i + 1) + 1 = i
  BY <1>1
<1>5. r \in Seq(S) /\ Len(r) = n /\ DOMAIN r = 1..n /\ \A i \in 1..n : r[i] = q[n - i + 1]
  BY <1>2, <1>3, <1>4
<1> HIDE DEF r
<1>6. r[1] = Last(q)
  <2>1. 1 \in 1..n /\ n - 1 + 1 = n
    BY <1>1
  <2>2. QED BY <1>1, <1>5, <2>1 DEF Last
<1>7. ToSet(r) = ToSet(q)
  <2>1. ASSUME NEW i \in 1..n PROVE r[i] \in ToSet(q) /\ q[i] \in ToSet(r)
    <3>1. r[n - i + 1] = q[i] /\ r[i] = q[n - i + 1]
      BY <1>4, <1>5
    <3>2. QED BY <1>2, <1>4, <1>5, <3>1 DEF ToSet
  <2>2. \A x \in ToSet(r) : \E i \in 1..n : x = r[i]
    BY <1>5 DEF ToSet
  <2>3. \A x \in ToSet(q) : \E i \in 1..n : x = q[i]
    BY <1>2 DEF ToSet
  <2>4. ToSet(r) \subseteq ToSet(q)
    BY <2>1, <2>2
  <2>5. ToSet(q) \subseteq ToSet(r)
    BY <2>1, <2>3
  <2>6. QED BY <2>4, <2>5
<1>8. QED BY <1>1, <1>5, <1>6, <1>7 DEF r

(* When all are sorted.                                                    *)
LEMMA OrderedLeads ==
  ASSUME NEW g \in Graphs, NEW s, Lists(g, s), NEW ord, Ordered(g, s, ord), Len(ord) = Len(s)
  PROVE  Topological(g, ord) /\ LoopOnce(g, ord)
<1>1. s \in Seq(Seq(Live(g))) /\ ord \in Seq(Seq(Live(g)))
  BY DEF Lists, Ordered
<1>2. PICK n \in Nat : n = Len(s) /\ n = Len(ord)
  BY <1>1
<1>3. DOMAIN s = 1..n /\ DOMAIN ord = 1..n
  BY <1>1, <1>2
<1>4. ASSUME NEW b, NEW p \in Places(ord, b)
      PROVE  /\ p[1] \in 1..n /\ n + 1 - p[1] \in 1..n /\ p = <<p[1], p[2]>>
             /\ p[2] \in DOMAIN ord[p[1]] /\ ord[p[1]][p[2]] = b
             /\ SortedIn(g, ord[p[1]], ToSet(s[n + 1 - p[1]]))
             /\ b \in ToSet(s[n + 1 - p[1]])
  <2>1. p[1] \in 1..n /\ p = <<p[1], p[2]>> /\ p[2] \in DOMAIN ord[p[1]] /\ ord[p[1]][p[2]] = b
    BY <1>3, <1>4 DEF Places
  <2>2. n + 1 - p[1] \in 1..n
    BY <1>2, <2>1
  <2>3. SortedIn(g, ord[p[1]], ToSet(s[n + 1 - p[1]]))
    BY <1>2, <2>1 DEF Ordered
  <2>4. b \in ToSet(ord[p[1]])
    BY <2>1 DEF ToSet
  <2>5. QED BY <2>1, <2>2, <2>3, <2>4 DEF SortedIn
(* Two places of blocks of one component are in one component of the order. *)
<1>5. ASSUME NEW a \in Live(g), NEW b \in Class(g, a),
             NEW p \in Places(ord, a), NEW q \in Places(ord, b)
      PROVE  p[1] = q[1] /\ ToSet(s[n + 1 - p[1]]) = Class(g, a)
  <2> DEFINE i == n + 1 - p[1]
             j == n + 1 - q[1]
  <2>1. i \in DOMAIN s /\ j \in DOMAIN s /\ a \in ToSet(s[i]) /\ b \in ToSet(s[j])
    BY <1>3, <1>4, <1>5
  <2>2. ToSet(s[i]) \in Components(g) /\ ToSet(s[j]) \in Components(g)
    BY <2>1 DEF Lists
  <2>3. ToSet(s[i]) = Class(g, a) /\ ToSet(s[j]) = Class(g, b) /\ Class(g, a) = Class(g, b)
    BY <1>5, <2>1, <2>2, ComponentsAre
  <2>4. i = j
    BY <2>1, <2>3 DEF Lists
  <2>5. p[1] \in 1..n /\ q[1] \in 1..n
    BY <1>4, <1>5
  <2>6. QED BY <1>2, <2>3, <2>4, <2>5
<1>6. ASSUME NEW b \in Live(g) PROVE Cardinality(Places(ord, b)) = 1
  <2>1. PICK i \in 1..n : ToSet(s[i]) = Class(g, b)
    <3>1. Class(g, b) \in Components(g)
      BY ComponentsAre
    <3>2. QED BY <1>3, <3>1 DEF Lists
  <2>2. PICK m \in 1..n : m = n + 1 - i /\ n + 1 - m = i
    <3>1. n + 1 - i \in 1..n /\ n + 1 - (n + 1 - i) = i
      BY <1>2
    <3>2. QED BY <3>1
  <2>3. ToSet(ord[m]) = Class(g, b)
    BY <1>2, <2>1, <2>2 DEF Ordered, SortedIn
  <2>4. b \in ToSet(ord[m])
    BY <2>3, ComponentsAre
  <2>5. PICK k \in DOMAIN ord[m] : ord[m][k] = b
    BY <2>4 DEF ToSet
  <2>6. <<m, k>> \in Places(ord, b)
    <3>1. <<m, k>> \in UNION {{l} \X DOMAIN ord[l] : l \in DOMAIN ord}
      BY <1>3, <2>5
    <3>2. QED BY <2>5, <3>1 DEF Places
  <2>7. ASSUME NEW p \in Places(ord, b), NEW q \in Places(ord, b) PROVE p = q
    <3>1. b \in Class(g, b)
      BY ComponentsAre
    <3>2. p[1] = q[1]
      BY <1>5, <2>7, <3>1
    <3>3. Distinct(ord[p[1]])
      BY <1>4, <2>7 DEF SortedIn
    <3>4. p[2] = q[2]
      BY <1>4, <2>7, <3>2, <3>3 DEF Distinct
    <3>5. QED BY <1>4, <2>7, <3>2, <3>4
  <2>8. Places(ord, b) = {<<m, k>>}
    BY <2>6, <2>7
  <2>9. QED BY <2>8, FS_Singleton
<1>7. ASSUME NEW a \in Live(g), NEW b \in ReachedFrom(g)[a], a \notin ReachedFrom(g)[b]
      PROVE  Precedes(ord, a, b)
  <2>1. SUFFICES ASSUME NEW p \in Places(ord, a), NEW q \in Places(ord, b) PROVE p[1] < q[1]
    BY DEF Precedes
  <2>2. PICK i \in 1..n : i = n + 1 - p[1] /\ a \in ToSet(s[i])
    BY <1>4, <2>1
  <2>3. PICK j \in 1..n : j = n + 1 - q[1] /\ b \in ToSet(s[j])
    BY <1>4, <2>1
  <2> DEFINE D == {x \in Live(g) : \E k \in 1..i : x \in ToSet(s[k])}
  <2>4. ASSUME NEW x \in D, NEW y \in ToSet(g[x]) PROVE y \in D
    <3>1. PICK k \in 1..i : x \in ToSet(s[k])
      BY <2>4
    <3>2. y \in Live(g)
      BY <2>4, GraphIs
    <3>3. PICK m \in 1..n : y \in ToSet(s[m])
      <4>1. Class(g, y) \in Components(g) /\ y \in Class(g, y)
        BY <3>2, ComponentsAre
      <4>2. QED BY <1>3, <4>1 DEF Lists
    <3>4. ~(k < m)
      <4>1. k \in DOMAIN s /\ m \in DOMAIN s
        BY <1>2, <1>3
      <4>2. y \in ToSet(g[x]) \cap ToSet(s[m])
        BY <2>4, <3>3
      <4> HIDE DEF D
      <4>3. QED BY <3>1, <4>1, <4>2 DEF Lists
    <3>5. m \in 1..i
      BY <1>2, <3>1, <3>3, <3>4
    <3>6. QED BY <3>2, <3>3, <3>5
  <2>5. a \in D
    <3>1. i \in 1..i
      BY <1>2
    <3>2. QED BY <2>2, <3>1
  <2>6. ReachedFrom(g)[a] \subseteq D
    <3>1. D \in SUBSET Live(g)
      OBVIOUS
    <3>2. \A x \in D : ToSet(g[x]) \subseteq D
      BY <2>4
    <3> HIDE DEF D
    <3>3. QED BY <2>5, <3>1, <3>2, ReachedFromIs
  <2>7. PICK k \in 1..i : b \in ToSet(s[k])
    BY <2>6
  <2>8. k \in DOMAIN s /\ j \in DOMAIN s /\ i \in DOMAIN s
    BY <1>2, <1>3
  <2>9. ToSet(s[k]) \in Components(g) /\ ToSet(s[j]) \in Components(g) /\ ToSet(s[i]) \in Components(g)
    BY <2>8 DEF Lists
  <2>10. k = j
    <3>1. ToSet(s[k]) = Class(g, b) /\ ToSet(s[j]) = Class(g, b)
      BY <2>3, <2>7, <2>9, ComponentsAre
    <3>2. QED BY <2>8, <3>1 DEF Lists
  <2>11. i # j
    <3>1. ASSUME i = j PROVE FALSE
      <4>1. ToSet(s[i]) = Class(g, b)
        BY <2>3, <2>9, <3>1, ComponentsAre
      <4>2. QED BY <1>7, <2>2, <4>1 DEF Class
    <3>2. QED BY <3>1
  <2>12. j < i
    BY <1>2, <2>7, <2>10, <2>11
  <2>13. p[1] \in 1..n /\ q[1] \in 1..n
    BY <1>4, <2>1
  <2> HIDE DEF D
  <2>14. QED BY <1>2, <2>2, <2>3, <2>12, <2>13
<1>8. ASSUME NEW c \in Components(g), NEW h \in c, Roots(g, c) = {h}, Reducible(ForwardEdges(g, c, h)),
             NEW a \in c, NEW b \in ForwardEdges(g, c, h)[a]
      PROVE  Precedes(ord, a, b)
  <2>1. SUFFICES ASSUME NEW p \in Places(ord, a), NEW q \in Places(ord, b)
                 PROVE  p[1] = q[1] /\ p[2] < q[2]
    BY DEF Precedes
  <2>2. a \in Live(g) /\ c = Class(g, a) /\ b \in Class(g, a)
    BY <1>8, ComponentsAre, ForwardIs
  <2>3. p[1] = q[1] /\ ToSet(s[n + 1 - p[1]]) = c
    BY <1>5, <2>1, <2>2
  <2>4. SortedIn(g, ord[p[1]], c)
    BY <1>4, <2>1, <2>3
  <2>5. Forward(ForwardEdges(g, c, h), ord[p[1]])
    BY <1>8, <2>4 DEF SortedIn
  <2>6. p[2] < q[2]
    BY <1>4, <1>8, <2>1, <2>3, <2>5 DEF Forward
  <2>7. QED BY <2>3, <2>6
<1>9. Topological(g, ord)
  BY <1>6, <1>7, ReachedFromIs DEF Topological
<1>10. LoopOnce(g, ord)
  BY <1>8 DEF LoopOnce
<1>11. QED BY <1>9, <1>10

----------------------------------------------------------------------------
(* The lengths of chains of uses.                                          *)

(* What holds at 0 and goes on to the next number holds up to n.           *)
LEMMA CountUp ==
  ASSUME NEW n \in Nat, NEW T \in SUBSET (0..n), 0 \in T, \A m \in T : m < n => m + 1 \in T
  PROVE  T = 0..n
<1> DEFINE U == {m \in 0..n : 0..m \subseteq T}
<1>1. 0 \in U
  BY SMT
<1>2. PICK m \in U : \A j \in U : j <= m
  <2>1. U \in SUBSET (0..n) /\ U # {}
    BY <1>1
  <2> HIDE DEF U
  <2>2. QED BY <2>1, GreatestNumber
<1>3. m \in 0..n /\ 0..m \subseteq T
  OBVIOUS
<1>4. CASE m < n
  <2>1. m \in T /\ m + 1 \in T /\ m + 1 \in 0..n
    BY <1>3, <1>4
  <2>2. 0..(m + 1) \subseteq T
    BY <1>3, <2>1
  <2>3. m + 1 \in U
    BY <2>1, <2>2
  <2>4. QED BY <1>2, <1>3, <2>3
<1>5. CASE m = n
  BY <1>3, <1>5
<1>6. QED BY <1>3, <1>4, <1>5

Lengthened(use, scc, len, n) ==
  IF len[scc[n]] # NoLength THEN len ELSE Chained(len, useDefChain(use, scc, scc[n]))

(* The recursive definition of lengths is satisfied by a function.         *)
LEMMA LengthExists ==
  ASSUME NEW use, NEW scc, Len(scc) \in Nat
  PROVE  \E f : /\ f = [n \in 0..Len(scc) |->
                         IF n = 0 THEN [x \in ToSet(scc) |-> NoLength]
                         ELSE Lengthened(use, scc, f[n - 1], n)]
                /\ useDefLength(use, scc) = f[Len(scc)]
<1> DEFINE zero == [x \in ToSet(scc) |-> NoLength]
           next(len, n) == Lengthened(use, scc, len, n)
           Good(f, m) == f[0] = zero /\ \A n \in 1..m : f[n] = next(f[n - 1], n)
<1>1. PICK l \in Nat : l = Len(scc)
  OBVIOUS
<1> DEFINE T == {m \in 0..l : \E f : Good(f, m)}
           Eq(f) == f = [n \in 0..l |-> IF n = 0 THEN zero ELSE next(f[n - 1], n)]
<1>2. 0 \in T
  <2> DEFINE g == [n \in {0} |-> zero]
  <2> HIDE DEF next, zero
  <2>1. g[0] = zero /\ 1..0 = {}
    BY SMT
  <2> HIDE DEF g
  <2>2. Good(g, 0)
    BY <2>1
  <2> HIDE DEF Good
  <2>3. 0 \in 0..l
    BY SMT
  <2>4. QED BY <2>2, <2>3
<1>3. ASSUME NEW m \in T, m < l PROVE m + 1 \in T
  <2>1. PICK f : Good(f, m)
    BY <1>3
  <2>2. m \in Nat /\ m + 1 \in 0..l
    BY <1>3
  <2> DEFINE h == [n \in 0..(m + 1) |-> IF n = m + 1 THEN next(f[m], n) ELSE f[n]]
  <2> HIDE DEF next, zero
  <2>3. \A n \in 0..m : h[n] = f[n]
    BY <2>2
  <2>4. h[m + 1] = next(f[m], m + 1)
    BY <2>2
  <2> HIDE DEF h
  <2>5. h[0] = zero
    BY <2>1, <2>2, <2>3
  <2>6. ASSUME NEW n \in 1..(m + 1) PROVE h[n] = next(h[n - 1], n)
    <3>1. CASE n = m + 1
      <4>1. h[n - 1] = f[m]
        BY <2>2, <2>3, <3>1
      <4>2. QED BY <2>4, <3>1, <4>1
    <3>2. CASE n \in 1..m
      <4>1. n - 1 \in 0..m /\ n \in 0..m
        BY <2>2, <3>2
      <4>2. QED BY <2>1, <2>3, <3>2, <4>1
    <3>3. QED BY <2>2, <3>1, <3>2
  <2>7. Good(h, m + 1)
    BY <2>5, <2>6
  <2> HIDE DEF Good
  <2>8. QED BY <2>2, <2>7
<1>4. T = 0..l
  <2>1. T \in SUBSET (0..l)
    OBVIOUS
  <2> HIDE DEF T
  <2>2. QED BY <1>2, <1>3, <2>1, CountUp
<1>5. PICK f : Good(f, l)
  <2>1. l \in T
    BY <1>4
  <2>2. QED BY <2>1
<1> HIDE DEF next, zero
<1> DEFINE e == [n \in 0..l |-> f[n]]
<1>6. \A n \in 0..l : e[n] = IF n = 0 THEN zero ELSE next(e[n - 1], n)
  <2>1. ASSUME NEW n \in 1..l PROVE e[n] = next(e[n - 1], n)
    <3>1. n \in 0..l /\ n - 1 \in 0..l
      OBVIOUS
    <3>2. QED BY <1>5, <3>1
  <2>2. e[0] = zero
    BY <1>5
  <2> HIDE DEF e
  <2>3. QED BY <2>1, <2>2
<1>7. Eq(e)
  <2>1. e = [n \in 0..l |-> e[n]]
    OBVIOUS
  <2> HIDE DEF e
  <2>2. QED BY <1>6, <2>1
<1>8. useDefLength(use, scc) = (CHOOSE r : Eq(r))[l]
  BY <1>1 DEF useDefLength, Lengthened, next, zero
<1>9. Eq(CHOOSE r : Eq(r))
  <2> HIDE DEF Eq
  <2>1. QED BY <1>7
<1>10. QED BY <1>1, <1>8, <1>9 DEF next, zero

(* The number of passes is the length of the longest chain of uses: a      *)
(* block that was in a chain before has a chain that is a part of it.      *)
LEMMA TimesIs ==
  ASSUME NEW D, IsFiniteSet(D), NEW use \in [D -> SUBSET D], NEW scc \in Seq(D), scc # <<>>
  PROVE  LET C == ToSet(scc)
             n == getNumTimesToAnalyze(use, scc)
         IN /\ \A b \in C : Cardinality(ReachFrom(use, b, C)) <= n
            /\ \E b \in C : Cardinality(ReachFrom(use, b, C)) = n
<1> DEFINE C == ToSet(scc)
           R(b) == ReachFrom(use, b, C)
<1>1. PICK l \in Nat \ {0} : l = Len(scc)
  OBVIOUS
<1>2. DOMAIN scc = 1..l /\ C \in SUBSET D /\ IsFiniteSet(C) /\ C \subseteq DOMAIN use
  <2>1. DOMAIN scc = 1..l /\ C \in SUBSET D
    BY <1>1 DEF ToSet
  <2>2. QED BY <2>1, FS_Subset
<1>3. \A b \in C : R(b) \in SUBSET C /\ b \in R(b) /\ Cardinality(R(b)) \in Nat \ {0}
  <2>1. ASSUME NEW b \in C PROVE R(b) \in SUBSET C /\ b \in R(b) /\ Cardinality(R(b)) \in Nat \ {0}
    <3>1. R(b) \in SUBSET C /\ b \in R(b)
      BY <1>2, ReachFromIs
    <3>2. IsFiniteSet(R(b))
      BY <1>2, <3>1, FS_Subset
    <3>3. Cardinality(R(b)) \in Nat /\ Cardinality(R(b)) # 0
      BY <3>1, <3>2, FS_CardinalityType, FS_EmptySet
    <3>4. QED BY <3>1, <3>3
  <2>2. QED BY <2>1
<1>4. ASSUME NEW y \in C, NEW b \in R(y) PROVE b \in C /\ Cardinality(R(b)) <= Cardinality(R(y))
  <2>1. b \in C
    BY <1>3
  <2>2. R(b) \subseteq R(y)
    <3>1. R(y) \in SUBSET C /\ ClosedIn(use, C, R(y))
      BY <1>2, ReachFromIs
    <3>2. QED BY <1>2, <1>4, <2>1, <3>1, ReachFromIs
  <2>3. IsFiniteSet(R(y))
    BY <1>2, <1>3, FS_Subset
  <2>4. QED BY <2>1, <2>2, <2>3, FS_Subset
<1>5. PICK f : /\ f = [n \in 0..l |-> IF n = 0 THEN [x \in C |-> NoLength]
                                      ELSE Lengthened(use, scc, f[n - 1], n)]
               /\ useDefLength(use, scc) = f[l]
  BY <1>1, LengthExists
<1>6. f[0] = [x \in C |-> NoLength] /\ \A n \in 1..l : f[n] = Lengthened(use, scc, f[n - 1], n)
  BY <1>5
<1> HIDE DEF C, R
<1> DEFINE Chains(len) ==
             /\ DOMAIN len = C
             /\ \A x \in C : len[x] = NoLength \/ \E y \in C : x \in R(y) /\ len[x] = Cardinality(R(y))
           Inv(n) == Chains(f[n]) /\ \A k \in 1..n : f[n][scc[k]] # NoLength
           T == {n \in 0..l : Inv(n)}
<1>7. 0 \in T
  BY <1>6
<1>8. ASSUME NEW m \in T, m < l PROVE m + 1 \in T
  <2>1. m \in 0..l /\ m + 1 \in 1..l /\ m + 1 \in 0..l /\ (m + 1) - 1 = m
    BY <1>8
  <2> DEFINE b == scc[m + 1]
             len == f[m]
             new == f[m + 1]
  <2>2. b \in C /\ useDefChain(use, scc, b) = R(b)
    <3>1. b \in C
      BY <1>2, <2>1 DEF ToSet, C
    <3>2. QED BY <3>1 DEF useDefChain, R, C
  <2>3. Chains(len) /\ \A k \in 1..m : len[scc[k]] # NoLength
    BY <1>8
  <2>4. new = IF len[b] # NoLength THEN len ELSE Chained(len, R(b))
    BY <1>6, <2>1, <2>2 DEF Lengthened
  <2> HIDE DEF new, len
  <2>5. CASE len[b] # NoLength
    <3>1. new = len
      BY <2>4, <2>5
    <3>2. \A k \in 1..(m + 1) : new[scc[k]] # NoLength
      <4>1. \A k \in 1..(m + 1) : k \in 1..m \/ k = m + 1
        BY <2>1
      <4>2. QED BY <2>3, <2>5, <3>1, <4>1
    <3>3. QED BY <2>1, <2>3, <3>1, <3>2 DEF new
  <2>6. CASE len[b] = NoLength
    <3>1. new = [x \in C |-> IF x \in R(b) /\ len[x] = NoLength THEN Cardinality(R(b)) ELSE len[x]]
      BY <2>3, <2>4, <2>6 DEF Chained
    <3>2. \A x \in C : new[x] = IF x \in R(b) /\ len[x] = NoLength THEN Cardinality(R(b)) ELSE len[x]
      BY <3>1
    <3>3. Chains(new)
      <4>1. DOMAIN new = C
        BY <3>1
      <4>2. ASSUME NEW x \in C
            PROVE  new[x] = NoLength \/ \E y \in C : x \in R(y) /\ new[x] = Cardinality(R(y))
        BY <2>2, <2>3, <3>2
      <4>3. QED BY <4>1, <4>2
    <3>4. ASSUME NEW k \in 1..(m + 1) PROVE new[scc[k]] # NoLength
      <4>1. CASE k = m + 1
        BY <1>3, <2>2, <2>6, <3>2, <4>1 DEF NoLength
      <4>2. CASE k \in 1..m
        <5>1. k \in 1..l
          BY <2>1, <4>2
        <5>2. scc[k] \in C
          BY <1>2, <5>1 DEF ToSet, C
        <5>3. len[scc[k]] # NoLength
          BY <2>3, <4>2
        <5>4. QED BY <3>2, <5>2, <5>3
      <4>3. QED BY <2>1, <4>1, <4>2
    <3> HIDE DEF Chains
    <3>5. QED BY <2>1, <3>3, <3>4 DEF new
  <2>7. QED BY <2>5, <2>6
<1>9. Inv(l)
  <2>1. T \in SUBSET (0..l)
    OBVIOUS
  <2>2. T = 0..l
    <3> HIDE DEF T
    <3>1. QED BY <1>7, <1>8, <2>1, CountUp
  <2>3. l \in T
    BY <2>2
  <2>4. QED BY <2>3
<1> DEFINE len == f[l]
           lengths == {1} \cup {len[b] : b \in C}
           n == getNumTimesToAnalyze(use, scc)
<1>10. ASSUME NEW x \in C
       PROVE  /\ \E y \in C : x \in R(y) /\ len[x] = Cardinality(R(y))
              /\ len[x] \in Nat \ {0} /\ Cardinality(R(x)) <= len[x]
              /\ len[x] <= Cardinality(C)
  <2>1. PICK k \in 1..l : x = scc[k]
    BY <1>2, <1>10 DEF C, ToSet
  <2>2. len[x] # NoLength
    BY <1>9, <2>1
  <2>3. PICK y \in C : x \in R(y) /\ len[x] = Cardinality(R(y))
    BY <1>9, <2>2
  <2>4. Cardinality(R(y)) <= Cardinality(C)
    BY <1>2, <1>3, FS_Subset
  <2> HIDE DEF len
  <2>5. QED BY <1>3, <1>4, <2>3, <2>4
<1> HIDE DEF len
<1>11. PICK c \in Nat : c = Cardinality(C) /\ c >= 1
  <2>1. PICK x : x \in C
    <3>1. scc[1] \in C
      BY <1>1, <1>2 DEF C, ToSet
    <3>2. QED BY <3>1
  <2>2. Cardinality(C) \in Nat
    BY <1>2, FS_CardinalityType
  <2>3. QED BY <1>10, <2>1, <2>2
<1>12. lengths \in SUBSET (0..c) /\ lengths # {}
  BY <1>10, <1>11
<1>13. n = CHOOSE m \in lengths : \A k \in lengths : m >= k
  BY <1>5 DEF getNumTimesToAnalyze, len, C
<1>14. n \in lengths /\ \A k \in lengths : n >= k
  <2>1. \E m \in lengths : \A k \in lengths : m >= k
    <3>1. PICK m \in lengths : \A k \in lengths : k <= m
      <4> HIDE DEF lengths
      <4>1. QED BY <1>11, <1>12, GreatestNumber
    <3>2. \A k \in lengths : m >= k
      BY <1>12, <3>1
    <3>3. QED BY <3>1, <3>2
  <2> HIDE DEF lengths, n
  <2>2. QED BY <1>13, <2>1
<1>15. n \in Nat /\ n >= 1 /\ \A x \in C : n >= len[x]
  <2>1. 1 \in lengths /\ \A x \in C : len[x] \in lengths
    OBVIOUS
  <2> HIDE DEF lengths, n
  <2>2. n \in Nat /\ n >= 1
    BY <1>11, <1>12, <1>14, <2>1
  <2>3. QED BY <1>14, <2>1, <2>2
<1> HIDE DEF n
<1>16. \A b \in C : Cardinality(R(b)) <= n
  BY <1>3, <1>10, <1>15
<1>17. \E b \in C : Cardinality(R(b)) = n
  <2>1. CASE n = 1
    <3>1. PICK x \in C : TRUE
      <4>1. scc[1] \in C
        BY <1>1, <1>2 DEF C, ToSet
      <4>2. QED BY <4>1
    <3>2. Cardinality(R(x)) = 1
      BY <1>3, <1>16, <2>1, <3>1
    <3>3. QED BY <2>1, <3>2
  <2>2. CASE n # 1
    <3>1. PICK x \in C : n = len[x]
      BY <1>14, <2>2
    <3>2. QED BY <1>10, <3>1
  <2>3. QED BY <2>1, <2>2
<1>18. QED BY <1>16, <1>17 DEF n, C, R

----------------------------------------------------------------------------
(* Every step of the sorting.                                              *)

(* The length of the longest chain of uses in each component.              *)
Longest(use, ord, times) ==
  \A i \in DOMAIN ord :
    /\ \A b \in ToSet(ord[i]) : Cardinality(ReachFrom(use, b, ToSet(ord[i]))) <= times[i]
    /\ \E b \in ToSet(ord[i]) : Cardinality(ReachFrom(use, b, ToSet(ord[i]))) = times[i]

(* The component that is sorted next.                                      *)
Current(s, ord) == s[Len(ord) + 1]

(* While components are sorted.                                            *)
Sorts(g, s, ord, gr, so) ==
  /\ Lists(g, s) /\ Ordered(g, s, ord)
  /\ gr = <<>> => so = <<>>
  /\ gr # <<>> => /\ Len(ord) < Len(s)
                  /\ Searching(g, ToSet(Current(s, ord)), Last(Current(s, ord)), gr, so)

OrderInv ==
  /\ graph \in Graphs /\ step \in {"graph", "sort", "done"}
  /\ step = "graph" => sccs = <<>> /\ order = <<>> /\ grey = <<>> /\ sorted = <<>>
  /\ step # "graph" => Sorts(graph, sccs, order, grey, sorted)
  /\ step = "done" => Len(order) = Len(sccs) /\ Longest(uses, order, passes)

(* The component that is sorted next, and the other way round.             *)
LEMMA CurrentIs ==
  ASSUME NEW g \in Graphs, NEW s, NEW ord, Lists(g, s), Ordered(g, s, ord), Len(ord) < Len(s)
  PROVE  LET t == Current(s, ord)
             c == ToSet(t)
         IN /\ c \in Components(g) /\ Last(t) \in Roots(g, c) /\ Last(t) \in c
            /\ Reverse(t) \in Seq(c) /\ Reverse(t)[1] = Last(t) /\ ToSet(Reverse(t)) = c
            /\ Len(Reverse(t)) \in Nat \ {0}
<1>1. s \in Seq(Seq(Live(g))) /\ ord \in Seq(Seq(Live(g)))
  BY DEF Lists, Ordered
<1>2. PICK n \in Nat : n = Len(ord)
  BY <1>1
<1>3. n + 1 \in DOMAIN s
  BY <1>1, <1>2
<1> DEFINE t == s[n + 1]
           c == ToSet(t)
<1>4. t \in Seq(Live(g)) /\ t # <<>> /\ c \in Components(g) /\ Last(t) \in Roots(g, c)
  BY <1>1, <1>3 DEF Lists
<1>5. t \in Seq(c) /\ Last(t) \in c
  <2>1. DOMAIN t = 1..Len(t) /\ \A k \in DOMAIN t : t[k] \in c
    BY <1>4 DEF ToSet
  <2>2. t \in Seq(c)
    BY <1>4, <2>1
  <2>3. QED BY <1>4, <2>2, LastIs
<1>6. /\ Reverse(t) \in Seq(c) /\ Reverse(t)[1] = Last(t) /\ ToSet(Reverse(t)) = c
      /\ Len(Reverse(t)) \in Nat \ {0}
  <2>1. Reverse(t)[1] = Last(t) /\ ToSet(Reverse(t)) = c /\ Len(Reverse(t)) = Len(t)
    BY <1>4, ReverseIs
  <2>2. Reverse(t) \in Seq(c)
    BY <1>4, <1>5, ReverseIs
  <2>3. Len(t) \in Nat \ {0}
    BY <1>4
  <2>4. QED BY <2>1, <2>2, <2>3
<1>7. QED BY <1>2, <1>4, <1>5, <1>6 DEF Current

(* A component of one block is put down as it is, of another one the       *)
(* search starts at its root.                                              *)
LEMMA TakenSorts ==
  ASSUME OrderInv, takeSCC
  PROVE  Sorts(graph, sccs, order', grey', sorted')
<1>1. /\ graph \in Graphs /\ Lists(graph, sccs) /\ Ordered(graph, sccs, order)
      /\ Len(order) < Len(sccs) /\ sorted = <<>> /\ sorted' = sorted
  BY DEF OrderInv, Sorts, takeSCC, Sorting
<1> DEFINE t == Current(sccs, order)
           c == ToSet(t)
<1>2. /\ c \in Components(graph) /\ Last(t) \in c
      /\ Reverse(t) \in Seq(c) /\ Reverse(t)[1] = Last(t) /\ ToSet(Reverse(t)) = c
      /\ Len(Reverse(t)) \in Nat \ {0}
  BY <1>1, CurrentIs
<1>3. newCurrSCC = Reverse(t)
  BY DEF newCurrSCC, Current
<1>4. CASE Len(newCurrSCC) > 1
  <2>1. grey' = <<Last(t)>> /\ order' = order
    BY <1>2, <1>3, <1>4 DEF takeSCC
  <2>2. Searching(graph, c, Last(t), <<Last(t)>>, <<>>)
    BY <1>2, SearchStarts
  <2>3. grey' # <<>>
    BY <2>1
  <2>4. QED BY <1>1, <2>1, <2>2, <2>3 DEF Sorts
<1>5. CASE ~(Len(newCurrSCC) > 1)
  <2>1. order' = <<Reverse(t)>> \o order /\ grey' = <<>>
    BY <1>3, <1>5 DEF takeSCC
  <2>2. SortedIn(graph, Reverse(t), c)
    BY <1>2, <1>3, <1>5, SingleSorted
  <2>3. Ordered(graph, sccs, order')
    BY <1>1, <2>1, <2>2, OrderGrows DEF Current
  <2>4. QED BY <1>1, <2>1, <2>3 DEF Sorts
<1>6. QED BY <1>4, <1>5

(* What is white is neither on the path nor put down.                      *)
LEMMA WhiteIs ==
  ASSUME OrderInv, Sorting, grey # <<>>
  PROVE  LET t == Current(sccs, order)
             c == ToSet(t)
         IN /\ graph \in Graphs /\ Lists(graph, sccs) /\ Ordered(graph, sccs, order)
            /\ Len(order) < Len(sccs)
            /\ c \in Components(graph) /\ Last(t) \in c /\ Last(t) \in Roots(graph, c)
            /\ Searching(graph, c, Last(t), grey, sorted)
            /\ White = c \ (ToSet(grey) \cup ToSet(sorted))
<1>1. /\ graph \in Graphs /\ Lists(graph, sccs) /\ Ordered(graph, sccs, order)
      /\ Len(order) < Len(sccs)
      /\ Searching(graph, ToSet(Current(sccs, order)), Last(Current(sccs, order)), grey, sorted)
  BY DEF OrderInv, Sorts, Sorting
<1>2. /\ ToSet(Current(sccs, order)) \in Components(graph)
      /\ Last(Current(sccs, order)) \in Roots(graph, ToSet(Current(sccs, order)))
      /\ Last(Current(sccs, order)) \in ToSet(Current(sccs, order))
      /\ ToSet(newCurrSCC) = ToSet(Current(sccs, order))
  BY <1>1, CurrentIs DEF newCurrSCC, Current
<1>3. QED BY <1>1, <1>2 DEF White

(* A white successor goes on the path.                                     *)
LEMMA VisitedSorts ==
  ASSUME OrderInv, visitSucc
  PROVE  Sorts(graph, sccs, order', grey', sorted')
<1> DEFINE t == Current(sccs, order)
           c == ToSet(t)
<1>1. Sorting /\ grey # <<>> /\ order' = order /\ sorted' = sorted
  BY DEF visitSucc
<1>2. /\ graph \in Graphs /\ Lists(graph, sccs) /\ Ordered(graph, sccs, order)
      /\ Len(order) < Len(sccs)
      /\ c \in Components(graph) /\ Last(t) \in c
      /\ Searching(graph, c, Last(t), grey, sorted)
      /\ White = c \ (ToSet(grey) \cup ToSet(sorted))
  BY <1>1, WhiteIs
<1>3. PICK k \in DOMAIN graph[Last(grey)] :
        /\ graph[Last(grey)][k] \in White /\ grey' = Append(grey, graph[Last(grey)][k])
  BY DEF visitSucc
<1>4. graph[Last(grey)][k] \in ToSet(graph[Last(grey)])
  BY DEF ToSet
<1>5. Searching(graph, c, Last(t), grey', sorted)
  BY <1>2, <1>3, <1>4, Pushed
<1>6. grey' # <<>>
  BY <1>5 DEF Searching
<1>7. QED BY <1>1, <1>2, <1>5, <1>6 DEF Sorts

(* A block without white successors is put down; with the root the         *)
(* component is complete, as the search has met all of it.                 *)
LEMMA FinishedSorts ==
  ASSUME OrderInv, finishBB
  PROVE  Sorts(graph, sccs, order', grey', sorted')
<1> DEFINE t == Current(sccs, order)
           c == ToSet(t)
           x == Last(grey)
<1>1. Sorting /\ grey # <<>> /\ grey' = Front(grey) /\ ToSet(graph[x]) \cap White = {}
  BY DEF finishBB
<1>2. /\ graph \in Graphs /\ Lists(graph, sccs) /\ Ordered(graph, sccs, order)
      /\ Len(order) < Len(sccs)
      /\ c \in Components(graph) /\ Last(t) \in c /\ Last(t) \in Roots(graph, c)
      /\ Searching(graph, c, Last(t), grey, sorted)
      /\ White = c \ (ToSet(grey) \cup ToSet(sorted))
  BY <1>1, WhiteIs
<1>3. grey \in Seq(c)
  BY <1>2 DEF Searching
<1>4. CASE Len(grey) = 1
  <2>1. order' = <<<<x>> \o sorted>> \o order /\ sorted' = <<>>
    BY <1>4 DEF finishBB, Finished
  <2>2. SortedIn(graph, <<x>> \o sorted, c)
    BY <1>1, <1>2, <1>4, PutLast
  <2>3. Ordered(graph, sccs, order')
    BY <1>2, <2>1, <2>2, OrderGrows DEF Current
  <2>4. Front(grey) = <<>>
    BY <1>3, <1>4 DEF Front
  <2>5. QED BY <1>1, <1>2, <2>1, <2>3, <2>4 DEF Sorts
<1>5. CASE Len(grey) # 1
  <2>1. order' = order /\ sorted' = <<x>> \o sorted
    BY <1>5 DEF finishBB, Finished
  <2>2. Searching(graph, c, Last(t), grey', sorted')
    BY <1>1, <1>2, <1>5, <2>1, Popped
  <2>3. grey' # <<>>
    BY <2>2 DEF Searching
  <2>4. QED BY <1>2, <2>1, <2>2, <2>3 DEF Sorts
<1>6. QED BY <1>4, <1>5

(* No component is empty, and all its blocks are of the function.          *)
LEMMA CountedLongest ==
  ASSUME OrderInv, count
  PROVE  Longest(uses', order, passes')
<1>1. /\ graph \in Graphs /\ Lists(graph, sccs) /\ Ordered(graph, sccs, order)
      /\ Len(order) = Len(sccs) /\ uses' \in Uses(graph)
      /\ passes' = [i \in DOMAIN order |-> getNumTimesToAnalyze(uses', order[i])]
  BY DEF OrderInv, Sorts, count
<1>2. /\ IsFiniteSet(DOMAIN graph) /\ uses' \in [DOMAIN graph -> SUBSET DOMAIN graph]
      /\ Live(graph) \in SUBSET DOMAIN graph
  BY <1>1, GraphsAssumption, GraphIs
<1>3. sccs \in Seq(Seq(Live(graph))) /\ order \in Seq(Seq(Live(graph)))
  BY <1>1 DEF Lists, Ordered
<1>4. ASSUME NEW i \in DOMAIN order PROVE order[i] \in Seq(DOMAIN graph) /\ order[i] # <<>>
  <2>1. PICK n \in Nat : n = Len(order) /\ n = Len(sccs)
    BY <1>1, <1>3
  <2>2. i \in 1..n /\ n + 1 - i \in DOMAIN sccs
    <3>1. DOMAIN order = 1..Len(order)
      BY <1>3
    <3>2. DOMAIN sccs = 1..Len(sccs)
      BY <1>3
    <3>3. QED BY <2>1, <3>1, <3>2
  <2>3. SortedIn(graph, order[i], ToSet(sccs[n + 1 - i]))
    BY <1>1, <2>1, <2>2 DEF Ordered
  <2>4. ToSet(sccs[n + 1 - i]) \in Components(graph)
    BY <1>1, <2>2 DEF Lists
  <2>5. ToSet(sccs[n + 1 - i]) # {} /\ ToSet(order[i]) = ToSet(sccs[n + 1 - i])
    BY <1>1, <2>3, <2>4, ComponentsAre DEF SortedIn
  <2>6. order[i] # <<>>
    BY <2>5 DEF ToSet
  <2>7. order[i] \in Seq(Live(graph))
    BY <1>3
  <2>8. QED BY <1>2, <2>6, <2>7
<1>5. ASSUME NEW i \in DOMAIN order
      PROVE  /\ passes'[i] = getNumTimesToAnalyze(uses', order[i])
             /\ \A b \in ToSet(order[i]) :
                  Cardinality(ReachFrom(uses', b, ToSet(order[i]))) <= passes'[i]
             /\ \E b \in ToSet(order[i]) :
                  Cardinality(ReachFrom(uses', b, ToSet(order[i]))) = passes'[i]
  <2>1. passes'[i] = getNumTimesToAnalyze(uses', order[i])
    BY <1>1
  <2>2. QED BY <1>2, <1>4, <2>1, TimesIs
<1>6. QED BY <1>5 DEF Longest

(* Before anything is listed.                                              *)
LEMMA OrderInvInit == OrderInit => OrderInv
BY DEF OrderInit, OrderInv

(* One case per action; the sorting ones are the lemmas above.             *)
LEMMA OrderInvStep == OrderInv /\ [OrderNext]_orderVars => OrderInv'
<1> SUFFICES ASSUME OrderInv, [OrderNext]_orderVars PROVE OrderInv'
  OBVIOUS
<1>1. CASE Iterate
  <2>1. /\ graph \in Graphs /\ graph' = graph /\ sccs' \in scc_iterator(graph)
        /\ order' = <<>> /\ grey' = <<>> /\ sorted' = <<>> /\ step' = "sort"
    BY <1>1 DEF OrderInv, Iterate
  <2>2. Lists(graph, sccs')
    BY <2>1, IteratorLists
  <2>3. Ordered(graph, sccs', <<>>)
    <3>1. sccs' \in Seq(Seq(Live(graph)))
      BY <2>2 DEF Lists
    <3>2. <<>> \in Seq(Seq(Live(graph))) /\ Len(<<>>) <= Len(sccs') /\ 1..Len(<<>>) = {}
      BY <3>1
    <3>3. QED BY <3>2 DEF Ordered
  <2>4. Sorts(graph, sccs', order', grey', sorted')
    BY <2>1, <2>2, <2>3 DEF Sorts
  <2>5. QED BY <2>1, <2>4 DEF OrderInv
<1>2. CASE takeSCC
  <2>1. Sorts(graph, sccs, order', grey', sorted')
    BY <1>2, TakenSorts
  <2>2. graph' = graph /\ sccs' = sccs /\ step' = step /\ step = "sort"
    BY <1>2 DEF takeSCC, Rest, Sorting
  <2>3. QED BY <2>1, <2>2 DEF OrderInv
<1>3. CASE visitSucc
  <2>1. Sorts(graph, sccs, order', grey', sorted')
    BY <1>3, VisitedSorts
  <2>2. graph' = graph /\ sccs' = sccs /\ step' = step /\ step = "sort"
    BY <1>3 DEF visitSucc, Rest, Sorting
  <2>3. QED BY <2>1, <2>2 DEF OrderInv
<1>4. CASE finishBB
  <2>1. Sorts(graph, sccs, order', grey', sorted')
    BY <1>4, FinishedSorts
  <2>2. graph' = graph /\ sccs' = sccs /\ step' = step /\ step = "sort"
    BY <1>4 DEF finishBB, Rest, Sorting
  <2>3. QED BY <2>1, <2>2 DEF OrderInv
<1>5. CASE count
  <2>1. Longest(uses', order, passes')
    BY <1>5, CountedLongest
  <2>2. /\ step = "sort" /\ step' = "done" /\ Len(order) = Len(sccs) /\ graph' = graph
        /\ sccs' = sccs /\ order' = order /\ grey' = grey /\ sorted' = sorted
    BY <1>5 DEF count
  <2>3. QED BY <2>1, <2>2 DEF OrderInv
<1>6. CASE UNCHANGED orderVars
  BY <1>6 DEF orderVars, OrderInv
<1>7. QED BY <1>1, <1>2, <1>3, <1>4, <1>5, <1>6 DEF OrderNext, Done

(* From first listing to counted passes.                                   *)
LEMMA OrderAlwaysInv == OrderSpec => []OrderInv
<1>1. QED BY OrderInvInit, OrderInvStep, PTL DEF OrderSpec

(* In every flow graph, and for every order in which LLVM may list its     *)
(* components, getSCCTraversalOrder lists each live block once, after all  *)
(* that lead to it and that it does not lead back to; and in a loop with   *)
(* one head whose edges but the back edges make no circle, runToposort     *)
(* puts every block after those that lead to it.                           *)
THEOREM OrderAlwaysLeads == OrderSpec => []OrderLeads
<1>1. OrderInv => OrderLeads
  <2>1. ASSUME OrderInv, step = "done" PROVE Topological(graph, order) /\ LoopOnce(graph, order)
    <3>1. /\ graph \in Graphs /\ Lists(graph, sccs) /\ Ordered(graph, sccs, order)
          /\ Len(order) = Len(sccs)
      BY <2>1 DEF OrderInv, Sorts
    <3>2. QED BY <3>1, OrderedLeads
  <2>2. QED BY <2>1 DEF OrderLeads
<1>2. QED BY <1>1, OrderAlwaysInv, PTL

(* For every use of values between blocks, getNumTimesToAnalyze answers    *)
(* the length of the longest chain of uses in a component, although it     *)
(* computes chains only for blocks that were in none before.               *)
THEOREM PassesAreLongest == OrderSpec => []LongestChain
<1>1. OrderInv => LongestChain
  <2>1. ASSUME OrderInv, step = "done" PROVE Longest(uses, order, passes)
    BY <2>1 DEF OrderInv
  <2>2. QED BY <2>1 DEF Longest, LongestChain
<1>2. QED BY <1>1, OrderAlwaysInv, PTL
=============================================================================
