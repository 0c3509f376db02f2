--------------------------- MODULE TraversalProofs ---------------------------
(***************************************************************************)
(* Proofs about the walk of GlobalVisitor, for every program and all       *)
(* limits: its types, the chains of callers, and that no context is        *)
(* analysed twice.                                                         *)
(***************************************************************************)
EXTENDS Traversal, TLAPS, SequenceTheorems

Ctx == Seq(Func \cup Call)

(* The n-th visitor has n functions and n - 1 call sites in its context,   *)
(* which is known; what is left of a call is of one that was recorded; and *)
(* it is at a block while it visits its calls.                             *)
Shape ==
  \A n \in DOMAIN stack :
    /\ Len(stack[n].ctx) = 2 * n - 1
    /\ stack[n].ctx \in contexts
    /\ stack[n].tgts # {} => stack[n].call \in stack[n].visitedCallSites
    /\ stack[n].open => AtBlock(stack[n])

(* What is known of the callees' contexts below a visitor with context c:  *)
(* they are of call sites it has visited, and the targets that the present *)
(* call has left are new, unless its call site is.                         *)
FreshIn(C, v) ==
  \A i \in Call, e \in Func :
    v.ctx \o <<i, e>> \in C =>
      /\ i \in v.visitedCallSites
      /\ i = v.call /\ ~v.again => e \notin v.tgts

Fresh == \A n \in DOMAIN stack : FreshIn(contexts, stack[n])

(* A context was reached through the one that it extends.                  *)
ClosedSet(C) ==
  \A d \in Ctx \ {<<>>} : \A i \in Call, e \in Func : d \o <<i, e>> \in C => d \in C

Closed == ClosedSet(contexts)

IInv == TypeOK /\ ChainsSimple /\ Shape /\ Fresh /\ Closed

----------------------------------------------------------------------------
(* Sequences that end in pairs.                                            *)

LEMMA PairSeq ==
  ASSUME NEW S, NEW a \in Seq(S), NEW p \in S, NEW q \in S
  PROVE  /\ a \o <<p, q>> \in Seq(S)
         /\ Len(a \o <<p, q>>) = Len(a) + 2
         /\ \A n \in 1..Len(a) : (a \o <<p, q>>)[n] = a[n]
         /\ (a \o <<p, q>>)[Len(a) + 1] = p
         /\ (a \o <<p, q>>)[Len(a) + 2] = q
<1>1. <<p, q>> \in Seq(S) /\ Len(<<p, q>>) = 2 /\ <<p, q>>[1] = p /\ <<p, q>>[2] = q
  OBVIOUS
<1> QED
  BY <1>1

(* The context of a declaration is no callee's.                            *)
LEMMA DeclCtx ==
  ASSUME NEW d \in Ctx, NEW c \in Ctx, NEW i \in Call, NEW e \in Func, NEW j \in Call
  PROVE  d \o <<i, e>> # c \o <<j, j>>
<1>1. d \in Seq(Func \cup Call) /\ c \in Seq(Func \cup Call)
  BY DEF Ctx
<1>2. i \in Func \cup Call /\ j \in Func \cup Call /\ e \in Func \cup Call
  OBVIOUS
<1>3. ASSUME d \o <<i, e>> = c \o <<j, j>> PROVE e = j
  <2>1. Len(d \o <<i, e>>) = Len(d) + 2 /\ (d \o <<i, e>>)[Len(d) + 2] = e
    BY ONLY <1>1, <1>2, PairSeq
  <2>2. Len(c \o <<j, j>>) = Len(c) + 2 /\ (c \o <<j, j>>)[Len(c) + 2] = j
    BY ONLY <1>1, <1>2, PairSeq
  <2>3. Len(d) \in Nat /\ Len(c) \in Nat
    BY <1>1
  <2> QED
    BY <1>3, <2>1, <2>2, <2>3
<1> QED
  BY <1>3, TraversalAssumption DEF TraversalAssumption

----------------------------------------------------------------------------
(* A new visitor is at the first block of its function.                    *)
LEMMA NewVisitor ==
  ASSUME NEW c \in Ctx, NEW f \in Func
  PROVE  /\ Visitor(c, f) \in VisitorType
         /\ AtBlock(Visitor(c, f)) =>
              Visitor(c, f).blk \in DOMAIN currSCC(Visitor(c, f))
<1>1. Visitor(c, f) \in VisitorType
  BY DEF Visitor, VisitorType, Ctx
<1>2. ASSUME AtBlock(Visitor(c, f)) PROVE 1 \in DOMAIN currSCC(Visitor(c, f))
  <2>1. Order[f] \in Seq(Seq(Block) \ {<<>>}) /\ 1 \in DOMAIN Order[f]
    BY <1>2, TraversalAssumption DEF TraversalAssumption, AtBlock, Visitor
  <2>2. Order[f][1] \in Seq(Block) /\ Order[f][1] # <<>>
    BY <2>1
  <2> QED
    BY <2>2 DEF currSCC, Visitor
<1> QED
  BY <1>1, <1>2 DEF Visitor

(* A visitor that goes on to its next block is at one, or done.            *)
LEMMA AdvancedType ==
  ASSUME NEW v \in VisitorType, AtBlock(v), v.blk \in DOMAIN currSCC(v)
  PROVE  /\ Advanced(v) \in VisitorType
         /\ AtBlock(Advanced(v)) => Advanced(v).blk \in DOMAIN currSCC(Advanced(v))
         /\ Advanced(v).ctx = v.ctx /\ Advanced(v).func = v.func
         /\ Advanced(v).call = v.call /\ Advanced(v).tgts = v.tgts
         /\ Advanced(v).again = v.again
         /\ Advanced(v).visitedCallSites = v.visitedCallSites
         /\ ~Advanced(v).open
<1>1. Order[v.func] \in Seq(Seq(Block) \ {<<>>}) /\ v.scc \in DOMAIN Order[v.func]
  BY TraversalAssumption DEF TraversalAssumption, AtBlock, VisitorType
<1>2. currSCC(v) \in Seq(Block) /\ currSCC(v) # <<>>
  BY <1>1 DEF currSCC
<1>3. v.blk \in Nat \ {0} /\ v.scc \in Nat \ {0} /\ v.pass \in Nat \ {0}
  BY DEF VisitorType
<1> DEFINE Moved(s, p, b) == [v EXCEPT !.open = FALSE, !.scc = s, !.pass = p, !.blk = b]
<1>4. SUFFICES \E s, p, b \in Nat \ {0} :
                 /\ Advanced(v) = Moved(s, p, b)
                 /\ s = v.scc => b \in DOMAIN currSCC(v)
                 /\ s # v.scc => s = v.scc + 1 /\ b = 1
  <2>1. PICK s \in Nat \ {0}, p \in Nat \ {0}, b \in Nat \ {0} :
                 /\ Advanced(v) = Moved(s, p, b)
                 /\ s = v.scc => b \in DOMAIN currSCC(v)
                 /\ s # v.scc => s = v.scc + 1 /\ b = 1
    BY <1>4
  <2> DEFINE w == Advanced(v)
  <2>2. /\ w \in VisitorType
        /\ w.scc = s /\ w.blk = b /\ w.ctx = v.ctx /\ w.func = v.func /\ w.call = v.call
        /\ w.tgts = v.tgts /\ w.again = v.again /\ w.visitedCallSites = v.visitedCallSites
        /\ ~w.open
    <3>1. w = [v EXCEPT !.open = FALSE, !.scc = s, !.pass = p, !.blk = b]
      BY <2>1
    <3>2. w \in VisitorType
      BY <3>1 DEF VisitorType
    <3>3. w.scc = s /\ w.blk = b /\ w.ctx = v.ctx /\ w.func = v.func /\ w.call = v.call
      BY <3>1 DEF VisitorType
    <3>4. w.tgts = v.tgts /\ w.again = v.again /\ w.visitedCallSites = v.visitedCallSites
      BY <3>1 DEF VisitorType
    <3>5. ~w.open
      BY <3>1 DEF VisitorType
    <3> HIDE DEF w
    <3> QED
      BY <3>2, <3>3, <3>4, <3>5
  <2>3. ASSUME AtBlock(w), s # v.scc PROVE 1 \in DOMAIN currSCC(w)
    <3>1. v.scc + 1 \in DOMAIN Order[v.func]
      BY <2>1, <2>2, <2>3 DEF AtBlock
    <3>2. Order[v.func][v.scc + 1] \in Seq(Block) /\ Order[v.func][v.scc + 1] # <<>>
      BY <1>1, <3>1
    <3>3. currSCC(w) = Order[v.func][v.scc + 1]
      BY <2>1, <2>2, <2>3 DEF currSCC
    <3> QED
      BY <3>2, <3>3
  <2>4. AtBlock(w) => w.blk \in DOMAIN currSCC(w)
    <3>1. CASE s = v.scc
      BY <3>1, <2>1, <2>2 DEF currSCC
    <3>2. CASE s # v.scc
      BY <3>2, <2>1, <2>2, <2>3
    <3> QED
      BY <3>1, <3>2
  <2> QED
    BY <2>2, <2>4
<1>5. CASE v.blk < Len(currSCC(v))
  <2>1. Advanced(v) = Moved(v.scc, v.pass, v.blk + 1)
    BY <1>5 DEF Advanced, VisitorType
  <2>2. v.blk + 1 \in DOMAIN currSCC(v) /\ v.blk + 1 \in Nat \ {0}
    BY <1>2, <1>3, <1>5
  <2> QED
    BY <1>3, <2>1, <2>2
<1>6. CASE ~(v.blk < Len(currSCC(v))) /\ v.pass < opt_num_to_analyze(currSCC(v))
  <2>1. Advanced(v) = Moved(v.scc, v.pass + 1, 1)
    BY <1>6 DEF Advanced, VisitorType
  <2>2. 1 \in DOMAIN currSCC(v) /\ v.pass + 1 \in Nat \ {0} /\ 1 \in Nat \ {0}
    BY <1>2, <1>3
  <2> QED
    BY <1>3, <2>1, <2>2
<1>7. CASE ~(v.blk < Len(currSCC(v))) /\ ~(v.pass < opt_num_to_analyze(currSCC(v)))
  <2>1. Advanced(v) = Moved(v.scc + 1, 1, 1)
    BY <1>7 DEF Advanced, VisitorType
  <2>2. v.scc + 1 \in Nat \ {0} /\ v.scc + 1 # v.scc /\ 1 \in Nat \ {0}
    BY <1>3
  <2> QED
    BY <2>1, <2>2
<1> QED
  BY <1>5, <1>6, <1>7

----------------------------------------------------------------------------
LEMMA InitInv == Init => IInv
<1> SUFFICES ASSUME Init PROVE IInv
  OBVIOUS
<1>1. stack = <<>> /\ DOMAIN stack = {} /\ Len(stack) = 0 /\ visits = <<>>
      /\ contexts = {} /\ dead = {}
  BY DEF Init
<1>2. TypeOK
  BY <1>1 DEF TypeOK
<1>3. ChainsSimple /\ Shape /\ Fresh /\ Closed
  BY <1>1 DEF ChainsSimple, Shape, Fresh, Closed, ClosedSet
<1> QED
  BY <1>2, <1>3 DEF IInv

LEMMA TopFacts ==
  ASSUME IInv, Running
  PROVE  /\ Len(stack) \in Nat \ {0} /\ Len(stack) \in DOMAIN stack
         /\ Top \in VisitorType
         /\ Top.ctx \in Ctx /\ Top.ctx \in contexts
         /\ Len(Top.ctx) = 2 * Len(stack) - 1
         /\ Top.tgts # {} => Top.call \in Top.visitedCallSites
         /\ FreshIn(contexts, Top)
         /\ AtBlock(Top) => Top.blk \in DOMAIN currSCC(Top)
         /\ Top.open => AtBlock(Top)
<1>1. stack \in Seq(VisitorType) /\ stack # <<>>
  BY DEF IInv, TypeOK, Running
<1>2. Len(stack) \in Nat \ {0} /\ Len(stack) \in DOMAIN stack
  BY <1>1
<1>3. Top \in VisitorType
  BY <1>1, <1>2 DEF Top
<1>4. Top.ctx \in Ctx
  BY <1>3 DEF VisitorType, Ctx
<1>5. /\ Top.ctx \in contexts /\ Len(Top.ctx) = 2 * Len(stack) - 1
      /\ Top.tgts # {} => Top.call \in Top.visitedCallSites
  BY <1>2 DEF IInv, Shape, Top
<1>6. FreshIn(contexts, Top)
  BY <1>2 DEF IInv, Fresh, Top
<1>7. AtBlock(Top) => Top.blk \in DOMAIN currSCC(Top)
  BY <1>2 DEF IInv, TypeOK, Top
<1>8. Top.open => AtBlock(Top)
  BY <1>2 DEF IInv, Shape, Top
<1> QED
  BY <1>2, <1>3, <1>4, <1>5, <1>6, <1>7, <1>8

(* A step of the visitor on top that stays in its context.                 *)
LEMMA TopStepMore ==
  ASSUME IInv, Running, SetTop(Top'), Len(stack') = Len(stack),
         Top' \in VisitorType, Top'.ctx = Top.ctx, Top'.func = Top.func,
         (AtBlock(Top) => Top.blk \in DOMAIN currSCC(Top))',
         contexts \subseteq contexts', contexts' \subseteq Ctx, ClosedSet(contexts'),
         \A n \in DOMAIN stack : n # Len(stack) => FreshIn(contexts', stack[n]),
         visits' \in Seq(Ctx \X Call \X (Func \cup Decl)), dead' \subseteq Ctx \X Block,
         Top'.tgts # {} => Top'.call \in Top'.visitedCallSites,
         (Top.open => AtBlock(Top))',
         FreshIn(contexts', Top')
  PROVE  IInv'
<1> DEFINE N == Len(stack)
<1>1. /\ N \in Nat \ {0} /\ DOMAIN stack = 1..N /\ DOMAIN stack' = 1..N
      /\ stack \in Seq(VisitorType) /\ stack' \in Seq(VisitorType)
  BY TopFacts DEF IInv, TypeOK, SetTop
<1>2. stack'[N] = Top' /\ \A n \in 1..N : n # N => stack'[n] = stack[n]
  <2>1. stack' = [stack EXCEPT ![N] = Top'] /\ N \in 1..N
    BY <1>1 DEF SetTop
  <2>2. stack'[N] = Top'
    BY <1>1, <2>1
  <2>3. ASSUME NEW n \in 1..N, n # N PROVE stack'[n] = stack[n]
    BY <1>1, <2>1, <2>3
  <2> QED
    BY <2>2, <2>3
<1>3. \A n \in 1..N : stack'[n].ctx = stack[n].ctx /\ stack'[n].func = stack[n].func
  BY <1>1, <1>2 DEF Top
<1>4. TypeOK'
  <2>1. \A n \in 1..(N - 1) : stack'[n + 1].ctx = CalleeCtx(stack'[n], stack'[n + 1].func)
    <3>1. \A n \in 1..(N - 1) : stack[n + 1].ctx = CalleeCtx(stack[n], stack[n + 1].func)
      BY DEF IInv, TypeOK
    <3>2. \A n \in 1..(N - 1) : n \in 1..N /\ n + 1 \in 1..N
      BY <1>1
    <3> QED
      BY <3>1, <3>2, <1>2, <1>3
  <2>2. \A n \in 1..N : (AtBlock(stack[n]) => stack[n].blk \in DOMAIN currSCC(stack[n]))'
    <3>1. \A n \in 1..N : AtBlock(stack[n]) => stack[n].blk \in DOMAIN currSCC(stack[n])
      BY <1>1 DEF IInv, TypeOK
    <3> SUFFICES ASSUME NEW n \in 1..N
                 PROVE  (AtBlock(stack[n]) => stack[n].blk \in DOMAIN currSCC(stack[n]))'
      OBVIOUS
    <3>2. CASE n = N
      BY <3>2, <1>1, <1>2
    <3>3. CASE n # N
      <4>1. stack'[n] = stack[n]
        BY <1>2, <3>3
      <4> QED
        BY <3>1, <4>1 DEF AtBlock, currSCC
    <3> QED
      BY <3>2, <3>3
  <2> QED
    BY <1>1, <2>1, <2>2 DEF TypeOK, Ctx
<1>5. ChainsSimple'
  BY <1>1, <1>3 DEF IInv, ChainsSimple
<1>6. Shape'
  <2> SUFFICES ASSUME NEW n \in 1..N
               PROVE  /\ Len(stack'[n].ctx) = 2 * n - 1
                      /\ stack'[n].ctx \in contexts'
                      /\ stack'[n].tgts # {} => stack'[n].call \in stack'[n].visitedCallSites
                      /\ (stack[n].open => AtBlock(stack[n]))'
    BY <1>1 DEF Shape
  <2>1. Len(stack'[n].ctx) = 2 * n - 1 /\ stack'[n].ctx \in contexts'
    BY <1>1, <1>3 DEF IInv, Shape
  <2>2. stack'[n].tgts # {} => stack'[n].call \in stack'[n].visitedCallSites
    BY <1>1, <1>2 DEF IInv, Shape
  <2>3. CASE n = N
    BY <2>1, <2>2, <2>3, <1>2
  <2>4. CASE n # N
    <3>1. stack'[n] = stack[n]
      BY <1>2, <2>4
    <3>2. stack[n].open => AtBlock(stack[n])
      BY <1>1 DEF IInv, Shape
    <3>3. (stack[n].open => AtBlock(stack[n]))'
      BY <3>1, <3>2 DEF AtBlock
    <3> QED
      BY <2>1, <2>2, <3>3
  <2> QED
    BY <2>3, <2>4
<1>7. Fresh'
  <2> SUFFICES ASSUME NEW n \in 1..N PROVE FreshIn(contexts', stack'[n])
    BY <1>1 DEF Fresh
  <2>1. CASE n = N
    BY <2>1, <1>2
  <2>2. CASE n # N
    <3>1. stack'[n] = stack[n]
      BY <1>2, <2>2
    <3> QED
      BY <2>2, <3>1, <1>1
  <2> QED
    BY <2>1, <2>2
<1>8. Closed'
  BY DEF Closed
<1> QED
  BY <1>4, <1>5, <1>6, <1>7, <1>8 DEF IInv

LEMMA TopStep ==
  ASSUME IInv, Running, SetTop(Top'), Len(stack') = Len(stack),
         Top' \in VisitorType, Top'.ctx = Top.ctx, Top'.func = Top.func,
         (AtBlock(Top) => Top.blk \in DOMAIN currSCC(Top))',
         contexts' = contexts, visits' = visits, dead' \subseteq Ctx \X Block,
         Top'.tgts # {} => Top'.call \in Top'.visitedCallSites,
         (Top.open => AtBlock(Top))',
         FreshIn(contexts, Top')
  PROVE  IInv'
<1>1. contexts \subseteq contexts' /\ contexts' \subseteq Ctx /\ ClosedSet(contexts')
  BY DEF IInv, TypeOK, Closed, Ctx
<1>2. \A n \in DOMAIN stack : n # Len(stack) => FreshIn(contexts', stack[n])
  BY DEF IInv, Fresh
<1>3. visits' \in Seq(Ctx \X Call \X (Func \cup Decl))
  BY DEF IInv, TypeOK, Ctx
<1>4. FreshIn(contexts', Top')
  OBVIOUS
<1> QED
  BY <1>1, <1>2, <1>3, <1>4, TopStepMore

----------------------------------------------------------------------------
(* What SetTop leaves behind.                                              *)
LEMMA SetTopValue ==
  ASSUME IInv, Running
  PROVE  \A w : SetTop(w) => Len(stack') = Len(stack) /\ Top' = w
<1>1. stack \in Seq(VisitorType) /\ Len(stack) \in DOMAIN stack
  BY TopFacts DEF IInv, TypeOK
<1> QED
  BY <1>1 DEF SetTop, Top

LEMMA VisitBlockInv == IInv /\ visitBlock => IInv'
<1> SUFFICES ASSUME IInv, visitBlock PROVE IInv'
  OBVIOUS
<1>1. Running /\ AtBlock(Top) /\ ~Top.open /\ UNCHANGED <<contexts, dead, visits>>
  BY DEF visitBlock
<1>2. dead' \subseteq Ctx \X Block
  BY <1>1 DEF IInv, TypeOK, Ctx
<1> DEFINE opened == [Top EXCEPT !.open = TRUE, !.calls = Calls[currBB(Top)]]
<1>3. CASE isDeadBB(Top.ctx, currBB(Top))
  <2>1. SetTop(Advanced(Top))
    BY <1>3 DEF visitBlock
  <2>2. Top' = Advanced(Top) /\ Len(stack') = Len(stack) /\ SetTop(Top')
    BY <1>1, <2>1, SetTopValue
  <2>3. /\ Top' \in VisitorType
        /\ (AtBlock(Top) => Top.blk \in DOMAIN currSCC(Top))'
        /\ Top'.ctx = Top.ctx /\ Top'.func = Top.func
        /\ Top'.call = Top.call /\ Top'.tgts = Top.tgts /\ Top'.again = Top.again
        /\ Top'.visitedCallSites = Top.visitedCallSites
        /\ ~Top'.open
    BY <1>1, <2>2, TopFacts, AdvancedType DEF AtBlock, currSCC
  <2>4. FreshIn(contexts, Top')
    BY <1>1, <2>3, TopFacts DEF FreshIn
  <2> QED
    BY <1>1, <1>2, <2>2, <2>3, <2>4, TopFacts, TopStep
<1>4. CASE ~isDeadBB(Top.ctx, currBB(Top))
  <2>1. SetTop(opened)
    BY <1>4 DEF visitBlock
  <2>2. Top' = opened /\ Len(stack') = Len(stack) /\ SetTop(Top')
    BY <1>1, <2>1, SetTopValue
  <2>3. Top \in VisitorType /\ Top.scc \in DOMAIN Order[Top.func] /\ Top.blk \in DOMAIN currSCC(Top)
    BY <1>1, TopFacts DEF AtBlock
  <2>4. Calls[currBB(Top)] \in Seq(Call)
    <3>1. Order[Top.func] \in Seq(Seq(Block) \ {<<>>})
      BY <2>3, TraversalAssumption DEF TraversalAssumption, VisitorType
    <3>2. currSCC(Top) \in Seq(Block)
      BY <2>3, <3>1 DEF currSCC
    <3> QED
      BY <2>3, <3>2, TraversalAssumption DEF currBB, TraversalAssumption
  <2>5. opened \in VisitorType
    BY <2>3, <2>4 DEF VisitorType
  <2>6. /\ opened.ctx = Top.ctx /\ opened.func = Top.func /\ opened.scc = Top.scc
        /\ opened.blk = Top.blk /\ opened.call = Top.call /\ opened.tgts = Top.tgts
    BY <2>3 DEF VisitorType
  <2>7. opened.again = Top.again /\ opened.visitedCallSites = Top.visitedCallSites
    BY <2>3 DEF VisitorType
  <2>8. (AtBlock(Top) /\ Top.blk \in DOMAIN currSCC(Top))'
    BY <2>2, <2>3, <2>6 DEF AtBlock, currSCC
  <2>9. FreshIn(contexts, Top')
    BY <1>1, <2>2, <2>6, <2>7, TopFacts DEF FreshIn
  <2> HIDE DEF opened
  <2> QED
    BY <1>1, <1>2, <2>2, <2>5, <2>6, <2>7, <2>8, <2>9, TopFacts, TopStep
<1> QED
  BY <1>3, <1>4

LEMMA VisitBranchInv == IInv /\ visitBranch => IInv'
<1> SUFFICES ASSUME IInv, visitBranch PROVE IInv'
  OBVIOUS
<1>1. /\ Running /\ AtBlock(Top) /\ SetTop(Advanced(Top))
      /\ UNCHANGED <<contexts, visits>>
  BY TopFacts DEF visitBranch
<1>2. PICK here \in SUBSET MayKill[currBB(Top)], anywhere \in SUBSET MayKill[currBB(Top)] :
        dead' = dead \cup ({Top.ctx} \X here) \cup ({AnyCtx} \X anywhere)
  BY DEF visitBranch
<1>3. dead' \subseteq Ctx \X Block
  <2>1. MayKill[currBB(Top)] \subseteq Block
    <3>1. Order[Top.func] \in Seq(Seq(Block) \ {<<>>}) /\ Top.scc \in DOMAIN Order[Top.func]
      BY <1>1, TopFacts, TraversalAssumption DEF TraversalAssumption, VisitorType, AtBlock
    <3>2. currSCC(Top) \in Seq(Block) /\ Top.blk \in DOMAIN currSCC(Top)
      BY <1>1, <3>1, TopFacts DEF currSCC
    <3> QED
      BY <3>2, TraversalAssumption DEF currBB, TraversalAssumption
  <2>2. Top.ctx \in Ctx /\ AnyCtx \in Ctx
    BY <1>1, TopFacts DEF AnyCtx, Ctx
  <2>3. dead \subseteq Ctx \X Block
    BY DEF IInv, TypeOK, Ctx
  <2> QED
    BY <1>2, <2>1, <2>2, <2>3
<1>4. Top' = Advanced(Top) /\ Len(stack') = Len(stack) /\ SetTop(Top')
  BY <1>1, SetTopValue
<1>5. /\ Top' \in VisitorType
      /\ (AtBlock(Top) => Top.blk \in DOMAIN currSCC(Top))'
      /\ Top'.ctx = Top.ctx /\ Top'.func = Top.func
      /\ Top'.call = Top.call /\ Top'.tgts = Top.tgts /\ Top'.again = Top.again
      /\ Top'.visitedCallSites = Top.visitedCallSites
      /\ ~Top'.open
  BY <1>1, <1>4, TopFacts, AdvancedType DEF AtBlock, currSCC
<1>6. FreshIn(contexts, Top')
  BY <1>1, <1>5, TopFacts DEF FreshIn
<1> QED
  BY <1>1, <1>3, <1>4, <1>5, <1>6, TopFacts, TopStep

LEMMA VisitCallInstInv == IInv /\ visitCallInst => IInv'
<1> SUFFICES ASSUME IInv, visitCallInst PROVE IInv'
  OBVIOUS
<1> DEFINE i == Head(Top.calls)
<1>1. /\ Running /\ AtBlock(Top) /\ Top.calls # <<>> /\ Top.tgts = {}
      /\ UNCHANGED <<contexts, dead, visits>>
  BY TopFacts DEF visitCallInst
<1>2. Top \in VisitorType /\ i \in Call /\ Tail(Top.calls) \in Seq(Call)
  BY <1>1, TopFacts DEF VisitorType
<1>3. dead' \subseteq Ctx \X Block
  BY <1>1 DEF IInv, TypeOK, Ctx
<1> DEFINE skipped == [Top EXCEPT !.calls = Tail(@)]
<1>4. CASE SetTop(skipped)
  <2>1. Top' = skipped /\ Len(stack') = Len(stack) /\ SetTop(Top')
    BY <1>1, <1>4, SetTopValue
  <2>2. skipped \in VisitorType
    BY <1>2 DEF VisitorType
  <2>3. /\ skipped.ctx = Top.ctx /\ skipped.func = Top.func /\ skipped.scc = Top.scc
        /\ skipped.blk = Top.blk /\ skipped.call = Top.call /\ skipped.tgts = Top.tgts
    BY <1>2 DEF VisitorType
  <2>4. skipped.again = Top.again /\ skipped.visitedCallSites = Top.visitedCallSites
    BY <1>2 DEF VisitorType
  <2>5. (AtBlock(Top) /\ Top.blk \in DOMAIN currSCC(Top))'
    BY <1>1, <2>1, <2>3, TopFacts DEF AtBlock, currSCC
  <2>6. FreshIn(contexts, Top')
    BY <1>1, <2>1, <2>3, <2>4, TopFacts DEF FreshIn
  <2> HIDE DEF skipped
  <2> QED
    BY <1>1, <1>3, <2>1, <2>2, <2>3, <2>4, <2>5, <2>6, TopFacts, TopStep
<1>5. ASSUME NEW T \in CallTargets(i),
             SetTop([Top EXCEPT !.calls = Tail(@), !.call = i, !.tgts = T,
                                !.again = i \in Top.visitedCallSites,
                                !.visitedCallSites = @ \cup {i}])
      PROVE  IInv'
  <2> DEFINE a == i \in Top.visitedCallSites
             w == [Top EXCEPT !.calls = Tail(@), !.call = i, !.tgts = T,
                              !.again = a, !.visitedCallSites = @ \cup {i}]
  <2>1. T \in SUBSET (Func \cup Decl)
    <3>1. Callees[i] \in SUBSET (Func \cup Decl)
      BY <1>2, TraversalAssumption DEF TraversalAssumption
    <3> QED
      BY <3>1 DEF CallTargets, kSubset
  <2>2. Top' = w /\ Len(stack') = Len(stack) /\ SetTop(Top')
    BY <1>1, <1>5, SetTopValue
  <2>3. a \in BOOLEAN
    OBVIOUS
  <2>4. w.visitedCallSites = Top.visitedCallSites \cup {i}
    BY <1>2 DEF VisitorType
  <2>5. w.again = a
    BY <1>2 DEF VisitorType
  <2>6. /\ w.ctx = Top.ctx /\ w.func = Top.func /\ w.scc = Top.scc
        /\ w.blk = Top.blk /\ w.call = i /\ w.tgts = T
    BY <1>2 DEF VisitorType
  <2>7. w \in VisitorType
    <3> HIDE DEF a
    <3> QED
      BY <1>2, <2>1, <2>3 DEF VisitorType
  <2>8. (AtBlock(Top) /\ Top.blk \in DOMAIN currSCC(Top))'
    BY <1>1, <2>2, <2>6, TopFacts DEF AtBlock, currSCC
  <2>9. FreshIn(contexts, Top')
    <3>1. FreshIn(contexts, Top)
      BY <1>1, TopFacts
    <3> QED
      BY <2>2, <2>4, <2>5, <2>6, <3>1 DEF FreshIn
  <2>10. w.tgts # {} => w.call \in w.visitedCallSites
    BY <2>4, <2>6
  <2> HIDE DEF w
  <2> QED
    BY <1>1, <1>3, <2>2, <2>6, <2>7, <2>8, <2>9, <2>10, TopStep
<1> QED
  BY <1>4, <1>5 DEF visitCallInst

LEMMA SkipTargetInv == ASSUME IInv, NEW f \in Func \cup Decl, skipTarget(f) PROVE IInv'
<1> DEFINE w == [Top EXCEPT !.tgts = @ \ {f}]
<1>1. Running /\ f \in Top.tgts /\ SetTop(w) /\ UNCHANGED <<contexts, dead, visits>>
  BY DEF skipTarget
<1>2. Top \in VisitorType
  BY <1>1, TopFacts
<1>3. Top' = w /\ Len(stack') = Len(stack) /\ SetTop(Top')
  BY <1>1, SetTopValue
<1>4. w \in VisitorType
  BY <1>2 DEF VisitorType
<1>5. /\ w.ctx = Top.ctx /\ w.func = Top.func /\ w.scc = Top.scc
      /\ w.blk = Top.blk /\ w.call = Top.call /\ w.tgts = Top.tgts \ {f}
      /\ w.open = Top.open
  BY <1>2 DEF VisitorType
<1>6. w.again = Top.again /\ w.visitedCallSites = Top.visitedCallSites
  BY <1>2 DEF VisitorType
<1>7. (AtBlock(Top) => Top.blk \in DOMAIN currSCC(Top))' /\ (Top.open => AtBlock(Top))'
  BY <1>1, <1>3, <1>5, TopFacts DEF AtBlock, currSCC
<1>8. FreshIn(contexts, Top')
  BY <1>1, <1>3, <1>5, <1>6, TopFacts DEF FreshIn
<1>9. dead' \subseteq Ctx \X Block
  BY <1>1 DEF IInv, TypeOK, Ctx
<1>10. w.tgts # {} => w.call \in w.visitedCallSites
  BY <1>1, <1>5, <1>6, TopFacts
<1> HIDE DEF w
<1> QED
  BY <1>1, <1>3, <1>4, <1>5, <1>7, <1>8, <1>9, <1>10, TopStep

LEMMA ReturnInv == IInv /\ return => IInv'
<1> SUFFICES ASSUME IInv, return PROVE IInv'
  OBVIOUS
<1> DEFINE N == Len(stack)
<1>1. /\ Running /\ stack' = SubSeq(stack, 1, N - 1)
      /\ contexts' = contexts /\ dead' = dead /\ visits' = visits
  BY DEF return
<1>2. stack \in Seq(VisitorType) /\ N \in Nat \ {0}
  BY <1>1, TopFacts DEF IInv, TypeOK
<1>3. /\ stack' \in Seq(VisitorType) /\ Len(stack') = N - 1 /\ DOMAIN stack' = 1..(N - 1)
      /\ \A n \in 1..(N - 1) : stack'[n] = stack[n] /\ n \in DOMAIN stack
  <2>1. \A n \in 1..(N - 1) : stack[n] \in VisitorType
    BY <1>2
  <2>2. /\ stack' \in Seq(VisitorType)
        /\ Len(stack') = IF 1 <= N - 1 THEN N - 1 - 1 + 1 ELSE 0
        /\ \A n \in 1..(N - 1 - 1 + 1) : stack'[n] = stack[1 + n - 1]
    BY <1>1, <1>2, <2>1, SubSeqProperties
  <2>3. Len(stack') = N - 1
    <3> HIDE DEF N
    <3> QED
      BY <1>2, <2>2
  <2>4. DOMAIN stack' = 1..(N - 1)
    BY <2>2, <2>3
  <2>5. ASSUME NEW n \in 1..(N - 1)
        PROVE  stack'[n] = stack[n] /\ n \in DOMAIN stack
    <3>1. n \in 1..(N - 1 - 1 + 1) /\ 1 + n - 1 = n /\ n \in 1..N
      BY <1>2
    <3> QED
      BY <1>2, <2>2, <3>1
  <2> QED
    BY <2>2, <2>3, <2>4, <2>5
<1>4. TypeOK'
  <2>1. \A n \in 1..(N - 1) : (AtBlock(stack[n]) => stack[n].blk \in DOMAIN currSCC(stack[n]))'
    BY <1>3 DEF IInv, TypeOK, AtBlock, currSCC
  <2>2. \A n \in 1..(N - 2) : stack'[n + 1].ctx = CalleeCtx(stack'[n], stack'[n + 1].func)
    <3> SUFFICES ASSUME NEW n \in 1..(N - 2)
                 PROVE  stack'[n + 1].ctx = CalleeCtx(stack'[n], stack'[n + 1].func)
      OBVIOUS
    <3>1. n \in 1..(N - 1) /\ n + 1 \in 1..(N - 1)
      BY <1>2
    <3>2. stack'[n] = stack[n] /\ stack'[n + 1] = stack[n + 1]
      BY <1>3, <3>1
    <3>3. stack[n + 1].ctx = CalleeCtx(stack[n], stack[n + 1].func)
      BY <3>1 DEF IInv, TypeOK
    <3> QED
      BY <3>2, <3>3
  <2>3. Len(stack') - 1 = N - 2
    BY <1>2, <1>3
  <2> QED
    BY <1>1, <1>3, <2>1, <2>2, <2>3 DEF IInv, TypeOK
<1>5. ChainsSimple'
  BY <1>3 DEF IInv, ChainsSimple
<1>6. Shape'
  BY <1>1, <1>3 DEF IInv, Shape, AtBlock
<1>7. Fresh'
  BY <1>1, <1>3 DEF IInv, Fresh
<1>8. Closed'
  BY <1>1 DEF IInv, Closed
<1> QED
  BY <1>4, <1>5, <1>6, <1>7, <1>8 DEF IInv

LEMMA EnterInv == ASSUME IInv, NEW f \in Entries, enter(f) PROVE IInv'
<1> DEFINE c == <<f>>
           v == Visitor(c, f)
<1>1. /\ c \notin contexts /\ stack' = <<v>>
      /\ contexts' = contexts \cup {c} /\ dead' = dead /\ visits' = visits
  BY DEF enter
<1>2. f \in Func /\ c \in Ctx /\ c # <<>> /\ Len(c) = 1
  BY TraversalAssumption DEF TraversalAssumption, Ctx
<1>3. v \in VisitorType /\ (AtBlock(v) => v.blk \in DOMAIN currSCC(v))
  BY <1>2, NewVisitor
<1>4. v.ctx = c /\ v.tgts = {} /\ v.open = FALSE /\ v.visitedCallSites = {}
  BY DEF Visitor
<1> HIDE DEF v
<1>5. DOMAIN stack' = {1} /\ Len(stack') = 1 /\ stack'[1] = v /\ stack' \in Seq(VisitorType)
  BY <1>1, <1>3
<1>6. \A d \in Ctx, i \in Call, e \in Func : d \o <<i, e>> # c
  <2> SUFFICES ASSUME NEW d \in Ctx, NEW i \in Call, NEW e \in Func PROVE d \o <<i, e>> # c
    OBVIOUS
  <2>1. Len(d \o <<i, e>>) = Len(d) + 2 /\ Len(d) \in Nat
    BY PairSeq DEF Ctx
  <2> QED
    BY <1>2, <2>1
<1>7. TypeOK'
  <2>1. contexts' \subseteq Ctx
    BY <1>1, <1>2 DEF IInv, TypeOK, Ctx
  <2>2. (AtBlock(stack[1]) => stack[1].blk \in DOMAIN currSCC(stack[1]))'
    BY <1>3, <1>5 DEF AtBlock, currSCC
  <2> QED
    BY <1>1, <1>5, <2>1, <2>2 DEF IInv, TypeOK, Ctx
<1>8. ChainsSimple'
  <2>1. \A i, j \in DOMAIN c : i = j
    OBVIOUS
  <2>2. 1 <= 2 * MAX_CALLSITE_DEPTH + 1
    BY TraversalAssumption DEF TraversalAssumption
  <2> QED
    BY <1>2, <1>4, <1>5, <2>1, <2>2 DEF ChainsSimple
<1>9. Shape'
  <2>1. Len(v.ctx) = 2 * 1 - 1 /\ v.ctx \in contexts'
    BY <1>1, <1>2, <1>4
  <2>2. \A n \in DOMAIN stack' : n = 1 /\ stack'[n] = v
    BY <1>5
  <2> QED
    BY <1>4, <2>1, <2>2 DEF Shape
<1>10. Closed'
  <2> SUFFICES ASSUME NEW d \in Ctx \ {<<>>}, NEW i \in Call, NEW e \in Func,
                      d \o <<i, e>> \in contexts'
               PROVE  d \in contexts'
    BY DEF Closed, ClosedSet
  <2>1. d \o <<i, e>> \in contexts
    BY <1>1, <1>6
  <2> QED
    BY <1>1, <2>1 DEF IInv, Closed, ClosedSet
<1>11. Fresh'
  <2> SUFFICES ASSUME NEW i \in Call, NEW e \in Func, c \o <<i, e>> \in contexts' PROVE FALSE
    BY <1>4, <1>5 DEF Fresh, FreshIn
  <2>1. c \o <<i, e>> \in contexts
    BY <1>1, <1>2, <1>6
  <2> QED
    BY <1>1, <1>2, <2>1 DEF IInv, Closed, ClosedSet
<1> QED
  BY <1>7, <1>8, <1>9, <1>10, <1>11 DEF IInv

----------------------------------------------------------------------------
(* What processCalledFunction finds and does.                              *)
LEMMA CallFacts ==
  ASSUME IInv, NEW f \in Func \cup Decl, processCalledFunction(f)
  PROVE  /\ Running
         /\ Top.call \in Call /\ Top.call \in Top.visitedCallSites
         /\ f \in Top.tgts /\ ~Skipped(Top, f)
         /\ CalleeCtx(Top, f) \in Ctx
         /\ Len(CalleeCtx(Top, f)) = 2 * Len(stack) + 1
         /\ visits' \in Seq(Ctx \X Call \X (Func \cup Decl))
         /\ contexts' = contexts \cup {CalleeCtx(Top, f)} /\ contexts' \subseteq Ctx
         /\ dead' = dead
<1>1. /\ Running /\ f \in Top.tgts /\ ~Skipped(Top, f)
      /\ contexts' = contexts \cup {CalleeCtx(Top, f)} /\ dead' = dead
      /\ visits' = Append(visits, <<Top.ctx, Top.call, f>>)
  BY DEF processCalledFunction
<1>2. Top.call \in Call /\ Top.call \in Top.visitedCallSites
  BY <1>1, TopFacts DEF VisitorType
<1>3. /\ CalleeCtx(Top, f) \in Ctx
      /\ Len(CalleeCtx(Top, f)) = 2 * Len(stack) + 1
  <2> DEFINE q == IF f \in Func THEN f ELSE Top.call
  <2>1. q \in Func \cup Call /\ Top.call \in Func \cup Call /\ Top.ctx \in Seq(Func \cup Call)
    BY <1>1, <1>2, TopFacts DEF Ctx
  <2>2. CalleeCtx(Top, f) = Top.ctx \o <<Top.call, q>>
    BY DEF CalleeCtx
  <2> HIDE DEF q
  <2>3. CalleeCtx(Top, f) \in Ctx /\ Len(CalleeCtx(Top, f)) = Len(Top.ctx) + 2
    BY <2>1, <2>2, PairSeq DEF Ctx
  <2>4. Len(Top.ctx) = 2 * Len(stack) - 1 /\ Len(stack) \in Nat
    BY <1>1, TopFacts
  <2>5. Len(Top.ctx) + 2 = 2 * Len(stack) + 1
    BY <2>4
  <2> QED
    BY <2>3, <2>5
<1>4. visits' \in Seq(Ctx \X Call \X (Func \cup Decl))
  <2>1. <<Top.ctx, Top.call, f>> \in Ctx \X Call \X (Func \cup Decl)
    BY <1>1, <1>2, TopFacts
  <2>2. visits \in Seq(Ctx \X Call \X (Func \cup Decl))
    BY DEF IInv, TypeOK, Ctx
  <2> QED
    BY <1>1, <2>1, <2>2
<1>5. contexts' \subseteq Ctx
  BY <1>1, <1>3 DEF IInv, TypeOK, Ctx
<1> QED
  BY <1>1, <1>2, <1>3, <1>4, <1>5, TopFacts

(* A function with a body is entered in a new context.                     *)
LEMMA CalleeIsNew ==
  ASSUME IInv, NEW f \in Func, processCalledFunction(f)
  PROVE  /\ CalleeCtx(Top, f) = Top.ctx \o <<Top.call, f>>
         /\ ~Top.again
         /\ CalleeCtx(Top, f) \notin contexts
<1>1. CalleeCtx(Top, f) = Top.ctx \o <<Top.call, f>>
  BY DEF CalleeCtx
<1>2. /\ ~Top.again /\ Running /\ f \in Top.tgts /\ Top.call \in Call
  <2>1. f \in Func \cup Decl
    OBVIOUS
  <2> QED
    BY <2>1, CallFacts DEF Skipped
<1>3. ASSUME Top.ctx \o <<Top.call, f>> \in contexts PROVE FALSE
  <2>1. FreshIn(contexts, Top)
    BY <1>2, TopFacts
  <2>2. Top.call = Top.call /\ ~Top.again => f \notin Top.tgts
    BY <1>2, <1>3, <2>1 DEF FreshIn
  <2> QED
    BY <1>2, <2>2
<1> QED
  BY <1>1, <1>2, <1>3

LEMMA CallDeclInv ==
  ASSUME IInv, NEW f \in Func \cup Decl, f \notin Func, processCalledFunction(f)
  PROVE  IInv' /\ Len(stack') = Len(stack)
<1> DEFINE w == [Top EXCEPT !.tgts = @ \ {f}]
           c == CalleeCtx(Top, f)
<1>1. Running /\ SetTop(w) /\ c = Top.ctx \o <<Top.call, Top.call>>
  BY DEF processCalledFunction, SetTop, CalleeCtx
<1>2. Top \in VisitorType
  BY <1>1, TopFacts
<1>3. Top' = w /\ Len(stack') = Len(stack) /\ SetTop(Top')
  BY <1>1, SetTopValue
<1>4. w \in VisitorType
  BY <1>2 DEF VisitorType
<1>5. /\ w.ctx = Top.ctx /\ w.func = Top.func /\ w.scc = Top.scc
      /\ w.blk = Top.blk /\ w.call = Top.call /\ w.tgts = Top.tgts \ {f}
      /\ w.open = Top.open
  BY <1>2 DEF VisitorType
<1>6. w.again = Top.again /\ w.visitedCallSites = Top.visitedCallSites
  BY <1>2 DEF VisitorType
<1> HIDE DEF w
<1>7. (AtBlock(Top) => Top.blk \in DOMAIN currSCC(Top))' /\ (Top.open => AtBlock(Top))'
  BY <1>1, <1>3, <1>5, TopFacts DEF AtBlock, currSCC
<1>8. \A d \in Ctx, i \in Call, e \in Func : d \o <<i, e>> # c
  <2>1. Top.ctx \in Ctx /\ Top.call \in Call
    BY <1>1, TopFacts, CallFacts
  <2> QED
    BY <1>1, <2>1, DeclCtx
<1>9. ASSUME NEW v \in VisitorType, FreshIn(contexts, v) PROVE FreshIn(contexts', v)
  <2> SUFFICES ASSUME NEW i \in Call, NEW e \in Func, v.ctx \o <<i, e>> \in contexts'
               PROVE  i \in v.visitedCallSites /\ (i = v.call /\ ~v.again => e \notin v.tgts)
    BY DEF FreshIn
  <2>1. v.ctx \in Ctx
    BY DEF VisitorType, Ctx
  <2>2. v.ctx \o <<i, e>> \in contexts
    <3>1. contexts' = contexts \cup {c}
      BY CallFacts
    <3>2. v.ctx \o <<i, e>> # c
      BY <1>8, <2>1
    <3> QED
      BY <3>1, <3>2
  <2> QED
    BY <1>9, <2>2 DEF FreshIn
<1>10. FreshIn(contexts', Top')
  <2>1. FreshIn(contexts, w)
    BY <1>1, <1>5, <1>6, TopFacts DEF FreshIn
  <2> QED
    BY <1>3, <1>4, <1>9, <2>1
<1>11. \A n \in DOMAIN stack : n # Len(stack) => FreshIn(contexts', stack[n])
  BY <1>9 DEF IInv, TypeOK, Fresh
<1>12. ClosedSet(contexts')
  <2> SUFFICES ASSUME NEW d \in Ctx \ {<<>>}, NEW i \in Call, NEW e \in Func,
                      d \o <<i, e>> \in contexts'
               PROVE  d \in contexts'
    BY DEF ClosedSet
  <2>1. d \o <<i, e>> \in contexts
    <3>1. contexts' = contexts \cup {c}
      BY CallFacts
    <3>2. d \o <<i, e>> # c
      BY <1>8
    <3> QED
      BY <3>1, <3>2
  <2> QED
    BY <2>1, CallFacts DEF IInv, Closed, ClosedSet
<1>13. dead' \subseteq Ctx \X Block /\ contexts \subseteq contexts'
  BY CallFacts DEF IInv, TypeOK, Ctx
<1>14. w.tgts # {} => w.call \in w.visitedCallSites
  BY <1>1, <1>5, <1>6, TopFacts
<1> QED
  BY <1>1, <1>3, <1>4, <1>5, <1>7, <1>10, <1>11, <1>12, <1>13, <1>14, CallFacts, TopStepMore

(* A visitor is put on top for a function with a body.                     *)
LEMMA CallFuncInv ==
  ASSUME IInv, NEW f \in Func, processCalledFunction(f)
  PROVE  IInv'
<1> DEFINE N == Len(stack)
           w == [Top EXCEPT !.tgts = @ \ {f}]
           c == CalleeCtx(Top, f)
           u == Visitor(c, f)
<1>1. /\ Running /\ Top.call \in Call /\ Top.call \in Top.visitedCallSites
      /\ f \in Top.tgts /\ ~Skipped(Top, f)
      /\ c \in Ctx /\ Len(c) = 2 * N + 1
      /\ visits' \in Seq(Ctx \X Call \X (Func \cup Decl))
      /\ contexts' = contexts \cup {c} /\ contexts' \subseteq Ctx
      /\ dead' = dead
  <2>1. f \in Func \cup Decl
    OBVIOUS
  <2> QED
    BY <2>1, CallFacts
<1>2. c = Top.ctx \o <<Top.call, f>> /\ ~Top.again /\ c \notin contexts
  BY CalleeIsNew
<1>3. /\ N \in Nat \ {0} /\ stack \in Seq(VisitorType) /\ DOMAIN stack = 1..N
      /\ Top \in VisitorType /\ Top.ctx \in Ctx /\ Top.ctx \in contexts
      /\ Len(Top.ctx) = 2 * N - 1 /\ Top = stack[N]
  BY <1>1, TopFacts DEF IInv, TypeOK, Top
<1>4. stack' = Append([stack EXCEPT ![N] = w], u)
  BY DEF processCalledFunction
<1>5. w \in VisitorType
  BY <1>3 DEF VisitorType
<1>6. /\ w.ctx = Top.ctx /\ w.func = Top.func /\ w.scc = Top.scc
      /\ w.blk = Top.blk /\ w.call = Top.call /\ w.tgts = Top.tgts \ {f}
      /\ w.open = Top.open
  BY <1>3 DEF VisitorType
<1>7. w.again = Top.again /\ w.visitedCallSites = Top.visitedCallSites
  BY <1>3 DEF VisitorType
<1>8. u \in VisitorType /\ (AtBlock(u) => u.blk \in DOMAIN currSCC(u))
  BY <1>1, NewVisitor
<1>9. u.ctx = c /\ u.func = f /\ u.tgts = {} /\ u.open = FALSE
  BY DEF Visitor
<1> HIDE DEF w, u, c, N
(* Which callees' contexts the new one is.                                 *)
<1>10. ASSUME NEW d \in Ctx, NEW i \in Call, NEW e \in Func, d \o <<i, e>> = c
       PROVE  d = Top.ctx /\ i = Top.call /\ e = f
  <2> DEFINE t == Top.ctx
             k == Top.call
             S == Func \cup Call
  <2>1. t \in Ctx /\ k \in Call /\ d \o <<i, e>> = t \o <<k, f>>
    BY <1>1, <1>2, <1>3, <1>10
  <2>2. d \in Seq(S) /\ t \in Seq(S) /\ i \in S /\ e \in S /\ k \in S /\ f \in S
    BY <2>1 DEF Ctx
  <2> HIDE DEF t, k, S
  <2>3. Len(d) = Len(t)
    BY <2>1, <2>2, PairSeq
  <2>4. \A n \in 1..Len(d) : d[n] = t[n]
    BY <2>1, <2>2, <2>3, PairSeq
  <2>5. i = k /\ e = f
    BY <2>1, <2>2, <2>3, PairSeq
  <2>6. d = t
    BY <2>2, <2>3, <2>4
  <2> QED
    BY <2>5, <2>6 DEF t, k
<1>11. /\ stack' \in Seq(VisitorType) /\ Len(stack') = N + 1
       /\ stack'[N + 1] = u /\ stack'[N] = w
       /\ \A n \in 1..N : n # N => stack'[n] = stack[n]
  <2> DEFINE rest == [stack EXCEPT ![N] = w]
  <2>1. rest \in Seq(VisitorType) /\ Len(rest) = N
    BY <1>3, <1>5 DEF N
  <2>2. rest[N] = w
    BY <1>3
  <2>3. \A n \in 1..N : n # N => rest[n] = stack[n]
    BY <1>3
  <2> HIDE DEF rest
  <2>4. stack' = Append(rest, u)
    BY <1>4 DEF rest
  <2>5. /\ stack' \in Seq(VisitorType) /\ Len(stack') = N + 1 /\ stack'[N + 1] = u
        /\ \A n \in 1..N : stack'[n] = rest[n]
    BY <1>3, <1>8, <2>1, <2>4
  <2> QED
    BY <1>3, <2>2, <2>3, <2>5
<1>12. \A n \in DOMAIN stack' : n = N + 1 \/ (n \in 1..N /\ (n = N \/ n # N))
  BY <1>3, <1>11
<1>13. \A n \in 1..N : stack'[n].ctx = stack[n].ctx /\ stack'[n].func = stack[n].func
  BY <1>3, <1>6, <1>11
<1>14. TypeOK'
  <2>1. ASSUME NEW n \in DOMAIN stack'
        PROVE  (AtBlock(stack[n]) => stack[n].blk \in DOMAIN currSCC(stack[n]))'
    <3>1. CASE n = N + 1
      BY <1>8, <1>11, <3>1 DEF AtBlock, currSCC
    <3>2. CASE n = N
      BY <1>1, <1>6, <1>11, <3>2, TopFacts DEF AtBlock, currSCC
    <3>3. CASE n \in 1..N /\ n # N
      BY <1>3, <1>11, <3>3 DEF IInv, TypeOK, AtBlock, currSCC
    <3> QED
      BY <1>12, <2>1, <3>1, <3>2, <3>3
  <2>2. ASSUME NEW n \in 1..N
        PROVE  stack'[n + 1].ctx = CalleeCtx(stack'[n], stack'[n + 1].func)
    <3>1. CASE n = N
      BY <1>6, <1>9, <1>11, <3>1 DEF CalleeCtx, c
    <3>2. CASE n # N
      <4>1. n + 1 \in 1..N /\ n \in 1..(N - 1)
        BY <1>3, <3>2
      <4>2. stack[n + 1].ctx = CalleeCtx(stack[n], stack[n + 1].func)
        BY <4>1 DEF IInv, TypeOK, N
      <4>3. stack'[n] = stack[n] /\ stack'[n + 1].ctx = stack[n + 1].ctx
            /\ stack'[n + 1].func = stack[n + 1].func
        BY <1>11, <1>13, <3>2, <4>1
      <4> QED
        BY <4>2, <4>3
    <3> QED
      BY <3>1, <3>2
  <2>3. 1..(Len(stack') - 1) = 1..N
    BY <1>3, <1>11
  <2>4. contexts' \subseteq Seq(Func \cup Call) /\ dead' \subseteq Seq(Func \cup Call) \X Block
        /\ visits' \in Seq(Seq(Func \cup Call) \X Call \X (Func \cup Decl))
    BY <1>1 DEF IInv, TypeOK, Ctx
  <2> QED
    BY <1>11, <2>1, <2>2, <2>3, <2>4 DEF TypeOK
<1>15. ChainsSimple'
  <2>1. /\ \A k \in 1..(2 * N - 1) : c[k] = Top.ctx[k]
        /\ c[2 * N] = Top.call /\ c[2 * N + 1] = f
    <3> DEFINE S == Func \cup Call
    <3>1. Top.ctx \in Seq(S) /\ Top.call \in S /\ f \in S
      BY <1>1, <1>3 DEF Ctx
    <3> HIDE DEF S
    <3>2. /\ \A k \in 1..Len(Top.ctx) : c[k] = Top.ctx[k]
          /\ c[Len(Top.ctx) + 1] = Top.call /\ c[Len(Top.ctx) + 2] = f
      BY <1>2, <3>1, PairSeq
    <3>3. Len(Top.ctx) + 1 = 2 * N /\ Len(Top.ctx) + 2 = 2 * N + 1
      BY <1>3
    <3> QED
      BY <1>3, <3>2, <3>3
  <2>2. \A k \in 1..(2 * N - 1) : k % 2 = 1 => Top.ctx[k] # f
    <3>1. f \notin callChain(Top)
      BY <1>1 DEF Skipped
    <3>2. DOMAIN Top.ctx = 1..(2 * N - 1)
      BY <1>3 DEF Ctx
    <3> QED
      BY <3>1, <3>2 DEF callChain
  <2>3. \A i, j \in 1..(2 * N - 1) :
          i % 2 = 1 /\ j % 2 = 1 /\ Top.ctx[i] = Top.ctx[j] => i = j
    <3>1. DOMAIN Top.ctx = 1..(2 * N - 1) /\ N \in DOMAIN stack
      BY <1>3 DEF Ctx
    <3> QED
      BY <1>3, <3>1 DEF IInv, ChainsSimple
  <2>4. DOMAIN c = 1..(2 * N + 1) /\ (2 * N) % 2 = 0
    BY <1>1, <1>3 DEF Ctx
  <2>5. ASSUME NEW i \in DOMAIN c, NEW j \in DOMAIN c, i % 2 = 1, j % 2 = 1, c[i] = c[j]
        PROVE  i = j
    <3>1. /\ i \in 1..(2 * N - 1) \/ i = 2 * N \/ i = 2 * N + 1
          /\ j \in 1..(2 * N - 1) \/ j = 2 * N \/ j = 2 * N + 1
      BY <1>3, <2>4
    <3>2. i # 2 * N /\ j # 2 * N
      BY <2>4, <2>5
    <3>3. CASE i \in 1..(2 * N - 1) /\ j \in 1..(2 * N - 1)
      BY <2>1, <2>3, <2>5, <3>3
    <3>4. CASE i \in 1..(2 * N - 1) /\ j = 2 * N + 1
      BY <2>1, <2>2, <2>5, <3>4
    <3>5. CASE i = 2 * N + 1 /\ j \in 1..(2 * N - 1)
      BY <2>1, <2>2, <2>5, <3>5
    <3> QED
      BY <3>1, <3>2, <3>3, <3>4, <3>5
  <2>6. Len(c) <= 2 * MAX_CALLSITE_DEPTH + 1
    <3>1. ~(Len(Top.ctx) > 2 * MAX_CALLSITE_DEPTH - 1)
      BY <1>1 DEF Skipped, exceed_stack_limit
    <3>2. MAX_CALLSITE_DEPTH \in Nat
      BY TraversalAssumption DEF TraversalAssumption
    <3> QED
      BY <1>1, <1>3, <3>1, <3>2
  <2>7. ASSUME NEW n \in DOMAIN stack'
        PROVE  LET d == stack'[n].ctx IN
               /\ \A i, j \in DOMAIN d : i % 2 = 1 /\ j % 2 = 1 /\ d[i] = d[j] => i = j
               /\ Len(d) <= 2 * MAX_CALLSITE_DEPTH + 1
    <3>1. CASE n = N + 1
      BY <1>9, <1>11, <2>5, <2>6, <3>1
    <3>2. CASE n \in 1..N
      BY <1>3, <1>13, <3>2 DEF IInv, ChainsSimple
    <3> QED
      BY <1>12, <2>7, <3>1, <3>2
  <2> QED
    BY <2>7 DEF ChainsSimple
<1>16. Shape'
  <2> SUFFICES ASSUME NEW n \in DOMAIN stack'
               PROVE  /\ Len(stack'[n].ctx) = 2 * n - 1
                      /\ stack'[n].ctx \in contexts'
                      /\ stack'[n].tgts # {} => stack'[n].call \in stack'[n].visitedCallSites
                      /\ (stack[n].open => AtBlock(stack[n]))'
    BY DEF Shape
  <2>1. CASE n = N + 1
    <3>1. Len(c) = 2 * n - 1 /\ c \in contexts'
      BY <1>1, <1>3, <2>1
    <3> QED
      BY <1>9, <1>11, <2>1, <3>1
  <2>2. CASE n = N
    <3>1. (stack[n].open => AtBlock(stack[n]))'
      BY <1>1, <1>6, <1>11, <2>2, TopFacts DEF AtBlock
    <3> QED
      BY <1>1, <1>3, <1>6, <1>7, <1>11, <2>2, <3>1
  <2>3. CASE n \in 1..N /\ n # N
    BY <1>1, <1>3, <1>11, <2>3 DEF IInv, Shape, AtBlock
  <2> QED
    BY <1>12, <2>1, <2>2, <2>3
<1>17. Closed'
  <2> SUFFICES ASSUME NEW d \in Ctx \ {<<>>}, NEW i \in Call, NEW e \in Func,
                      d \o <<i, e>> \in contexts'
               PROVE  d \in contexts'
    BY DEF Closed, ClosedSet
  <2>1. CASE d \o <<i, e>> \in contexts
    BY <1>1, <2>1 DEF IInv, Closed, ClosedSet
  <2>2. CASE d \o <<i, e>> = c
    <3>1. d = Top.ctx
      BY <1>10, <2>2
    <3> QED
      BY <1>1, <1>3, <3>1
  <2> QED
    BY <1>1, <2>1, <2>2
<1>18. Fresh'
  <2> SUFFICES ASSUME NEW n \in DOMAIN stack', NEW i \in Call, NEW e \in Func,
                      stack'[n].ctx \o <<i, e>> \in contexts'
               PROVE  /\ i \in stack'[n].visitedCallSites
                      /\ i = stack'[n].call /\ ~stack'[n].again => e \notin stack'[n].tgts
    BY DEF Fresh, FreshIn
  <2>1. CASE n = N + 1
    <3>1. c \o <<i, e>> \in contexts'
      BY <1>9, <1>11, <2>1
    <3>2. Len(c \o <<i, e>>) = Len(c) + 2
      <4> DEFINE S == Func \cup Call
      <4>1. c \in Seq(S) /\ i \in S /\ e \in S
        BY <1>1 DEF Ctx
      <4> HIDE DEF S, c
      <4> QED
        BY <4>1, PairSeq
    <3>3. c \o <<i, e>> # c
      BY <1>1, <1>3, <3>2
    <3>4. c \o <<i, e>> \in contexts
      BY <1>1, <3>1, <3>3
    <3>5. c # <<>>
      BY <1>1, <1>3
    <3>6. c \in contexts
      BY <1>1, <3>4, <3>5 DEF IInv, Closed, ClosedSet
    <3> QED
      BY <1>2, <3>6
  <2>2. CASE n = N
    <3>1. Top.ctx \o <<i, e>> \in contexts'
      BY <1>6, <1>11, <2>2
    <3>2. CASE Top.ctx \o <<i, e>> = c
      <4>1. i = Top.call /\ e = f
        BY <1>3, <1>10, <3>2
      <4> QED
        BY <1>1, <1>6, <1>7, <1>11, <2>2, <4>1
    <3>3. CASE Top.ctx \o <<i, e>> \in contexts
      <4>1. i \in Top.visitedCallSites /\ (i = Top.call /\ ~Top.again => e \notin Top.tgts)
        BY <1>1, <3>3, TopFacts DEF FreshIn
      <4> QED
        BY <1>6, <1>7, <1>11, <2>2, <4>1
    <3> QED
      BY <1>1, <3>1, <3>2, <3>3
  <2>3. CASE n \in 1..N /\ n # N
    <3>1. stack'[n] = stack[n] /\ n \in DOMAIN stack
      BY <1>3, <1>11, <2>3
    <3>2. stack[n].ctx \in Ctx /\ Len(stack[n].ctx) = 2 * n - 1
      <4>1. stack[n] \in VisitorType
        BY <1>3, <3>1
      <4> QED
        BY <3>1, <4>1 DEF IInv, Shape, VisitorType, Ctx
    <3>3. stack[n].ctx # Top.ctx
      BY <1>3, <2>3, <3>2
    <3>4. stack[n].ctx \o <<i, e>> # c
      BY <1>10, <3>2, <3>3
    <3>5. stack[n].ctx \o <<i, e>> \in contexts
      BY <1>1, <3>1, <3>4
    <3> QED
      BY <3>1, <3>5 DEF IInv, Fresh, FreshIn
  <2> QED
    BY <1>12, <2>1, <2>2, <2>3
<1> QED
  BY <1>14, <1>15, <1>16, <1>17, <1>18 DEF IInv

----------------------------------------------------------------------------
LEMMA Inductive == IInv /\ [Next]_vars => IInv'
<1> SUFFICES ASSUME IInv, [Next]_vars PROVE IInv'
  OBVIOUS
<1>1. CASE visitBlock
  BY <1>1, VisitBlockInv
<1>2. CASE visitBranch
  BY <1>2, VisitBranchInv
<1>3. CASE return
  BY <1>3, ReturnInv
<1>4. CASE visitCallInst
  BY <1>4, VisitCallInstInv
<1>5. ASSUME NEW f \in Func \cup Decl, skipTarget(f) PROVE IInv'
  BY <1>5, SkipTargetInv
<1>6. ASSUME NEW f \in Func \cup Decl, processCalledFunction(f) PROVE IInv'
  <2>1. CASE f \in Func
    BY <1>6, <2>1, CallFuncInv
  <2>2. CASE f \notin Func
    BY <1>6, <2>2, CallDeclInv
  <2> QED
    BY <2>1, <2>2
<1>7. ASSUME NEW f \in Entries, enter(f) PROVE IInv'
  BY <1>7, EnterInv
<1>8. CASE UNCHANGED vars
  <2>1. stack' = stack /\ contexts' = contexts /\ dead' = dead /\ visits' = visits
    BY <1>8 DEF vars
  <2>2. TypeOK'
    BY <2>1 DEF IInv, TypeOK, AtBlock, currSCC
  <2>3. ChainsSimple' /\ Shape' /\ Fresh' /\ Closed'
    BY <2>1 DEF IInv, ChainsSimple, Shape, AtBlock, Fresh, Closed
  <2> QED
    BY <2>2, <2>3 DEF IInv
<1> QED
  BY <1>1, <1>2, <1>3, <1>4, <1>5, <1>6, <1>7, <1>8 DEF Next, Step, Finished

(* In every reachable state the visitors on the stack are well formed, each *)
(* one in the context that its caller's call made.                         *)
THEOREM TypeCorrect == Spec => []TypeOK
<1>1. IInv => TypeOK
  BY DEF IInv
<1> QED
  BY <1>1, InitInv, Inductive, PTL DEF Spec

(* No function is entered while it is on the chain of its callers, and no  *)
(* chain is deeper than MAX_CALLSITE_DEPTH calls.                          *)
THEOREM ChainsAlwaysSimple == Spec => []ChainsSimple
<1>1. IInv => ChainsSimple
  BY DEF IInv
<1> QED
  BY <1>1, InitInv, Inductive, PTL DEF Spec

(* A context gets a visitor at most once: one that is put on the stack is  *)
(* of a context that was not known.                                        *)
LEMMA PushIsNew ==
  IInv /\ [Next]_vars =>
    (Len(stack') > Len(stack) => stack'[Len(stack')].ctx \notin contexts)
<1> SUFFICES ASSUME IInv, [Next]_vars, Len(stack') > Len(stack)
             PROVE  stack'[Len(stack')].ctx \notin contexts
  OBVIOUS
<1>0. stack \in Seq(VisitorType) /\ Len(stack) \in Nat
  BY DEF IInv, TypeOK
<1>1. ASSUME Running, Len(stack') = Len(stack) PROVE FALSE
  BY <1>0, <1>1
<1>2. ASSUME NEW w, Running, SetTop(w) PROVE FALSE
  BY <1>1, <1>2, SetTopValue
<1>3. ~visitBlock
  BY <1>2 DEF visitBlock
<1>4. ~visitBranch
  BY <1>2 DEF visitBranch
<1>5. ~visitCallInst
  BY <1>2 DEF visitCallInst
<1>6. \A f \in Func \cup Decl : ~skipTarget(f)
  BY <1>2 DEF skipTarget
<1>7. ~return
  <2> SUFFICES ASSUME return PROVE FALSE
    OBVIOUS
  <2>1. stack' = SubSeq(stack, 1, Len(stack) - 1) /\ Len(stack) \in Nat \ {0}
    BY TopFacts DEF return
  <2>2. \A n \in 1..(Len(stack) - 1) : stack[n] \in VisitorType
    BY <1>0
  <2>3. Len(stack') = IF 1 <= Len(stack) - 1 THEN Len(stack) - 1 - 1 + 1 ELSE 0
    BY <1>0, <2>1, <2>2, SubSeqProperties
  <2> QED
    BY <2>1, <2>3
<1>8. ASSUME NEW f \in Entries, enter(f)
      PROVE  stack'[Len(stack')].ctx \notin contexts
  BY <1>8 DEF enter, Visitor
<1>9. ASSUME NEW f \in Func \cup Decl, processCalledFunction(f)
      PROVE  stack'[Len(stack')].ctx \notin contexts
  <2>1. CASE f \in Func
    <3> DEFINE rest == [stack EXCEPT ![Len(stack)] = [Top EXCEPT !.tgts = @ \ {f}]]
               u == Visitor(CalleeCtx(Top, f), f)
    <3>1. stack' = Append(rest, u)
      BY <1>9, <2>1 DEF processCalledFunction
    <3>2. u.ctx = CalleeCtx(Top, f)
      BY DEF Visitor
    <3>3. rest \in Seq(VisitorType)
      <4>1. Top \in VisitorType
        BY <1>9, TopFacts DEF processCalledFunction
      <4> DEFINE w == [Top EXCEPT !.tgts = @ \ {f}]
      <4>2. w \in VisitorType
        BY <4>1 DEF VisitorType
      <4>3. rest = [stack EXCEPT ![Len(stack)] = w]
        OBVIOUS
      <4> HIDE DEF w, rest
      <4>4. stack \in [1..Len(stack) -> VisitorType] /\ Len(stack) \in Nat
        BY <1>0
      <4>5. rest \in [1..Len(stack) -> VisitorType]
        BY <4>2, <4>3, <4>4
      <4> QED
        BY <4>4, <4>5
    <3> HIDE DEF rest, u
    <3>4. stack'[Len(stack')] = u
      BY <3>1, <3>3
    <3>5. CalleeCtx(Top, f) \notin contexts
      BY <1>9, <2>1, CalleeIsNew
    <3> QED
      BY <3>2, <3>4, <3>5
  <2>2. CASE f \notin Func
    <3>1. Running
      BY <1>9 DEF processCalledFunction
    <3> QED
      BY <1>1, <1>9, <2>2, <3>1, CallDeclInv
  <2> QED
    BY <2>1, <2>2
<1>10. ~UNCHANGED vars
  BY <1>0 DEF vars
<1> QED
  BY <1>3, <1>4, <1>5, <1>6, <1>7, <1>8, <1>9, <1>10 DEF Next, Step, Finished

(* A function is analysed at most once in a context.                       *)
THEOREM AnalysedOnce == Spec => OncePerContext
<1>1. IInv /\ [Next]_vars =>
        [Len(stack') > Len(stack) => stack'[Len(stack')].ctx \notin contexts]_vars
  BY PushIsNew
<1> QED
  BY <1>1, InitInv, Inductive, PTL DEF Spec, OncePerContext

----------------------------------------------------------------------------
(* That nothing is forgotten.  D and V stand for `dead' and `visits'.      *)

DeadIn(D, c, b) == <<c, b>> \in D \/ <<AnyCtx, b>> \in D

(* The passes saw the call i of f in context c, or it was left out.        *)
Seen(V, c, i, f) ==
  \/ \E m \in DOMAIN V : V[m] = <<c, i, f>>
  \/ \E m \in DOMAIN c : m % 2 = 1 /\ c[m] = f
  \/ f \in Func /\ Len(c) > 2 * MAX_CALLSITE_DEPTH - 1

(* Context c has nothing left to do.                                       *)
Done(D, V, c) ==
  \A s \in DOMAIN Order[c[Len(c)]] : \A k \in DOMAIN Order[c[Len(c)]][s] :
    LET b == Order[c[Len(c)]][s][k] IN
    ~DeadIn(D, c, b) =>
      \A n \in {m \in DOMAIN Calls[b] : Calls[b][m] \notin Inferred} :
        \A f \in Callees[Calls[b][n]] : Seen(V, c, Calls[b][n], f)

(* Visitor v has had call i, and so every call of block b.                 *)
Passed(v, i) == i \in Inferred \/ Callees[i] = {} \/ i \in v.visitedCallSites
BlockPassed(D, v, b) ==
  DeadIn(D, v.ctx, b) \/ \A n \in DOMAIN Calls[b] : Passed(v, Calls[b][n])

(* Blocks that it does not come to again; in its last pass of a component  *)
(* also those of the component.                                            *)
Behind(v, s, k) == s < v.scc \/ (s = v.scc /\ k < v.blk /\ ~inside_loop(v))
Walked(D, v) ==
  \A s \in DOMAIN Order[v.func] : \A k \in DOMAIN Order[v.func][s] :
    Behind(v, s, k) => BlockPassed(D, v, Order[v.func][s][k])

(* `calls' are the last ones of its block, and it has had those before.    *)
InBlock(v) ==
  v.open =>
    LET i == Calls[currBB(v)]
        gone == Len(i) - Len(v.calls)
    IN /\ gone >= 0
       /\ \A n \in 1 .. Len(v.calls) : v.calls[n] = i[gone + n]
       /\ ~inside_loop(v) => \A n \in 1 .. gone : Passed(v, i[n])

(* Of what it has had only the targets of the present call are left.       *)
AllSeen(V, v) ==
  \A i \in v.visitedCallSites \ Inferred : \A f \in Callees[i] :
    Seen(V, v.ctx, i, f) \/ (i = v.call /\ ~v.again /\ f \in v.tgts)

(* It is in the last function of its context, and each call site of the    *)
(* context is one of the function before it.                               *)
OwnCalls(v) ==
  /\ v.ctx[Len(v.ctx)] = v.func
  /\ \A k \in DOMAIN v.ctx : k % 2 = 0 =>
       v.ctx[k - 1] \in Func /\ v.ctx[k] \in CallsIn(v.ctx[k - 1])
  /\ v.tgts # {} => v.open /\ v.call \in CallsIn(v.func)

Good(D, V, v) == Walked(D, v) /\ InBlock(v) /\ AllSeen(V, v) /\ OwnCalls(v)

(* Every context of a function that was analysed is done or has a visitor. *)
Kept ==
  /\ \A n \in DOMAIN stack : Good(dead, visits, stack[n])
  /\ \A c \in contexts : c[Len(c)] \in Func =>
       Done(dead, visits, c) \/ \E n \in DOMAIN stack : stack[n].ctx = c

LEMMA InitKept == Init => Kept
BY DEF Init, Kept

(* What is done stays done.                                                *)
Grows(V, U) == \A m \in DOMAIN V : \E k \in DOMAIN U : U[k] = V[m]

LEMMA SeenGrows ==
  ASSUME NEW V, NEW U, Grows(V, U), NEW c, NEW i, NEW f, Seen(V, c, i, f)
  PROVE  Seen(U, c, i, f)
BY DEF Grows, Seen

LEMMA DoneGrows ==
  ASSUME NEW D, NEW E, D \subseteq E, NEW V, NEW U, Grows(V, U), NEW c, Done(D, V, c)
  PROVE  Done(E, U, c)
BY SeenGrows DEF Done, DeadIn

LEMMA GoodGrows ==
  ASSUME NEW D, NEW E, D \subseteq E, NEW V, NEW U, Grows(V, U), NEW v, Good(D, V, v)
  PROVE  Good(E, U, v)
<1>1. \A b : BlockPassed(D, v, b) => BlockPassed(E, v, b)
  BY DEF BlockPassed, DeadIn
<1>2. Walked(E, v)
  BY <1>1 DEF Good, Walked
<1>3. AllSeen(U, v)
  BY SeenGrows DEF Good, AllSeen
<1>4. QED BY <1>2, <1>3 DEF Good

----------------------------------------------------------------------------
(* The block that a visitor is at.                                         *)
LEMMA BlockIs ==
  ASSUME NEW v \in VisitorType, AtBlock(v), v.blk \in DOMAIN currSCC(v)
  PROVE  /\ v.func \in Func /\ v.scc \in Nat \ {0} /\ v.blk \in Nat \ {0}
         /\ v.scc \in DOMAIN Order[v.func] /\ Order[v.func] \in Seq(Seq(Block) \ {<<>>})
         /\ currSCC(v) \in Seq(Block) /\ currSCC(v) = Order[v.func][v.scc]
         /\ currBB(v) = Order[v.func][v.scc][v.blk]
         /\ Calls[currBB(v)] \in Seq(Call)
<1>1. /\ v.func \in Func /\ v.scc \in Nat \ {0} /\ v.blk \in Nat \ {0}
      /\ v.scc \in DOMAIN Order[v.func] /\ Order[v.func] \in Seq(Seq(Block) \ {<<>>})
  BY TraversalAssumption DEF TraversalAssumption, AtBlock, VisitorType
<1>2. currSCC(v) \in Seq(Block) /\ currSCC(v) = Order[v.func][v.scc]
  BY <1>1 DEF currSCC
<1>3. currBB(v) = Order[v.func][v.scc][v.blk] /\ currBB(v) \in Block
  BY <1>2 DEF currBB
<1>4. Calls[currBB(v)] \in Seq(Call)
  BY <1>3, TraversalAssumption DEF TraversalAssumption
<1>5. QED BY <1>1, <1>2, <1>3, <1>4

LEMMA BlockNumbers ==
  ASSUME NEW f \in Func, NEW s \in DOMAIN Order[f], NEW k \in DOMAIN Order[f][s]
  PROVE  s \in Nat \ {0} /\ k \in Nat \ {0} /\ k <= Len(Order[f][s])
<1>1. Order[f] \in Seq(Seq(Block) \ {<<>>})
  BY TraversalAssumption DEF TraversalAssumption
<1>2. Order[f][s] \in Seq(Block)
  BY <1>1
<1>3. QED BY <1>1, <1>2

(* A visitor that stays where it is.                                       *)
LEMMA SamePlace ==
  ASSUME NEW v, NEW w, w.ctx = v.ctx, w.func = v.func, w.scc = v.scc, w.pass = v.pass,
         w.blk = v.blk, v.visitedCallSites \subseteq w.visitedCallSites
  PROVE  /\ inside_loop(w) <=> inside_loop(v)
         /\ currBB(w) = currBB(v)
         /\ \A i : Passed(v, i) => Passed(w, i)
         /\ \A D : Walked(D, v) => Walked(D, w)
<1>1. inside_loop(w) <=> inside_loop(v)
  BY DEF inside_loop, currSCC
<1>2. currBB(w) = currBB(v)
  BY DEF currBB, currSCC
<1>3. \A i : Passed(v, i) => Passed(w, i)
  BY DEF Passed
<1>4. \A D, b : BlockPassed(D, v, b) => BlockPassed(D, w, b)
  BY <1>3 DEF BlockPassed
<1>5. \A s, k : Behind(w, s, k) => Behind(v, s, k)
  BY <1>1 DEF Behind
<1>6. \A D : Walked(D, v) => Walked(D, w)
  BY <1>4, <1>5 DEF Walked
<1>7. QED BY <1>1, <1>2, <1>3, <1>6

(* A visitor that goes on, and has had what is in its block.               *)
LEMMA AdvancedWalked ==
  ASSUME NEW v \in VisitorType, AtBlock(v), v.blk \in DOMAIN currSCC(v), NEW D, Walked(D, v),
         ~inside_loop(v) => BlockPassed(D, v, currBB(v))
  PROVE  Walked(D, Advanced(v))
<1> DEFINE w == Advanced(v)
<1>1. w.ctx = v.ctx /\ w.func = v.func /\ w.visitedCallSites = v.visitedCallSites
  BY AdvancedType
<1>2. \/ /\ v.blk < Len(currSCC(v))
         /\ w.scc = v.scc /\ w.pass = v.pass /\ w.blk = v.blk + 1
      \/ /\ w.scc = v.scc /\ w.blk = 1
      \/ /\ ~inside_loop(v) /\ ~(v.blk < Len(currSCC(v)))
         /\ w.scc = v.scc + 1 /\ w.blk = 1
  BY DEF Advanced, inside_loop, VisitorType
<1> HIDE DEF w
<1>3. \A b : BlockPassed(D, v, b) => BlockPassed(D, w, b)
  BY <1>1 DEF BlockPassed, Passed
<1>4. /\ v.func \in Func /\ v.scc \in Nat \ {0} /\ v.blk \in Nat \ {0}
      /\ currSCC(v) = Order[v.func][v.scc]
      /\ currBB(v) = Order[v.func][v.scc][v.blk] /\ v.blk <= Len(currSCC(v))
      /\ Len(currSCC(v)) \in Nat
  BY BlockIs
<1>5. ASSUME NEW s \in DOMAIN Order[v.func], NEW k \in DOMAIN Order[v.func][s], Behind(w, s, k)
      PROVE  BlockPassed(D, v, Order[v.func][s][k])
  <2>1. s \in Nat \ {0} /\ k \in Nat \ {0} /\ k <= Len(Order[v.func][s])
    BY <1>4, BlockNumbers
  <2>2. CASE Behind(v, s, k)
    BY <2>2 DEF Walked
  <2>3. CASE s = v.scc /\ k = v.blk /\ ~inside_loop(v)
    BY <1>4, <2>3
  <2>4. CASE v.blk < Len(currSCC(v)) /\ w.scc = v.scc /\ w.pass = v.pass /\ w.blk = v.blk + 1
    <3>1. inside_loop(w) <=> inside_loop(v)
      BY <1>1, <2>4 DEF inside_loop, currSCC
    <3>2. s < v.scc \/ (s = v.scc /\ k < v.blk + 1 /\ ~inside_loop(v))
      BY <1>5, <2>4, <3>1 DEF Behind
    <3>3. k < v.blk + 1 => k < v.blk \/ k = v.blk
      BY <1>4, <2>1
    <3>4. QED BY <2>2, <2>3, <3>2, <3>3 DEF Behind
  <2>5. CASE w.scc = v.scc /\ w.blk = 1
    <3>1. ~(k < 1)
      BY <2>1
    <3>2. QED BY <1>5, <2>2, <2>5, <3>1 DEF Behind
  <2>6. CASE ~inside_loop(v) /\ ~(v.blk < Len(currSCC(v))) /\ w.scc = v.scc + 1 /\ w.blk = 1
    <3>1. s < v.scc + 1
      BY <1>5, <2>1, <2>6 DEF Behind
    <3>2. s < v.scc \/ s = v.scc
      BY <1>4, <2>1, <3>1
    <3>3. s = v.scc => k < v.blk \/ k = v.blk
      BY <1>4, <2>1, <2>6
    <3>4. QED BY <2>2, <2>3, <2>6, <3>2, <3>3 DEF Behind
  <2>7. QED BY <1>2, <2>4, <2>5, <2>6
<1>6. Walked(D, w)
  BY <1>1, <1>3, <1>5 DEF Walked
<1>7. QED BY <1>6 DEF w

LEMMA Gone ==
  ASSUME NEW m \in Nat, NEW n \in Nat \ {0}, m - n >= 0
  PROVE  m - n \in Nat /\ m - n + 1 \in 1 .. m /\ m - (n - 1) = m - n + 1
OBVIOUS

LEMMA Shifted ==
  ASSUME NEW m \in Nat \ {0}, NEW g \in Nat, NEW n \in 1 .. m - 1
  PROVE  n + 1 \in 1 .. m /\ g + (n + 1) = g + 1 + n
OBVIOUS

(* A visitor that takes the next call of its block.                        *)
LEMMA HeadTaken ==
  ASSUME NEW v \in VisitorType, AtBlock(v), v.blk \in DOMAIN currSCC(v), v.open, v.calls # <<>>,
         InBlock(v), NEW w, w.ctx = v.ctx, w.func = v.func, w.scc = v.scc, w.pass = v.pass,
         w.blk = v.blk, v.visitedCallSites \subseteq w.visitedCallSites,
         w.calls = Tail(v.calls), ~inside_loop(v) => Passed(w, Head(v.calls))
  PROVE  InBlock(w) /\ Head(v.calls) \in CallsIn(v.func)
<1> DEFINE i == Calls[currBB(v)]
           gone == Len(i) - Len(v.calls)
<1>1. /\ v.calls \in Seq(Call) /\ i \in Seq(Call) /\ Len(i) \in Nat
      /\ Len(v.calls) \in Nat \ {0}
  BY BlockIs DEF VisitorType
<1>2. /\ gone >= 0
      /\ \A n \in 1 .. Len(v.calls) : v.calls[n] = i[gone + n]
      /\ ~inside_loop(v) => \A n \in 1 .. gone : Passed(v, i[n])
  BY DEF InBlock
<1>3. /\ gone \in Nat /\ gone + 1 \in DOMAIN i
      /\ Len(i) - (Len(v.calls) - 1) = gone + 1
  <2>1. gone \in Nat /\ gone + 1 \in 1 .. Len(i) /\ Len(i) - (Len(v.calls) - 1) = gone + 1
    BY <1>1, <1>2, Gone
  <2>2. DOMAIN i = 1 .. Len(i)
    BY <1>1
  <2>3. QED BY <2>1, <2>2
<1> HIDE DEF gone
<1>4. Head(v.calls) = i[gone + 1] /\ Head(v.calls) \in Call
  <2> HIDE DEF i
  <2>1. 1 \in 1 .. Len(v.calls) /\ Head(v.calls) = v.calls[1] /\ Head(v.calls) \in Call
    BY <1>1
  <2>2. QED BY <1>2, <2>1
<1>5. /\ inside_loop(w) <=> inside_loop(v)
      /\ currBB(w) = currBB(v)
      /\ \A j : Passed(v, j) => Passed(w, j)
  BY SamePlace
<1>6. /\ Len(w.calls) = Len(v.calls) - 1
      /\ \A n \in 1 .. Len(v.calls) - 1 : w.calls[n] = v.calls[n + 1]
  <2>1. v.calls \in Seq(Call) /\ v.calls # <<>> /\ w.calls = Tail(v.calls)
    BY <1>1
  <2>2. QED BY ONLY <2>1
<1>7. Len(i) - Len(w.calls) = gone + 1
  <2>1. Len(w.calls) = Len(v.calls) - 1
    BY <1>6
  <2>2. QED BY <1>3, <2>1
<1>8. Head(v.calls) \in CallsIn(v.func)
  <2>1. v.scc \in DOMAIN Order[v.func] /\ v.blk \in DOMAIN Order[v.func][v.scc]
        /\ currBB(v) = Order[v.func][v.scc][v.blk]
    BY BlockIs
  <2> DEFINE h == Head(v.calls)
             j == gone + 1
  <2>2. h \in Call /\ j \in DOMAIN Calls[Order[v.func][v.scc][v.blk]]
        /\ Calls[Order[v.func][v.scc][v.blk]][j] = h
    BY <1>3, <1>4, <2>1
  <2> HIDE DEF h, j
  <2>3. h \in CallsIn(v.func)
    BY <2>1, <2>2 DEF CallsIn
  <2>4. QED BY <2>3 DEF h
<1> HIDE DEF i
<1>9. \A n \in 1 .. Len(w.calls) : w.calls[n] = i[gone + 1 + n]
  <2> SUFFICES ASSUME NEW n \in 1 .. Len(w.calls) PROVE w.calls[n] = i[gone + 1 + n]
    OBVIOUS
  <2>1. n \in 1 .. Len(v.calls) - 1 /\ n + 1 \in 1 .. Len(v.calls) /\ gone + (n + 1) = gone + 1 + n
    <3>1. n \in 1 .. Len(v.calls) - 1
      BY <1>6
    <3>2. QED BY <1>1, <1>3, <3>1, Shifted
  <2>2. w.calls[n] = v.calls[n + 1] /\ v.calls[n + 1] = i[gone + (n + 1)]
    BY <1>2, <1>6, <2>1
  <2>3. QED BY <2>1, <2>2
<1>10. ~inside_loop(v) => \A n \in 1 .. gone + 1 : Passed(w, i[n])
  <2> SUFFICES ASSUME ~inside_loop(v), NEW n \in 1 .. gone + 1 PROVE Passed(w, i[n])
    OBVIOUS
  <2>1. n \in 1 .. gone \/ n = gone + 1
    BY <1>3
  <2>2. QED BY <1>2, <1>4, <1>5, <2>1
<1>11. gone + 1 >= 0
  BY <1>3
<1>12. i = Calls[currBB(w)]
  BY <1>5 DEF i
<1>13. InBlock(w)
  BY <1>5, <1>7, <1>9, <1>10, <1>11, <1>12 DEF InBlock
<1>14. QED BY <1>8, <1>13

----------------------------------------------------------------------------
(* The steps keep that.                                                    *)

(* A step of the visitor on top; contexts of functions stay the same.      *)
LEMMA TopKept ==
  ASSUME IInv, Kept, Running, NEW w, SetTop(w), w.ctx = Top.ctx, Good(dead', visits', w),
         dead \subseteq dead', Grows(visits, visits'),
         \A c \in contexts' : c \in contexts \/ c[Len(c)] \notin Func
  PROVE  Kept'
<1> DEFINE N == Len(stack)
<1>1. /\ N \in Nat \ {0} /\ DOMAIN stack = 1 .. N /\ stack \in Seq(VisitorType)
      /\ stack' = [stack EXCEPT ![N] = w]
  BY TopFacts DEF IInv, TypeOK, SetTop
<1>2. DOMAIN stack' = 1 .. N /\ stack'[N] = w /\ \A n \in 1 .. N : n # N => stack'[n] = stack[n]
  <2> HIDE DEF N
  <2>1. DOMAIN stack' = 1 .. N /\ N \in 1 .. N
    BY <1>1
  <2>2. stack'[N] = w
    BY <1>1, <2>1
  <2>3. ASSUME NEW n \in 1 .. N, n # N PROVE stack'[n] = stack[n]
    BY <1>1, <2>1, <2>3
  <2>4. QED BY <2>1, <2>2, <2>3
<1>3. \A n \in 1 .. N : stack'[n].ctx = stack[n].ctx
  BY <1>2 DEF Top
<1> HIDE DEF N
<1>4. ASSUME NEW n \in 1 .. N PROVE Good(dead', visits', stack'[n])
  <2>1. CASE n = N
    BY <1>2, <2>1
  <2>2. CASE n # N
    <3>1. Good(dead, visits, stack[n]) /\ stack'[n] = stack[n]
      BY <1>1, <1>2, <2>2 DEF Kept
    <3>2. Good(dead', visits', stack[n])
      BY <3>1, GoodGrows
    <3>3. QED BY <3>1, <3>2
  <2>3. QED BY <2>1, <2>2
<1>5. ASSUME NEW c \in contexts', c[Len(c)] \in Func
      PROVE  Done(dead', visits', c) \/ \E n \in 1 .. N : stack'[n].ctx = c
  <2>1. c \in contexts
    BY <1>5
  <2>2. Done(dead, visits, c) \/ \E n \in 1 .. N : stack[n].ctx = c
    BY <1>1, <1>5, <2>1 DEF Kept
  <2>3. Done(dead, visits, c) => Done(dead', visits', c)
    BY DoneGrows
  <2>4. QED BY <1>3, <2>2, <2>3
<1>6. QED BY <1>2, <1>4, <1>5 DEF Kept

LEMMA TopGood ==
  ASSUME IInv, Kept, Running
  PROVE  Good(dead, visits, Top) /\ Grows(visits, visits)
BY TopFacts DEF Kept, Top, Grows

LEMMA VisitBlockKept == IInv /\ Kept /\ visitBlock => Kept'
<1> SUFFICES ASSUME IInv, Kept, visitBlock PROVE Kept'
  OBVIOUS
<1>1. /\ Running /\ AtBlock(Top) /\ ~Top.open
      /\ contexts' = contexts /\ dead' = dead /\ visits' = visits
  BY DEF visitBlock
<1>2. Top \in VisitorType /\ Top.blk \in DOMAIN currSCC(Top)
  BY <1>1, TopFacts
<1>3. Good(dead, visits, Top) /\ Grows(visits, visits)
  BY <1>1, TopGood
<1>4. Top.tgts = {}
  BY <1>1, <1>3 DEF Good, OwnCalls
<1> DEFINE v == Top
<1>5. ASSUME NEW w, SetTop(w), w.ctx = v.ctx, w.func = v.func, w.tgts = v.tgts, w.call = v.call,
             w.again = v.again, w.visitedCallSites = v.visitedCallSites,
             Walked(dead, w), InBlock(w)
      PROVE  Kept'
  <2>1. AllSeen(visits, w)
    BY <1>3, <1>5 DEF Good, AllSeen
  <2>2. OwnCalls(w)
    BY <1>3, <1>4, <1>5 DEF Good, OwnCalls
  <2>3. Good(dead', visits', w)
    BY <1>1, <1>5, <2>1, <2>2 DEF Good
  <2>4. QED BY <1>1, <1>3, <1>5, <2>3, TopKept
<1>6. CASE isDeadBB(Top.ctx, currBB(Top))
  <2>1. SetTop(Advanced(v))
    BY <1>6 DEF visitBlock
  <2>2. BlockPassed(dead, v, currBB(v))
    BY <1>6 DEF isDeadBB, BlockPassed, DeadIn
  <2>3. Walked(dead, Advanced(v))
    BY <1>1, <1>2, <1>3, <2>2, AdvancedWalked DEF Good
  <2> DEFINE w == Advanced(v)
  <2>4. /\ w.ctx = v.ctx /\ w.func = v.func /\ w.tgts = v.tgts /\ w.call = v.call
        /\ w.again = v.again /\ w.visitedCallSites = v.visitedCallSites /\ ~w.open
    BY <1>1, <1>2, AdvancedType
  <2> HIDE DEF w
  <2>5. InBlock(w)
    BY <2>4 DEF InBlock
  <2>6. QED BY <1>5, <2>1, <2>3, <2>4, <2>5 DEF w
<1>7. CASE ~isDeadBB(Top.ctx, currBB(Top))
  <2> DEFINE i == Calls[currBB(v)]
             w == [v EXCEPT !.open = TRUE, !.calls = i]
  <2>1. SetTop(w)
    BY <1>7 DEF visitBlock
  <2>2. i \in Seq(Call)
    BY <1>1, <1>2, BlockIs
  <2> HIDE DEF i
  <2>3. /\ w.ctx = v.ctx /\ w.func = v.func /\ w.tgts = v.tgts /\ w.call = v.call
        /\ w.again = v.again /\ w.visitedCallSites = v.visitedCallSites
        /\ w.scc = v.scc /\ w.pass = v.pass /\ w.blk = v.blk /\ w.calls = i
    BY <1>2 DEF VisitorType
  <2> HIDE DEF w, v
  <2>4. Walked(dead, w) /\ currBB(w) = currBB(v)
    BY <1>3, <2>3, SamePlace DEF Good, v
  <2>5. InBlock(w)
    <3>1. Calls[currBB(w)] = i
      BY <2>4 DEF i
    <3>2. Len(i) - Len(i) = 0 /\ \A n \in 1 .. Len(i) : 0 + n = n
      BY <2>2
    <3>3. QED BY <2>3, <3>1, <3>2 DEF InBlock
  <2>6. QED BY <1>5, <2>1, <2>3, <2>4, <2>5
<1>8. QED BY <1>6, <1>7

LEMMA VisitBranchKept == IInv /\ Kept /\ visitBranch => Kept'
<1> SUFFICES ASSUME IInv, Kept, visitBranch PROVE Kept'
  OBVIOUS
<1> DEFINE v == Top
<1>1. /\ Running /\ v.open /\ v.calls = <<>> /\ v.tgts = {} /\ SetTop(Advanced(v))
      /\ contexts' = contexts /\ visits' = visits
  BY DEF visitBranch
<1>2. dead \subseteq dead'
  BY DEF visitBranch
<1>3. v \in VisitorType /\ AtBlock(v) /\ v.blk \in DOMAIN currSCC(v)
  BY <1>1, TopFacts
<1>4. Good(dead, visits, v) /\ Grows(visits, visits')
  BY <1>1, TopGood
<1> DEFINE w == Advanced(v)
<1>5. /\ w.ctx = v.ctx /\ w.func = v.func /\ w.tgts = v.tgts /\ w.call = v.call
      /\ w.again = v.again /\ w.visitedCallSites = v.visitedCallSites /\ ~w.open
  BY <1>3, AdvancedType
<1>6. ~inside_loop(v) => BlockPassed(dead, v, currBB(v))
  <2> SUFFICES ASSUME ~inside_loop(v), NEW n \in DOMAIN Calls[currBB(v)]
               PROVE  Passed(v, Calls[currBB(v)][n])
    BY DEF BlockPassed
  <2>1. Calls[currBB(v)] \in Seq(Call)
    BY <1>3, BlockIs
  <2>2. \A m \in 1 .. Len(Calls[currBB(v)]) - Len(v.calls) : Passed(v, Calls[currBB(v)][m])
    BY <1>1, <1>4 DEF Good, InBlock
  <2>3. Len(v.calls) = 0
    BY <1>1
  <2>4. n \in 1 .. Len(Calls[currBB(v)]) - 0
    BY <2>1
  <2>5. QED BY <2>2, <2>3, <2>4
<1>7. Walked(dead, w)
  BY <1>3, <1>4, <1>6, AdvancedWalked DEF Good
<1> HIDE DEF w, v
<1>8. InBlock(w)
  BY <1>5 DEF InBlock
<1>9. AllSeen(visits, w)
  BY <1>4, <1>5 DEF Good, AllSeen
<1>10. OwnCalls(w)
  BY <1>1, <1>4, <1>5 DEF Good, OwnCalls
<1>11. Good(dead, visits, w)
  BY <1>7, <1>8, <1>9, <1>10 DEF Good
<1>12. Good(dead', visits', w)
  BY <1>2, <1>4, <1>11, GoodGrows
<1>13. SetTop(w) /\ w.ctx = Top.ctx
  BY <1>1, <1>5 DEF w, v
<1>14. QED BY <1>1, <1>2, <1>4, <1>12, <1>13, TopKept

LEMMA VisitCallInstKept == IInv /\ Kept /\ visitCallInst => Kept'
<1> SUFFICES ASSUME IInv, Kept, visitCallInst PROVE Kept'
  OBVIOUS
<1> DEFINE v == Top
           i == Head(v.calls)
<1>1. /\ Running /\ v.open /\ v.calls # <<>> /\ v.tgts = {}
      /\ contexts' = contexts /\ dead' = dead /\ visits' = visits
  BY DEF visitCallInst
<1>2. v \in VisitorType /\ AtBlock(v) /\ v.blk \in DOMAIN currSCC(v) /\ v.func \in Func
  BY <1>1, TopFacts DEF VisitorType
<1>3. Good(dead, visits, v) /\ Grows(visits, visits')
  BY <1>1, TopGood
<1>4. \A j \in v.visitedCallSites \ Inferred : \A f \in Callees[j] : Seen(visits, v.ctx, j, f)
  BY <1>1, <1>3 DEF Good, AllSeen
<1>5. \A T \in CallTargets(i) : i \in Inferred \/ T = Callees[i]
  BY DEF CallTargets
<1>6. ASSUME NEW w, SetTop(w), w.ctx = v.ctx, w.func = v.func, w.scc = v.scc, w.pass = v.pass,
             w.blk = v.blk, w.open = v.open, v.visitedCallSites \subseteq w.visitedCallSites,
             w.calls = Tail(v.calls), ~inside_loop(v) => Passed(w, i),
             AllSeen(visits, w), w.tgts # {} => w.call = i
      PROVE  Kept'
  <2>1. InBlock(w) /\ i \in CallsIn(v.func)
    BY <1>1, <1>2, <1>3, <1>6, HeadTaken DEF Good
  <2>2. Walked(dead, w)
    BY <1>3, <1>6, SamePlace DEF Good
  <2>3. OwnCalls(w)
    BY <1>1, <1>3, <1>6, <2>1 DEF Good, OwnCalls
  <2>4. Good(dead', visits', w)
    BY <1>1, <1>6, <2>1, <2>2, <2>3 DEF Good
  <2>5. QED BY <1>1, <1>3, <1>6, <2>4, TopKept
<1>7. ASSUME SetTop([v EXCEPT !.calls = Tail(@)]),
             inside_loop(v) \/ i \in Inferred \/ Callees[i] = {}
      PROVE  Kept'
  <2> DEFINE w == [v EXCEPT !.calls = Tail(v.calls)]
  <2>1. /\ w.ctx = v.ctx /\ w.func = v.func /\ w.scc = v.scc /\ w.pass = v.pass
        /\ w.blk = v.blk /\ w.open = v.open /\ w.visitedCallSites = v.visitedCallSites
        /\ w.calls = Tail(v.calls) /\ w.tgts = {}
    BY <1>1, <1>2 DEF VisitorType
  <2>2. SetTop(w)
    BY <1>7
  <2> HIDE DEF w, i, v
  <2>3. AllSeen(visits, w)
    BY <1>4, <2>1 DEF AllSeen
  <2>4. ~inside_loop(v) => Passed(w, i)
    BY <1>7 DEF Passed
  <2>5. QED BY <1>6, <2>1, <2>2, <2>3, <2>4
<1>8. ASSUME NEW T \in CallTargets(i),
             SetTop([v EXCEPT !.calls = Tail(@), !.call = i, !.tgts = T,
                              !.again = i \in v.visitedCallSites,
                              !.visitedCallSites = @ \cup {i}])
      PROVE  Kept'
  <2> DEFINE a == i \in v.visitedCallSites
             w == [v EXCEPT !.calls = Tail(v.calls), !.call = i, !.tgts = T, !.again = a,
                            !.visitedCallSites = v.visitedCallSites \cup {i}]
  <2>1. /\ w.ctx = v.ctx /\ w.func = v.func /\ w.scc = v.scc /\ w.pass = v.pass
        /\ w.blk = v.blk /\ w.open = v.open
    BY <1>2 DEF VisitorType
  <2>2. w.visitedCallSites = v.visitedCallSites \cup {i}
    BY <1>2 DEF VisitorType
  <2>3. w.calls = Tail(v.calls) /\ w.call = i /\ w.tgts = T
    BY <1>2 DEF VisitorType
  <2>4. w.again = a
    BY <1>2 DEF VisitorType
  <2>5. SetTop(w)
    BY <1>8
  <2> HIDE DEF w, v
  <2>6. AllSeen(visits, w)
    <3> SUFFICES ASSUME NEW j \in w.visitedCallSites \ Inferred, NEW f \in Callees[j]
                 PROVE  Seen(visits, w.ctx, j, f) \/ (j = w.call /\ ~w.again /\ f \in w.tgts)
      BY DEF AllSeen
    <3>1. CASE j \in v.visitedCallSites
      BY <1>4, <2>1, <3>1
    <3>2. CASE j \notin v.visitedCallSites
      <4> HIDE DEF i
      <4>1. j = i
        BY <2>2, <3>2
      <4>2. j = w.call /\ ~w.again
        BY <2>3, <2>4, <3>2, <4>1
      <4>3. T = Callees[j]
        BY <1>5, <4>1
      <4>4. QED BY <2>3, <4>2, <4>3
    <3>3. QED BY <3>1, <3>2
  <2>7. Passed(w, i)
    BY <2>2 DEF Passed
  <2>8. v.visitedCallSites \subseteq w.visitedCallSites
    BY <2>2
  <2> HIDE DEF i
  <2>9. QED BY <1>6, <2>1, <2>3, <2>5, <2>6, <2>7, <2>8
<1>9. CASE inside_loop(v) /\ SetTop([v EXCEPT !.calls = Tail(@)])
  BY <1>7, <1>9
<1>10. CASE \E T \in CallTargets(i) :
              SetTop(IF T = {} THEN [v EXCEPT !.calls = Tail(@)]
                     ELSE [v EXCEPT !.calls = Tail(@), !.call = i, !.tgts = T,
                                    !.again = i \in v.visitedCallSites,
                                    !.visitedCallSites = @ \cup {i}])
  <2>1. PICK T \in CallTargets(i) :
              SetTop(IF T = {} THEN [v EXCEPT !.calls = Tail(@)]
                     ELSE [v EXCEPT !.calls = Tail(@), !.call = i, !.tgts = T,
                                    !.again = i \in v.visitedCallSites,
                                    !.visitedCallSites = @ \cup {i}])
    BY <1>10
  <2>2. CASE T = {}
    <3>1. i \in Inferred \/ Callees[i] = {}
      BY <1>5, <2>2
    <3>2. SetTop([v EXCEPT !.calls = Tail(@)])
      BY <2>1, <2>2
    <3>3. QED BY <1>7, <3>1, <3>2
  <2>3. CASE T # {}
    <3>1. SetTop([v EXCEPT !.calls = Tail(@), !.call = i, !.tgts = T,
                           !.again = i \in v.visitedCallSites,
                           !.visitedCallSites = @ \cup {i}])
      BY <2>1, <2>3
    <3>2. QED BY <1>8, <3>1
  <2>4. QED BY <2>2, <2>3
<1>11. QED BY <1>9, <1>10 DEF visitCallInst

(* A target is skipped only if the passes saw the call of it, or it is     *)
(* one of those that are left out: a call site of the context is not met   *)
(* again, since its function would be.                                     *)
LEMMA SkippedSeen ==
  ASSUME IInv, Kept, Running, NEW f \in Top.tgts, Skipped(Top, f), ~Top.again
  PROVE  Seen(visits, Top.ctx, Top.call, f)
<1> DEFINE c == Top.ctx
           N == Len(stack)
<1>1. c \in Ctx /\ Len(c) = 2 * N - 1 /\ N \in Nat \ {0} /\ N \in DOMAIN stack /\ c = stack[N].ctx
      /\ Top.func \in Func
  BY TopFacts DEF Top, VisitorType
<1>2. OwnCalls(Top)
  BY TopGood DEF Good
<1>3. CASE f \in Func /\ exceed_stack_limit(Top)
  BY <1>3 DEF exceed_stack_limit, Seen
<1>4. CASE f \in callChain(Top)
  BY <1>4 DEF callChain, Seen
<1>5. CASE Top.call \in callSites(Top)
  <2>1. PICK k \in DOMAIN c : k % 2 = 0 /\ c[k] = Top.call
    BY <1>5 DEF callSites
  <2>2. c[k - 1] \in Func /\ Top.call \in CallsIn(c[k - 1]) /\ Top.call \in CallsIn(c[Len(c)])
        /\ c[Len(c)] \in Func
    BY <1>1, <1>2, <2>1 DEF OwnCalls
  <2>3. c[k - 1] = c[Len(c)]
    BY <2>2, TraversalAssumption DEF TraversalAssumption
  <2>4. DOMAIN c = 1 .. 2 * N - 1
    BY <1>1 DEF Ctx
  <2>5. \A i, j \in DOMAIN c : i % 2 = 1 /\ j % 2 = 1 /\ c[i] = c[j] => i = j
    BY <1>1 DEF IInv, ChainsSimple
  <2> HIDE DEF c, N
  <2>6. /\ k - 1 \in 1 .. 2 * N - 1 /\ (k - 1) % 2 = 1 /\ k - 1 # 2 * N - 1
        /\ 2 * N - 1 \in 1 .. 2 * N - 1 /\ (2 * N - 1) % 2 = 1
    BY <1>1, <2>1, <2>4
  <2>7. QED BY <1>1, <2>3, <2>4, <2>5, <2>6
<1>6. QED BY <1>3, <1>4, <1>5 DEF Skipped

(* A target that the top visitor is done with.                             *)
LEMMA TargetDone ==
  ASSUME IInv, Kept, Running, NEW f, NEW V, Grows(visits, V),
         ~Top.again => Seen(V, Top.ctx, Top.call, f),
         NEW w, w = [Top EXCEPT !.tgts = @ \ {f}]
  PROVE  Good(dead, V, w) /\ w.ctx = Top.ctx /\ w.func = Top.func
<1>1. Top \in VisitorType
  BY TopFacts
<1>2. /\ w.ctx = Top.ctx /\ w.func = Top.func /\ w.scc = Top.scc /\ w.pass = Top.pass
      /\ w.blk = Top.blk /\ w.open = Top.open
  BY <1>1 DEF VisitorType
<1>3. /\ w.calls = Top.calls /\ w.call = Top.call /\ w.again = Top.again
      /\ w.visitedCallSites = Top.visitedCallSites
  BY <1>1 DEF VisitorType
<1>4. w.tgts = Top.tgts \ {f}
  BY <1>1 DEF VisitorType
<1>5. Good(dead, V, Top)
  BY TopGood, GoodGrows
<1> DEFINE v == Top
<1> HIDE DEF v
<1>6. /\ w.ctx = v.ctx /\ w.func = v.func /\ w.scc = v.scc /\ w.pass = v.pass
      /\ w.blk = v.blk /\ w.open = v.open /\ w.calls = v.calls
      /\ w.visitedCallSites = v.visitedCallSites /\ w.call = v.call /\ w.again = v.again
      /\ w.tgts = v.tgts \ {f}
  BY <1>2, <1>3, <1>4 DEF v
<1>7. /\ inside_loop(w) <=> inside_loop(v)
      /\ currBB(w) = currBB(v)
      /\ \A j : Passed(v, j) => Passed(w, j)
      /\ \A D : Walked(D, v) => Walked(D, w)
  BY <1>6, SamePlace
<1>8. Walked(dead, v) /\ InBlock(v) /\ AllSeen(V, v) /\ OwnCalls(v)
  BY <1>5 DEF Good, v
<1>9. InBlock(w)
  BY <1>6, <1>7, <1>8 DEF InBlock
<1>10. AllSeen(V, w)
  <2> SUFFICES ASSUME NEW j \in w.visitedCallSites \ Inferred, NEW g \in Callees[j]
               PROVE  Seen(V, w.ctx, j, g) \/ (j = w.call /\ ~w.again /\ g \in w.tgts)
    BY DEF AllSeen
  <2>1. Seen(V, v.ctx, j, g) \/ (j = v.call /\ ~v.again /\ g \in v.tgts)
    BY <1>6, <1>8 DEF AllSeen
  <2>2. ~v.again => Seen(V, v.ctx, v.call, f)
    BY DEF v
  <2>3. QED BY <1>6, <2>1, <2>2
<1>11. OwnCalls(w)
  BY <1>6, <1>8 DEF OwnCalls
<1>12. QED BY <1>2, <1>7, <1>8, <1>9, <1>10, <1>11 DEF Good

LEMMA SkipTargetKept ==
  ASSUME IInv, Kept, NEW f \in Func \cup Decl, skipTarget(f)
  PROVE  Kept'
<1> DEFINE w == [Top EXCEPT !.tgts = @ \ {f}]
<1>1. /\ Running /\ f \in Top.tgts /\ Skipped(Top, f) /\ SetTop(w)
      /\ contexts' = contexts /\ dead' = dead /\ visits' = visits
  BY DEF skipTarget
<1>2. ~Top.again => Seen(visits, Top.ctx, Top.call, f)
  BY <1>1, SkippedSeen
<1>3. Grows(visits, visits')
  BY <1>1, TopGood
<1>4. w = [Top EXCEPT !.tgts = @ \ {f}]
  OBVIOUS
<1> HIDE DEF w
<1>5. Good(dead', visits', w) /\ w.ctx = Top.ctx
  BY <1>1, <1>2, <1>3, <1>4, TargetDone
<1>6. QED BY <1>1, <1>3, <1>5, TopKept

(* The passes see a call.                                                  *)
LEMMA CallSeen ==
  ASSUME IInv, Kept, NEW f \in Func \cup Decl, processCalledFunction(f)
  PROVE  /\ Grows(visits, visits') /\ Seen(visits', Top.ctx, Top.call, f)
<1>1. visits' = Append(visits, <<Top.ctx, Top.call, f>>)
  BY DEF processCalledFunction
<1>2. visits \in Seq(Ctx \X Call \X (Func \cup Decl))
  BY DEF IInv, TypeOK, Ctx
<1> DEFINE e == <<Top.ctx, Top.call, f>>
           L == Len(visits)
<1>3. e \in Ctx \X Call \X (Func \cup Decl)
  BY CallFacts, TopFacts
<1> HIDE DEF e
<1>4. /\ L \in Nat /\ DOMAIN visits = 1 .. L /\ DOMAIN visits' = 1 .. L + 1
      /\ visits'[L + 1] = e /\ \A m \in 1 .. L : visits'[m] = visits[m]
  BY <1>1, <1>2, <1>3 DEF e
<1>5. Grows(visits, visits')
  BY <1>4 DEF Grows
<1>6. L + 1 \in DOMAIN visits'
  BY <1>4
<1>7. QED BY <1>4, <1>5, <1>6 DEF Seen, e

LEMMA CallDeclKept ==
  ASSUME IInv, Kept, NEW f \in Func \cup Decl, f \notin Func, processCalledFunction(f)
  PROVE  Kept'
<1> DEFINE w == [Top EXCEPT !.tgts = @ \ {f}]
           c == CalleeCtx(Top, f)
<1>1. Running /\ SetTop(w) /\ c = Top.ctx \o <<Top.call, Top.call>>
  BY DEF processCalledFunction, SetTop, CalleeCtx
<1>2. dead' = dead /\ contexts' = contexts \cup {c} /\ Top.call \in Call /\ Top.ctx \in Ctx
  BY <1>1, CallFacts, TopFacts
<1>3. Grows(visits, visits') /\ Seen(visits', Top.ctx, Top.call, f)
  BY CallSeen
<1>4. w = [Top EXCEPT !.tgts = @ \ {f}]
  OBVIOUS
<1> HIDE DEF w
<1>5. Good(dead', visits', w) /\ w.ctx = Top.ctx
  BY <1>1, <1>2, <1>3, <1>4, TargetDone
<1>6. c[Len(c)] \notin Func
  <2> DEFINE t == Top.ctx
             k == Top.call
             S == Func \cup Call
  <2>1. t \in Seq(S) /\ k \in S
    BY <1>2 DEF Ctx
  <2>2. c = t \o <<k, k>>
    BY <1>1
  <2> HIDE DEF t, k, S, c
  <2>3. Len(c) = Len(t) + 2 /\ c[Len(t) + 2] = k
    BY <2>1, <2>2, PairSeq
  <2>4. k \in Call
    BY <1>2 DEF k
  <2>5. QED BY <2>3, <2>4, TraversalAssumption DEF TraversalAssumption
<1> HIDE DEF c
<1>7. QED BY <1>1, <1>2, <1>3, <1>5, <1>6, TopKept

LEMMA PushIs ==
  ASSUME NEW S, NEW s \in Seq(S), s # <<>>, NEW w \in S, NEW u \in S, NEW t,
         t = Append([s EXCEPT ![Len(s)] = w], u)
  PROVE  /\ Len(s) \in Nat \ {0} /\ DOMAIN s = 1 .. Len(s)
         /\ DOMAIN t = 1 .. Len(s) + 1 /\ t[Len(s) + 1] = u /\ t[Len(s)] = w
         /\ \A n \in 1 .. Len(s) : n # Len(s) => t[n] = s[n]
<1> DEFINE N == Len(s)
           rest == [s EXCEPT ![N] = w]
<1>1. N \in Nat \ {0} /\ DOMAIN s = 1 .. N
  OBVIOUS
<1> HIDE DEF N
<1>2. s \in [1 .. N -> S] /\ N \in 1 .. N
  BY <1>1 DEF N
<1>3. rest \in [1 .. N -> S]
  BY <1>2
<1>4. rest[N] = w
  BY <1>2
<1>5. ASSUME NEW n \in 1 .. N, n # N PROVE rest[n] = s[n]
  BY <1>2, <1>5
<1>6. t = Append(rest, u)
  BY DEF N
<1> HIDE DEF rest
<1>7. rest \in Seq(S) /\ Len(rest) = N
  BY <1>1, <1>3
<1>8. DOMAIN t = 1 .. N + 1 /\ t[N + 1] = u /\ \A n \in 1 .. N : t[n] = rest[n]
  BY <1>1, <1>6, <1>7
<1>9. t[N] = w
  BY <1>2, <1>4, <1>8
<1>10. \A n \in 1 .. N : n # N => t[n] = s[n]
  BY <1>5, <1>8
<1>11. QED BY <1>1, <1>8, <1>9, <1>10 DEF N

(* A new visitor has everything before it.                                 *)
LEMMA NewGood ==
  ASSUME NEW c, NEW f \in Func, c[Len(c)] = f, NEW D, NEW V,
         \A k \in DOMAIN c : k % 2 = 0 => c[k - 1] \in Func /\ c[k] \in CallsIn(c[k - 1])
  PROVE  Good(D, V, Visitor(c, f)) /\ Visitor(c, f).ctx = c
<1> DEFINE u == Visitor(c, f)
<1>1. /\ u.ctx = c /\ u.func = f /\ u.scc = 1 /\ u.blk = 1 /\ u.open = FALSE
      /\ u.tgts = {} /\ u.visitedCallSites = {}
  BY DEF Visitor
<1> HIDE DEF u
<1>2. Walked(D, u)
  <2> SUFFICES ASSUME NEW s \in DOMAIN Order[f], NEW k \in DOMAIN Order[f][s]
               PROVE  ~Behind(u, s, k)
    BY <1>1 DEF Walked
  <2>1. s \in Nat \ {0} /\ k \in Nat \ {0}
    BY BlockNumbers
  <2>2. QED BY <1>1, <2>1 DEF Behind
<1>3. InBlock(u) /\ AllSeen(V, u)
  BY <1>1 DEF InBlock, AllSeen
<1>4. OwnCalls(u)
  BY <1>1 DEF OwnCalls
<1>5. QED BY <1>1, <1>2, <1>3, <1>4 DEF Good, u

LEMMA CallFuncKept ==
  ASSUME IInv, Kept, NEW f \in Func, processCalledFunction(f)
  PROVE  Kept'
<1> DEFINE N == Len(stack)
           w == [Top EXCEPT !.tgts = @ \ {f}]
           c == CalleeCtx(Top, f)
           u == Visitor(c, f)
<1>1. /\ Running /\ Top.call \in Call /\ f \in Top.tgts
      /\ c \in Ctx /\ Len(c) = 2 * N + 1
      /\ contexts' = contexts \cup {c} /\ dead' = dead
      /\ Grows(visits, visits') /\ Seen(visits', Top.ctx, Top.call, f)
  <2>1. f \in Func \cup Decl
    OBVIOUS
  <2> QED
    BY <2>1, CallFacts, CallSeen
<1>2. c = Top.ctx \o <<Top.call, f>>
  BY CalleeIsNew
<1>3. /\ stack \in Seq(VisitorType) /\ stack # <<>> /\ Top \in VisitorType
      /\ Top.ctx \in Ctx /\ Len(Top.ctx) = 2 * N - 1 /\ Top = stack[N] /\ Top.func \in Func
      /\ N \in Nat \ {0}
  BY <1>1, TopFacts DEF IInv, TypeOK, Top, VisitorType, Running
<1>4. stack' = Append([stack EXCEPT ![N] = w], u)
  BY DEF processCalledFunction
<1>5. w \in VisitorType
  BY <1>3 DEF VisitorType
<1>6. u \in VisitorType
  BY <1>1, NewVisitor
<1>7. w = [Top EXCEPT !.tgts = @ \ {f}]
  OBVIOUS
<1> HIDE DEF w
<1>8. Good(dead', visits', w) /\ w.ctx = Top.ctx /\ w.func = Top.func
  BY <1>1, <1>7, TargetDone
<1>9. c[Len(c)] = f
      /\ \A k \in DOMAIN c : k % 2 = 0 => c[k - 1] \in Func /\ c[k] \in CallsIn(c[k - 1])
  <2> DEFINE t == Top.ctx
             S == Func \cup Call
  <2>1. t \in Seq(S) /\ Top.call \in S /\ f \in S
    BY <1>1, <1>3 DEF Ctx
  <2> HIDE DEF t, S
  <2>2. /\ \A k \in 1 .. Len(t) : c[k] = t[k]
        /\ c[Len(t) + 1] = Top.call /\ c[Len(t) + 2] = f
    BY <1>2, <2>1, PairSeq DEF t
  <2>3. Len(t) + 1 = 2 * N /\ Len(t) + 2 = 2 * N + 1 /\ Len(t) = 2 * N - 1
    BY <1>3 DEF t
  <2>4. DOMAIN c = 1 .. 2 * N + 1
    BY <1>1 DEF Ctx
  <2>5. OwnCalls(Top)
    BY <1>1, TopGood DEF Good
  <2>6. Top.tgts # {} /\ DOMAIN t = 1 .. 2 * N - 1
    BY <1>1, <1>3 DEF t, Ctx
  <2>7. /\ t[2 * N - 1] = Top.func /\ Top.call \in CallsIn(Top.func)
        /\ \A k \in 1 .. 2 * N - 1 : k % 2 = 0 => t[k - 1] \in Func /\ t[k] \in CallsIn(t[k - 1])
    BY <2>3, <2>5, <2>6 DEF OwnCalls, t
  <2>8. c[Len(c)] = f
    BY <1>1, <2>2, <2>3
  <2> HIDE DEF c, N
  <2>9. ASSUME NEW k \in 1 .. 2 * N + 1, k % 2 = 0
        PROVE  c[k - 1] \in Func /\ c[k] \in CallsIn(c[k - 1])
    <3>1. k = 2 * N \/ (k \in 1 .. 2 * N - 1 /\ k - 1 \in 1 .. 2 * N - 1)
      BY <1>3, <2>9
    <3>2. CASE k = 2 * N
      <4>1. k - 1 = 2 * N - 1 /\ 2 * N - 1 \in 1 .. 2 * N - 1
        BY <1>3, <3>2
      <4>2. c[k - 1] = Top.func /\ c[k] = Top.call
        BY <2>2, <2>3, <2>7, <3>2, <4>1
      <4>3. QED BY <1>3, <2>7, <4>2
    <3>3. CASE k \in 1 .. 2 * N - 1 /\ k - 1 \in 1 .. 2 * N - 1
      BY <2>2, <2>3, <2>7, <2>9, <3>3
    <3>4. QED BY <3>1, <3>2, <3>3
  <2>10. QED BY <2>4, <2>8, <2>9
<1>10. Good(dead', visits', u) /\ u.ctx = c
  BY <1>9, NewGood
<1> HIDE DEF u, c
<1>11. /\ DOMAIN stack = 1 .. N
       /\ DOMAIN stack' = 1 .. N + 1 /\ stack'[N + 1] = u /\ stack'[N] = w
       /\ \A n \in 1 .. N : n # N => stack'[n] = stack[n]
  BY <1>3, <1>4, <1>5, <1>6, PushIs
<1> HIDE DEF N
<1>12. \A n \in 1 .. N + 1 : n = N + 1 \/ n \in 1 .. N
  BY <1>3
<1>13. \A n \in 1 .. N : stack'[n].ctx = stack[n].ctx /\ n \in 1 .. N + 1
  BY <1>3, <1>8, <1>11
<1>14. ASSUME NEW n \in 1 .. N + 1 PROVE Good(dead', visits', stack'[n])
  <2>1. CASE n = N + 1
    BY <1>10, <1>11, <2>1
  <2>2. CASE n = N
    BY <1>8, <1>11, <2>2
  <2>3. CASE n \in 1 .. N /\ n # N
    <3>1. Good(dead, visits, stack[n]) /\ stack'[n] = stack[n]
      BY <1>11, <2>3 DEF Kept
    <3>2. Good(dead', visits', stack[n])
      BY <1>1, <3>1, GoodGrows
    <3>3. QED BY <3>1, <3>2
  <2>4. QED BY <1>12, <2>1, <2>2, <2>3
<1>15. ASSUME NEW d \in contexts', d[Len(d)] \in Func
       PROVE  Done(dead', visits', d) \/ \E n \in 1 .. N + 1 : stack'[n].ctx = d
  <2>1. CASE d = c
    <3>1. N + 1 \in 1 .. N + 1
      BY <1>3
    <3>2. QED BY <1>10, <1>11, <2>1, <3>1
  <2>2. CASE d \in contexts
    <3>1. Done(dead, visits, d) \/ \E n \in 1 .. N : stack[n].ctx = d
      BY <1>11, <1>15, <2>2 DEF Kept
    <3>2. Done(dead, visits, d) => Done(dead', visits', d)
      BY <1>1, DoneGrows
    <3>3. QED BY <1>13, <3>1, <3>2
  <2>3. QED BY <1>1, <1>15, <2>1, <2>2
<1>16. QED BY <1>11, <1>14, <1>15 DEF Kept

(* A visitor that returns has had all blocks of its function.              *)
LEMMA ReturnKept == IInv /\ Kept /\ return => Kept'
<1> SUFFICES ASSUME IInv, Kept, return PROVE Kept'
  OBVIOUS
<1> DEFINE N == Len(stack)
           v == Top
<1>1. /\ Running /\ ~AtBlock(v) /\ stack' = SubSeq(stack, 1, N - 1)
      /\ contexts' = contexts /\ dead' = dead /\ visits' = visits
  BY DEF return
<1>2. /\ stack \in Seq(VisitorType) /\ N \in Nat \ {0} /\ v \in VisitorType /\ v = stack[N]
      /\ v.open => AtBlock(v)
  BY <1>1, TopFacts DEF IInv, TypeOK, Top
<1>3. Good(dead, visits, v)
  BY <1>1, TopGood
<1>4. DOMAIN stack = 1 .. N /\ DOMAIN stack' = 1 .. N - 1 /\ \A n \in 1 .. N - 1 : stack'[n] = stack[n]
  <2>1. \A n \in 1 .. N - 1 : stack[n] \in VisitorType
    BY <1>2
  <2>2. PICK m \in Nat : m = N - 1
    BY <1>2
  <2>3. /\ stack' \in Seq(VisitorType)
        /\ Len(stack') = IF 1 <= m THEN m - 1 + 1 ELSE 0
        /\ \A n \in 1 .. m - 1 + 1 : stack'[n] = stack[1 + n - 1]
    BY <1>1, <1>2, <2>1, <2>2, SubSeqProperties
  <2>4. Len(stack') = m
    BY ONLY <2>3, m \in Nat
  <2>5. ASSUME NEW n \in 1 .. m PROVE stack'[n] = stack[n]
    <3>1. n \in 1 .. m - 1 + 1 /\ 1 + n - 1 = n
      OBVIOUS
    <3>2. stack'[n] = stack[1 + n - 1]
      BY <2>3, <3>1
    <3>3. QED BY <3>1, <3>2
  <2>6. QED BY <1>2, <2>2, <2>3, <2>4, <2>5
<1>5. Done(dead, visits, v.ctx)
  <2>1. v.func \in Func /\ v.scc \in Nat \ {0} /\ v.ctx[Len(v.ctx)] = v.func
    BY <1>2, <1>3 DEF VisitorType, Good, OwnCalls
  <2>2. v.tgts = {}
    BY <1>1, <1>2, <1>3 DEF Good, OwnCalls
  <2>3. ASSUME NEW s \in DOMAIN Order[v.func], NEW k \in DOMAIN Order[v.func][s]
        PROVE  BlockPassed(dead, v, Order[v.func][s][k])
    <3>1. Order[v.func] \in Seq(Seq(Block) \ {<<>>})
      BY <2>1, TraversalAssumption DEF TraversalAssumption
    <3>2. v.scc \notin DOMAIN Order[v.func]
      BY <1>1 DEF AtBlock
    <3>3. s < v.scc
      BY <2>1, <3>1, <3>2
    <3>4. QED BY <1>3, <3>3 DEF Good, Walked, Behind
  <2>4. \A i \in v.visitedCallSites \ Inferred : \A f \in Callees[i] : Seen(visits, v.ctx, i, f)
    BY <1>3, <2>2 DEF Good, AllSeen
  <2> HIDE DEF v
  <2> SUFFICES ASSUME NEW s \in DOMAIN Order[v.func], NEW k \in DOMAIN Order[v.func][s],
                      ~DeadIn(dead, v.ctx, Order[v.func][s][k]),
                      NEW n \in DOMAIN Calls[Order[v.func][s][k]],
                      Calls[Order[v.func][s][k]][n] \notin Inferred,
                      NEW f \in Callees[Calls[Order[v.func][s][k]][n]]
               PROVE  Seen(visits, v.ctx, Calls[Order[v.func][s][k]][n], f)
    BY <2>1 DEF Done
  <2>5. Passed(v, Calls[Order[v.func][s][k]][n])
    BY <2>3 DEF BlockPassed
  <2>6. Calls[Order[v.func][s][k]][n] \in v.visitedCallSites
    BY <2>5 DEF Passed
  <2>7. QED BY <2>4, <2>6
<1>6. \A n \in 1 .. N - 1 : Good(dead', visits', stack'[n])
  <2>1. \A n \in 1 .. N - 1 : n \in 1 .. N
    BY <1>2
  <2>2. QED BY <1>1, <1>4, <2>1 DEF Kept
<1>7. ASSUME NEW c \in contexts', c[Len(c)] \in Func
      PROVE  Done(dead', visits', c) \/ \E n \in 1 .. N - 1 : stack'[n].ctx = c
  <2>1. Done(dead, visits, c) \/ \E n \in 1 .. N : stack[n].ctx = c
    BY <1>1, <1>4, <1>7 DEF Kept
  <2>2. \A n \in 1 .. N : n = N \/ n \in 1 .. N - 1
    BY <1>2
  <2> HIDE DEF v, N
  <2>3. stack[N].ctx = c => Done(dead, visits, c)
    BY <1>2, <1>5
  <2>4. QED BY <1>1, <1>4, <2>1, <2>2, <2>3
<1>8. QED BY <1>4, <1>6, <1>7 DEF Kept

LEMMA EnterKept ==
  ASSUME IInv, Kept, NEW f \in Entries, enter(f)
  PROVE  Kept'
<1> DEFINE c == <<f>>
           u == Visitor(c, f)
<1>1. /\ stack = <<>> /\ stack' = <<u>>
      /\ contexts' = contexts \cup {c} /\ dead' = dead /\ visits' = visits
  BY DEF enter, Running
<1>2. f \in Func /\ Len(c) = 1 /\ c[Len(c)] = f /\ DOMAIN c = {1} /\ 1 % 2 # 0
  BY TraversalAssumption DEF TraversalAssumption
<1>3. Good(dead', visits', u) /\ u.ctx = c
  <2> HIDE DEF c
  <2>1. QED BY <1>2, NewGood
<1> HIDE DEF u, c
<1>4. DOMAIN stack' = {1} /\ stack'[1] = u
  BY <1>1
<1>5. ASSUME NEW d \in contexts', d[Len(d)] \in Func
      PROVE  Done(dead', visits', d) \/ \E n \in {1} : stack'[n].ctx = d
  <2>1. CASE d = c
    BY <1>3, <1>4, <2>1
  <2>2. CASE d \in contexts
    BY <1>1, <1>5, <2>2 DEF Kept
  <2>3. QED BY <1>1, <1>5, <2>1, <2>2
<1>6. QED BY <1>3, <1>4, <1>5 DEF Kept

LEMMA KeptInductive == IInv /\ Kept /\ [Next]_vars => Kept'
<1> SUFFICES ASSUME IInv, Kept, [Next]_vars PROVE Kept'
  OBVIOUS
<1>1. CASE visitBlock
  BY <1>1, VisitBlockKept
<1>2. CASE visitBranch
  BY <1>2, VisitBranchKept
<1>3. CASE return
  BY <1>3, ReturnKept
<1>4. CASE visitCallInst
  BY <1>4, VisitCallInstKept
<1>5. ASSUME NEW f \in Func \cup Decl, skipTarget(f) PROVE Kept'
  BY <1>5, SkipTargetKept
<1>6. ASSUME NEW f \in Func \cup Decl, processCalledFunction(f) PROVE Kept'
  <2>1. CASE f \in Func
    BY <1>6, <2>1, CallFuncKept
  <2>2. CASE f \notin Func
    BY <1>6, <2>2, CallDeclKept
  <2> QED
    BY <2>1, <2>2
<1>7. ASSUME NEW f \in Entries, enter(f) PROVE Kept'
  BY <1>7, EnterKept
<1>8. CASE UNCHANGED vars
  BY <1>8 DEF vars, Kept
<1> QED
  BY <1>1, <1>2, <1>3, <1>4, <1>5, <1>6, <1>7, <1>8 DEF Next, Step, Finished

(* When the walk is over the passes have seen every call of every live     *)
(* block, in every context that was analysed, and each callee that is not  *)
(* left out on purpose; whichever blocks died on the way, and however the  *)
(* functions call each other.                                              *)
THEOREM NothingIsForgotten == Spec => []NothingForgotten
<1>1. Kept => NothingForgotten
  <2> SUFFICES ASSUME Kept, ~Running, NEW c \in contexts, c[Len(c)] \in Func,
                      NEW s \in DOMAIN Order[c[Len(c)]],
                      NEW k \in DOMAIN Order[c[Len(c)]][s],
                      ~isDeadBB(c, Order[c[Len(c)]][s][k]),
                      NEW n \in DOMAIN Calls[Order[c[Len(c)]][s][k]],
                      Calls[Order[c[Len(c)]][s][k]][n] \notin Inferred,
                      NEW f \in Callees[Calls[Order[c[Len(c)]][s][k]][n]]
               PROVE  Seen(visits, c, Calls[Order[c[Len(c)]][s][k]][n], f)
    BY DEF NothingForgotten, Seen
  <2>1. DOMAIN stack = {}
    BY DEF Running
  <2>2. Done(dead, visits, c)
    BY <2>1 DEF Kept
  <2>3. QED BY <2>2 DEF Done, DeadIn, isDeadBB
<1> QED
  BY <1>1, InitInv, InitKept, Inductive, KeptInductive, PTL DEF Spec
=============================================================================
