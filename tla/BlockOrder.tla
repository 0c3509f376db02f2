----------------------------- MODULE BlockOrder -----------------------------
(***************************************************************************)
(* BBTraversalHelper: the order in which the basic blocks of a function    *)
(* are analysed, and how often a loop is.                                  *)
(*                                                                         *)
(* A flow graph is graph[b], the successors of block b in the order of its *)
(* terminator; the entry is block 1.  The strongly connected components    *)
(* come from LLVM's scc_iterator, as a sequence of sequences of blocks.    *)
(***************************************************************************)
EXTENDS Integers, Sequences, SequencesExt, FiniteSets

CONSTANTS
  Graphs,   \* flow graphs of functions
  Uses(_)   \* for each block, the blocks whose instructions are operands in it

ASSUME GraphsAssumption ==
  \A g \in Graphs :
    /\ IsFiniteSet(DOMAIN g) /\ 1 \in DOMAIN g
    /\ g \in [DOMAIN g -> Seq(DOMAIN g)]
    /\ Uses(g) \subseteq [DOMAIN g -> SUBSET DOMAIN g]

VARIABLES
  graph,
  sccs,     \* what scc_iterator lists
  order,    \* oCache of the function, as far as it is computed
  grey,     \* the calls of recursiveDFSToposort, of TopoSorter's GREY blocks
  sorted,   \* SortedBBs from its end to its start, the BLACK blocks
  uses,
  passes,   \* getNumTimesToAnalyze of each component in order
  step

orderVars == <<graph, sccs, order, grey, sorted, uses, passes, step>>

----------------------------------------------------------------------------
(* Flow graphs.  What is reached from b inside of a set of blocks.         *)
ReachFrom(next, b, within) ==
  LET r[S \in SUBSET within] ==
        LET T == S \cup (within \cap UNION {next[x] : x \in S}) IN IF T = S THEN S ELSE r[T]
  IN r[{b}]

Succs(g) == [b \in DOMAIN g |-> ToSet(g[b])]
Live(g) == ReachFrom(Succs(g), 1, DOMAIN g)
ReachedFrom(g) == LET live == Live(g) IN [b \in live |-> ReachFrom(Succs(g), b, live)]
Components(g) == LET to == ReachedFrom(g) IN {{c \in to[b] : b \in to[c]} : b \in DOMAIN to}

(* A depth-first search comes into a component at a root.                  *)
Roots(g, scc) == {b \in scc : b = 1 \/ \E a \in Live(g) \ scc : b \in ToSet(g[a])}

(* LLVM's iteration over the components: every one after those that it     *)
(* has an edge to, the root of each is the last of its blocks.             *)
scc_iterator(g) ==
  LET comps == Components(g)
      listed(scc) == {t \in SetToSeqs(scc) : Last(t) \in Roots(g, scc)}
      ordered(s) == \A i, j \in DOMAIN s : i < j => \A a \in s[i] : ToSet(g[a]) \cap s[j] = {}
  IN UNION {{[i \in DOMAIN s |-> choice[s[i]]] :
               choice \in {f \in [comps -> UNION {listed(c) : c \in comps}] :
                             \A c \in comps : f[c] \in listed(c)}} :
            s \in {t \in SetToSeqs(comps) : ordered(t)}}

OrderInit ==
  /\ graph \in Graphs
  /\ sccs = <<>> /\ order = <<>> /\ grey = <<>> /\ sorted = <<>>
  /\ uses = <<>> /\ passes = <<>> /\ step = "graph"

Iterate ==
  /\ step = "graph"
  /\ sccs' \in scc_iterator(graph)
  /\ step' = "sort"
  /\ UNCHANGED <<graph, order, grey, sorted, uses, passes>>

----------------------------------------------------------------------------
(* getSCCTraversalOrder: components are put in front of those before, each *)
(* the other way round than it is listed, and sorted.                      *)
Sorting == step = "sort" /\ Len(order) < Len(sccs)
newCurrSCC == Reverse(sccs[Len(order) + 1])
Rest == UNCHANGED <<graph, sccs, uses, passes, step>>

takeSCC ==
  /\ Sorting /\ grey = <<>>
  /\ IF Len(newCurrSCC) > 1
     THEN grey' = <<newCurrSCC[1]>> /\ UNCHANGED order
     ELSE order' = <<newCurrSCC>> \o order /\ UNCHANGED grey
  /\ UNCHANGED sorted /\ Rest

(* recursiveDFSToposort: to the first successor that is white.  One that   *)
(* is grey is the target of a back edge, and passed over.                  *)
White == ToSet(newCurrSCC) \ (ToSet(grey) \cup ToSet(sorted))
visitSucc ==
  /\ Sorting /\ grey # <<>>
  /\ \E k \in DOMAIN graph[Last(grey)] :
       /\ graph[Last(grey)][k] \in White
       /\ \A n \in 1..(k - 1) : graph[Last(grey)][n] \notin White
       /\ grey' = Append(grey, graph[Last(grey)][k])
  /\ UNCHANGED <<order, sorted>> /\ Rest

(* Mutant: SortedBBs is taken over as it is.                               *)
FinishedAsIs(b) == Append(sorted, b)

(* A block is put down when all its successors have been; when the first   *)
(* one is, the component takes over the order.                             *)
Finished(b) == <<b>> \o sorted
finishBB ==
  /\ Sorting /\ grey # <<>>
  /\ ToSet(graph[Last(grey)]) \cap White = {}
  /\ grey' = Front(grey)
  /\ IF Len(grey) = 1
     THEN order' = <<Finished(Last(grey))>> \o order /\ sorted' = <<>>
     ELSE sorted' = Finished(Last(grey)) /\ UNCHANGED order
  /\ Rest

----------------------------------------------------------------------------
(* getNumTimesToAnalyze: one chain of uses is computed for each block that *)
(* is in no chain before.                                                  *)
(* Mutant: uses of uses are not followed.                                  *)
useDefChainDirect(use, scc, b) == {b} \cup (use[b] \cap ToSet(scc))

useDefChain(use, scc, b) == ReachFrom(use, b, ToSet(scc))

NoLength == 0

(* The blocks of a chain that have no length take over the one of it.      *)
Chained(len, chain) ==
  [x \in DOMAIN len |-> IF x \in chain /\ len[x] = NoLength THEN Cardinality(chain) ELSE len[x]]

useDefLength(use, scc) ==
  LET length[n \in 0..Len(scc)] ==
        IF n = 0 THEN [x \in ToSet(scc) |-> NoLength]
        ELSE LET len == length[n - 1] IN
             IF len[scc[n]] # NoLength THEN len ELSE Chained(len, useDefChain(use, scc, scc[n]))
  IN length[Len(scc)]

getNumTimesToAnalyze(use, scc) ==
  LET lengths == {1} \cup {useDefLength(use, scc)[b] : b \in ToSet(scc)}
  IN CHOOSE n \in lengths : \A m \in lengths : n >= m

count ==
  /\ step = "sort" /\ Len(order) = Len(sccs)
  /\ uses' \in Uses(graph)
  /\ passes' = [i \in DOMAIN order |-> getNumTimesToAnalyze(uses', order[i])]
  /\ step' = "done"
  /\ UNCHANGED <<graph, sccs, order, grey, sorted>>

Done == step = "done" /\ UNCHANGED orderVars

OrderNext == Iterate \/ takeSCC \/ visitSucc \/ finishBB \/ count \/ Done
OrderSpec == OrderInit /\ [][OrderNext]_orderVars

----------------------------------------------------------------------------
(* The places of b in an order: a component, and a number in it.           *)
Places(ord, b) == {p \in UNION {{i} \X DOMAIN ord[i] : i \in DOMAIN ord} : ord[p[1]][p[2]] = b}
Precedes(ord, a, b) ==
  \A p \in Places(ord, a), q \in Places(ord, b) : p[1] < q[1] \/ (p[1] = q[1] /\ p[2] < q[2])

(* "We want to get a topological sort": every block of the function is     *)
(* listed once, after all blocks that lead to it and that it does not lead *)
(* back to.                                                                *)
Topological(g, ord) ==
  LET to == ReachedFrom(g)
  IN /\ \A b \in DOMAIN to : Cardinality(Places(ord, b)) = 1
     /\ \A a \in DOMAIN to : \A b \in to[a] : a \notin to[b] => Precedes(ord, a, b)

(* c is on every path in the loop from its head h to b.                    *)
DominatesIn(g, loop, h, c, b) == c = h \/ b = c \/ b \notin ReachFrom(Succs(g), h, loop \ {c})

(* The edges of a loop with head h but for those back to a dominator.      *)
ForwardEdges(g, loop, h) ==
  [b \in loop |-> {c \in ToSet(g[b]) \cap loop : ~DominatesIn(g, loop, h, c, b)}]

(* Without its back edges nothing in the loop goes round.                  *)
Reducible(forward) ==
  \A b \in DOMAIN forward : \A c \in forward[b] : b \notin ReachFrom(forward, c, DOMAIN forward)

(* "As if the loop is only executed once": in a loop with one head, also   *)
(* with loops inside of it, all edges but the back edges go forward.       *)
LoopOnce(g, ord) ==
  \A loop \in Components(g) : \A h \in loop :
    LET forward == ForwardEdges(g, loop, h)
    IN Roots(g, loop) = {h} /\ Reducible(forward) =>
         \A b \in loop : \A c \in forward[b] : Precedes(ord, b, c)

(* Blocks are walked in an order in which all that leads to a block has    *)
(* been seen before it, once round a loop.                                 *)
OrderLeads == step = "done" => Topological(graph, order) /\ LoopOnce(graph, order)

(* The number of passes is the length of the longest chain of uses,        *)
(* although chains are computed for some blocks only.                      *)
LongestChain ==
  step = "done" =>
    \A i \in DOMAIN order :
      LET Chain(b) == ReachFrom(uses, b, ToSet(order[i])) 
      IN /\ \A b \in ToSet(order[i]) : Cardinality(Chain(b)) <= passes[i]
         /\ \E b \in ToSet(order[i]) : Cardinality(Chain(b)) = passes[i]
=============================================================================
