-------------------------------- MODULE Flow --------------------------------
(***************************************************************************)
(* Control flow inside of functions (CFGUtils.cpp): reachability with      *)
(* blocking instructions, dominance, and the branches an instruction       *)
(* depends on.                                                             *)
(*                                                                         *)
(* An instruction is <<b, n>>, the n-th of block b.  The searches of the   *)
(* code visit blocks in the order of a worklist, which the answers do not  *)
(* depend on; here they are closures.  No caller sets their limit.         *)
(***************************************************************************)
EXTENDS Naturals, Sequences, SequencesExt, FiniteSets

CONSTANTS
  Block,     \* the blocks of all functions
  entryBB,   \* the entry block of each function
  host,      \* the function of a block
  succ       \* the successors of a block, as its last instruction lists them

ASSUME FlowAssumption ==
  /\ IsFiniteSet(Block)
  /\ succ \in [Block -> Seq(Block)]
  /\ \A f \in DOMAIN entryBB : entryBB[f] \in Block /\ host[entryBB[f]] = f
  /\ \A b \in Block : host[b] \in DOMAIN entryBB /\ \A s \in ToSet(succ[b]) : host[s] = host[b]

None == <<>>   \* a null pointer to an instruction
getParent(i) == i[1]
getFunction(i) == host[i[1]]

(* From each set of nodes, what comes next being next[x].                 *)
Reached(next) ==
  LET r[S \in SUBSET DOMAIN next] ==
        LET T == S \cup UNION {next[x] : x \in S} IN IF T = S THEN S ELSE r[T]
  IN r

(* Blocks that a search from those in W comes to if it ends in those of D. *)
Visited(W, D) == Reached([b \in Block |-> IF b \in D THEN {} ELSE ToSet(succ[b])])[W]

(* No Stop: any return.                                                    *)
isPotentiallyReachableFromMany(W, Stop, blocklist) ==
  \E killed \in {{getParent(i) : i \in blocklist}} : \E seen \in {Visited(W, killed)} :
    IF Stop = None THEN \E b \in seen \ killed : succ[b] = <<>>
    ELSE /\ getParent(Stop) \in seen
         /\ \A i \in blocklist : getParent(i) = getParent(Stop) => i[2] >= Stop[2]

(* From A on and in its block, the first of B and of the blocking ones.    *)
isReachableInBB(A, B) == getParent(A) = getParent(B) /\ A[2] <= B[2]
Ahead(A, blocklist) == {i \in blocklist : i # A /\ isReachableInBB(A, i)}

(* B cannot be entered from the start of its block: also if it blocks      *)
(* itself.                                                                 *)
Shut(B, blocklist) == \E i \in blocklist : isReachableInBB(i, B)

FromEntry(B, blocklist) ==
  blocklist # {} =>
    /\ ~Shut(B, blocklist)
    /\ isPotentiallyReachableFromMany({entryBB[getFunction(B)]}, B, blocklist)

ToReturn(A, blocklist) ==
  blocklist # {} =>
    /\ Ahead(A, blocklist) = {}
    /\ \/ succ[getParent(A)] = <<>>
       \/ isPotentiallyReachableFromMany(ToSet(succ[getParent(A)]), None, blocklist)

Between(A, B, blocklist) ==
  IF isReachableInBB(A, B) THEN \A i \in Ahead(A, blocklist) : i[2] >= B[2]
  ELSE IF blocklist = {} /\ getParent(A) # getParent(B)
            /\ entryBB[getFunction(A)] \in {getParent(A), getParent(B)}
       THEN getParent(A) = entryBB[getFunction(A)]
       ELSE /\ Ahead(A, blocklist) = {}
            /\ ~(getParent(A) = getParent(B) /\ getParent(A) = entryBB[getFunction(A)])
            /\ ~Shut(B, blocklist)
            /\ isPotentiallyReachableFromMany(ToSet(succ[getParent(A)]), B, blocklist)

(* No A: from the entry; no B: to a return.                                *)
isPotentiallyReachable(A, B, blocklist) ==
  CASE A = None /\ B = None -> TRUE
    [] A = None /\ B # None -> FromEntry(B, blocklist)
    [] A # None /\ B = None -> ToReturn(A, blocklist)
    [] OTHER -> getFunction(A) = getFunction(B) /\ Between(A, B, blocklist)

----------------------------------------------------------------------------
(* LLVM's dominator trees: a is on every path from the entry to b, or on   *)
(* every path from b to a return.                                          *)
Dominates(a, b) == a = b \/ b \notin Visited({entryBB[host[b]]} \ {a}, {a})
PostDominates(a, b) == a = b \/ \A r \in Visited({b} \ {a}, {a}) \ {a} : succ[r] # <<>>

getDominators(b) == {a \in Block : host[a] = host[b] /\ a # b /\ Dominates(a, b)}

(* Blocks that are on every path from the entry to a return; a block that  *)
(* returns does not count as one.  Empty if the entry returns.             *)
getRetBBs(f) == {b \in Block : host[b] = f /\ succ[b] = <<>>}
getDomsForRet(f) ==
  {a \in UNION {getDominators(r) : r \in getRetBBs(f)} :
     \A r \in getRetBBs(f) : a \in getDominators(r)}

InOrder(src, end, is_strict) == IF src = end THEN ~is_strict ELSE src[2] < end[2]

(* end post-dominates src.                                                 *)
instPostDom(src, end, is_strict) ==
  /\ getFunction(src) = getFunction(end)
  /\ IF getParent(src) = getParent(end) THEN InOrder(src, end, is_strict)
     ELSE PostDominates(getParent(end), getParent(src))

(* src dominates end.                                                      *)
instDom(src, end, is_strict) ==
  /\ getFunction(src) = getFunction(end)
  /\ IF getParent(src) = getParent(end) THEN InOrder(src, end, is_strict)
     ELSE Dominates(getParent(src), getParent(end))

----------------------------------------------------------------------------
First(b) == <<b, 1>>

(* Mutant: also by a way that goes back to b.                              *)
LeadingBack(b, s) ==
  {s} \cup {o \in ToSet(succ[b]) \ {s, b} :
              isPotentiallyReachable(First(o), First(s), {})}

(* getCondCoverMap: the successors of b that do not come about whichever   *)
(* way b branches, each with the branches that do lead to it.              *)
Leading(b, s) ==
  {s} \cup {o \in ToSet(succ[b]) \ {s, b} :
              isPotentiallyReachable(First(o), First(s), {First(b)})}
getCondCoverMap(b) ==
  {e \in {<<s, Leading(b, s)>> :
            s \in {t \in ToSet(succ[b]) \ {b} : b \in getDominators(t)}} :
     Cardinality(e[2]) < Cardinality(ToSet(succ[b]))}

(* The blocks that end in a branch which must be taken to get to b, with   *)
(* the successor it must be taken to.                                      *)
getCriticalBranches(b) ==
  {p \in getDominators(b) \X (getDominators(b) \cup {b}) :
     \E e \in getCondCoverMap(p[1]) : e[1] = p[2] /\ Cardinality(e[2]) = 1}

----------------------------------------------------------------------------
(* What is reached without the branch from d to s.                         *)
Without(d, s) ==
  Reached([b \in Block |-> IF b = d THEN ToSet(succ[b]) \ {s} ELSE ToSet(succ[b])])

(* The branches that a condition check is looked for at: exactly those     *)
(* that every path from the entry to the block takes the same way.         *)
BranchesAreTaken ==
  \A f \in DOMAIN entryBB : \A b \in Visited({entryBB[f]}, {}) :
    getCriticalBranches(b) =
      {p \in Block \X Block :
         /\ p[2] \in ToSet(succ[p[1]]) /\ Cardinality(ToSet(succ[p[1]])) > 1
         /\ b \notin Without(p[1], p[2])[{entryBB[f]}]}
=============================================================================
