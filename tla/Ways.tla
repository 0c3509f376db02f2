-------------------------------- MODULE Ways --------------------------------
(***************************************************************************)
(* The ways through a program with all calls expanded: the reference for   *)
(* what the queries of Reach answer.  A program is its flow graphs, the    *)
(* lengths of its blocks and the function that each call is of; calls of   *)
(* functions without a body are instructions like others.  Execution is    *)
(* left out but for the order of instructions: any branch may be taken.    *)
(***************************************************************************)
EXTENDS Reach

CONSTANTS
  Size,      \* the number of instructions of each block
  Target,    \* the function that a call is of
  main,      \* the entry function
  Contexts,  \* the calling contexts, all of them: nothing calls itself
  Subjects,  \* the locations that queries are about
  Blocklists \* the sets of locations that block

Inst == UNION {{<<b, n>> : n \in 1..Size[b]} : b \in Block}
Calls == DOMAIN Target

FirstOf(f) == First(entryBB[f])
Callee(c, i) == c \o <<i, FirstOf(Target[i])>>
Within(c, i) == getFunction(i) = getFunction(Last(c))

Locs == {Loc(p[1], p[2]) : p \in {q \in Inst \X Contexts : Within(q[2], q[1])}}
Global == Loc(None, <<>>)

(* An entry, then a call in its function and the entry of what it calls.   *)
IsContext(c) ==
  /\ c \in Seq(Inst) /\ Len(c) % 2 = 1 /\ c[1] = FirstOf(main)
  /\ \A p \in 1..Len(c) : p % 2 = 0 =>
       /\ c[p] \in Calls /\ getFunction(c[p]) = getFunction(c[p - 1])
       /\ c[p + 1] = FirstOf(Target[c[p]])

(* LLVM's rules: a call does not end its block, nothing goes back to the   *)
(* entry block.  Every block is reached and can return.                    *)
ASSUME ProgramAssumption ==
  /\ Size \in [Block -> Nat \ {0}]
  /\ main \in DOMAIN entryBB
  /\ \A i \in Calls :
       /\ i \in Inst /\ i[2] < Size[i[1]]
       /\ Target[i] \in DOMAIN entryBB /\ Target[i] # getFunction(i)
  /\ \A b \in Block :
       /\ entryBB[host[b]] \notin ToSet(succ[b])
       /\ b \in Visited({entryBB[host[b]]}, {})
       /\ \E r \in Visited({b}, {}) : succ[r] = <<>>

ASSUME ContextAssumption ==
  /\ IsFiniteSet(Contexts) /\ <<FirstOf(main)>> \in Contexts
  /\ \A c \in Contexts :
       /\ IsContext(c)
       /\ \A k \in 1..Len(c) : k % 2 = 1 => getPrefix(c, k) \in Contexts
       /\ \A i \in Calls : Within(c, i) => Callee(c, i) \in Contexts

ASSUME QueryAssumption ==
  /\ Subjects \subseteq {l \in Locs : l.inst \notin Calls}
  /\ \A B \in Blocklists : B \subseteq {l \in Locs : l.inst \notin Calls}

----------------------------------------------------------------------------
VARIABLE query

NoQuery == [this |-> Global, other |-> Global, blocklist |-> {}]
Asked == query # NoQuery

Init == query = NoQuery

(* `this` from `other`, or from the start.                                 *)
Ask ==
  /\ ~Asked
  /\ \E this \in Subjects, other \in Subjects \cup {Global} :
       \E B \in {b \in Blocklists : {this, other} \cap b = {}} :
         query' = [this |-> this, other |-> other, blocklist |-> B]

Answered == Asked /\ UNCHANGED query

Next == Ask \/ Answered
Spec == Init /\ [][Next]_query

----------------------------------------------------------------------------
After(l) ==
  IF l.inst[2] < Size[getParent(l.inst)] THEN {Loc(<<getParent(l.inst), l.inst[2] + 1>>, l.ctx)}
  ELSE {Loc(First(b), l.ctx) : b \in ToSet(succ[getParent(l.inst)])}

Start(c) == Loc(Last(c), c)
Caller(c) == CallSite(Loc(None, c), Len(c) - 1)

(* What may be executed after l.                                           *)
Then(l) ==
  IF l.inst \in Calls THEN {Start(Callee(l.ctx, l.inst))}
  ELSE IF After(l) = {} /\ Len(l.ctx) > 1 THEN After(Caller(l.ctx))
  ELSE After(l)
Follows == [l \in Locs |-> Then(l)]

(* Where executions come to that have been at the locations of W, do not   *)
(* leave `within` and end in D.                                            *)
Executed(W, D, within) == Reached([l \in Locs |-> IF l \in D THEN {} ELSE Follows[l] \cap within])[W]

(* The function activation that both locations are in, or are called from. *)
Shared(l, m) ==
  IF m.ctx = <<>> THEN <<FirstOf(main)>> ELSE getPrefix(l.ctx, Common(l.ctx, m.ctx))

Activation(c) == {l \in Locs : IsPrefix(c, l.ctx)}

(* From `other`, which is behind it, to `this`.                            *)
SomePath(this, other, blocklist) ==
  LET c == Shared(this, other)
      begin == IF other = Global THEN {Start(c)} \ blocklist ELSE Follows[other] \cap Activation(c)
  IN this = other \/ this \in Executed(begin, blocklist, Activation(c))

(* What the judgement of a callee by its blocking instructions is right    *)
(* for: bypassCall does not look at the first instruction, and a single    *)
(* one is compared with the blocks on every way to a return, to which the  *)
(* block of the only return does not belong.                               *)
Judged(blocklist) ==
  \A c \in Entered(blocklist) : Len(c) > 1 =>
    \A i \in getBlockersInCurrFunc(c, blocklist) :
      i # Last(c) /\ getRetBBs(getFunction(i)) # {getParent(i)}

(* An answer that there is a way is right: no blocking location is on it,  *)
(* not in the calls that it passes nor in those that it leaves and enters. *)
ReachMeansPath ==
  Asked /\ reachable(query.this, query.other, query.blocklist) /\ Judged(query.blocklist) =>
    SomePath(query.this, query.other, query.blocklist)

(* The calls that lead to `this` do not block as a whole.                  *)
CallsOpen(this, blocklist) ==
  \A p \in {n \in DOMAIN this.ctx : n % 2 = 0} :
    this.ctx[p] \notin getBlockersInCurrFunc(getPrefix(this.ctx, p - 1), blocklist)

(* No way is missed, if none of the calls that lead to `this` is blocked   *)
(* as a whole: the code takes such a call for blocked before it is made.   *)
PathMeansReach ==
  Asked /\ CallsOpen(query.this, query.blocklist)
    /\ SomePath(query.this, query.other, query.blocklist) =>
      reachable(query.this, query.other, query.blocklist)

(* All ways from the start of the activation to `other` pass `this`.       *)
Before(this, other) ==
  LET c == Shared(this, other)
  IN other \notin Executed({Start(c)}, {this}, Activation(c))

(* All ways from `other` out of the activation pass `this`.                *)
Leaves(c) == {l \in Activation(c) : l.ctx = c /\ Follows[l] \cap Activation(c) = {}}
Behind(this, other) ==
  LET c == Shared(this, other)
  IN Leaves(c) \cap (Executed({other}, {this}, Activation(c)) \ {this}) = {}

(* The branches that a condition check is looked for at are those that     *)
(* every execution that gets to the block takes the same way.              *)
BranchesDecide == ~Asked => BranchesAreTaken

(* What is said to be executed before, or after, is so in every execution; *)
(* the critical branches, also those that guard the calls, are taken.      *)
DomSound ==
  Asked /\ query.blocklist = {} =>
    /\ query.other \notin {Global, query.this} =>
         /\ dom(query.this, query.other, FALSE) => Before(query.this, query.other)
         /\ postDom(query.this, query.other, FALSE) => Behind(query.this, query.other)
    /\ query.other = Global =>
         \A s \in locCriticalBranches(query.this) \ {query.this} : Before(s, query.this)
=============================================================================
