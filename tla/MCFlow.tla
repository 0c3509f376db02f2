-------------------------------- MODULE MCFlow --------------------------------
(***************************************************************************)
(* Every flow graph of a few blocks, every order in which LLVM may list    *)
(* its components, and the uses of one value per block.                    *)
(*                                                                         *)
(* And queries about a program of three functions, against the ways        *)
(* through the program with all calls expanded.  The entry function calls  *)
(* g in a loop and in a branch and h at the end, g calls h in a branch.    *)
(***************************************************************************)
EXTENDS Ways, BlockOrder

CONSTANT N   \* bound: blocks

Nodes == 1..N

(* At most two successors, as of a branch; a switch at the entry has more. *)
Terminators == {s \in SeqOf(Nodes, 2) : Len(s) = 2 => s[1] # s[2]}
Switch == [i \in 1..(N - 1) |-> i + 1]

Place(s, b) == CHOOSE i \in DOMAIN s : s[i] = b /\ \A j \in 1..(i - 1) : s[j] # b

(* Blocks have their numbers in the order of a breadth-first search: one   *)
(* graph for all that differ in the names of the blocks only.              *)
Numbered(g) ==
  LET found == <<1>> \o FlattenSeq(g)
  IN Nodes \subseteq ToSet(found) /\ \A b \in 1..(N - 1) : Place(found, b) < Place(found, b + 1)

(* Each block is a successor of an earlier one.                            *)
Reachable(g) == \A b \in 2..N : \E a \in 1..(b - 1) : b \in ToSet(g[a])

MCGraphs ==
  {g \in [Nodes -> Terminators \cup {Switch}] :
     (\A b \in Nodes : g[b] = Switch => b = 1) /\ Numbered(g) /\ Reachable(g)}

(* One loop of all blocks is enough for the uses, of one value per block.  *)
Ring == [b \in Nodes |-> <<(b % N) + 1>>]
MCUses(g) == IF g = Ring THEN [Nodes -> {{}} \cup {{b} : b \in Nodes}] ELSE {[b \in Nodes |-> {}]}

----------------------------------------------------------------------------
MCBlock == 1..13
MCHost == [b \in MCBlock |-> IF b <= 6 THEN "e" ELSE IF b <= 10 THEN "g" ELSE "h"]
MCEntry == [f \in {"e", "g", "h"} |-> CASE f = "e" -> 1 [] f = "g" -> 7 [] f = "h" -> 11]
MCSucc ==
  <<<<2>>, <<3, 4>>, <<2>>, <<5, 6>>, <<6>>, <<>>,
    <<8, 9>>, <<10>>, <<10>>, <<>>, <<12, 13>>, <<>>, <<>>>>
MCSize == <<1, 1, 2, 1, 2, 2, 2, 3, 1, 1, 2, 1, 1>>

CallsOf == [g |-> {<<3, 1>>, <<5, 1>>}, h |-> {<<6, 1>>, <<8, 2>>}]
MCTarget == [i \in CallsOf.g \cup CallsOf.h |-> IF i \in CallsOf.g THEN "g" ELSE "h"]

Extended(ctxs) ==
  ctxs \cup {Callee(p[1], p[2]) : p \in {q \in ctxs \X Calls : Within(q[1], q[2])}}
MCContexts == Extended(Extended({<<FirstOf("e")>>}))

MCSubjects == {l \in Locs :
  l.inst \in {<<1, 1>>, <<3, 2>>, <<5, 2>>, <<6, 2>>, <<7, 2>>, <<8, 3>>, <<10, 1>>, <<11, 2>>}}
(* Bound: at most two locations block.                                     *)
Blocking == {l \in Locs : l.inst \notin Calls}
MCBlocklists == {{}} \cup {{p[1], p[2]} : p \in Blocking \X Blocking}

(* Either the order of a function is computed, or questions are asked.     *)
FlowInit == Init /\ (OrderInit \/ (graph = succ /\ sccs = <<>> /\ order = <<>> /\ grey = <<>>
                                    /\ sorted = <<>> /\ uses = <<>> /\ passes = <<>> /\ step = "program"))
FlowNext ==
  \/ OrderNext /\ UNCHANGED query
  \/ step = "program" /\ Next /\ UNCHANGED orderVars

FlowSpec == FlowInit /\ [][FlowNext]_<<query, orderVars>>

----------------------------------------------------------------------------
(* "if InstLoc A post-dom InstLoc B, that means all execution flows from   *)
(* InstLoc B will eventually reach InstLoc A", also from one call of a     *)
(* function to what another one calls.                                     *)
DomComplete ==
  Asked /\ query.blocklist = {} /\ query.other \notin {Global, query.this} =>
    (Behind(query.this, query.other) => postDom(query.this, query.other, FALSE))
=============================================================================
