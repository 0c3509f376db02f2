----------------------------- MODULE MCTraversal -----------------------------
(***************************************************************************)
(* Two entries and two functions that call each other in circles,        *)
(* directly and through pointers, from loops and blocks that may be dead.  *)
(***************************************************************************)
EXTENDS Traversal

F == {"e1", "e2", "g", "h"}
D == {"lock", "put"}

Flow ==
  [e1 |-> <<<<2, 4>>, <<3>>, <<2, 4>>, <<>>>>,
   e2 |-> <<<<1, 2>>, <<>>>>,
   g  |-> <<<<>>>>,
   h  |-> <<<<2, 3>>, <<3>>, <<>>>>]

B == {<<f, n>> : f \in F, n \in 1..4}

CallsOf(b) ==
  CASE b = <<"e1", 1>> -> <<"c1">>
    [] b = <<"e1", 2>> -> <<"c2", "c3">>
    [] b = <<"e1", 3>> -> <<"c4">>
    [] b = <<"e1", 4>> -> <<"c5">>
    [] b = <<"e2", 1>> -> <<"c6">>
    [] b = <<"g", 1>>  -> <<"c7">>
    [] b = <<"h", 1>>  -> <<"c8">>
    [] b = <<"h", 2>>  -> <<"c9", "c10">>
    [] b = <<"h", 3>>  -> <<"c11">>
    [] OTHER -> <<>>

CalleesOf ==
  [c1 |-> {"g"}, c2 |-> {"g", "h"}, c3 |-> {"lock"}, c4 |-> {"e1", "put"}, c5 |-> {"h"},
   c6 |-> {"g", "h", "put"}, c7 |-> {"h"}, c8 |-> {"g"}, c9 |-> {"put"}, c10 |-> {"h"},
   c11 |-> {}]

OrderOf ==
  [e1 |-> <<<<<<"e1", 1>>>>, <<<<"e1", 2>>, <<"e1", 3>>>>, <<<<"e1", 4>>>>>>,
   e2 |-> <<<<<<"e2", 1>>>>, <<<<"e2", 2>>>>>>,
   g  |-> <<<<<<"g", 1>>>>>>,
   h  |-> <<<<<<"h", 1>>>>, <<<<"h", 2>>>>, <<<<"h", 3>>>>>>]

(* That is an order that BBTraversalHelper may compute.                    *)
NoUses(g) == {}
Helper ==
  INSTANCE BlockOrder WITH
    Graphs <- {Flow[f] : f \in F}, Uses <- NoUses, graph <- <<>>, sccs <- <<>>, order <- <<>>,
    grey <- <<>>, sorted <- <<>>, uses <- <<>>, passes <- <<>>, step <- "done"
Numbers(f) == [i \in DOMAIN OrderOf[f] |-> [j \in DOMAIN OrderOf[f][i] |-> OrderOf[f][i][j][2]]]

ASSUME OrderIsTopological ==
  \A f \in F : Helper!Topological(Flow[f], Numbers(f)) /\ Helper!LoopOnce(Flow[f], Numbers(f))

KillOf(b) ==
  CASE b = <<"e1", 1>> -> {<<"e1", 4>>}
    [] b = <<"h", 1>>  -> {<<"h", 2>>}
    [] OTHER -> {}

MCCall == DOMAIN CalleesOf
MCCalls == [b \in B |-> CallsOf(b)]
MCKill == [b \in B |-> KillOf(b)]
MCEntries == {"e1", "e2"}
MCInferred == {"c6"}
=============================================================================
