------------------------------ MODULE MCThread ------------------------------
(* Thread over the flow graph of one entry function:                       *)
(*   if (..) { c: return; }  do { b; f(); } while (..); return;            *)
(* where f() { d; e; }.  c excludes b, d and e, which come after each other*)
(* in any order through the loop.                                          *)
EXTENDS Thread

CONSTANTS b, c, d, e

MCLoc == {b, c, d, e}
Edge == {<<b, d>>, <<d, e>>, <<e, b>>}
Entries == {b, c}
Exits == {c, e}

Succ(S, blk) == { m \in MCLoc \ blk : \E l \in S : <<l, m>> \in Edge }

(* All locations on a path from S that runs through no blocker.            *)
From(S, blk) ==
  LET grow[n \in 0 .. Cardinality(MCLoc)] ==
        IF n = 0 THEN Succ(S, blk) ELSE grow[n - 1] \cup Succ(grow[n - 1], blk)
  IN  grow[Cardinality(MCLoc)]

Tab == [l \in MCLoc |-> [blk \in SUBSET MCLoc |-> {l} \cup From({l}, blk)]]
Path(l, m, blk) == m \in Tab[l][blk]
MCFollows(l, m) == Path(l, m, {})

(* Within one call, reachable does not see the loop around the call.       *)
MCReaches(l, m, blk) == Path(l, m, blk) /\ <<l, m>> # <<e, d>>
MCDom(l, m) == l = m \/ \A n \in Entries : n # l => ~Path(n, m, {l})
MCPostDom(l, m) == l = m \/ \A x \in Exits : x # l => ~Path(m, x, {l})
MCTypes == {"LOCK"}
MCTrace == { t \in UNION { [1 .. n -> MCLoc] : n \in 0 .. 3 } :
               \A i, j \in 1 .. Len(t) : i < j => MCFollows(t[i], t[j]) }
=============================================================================
