--------------------------- MODULE MCThreadSched ---------------------------
(* Schedules over three entry functions with one warning each.             *)
(*   A: lock(l1); f: free(p); if (..) k: p = 0; unlock(u1); if (cv) v: *p; *)
(*   B: lock(l2); if (..) g: q = 0; else if (..) lock(l4); t: x = q;       *)
(*      if (c: x) u: *x; unlock(u2); unlock(u4); if (w: !q) d: *p;         *)
(*   C: while (y: q) C();                                                  *)
(*      where C() { e: q = p; lock(l3); z: p = 0; unlock(u3); h: q = new; }  *)
(* k and z kill the checks c and cv, g kills c, w and y.                   *)
EXTENDS ThreadSched

CONSTANTS l1, f, k, u1, cv, v, l2, g, t, c, u, u2, l4, u4, w, d, y, e, l3, z, u3, h,
          BackEdge   \* that of C, if it is a loop

MCLoc == {l1, f, k, u1, cv, v, l2, g, t, c, u, u2, l4, u4, w, d, y, e, l3, z, u3, h}
Edge ==
  {<<l1, f>>, <<f, k>>, <<f, u1>>, <<k, u1>>, <<u1, cv>>, <<cv, v>>}
  \cup {<<l2, g>>, <<l2, l4>>, <<l2, t>>, <<g, t>>, <<l4, t>>, <<t, c>>, <<c, u>>, <<c, u2>>, <<u, u2>>,
        <<u2, u4>>, <<u4, w>>, <<w, d>>}
  \cup {<<y, e>>, <<e, l3>>, <<l3, z>>, <<z, u3>>, <<u3, h>>} \cup BackEdge
Loop == {<<h, y>>}
NoLoop == {}
Entry == {l1, l2, y}
Exits == {v, cv, d, w, y, h}

(* All locations on a path from l that runs through no blocker.            *)
Step(S, blk) == S \cup { m \in MCLoc \ blk : \E l \in S : <<l, m>> \in Edge }
From(l, blk) == FoldSet(LAMBDA m, S : Step(S, blk), {l}, MCLoc)

NoneOrOne == {{}} \cup { {l} : l \in MCLoc }
Tab == [l \in MCLoc |-> [blk \in NoneOrOne |-> From(l, blk)]]
Path(l, m, blk) == m \in Tab[l][blk]
MCFollows(l, m) == Path(l, m, {})

(* Within one call, reachable does not see the loop around the call.       *)
Callee == {e, l3, z, u3, h}
MCReaches(l, m, blk) ==
  Path(l, m, blk) /\ ({l, m} \subseteq Callee => Path(l, m, {y}))
MCDom(l, m) ==
  l = m \/ \E n \in Entry : Path(n, m, {}) /\ Path(n, l, {}) /\ (n = l \/ ~Path(n, m, {l}))
MCPostDom(l, m) == l = m \/ \A x \in Exits : x # l => ~Path(m, x, {l})
MCTypes == EventTypes

MCLockInfos == {"L1", "L2", "L3", "L4"}
MCLockLoc(i) == CASE i = "L1" -> l1 [] i = "L2" -> l2 [] i = "L3" -> l3 [] i = "L4" -> l4
MCUnlocks(i) == CASE i = "L1" -> {u1} [] i = "L2" -> {u2} [] i = "L3" -> {u3} [] i = "L4" -> {u4}
MCIsCtxPrefix(a, b) == TRUE
SameObject(i, j) == i = j \/ {i, j} = {"L1", "L2"}
(* L2 is taken on an object that stands for those of L1 and of L3.         *)
SameEither(i, j) == i = j \/ ("L2" \in {i, j} /\ "L4" \notin {i, j})

MCCriticalBranches(l) ==
  CASE l = u -> {[check |-> c, killers |-> {g, k, z}]}
    [] l = v -> {[check |-> cv, killers |-> {k}]}
    [] l = d -> {[check |-> w, killers |-> {g}]}
    [] l \in {e, l3, z, u3, h} -> {[check |-> y, killers |-> {g}]}
    [] OTHER -> {}
MCEscapesLocalHeap(l) == l = h

NoPath == <<>>
Hop(esc) == <<[label |-> "ESCAPE", loc |-> esc], [label |-> "FETCH", loc |-> t]>>
MCRank == <<"L3", "L1", "L2", "L4", u1, u2, u3, u4>>
Warn(fl, ul, path) == [floc |-> fl, uloc |-> ul, paths |-> <<NoPath, path>>, rank |-> MCRank]
MCWarnings ==
  {Warn(f, u, NoPath), Warn(f, u, Hop(e)), Warn(f, u, Hop(k)), Warn(f, u, Hop(h)),
   Warn(f, z, Hop(e)), Warn(f, d, Hop(e)), Warn(f, v, NoPath), Warn(f, f, NoPath),
   Warn(g, u, NoPath)}
CrossWarnings == {Warn(f, u, Hop(e))}
=============================================================================
