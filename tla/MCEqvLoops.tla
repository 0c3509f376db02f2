---------------------------- MODULE MCEqvLoops -----------------------------
(* A chain of objects g.1 -> p -> so -> co -> mo -> k, k being of the type *)
(* of p and co stored in g.3 too; the placeholders that an entry function  *)
(* creates when it loads along it; a list of two nodes, each the next of   *)
(* the other, and an object w embedded in the first that points to a third *)
(* node.                                                                   *)
EXTENDS EqvSearch

CONSTANTS g, p, so, co, mo, k, pd, sd, cd, l1, l2, ld, nd, w, l3

MCObj == {g, p, so, co, mo, k, pd, sd, cd, l1, l2, ld, nd, w, l3}
To(x, f, o) == [src |-> x, field |-> f, dst |-> o, base |-> TRUE, is_creation |-> FALSE]
Loaded(x, f, o) == [To(x, f, o) EXCEPT !.is_creation = TRUE]

MCPto ==
  { To(g, 1, p), To(p, 1, so), To(so, 1, co), To(g, 3, co), To(co, 1, mo), To(mo, 1, k),
    Loaded(g, 1, pd), Loaded(pd, 1, sd), Loaded(sd, 1, cd),
    To(g, 2, l1), To(l1, 1, l2), To(l2, 1, l1), Loaded(g, 2, ld), Loaded(ld, 1, nd), To(w, 1, l3) }
MCparent(o) == IF o = w THEN l1 ELSE NoObj
MCgetEmbObj(h, o) == IF h = l1 /\ o = w THEN w ELSE NoObj
MCisDummy(o) == o \in {pd, sd, cd, ld, nd}
MCtype(o) ==
  CASE o \in {p, k, pd} -> "P" [] o \in {so, sd} -> "S" [] o \in {co, cd} -> "C"
    [] o = mo -> "M" [] o = w -> "W" [] o = g -> "G" [] OTHER -> "list"
MCSameTypes(x, y) == MCtype(x) = MCtype(y)
MCQueries ==
  { <<"forward", k>>, <<"forward", co>>, <<"forward", l2>>, <<"forward", l1>>,
    <<"backward", cd>>, <<"backward", nd>>, <<"forward", l3>> }
=============================================================================
