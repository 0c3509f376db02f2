---------------------------- MODULE MCEqvSearch ----------------------------
(* g is a global object.  An entry function stores p in g.1, and q in p.1; *)
(* another one loads them as pd and qd; q and qd are stored in g.2, where a *)
(* third one loads qe.  The objects of type E are embedded in those of     *)
(* type Q.  l1, l2 and k, of three types, point to each other in a circle; *)
(* ld and nd are loaded along it.  l3, of the type of l1, points into it.  *)
EXTENDS EqvSearch

CONSTANTS g, p, pd, q, qd, qe, e, ed, ee, l1, l2, k, l3, ld, nd

MCObj == {g, p, pd, q, qd, qe, e, ed, ee, l1, l2, k, l3, ld, nd}
To(s, f, o) == [src |-> s, field |-> f, dst |-> o, base |-> TRUE, is_creation |-> FALSE]
Loaded(s, f, o) == [To(s, f, o) EXCEPT !.is_creation = TRUE]

MCPto ==
  { To(g, 1, p), Loaded(g, 1, pd), To(p, 1, q), Loaded(pd, 1, qd),
    To(g, 2, qd), To(g, 2, q), Loaded(g, 2, qe),
    To(g, 3, l1), To(l1, 1, l2), To(l2, 1, k), To(k, 1, l1), To(l3, 1, k), Loaded(g, 3, ld), Loaded(ld, 1, nd) }

MCparent(o) == CASE o = e -> q [] o = ed -> qd [] o = ee -> qe [] OTHER -> NoObj
MCgetEmbObj(h, o) ==
  CASE h = q /\ o \in {e, ed, ee} -> e
    [] h = qd /\ o \in {e, ed, ee} -> ed
    [] h = qe /\ o \in {e, ed, ee} -> ee
    [] OTHER -> NoObj
MCisDummy(o) == o \in {pd, qd, qe, ed, ee, ld, nd}
MCtype(o) ==
  CASE o \in {p, pd} -> "P" [] o \in {q, qd, qe} -> "Q" [] o \in {e, ed, ee} -> "E"
    [] o = g -> "G" [] o = k -> "K" [] o \in {l2, nd} -> "node" [] OTHER -> "list"
MCSameTypes(x, y) == MCtype(x) = MCtype(y)
MCQueries ==
  { <<"forward", e>>, <<"forward", q>>, <<"forward", qd>>,
    <<"backward", ee>>, <<"backward", qe>>, <<"backward", qd>>, <<"forward", p>>,
    <<"forward", l1>>, <<"backward", nd>> }

(* The run is one of those that exactness is proved for, and that the      *)
(* directions agree is proved for where no search is cut short.            *)
ASSUME RunNotCutShort == NothingCutShort
ASSUME RunConvertible == Convertible
=============================================================================
