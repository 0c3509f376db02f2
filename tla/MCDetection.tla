---------------------------- MODULE MCDetection ----------------------------
(* A heap object h escapes and is fetched as the placeholders a and b, b   *)
(* also stands for what is stored in a.  One site frees a or b; t is a use *)
(* in a pthread.                                                           *)
EXTENDS Detection

CONSTANTS h, a, b, f1, f2, u1, u2, t

MCObj == {h, a, b}
MCSite == {f1, f2, u1, u2, t}
MCFreeSites(o) == CASE o = h -> {f1} [] o = a -> {f2} [] o = b -> {f2} [] OTHER -> {}
MCAccessSites(o) == CASE o = h -> {u2} [] o = a -> {u1, t} [] o = b -> {u1, t} [] OTHER -> {}
MCFwdEqv(o) == CASE o = h -> {h, a, b} [] o = a -> {a, b} [] o = b -> {b} [] OTHER -> {}
MCBwdEqv(o) == { x \in MCObj : o \in MCFwdEqv(x) }
MCisDummy(o) == o \in {a, b}
MCinPTEntry(l) == l = t
(* A schedule exists for a few of the ways the objects can be connected.   *)
MCvalidateUAF(c) ==
  \/ c.ro = Direct /\ c.fo = h /\ c.uo # h
  \/ c.ro = Direct /\ c.fo = a /\ c.uloc # u1
  \/ c.ro = h /\ c.fo = a /\ c.uo = b /\ c.uloc # u1
  \/ c.ro = a /\ c.fo = b
=============================================================================
