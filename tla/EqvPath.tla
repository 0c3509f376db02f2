------------------------------ MODULE EqvPath ------------------------------
(***************************************************************************)
(* The path from an object to one that may be the same (class EqvPath): a  *)
(* pointer to it is stored somewhere (escape), and loaded again from a     *)
(* place that may be the same (fetch).  A path is a sequence of nodes with *)
(* a label; what else a node carries is the business of its users.         *)
(***************************************************************************)
EXTENDS Integers, Sequences

Labelled(p, lbl) == { i \in DOMAIN p : p[i].label = lbl }
FirstAfter(p, i, lbl) ==
  CHOOSE j \in Labelled(p, lbl) : j > i /\ \A k \in Labelled(p, lbl) : k > i => j <= k
LastBefore(p, i, lbl) ==
  CHOOSE j \in Labelled(p, lbl) : j < i /\ \A k \in Labelled(p, lbl) : k < i => k <= j

(* EqvPath::getPairedIndex: the mirror image of a node about the switch    *)
(* from escapes to fetches; 0 for -1.                                      *)
PairedIndex(p, i) ==
  IF p[i].label = "ESCAPE"
  THEN IF \A j \in Labelled(p, "FETCH") : j < i THEN 0
       ELSE LET m == 2 * FirstAfter(p, i, "FETCH") - i - 1
            IN  IF m \in Labelled(p, "FETCH") THEN m ELSE 0
  ELSE IF \A j \in Labelled(p, "ESCAPE") : j > i THEN 0
       ELSE LET m == 2 * LastBefore(p, i, "ESCAPE") - i + 1
            IN  IF m \in Labelled(p, "ESCAPE") THEN m ELSE 0

(* "N escape is always followed by the same amount of fetch, and the       *)
(* paired nodes are always mirrored by the middle switch point".           *)
Mirrored(p) ==
  \A i \in DOMAIN p : PairedIndex(p, i) # 0 /\ PairedIndex(p, PairedIndex(p, i)) = i

(* EqvPath::connect, addf and adde.                                        *)
Connect(p, q) == p \o q
Wrap(n, p, m) == <<n>> \o p \o <<m>>
=============================================================================
