----------------------------- MODULE Detection -----------------------------
(***************************************************************************)
(* The bug detection phase (SAAPass::detectUAFs and                        *)
(* GlobalState::fireAnUAF): for every freed object, every object that may  *)
(* be the same one and every pair of a use and a free site of theirs, a    *)
(* warning is validated and issued, unless a cache already has an answer   *)
(* for the two sites.                                                      *)
(*                                                                         *)
(* One action is one iteration of the innermost loop.  The loops run over  *)
(* containers ordered by address: here in any order.                       *)
(***************************************************************************)
EXTENDS FiniteSets, Integers

CONSTANTS
  Obj, Site,        \* AliasObject, InstLoc
  Direct,           \* no object: the null ep0 of a type I warning
  freedObjs,        \* GlobalState::freedObjs
  FreeSites(_),     \* getFreeSites
  AccessSites(_),   \* getAccessSites
  FwdEqv(_),        \* keys of getForwardEqvObjs
  BwdEqv(_),        \* keys of getBackwardEqvObjs
  isDummy(_),
  inPTEntry(_),
  validateUAF(_)    \* the verdict on a candidate, see Candidate

(* A warning in the making: the pair ro ~> fo and the free site, the pair  *)
(* (ro or fo) ~> uo and the use site.                                      *)
Candidate == [ro : Obj \cup {Direct}, fo : Obj, floc : Site, uo : Obj, uloc : Site]

ASSUME DetectionAssumption ==
  /\ Direct \notin Obj
  /\ freedObjs \subseteq Obj
  /\ \A o \in Obj : /\ FreeSites(o) \subseteq Site /\ AccessSites(o) \subseteq Site
                    /\ FwdEqv(o) \subseteq Obj /\ BwdEqv(o) \subseteq Obj
                    /\ o \in FwdEqv(o)   \* "first the object itself is obviously an eqv"
                    /\ isDummy(o) \in BOOLEAN
  /\ \A l \in Site : inPTEntry(l) \in BOOLEAN
  /\ \A c \in Candidate : validateUAF(c) \in BOOLEAN

VARIABLES
  pc,       \* which loop runs: detectUAFs, _detectUAFS_ty1, _detectUAFS_ty2
  freed,    \* freed objects still to do
  fo, ro,   \* the freed object, and the object both come from
  bos,      \* _detectUAFS_ty2: the backward eqv objects still to do
  uos, uo,  \* the forward eqv objects still to do, and the one at hand
  pairs,    \* its use sites with the free sites, still to do
  fired, bounced,  \* the caches of fireAnUAF
  printed   \* how many warnings were printed for a free and a use site

vars == <<pc, freed, fo, ro, bos, uos, uo, pairs, fired, bounced, printed>>

Init ==
  /\ pc = "detectUAFs"
  /\ freed = freedObjs
  /\ fo = Direct /\ ro = Direct /\ uo = Direct
  /\ bos = {} /\ uos = {} /\ pairs = {}
  /\ fired = {} /\ bounced = {}
  /\ printed = [p \in Site \X Site |-> 0]

(* The next freed object; its type I warnings come first.                  *)
nextFreed(o) ==
  /\ pc = "detectUAFs"
  /\ o \in freed
  /\ freed' = freed \ {o}
  /\ fo' = o /\ ro' = Direct
  /\ uos' = FwdEqv(o)
  /\ pc' = "ty1"
  /\ UNCHANGED <<bos, uo, pairs, fired, bounced, printed>>

(* Mutant: every object but the freed one itself.                          *)
nextUsedOther(o) ==
  /\ pc \in {"ty1", "ty2"}
  /\ pairs = {}
  /\ o \in uos
  /\ uos' = uos \ {o}
  /\ uo' = o
  /\ pairs' = IF o = fo THEN {} ELSE FreeSites(fo) \X AccessSites(o)
  /\ UNCHANGED <<pc, freed, fo, ro, bos, fired, bounced, printed>>

(* The next object that may be the freed one.  Type II leaves out the      *)
(* freed object itself: "a simpler Type I warning should have already been *)
(* issued".                                                                *)
nextUsed(o) ==
  /\ pc \in {"ty1", "ty2"}
  /\ pairs = {}
  /\ o \in uos
  /\ uos' = uos \ {o}
  /\ uo' = o
  /\ pairs' = IF pc = "ty2" /\ o = fo THEN {} ELSE FreeSites(fo) \X AccessSites(o)
  /\ UNCHANGED <<pc, freed, fo, ro, bos, fired, bounced, printed>>

(* Mutant: a rejection does not keep a warning from being tried again.     *)
KnownFired(p) == p \in fired

(* Mutant: without the exception for pthread entries.                      *)
KnownAlways(p) == p \in fired \cup bounced

(* What is known of two sites; rejections within pthread entries are not   *)
(* believed, as the same sites stand for several threads.                  *)
Known(p) ==
  \/ p \in fired
  \/ p \in bounced /\ ~inPTEntry(p[1]) /\ ~inPTEntry(p[2])

(* Mutant: the cache is consulted for rejections only.                     *)
fireAnUAFAgain(p) ==
  LET c == [ro |-> ro, fo |-> fo, floc |-> p[1], uo |-> uo, uloc |-> p[2]] IN
  /\ p \in pairs
  /\ pairs' = pairs \ {p}
  /\ \/ /\ p \in bounced
        /\ UNCHANGED <<fired, bounced, printed>>
     \/ /\ p \notin bounced /\ validateUAF(c)
        /\ fired' = fired \cup {p}
        /\ printed' = [printed EXCEPT ![p] = @ + 1]
        /\ UNCHANGED bounced
     \/ /\ p \notin bounced /\ ~validateUAF(c)
        /\ bounced' = bounced \cup {p}
        /\ UNCHANGED <<fired, printed>>
  /\ UNCHANGED <<pc, freed, fo, ro, bos, uos, uo>>

fireAnUAF(p) ==
  LET c == [ro |-> ro, fo |-> fo, floc |-> p[1], uo |-> uo, uloc |-> p[2]] IN
  /\ p \in pairs
  /\ pairs' = pairs \ {p}
  /\ \/ /\ Known(p)
        /\ UNCHANGED <<fired, bounced, printed>>
     \/ /\ ~Known(p) /\ validateUAF(c)
        /\ fired' = fired \cup {p}
        /\ printed' = [printed EXCEPT ![p] = @ + 1]
        /\ UNCHANGED bounced
     \/ /\ ~Known(p) /\ ~validateUAF(c)
        /\ bounced' = bounced \cup {p}
        /\ UNCHANGED <<fired, printed>>
  /\ UNCHANGED <<pc, freed, fo, ro, bos, uos, uo>>

(* Only a placeholder object can have come from another one.               *)
endTy1 ==
  /\ pc = "ty1"
  /\ uos = {} /\ pairs = {}
  /\ \/ isDummy(fo) /\ pc' = "ty2" /\ bos' = BwdEqv(fo)
     \/ ~isDummy(fo) /\ pc' = "detectUAFs" /\ UNCHANGED bos
  /\ UNCHANGED <<freed, fo, ro, uos, uo, pairs, fired, bounced, printed>>

(* Mutant: the origin of the round before is kept.                         *)
nextOriginStale(o) ==
  /\ pc = "ty2"
  /\ uos = {} /\ pairs = {}
  /\ o \in bos
  /\ bos' = bos \ {o}
  /\ uos' = IF o = fo THEN {} ELSE FwdEqv(o)
  /\ UNCHANGED <<pc, freed, fo, ro, uo, pairs, fired, bounced, printed>>

(* The next object the freed one may come from; itself is type I again.    *)
nextOrigin(o) ==
  /\ pc = "ty2"
  /\ uos = {} /\ pairs = {}
  /\ o \in bos
  /\ bos' = bos \ {o}
  /\ ro' = o
  /\ uos' = IF o = fo THEN {} ELSE FwdEqv(o)
  /\ UNCHANGED <<pc, freed, fo, uo, pairs, fired, bounced, printed>>

endTy2 ==
  /\ pc = "ty2"
  /\ bos = {} /\ uos = {} /\ pairs = {}
  /\ pc' = "detectUAFs"
  /\ UNCHANGED <<freed, fo, ro, bos, uos, uo, pairs, fired, bounced, printed>>

Next ==
  \/ \E o \in freed : nextFreed(o)
  \/ \E o \in uos : nextUsed(o)
  \/ \E p \in pairs : fireAnUAF(p)
  \/ \E o \in bos : nextOrigin(o)
  \/ endTy1 \/ endTy2

Finished == pc = "detectUAFs" /\ freed = {}
Terminated == Finished /\ UNCHANGED vars

Spec == Init /\ [][Next \/ Terminated]_vars

----------------------------------------------------------------------------
(* The loops are where they should be: pairs of sites are those of the     *)
(* freed and the used object at hand.                                      *)
TypeOK ==
  /\ pc \in {"detectUAFs", "ty1", "ty2"}
  /\ freed \subseteq freedObjs
  /\ fo \in freedObjs \cup {Direct} /\ ro \in Obj \cup {Direct} /\ uo \in Obj \cup {Direct}
  /\ bos \subseteq Obj /\ uos \subseteq Obj
  /\ pc # "detectUAFs" => fo \in freedObjs
  /\ pairs # {} => /\ pc # "detectUAFs" /\ uo \in Obj
                   /\ pairs \subseteq FreeSites(fo) \X AccessSites(uo)
  /\ fired \subseteq Site \X Site /\ bounced \subseteq Site \X Site
  /\ printed \in [Site \X Site -> Nat]

(* "A warning has already been issued for this pair": however many objects *)
(* lead to two sites, one warning is printed for them.                     *)
WarnedOnce == \A p \in Site \X Site : printed[p] = IF p \in fired THEN 1 ELSE 0

InPT(p) == inPTEntry(p[1]) \/ inPTEntry(p[2])

(* The caches never give two answers for one pair of sites, but for        *)
(* pthread entries, where an earlier rejection may be revised.             *)
OneAnswer == \A p \in fired \cap bounced : InPT(p)

(* What a reader of the algorithm expects to be examined: every object     *)
(* equivalent to a freed one, or to one that a freed placeholder may be.   *)
TypeI == { c \in Candidate : c.ro = Direct /\ c.uo \in FwdEqv(c.fo) }
TypeII == { c \in Candidate : /\ isDummy(c.fo) /\ c.ro \in BwdEqv(c.fo)
                              /\ c.uo \in FwdEqv(c.ro) }
Candidates ==
  { c \in TypeI \cup TypeII : /\ c.fo \in freedObjs
                             /\ c.floc \in FreeSites(c.fo) /\ c.uloc \in AccessSites(c.uo) }
Sites(c) == <<c.floc, c.uloc>>

(* At the end every candidate has an answer, the ones that type II skips   *)
(* as covered by type I included.                                          *)
AllAnswered == Finished => \A c \in Candidates : Sites(c) \in fired \cup bounced

(* Every warning was found feasible for objects that really lead from the  *)
(* one to the other, never for those of an earlier round of the loops.     *)
FiredJustified == \A p \in fired : \E c \in Candidates : Sites(c) = p /\ validateUAF(c)

(* "So for safety, we disable the InstLoc based bounce mechanism for locs  *)
(* within pthread entries": no rejection there hides a feasible warning.   *)
(* (The pass that would find these entries is not added in this build.)    *)
PThreadComplete ==
  Finished =>
    \A c \in Candidates :
      /\ InPT(Sites(c)) /\ validateUAF(c)
      /\ c.ro # c.fo /\ (c.ro # Direct => c.uo # c.fo)
      => Sites(c) \in fired
=============================================================================
