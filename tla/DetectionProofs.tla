-------------------------- MODULE DetectionProofs --------------------------
(***************************************************************************)
(* What the detection loops guarantee for any objects, sites, equivalences *)
(* and verdicts, and in any order of iteration.                            *)
(***************************************************************************)
EXTENDS Detection, TLAPS

LEMMA TypeInit == Init => TypeOK
  BY DetectionAssumption DEF DetectionAssumption, Init, TypeOK

(* A step leaves the loops at objects and sites that are there.            *)
LEMMA TypeStep == TypeOK /\ [Next \/ Terminated]_vars => TypeOK'
<1> SUFFICES ASSUME TypeOK, [Next \/ Terminated]_vars PROVE TypeOK'
  OBVIOUS
<1> USE DetectionAssumption DEF DetectionAssumption, TypeOK
<1>1. ASSUME NEW o \in freed, nextFreed(o) PROVE TypeOK'
  BY <1>1 DEF nextFreed
<1>2. ASSUME NEW o \in uos, nextUsed(o) PROVE TypeOK'
  BY <1>2 DEF nextUsed
<1>3. ASSUME NEW p \in pairs, fireAnUAF(p) PROVE TypeOK'
  <2>0. fo \in Obj /\ uo \in Obj /\ p \in FreeSites(fo) \X AccessSites(uo)
    BY <1>3
  <2>1. p \in Site \X Site /\ printed[p] \in Nat
    BY <2>0
  <2>2. UNCHANGED <<pc, freed, fo, ro, bos, uos, uo>> /\ pairs' \subseteq pairs
    BY <1>3 DEF fireAnUAF
  <2>3. fired' \subseteq Site \X Site /\ bounced' \subseteq Site \X Site
    BY <1>3, <2>1 DEF fireAnUAF
  <2>4. printed' \in [Site \X Site -> Nat]
    BY <1>3, <2>1 DEF fireAnUAF
  <2> QED
    BY <2>2, <2>3, <2>4
<1>4. ASSUME NEW o \in bos, nextOrigin(o) PROVE TypeOK'
  BY <1>4 DEF nextOrigin
<1>5. CASE endTy1
  BY <1>5 DEF endTy1
<1>6. CASE endTy2
  BY <1>6 DEF endTy2
<1>7. CASE UNCHANGED vars
  BY <1>7 DEF vars
<1> QED
  BY <1>1, <1>2, <1>3, <1>4, <1>5, <1>6, <1>7 DEF Next, Terminated

THEOREM DetectionTypeOK == Spec => []TypeOK
  BY TypeInit, TypeStep, PTL DEF Spec

----------------------------------------------------------------------------
(* The caches: what a step does to them, whichever pair it is about.       *)
LEMMA CacheStep ==
  ASSUME TypeOK, [Next \/ Terminated]_vars
  PROVE  \/ UNCHANGED <<fired, bounced, printed>>
         \/ \E p \in pairs :
              /\ ~Known(p) /\ p \in Site \X Site
              /\ \/ /\ fired' = fired \cup {p} /\ bounced' = bounced
                    /\ printed' = [printed EXCEPT ![p] = @ + 1]
                 \/ /\ fired' = fired /\ bounced' = bounced \cup {p}
                    /\ printed' = printed
<1>1. CASE \E p \in pairs : fireAnUAF(p)
  <2> PICK p \in pairs : fireAnUAF(p)
    BY <1>1
  <2>0. fo \in Obj /\ uo \in Obj /\ p \in FreeSites(fo) \X AccessSites(uo)
    BY DetectionAssumption DEF TypeOK, DetectionAssumption
  <2>1. p \in Site \X Site
    BY <2>0, DetectionAssumption DEF DetectionAssumption
  <2> QED
    BY <2>1 DEF fireAnUAF
<1>2. CASE ~\E p \in pairs : fireAnUAF(p)
  BY <1>2 DEF Next, nextFreed, nextUsed, nextOrigin, endTy1, endTy2, Terminated, vars
<1> QED
  BY <1>1, <1>2

(* One warning is printed for two sites, whatever leads to them.           *)
THEOREM DetectionWarnedOnce == Spec => []WarnedOnce
<1>1. Init => WarnedOnce
  BY DEF Init, WarnedOnce
<1>2. TypeOK /\ WarnedOnce /\ [Next \/ Terminated]_vars => WarnedOnce'
  <2> SUFFICES ASSUME TypeOK, WarnedOnce, [Next \/ Terminated]_vars PROVE WarnedOnce'
    OBVIOUS
  <2>1. CASE UNCHANGED <<fired, bounced, printed>>
    BY <2>1 DEF WarnedOnce
  <2>2. ASSUME NEW p \in Site \X Site, ~Known(p), fired' = fired \cup {p},
               printed' = [printed EXCEPT ![p] = @ + 1]
        PROVE  WarnedOnce'
    <3>1. p \notin fired /\ printed \in [Site \X Site -> Nat]
      BY <2>2 DEF Known, TypeOK
    <3>2. printed[p] = 0
      BY <3>1 DEF WarnedOnce
    <3> SUFFICES ASSUME NEW q \in Site \X Site
                 PROVE  printed'[q] = IF q \in fired' THEN 1 ELSE 0
      BY DEF WarnedOnce
    <3>3. CASE q = p
      BY <2>2, <3>1, <3>2, <3>3
    <3>4. CASE q # p
      BY <2>2, <3>1, <3>4 DEF WarnedOnce
    <3> QED
      BY <3>3, <3>4
  <2>3. CASE fired' = fired /\ printed' = printed
    BY <2>3 DEF WarnedOnce
  <2> QED
    BY <2>1, <2>2, <2>3, CacheStep
<1> QED
  BY <1>1, <1>2, DetectionTypeOK, PTL DEF Spec

(* The caches never hold two answers for two sites, but in pthread         *)
(* entries.                                                                *)
THEOREM DetectionOneAnswer == Spec => []OneAnswer
<1>1. Init => OneAnswer
  BY DEF Init, OneAnswer
<1>2. TypeOK /\ OneAnswer /\ [Next \/ Terminated]_vars => OneAnswer'
  <2> SUFFICES ASSUME TypeOK, OneAnswer, [Next \/ Terminated]_vars PROVE OneAnswer'
    OBVIOUS
  <2>1. ASSUME NEW p \in pairs, ~Known(p),
               \/ fired' = fired \cup {p} /\ bounced' = bounced
               \/ fired' = fired /\ bounced' = bounced \cup {p}
        PROVE  OneAnswer'
    BY <2>1 DEF Known, OneAnswer, InPT
  <2>2. CASE UNCHANGED <<fired, bounced, printed>>
    BY <2>2 DEF OneAnswer, InPT
  <2> QED
    BY <2>1, <2>2, CacheStep
<1> QED
  BY <1>1, <1>2, DetectionTypeOK, PTL DEF Spec

----------------------------------------------------------------------------
(* The candidate that two sites stand for now.                             *)
Current(p) == [ro |-> ro, fo |-> fo, floc |-> p[1], uo |-> uo, uloc |-> p[2]]

(* The loops are at objects that really lead to each other.                *)
AtCandidates ==
  /\ pc = "ty1" => ro = Direct /\ uos \subseteq FwdEqv(fo)
  /\ pc = "ty2" => isDummy(fo) /\ bos \subseteq BwdEqv(fo)
  /\ pc = "ty2" /\ uos # {} => ro \in BwdEqv(fo) /\ uos \subseteq FwdEqv(ro)
  /\ \A p \in pairs : Current(p) \in Candidates

LEMMA AtCandidatesStep ==
  TypeOK /\ AtCandidates /\ [Next \/ Terminated]_vars => AtCandidates'
<1> SUFFICES ASSUME TypeOK, AtCandidates, [Next \/ Terminated]_vars PROVE AtCandidates'
  OBVIOUS
<1> USE DetectionAssumption DEF DetectionAssumption
<1>1. ASSUME NEW o \in freed, nextFreed(o) PROVE AtCandidates'
  <2>1. pairs = {} /\ pairs' = pairs /\ pc' = "ty1"
    BY <1>1 DEF nextFreed, TypeOK
  <2> QED
    BY <1>1, <2>1 DEF nextFreed, TypeOK, AtCandidates
<1>2. ASSUME NEW o \in uos, nextUsed(o) PROVE AtCandidates'
  <2>1. UNCHANGED <<pc, fo, ro, bos>> /\ uo' = o /\ uos' \subseteq uos /\ pc \in {"ty1", "ty2"}
    BY <1>2 DEF nextUsed
  <2>2. /\ fo \in freedObjs /\ fo \in Obj
        /\ o \in Obj
        /\ ro \in Obj \cup {Direct}
    BY <2>1 DEF AtCandidates, TypeOK
  <2>3. ASSUME NEW p \in pairs' PROVE Current(p)' \in Candidates
    <3> DEFINE c == [ro |-> ro, fo |-> fo, floc |-> p[1], uo |-> o, uloc |-> p[2]]
    <3>1. p[1] \in FreeSites(fo) /\ p[2] \in AccessSites(o)
      BY <1>2, <2>3 DEF nextUsed
    <3>2. c \in Candidate
      BY <2>2, <3>1 DEF Candidate
    <3>3. c \in TypeI \cup TypeII
      <4>1. CASE pc = "ty1"
        BY <3>2, <4>1 DEF TypeI, AtCandidates
      <4>2. CASE pc = "ty2"
        BY <3>2, <4>2 DEF TypeII, AtCandidates
      <4> QED
        BY <2>1, <4>1, <4>2
    <3>4. c \in Candidates
      BY <2>2, <3>1, <3>3 DEF Candidates
    <3> QED
      BY <2>1, <3>4 DEF Current
  <2> QED
    BY <2>1, <2>3 DEF AtCandidates
<1>3. ASSUME NEW p \in pairs, fireAnUAF(p) PROVE AtCandidates'
  BY <1>3 DEF fireAnUAF, AtCandidates, Current
<1>4. ASSUME NEW o \in bos, nextOrigin(o) PROVE AtCandidates'
  BY <1>4 DEF nextOrigin, AtCandidates, Current
<1>5. CASE endTy1
  BY <1>5 DEF endTy1, AtCandidates, Current
<1>6. CASE endTy2
  BY <1>6 DEF endTy2, AtCandidates, Current
<1>7. CASE UNCHANGED vars
  BY <1>7 DEF vars, AtCandidates, Current
<1> QED
  BY <1>1, <1>2, <1>3, <1>4, <1>5, <1>6, <1>7 DEF Next, Terminated

(* Every warning is feasible for objects that lead from the one to the     *)
(* other, never for those of an earlier round of the loops.                *)
THEOREM DetectionFiredJustified == Spec => []FiredJustified
<1>1. Init => AtCandidates /\ FiredJustified
  BY DEF Init, AtCandidates, FiredJustified
<1>2. TypeOK /\ AtCandidates /\ FiredJustified /\ [Next \/ Terminated]_vars => FiredJustified'
  <2> SUFFICES ASSUME TypeOK, AtCandidates, FiredJustified, [Next \/ Terminated]_vars,
                      NEW q \in fired', q \notin fired
               PROVE  \E c \in Candidates : Sites(c) = q /\ validateUAF(c)
    BY DEF FiredJustified
  <2>1. PICK p \in pairs : fireAnUAF(p)
    BY DEF Next, nextFreed, nextUsed, nextOrigin, endTy1, endTy2, Terminated, vars
  <2>2. q = p /\ validateUAF(Current(p))
    BY <2>1 DEF fireAnUAF, Current
  <2>3. Current(p) \in Candidates
    BY DEF AtCandidates
  <2>4. Sites(Current(p)) = p
    BY DetectionAssumption DEF DetectionAssumption, Sites, Current, TypeOK
  <2> QED
    BY <2>2, <2>3, <2>4
<1> QED
  BY <1>1, <1>2, AtCandidatesStep, DetectionTypeOK, PTL DEF Spec

----------------------------------------------------------------------------
(* The candidates that the loops examine themselves; the others have the   *)
(* sites of one of these.                                                  *)
Examined == { c \in Candidates : c.ro # c.fo /\ (c.ro # Direct => c.uo # c.fo) }

(* c is still to come, ...                                                 *)
Left(c) ==
  \/ c.fo \in freed
  \/ /\ c.fo = fo
     /\ \/ c.ro = Direct /\ pc = "ty1" /\ c.uo \in uos
        \/ c.ro # Direct /\ pc = "ty1"
        \/ c.ro # Direct /\ pc = "ty2" /\ (c.ro \in bos \/ (c.ro = ro /\ c.uo \in uos))

(* ... or is at hand.                                                      *)
Now(c) == Sites(c) \in pairs /\ Current(Sites(c)) = c

LEMMA ExaminedFields ==
  ASSUME NEW c \in Examined
  PROVE  /\ c = [ro |-> c.ro, fo |-> c.fo, floc |-> c.floc, uo |-> c.uo, uloc |-> c.uloc]
         /\ c.ro \in Obj \cup {Direct} /\ c.fo \in freedObjs /\ c.uo \in Obj
         /\ c.floc \in FreeSites(c.fo) /\ c.uloc \in AccessSites(c.uo)
         /\ Sites(c) \in Site \X Site
         /\ c.ro = Direct => c.uo \in FwdEqv(c.fo)
         /\ c.ro # Direct => /\ isDummy(c.fo) /\ c.ro \in BwdEqv(c.fo)
                            /\ c.uo \in FwdEqv(c.ro) /\ c.ro # c.fo /\ c.uo # c.fo
  BY DetectionAssumption
  DEF DetectionAssumption, Examined, Candidates, TypeI, TypeII, Candidate, Sites

(* The loops do not lose a candidate: it is taken up before it is gone.    *)
LEMMA LeftStep ==
  ASSUME TypeOK, AtCandidates, [Next \/ Terminated]_vars, NEW c \in Examined, Left(c)
  PROVE  Left(c)' \/ Now(c)'
<1> USE ExaminedFields
<1>1. ASSUME NEW o \in freed, nextFreed(o) PROVE Left(c)'
  BY <1>1 DEF nextFreed, Left
<1>2. ASSUME NEW o \in uos, nextUsed(o) PROVE Left(c)' \/ Now(c)'
  <2>1. /\ UNCHANGED <<pc, freed, fo, ro, bos>> /\ uo' = o /\ uos' = uos \ {o}
        /\ pairs' = IF pc = "ty2" /\ o = fo THEN {} ELSE FreeSites(fo) \X AccessSites(o)
    BY <1>2 DEF nextUsed
  <2>2. CASE /\ c.fo = fo /\ c.uo = o
             /\ \/ c.ro = Direct /\ pc = "ty1"
                \/ c.ro # Direct /\ pc = "ty2" /\ c.ro = ro
    <3>1. ro = c.ro
      BY <2>2 DEF AtCandidates
    <3>2. Sites(c) \in pairs'
      BY <2>1, <2>2 DEF Sites
    <3>3. Current(Sites(c))' = c
      BY <2>1, <2>2, <3>1 DEF Current, Sites
    <3> QED
      BY <3>2, <3>3 DEF Now, Sites
  <2> QED
    BY <2>1, <2>2 DEF Left
<1>3. ASSUME NEW p \in pairs, fireAnUAF(p) PROVE Left(c)'
  BY <1>3 DEF fireAnUAF, Left
<1>4. ASSUME NEW o \in bos, nextOrigin(o) PROVE Left(c)'
  BY <1>4 DEF nextOrigin, Left
<1>5. CASE endTy1
  BY <1>5 DEF endTy1, Left
<1>6. CASE endTy2
  BY <1>6 DEF endTy2, Left
<1>7. CASE UNCHANGED vars
  BY <1>7 DEF vars, Left
<1> QED
  BY <1>1, <1>2, <1>3, <1>4, <1>5, <1>6, <1>7 DEF Next, Terminated

(* A candidate at hand stays so until its sites have an answer, which is   *)
(* its own verdict if nothing was known of them.                           *)
LEMMA NowStep ==
  ASSUME TypeOK, [Next \/ Terminated]_vars, NEW c \in Examined, Now(c)
  PROVE  \/ Now(c)'
         \/ /\ Sites(c) \in (fired \cup bounced)'
            /\ ~Known(Sites(c)) /\ validateUAF(c) => Sites(c) \in fired'
<1>1. CASE \E p \in pairs : fireAnUAF(p)
  <2> PICK p \in pairs : fireAnUAF(p)
    BY <1>1
  <2>1. CASE p = Sites(c)
    BY <2>1 DEF fireAnUAF, Now, Current, Known
  <2>2. CASE p # Sites(c)
    BY <2>2 DEF fireAnUAF, Now, Current, Sites
  <2> QED
    BY <2>1, <2>2
<1>2. CASE ~\E p \in pairs : fireAnUAF(p)
  <2>1. UNCHANGED <<pairs, uo, fo, ro>>
    BY <1>2 DEF Next, nextFreed, nextUsed, nextOrigin, endTy1, endTy2, Terminated, vars, Now,
                TypeOK
  <2> QED
    BY <2>1 DEF Now, Current, Sites
<1> QED
  BY <1>1, <1>2

LEMMA InitLeft == Init => \A c \in Examined : Left(c)
  BY ExaminedFields DEF Init, Left

(* At the end nothing is left.                                             *)
LEMMA FinishedNone == ASSUME TypeOK, Finished, NEW c PROVE ~Left(c) /\ ~Now(c)
  BY DEF TypeOK, Finished, Left, Now

(* What type II skips has the sites of a type I candidate.                 *)
LEMMA Covered ==
  ASSUME NEW c \in Candidates
  PROVE  \E d \in Examined : Sites(d) = Sites(c)
<1> DEFINE d == [c EXCEPT !.ro = Direct]
<1>1. c = [ro |-> c.ro, fo |-> c.fo, floc |-> c.floc, uo |-> c.uo, uloc |-> c.uloc]
      /\ c \in Candidate
  BY DEF Candidates, TypeI, TypeII, Candidate
<1>2. d \in Candidate /\ Sites(d) = Sites(c) /\ d.ro = Direct /\ d.fo = c.fo /\ d.uo = c.uo
      /\ d.floc = c.floc /\ d.uloc = c.uloc
  BY <1>1 DEF Candidate, Sites
<1>3. CASE c \in Examined
  BY <1>3
<1>4. CASE c \notin Examined
  <2>1. c.fo \in Obj /\ c.fo # Direct
    BY <1>1, DetectionAssumption DEF Candidate, DetectionAssumption
  <2>2. c.uo \in FwdEqv(c.fo)
    BY <1>4, <2>1, DetectionAssumption DEF DetectionAssumption, Examined, Candidates, TypeI, TypeII
  <2>3. d \in Candidates
    BY <1>2, <2>2 DEF Candidates, TypeI
  <2>4. d \in Examined
    BY <1>2, <2>1, <2>3 DEF Examined
  <2> QED
    BY <1>2, <2>4
<1> QED
  BY <1>3, <1>4

(* Every candidate is answered at the end, though the loops run over sets  *)
(* in any order and skip what they take to be covered.                     *)
Progress == \A c \in Examined : Left(c) \/ Now(c) \/ Sites(c) \in fired \cup bounced

THEOREM DetectionAllAnswered == Spec => []AllAnswered
<1>1. Init => Progress /\ AtCandidates
  BY InitLeft DEF Init, Progress, AtCandidates
<1>2. TypeOK /\ AtCandidates /\ Progress /\ [Next \/ Terminated]_vars => Progress'
  <2> SUFFICES ASSUME TypeOK, AtCandidates, Progress, [Next \/ Terminated]_vars,
                      NEW c \in Examined
               PROVE  Left(c)' \/ Now(c)' \/ Sites(c) \in (fired \cup bounced)'
    BY DEF Progress, Sites
  <2>1. CASE Left(c)
    BY <2>1, LeftStep
  <2>2. CASE Now(c)
    BY <2>2, NowStep
  <2>3. CASE Sites(c) \in fired \cup bounced
    BY <2>3, CacheStep
  <2> QED
    BY <2>1, <2>2, <2>3 DEF Progress
<1>3. TypeOK /\ Progress => AllAnswered
  BY Covered, FinishedNone DEF Progress, AllAnswered
<1> QED
  BY <1>1, <1>2, <1>3, AtCandidatesStep, DetectionTypeOK, PTL DEF Spec

(* No rejection hides a feasible warning within pthread entries.           *)
PTProgress ==
  \A c \in Examined :
    InPT(Sites(c)) /\ validateUAF(c) => Left(c) \/ Now(c) \/ Sites(c) \in fired

THEOREM DetectionPThreadComplete == Spec => []PThreadComplete
<1>1. Init => PTProgress /\ AtCandidates
  BY InitLeft DEF Init, PTProgress, AtCandidates
<1>2. TypeOK /\ AtCandidates /\ PTProgress /\ [Next \/ Terminated]_vars => PTProgress'
  <2> SUFFICES ASSUME TypeOK, AtCandidates, PTProgress, [Next \/ Terminated]_vars,
                      NEW c \in Examined, InPT(Sites(c)), validateUAF(c)
               PROVE  Left(c)' \/ Now(c)' \/ Sites(c) \in fired'
    BY DEF PTProgress, Sites, InPT
  <2>1. CASE Left(c)
    BY <2>1, LeftStep
  <2>2. CASE Sites(c) \in fired
    BY <2>2, CacheStep
  <2>3. CASE Now(c) /\ Sites(c) \notin fired
    <3>1. ~Known(Sites(c))
      BY <2>3 DEF Known, InPT
    <3> QED
      BY <2>3, <3>1, NowStep
  <2> QED
    BY <2>1, <2>2, <2>3 DEF PTProgress
<1>3. TypeOK /\ PTProgress => PThreadComplete
  <2> SUFFICES ASSUME TypeOK, PTProgress, Finished, NEW c \in Candidates,
                      InPT(Sites(c)), validateUAF(c),
                      c.ro # c.fo, c.ro # Direct => c.uo # c.fo
               PROVE  Sites(c) \in fired
    BY DEF PThreadComplete
  <2>1. c \in Examined
    BY DEF Examined
  <2> QED
    BY <2>1, FinishedNone DEF PTProgress
<1> QED
  BY <1>1, <1>2, <1>3, AtCandidatesStep, DetectionTypeOK, PTL DEF Spec
=============================================================================
