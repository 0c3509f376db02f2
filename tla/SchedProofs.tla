---------------------------- MODULE SchedProofs ----------------------------
(***************************************************************************)
(* A schedule, for every program, warning, lock table and order in which   *)
(* sets are iterated: what ThreadSched does to its threads.                *)
(*                                                                         *)
(* The one thing that makes this delicate is the condition check that      *)
(* addCondTrLocs puts in before it knows whether a killer of it finds a    *)
(* place.  The invariants are therefore about the schedule as it would be  *)
(* if that check were taken out again (Base); they hold of the threads as  *)
(* they are because a thread that has grown keeps all that was there.      *)
(***************************************************************************)
EXTENDS ThreadSched, ThreadOpsProofs, FiniteSetTheorems

(* Events of a set of threads, their positions and types.                  *)
In(e, ts) == e \in Event /\ e[1] \in 1 .. Len(ts) /\ e[2] \in Locs(ts[e[1]])
PosIn(ts, e) == IndexOf(ts[e[1]], e[2])
TypesIn(ts, e) == TypesAt(ts[e[1]], e[2])

AllSound(ts) == ts \in Seq(Seq(Node)) /\ \A i \in 1 .. Len(ts) : Sound(ts[i])
Grown(ts, us) == Len(ts) <= Len(us) /\ \A i \in 1 .. Len(ts) : Extends(ts[i], us[i])
Without(ts, e, t) == [ts EXCEPT ![e[1]] = RemoveLoc(ts[e[1]], e[2], {t}).seq]

(* A check whose killers have found no place so far.                       *)
Tentative == pc = "killer" /\ job.ec # SameExists /\ job.kept = {}
Base == IF Tentative THEN Without(trs, job.check, "GCHECK") ELSE trs

SoundInv == AllSound(trs) /\ AllSound(Base) /\ Grown(Base, trs)

(* Every event that is remembered anywhere is there and stays there.       *)
Held ==
  Ends(poc) \cup Ends(UNION excl) \cup { p.lk : p \in lockMap } \cup { p.uk : p \in lockMap }
    \cup work.curr \cup work.new \cup job.kept \cup ({ef.curr, ef.next, job.loc} \ {None})
HeldInv == \A e \in Held : In(e, Base)

PhaseInv ==
  /\ pc = "initFree" => trs = <<>>
  /\ pc = "initUse" => trs = <<NewThread(warn.floc, "FREE")>>
  /\ pc \in {"initFree", "initUse"} => poc = {}
  /\ pc \notin {"order", "solve", "done"} => excl = {}
  /\ verdict = "none" <=> pc # "done"
  /\ pc \notin {"initFree", "initUse"} => In(FreeEvent, Base)
  /\ pc \notin {"initFree", "initUse", "done"} =>
       /\ In(UseEvent, Base) /\ FreeEvent # UseEvent
       /\ <<FreeEvent, UseEvent>> \in poc
  /\ pc = "ef" => ef.curr # None /\ ef.i <= Len(warn.paths[ef.path])
  /\ pc = "exclude" => work.curr = {}
  /\ pc = "solve" => ThreadOrder \subseteq poc
  /\ pc \notin {"killer", "done"} => job.kept = {}
  /\ pc \in {"lock", "killer"} =>
       /\ job.loc # None /\ job.locks \subseteq Lock4Loc(job.loc[2])
       /\ job.branches \subseteq CriticalBranches(job.loc[2])

(* The check at hand is before the event it guards, with a type of its own *)
(* that it did not take from anyone, and before the killers that stay.     *)
(* Without a killer, to take it out is to go back to where it was taken up.*)
CheckInv ==
  pc = "killer" =>
    /\ In(job.check, trs) /\ job.check[1] = job.loc[1]
    /\ PosIn(trs, job.check) < PosIn(trs, job.loc)
    /\ \A e \in Event : In(e, trs) => In(e, Base) \/ e = job.check
    /\ ~In(job.check, Base) => job.ec >= 0
    /\ job.kept = {} /\ job.ec >= 0 => ~In(job.check, Base)
    /\ job.kept = {} => job.before = Base
    /\ \A e \in Event : In(e, trs) /\ "GCHECK" \in TypesIn(trs, e) =>
         e = job.check \/ (In(e, Base) /\ "GCHECK" \in TypesIn(Base, e))
    /\ \E b \in CriticalBranches(job.loc[2]) :
         /\ b.check = job.check[2] /\ job.killers \subseteq b.killers
         /\ \A z \in job.kept : /\ z[2] \in b.killers \ job.killers
                                /\ <<job.check, z>> \in poc

Encloses(ts, p) ==
  /\ p.lk[1] = p.uk[1]
  /\ "LOCK" \in TypesIn(ts, p.lk) /\ "UNLOCK" \in TypesIn(ts, p.uk)
  /\ \E x \in Event : /\ In(x, ts) /\ x[1] = p.lk[1] /\ p.info \in Lock4Loc(x[2])
                      /\ PosIn(ts, p.lk) <= PosIn(ts, x) /\ PosIn(ts, x) < PosIn(ts, p.uk)
RegionInv == \A p \in lockMap : Encloses(Base, p)

Guards(ts, order, x) ==
  \E y \in Event : \E b \in CriticalBranches(y[2]) :
    /\ In(y, ts) /\ y[1] = x[1] /\ b.check = x[2]
    /\ PosIn(ts, x) < PosIn(ts, y)
    /\ \E z \in Event : In(z, ts) /\ z[2] \in b.killers /\ <<x, z>> \in order
GuardInv ==
  pc # "done" =>
    \A x \in Event : In(x, Base) /\ "GCHECK" \in TypesIn(Base, x) => Guards(Base, poc, x)

Pending(e, k) ==
  \/ e \in work.curr \cup work.new
  \/ pc \in {"lock", "killer"} /\ e = job.loc /\ k \in job.locks
  \/ pc = "killer" /\ e = job.check /\ job.ec >= 0
SatInv ==
  pc \in {"supp", "lock", "killer", "exclude"} =>
    \A e \in Event : In(e, Base) =>
      \A k \in Lock4Loc(e[2]) :
        \/ Pending(e, k) \/ LockPair(e, k) \in lockMap
        \/ NoRoom(Base[e[1]], e[2], LockLoc(k), FirstUnlock(e, k))

IInv ==
  /\ TypeOK /\ SoundInv /\ HeldInv /\ PhaseInv /\ CheckInv
  /\ RegionInv /\ GuardInv /\ SatInv

----------------------------------------------------------------------------
(* Threads that grow.                                                      *)

LEMMA EventIs == \A e \in Event : e = <<e[1], e[2]>> /\ e[1] \in Nat /\ e[2] \in Loc
BY DEF Event

LEMMA PairIs == \A i \in Nat, l \in Loc : <<i, l>> \in Event
BY DEF Event

LEMMA SoundAt ==
  ASSUME NEW ts, AllSound(ts), NEW i \in 1 .. Len(ts)
  PROVE  Sound(ts[i]) /\ Good(ts[i]) /\ ts[i] \in Seq(Node)
BY DEF AllSound, Sound, Good

LEMMA ThreadsType ==
  ASSUME NEW ts, AllSound(ts)
  PROVE  ts \in Seq(Seq(Node)) /\ Len(ts) \in Nat /\ DOMAIN ts = 1 .. Len(ts)
BY DEF AllSound

(* Where an event is, it is a node, of a location of the program.          *)
LEMMA InIs ==
  ASSUME NEW ts, AllSound(ts), NEW e, In(e, ts)
  PROVE  /\ e \in Event /\ e[1] \in 1 .. Len(ts) /\ e[2] \in Locs(ts[e[1]]) /\ e[2] \in Loc
         /\ PosIn(ts, e) \in 1 .. Len(ts[e[1]]) /\ ts[e[1]][PosIn(ts, e)].loc = e[2]
         /\ TypesIn(ts, e) \in SUBSET Types
<1>1. e \in Event /\ e[1] \in 1 .. Len(ts) /\ e[2] \in Locs(ts[e[1]])
  BY DEF In
<1>2. Good(ts[e[1]])
  BY <1>1, SoundAt
<1>3. /\ IndexOf(ts[e[1]], e[2]) \in 1 .. Len(ts[e[1]])
      /\ ts[e[1]][IndexOf(ts[e[1]], e[2])].loc = e[2] /\ e[2] \in Loc
      /\ ts[e[1]][IndexOf(ts[e[1]], e[2])].ty \in SUBSET Types
  BY <1>1, <1>2, LocAt
<1>4. QED BY <1>1, <1>3 DEF PosIn, TypesIn, TypesAt

(* One event has one position, another one has another.                    *)
LEMMA PosDiffers ==
  ASSUME NEW ts, AllSound(ts), NEW e, NEW f, In(e, ts), In(f, ts), e[1] = f[1]
  PROVE  PosIn(ts, e) = PosIn(ts, f) <=> e = f
<1>1. /\ e \in Event /\ f \in Event
      /\ ts[e[1]][PosIn(ts, e)].loc = e[2] /\ ts[f[1]][PosIn(ts, f)].loc = f[2]
  BY InIs
<1>2. e = <<e[1], e[2]>> /\ f = <<f[1], f[2]>>
  BY <1>1, EventIs
<1>3. QED BY <1>1, <1>2

LEMMA GrownIn ==
  ASSUME NEW ts, AllSound(ts), NEW us, Grown(ts, us), AllSound(us), NEW e, In(e, ts)
  PROVE  In(e, us) /\ TypesIn(ts, e) \subseteq TypesIn(us, e)
<1>1. e \in Event /\ e[1] \in 1 .. Len(ts) /\ e[2] \in Locs(ts[e[1]])
  BY InIs
<1>2. Extends(ts[e[1]], us[e[1]]) /\ Len(ts) <= Len(us) /\ Len(ts) \in Nat /\ Len(us) \in Nat
  BY <1>1, ThreadsType DEF Grown
<1>3. e[1] \in 1 .. Len(us)
  BY <1>1, <1>2
<1>4. e[2] \in Locs(us[e[1]]) /\ TypesAt(ts[e[1]], e[2]) \subseteq TypesAt(us[e[1]], e[2])
  BY <1>1, <1>2 DEF Extends
<1>5. QED BY <1>1, <1>3, <1>4 DEF In, TypesIn

LEMMA GrownPos ==
  ASSUME NEW ts, AllSound(ts), NEW us, Grown(ts, us), AllSound(us),
         NEW e, NEW f, In(e, ts), In(f, ts), e[1] = f[1]
  PROVE  /\ PosIn(us, e) \in Nat /\ PosIn(us, f) \in Nat
         /\ PosIn(ts, e) < PosIn(ts, f) <=> PosIn(us, e) < PosIn(us, f)
         /\ PosIn(ts, e) <= PosIn(ts, f) <=> PosIn(us, e) <= PosIn(us, f)
<1>1. In(e, us) /\ In(f, us)
  BY GrownIn
<1>2. /\ PosIn(us, e) \in Nat /\ PosIn(us, f) \in Nat
      /\ PosIn(ts, e) \in Nat /\ PosIn(ts, f) \in Nat
  BY <1>1, InIs, ThreadsType
<1>3. ASSUME NEW a, NEW b, In(a, ts), In(b, ts), a[1] = b[1], PosIn(ts, a) < PosIn(ts, b)
      PROVE  PosIn(us, a) < PosIn(us, b)
  <2>1. a[1] \in 1 .. Len(ts) /\ a[2] \in Locs(ts[a[1]]) /\ b[2] \in Locs(ts[a[1]])
    BY <1>3, InIs
  <2>2. Extends(ts[a[1]], us[a[1]])
    BY <2>1 DEF Grown
  <2>3. QED BY <1>3, <2>1, <2>2 DEF Extends, PosIn
<1>4. PosIn(ts, e) < PosIn(ts, f) => PosIn(us, e) < PosIn(us, f)
  BY <1>3
<1>5. PosIn(ts, f) < PosIn(ts, e) => PosIn(us, f) < PosIn(us, e)
  BY <1>3
<1>6. PosIn(ts, e) = PosIn(ts, f) <=> e = f
  BY PosDiffers
<1>7. PosIn(us, e) = PosIn(us, f) <=> e = f
  BY <1>1, PosDiffers
<1>8. QED BY <1>2, <1>4, <1>5, <1>6, <1>7

LEMMA GrownSelf ==
  ASSUME NEW ts, AllSound(ts)
  PROVE  Grown(ts, ts)
<1>1. Len(ts) \in Nat
  BY ThreadsType
<1>2. QED BY <1>1, ExtendsSelf DEF Grown

LEMMA GrownTrans ==
  ASSUME NEW ts, NEW us, NEW vs, AllSound(ts), AllSound(us), AllSound(vs),
         Grown(ts, us), Grown(us, vs)
  PROVE  Grown(ts, vs)
<1>1. Len(ts) \in Nat /\ Len(us) \in Nat /\ Len(vs) \in Nat
  BY ThreadsType
<1>2. Len(ts) <= Len(us) /\ Len(us) <= Len(vs)
  BY DEF Grown
<1>3. ASSUME NEW i \in 1 .. Len(ts) PROVE Extends(ts[i], vs[i])
  <2>1. i \in 1 .. Len(us)
    BY <1>1, <1>2
  <2>2. Extends(ts[i], us[i]) /\ Extends(us[i], vs[i])
    BY <2>1 DEF Grown
  <2>3. QED BY <2>2, ExtendsTrans
<1>4. QED BY <1>1, <1>2, <1>3 DEF Grown

LiveIn(ts) == UNION { { <<i, l>> : l \in Locs(ts[i]) } : i \in DOMAIN ts }

LEMMA LiveInIs ==
  ASSUME NEW ts, AllSound(ts)
  PROVE  \A e : e \in LiveIn(ts) <=> In(e, ts)
<1>1. DOMAIN ts = 1 .. Len(ts) /\ Len(ts) \in Nat
  BY ThreadsType
<1>2. ASSUME NEW e, e \in LiveIn(ts) PROVE In(e, ts)
  <2>0. PICK i \in 1 .. Len(ts) : \E l \in Locs(ts[i]) : e = <<i, l>>
    BY <1>1, <1>2 DEF LiveIn
  <2>1. PICK l \in Locs(ts[i]) : e = <<i, l>>
    BY <2>0
  <2>2. Good(ts[i])
    BY SoundAt
  <2>3. l \in Loc /\ i \in Nat
    BY <2>2, LocAt
  <2>4. e \in Event /\ e[1] = i /\ e[2] = l
    BY <2>1, <2>3 DEF Event
  <2>5. QED BY <2>4 DEF In
<1>3. ASSUME NEW e, In(e, ts) PROVE e \in LiveIn(ts)
  <2>1. e \in Event /\ e[1] \in 1 .. Len(ts) /\ e[2] \in Locs(ts[e[1]])
    BY <1>3 DEF In
  <2>2. e = <<e[1], e[2]>>
    BY <2>1, EventIs
  <2>3. QED BY <1>1, <2>1, <2>2 DEF LiveIn
<1>4. QED BY <1>2, <1>3

(* The threads have got the type t at the event e, or nothing.             *)
Adds(ts, us, e, t) ==
  /\ AllSound(us) /\ Grown(ts, us)
  /\ \A f \in Event : In(f, us) => In(f, ts) \/ f = e
  /\ \A f \in Event : \A x \in Types :
       In(f, us) /\ x \in TypesIn(us, f) =>
         (In(f, ts) /\ x \in TypesIn(ts, f)) \/ (f = e /\ x = t)

PutIn(ts, i, s) == [ts EXCEPT ![i] = s]

LEMMA PutInIs ==
  ASSUME NEW ts, AllSound(ts), NEW i \in 1 .. Len(ts), NEW s, Sound(s)
  PROVE  /\ AllSound(PutIn(ts, i, s)) /\ Len(PutIn(ts, i, s)) = Len(ts)
         /\ PutIn(ts, i, s)[i] = s
         /\ \A j \in 1 .. Len(ts) : j # i => PutIn(ts, i, s)[j] = ts[j]
<1>1. ts \in Seq(Seq(Node)) /\ s \in Seq(Node)
  BY ThreadsType DEF Sound, Good
<1>2. PutIn(ts, i, s) \in Seq(Seq(Node)) /\ Len(PutIn(ts, i, s)) = Len(ts)
  BY <1>1, ExceptSeq DEF PutIn
<1>3. /\ PutIn(ts, i, s)[i] = s
      /\ \A j \in 1 .. Len(ts) : j # i => PutIn(ts, i, s)[j] = ts[j]
  BY <1>1 DEF PutIn
<1>4. QED BY <1>2, <1>3 DEF AllSound

LEMMA PutBack ==
  ASSUME NEW ts, AllSound(ts), NEW i \in 1 .. Len(ts), NEW s
  PROVE  /\ PutIn(PutIn(ts, i, s), i, ts[i]) = ts
         /\ PutIn(ts, i, ts[i]) = ts
<1>1. ts = [j \in 1 .. Len(ts) |-> ts[j]]
  BY ThreadsType
<1>2. QED BY <1>1 DEF PutIn

(* What has become of ts after an insertion of l, of type t, into thread i *)
(* that returned r.                                                        *)
Placed(ts, us, i, l, t, r) ==
  /\ Adds(ts, us, <<i, l>>, t) /\ Len(us) = Len(ts) /\ us[i] = r.seq
  /\ \A j \in 1 .. Len(ts) : j # i => us[j] = ts[j]
  /\ Inserted(r) => In(<<i, l>>, us) /\ t \in TypesIn(us, <<i, l>>)
  /\ In(<<i, l>>, us) /\ ~In(<<i, l>>, ts) => r.ec >= 0
  /\ r.ec >= 0 => ~In(<<i, l>>, ts)
  /\ ~Inserted(r) \/ r.ec = SameExists => us = ts
  /\ In(<<i, l>>, ts) /\ t \in TypesIn(ts, <<i, l>>) => us = ts
  /\ Inserted(r) /\ r.ec # SameExists => PutIn(us, i, RemoveLoc(r.seq, l, {t}).seq) = ts

LEMMA PutAdds ==
  ASSUME NEW ts, AllSound(ts), NEW i \in 1 .. Len(ts), NEW l \in Loc, NEW t \in Types,
         NEW stop, NEW start, NEW r, Outcome(ts[i], l, t, stop, start, r),
         NEW us, us = PutIn(ts, i, r.seq)
  PROVE  Placed(ts, us, i, l, t, r)
<1> DEFINE s == ts[i]
           u == r.seq
           e == <<i, l>>
<1>1. /\ Sound(u) /\ Extends(s, u) /\ Locs(u) \subseteq Locs(s) \cup {l}
      /\ \A m \in Locs(s) : TypesAt(u, m) \subseteq TypesAt(s, m) \cup {x \in {t} : m = l}
      /\ l \notin Locs(s) /\ l \in Locs(u) => r.ec >= 0 /\ TypesAt(u, l) = {t}
      /\ r.ec >= 0 => l \notin Locs(s)
      /\ r.ec = SameExists => l \in Locs(s) /\ t \in TypesAt(s, l)
      /\ l \in Locs(s) /\ t \in TypesAt(s, l) => u = s
      /\ ~Inserted(r) => u = s
      /\ Inserted(r) => l \in Locs(u) /\ t \in TypesAt(u, l)
      /\ Inserted(r) /\ r.ec # SameExists => RemoveLoc(u, l, {t}).seq = s
  BY DEF Outcome
<1>2. /\ AllSound(us) /\ Len(us) = Len(ts) /\ us[i] = u /\ Len(ts) \in Nat
      /\ \A j \in 1 .. Len(ts) : j # i => us[j] = ts[j]
  <2>1. Sound(u)
    BY <1>1
  <2> HIDE DEF u
  <2>2. /\ AllSound(PutIn(ts, i, u)) /\ Len(PutIn(ts, i, u)) = Len(ts)
        /\ PutIn(ts, i, u)[i] = u
        /\ \A j \in 1 .. Len(ts) : j # i => PutIn(ts, i, u)[j] = ts[j]
    BY <2>1, PutInIs
  <2>3. QED BY <2>2, ThreadsType DEF u
<1>3. e \in Event /\ e[1] = i /\ e[2] = l
  BY <1>2, PairIs
<1>4. /\ In(e, ts) <=> l \in Locs(s)
      /\ In(e, us) <=> l \in Locs(u)
      /\ TypesIn(ts, e) = TypesAt(s, l) /\ TypesIn(us, e) = TypesAt(u, l)
  BY <1>2, <1>3 DEF In, TypesIn
<1>5. ASSUME u = s PROVE us = ts
  BY <1>5, PutBack
<1>6. ASSUME Inserted(r), r.ec # SameExists
      PROVE  PutIn(us, i, RemoveLoc(u, l, {t}).seq) = ts
  <2>1. RemoveLoc(u, l, {t}).seq = s
    BY <1>1, <1>6
  <2>2. PutIn(PutIn(ts, i, u), i, s) = ts
    BY PutBack
  <2>3. QED BY <2>1, <2>2
<1>7. Grown(ts, us)
  <2>1. ASSUME NEW j \in 1 .. Len(ts) PROVE Extends(ts[j], us[j])
    <3>1. CASE j = i
      BY <1>1, <1>2, <3>1
    <3>2. CASE j # i
      BY <1>2, <3>2, ExtendsSelf
    <3>3. QED BY <3>1, <3>2
  <2>2. QED BY <1>2, <2>1 DEF Grown
<1>8. ASSUME NEW f \in Event, In(f, us) PROVE In(f, ts) \/ f = e
  <2>1. f = <<f[1], f[2]>> /\ f[1] \in 1 .. Len(ts) /\ f[2] \in Locs(us[f[1]])
    BY <1>2, <1>8, EventIs, InIs
  <2>2. CASE f[1] # i
    BY <1>2, <2>1, <2>2 DEF In
  <2>3. CASE f[1] = i
    <3>1. f[2] \in Locs(s) \/ f[2] = l
      BY <1>1, <1>2, <2>1, <2>3
    <3>2. QED BY <2>1, <2>3, <3>1 DEF In
  <2>4. QED BY <2>2, <2>3
<1>9. ASSUME NEW f \in Event, NEW x \in Types, In(f, us), x \in TypesIn(us, f)
      PROVE  (In(f, ts) /\ x \in TypesIn(ts, f)) \/ (f = e /\ x = t)
  <2>1. f = <<f[1], f[2]>> /\ f[1] \in 1 .. Len(ts) /\ f[2] \in Locs(us[f[1]])
    BY <1>2, <1>9, EventIs, InIs
  <2>2. CASE f[1] # i
    BY <1>2, <1>9, <2>1, <2>2 DEF In, TypesIn
  <2>3. CASE f[1] = i
    <3>1. x \in TypesAt(u, f[2]) /\ f[2] \in Locs(u)
      BY <1>2, <1>9, <2>1, <2>3 DEF TypesIn
    <3>2. CASE f[2] \in Locs(s)
      <4>1. x \in TypesAt(s, f[2]) \/ (x = t /\ f[2] = l)
        BY <1>1, <3>1, <3>2
      <4>2. In(f, ts) /\ TypesIn(ts, f) = TypesAt(s, f[2])
        BY <2>1, <2>3, <3>2 DEF In, TypesIn
      <4>3. QED BY <2>1, <2>3, <4>1, <4>2
    <3>3. CASE f[2] \notin Locs(s)
      <4>1. f[2] = l /\ x \in {t}
        BY <1>1, <3>1, <3>3
      <4>2. QED BY <2>1, <2>3, <4>1
    <3>4. QED BY <3>2, <3>3
  <2>4. QED BY <2>2, <2>3
<1>10. Adds(ts, us, e, t)
  BY <1>2, <1>7, <1>8, <1>9 DEF Adds
<1>11. ~Inserted(r) \/ r.ec = SameExists => us = ts
  BY <1>1, <1>5
<1>12. In(e, ts) /\ t \in TypesIn(ts, e) => us = ts
  BY <1>1, <1>4, <1>5
<1>13. QED BY <1>1, <1>2, <1>4, <1>6, <1>10, <1>11, <1>12 DEF Placed

LEMMA TryPlaced ==
  ASSUME NEW ts, AllSound(ts), NEW i \in 1 .. Len(ts), NEW l \in Loc, NEW t \in Types,
         NEW stop \in 0 .. Len(ts[i]), NEW start \in 0 .. Len(ts[i]),
         NEW r, r = TryInsert(ts[i], l, t, stop, start),
         NEW us, us = PutIn(ts, i, r.seq)
  PROVE  /\ Placed(ts, us, i, l, t, r) /\ r.ec \in Int
         /\ Inserted(r) =>
              /\ stop # 0 => IndexOf(r.seq, l) <= IndexOf(r.seq, ts[i][stop].loc)
              /\ start # 0 => IndexOf(r.seq, ts[i][start].loc) < IndexOf(r.seq, l)
<1>1. Outcome(ts[i], l, t, stop, start, TryInsert(ts[i], l, t, stop, start))
  BY SoundAt, InsertOutcome DEF TryInsert
<1>2. Outcome(ts[i], l, t, stop, start, r)
  BY <1>1
<1>3. Placed(ts, us, i, l, t, r)
  BY <1>2, PutAdds
<1>4. QED BY <1>2, <1>3 DEF Outcome

LEMMA NewThreadSound ==
  ASSUME NEW l \in Loc, NEW t \in Types
  PROVE  /\ Sound(NewThread(l, t)) /\ Len(NewThread(l, t)) = 1
         /\ Locs(NewThread(l, t)) = {l} /\ TypesAt(NewThread(l, t), l) = {t}
<1> DEFINE n == [loc |-> l, ty |-> {t}]
           s == NewThread(l, t)
<1>1. n \in Node /\ n.loc = l /\ n.ty = {t}
  BY DEF Node
<1>2. s = <<n>>
  BY DEF NewThread
<1> HIDE DEF n, s
<1>3. s \in Seq(Node) /\ Len(s) = 1 /\ DOMAIN s = {1} /\ s[1] = n
  BY <1>1, <1>2
<1>4. Good(s)
  <2>1. \A j \in 1 .. Len(s) : j = 1
    BY <1>3
  <2>2. Distinct(s)
    BY <2>1 DEF Distinct
  <2>3. \A j, k \in 1 .. Len(s) : ~(j < k)
    BY <1>3
  <2>4. Ordered(s)
    BY <2>3 DEF Ordered
  <2>5. QED BY <1>3, <2>2, <2>4 DEF Good
<1>5. Sound(s)
  <2>1. \A j \in 1 .. Len(s) : s[j] = n
    BY <1>3
  <2>2. QED BY <1>1, <1>4, <2>1 DEF Sound
<1>6. Locs(s) = {l}
  BY <1>1, <1>3 DEF Locs
<1>7. TypesAt(s, l) = {t}
  <2>1. IndexOf(s, l) \in 1 .. Len(s)
    BY <1>4, <1>6, LocAt
  <2>2. QED BY <1>1, <1>3, <2>1 DEF TypesAt
<1>8. QED BY <1>3, <1>5, <1>6, <1>7 DEF s

LEMMA AppendAdds ==
  ASSUME NEW ts, AllSound(ts), NEW l \in Loc, NEW t \in Types,
         NEW us, us = Append(ts, NewThread(l, t)), NEW e, e = <<Len(ts) + 1, l>>
  PROVE  /\ Adds(ts, us, e, t) /\ Len(us) = Len(ts) + 1
         /\ us[Len(us)] = NewThread(l, t)
         /\ In(e, us) /\ t \in TypesIn(us, e)
<1> DEFINE s == NewThread(l, t)
           n == Len(ts) + 1
<1>1. Sound(s) /\ s \in Seq(Node) /\ Locs(s) = {l} /\ TypesAt(s, l) = {t}
  BY NewThreadSound DEF Sound, Good
<1>2. ts \in Seq(Seq(Node)) /\ Len(ts) \in Nat
  BY ThreadsType
<1> HIDE DEF s
<1>3. /\ us \in Seq(Seq(Node)) /\ Len(us) = n /\ us[n] = s
      /\ \A j \in 1 .. Len(ts) : us[j] = ts[j]
  BY <1>1, <1>2, AppendProperties DEF s
<1>4. AllSound(us)
  <2>1. ASSUME NEW j \in 1 .. Len(us) PROVE Sound(us[j])
    <3>1. CASE j = n
      BY <1>1, <1>3, <3>1
    <3>2. CASE j # n
      <4>1. j \in 1 .. Len(ts)
        BY <1>2, <1>3, <3>2
      <4>2. QED BY <1>3, <4>1, SoundAt
    <3>3. QED BY <3>1, <3>2
  <2>2. QED BY <1>3, <2>1 DEF AllSound
<1>5. Grown(ts, us)
  BY <1>2, <1>3, ExtendsSelf DEF Grown
<1>6. e \in Event /\ e[1] = n /\ e[2] = l
  BY <1>2, PairIs
<1>7. ASSUME NEW f \in Event, In(f, us), f # e
      PROVE  In(f, ts) /\ TypesIn(us, f) = TypesIn(ts, f)
  <2>1. f = <<f[1], f[2]>> /\ f[1] \in 1 .. Len(us) /\ f[2] \in Locs(us[f[1]])
    BY <1>4, <1>7, EventIs, InIs
  <2>2. f[1] # n
    BY <1>1, <1>3, <1>7, <2>1
  <2>3. f[1] \in 1 .. Len(ts)
    BY <1>2, <1>3, <2>1, <2>2
  <2>4. QED BY <1>3, <2>1, <2>3 DEF In, TypesIn
<1>8. In(e, us) /\ TypesIn(us, e) = {t}
  <2>1. n \in 1 .. Len(us)
    BY <1>2, <1>3
  <2>2. QED BY <1>1, <1>3, <1>6, <2>1 DEF In, TypesIn
<1>9. Adds(ts, us, e, t)
  <2>1. \A f \in Event : In(f, us) => In(f, ts) \/ f = e
    BY <1>7
  <2>2. ASSUME NEW f \in Event, NEW x \in Types, In(f, us), x \in TypesIn(us, f)
        PROVE  (In(f, ts) /\ x \in TypesIn(ts, f)) \/ (f = e /\ x = t)
    BY <1>7, <1>8, <2>2
  <2>3. QED BY <1>4, <1>5, <2>1, <2>2 DEF Adds
<1>10. QED BY <1>3, <1>8, <1>9 DEF s

----------------------------------------------------------------------------
(* What holds of threads still holds when they have grown.                 *)

LEMMA EnclosesGrown ==
  ASSUME NEW ts, AllSound(ts), NEW us, AllSound(us), Grown(ts, us),
         NEW p, In(p.lk, ts), In(p.uk, ts), Encloses(ts, p)
  PROVE  Encloses(us, p)
<1>1. /\ p.lk[1] = p.uk[1] /\ "LOCK" \in TypesIn(ts, p.lk) /\ "UNLOCK" \in TypesIn(ts, p.uk)
  BY DEF Encloses
<1>2. PICK x \in Event : /\ In(x, ts) /\ x[1] = p.lk[1] /\ p.info \in Lock4Loc(x[2])
                         /\ PosIn(ts, p.lk) <= PosIn(ts, x) /\ PosIn(ts, x) < PosIn(ts, p.uk)
  BY DEF Encloses
<1>3. "LOCK" \in TypesIn(us, p.lk) /\ "UNLOCK" \in TypesIn(us, p.uk) /\ In(x, us)
  BY <1>1, <1>2, GrownIn
<1>4. PosIn(us, p.lk) <= PosIn(us, x) /\ PosIn(us, x) < PosIn(us, p.uk)
  BY <1>1, <1>2, GrownPos
<1>5. QED BY <1>1, <1>2, <1>3, <1>4 DEF Encloses

LEMMA GuardsGrown ==
  ASSUME NEW ts, AllSound(ts), NEW us, AllSound(us), Grown(ts, us),
         NEW R, NEW Q, R \subseteq Q, NEW x, In(x, ts), Guards(ts, R, x)
  PROVE  Guards(us, Q, x)
<1>1. PICK y \in Event : \E b \in CriticalBranches(y[2]) :
        /\ In(y, ts) /\ y[1] = x[1] /\ b.check = x[2]
        /\ PosIn(ts, x) < PosIn(ts, y)
        /\ \E z \in Event : In(z, ts) /\ z[2] \in b.killers /\ <<x, z>> \in R
  BY DEF Guards
<1>2. PICK b \in CriticalBranches(y[2]) :
        /\ In(y, ts) /\ y[1] = x[1] /\ b.check = x[2]
        /\ PosIn(ts, x) < PosIn(ts, y)
        /\ \E z \in Event : In(z, ts) /\ z[2] \in b.killers /\ <<x, z>> \in R
  BY <1>1
<1>3. In(y, us) /\ PosIn(us, x) < PosIn(us, y)
  BY <1>2, GrownIn, GrownPos
<1>4. \E z \in Event : In(z, us) /\ z[2] \in b.killers /\ <<x, z>> \in Q
  BY <1>2, GrownIn
<1>5. QED BY <1>2, <1>3, <1>4 DEF Guards

LEMMA NotBeforeExtends ==
  ASSUME NEW s, Good(s), NEW u, Good(u), Extends(s, u), NEW l, NEW m \in Locs(s),
         NotBefore(s, l, m)
  PROVE  NotBefore(u, l, m)
<1>1. CASE l \in Locs(s) /\ IndexOf(s, m) < IndexOf(s, l)
  BY <1>1 DEF NotBefore, Extends
<1>2. CASE \E n \in Loc : Excluded(s, l, n) /\ IndexOf(s, n) < IndexOf(s, m)
  <2>1. PICK n \in Loc : Excluded(s, l, n) /\ IndexOf(s, n) < IndexOf(s, m)
    BY <1>2
  <2>2. n \in Locs(s)
    BY <2>1 DEF Excluded
  <2>3. Excluded(u, l, n) /\ IndexOf(u, n) < IndexOf(u, m)
    BY <2>1, <2>2 DEF Excluded, Extends
  <2>4. QED BY <2>3 DEF NotBefore
<1>3. QED BY <1>1, <1>2 DEF NotBefore

LEMMA NotBehindExtends ==
  ASSUME NEW s, Good(s), NEW u, Good(u), Extends(s, u), NEW l, NEW m \in Locs(s),
         NotBehind(s, l, m)
  PROVE  NotBehind(u, l, m)
<1>1. CASE ~Reach(m, l)
  BY <1>1 DEF NotBehind
<1>2. CASE l \in Locs(s) /\ IndexOf(s, l) <= IndexOf(s, m)
  <2>1. IndexOf(u, l) <= IndexOf(u, m)
    BY <1>2, ExtendsOrder
  <2>2. QED BY <1>2, <2>1 DEF NotBehind, Extends
<1>3. CASE \E n \in Loc : Excluded(s, l, n) /\ IndexOf(s, m) < IndexOf(s, n)
  <2>1. PICK n \in Loc : Excluded(s, l, n) /\ IndexOf(s, m) < IndexOf(s, n)
    BY <1>3
  <2>2. n \in Locs(s)
    BY <2>1 DEF Excluded
  <2>3. Excluded(u, l, n) /\ IndexOf(u, m) < IndexOf(u, n)
    BY <2>1, <2>2 DEF Excluded, Extends
  <2>4. QED BY <2>3 DEF NotBehind
<1>4. QED BY <1>1, <1>2, <1>3 DEF NotBehind

LEMMA NoRoomExtends ==
  ASSUME NEW s, Good(s), NEW u, Good(u), Extends(s, u), NEW m \in Locs(s), NEW l, NEW v,
         NoRoom(s, m, l, v)
  PROVE  NoRoom(u, m, l, v)
BY NotBeforeExtends, NotBehindExtends DEF NoRoom

(* Where insertLoc refuses, there is no place.                             *)
LEMMA RefusedNotBefore ==
  ASSUME NEW s, Good(s), NEW l \in Loc, NEW t, NEW m \in Locs(s), Reach(l, m),
         ~Inserted(InsertLoc(s, l, {t}, TRUE, FALSE, IndexOf(s, m), 0))
  PROVE  NotBefore(s, l, m)
<1> DEFINE k == IndexOf(s, m)
           i == IndexOf(s, l)
           S == Stops(s, l, k, 0)
           r == InsertLoc(s, l, {t}, TRUE, FALSE, k, 0)
<1>1. k \in 1 .. Len(s) /\ s[k].loc = m /\ Len(s) \in Nat /\ s \in Seq(Node) /\ k # 0
  BY LocAt DEF Good
<1>2. LastSlot(s, k) = k
  BY <1>1 DEF LastSlot
<1>3. CASE l \in Locs(s)
  <2>1. i \in 1 .. Len(s)
    BY <1>3, LocAt
  <2>2. ASSUME i <= k PROVE FALSE
    <3>1. i \in 0 + 1 .. k /\ ~(i > k \/ i <= 0)
      BY <1>1, <2>1, <2>2
    <3>2. r = InsertPresent(s, l, {t}, TRUE, k, 0)
      BY <1>3 DEF InsertLoc
    <3>3. CASE t \in s[i].ty
      <4>1. r = [ec |-> SameExists, seq |-> s]
        BY <1>2, <3>1, <3>2, <3>3 DEF InsertPresent
      <4> HIDE DEF r
      <4>2. r.ec = SameExists
        BY <4>1
      <4>3. Inserted(r)
        BY <4>2 DEF Inserted
      <4>4. QED BY <4>3 DEF r
    <3>4. CASE t \notin s[i].ty
      <4>1. r = [ec |-> TypeMerged, seq |-> [s EXCEPT ![i].ty = @ \cup {t}]]
        BY <1>2, <3>1, <3>2, <3>4 DEF InsertPresent
      <4> HIDE DEF r
      <4>2. r.ec = TypeMerged
        BY <4>1
      <4>3. Inserted(r)
        BY <4>2 DEF Inserted
      <4>4. QED BY <4>3 DEF r
    <3>5. QED BY <3>3, <3>4
  <2>3. k < i
    BY <1>1, <2>1, <2>2
  <2>4. QED BY <1>3, <2>3 DEF NotBefore
<1>4. CASE l \notin Locs(s)
  <2>1. r = InsertAbsent(s, l, {t}, FALSE, k, 0)
    BY <1>4 DEF InsertLoc
  <2>2. k \in S
    BY <1>1, <1>2 DEF Stops
  <2>3. S \subseteq Nat /\ S \subseteq 1 .. Len(s)
    BY <1>1, StopsAre
  <2> DEFINE j == First(S)
  <2>4. j \in S /\ j \in 1 .. Len(s)
    BY <2>2, <2>3, FirstIs
  <2>5. ASSUME Reach(l, s[j].loc) PROVE FALSE
    <3>1. r = [ec |-> j - 1, seq |-> InsertAt(s, j, [loc |-> l, ty |-> {t}])]
      BY <2>1, <2>2, <2>5 DEF InsertAbsent, InsertBefore
    <3> HIDE DEF r, j
    <3>2. r.ec = j - 1
      BY <3>1
    <3>3. Inserted(r)
      BY <2>4, <3>2 DEF Inserted
    <3>4. QED BY <3>3 DEF r
  <2>6. ~Reach(l, s[j].loc) /\ ~Reach(s[j].loc, l)
    BY <2>4, <2>5 DEF Stops
  <2> HIDE DEF j
  <2>7. s[j].loc \in Locs(s) /\ s[j].loc \in Loc /\ IndexOf(s, s[j].loc) = j
    BY <1>1, <2>4, IndexIs, NodesHaveLoc
  <2>8. s[j].loc # l
    BY <1>4, <2>7
  <2>9. Excluded(s, l, s[j].loc)
    BY <2>6, <2>7, <2>8 DEF Excluded
  <2>10. j <= k /\ j # k
    BY <1>1, <1>2, <2>4, <2>6 DEF Stops
  <2>11. j < k
    BY <1>1, <2>4, <2>10
  <2>12. QED BY <2>7, <2>9, <2>11 DEF NotBefore
<1>5. QED BY <1>3, <1>4

LEMMA RefusedNotBehind ==
  ASSUME NEW s, Good(s), NEW l \in Loc, NEW t, NEW m \in Locs(s),
         ~Inserted(InsertLoc(s, l, {t}, TRUE, FALSE, 0, IndexOf(s, m)))
  PROVE  NotBehind(s, l, m)
<1> DEFINE k == IndexOf(s, m)
           i == IndexOf(s, l)
           S == Stops(s, l, 0, k)
           r == InsertLoc(s, l, {t}, TRUE, FALSE, 0, k)
<1>1. k \in 1 .. Len(s) /\ s[k].loc = m /\ Len(s) \in Nat /\ s \in Seq(Node) /\ k # 0
  BY LocAt DEF Good
<1>2. LastSlot(s, 0) = Len(s)
  BY DEF LastSlot
<1> SUFFICES ASSUME Reach(m, l) PROVE NotBehind(s, l, m)
  BY DEF NotBehind
<1>3. CASE l \in Locs(s)
  <2>1. i \in 1 .. Len(s)
    BY <1>3, LocAt
  <2>2. ASSUME k < i PROVE FALSE
    <3>1. i \in k + 1 .. Len(s) /\ ~(i > Len(s) \/ i <= k)
      BY <1>1, <2>1, <2>2
    <3>2. r = InsertPresent(s, l, {t}, TRUE, 0, k)
      BY <1>1, <1>3 DEF InsertLoc
    <3>3. CASE t \in s[i].ty
      <4>1. r = [ec |-> SameExists, seq |-> s]
        BY <1>2, <3>1, <3>2, <3>3 DEF InsertPresent
      <4> HIDE DEF r
      <4>2. r.ec = SameExists
        BY <4>1
      <4>3. Inserted(r)
        BY <4>2 DEF Inserted
      <4>4. QED BY <4>3 DEF r
    <3>4. CASE t \notin s[i].ty
      <4>1. r = [ec |-> TypeMerged, seq |-> [s EXCEPT ![i].ty = @ \cup {t}]]
        BY <1>2, <3>1, <3>2, <3>4 DEF InsertPresent
      <4> HIDE DEF r
      <4>2. r.ec = TypeMerged
        BY <4>1
      <4>3. Inserted(r)
        BY <4>2 DEF Inserted
      <4>4. QED BY <4>3 DEF r
    <3>5. QED BY <3>3, <3>4
  <2>3. i <= k
    BY <1>1, <2>1, <2>2
  <2>4. QED BY <1>3, <2>3 DEF NotBehind
<1>4. CASE l \notin Locs(s)
  <2>1. r = InsertAbsent(s, l, {t}, FALSE, 0, k)
    BY <1>1, <1>4 DEF InsertLoc
  <2>3. S \subseteq Nat /\ S \subseteq 1 .. Len(s)
    BY <1>1, StopsAre
  <2> DEFINE j == First(S)
  <2>4. CASE S = {}
    <3>1. r = [ec |-> (Len(s) + 1) - 1, seq |-> InsertAt(s, Len(s) + 1, [loc |-> l, ty |-> {t}])]
      BY <2>1, <2>4 DEF InsertAbsent, InsertBefore
    <3> HIDE DEF r
    <3>2. r.ec = (Len(s) + 1) - 1
      BY <3>1
    <3>3. Inserted(r)
      BY <1>1, <3>2 DEF Inserted
    <3>4. QED BY <3>3 DEF r
  <2>5. CASE S # {}
    <3>1. j \in S /\ j \in 1 .. Len(s)
      BY <2>3, <2>5, FirstIs
    <3>2. ASSUME Reach(l, s[j].loc) PROVE FALSE
      <4>1. r = [ec |-> j - 1, seq |-> InsertAt(s, j, [loc |-> l, ty |-> {t}])]
        BY <2>1, <2>5, <3>2 DEF InsertAbsent, InsertBefore
      <4> HIDE DEF r, j
      <4>2. r.ec = j - 1
        BY <4>1
      <4>3. Inserted(r)
        BY <3>1, <4>2 DEF Inserted
      <4>4. QED BY <4>3 DEF r
    <3>3. ~Reach(l, s[j].loc) /\ ~Reach(s[j].loc, l) /\ k < j
      BY <1>1, <3>1, <3>2 DEF Stops
    <3> HIDE DEF j
    <3>4. s[j].loc \in Locs(s) /\ s[j].loc \in Loc /\ IndexOf(s, s[j].loc) = j
      BY <1>1, <3>1, IndexIs, NodesHaveLoc
    <3>5. s[j].loc # l
      BY <1>4, <3>4
    <3>6. Excluded(s, l, s[j].loc)
      BY <3>3, <3>4, <3>5 DEF Excluded
    <3>7. QED BY <3>3, <3>4, <3>6 DEF NotBehind
  <2>6. QED BY <2>4, <2>5
<1>5. QED BY <1>3, <1>4

(* A pair of a lock l and an unlock v goes in around m if there is room.   *)
LockIn(s, l, m) == InsertLoc(s, l, {"LOCK"}, TRUE, FALSE, IndexOf(s, m), 0)
UnlockIn(s, v, m) == InsertLoc(s, v, {"UNLOCK"}, TRUE, FALSE, 0, IndexOf(s, m))

LEMMA LockTypes == {"LOCK", "UNLOCK", "GSET", "GCHECK", "ESCAPE", "FETCH", "FREE", "USE"} \subseteq Types
BY SchedAssumption DEF EventTypes

LEMMA LockInIs ==
  ASSUME NEW s, Sound(s), NEW l \in Loc, NEW m \in Locs(s)
  PROVE  /\ Outcome(s, l, "LOCK", IndexOf(s, m), 0, LockIn(s, l, m))
         /\ Inserted(LockIn(s, l, m)) =>
              /\ l \in Locs(LockIn(s, l, m).seq)
              /\ IndexOf(LockIn(s, l, m).seq, l) <= IndexOf(LockIn(s, l, m).seq, m)
<1>1. /\ IndexOf(s, m) \in 0 .. Len(s) /\ 0 \in 0 .. Len(s) /\ IndexOf(s, m) # 0
      /\ s[IndexOf(s, m)].loc = m
  <2>1. IndexOf(s, m) \in 1 .. Len(s) /\ s[IndexOf(s, m)].loc = m /\ Len(s) \in Nat
    BY LocAt DEF Sound, Good
  <2>2. QED BY <2>1
<1>2. Outcome(s, l, "LOCK", IndexOf(s, m), 0, LockIn(s, l, m))
  BY <1>1, InsertOutcome, LockTypes DEF LockIn
<1>3. QED BY <1>1, <1>2 DEF Outcome

LEMMA PairRefused ==
  ASSUME NEW s, Sound(s), NEW l \in Loc, NEW v \in Loc, NEW m \in Locs(s), Reach(l, m),
         \/ ~Inserted(LockIn(s, l, m))
         \/ ~Inserted(UnlockIn(LockIn(s, l, m).seq, v, m))
  PROVE  NoRoom(s, m, l, v)
<1>1. CASE ~Inserted(LockIn(s, l, m))
  BY <1>1, RefusedNotBefore DEF NoRoom, LockIn, Sound
<1>2. CASE Inserted(LockIn(s, l, m)) /\ ~Inserted(UnlockIn(LockIn(s, l, m).seq, v, m))
  <2> DEFINE u == LockIn(s, l, m).seq
  <2>1. /\ Sound(u) /\ Good(u) /\ Good(s) /\ Extends(s, u) /\ Locs(u) \subseteq Locs(s) \cup {l}
        /\ IndexOf(u, l) <= IndexOf(u, m) /\ l \in Locs(u) /\ m \in Locs(u)
    BY <1>2, LockInIs DEF Outcome, Sound, Extends
  <2>2. NotBehind(u, v, m)
    BY <1>2, <2>1, RefusedNotBehind DEF UnlockIn
  <2> HIDE DEF u
  <2>3. CASE v = l
    BY <2>3 DEF NoRoom
  <2>4. CASE v # l
    <3>1. \A n \in Locs(s) : IndexOf(s, n) \in Nat /\ n \in Locs(u) /\ IndexOf(u, n) \in Nat
      BY <2>1, LocAt DEF Good, Extends
    <3>2. IndexOf(u, l) \in Nat
      BY <2>1, LocAt DEF Good
    <3>3. CASE ~Reach(m, v)
      BY <3>3 DEF NotBehind, NoRoom
    <3>4. CASE v \in Locs(u) /\ IndexOf(u, v) <= IndexOf(u, m)
      <4>1. v \in Locs(s)
        BY <2>1, <2>4, <3>4
      <4>2. ~(IndexOf(s, m) < IndexOf(s, v))
        BY <2>1, <3>1, <3>4, <4>1 DEF Extends
      <4>3. IndexOf(s, v) <= IndexOf(s, m)
        BY <3>1, <4>1, <4>2
      <4>4. QED BY <4>1, <4>3 DEF NotBehind, NoRoom
    <3>5. CASE \E n \in Loc : Excluded(u, v, n) /\ IndexOf(u, m) < IndexOf(u, n)
      <4>1. PICK n \in Loc : Excluded(u, v, n) /\ IndexOf(u, m) < IndexOf(u, n)
        BY <3>5
      <4>2. n # l
        BY <2>1, <3>1, <3>2, <4>1
      <4>3. n \in Locs(s)
        BY <2>1, <4>1, <4>2 DEF Excluded
      <4>4. ~(IndexOf(s, n) <= IndexOf(s, m))
        <5>1. ASSUME IndexOf(s, n) <= IndexOf(s, m) PROVE FALSE
          <6>1. IndexOf(u, n) <= IndexOf(u, m)
            BY <2>1, <4>3, <5>1, ExtendsOrder
          <6>2. QED BY <3>1, <4>1, <4>3, <6>1
        <5>2. QED BY <5>1
      <4>5. Excluded(s, v, n) /\ IndexOf(s, m) < IndexOf(s, n)
        BY <3>1, <4>1, <4>3, <4>4 DEF Excluded
      <4>6. QED BY <4>5 DEF NotBehind, NoRoom
    <3>6. QED BY <2>2, <3>3, <3>4, <3>5 DEF NotBehind
  <2>5. QED BY <2>3, <2>4
<1>3. QED BY <1>1, <1>2

----------------------------------------------------------------------------
(* The parts of the invariant that follow from how a step changes what     *)
(* stays (Base), whatever step it is.                                      *)

Growing ==
  /\ AllSound(Base) /\ AllSound(Base') /\ AllSound(trs')
  /\ Grown(Base, Base') /\ Grown(Base', trs')

LEMMA GrowingSound == Growing => SoundInv'
BY DEF Growing, SoundInv

LEMMA HeldStep ==
  ASSUME Growing, HeldInv, \A e \in Held' : e \in Held \/ In(e, Base')
  PROVE  HeldInv'
<1>1. ASSUME NEW e \in Held' PROVE In(e, Base')
  <2>1. CASE e \in Held
    <3>1. In(e, Base)
      BY <2>1 DEF HeldInv
    <3>2. QED BY <3>1, GrownIn DEF Growing
  <2>2. QED BY <2>1
<1>2. QED BY <1>1 DEF HeldInv

LEMMA RegionStep ==
  ASSUME Growing, HeldInv, RegionInv,
         \A p \in lockMap' : p \in lockMap \/ Encloses(Base', p)
  PROVE  RegionInv'
<1>1. ASSUME NEW p \in lockMap' PROVE Encloses(Base', p)
  <2>1. CASE p \in lockMap
    <3>1. In(p.lk, Base) /\ In(p.uk, Base) /\ Encloses(Base, p)
      BY <2>1 DEF HeldInv, Held, RegionInv
    <3>2. QED BY <3>1, EnclosesGrown DEF Growing
  <2>2. QED BY <2>1
<1>2. QED BY <1>1 DEF RegionInv

LEMMA GuardStep ==
  ASSUME Growing, GuardInv, pc # "done", poc \subseteq poc',
         \A x \in Event : In(x, Base') /\ "GCHECK" \in TypesIn(Base', x) =>
           \/ In(x, Base) /\ "GCHECK" \in TypesIn(Base, x)
           \/ Guards(Base', poc', x)
  PROVE  GuardInv'
<1>1. ASSUME NEW x \in Event, In(x, Base'), "GCHECK" \in TypesIn(Base', x)
      PROVE  Guards(Base', poc', x)
  <2>1. CASE In(x, Base) /\ "GCHECK" \in TypesIn(Base, x)
    <3>1. Guards(Base, poc, x)
      BY <2>1 DEF GuardInv
    <3>2. QED BY <2>1, <3>1, GuardsGrown DEF Growing
  <2>2. QED BY <1>1, <2>1
<1>2. QED BY <1>1 DEF GuardInv

(* An event whose lock k has been dealt with.                              *)
Settled(e, k) ==
  \/ Pending(e, k) \/ LockPair(e, k) \in lockMap
  \/ NoRoom(Base[e[1]], e[2], LockLoc(k), FirstUnlock(e, k))

LEMMA SatIs ==
  SatInv <=> (pc \in {"supp", "lock", "killer", "exclude"} =>
                \A e \in Event : In(e, Base) => \A k \in Lock4Loc(e[2]) : Settled(e, k))
BY DEF SatInv, Settled

LEMMA UnlockStays ==
  ASSUME warn' = warn
  PROVE  \A e, k : FirstUnlock(e, k)' = FirstUnlock(e, k) /\ LockPair(e, k)' = LockPair(e, k)
BY DEF FirstUnlock, LockPair

LEMMA SatStep ==
  ASSUME Growing, SatInv, pc \in {"supp", "lock", "killer", "exclude"},
         warn' = warn, lockMap \subseteq lockMap',
         \A e \in Event : In(e, Base') /\ ~In(e, Base) =>
           \A k \in Lock4Loc(e[2]) : Pending(e, k)',
         \A e \in Event : In(e, Base) =>
           \A k \in Lock4Loc(e[2]) : Pending(e, k) => Settled(e, k)'
  PROVE  SatInv'
<1>1. ASSUME NEW e \in Event, In(e, Base'), NEW k \in Lock4Loc(e[2])
      PROVE  Settled(e, k)'
  <2>1. CASE ~In(e, Base)
    BY <1>1, <2>1 DEF Settled
  <2>2. CASE In(e, Base)
    <3>1. Settled(e, k)
      BY <2>2 DEF SatInv, Settled
    <3>2. CASE Pending(e, k)
      BY <2>2, <3>2
    <3>3. CASE LockPair(e, k) \in lockMap
      BY <3>3, UnlockStays DEF Settled
    <3>4. CASE NoRoom(Base[e[1]], e[2], LockLoc(k), FirstUnlock(e, k))
      <4>1. e[1] \in 1 .. Len(Base) /\ e[2] \in Locs(Base[e[1]])
        BY <2>2 DEF In
      <4>2. e[1] \in 1 .. Len(Base')
        BY <1>1 DEF In
      <4>3. Good(Base[e[1]]) /\ Good(Base'[e[1]]) /\ Extends(Base[e[1]], Base'[e[1]])
        BY <4>1, <4>2, SoundAt DEF Growing, Grown
      <4>4. NoRoom(Base'[e[1]], e[2], LockLoc(k), FirstUnlock(e, k))
        BY <3>4, <4>1, <4>3, NoRoomExtends
      <4>5. QED BY <4>4, UnlockStays DEF Settled
    <3>5. QED BY <3>1, <3>2, <3>3, <3>4 DEF Settled
  <2>3. QED BY <2>1, <2>2
<1>2. SatInv' <=> (pc' \in {"supp", "lock", "killer", "exclude"} =>
                     \A e \in Event : In(e, Base') => \A k \in Lock4Loc(e[2]) : Settled(e, k)')
  BY DEF SatInv, Settled
<1>3. QED BY <1>1, <1>2

(* Steps that touch no thread.                                             *)
LEMMA QuietGrowing ==
  ASSUME SoundInv, trs' = trs, pc # "killer", pc' # "killer"
  PROVE  Growing /\ Base = trs /\ Base' = trs
<1>1. Base = trs /\ Base' = trs'
  BY DEF Base, Tentative
<1>2. QED BY <1>1, GrownSelf DEF SoundInv, Growing

LEMMA QuietStep ==
  ASSUME SoundInv, HeldInv, RegionInv, GuardInv, trs' = trs,
         pc \notin {"killer", "done"}, pc' # "killer",
         lockMap' = lockMap, poc \subseteq poc',
         \A e \in Held' : e \in Held \/ In(e, trs)
  PROVE  SoundInv' /\ HeldInv' /\ CheckInv' /\ RegionInv' /\ GuardInv'
<1>1. Growing /\ Base = trs /\ Base' = trs
  BY QuietGrowing
<1>2. HeldInv'
  BY <1>1, HeldStep
<1>3. RegionInv'
  BY <1>1, RegionStep
<1>4. GuardInv'
  BY <1>1, GuardStep
<1>5. QED BY <1>1, <1>2, <1>3, <1>4, GrowingSound DEF CheckInv

----------------------------------------------------------------------------
(* The constants and the arguments.                                        *)

LEMMA WarnIs ==
  ASSUME TypeOK
  PROVE  /\ warn \in Warnings /\ warn.floc \in Loc /\ warn.uloc \in Loc
         /\ warn.paths \in Seq(Seq(PathNode)) /\ Len(warn.paths) = 2
         /\ warn.paths[1] \in Seq(PathNode) /\ warn.paths[2] \in Seq(PathNode)
         /\ Mirrored(warn.paths[1]) /\ Mirrored(warn.paths[2])
         /\ warn.rank \in Seq(LockInfos \cup Loc)
<1>1. warn \in Warnings /\ warn \in Warning
  BY SchedAssumption DEF TypeOK
<1>2. /\ warn.floc \in Loc /\ warn.uloc \in Loc
      /\ warn.paths \in Seq(Seq(PathNode)) /\ warn.rank \in Seq(LockInfos \cup Loc)
  BY <1>1 DEF Warning
<1>3. Len(warn.paths) = 2 /\ Mirrored(warn.paths[1]) /\ Mirrored(warn.paths[2])
  BY <1>1, SchedAssumption
<1>4. warn.paths[1] \in Seq(PathNode) /\ warn.paths[2] \in Seq(PathNode)
  BY <1>2, <1>3, ElementOfSeq
<1>5. QED BY <1>1, <1>2, <1>3, <1>4

LEMMA LocksAre ==
  ASSUME NEW l \in Loc, NEW k \in Lock4Loc(l)
  PROVE  /\ k \in LockInfos /\ LockLoc(k) \in Loc /\ Reach(LockLoc(k), l)
         /\ PairedUnlocks(k, l) # {} /\ PairedUnlocks(k, l) \subseteq Unlocks(k)
         /\ PairedUnlocks(k, l) \subseteq Loc
<1>1. k \in LockInfos /\ Reach(LockLoc(k), l) /\ PairedUnlocks(k, l) # {}
  BY DEF Lock4Loc
<1>2. PairedUnlocks(k, l) \subseteq Unlocks(k)
  BY DEF PairedUnlocks
<1>3. QED BY <1>1, <1>2, SchedAssumption

LEMMA FirstUnlockIs ==
  ASSUME TypeOK, NEW e \in Event, NEW k \in Lock4Loc(e[2])
  PROVE  FirstUnlock(e, k) \in Loc
<1> DEFINE S == PairedUnlocks(k, e[2])
           I == { i \in DOMAIN warn.rank : warn.rank[i] \in S }
<1>1. e[2] \in Loc
  BY EventIs
<1>2. S # {} /\ S \subseteq Loc /\ S \subseteq Unlocks(k) /\ k \in LockInfos
  BY <1>1, LocksAre
<1>3. S \subseteq ToSet(warn.rank)
  BY <1>2, WarnIs, SchedAssumption
<1>4. warn.rank \in Seq(LockInfos \cup Loc)
  BY WarnIs
<1> HIDE DEF S
<1>5. I \subseteq Nat
  BY <1>4
<1>6. I # {}
  BY <1>2, <1>3 DEF ToSet
<1>7. First(I) \in I
  BY <1>5, <1>6, FirstIs
<1>8. FirstUnlock(e, k) = warn.rank[First(I)]
  BY DEF FirstUnlock, Foremost, S
<1>9. QED BY <1>2, <1>7, <1>8

LEMMA BranchesAre ==
  ASSUME NEW l \in Loc, NEW b \in CriticalBranches(l)
  PROVE  b \in [check : Loc, killers : SUBSET Loc] /\ b.check \in Loc /\ b.killers \subseteq Loc
         /\ b.check # l
<1>1. b \in [check : Loc, killers : SUBSET Loc] /\ b.check # l
  BY SchedAssumption
<1>2. QED BY <1>1

LEMMA EventsStay == warn' = warn => FreeEvent' = FreeEvent /\ UseEvent' = UseEvent
BY DEF FreeEvent, UseEvent

LEMMA InNotNone ==
  ASSUME NEW ts, AllSound(ts), NEW e, In(e, ts)
  PROVE  e \in Event /\ e # None
<1>1. e \in Event /\ e[1] \in 1 .. Len(ts) /\ Len(ts) \in Nat
  BY InIs, ThreadsType
<1>2. e[1] # 0
  BY <1>1
<1>3. QED BY <1>1, <1>2 DEF None

----------------------------------------------------------------------------
(* The steps, one by one: the invariant is inductive.                      *)

LEMMA InitStep == Init => IInv
<1> SUFFICES ASSUME Init PROVE IInv
  OBVIOUS
<1> USE DEF Init
<1>1. AllSound(<<>>)
  BY DEF AllSound
<1>2. Base = <<>>
  BY DEF Base, Tentative
<1>3. SoundInv
  BY <1>1, <1>2, GrownSelf DEF SoundInv
<1>4. Held = {}
  BY DEF Held, Ends, Idle
<1>5. TypeOK
  BY DEF TypeOK, Idle, Task, Pairs, None
<1>6. PhaseInv
  BY DEF PhaseInv, Idle
<1>7. GuardInv
  BY <1>2 DEF GuardInv, In
<1>8. QED BY <1>3, <1>4, <1>5, <1>6, <1>7 DEF IInv, HeldInv, CheckInv, RegionInv, SatInv

LEMMA efEscapeNodeStep == IInv /\ efEscapeNode => IInv'
<1> SUFFICES ASSUME IInv, efEscapeNode PROVE IInv'
  OBVIOUS
<1> USE DEF IInv
<1>1. /\ pc = "ef" /\ pc' = "ef" /\ trs' = trs /\ poc' = poc /\ warn' = warn /\ excl' = excl
      /\ lockMap' = lockMap /\ work' = work /\ job' = job /\ verdict' = verdict
      /\ ef' = [ef EXCEPT !.i = @ - 1, !.next = None,
                          !.curr = IF ef.next # None THEN ef.next ELSE @]
      /\ ef.i > 0
  BY DEF efEscapeNode
<1>2. ef \in [path : {1, 2}, i : Nat, curr : Event \cup {None}, next : Event \cup {None}]
  BY DEF TypeOK
<1>3. /\ ef' \in [path : {1, 2}, i : Nat, curr : Event \cup {None}, next : Event \cup {None}]
      /\ ef'.next = None /\ ef'.curr \in {ef.curr, ef.next} /\ (ef.curr # None => ef'.curr # None)
      /\ ef'.path = ef.path /\ ef'.i = ef.i - 1 /\ ef.i \in Nat
  <2>1. ef' = [ef EXCEPT !.i = ef.i - 1, !.next = None,
                         !.curr = IF ef.next # None THEN ef.next ELSE ef.curr]
    BY <1>1, <1>2
  <2>2. ef.i - 1 \in Nat
    BY <1>1, <1>2
  <2>3. /\ ef'.path = ef.path /\ ef'.i = ef.i - 1 /\ ef'.next = None
        /\ ef'.curr = IF ef.next # None THEN ef.next ELSE ef.curr
    BY <1>2, <2>1
  <2>4. QED BY <1>2, <2>1, <2>2, <2>3
<1>4. TypeOK'
  BY <1>1, <1>3 DEF TypeOK
<1>5. \A e \in Held' : e \in Held
  BY <1>1, <1>3 DEF Held
<1>6. SoundInv' /\ HeldInv' /\ CheckInv' /\ RegionInv' /\ GuardInv'
  BY <1>1, <1>5, QuietStep
<1>7. Base = trs /\ Base' = trs
  BY <1>1, QuietGrowing
<1>8. PhaseInv'
  <2>1. warn.paths[ef.path] \in Seq(PathNode)
    BY <1>2, WarnIs
  <2>2. Len(warn.paths[ef.path]) \in Nat
    BY <2>1, LenProperties
  <2>3. ef.i <= Len(warn.paths[ef.path])
    BY <1>1 DEF PhaseInv
  <2>4. ef'.i <= Len(warn'.paths[ef'.path])
    BY <1>1, <1>3, <2>2, <2>3
  <2>5. QED BY <1>1, <1>3, <1>7, <2>4, EventsStay DEF PhaseInv
<1>9. SatInv'
  BY <1>1 DEF SatInv
<1>10. QED BY <1>4, <1>6, <1>8, <1>9

LEMMA efNextPathStep == IInv /\ efNextPath => IInv'
<1> SUFFICES ASSUME IInv, efNextPath PROVE IInv'
  OBVIOUS
<1> USE DEF IInv
<1>1. /\ pc = "ef" /\ pc' = "ef" /\ trs' = trs /\ poc' = poc /\ warn' = warn /\ excl' = excl
      /\ lockMap' = lockMap /\ work' = work /\ job' = job /\ verdict' = verdict
      /\ ef' = [path |-> 2, i |-> Len(warn.paths[2]), curr |-> UseEvent, next |-> None]
  BY DEF efNextPath
<1> DEFINE n == Len(warn.paths[2])
<1>0. n \in Nat /\ ef'.path = 2 /\ ef'.i = n /\ ef'.curr = UseEvent /\ n <= n
  BY <1>1, WarnIs, LenProperties
<1>2. Base = trs /\ Base' = trs /\ AllSound(trs)
  BY <1>1, QuietGrowing DEF SoundInv
<1>3. In(UseEvent, trs)
  BY <1>1, <1>2 DEF PhaseInv
<1>4. UseEvent \in Event /\ UseEvent # None
  BY <1>2, <1>3, InNotNone
<1>5. TypeOK'
  <2>1. Len(warn.paths[2]) \in Nat
    BY WarnIs, LenProperties
  <2>2. QED BY <1>1, <1>4, <2>1 DEF TypeOK
<1>6. \A e \in Held' : e \in Held \/ In(e, trs)
  BY <1>1, <1>3 DEF Held
<1>7. SoundInv' /\ HeldInv' /\ CheckInv' /\ RegionInv' /\ GuardInv'
  BY <1>1, <1>6, QuietStep
<1>8. PhaseInv'
  <2>1. ef'.i <= Len(warn'.paths[ef'.path])
    BY <1>0, <1>1
  <2>2. QED BY <1>0, <1>1, <1>2, <1>4, <2>1, EventsStay DEF PhaseInv
<1>9. SatInv'
  BY <1>1 DEF SatInv
<1>10. QED BY <1>5, <1>7, <1>8, <1>9

LEMMA LiveFinite ==
  ASSUME NEW ts, AllSound(ts)
  PROVE  IsFiniteSet(LiveIn(ts))
<1>1. DOMAIN ts = 1 .. Len(ts) /\ Len(ts) \in Nat
  BY ThreadsType
<1> DEFINE A(i) == { <<i, l>> : l \in Locs(ts[i]) }
           U == { A(i) : i \in DOMAIN ts }
<1>2. ASSUME NEW i \in 1 .. Len(ts) PROVE IsFiniteSet(A(i))
  <2> DEFINE n == Len(ts[i])
             f == [j \in 1 .. n |-> <<i, ts[i][j].loc>>]
  <2>1. ts[i] \in Seq(Node) /\ n \in Nat /\ DOMAIN ts[i] = 1 .. n
    BY SoundAt
  <2>2. \A j \in 1 .. n : ts[i][j].loc \in Locs(ts[i])
    BY <2>1 DEF Locs
  <2>3. f \in [1 .. n -> A(i)]
    BY <2>2
  <2>4. \A a \in A(i) : \E j \in 1 .. n : f[j] = a
    BY <2>1 DEF Locs
  <2>5. f \in Surjection(1 .. n, A(i))
    BY <2>3, <2>4 DEF Surjection
  <2>6. IsFiniteSet(1 .. n)
    BY <2>1, FS_Interval
  <2> HIDE DEF f, n, A
  <2>7. QED BY <2>5, <2>6, FS_Surjection
<1>3. IsFiniteSet(U)
  <2> DEFINE n == Len(ts)
             f == [i \in 1 .. n |-> A(i)]
  <2> HIDE DEF A
  <2>1. f \in Surjection(1 .. n, U)
    BY <1>1 DEF Surjection
  <2>2. IsFiniteSet(1 .. n)
    BY <1>1, FS_Interval
  <2> HIDE DEF f, n, U
  <2>3. QED BY <2>1, <2>2, FS_Surjection
<1>4. \A T \in U : IsFiniteSet(T)
  BY <1>1, <1>2
<1>5. IsFiniteSet(UNION U)
  <2> HIDE DEF U
  <2>1. QED BY <1>3, <1>4, FS_UNION
<1>6. QED BY <1>5 DEF LiveIn

LEMMA FiniteEvents ==
  ASSUME NEW ts, AllSound(ts), NEW S, \A e \in S : In(e, ts)
  PROVE  Cardinality(S) \in Nat /\ S \subseteq Event
<1>1. S \subseteq LiveIn(ts)
  BY LiveInIs
<1>2. IsFiniteSet(S)
  BY <1>1, LiveFinite, FS_Subset
<1>3. \A e \in S : e \in Event
  BY DEF In
<1>4. QED BY <1>2, <1>3, FS_CardinalityType

LEMMA LiveEvents ==
  ASSUME AllSound(trs)
  PROVE  \A e : e \in Live <=> In(e, trs)
BY LiveInIs DEF Live, LiveIn

LEMMA efDoneStep == IInv /\ efDone => IInv'
<1> SUFFICES ASSUME IInv, efDone PROVE IInv'
  OBVIOUS
<1> USE DEF IInv
<1>1. /\ pc = "ef" /\ pc' = "supp" /\ trs' = trs /\ poc' = poc /\ warn' = warn /\ excl' = excl
      /\ lockMap' = lockMap /\ ef' = ef /\ job' = job /\ verdict' = verdict
      /\ work' = [curr |-> Live, new |-> {}, iter |-> 0, locs |-> Cardinality(Live)]
  BY DEF efDone
<1>2. Base = trs /\ Base' = trs /\ AllSound(trs)
  BY <1>1, QuietGrowing DEF SoundInv
<1>3. \A e : e \in Live <=> In(e, trs)
  BY <1>2, LiveEvents
<1>4. Cardinality(Live) \in Nat /\ Live \subseteq Event
  BY <1>2, <1>3, FiniteEvents
<1>5. work'.curr = Live /\ work'.new = {}
  BY <1>1
<1>6. TypeOK'
  BY <1>1, <1>4 DEF TypeOK
<1>7. \A e \in Held' : e \in Held \/ In(e, trs)
  BY <1>1, <1>3, <1>5 DEF Held
<1>8. SoundInv' /\ HeldInv' /\ CheckInv' /\ RegionInv' /\ GuardInv'
  BY <1>1, <1>7, QuietStep
<1>9. PhaseInv'
  BY <1>1, <1>2, EventsStay DEF PhaseInv
<1>10. SatInv'
  BY <1>2, <1>3, <1>5 DEF SatInv, Pending
<1>11. QED BY <1>6, <1>8, <1>9, <1>10

LEMMA takeLocStep ==
  ASSUME IInv, NEW e \in work.curr, takeLoc(e)
  PROVE  IInv'
<1> USE DEF IInv
<1>1. /\ pc = "supp" /\ pc' = "lock" /\ trs' = trs /\ poc' = poc /\ warn' = warn /\ excl' = excl
      /\ lockMap' = lockMap /\ ef' = ef /\ verdict' = verdict
      /\ work' = [work EXCEPT !.curr = @ \ {e}]
      /\ job' = [Idle EXCEPT !.loc = e,
                             !.locks = Lock4Loc(e[2]),
                             !.branches = { b \in CriticalBranches(e[2]) : b.killers # {} }]
  BY DEF takeLoc
<1>2. Base = trs /\ Base' = trs /\ AllSound(trs) /\ Growing
  BY <1>1, QuietGrowing DEF SoundInv
<1>3. In(e, trs) /\ e \in Event /\ e # None /\ e[2] \in Loc
  <2>1. In(e, trs)
    BY <1>2 DEF HeldInv, Held
  <2>2. QED BY <1>2, <2>1, InNotNone, EventIs
<1>4. work \in [curr : SUBSET Event, new : SUBSET Event, iter : Nat, locs : Nat]
  BY DEF TypeOK
<1>5. /\ work'.curr = work.curr \ {e} /\ work'.new = work.new
      /\ work' \in [curr : SUBSET Event, new : SUBSET Event, iter : Nat, locs : Nat]
  BY <1>1, <1>4
<1>6. /\ job'.loc = e /\ job'.locks = Lock4Loc(e[2]) /\ job'.kept = {}
      /\ job'.branches = { b \in CriticalBranches(e[2]) : b.killers # {} }
      /\ job'.check = None /\ job'.ec = 0 /\ job'.killers = {}
      /\ job' = [loc |-> e, locks |-> Lock4Loc(e[2]),
                 branches |-> { b \in CriticalBranches(e[2]) : b.killers # {} },
                 check |-> None, ec |-> 0, killers |-> {}, kept |-> {}, before |-> <<>>]
  BY <1>1 DEF Idle
<1>7. TypeOK'
  <2>1. Lock4Loc(e[2]) \in SUBSET LockInfos
    BY DEF Lock4Loc
  <2>2. { b \in CriticalBranches(e[2]) : b.killers # {} } \in SUBSET [check : Loc, killers : SUBSET Loc]
    BY <1>3, SchedAssumption
  <2>3. job' \in Task
    BY <1>3, <1>6, <2>1, <2>2 DEF Task
  <2>4. QED BY <1>1, <1>5, <2>3 DEF TypeOK
<1>8. \A x \in Held' : x \in Held \/ In(x, trs)
  BY <1>1, <1>3, <1>5, <1>6 DEF Held
<1>9. SoundInv' /\ HeldInv' /\ CheckInv' /\ RegionInv' /\ GuardInv'
  BY <1>1, <1>8, QuietStep
<1>10. PhaseInv'
  BY <1>1, <1>2, <1>3, <1>6, EventsStay DEF PhaseInv
<1>11. SatInv'
  <2>1. ASSUME NEW x \in Event, NEW k \in Lock4Loc(x[2]), Pending(x, k)
        PROVE  Settled(x, k)'
    BY <1>1, <1>5, <1>6, <2>1 DEF Pending, Settled
  <2>2. QED BY <1>1, <1>2, <2>1, SatStep
<1>12. QED BY <1>7, <1>9, <1>10, <1>11

LEMMA endLocStep == IInv /\ endLoc => IInv'
<1> SUFFICES ASSUME IInv, endLoc PROVE IInv'
  OBVIOUS
<1> USE DEF IInv
<1>1. /\ pc = "lock" /\ job.locks = {} /\ pc' = "supp" /\ trs' = trs /\ poc' = poc /\ warn' = warn
      /\ excl' = excl /\ lockMap' = lockMap /\ ef' = ef /\ work' = work /\ verdict' = verdict
      /\ job' = Idle
  BY DEF endLoc
<1>2. Base = trs /\ Base' = trs /\ AllSound(trs) /\ Growing
  BY <1>1, QuietGrowing DEF SoundInv
<1>3. job'.loc = None /\ job'.kept = {} /\ job' \in Task
  BY <1>1 DEF Idle, Task
<1>4. TypeOK'
  BY <1>1, <1>3 DEF TypeOK
<1>5. \A x \in Held' : x \in Held \/ In(x, trs)
  BY <1>1, <1>3 DEF Held
<1>6. SoundInv' /\ HeldInv' /\ CheckInv' /\ RegionInv' /\ GuardInv'
  BY <1>1, <1>5, QuietStep
<1>7. PhaseInv'
  BY <1>1, <1>2, <1>3, EventsStay DEF PhaseInv
<1>8. SatInv'
  <2>1. ASSUME NEW x \in Event, NEW k \in Lock4Loc(x[2]), Pending(x, k)
        PROVE  Settled(x, k)'
    BY <1>1, <2>1 DEF Pending, Settled
  <2>2. QED BY <1>1, <1>2, <2>1, SatStep
<1>9. QED BY <1>4, <1>6, <1>7, <1>8

LEMMA endRoundStep == IInv /\ endRound => IInv'
<1> SUFFICES ASSUME IInv, endRound PROVE IInv'
  OBVIOUS
<1> USE DEF IInv
<1>1. /\ pc = "supp" /\ work.curr = {} /\ trs' = trs /\ poc' = poc /\ warn' = warn
      /\ excl' = excl /\ lockMap' = lockMap /\ ef' = ef /\ job' = job /\ verdict' = verdict
      /\ \/ pc' = "exclude" /\ work' = [work EXCEPT !.iter = @ + 1]
         \/ /\ pc' = "supp"
            /\ work' = [curr |-> work.new, new |-> {}, iter |-> work.iter + 1,
                        locs |-> work.locs + Cardinality(work.new)]
  BY DEF endRound
<1>2. Base = trs /\ Base' = trs /\ AllSound(trs) /\ Growing
  BY <1>1, QuietGrowing DEF SoundInv
<1>3. Cardinality(work.new) \in Nat
  <2>1. \A e \in work.new : In(e, trs)
    BY <1>2 DEF HeldInv, Held
  <2>2. QED BY <1>2, <2>1, FiniteEvents
<1>4. work \in [curr : SUBSET Event, new : SUBSET Event, iter : Nat, locs : Nat]
  BY DEF TypeOK
<1>5. /\ work' \in [curr : SUBSET Event, new : SUBSET Event, iter : Nat, locs : Nat]
      /\ work'.curr \cup work'.new = work.new
      /\ pc' = "exclude" => work'.curr = {}
      /\ pc' \in {"supp", "exclude"}
  <2>1. CASE pc' = "exclude" /\ work' = [work EXCEPT !.iter = @ + 1]
    BY <1>1, <1>4, <2>1
  <2>2. CASE /\ pc' = "supp"
             /\ work' = [curr |-> work.new, new |-> {}, iter |-> work.iter + 1,
                         locs |-> work.locs + Cardinality(work.new)]
    BY <1>3, <1>4, <2>2
  <2>3. QED BY <1>1, <2>1, <2>2
<1>6. TypeOK'
  BY <1>1, <1>5 DEF TypeOK
<1>7. \A x \in Held' : x \in Held \/ In(x, trs)
  BY <1>1, <1>5 DEF Held
<1>8. SoundInv' /\ HeldInv' /\ CheckInv' /\ RegionInv' /\ GuardInv'
  BY <1>1, <1>5, <1>7, QuietStep
<1>9. PhaseInv'
  BY <1>1, <1>2, <1>5, EventsStay DEF PhaseInv
<1>10. SatInv'
  <2>1. ASSUME NEW x \in Event, NEW k \in Lock4Loc(x[2]), Pending(x, k)
        PROVE  Settled(x, k)'
    BY <1>1, <1>5, <2>1 DEF Pending, Settled
  <2>2. QED BY <1>1, <1>2, <2>1, SatStep
<1>11. QED BY <1>6, <1>8, <1>9, <1>10

LEMMA ExclusionsAre ==
  ASSUME NEW S, NEW D \in Exclusive(S)
  PROVE  \A q \in D : \E a, b \in S : q = <<a.uk, b.lk>>
<1>1. PICK r \in Apart(S) : D = Exclusion(r[1], r[2])
  BY DEF Exclusive
<1>2. r[1] \in S /\ r[2] \in S
  BY DEF Apart
<1>3. QED BY <1>1, <1>2 DEF Exclusion, Before

LEMMA addExclusionsStep == IInv /\ addExclusions => IInv'
<1> SUFFICES ASSUME IInv, addExclusions PROVE IInv'
  OBVIOUS
<1> USE DEF IInv
<1>1. /\ pc = "exclude" /\ pc' = "order" /\ trs' = trs /\ poc' = poc /\ warn' = warn
      /\ work' = work /\ lockMap' = lockMap /\ ef' = ef /\ job' = job /\ verdict' = verdict
      /\ excl' = Exclusions \ {{}}
  BY DEF addExclusions
<1>2. Base = trs /\ Base' = trs /\ AllSound(trs)
  BY <1>1, QuietGrowing DEF SoundInv
<1>3. ASSUME NEW D \in excl', NEW q \in D
      PROVE  \E a, b \in lockMap : q = <<a.uk, b.lk>>
  <2>1. PICK c \in ToSet(Clusters) : D \in Exclusive(RegionsOf(c))
    BY <1>1 DEF Exclusions
  <2>2. \E a, b \in RegionsOf(c) : q = <<a.uk, b.lk>>
    BY <2>1, ExclusionsAre
  <2>3. QED BY <2>2 DEF RegionsOf
<1>4. lockMap \subseteq [info : LockInfos, lk : Event, uk : Event]
  BY DEF TypeOK
<1>5. excl' \subseteq Pairs
  <2>1. ASSUME NEW D \in excl' PROVE D \in Pairs
    <3>1. ASSUME NEW q \in D PROVE q \in Event \X Event
      <4>1. PICK a \in lockMap, b \in lockMap : q = <<a.uk, b.lk>>
        BY <1>3
      <4>2. a.uk \in Event /\ b.lk \in Event
        BY <1>4
      <4>3. QED BY <4>1, <4>2
    <3>2. QED BY <3>1 DEF Pairs
  <2>2. QED BY <2>1
<1>6. TypeOK'
  BY <1>1, <1>5 DEF TypeOK
<1>7. \A x \in Ends(UNION excl') : x \in Held
  <2>1. ASSUME NEW x \in Ends(UNION excl') PROVE x \in Held
    <3>1. PICK q \in UNION excl' : x = q[1] \/ x = q[2]
      BY DEF Ends
    <3>2. PICK a \in lockMap, b \in lockMap : q = <<a.uk, b.lk>>
      BY <1>3
    <3>3. x = a.uk \/ x = b.lk
      BY <3>1, <3>2
    <3>4. QED BY <3>3 DEF Held
  <2>2. QED BY <2>1
<1>8. \A x \in Held' : x \in Held \/ In(x, trs)
  BY <1>1, <1>7 DEF Held
<1>9. SoundInv' /\ HeldInv' /\ CheckInv' /\ RegionInv' /\ GuardInv'
  BY <1>1, <1>8, QuietStep
<1>10. PhaseInv'
  BY <1>1, <1>2, EventsStay DEF PhaseInv
<1>11. SatInv'
  BY <1>1 DEF SatInv
<1>12. QED BY <1>6, <1>9, <1>10, <1>11

LEMMA ThreadOrderIs ==
  ASSUME AllSound(trs)
  PROVE  \A q \in ThreadOrder : q \in Event \X Event /\ In(q[1], trs) /\ In(q[2], trs)
<1> SUFFICES ASSUME NEW q \in ThreadOrder
             PROVE  q \in Event \X Event /\ In(q[1], trs) /\ In(q[2], trs)
  OBVIOUS
<1>1. DOMAIN trs = 1 .. Len(trs) /\ Len(trs) \in Nat
  BY ThreadsType
<1>2. PICK i \in 1 .. Len(trs) :
        \E j \in 1 .. Len(trs[i]) - 1 : q = <<<<i, trs[i][j].loc>>, <<i, trs[i][j + 1].loc>>>>
  BY <1>1 DEF ThreadOrder
<1>3. PICK j \in 1 .. Len(trs[i]) - 1 : q = <<<<i, trs[i][j].loc>>, <<i, trs[i][j + 1].loc>>>>
  BY <1>2
<1>4. Good(trs[i]) /\ trs[i] \in Seq(Node) /\ Len(trs[i]) \in Nat
  BY SoundAt
<1>5. j \in 1 .. Len(trs[i]) /\ j + 1 \in 1 .. Len(trs[i])
  BY <1>4
<1>6. /\ trs[i][j].loc \in Locs(trs[i]) /\ trs[i][j + 1].loc \in Locs(trs[i])
      /\ trs[i][j].loc \in Loc /\ trs[i][j + 1].loc \in Loc
  BY <1>4, <1>5, IndexIs, NodesHaveLoc
<1>7. q[1] = <<i, trs[i][j].loc>> /\ q[2] = <<i, trs[i][j + 1].loc>>
  BY <1>3
<1>8. q[1] \in Event /\ q[2] \in Event /\ q[1][1] = i /\ q[2][1] = i
  BY <1>1, <1>6, <1>7, PairIs
<1>9. In(q[1], trs) /\ In(q[2], trs)
  BY <1>6, <1>7, <1>8 DEF In
<1>10. QED BY <1>3, <1>7, <1>8, <1>9

LEMMA addSeqConstraintStep == IInv /\ addSeqConstraint => IInv'
<1> SUFFICES ASSUME IInv, addSeqConstraint PROVE IInv'
  OBVIOUS
<1> USE DEF IInv
<1>1. /\ pc = "order" /\ pc' = "solve" /\ trs' = trs /\ excl' = excl /\ warn' = warn
      /\ work' = work /\ lockMap' = lockMap /\ ef' = ef /\ job' = job /\ verdict' = verdict
      /\ poc' = poc \cup ThreadOrder
  BY DEF addSeqConstraint
<1>2. Base = trs /\ Base' = trs /\ AllSound(trs)
  BY <1>1, QuietGrowing DEF SoundInv
<1>3. \A q \in ThreadOrder : q \in Event \X Event /\ In(q[1], trs) /\ In(q[2], trs)
  BY <1>2, ThreadOrderIs
<1>4. TypeOK'
  BY <1>1, <1>3 DEF TypeOK, Pairs
<1>5. \A x \in Held' : x \in Held \/ In(x, trs)
  BY <1>1, <1>3 DEF Held, Ends
<1>6. SoundInv' /\ HeldInv' /\ CheckInv' /\ RegionInv' /\ GuardInv'
  BY <1>1, <1>5, QuietStep
<1>7. ThreadOrder' = ThreadOrder
  BY <1>1 DEF ThreadOrder
<1>8. PhaseInv'
  BY <1>1, <1>2, <1>7, EventsStay DEF PhaseInv
<1>9. SatInv'
  BY <1>1 DEF SatInv
<1>10. QED BY <1>4, <1>6, <1>8, <1>9

LEMMA validateStep == IInv /\ validate => IInv'
<1> SUFFICES ASSUME IInv, validate PROVE IInv'
  OBVIOUS
<1> USE DEF IInv
<1>1. /\ pc = "solve" /\ pc' = "done" /\ trs' = trs /\ excl' = excl /\ warn' = warn
      /\ work' = work /\ lockMap' = lockMap /\ ef' = ef /\ job' = job /\ poc' = poc
      /\ verdict' \in {"feasible", "infeasible"}
  BY DEF validate
<1>2. Base = trs /\ Base' = trs /\ AllSound(trs)
  BY <1>1, QuietGrowing DEF SoundInv
<1>3. TypeOK'
  BY <1>1 DEF TypeOK
<1>4. \A x \in Held' : x \in Held \/ In(x, trs)
  BY <1>1 DEF Held
<1>5. SoundInv' /\ HeldInv' /\ CheckInv' /\ RegionInv' /\ GuardInv'
  BY <1>1, <1>4, QuietStep
<1>6. PhaseInv'
  BY <1>1, <1>2, EventsStay DEF PhaseInv
<1>7. SatInv'
  BY <1>1 DEF SatInv
<1>8. QED BY <1>3, <1>5, <1>6, <1>7

LEMMA StutterStep == IInv /\ UNCHANGED vars => IInv'
<1> SUFFICES ASSUME IInv, UNCHANGED vars PROVE IInv'
  OBVIOUS
<1> USE DEF IInv
<1>1. /\ pc' = pc /\ trs' = trs /\ excl' = excl /\ warn' = warn /\ work' = work
      /\ lockMap' = lockMap /\ ef' = ef /\ job' = job /\ poc' = poc /\ verdict' = verdict
  BY DEF vars
<1>2. Tentative' = Tentative /\ Held' = Held /\ ThreadOrder' = ThreadOrder
  BY <1>1 DEF Tentative, Held, ThreadOrder
<1>3. Base' = Base
  BY <1>1, <1>2 DEF Base
<1>4. TypeOK'
  BY <1>1 DEF TypeOK
<1>5. SoundInv' /\ HeldInv' /\ RegionInv' /\ GuardInv'
  BY <1>1, <1>2, <1>3 DEF SoundInv, HeldInv, RegionInv, GuardInv
<1>6. PhaseInv'
  BY <1>1, <1>2, <1>3, EventsStay DEF PhaseInv
<1>7. CheckInv'
  BY <1>1, <1>3 DEF CheckInv
<1>8. SatInv'
  BY <1>1, <1>3, UnlockStays DEF SatInv, Pending
<1>9. QED BY <1>4, <1>5, <1>6, <1>7, <1>8

LEMMA initFreeStep == IInv /\ initFree => IInv'
<1> SUFFICES ASSUME IInv, initFree PROVE IInv'
  OBVIOUS
<1> USE DEF IInv
<1>1. /\ pc = "initFree" /\ pc' = "initUse" /\ poc' = poc /\ warn' = warn /\ excl' = excl
      /\ lockMap' = lockMap /\ ef' = ef /\ work' = work /\ job' = job /\ verdict' = verdict
      /\ trs' = Append(trs, NewThread(warn.floc, "FREE"))
  BY DEF initFree
<1>2. Base = trs /\ Base' = trs' /\ AllSound(trs) /\ trs = <<>> /\ Len(trs) = 0
  BY <1>1 DEF Base, Tentative, SoundInv, PhaseInv
<1>3. /\ Adds(trs, trs', <<Len(trs) + 1, warn.floc>>, "FREE")
      /\ \A l \in Loc, t \in Types : NewThread(l, t) \in Seq(Node)
  BY <1>1, <1>2, AppendAdds, WarnIs, LockTypes, NewThreadSound DEF Sound, Good
<1>4. AllSound(trs') /\ Grown(trs, trs') /\ trs' = <<NewThread(warn.floc, "FREE")>>
  BY <1>1, <1>2, <1>3 DEF Adds
<1>5. Growing
  BY <1>2, <1>4, GrownSelf DEF Growing
<1>6. TypeOK'
  BY <1>1, <1>4, ThreadsType DEF TypeOK
<1>7. Held' = Held
  BY <1>1 DEF Held
<1>8. HeldInv' /\ RegionInv'
  BY <1>1, <1>5, <1>7, HeldStep, RegionStep
<1>9. GuardInv'
  <2>1. \A x \in Event : In(x, Base') /\ "GCHECK" \in TypesIn(Base', x) =>
          In(x, Base) /\ "GCHECK" \in TypesIn(Base, x)
    BY <1>2, <1>3, LockTypes DEF Adds
  <2>2. QED BY <1>1, <1>5, <2>1, GuardStep
<1>10. PhaseInv'
  BY <1>1, <1>4 DEF PhaseInv
<1>11. SatInv' /\ CheckInv' /\ SoundInv'
  BY <1>1, <1>5, GrowingSound DEF SatInv, CheckInv
<1>12. QED BY <1>6, <1>8, <1>9, <1>10, <1>11

LEMMA StartEFIs ==
  ASSUME TypeOK, In(FreeEvent, trs'), In(UseEvent, trs'), AllSound(trs'), FreeEvent # UseEvent,
         StartEF
  PROVE  /\ pc' = "ef" /\ poc' = poc \cup {<<FreeEvent, UseEvent>>} /\ poc' \in Pairs
         /\ ef' \in [path : {1, 2}, i : Nat, curr : Event \cup {None}, next : Event \cup {None}]
         /\ ef'.curr = FreeEvent /\ ef'.next = None /\ FreeEvent # None
         /\ ef'.i <= Len(warn.paths[ef'.path])
<1>1. FreeEvent \in Event /\ UseEvent \in Event /\ FreeEvent # None
  BY InNotNone
<1>2. Len(warn.paths[1]) \in Nat
  BY WarnIs, LenProperties
<1>3. /\ pc' = "ef" /\ poc' = poc \cup {<<FreeEvent, UseEvent>>}
      /\ ef' = [path |-> 1, i |-> Len(warn.paths[1]), curr |-> FreeEvent, next |-> None]
  BY DEF StartEF, Before
<1>4. poc' \in Pairs
  BY <1>1, <1>3 DEF TypeOK, Pairs
<1>5. QED BY <1>1, <1>2, <1>3, <1>4

LEMMA FreeThere ==
  ASSUME IInv, pc = "initUse"
  PROVE  /\ trs = <<NewThread(warn.floc, "FREE")>> /\ Len(trs) = 1
         /\ trs[1] = NewThread(warn.floc, "FREE")
         /\ FreeEvent \in Event /\ FreeEvent[1] = 1 /\ FreeEvent[2] = warn.floc
         /\ Locs(trs[1]) = {warn.floc} /\ In(FreeEvent, trs) /\ AllSound(trs)
<1> USE DEF IInv
<1>1. trs = <<NewThread(warn.floc, "FREE")>> /\ warn.floc \in Loc /\ AllSound(trs)
  BY WarnIs DEF PhaseInv, SoundInv
<1>2. Locs(NewThread(warn.floc, "FREE")) = {warn.floc} /\ NewThread(warn.floc, "FREE") \in Seq(Node)
  BY <1>1, NewThreadSound, LockTypes DEF Sound, Good
<1>3. FreeEvent \in Event /\ FreeEvent[1] = 1 /\ FreeEvent[2] = warn.floc
  BY <1>1 DEF FreeEvent, Event
<1> DEFINE n == NewThread(warn.floc, "FREE")
<1> HIDE DEF n
<1>4. trs = <<n>>
  BY <1>1 DEF n
<1>5. trs[1] = n /\ Len(trs) = 1
  BY <1>4
<1>6. QED BY <1>1, <1>2, <1>3, <1>5 DEF In, n

(* The thread of the free takes the use, or gets a second one beside it.   *)
LEMMA UseAdded ==
  ASSUME IInv, pc = "initUse", pc' \in {"ef", "done"}, warn' = warn, excl' = excl,
         lockMap' = lockMap, work' = work, job' = job,
         NEW e, Adds(trs, trs', e, "USE"),
         \/ /\ StartEF /\ verdict' = verdict /\ FreeEvent # UseEvent
            /\ In(FreeEvent, trs') /\ In(UseEvent, trs')
         \/ Reject /\ poc' = poc /\ ef' = ef
  PROVE  IInv'
<1> USE DEF IInv
<1>1. Base = trs /\ Base' = trs' /\ AllSound(trs) /\ AllSound(trs') /\ Grown(trs, trs')
  BY DEF Base, Tentative, SoundInv, Adds
<1>2. Growing
  BY <1>1, GrownSelf DEF Growing
<1>3. \/ /\ pc' = "ef" /\ poc' = poc \cup {<<FreeEvent, UseEvent>>} /\ poc' \in Pairs
         /\ ef' \in [path : {1, 2}, i : Nat, curr : Event \cup {None}, next : Event \cup {None}]
         /\ ef'.curr = FreeEvent /\ ef'.next = None /\ FreeEvent # None
         /\ ef'.i <= Len(warn.paths[ef'.path])
         /\ verdict' = verdict /\ FreeEvent # UseEvent
         /\ In(FreeEvent, trs') /\ In(UseEvent, trs')
      \/ /\ pc' = "done" /\ verdict' = "infeasible" /\ poc' = poc /\ ef' = ef
  BY <1>1, StartEFIs DEF Reject
<1>4. TypeOK'
  BY <1>1, <1>3, ThreadsType DEF TypeOK
<1>5. \A x \in Held' : x \in Held \/ In(x, Base')
  BY <1>1, <1>3 DEF Held, Ends
<1>6. HeldInv' /\ RegionInv' /\ SoundInv'
  BY <1>2, <1>5, HeldStep, RegionStep, GrowingSound
<1>7. GuardInv'
  <2>1. \A x \in Event : In(x, Base') /\ "GCHECK" \in TypesIn(Base', x) =>
          In(x, Base) /\ "GCHECK" \in TypesIn(Base, x)
    BY <1>1, LockTypes DEF Adds
  <2>2. QED BY <1>2, <1>3, <2>1, GuardStep
<1>8. In(FreeEvent, trs')
  BY <1>1, FreeThere, GrownIn
<1>9. PhaseInv'
  BY <1>1, <1>3, <1>8, EventsStay DEF PhaseInv
<1>10. SatInv' /\ CheckInv'
  BY DEF SatInv, CheckInv
<1>11. QED BY <1>4, <1>6, <1>7, <1>9, <1>10

LEMMA initUseSameThreadStep == IInv /\ initUseSameThread => IInv'
<1> SUFFICES ASSUME IInv, initUseSameThread PROVE IInv'
  OBVIOUS
<1> USE DEF IInv
<1> DEFINE r == TryInsert(trs[1], warn.uloc, "USE", 0, 0)
           e == <<1, warn.uloc>>
<1>1. /\ pc = "initUse" /\ Reach(warn.floc, warn.uloc) /\ warn' = warn /\ excl' = excl
      /\ lockMap' = lockMap /\ work' = work /\ job' = job
      /\ trs' = PutIn(trs, 1, r.seq)
      /\ \/ r.ec = 1 /\ StartEF /\ verdict' = verdict
         \/ Reject /\ poc' = poc /\ ef' = ef
  BY DEF initUseSameThread, Put, PutIn
<1>2. /\ AllSound(trs) /\ Len(trs) = 1 /\ In(FreeEvent, trs)
      /\ Sound(trs[1]) /\ warn.uloc \in Loc /\ Len(trs[1]) \in Nat /\ 1 \in 1 .. Len(trs)
  <2>1. AllSound(trs) /\ Len(trs) = 1 /\ In(FreeEvent, trs) /\ warn.uloc \in Loc
    BY <1>1, FreeThere, WarnIs
  <2>2. 1 \in 1 .. Len(trs)
    BY <2>1
  <2>3. Sound(trs[1]) /\ trs[1] \in Seq(Node)
    BY <2>1, <2>2, SoundAt
  <2>4. QED BY <2>1, <2>2, <2>3, LenProperties
<1>3. Placed(trs, trs', 1, warn.uloc, "USE", r)
  <2>1. "USE" \in Types /\ 0 \in 0 .. Len(trs[1])
    BY <1>2, LockTypes
  <2>2. trs' = PutIn(trs, 1, r.seq)
    BY <1>1
  <2>3. QED BY ONLY <1>2, <2>1, <2>2, TryPlaced
<1> HIDE DEF r
<1>4. /\ Adds(trs, trs', e, "USE") /\ (Inserted(r) => In(e, trs'))
      /\ r.ec >= 0 => ~In(e, trs)
  BY <1>3 DEF Placed
<1>5. UseEvent = e
  BY <1>1 DEF UseEvent
<1>6. ASSUME r.ec = 1
      PROVE  FreeEvent # UseEvent /\ In(FreeEvent, trs') /\ In(UseEvent, trs')
  <2>1. Inserted(r) /\ r.ec >= 0
    BY <1>6 DEF Inserted
  <2>2. In(FreeEvent, trs')
    BY <1>2, <1>4, GrownIn DEF Adds
  <2>3. QED BY <1>2, <1>4, <1>5, <2>1, <2>2
<1>7. pc' \in {"ef", "done"}
  BY <1>1 DEF StartEF, Reject
<1>8. \/ /\ StartEF /\ verdict' = verdict /\ FreeEvent # UseEvent
         /\ In(FreeEvent, trs') /\ In(UseEvent, trs')
      \/ Reject /\ poc' = poc /\ ef' = ef
  BY <1>1, <1>6
<1>9. QED BY <1>1, <1>4, <1>7, <1>8, UseAdded

LEMMA initUseOtherThreadStep == IInv /\ initUseOtherThread => IInv'
<1> SUFFICES ASSUME IInv, initUseOtherThread PROVE IInv'
  OBVIOUS
<1> USE DEF IInv
<1> DEFINE e == <<2, warn.uloc>>
<1>1. /\ pc = "initUse" /\ ~Reach(warn.floc, warn.uloc) /\ warn' = warn /\ excl' = excl
      /\ lockMap' = lockMap /\ work' = work /\ job' = job /\ verdict' = verdict
      /\ trs' = Append(trs, NewThread(warn.uloc, "USE")) /\ StartEF
  BY DEF initUseOtherThread
<1>2. /\ AllSound(trs) /\ Len(trs) = 1 /\ In(FreeEvent, trs) /\ FreeEvent[1] = 1
      /\ warn.uloc \in Loc
  BY <1>1, FreeThere, WarnIs
<1>3. Adds(trs, trs', e, "USE") /\ In(e, trs')
  <2>1. e = <<Len(trs) + 1, warn.uloc>>
    BY <1>2
  <2> HIDE DEF e
  <2>2. QED BY <1>1, <1>2, <2>1, AppendAdds, LockTypes
<1>4. UseEvent = e
  BY <1>1 DEF UseEvent
<1>5. FreeEvent # UseEvent /\ In(FreeEvent, trs') /\ In(UseEvent, trs')
  BY <1>2, <1>3, <1>4, GrownIn DEF Adds
<1>6. pc' \in {"ef", "done"}
  BY <1>1 DEF StartEF
<1>7. QED BY <1>1, <1>3, <1>5, <1>6, UseAdded

(* No check, and nothing but what the threads had already or e.            *)
LEMMA PlaceEscapeIs ==
  ASSUME NEW ts, AllSound(ts), NEW ctr \in 1 .. Len(ts), NEW fl \in Locs(ts[ctr]), NEW el \in Loc,
         NEW es, es = PlaceEscape(ts, ctr, fl, el)
  PROVE  Adds(ts, es.trs, <<es.tr, el>>, "ESCAPE") /\ In(<<es.tr, el>>, es.trs)
<1> DEFINE stop == IndexOf(ts[ctr], fl)
           here == TryInsert(ts[ctr], el, "ESCAPE", stop, 0)
           takers == Takers(ts, el, "ESCAPE", {ctr})
           i == First(takers)
           there == TryInsert(ts[i], el, "ESCAPE", 0, 0)
<1>1. "ESCAPE" \in Types /\ Len(ts) \in Nat /\ DOMAIN ts = 1 .. Len(ts)
  BY LockTypes, ThreadsType
<1>2. \A j \in 1 .. Len(ts) : Good(ts[j]) /\ 0 \in 0 .. Len(ts[j])
  BY SoundAt, LenProperties DEF Good
<1>3. stop \in 0 .. Len(ts[ctr])
  BY <1>2, LocAt DEF Good
<1>4. CASE Inserted(here)
  <2>1. es = [tr |-> ctr, trs |-> PutIn(ts, ctr, here.seq)]
    BY <1>4 DEF PlaceEscape, PutIn
  <2>2. Placed(ts, PutIn(ts, ctr, here.seq), ctr, el, "ESCAPE", here)
    BY <1>1, <1>2, <1>3, TryPlaced
  <2> HIDE DEF here
  <2>3. es.tr = ctr /\ es.trs = PutIn(ts, ctr, here.seq)
    BY <2>1
  <2>4. QED BY <1>4, <2>2, <2>3 DEF Placed
<1>5. CASE ~Inserted(here) /\ takers # {}
  <2>1. es = [tr |-> i, trs |-> PutIn(ts, i, there.seq)]
    BY <1>5 DEF PlaceEscape, PutIn
  <2>2. takers \subseteq 1 .. Len(ts) /\ takers \subseteq Nat
    BY <1>1 DEF Takers
  <2>3. i \in takers /\ i \in 1 .. Len(ts)
    BY <1>5, <2>2, FirstIs
  <2>4. Inserted(there)
    BY <2>3 DEF Takers
  <2> HIDE DEF i
  <2>5. Placed(ts, PutIn(ts, i, there.seq), i, el, "ESCAPE", there)
    BY <1>1, <1>2, <2>3, TryPlaced
  <2> HIDE DEF there
  <2>6. es.tr = i /\ es.trs = PutIn(ts, i, there.seq)
    BY <2>1
  <2>7. QED BY <2>4, <2>5, <2>6 DEF Placed
<1>6. CASE ~Inserted(here) /\ takers = {}
  <2>1. es = [tr |-> Len(ts) + 1, trs |-> Append(ts, NewThread(el, "ESCAPE"))]
    BY <1>6 DEF PlaceEscape
  <2>2. es.tr = Len(ts) + 1 /\ es.trs = Append(ts, NewThread(el, "ESCAPE"))
    BY <2>1
  <2> DEFINE e == <<es.tr, el>>
             us == es.trs
             t == "ESCAPE"
  <2>3. e = <<Len(ts) + 1, el>> /\ us = Append(ts, NewThread(el, t)) /\ t \in Types
    BY <1>1, <2>2
  <2> HIDE DEF e, us, t
  <2>4. AllSound(ts) /\ el \in Loc
    OBVIOUS
  <2>5. Adds(ts, us, e, t) /\ In(e, us)
    BY ONLY <2>3, <2>4, AppendAdds
  <2>6. QED BY <2>5 DEF e, us, t
<1>7. QED BY <1>4, <1>5, <1>6

(* Steps that add events to the threads before the worklist starts.        *)
LEMMA AddingStep ==
  ASSUME SoundInv, HeldInv, RegionInv, GuardInv, pc \notin {"killer", "done"}, pc' # "killer",
         AllSound(trs'), Grown(trs, trs'), lockMap' = lockMap, poc \subseteq poc',
         \A x \in Event : In(x, trs') /\ "GCHECK" \in TypesIn(trs', x) =>
           In(x, trs) /\ "GCHECK" \in TypesIn(trs, x),
         \A x \in Held' : x \in Held \/ In(x, trs')
  PROVE  SoundInv' /\ HeldInv' /\ CheckInv' /\ RegionInv' /\ GuardInv'
<1>1. Base = trs /\ Base' = trs'
  BY DEF Base, Tentative
<1>2. Growing
  BY <1>1, GrownSelf DEF Growing, SoundInv
<1>3. HeldInv'
  BY <1>1, <1>2, HeldStep
<1>4. RegionInv'
  BY <1>1, <1>2, RegionStep
<1>5. GuardInv'
  BY <1>1, <1>2, GuardStep
<1>6. QED BY <1>2, <1>3, <1>4, <1>5, GrowingSound DEF CheckInv

LEMMA PathNodesAre ==
  ASSUME IInv, pc = "ef", ef.i > 0, EFPath[ef.i].label = "FETCH"
  PROVE  /\ EFPath[ef.i].loc \in Loc /\ EFPath[PairedIndex(EFPath, ef.i)].loc \in Loc
         /\ ef.i \in Nat /\ ef.path \in {1, 2}
<1> USE DEF IInv
<1>1. /\ ef \in [path : {1, 2}, i : Nat, curr : Event \cup {None}, next : Event \cup {None}]
      /\ ef.i <= Len(warn.paths[ef.path])
  BY DEF TypeOK, PhaseInv
<1>2. ef.path \in {1, 2} /\ ef.i \in Nat
  BY <1>1
<1>3. EFPath \in Seq(PathNode) /\ Mirrored(EFPath) /\ ef.i <= Len(EFPath)
  <2>1. CASE ef.path = 1
    BY <1>1, <2>1, WarnIs DEF EFPath
  <2>2. CASE ef.path = 2
    BY <1>1, <2>2, WarnIs DEF EFPath
  <2>3. QED BY <1>2, <2>1, <2>2
<1> DEFINE p == EFPath
           i == ef.i
<1>4. p \in Seq(PathNode) /\ Mirrored(p) /\ i \in 1 .. Len(p) /\ i \in DOMAIN p
  BY <1>2, <1>3
<1> HIDE DEF p, i
<1>5. PairedIndex(p, i) # 0
  BY <1>4 DEF Mirrored
<1>6. PairedIndex(p, i) \in Labelled(p, "ESCAPE")
  BY <1>4, <1>5 DEF PairedIndex, p, i
<1>7. PairedIndex(p, i) \in 1 .. Len(p)
  BY <1>4, <1>6 DEF Labelled
<1>8. p[i] \in PathNode /\ p[PairedIndex(p, i)] \in PathNode
  BY <1>4, <1>7, ElementOfSeq
<1>9. QED BY <1>2, <1>8 DEF PathNode, p, i

LEMMA efFetchNodeStep == IInv /\ efFetchNode => IInv'
<1> SUFFICES ASSUME IInv, efFetchNode PROVE IInv'
  OBVIOUS
<1> USE DEF IInv
<1> DEFINE fl == EFPath[ef.i].loc
           el == EFPath[PairedIndex(EFPath, ef.i)].loc
           ctr == ef.curr[1]
           rf == TryInsert(trs[ctr], fl, "FETCH", At(ef.curr), 0)
           us == PutIn(trs, ctr, rf.seq)
           es == PlaceEscape(us, ctr, fl, el)
<1>1. /\ pc = "ef" /\ ef.i > 0 /\ EFPath[ef.i].label = "FETCH" /\ warn' = warn /\ excl' = excl
      /\ lockMap' = lockMap /\ work' = work /\ job' = job
      /\ \/ Reject /\ trs' = trs /\ poc' = poc /\ ef' = ef
         \/ /\ Inserted(rf) /\ trs' = es.trs
            /\ \/ Reject /\ poc' = poc /\ ef' = ef
               \/ /\ poc' = poc \cup Before(<<es.tr, el>>, <<ctr, fl>>)
                  /\ ef' = [ef EXCEPT !.i = @ - 1,
                                      !.next = IF @ = None THEN <<es.tr, el>> ELSE @]
                  /\ pc' = pc /\ verdict' = verdict
  BY DEF efFetchNode, Put, PutIn
<1>2. fl \in Loc /\ el \in Loc /\ ef.i \in Nat /\ ef.path \in {1, 2}
  BY <1>1, PathNodesAre
<1>3. Base = trs /\ AllSound(trs) /\ ef.curr # None /\ ef.i <= Len(warn.paths[ef.path])
  BY <1>1 DEF Base, Tentative, SoundInv, PhaseInv
<1>4. In(ef.curr, trs)
  BY <1>3 DEF HeldInv, Held
<1>5. /\ ctr \in 1 .. Len(trs) /\ PosIn(trs, ef.curr) = At(ef.curr) /\ ctr \in Nat
      /\ At(ef.curr) \in 0 .. Len(trs[ctr]) /\ 0 \in 0 .. Len(trs[ctr])
  <2>1. ctr \in 1 .. Len(trs) /\ PosIn(trs, ef.curr) = At(ef.curr)
    BY <1>3, <1>4, InIs DEF At, PosIn
  <2>2. PosIn(trs, ef.curr) \in 1 .. Len(trs[ctr])
    BY <1>3, <1>4, InIs
  <2>3. Len(trs[ctr]) \in Nat /\ Len(trs) \in Nat
    BY <1>3, <2>1, SoundAt, ThreadsType, LenProperties
  <2>4. QED BY <2>1, <2>2, <2>3
<1>6. Placed(trs, us, ctr, fl, "FETCH", rf)
  BY <1>2, <1>3, <1>5, TryPlaced, LockTypes
<1> DEFINE e == <<es.tr, el>>
           f == <<ctr, fl>>
<1> HIDE DEF rf, fl, el, ctr
<1>7. AllSound(us) /\ Grown(trs, us) /\ Len(us) = Len(trs) /\ (Inserted(rf) => In(f, us))
  BY <1>6 DEF Placed, Adds
<1>8. ASSUME Inserted(rf), trs' = es.trs
      PROVE  /\ AllSound(trs') /\ Grown(trs, trs') /\ In(e, trs') /\ In(f, trs')
             /\ \A x \in Event : In(x, trs') /\ "GCHECK" \in TypesIn(trs', x) =>
                  In(x, trs) /\ "GCHECK" \in TypesIn(trs, x)
  <2>1. f \in Event /\ f[1] = ctr /\ f[2] = fl
    BY <1>2, <1>5, PairIs
  <2>2. fl \in Locs(us[ctr]) /\ ctr \in 1 .. Len(us)
    BY <1>7, <1>8, <2>1, InIs
  <2> HIDE DEF us
  <2>3. Adds(us, es.trs, e, "ESCAPE") /\ In(e, es.trs)
    BY <1>2, <1>7, <2>2, PlaceEscapeIs
  <2> HIDE DEF es, e, f
  <2>4. AllSound(trs') /\ Grown(us, trs') /\ In(e, trs')
    BY <1>8, <2>3 DEF Adds
  <2>5. Grown(trs, trs') /\ In(f, trs')
    BY <1>3, <1>7, <1>8, <2>4, GrownTrans, GrownIn
  <2>6. ASSUME NEW x \in Event, In(x, trs'), "GCHECK" \in TypesIn(trs', x)
        PROVE  In(x, trs) /\ "GCHECK" \in TypesIn(trs, x)
    <3>1. In(x, us) /\ "GCHECK" \in TypesIn(us, x)
      BY <1>8, <2>3, <2>6, LockTypes DEF Adds
    <3>2. Adds(trs, us, <<ctr, fl>>, "FETCH")
      BY <1>6 DEF Placed
    <3>3. QED BY <3>1, <3>2, LockTypes DEF Adds
  <2>7. QED BY <2>4, <2>5, <2>6
<1> HIDE DEF es, us, e, f
<1>9. /\ AllSound(trs') /\ Grown(trs, trs')
      /\ \A x \in Event : In(x, trs') /\ "GCHECK" \in TypesIn(trs', x) =>
           In(x, trs) /\ "GCHECK" \in TypesIn(trs, x)
  BY <1>1, <1>3, <1>8, GrownSelf
<1>10. \/ pc' = "done" /\ verdict' = "infeasible" /\ poc' = poc /\ ef' = ef
       \/ /\ pc' = "ef" /\ verdict' = verdict /\ poc' \in Pairs /\ poc \subseteq poc'
          /\ ef' \in [path : {1, 2}, i : Nat, curr : Event \cup {None}, next : Event \cup {None}]
          /\ ef'.curr = ef.curr /\ ef'.path = ef.path /\ ef'.i <= Len(warn.paths[ef.path])
          /\ ef'.next = ef.next \/ In(ef'.next, trs')
          /\ \A x \in Ends(poc') : x \in Ends(poc) \/ In(x, trs')
  <2>1. CASE Reject /\ poc' = poc /\ ef' = ef
    BY <2>1 DEF Reject
  <2>2. CASE /\ Inserted(rf) /\ trs' = es.trs
             /\ poc' = poc \cup Before(e, f)
             /\ ef' = [ef EXCEPT !.i = @ - 1, !.next = IF @ = None THEN e ELSE @]
             /\ pc' = pc /\ verdict' = verdict
    <3>1. In(e, trs') /\ In(f, trs') /\ e \in Event /\ f \in Event
      BY <1>8, <2>2, InIs
    <3>2. poc' \in Pairs /\ poc \subseteq poc'
      BY <2>2, <3>1 DEF TypeOK, Pairs, Before
    <3>3. \A x \in Ends(poc') : x \in Ends(poc) \/ In(x, trs')
      BY <2>2, <3>1 DEF Ends, Before
    <3>4. ef \in [path : {1, 2}, i : Nat, curr : Event \cup {None}, next : Event \cup {None}]
      BY DEF TypeOK
    <3>5. ef' = [ef EXCEPT !.i = ef.i - 1, !.next = IF ef.next = None THEN e ELSE ef.next]
      BY <2>2, <3>4
    <3>6. ef.i - 1 \in Nat
      BY <1>1, <1>2
    <3>7. /\ ef'.i = ef.i - 1 /\ ef'.next = (IF ef.next = None THEN e ELSE ef.next)
          /\ ef'.curr = ef.curr /\ ef'.path = ef.path
          /\ ef' \in [path : {1, 2}, i : Nat, curr : Event \cup {None}, next : Event \cup {None}]
      BY ONLY <3>1, <3>4, <3>5, <3>6
    <3>8. ef'.i <= Len(warn.paths[ef.path])
      <4>1. warn.paths[ef.path] \in Seq(PathNode)
        BY <1>2, WarnIs
      <4>2. QED BY <1>2, <1>3, <3>7, <4>1, LenProperties
    <3>9. QED BY <1>1, <2>2, <3>1, <3>2, <3>3, <3>7, <3>8
  <2>3. QED BY <1>1, <2>1, <2>2 DEF e, f
<1>11. TypeOK'
  BY <1>1, <1>9, <1>10, ThreadsType DEF TypeOK
<1>12. \A x \in Held' : x \in Held \/ In(x, trs')
  BY <1>1, <1>10 DEF Held
<1>13. SoundInv' /\ HeldInv' /\ CheckInv' /\ RegionInv' /\ GuardInv'
  <2>1. poc \subseteq poc' /\ pc' # "killer"
    BY <1>10
  <2>2. QED BY <1>1, <1>9, <1>12, <2>1, AddingStep
<1>14. Base' = trs'
  BY <1>10 DEF Base, Tentative
<1>15. In(FreeEvent, trs') /\ In(UseEvent, trs')
  <2>1. In(FreeEvent, trs) /\ In(UseEvent, trs)
    BY <1>1, <1>3 DEF PhaseInv
  <2>2. QED BY <1>3, <1>9, <2>1, GrownIn
<1>16. PhaseInv'
  BY <1>1, <1>3, <1>10, <1>14, <1>15, EventsStay DEF PhaseInv
<1>17. SatInv'
  BY <1>10 DEF SatInv
<1>18. QED BY <1>11, <1>13, <1>16, <1>17

(* A lock l and an unlock v that go in around e are around e, and what is  *)
(* there afterwards and was not there before is one of them.               *)
Around(ts, ws, e, l, v, r0, r1) ==
  LET lk == <<e[1], l>>
      uk == <<e[1], v>>
  IN
  /\ AllSound(ws) /\ Grown(ts, ws) /\ In(lk, ws) /\ In(uk, ws)
  /\ "LOCK" \in TypesIn(ws, lk) /\ "UNLOCK" \in TypesIn(ws, uk)
  /\ PosIn(ws, lk) <= PosIn(ws, e) /\ PosIn(ws, e) < PosIn(ws, uk)
  /\ \A x \in Event :
       In(x, ws) => In(x, ts) \/ (x = lk /\ r0.ec >= 0) \/ (x = uk /\ r1.ec >= 0)
  /\ \A x \in Event : In(x, ws) /\ "GCHECK" \in TypesIn(ws, x) =>
       In(x, ts) /\ "GCHECK" \in TypesIn(ts, x)
  /\ In(lk, ts) /\ "LOCK" \in TypesIn(ts, lk) /\ In(uk, ts) /\ "UNLOCK" \in TypesIn(ts, uk)
       => ws = ts

LEMMA PairPlaced ==
  ASSUME NEW ts, AllSound(ts), NEW e, In(e, ts), NEW l \in Loc, NEW v \in Loc,
         NEW r0, r0 = LockIn(ts[e[1]], l, e[2]), Inserted(r0),
         NEW r1, r1 = UnlockIn(r0.seq, v, e[2])
  PROVE  /\ ~Inserted(r1) => PutIn(ts, e[1], RollBack(r0.seq, l, "LOCK", r0.ec)) = ts
         /\ Inserted(r1) => Around(ts, PutIn(ts, e[1], r1.seq), e, l, v, r0, r1)
<1> DEFINE i == e[1]
           m == e[2]
           us == PutIn(ts, i, r0.seq)
           ws == PutIn(us, i, r1.seq)
           lk == <<i, l>>
           uk == <<i, v>>
<1>1. /\ e \in Event /\ i \in 1 .. Len(ts) /\ m \in Locs(ts[i]) /\ Len(ts) \in Nat
      /\ IndexOf(ts[i], m) \in 1 .. Len(ts[i]) /\ ts[i][IndexOf(ts[i], m)].loc = m
      /\ Len(ts[i]) \in Nat /\ i \in Nat
  BY InIs, ThreadsType, SoundAt, LenProperties DEF PosIn
<1>2. /\ r0 = TryInsert(ts[i], l, "LOCK", IndexOf(ts[i], m), 0)
      /\ r1 = TryInsert(r0.seq, v, "UNLOCK", 0, IndexOf(r0.seq, m))
  BY DEF LockIn, UnlockIn, TryInsert
<1> HIDE DEF i, m
<1>3. "LOCK" \in Types /\ "UNLOCK" \in Types /\ "GCHECK" \in Types
  BY LockTypes
<1>4. Placed(ts, us, i, l, "LOCK", r0) /\ IndexOf(r0.seq, l) <= IndexOf(r0.seq, m)
  <2>1. IndexOf(ts[i], m) \in 0 .. Len(ts[i]) /\ 0 \in 0 .. Len(ts[i]) /\ IndexOf(ts[i], m) # 0
    BY <1>1
  <2>2. QED BY <1>1, <1>2, <1>3, <2>1, TryPlaced
<1> HIDE DEF us
<1>5. /\ AllSound(us) /\ Grown(ts, us) /\ Len(us) = Len(ts) /\ us[i] = r0.seq
      /\ In(lk, us) /\ "LOCK" \in TypesIn(us, lk) /\ In(e, us)
  BY <1>4, GrownIn DEF Placed, Adds
<1>6. /\ m \in Locs(us[i]) /\ IndexOf(us[i], m) \in 1 .. Len(us[i]) /\ Len(us[i]) \in Nat
      /\ us[i][IndexOf(us[i], m)].loc = m /\ i \in 1 .. Len(us)
  BY <1>1, <1>5, InIs, SoundAt, LenProperties DEF PosIn, i, m
<1>7. /\ Placed(us, ws, i, v, "UNLOCK", r1)
      /\ Inserted(r1) => IndexOf(r1.seq, m) < IndexOf(r1.seq, v)
  <2>1. IndexOf(us[i], m) \in 0 .. Len(us[i]) /\ 0 \in 0 .. Len(us[i]) /\ IndexOf(us[i], m) # 0
    BY <1>6
  <2>2. r1 = TryInsert(us[i], v, "UNLOCK", 0, IndexOf(us[i], m))
    BY <1>2, <1>5
  <2>3. QED BY <1>1, <1>3, <1>5, <1>6, <2>1, <2>2, TryPlaced
<1>8. \A s : PutIn(us, i, s) = PutIn(ts, i, s)
  <2>1. ts = [j \in 1 .. Len(ts) |-> ts[j]] /\ i \in 1 .. Len(ts)
    BY <1>1, ThreadsType
  <2>2. QED BY <2>1 DEF PutIn, us
<1>9. ASSUME ~Inserted(r1) PROVE PutIn(ts, i, RollBack(r0.seq, l, "LOCK", r0.ec)) = ts
  <2>1. CASE r0.ec = SameExists
    BY <1>4, <1>8, <2>1 DEF RollBack, Placed, us
  <2>2. CASE r0.ec # SameExists
    BY <1>4, <1>8, <2>2 DEF RollBack, Placed
  <2>3. QED BY <2>1, <2>2
<1>10. ws = PutIn(ts, i, r1.seq)
  BY <1>8
<1> HIDE DEF ws, lk, uk
<1>11. ASSUME Inserted(r1) PROVE Around(ts, ws, e, l, v, r0, r1)
  <2>1. /\ AllSound(ws) /\ Grown(us, ws) /\ ws[i] = r1.seq
        /\ In(uk, ws) /\ "UNLOCK" \in TypesIn(ws, uk)
    BY <1>7, <1>11 DEF Placed, Adds, uk
  <2>2. Grown(ts, ws) /\ In(lk, ws) /\ "LOCK" \in TypesIn(ws, lk) /\ In(e, ws)
    BY <1>5, <2>1, GrownTrans, GrownIn
  <2>3. lk[1] = i /\ lk[2] = l /\ uk[1] = i /\ uk[2] = v /\ e[1] = i /\ e[2] = m
    BY DEF lk, uk, i, m
  <2>4. PosIn(us, lk) <= PosIn(us, e) /\ PosIn(ws, e) < PosIn(ws, uk)
    BY <1>4, <1>5, <1>7, <1>11, <2>1, <2>3 DEF PosIn
  <2>5. PosIn(ws, lk) <= PosIn(ws, e)
    BY <1>5, <2>1, <2>3, <2>4, GrownPos
  <2>6. ASSUME NEW x \in Event, In(x, ws)
        PROVE  In(x, ts) \/ (x = lk /\ r0.ec >= 0) \/ (x = uk /\ r1.ec >= 0)
    <3>1. CASE In(x, us)
      BY <1>4, <3>1 DEF Placed, Adds, lk
    <3>2. CASE ~In(x, us)
      BY <1>7, <2>6, <3>2 DEF Placed, Adds, uk
    <3>3. QED BY <3>1, <3>2
  <2>7. ASSUME NEW x \in Event, In(x, ws), "GCHECK" \in TypesIn(ws, x)
        PROVE  In(x, ts) /\ "GCHECK" \in TypesIn(ts, x)
    <3>1. In(x, us) /\ "GCHECK" \in TypesIn(us, x)
      BY <1>3, <1>7, <2>7 DEF Placed, Adds
    <3>2. QED BY <1>3, <1>4, <3>1 DEF Placed, Adds
  <2>8. ASSUME In(lk, ts), "LOCK" \in TypesIn(ts, lk), In(uk, ts), "UNLOCK" \in TypesIn(ts, uk)
        PROVE  ws = ts
    <3>1. us = ts
      BY <1>4, <2>8 DEF Placed, lk
    <3>2. QED BY <1>7, <2>8, <3>1 DEF Placed, uk
  <2>9. QED BY <2>1, <2>2, <2>4, <2>5, <2>6, <2>7, <2>8 DEF Around, lk, uk, i
<1>12. QED BY <1>9, <1>10, <1>11 DEF i

LEMMA LockAt ==
  ASSUME IInv, pc = "lock", NEW k \in job.locks
  PROVE  /\ AllSound(trs) /\ Base = trs /\ In(job.loc, trs) /\ job.loc \in Event
         /\ k \in Lock4Loc(job.loc[2]) /\ LockLoc(k) \in Loc /\ k \in LockInfos
         /\ Reach(LockLoc(k), job.loc[2]) /\ FirstUnlock(job.loc, k) \in Loc
         /\ InsertLock(job.loc, k) = LockIn(trs[job.loc[1]], LockLoc(k), job.loc[2])
         /\ \A s : InsertUnlock(s, job.loc, k) = UnlockIn(s, FirstUnlock(job.loc, k), job.loc[2])
<1> USE DEF IInv
<1>1. Base = trs /\ AllSound(trs)
  BY DEF Base, Tentative, SoundInv
<1>2. job.loc # None /\ k \in Lock4Loc(job.loc[2])
  BY DEF PhaseInv
<1>3. In(job.loc, trs) /\ job.loc \in Event /\ job.loc[2] \in Loc
  BY <1>1, <1>2, InIs DEF HeldInv, Held
<1>4. LockLoc(k) \in Loc /\ Reach(LockLoc(k), job.loc[2]) /\ k \in LockInfos
  BY <1>2, <1>3, LocksAre
<1>5. FirstUnlock(job.loc, k) \in Loc
  BY <1>2, <1>3, FirstUnlockIs
<1>6. /\ InsertLock(job.loc, k) = LockIn(trs[job.loc[1]], LockLoc(k), job.loc[2])
      /\ \A s : InsertUnlock(s, job.loc, k) = UnlockIn(s, FirstUnlock(job.loc, k), job.loc[2])
  BY DEF InsertLock, InsertUnlock, LockIn, UnlockIn, TryInsert, At
<1>7. QED BY <1>1, <1>2, <1>3, <1>4, <1>5, <1>6

(* What addLock does: nothing but to strike the lock off, where there is   *)
(* no room, or to record the pair it has put in.                           *)
LEMMA addLockIs ==
  ASSUME IInv, NEW k \in job.locks, addLock(k)
  PROVE  /\ pc = "lock" /\ pc' = "lock" /\ warn' = warn /\ poc' = poc /\ excl' = excl /\ ef' = ef
         /\ verdict' = verdict /\ job' = [job EXCEPT !.locks = @ \ {k}]
         /\ \/ /\ trs' = trs /\ lockMap' = lockMap /\ work' = work
               /\ NoRoom(trs[job.loc[1]], job.loc[2], LockLoc(k), FirstUnlock(job.loc, k))
            \/ /\ lockMap' = lockMap \cup {LockPair(job.loc, k)}
               /\ \E r0, r1 :
                    /\ work' = [work EXCEPT !.new =
                                  @ \cup Created(LockPair(job.loc, k).lk, r0.ec)
                                    \cup Created(LockPair(job.loc, k).uk, r1.ec)]
                    /\ Around(trs, trs', job.loc, LockLoc(k), FirstUnlock(job.loc, k), r0, r1)
<1> DEFINE e == job.loc
           i == e[1]
           l == LockLoc(k)
           v == FirstUnlock(e, k)
           r0 == InsertLock(e, k)
           r1 == InsertUnlock(r0.seq, e, k)
           p == LockPair(e, k)
<1>1. /\ pc = "lock" /\ pc' = "lock" /\ warn' = warn /\ poc' = poc /\ excl' = excl /\ ef' = ef
      /\ verdict' = verdict /\ job' = [job EXCEPT !.locks = @ \ {k}]
      /\ \/ ~Inserted(r0) /\ trs' = trs /\ lockMap' = lockMap /\ work' = work
         \/ /\ Inserted(r0) /\ ~Inserted(r1)
            /\ trs' = PutIn(trs, i, RollBack(r0.seq, p.lk[2], "LOCK", r0.ec))
            /\ lockMap' = lockMap /\ work' = work
         \/ /\ Inserted(r0) /\ Inserted(r1)
            /\ trs' = PutIn(trs, i, r1.seq) /\ lockMap' = lockMap \cup {p}
            /\ work' = [work EXCEPT !.new = @ \cup Created(p.lk, r0.ec) \cup Created(p.uk, r1.ec)]
  BY DEF addLock, Put, PutIn
<1>2. /\ AllSound(trs) /\ In(e, trs) /\ l \in Loc /\ v \in Loc /\ Reach(l, e[2])
      /\ r0 = LockIn(trs[i], l, e[2]) /\ r1 = UnlockIn(r0.seq, v, e[2])
  BY <1>1, LockAt
<1>3. e[2] \in Locs(trs[i]) /\ i \in 1 .. Len(trs) /\ Sound(trs[i])
  BY <1>2, InIs, SoundAt
<1>4. p.lk[2] = l
  BY DEF LockPair
<1>5. ~Inserted(r0) \/ ~Inserted(r1) => NoRoom(trs[i], e[2], l, v)
  BY <1>2, <1>3, PairRefused
<1> HIDE DEF r0, r1, e, l, v, i, p
<1>6. CASE ~Inserted(r0)
  BY <1>1, <1>5, <1>6 DEF e, l, v, i
<1>7. CASE Inserted(r0) /\ ~Inserted(r1)
  <2>1. PutIn(trs, i, RollBack(r0.seq, l, "LOCK", r0.ec)) = trs
    BY <1>2, <1>7, PairPlaced DEF i
  <2>2. QED BY <1>1, <1>4, <1>5, <1>7, <2>1 DEF e, l, v, i
<1>8. CASE Inserted(r0) /\ Inserted(r1)
  <2>1. Around(trs, PutIn(trs, i, r1.seq), e, l, v, r0, r1)
    BY <1>2, <1>8, PairPlaced DEF i
  <2>2. Around(trs, trs', e, l, v, r0, r1)
    BY <1>1, <1>8, <2>1
  <2>3. /\ lockMap' = lockMap \cup {p}
        /\ work' = [work EXCEPT !.new = @ \cup Created(p.lk, r0.ec) \cup Created(p.uk, r1.ec)]
    BY <1>1, <1>8
  <2>4. QED BY <1>1, <2>2, <2>3 DEF e, l, v, p
<1>9. QED BY <1>6, <1>7, <1>8

LEMMA JobIs ==
  ASSUME TypeOK
  PROVE  /\ job \in Task /\ job.loc \in Event \cup {None} /\ job.locks \subseteq LockInfos
         /\ job.branches \subseteq [check : Loc, killers : SUBSET Loc]
         /\ job.check \in Event \cup {None} /\ job.ec \in Int
         /\ job.killers \subseteq Loc /\ job.kept \subseteq Event
         /\ job.before \in Seq(Seq(Node))
         /\ work \in [curr : SUBSET Event, new : SUBSET Event, iter : Nat, locs : Nat]
         /\ work.new \subseteq Event
BY DEF TypeOK, Task

LEMMA NewOnes ==
  ASSUME TypeOK, NEW N \in SUBSET Event, work' = [work EXCEPT !.new = @ \cup N]
  PROVE  /\ work' \in [curr : SUBSET Event, new : SUBSET Event, iter : Nat, locs : Nat]
         /\ work'.curr = work.curr /\ work'.new = work.new \cup N
<1>1. work \in [curr : SUBSET Event, new : SUBSET Event, iter : Nat, locs : Nat]
  BY JobIs
<1>2. work' = [work EXCEPT !.new = work.new \cup N]
  BY <1>1
<1>3. QED BY <1>1, <1>2

LEMMA addLockStep ==
  ASSUME IInv, NEW k \in job.locks, addLock(k)
  PROVE  IInv'
<1> USE DEF IInv
<1> DEFINE e == job.loc
           p == LockPair(e, k)
<1>1. /\ pc = "lock" /\ pc' = "lock" /\ warn' = warn /\ poc' = poc /\ excl' = excl /\ ef' = ef
      /\ verdict' = verdict /\ job' = [job EXCEPT !.locks = @ \ {k}]
      /\ \/ /\ trs' = trs /\ lockMap' = lockMap /\ work' = work
            /\ NoRoom(trs[e[1]], e[2], LockLoc(k), FirstUnlock(e, k))
         \/ /\ lockMap' = lockMap \cup {p}
            /\ \E r0, r1 :
                 /\ work' = [work EXCEPT !.new = @ \cup Created(p.lk, r0.ec)
                                                   \cup Created(p.uk, r1.ec)]
                 /\ Around(trs, trs', e, LockLoc(k), FirstUnlock(e, k), r0, r1)
  BY addLockIs
<1>2. /\ AllSound(trs) /\ Base = trs /\ In(e, trs) /\ e \in Event /\ k \in LockInfos
      /\ k \in Lock4Loc(e[2]) /\ LockLoc(k) \in Loc /\ FirstUnlock(e, k) \in Loc
  BY <1>1, LockAt
<1>3. /\ job' \in Task /\ job'.loc = e /\ job'.locks = job.locks \ {k}
      /\ job'.branches = job.branches /\ job'.kept = job.kept
  <2>1. job' = [job EXCEPT !.locks = job.locks \ {k}] /\ job \in Task
    BY <1>1, JobIs DEF Task
  <2>2. QED BY <2>1 DEF Task
<1>4. Base' = trs'
  BY <1>1 DEF Base, Tentative
<1>5. /\ p.info = k /\ p.lk = <<e[1], LockLoc(k)>> /\ p.uk = <<e[1], FirstUnlock(e, k)>>
      /\ p.lk \in Event /\ p.uk \in Event /\ p \in [info : LockInfos, lk : Event, uk : Event]
      /\ p.lk[1] = e[1] /\ p.uk[1] = e[1]
  BY <1>2, EventIs DEF LockPair, Event
<1> HIDE DEF p, e
<1>6. CASE /\ trs' = trs /\ lockMap' = lockMap /\ work' = work
           /\ NoRoom(trs[e[1]], e[2], LockLoc(k), FirstUnlock(e, k))
  <2>1. TypeOK'
    BY <1>1, <1>3, <1>6 DEF TypeOK
  <2>2. \A x \in Held' : x \in Held \/ In(x, trs)
    BY <1>1, <1>3, <1>6 DEF Held, e
  <2>3. SoundInv' /\ HeldInv' /\ CheckInv' /\ RegionInv' /\ GuardInv'
    BY <1>1, <1>6, <2>2, QuietStep
  <2>4. PhaseInv'
    BY <1>1, <1>2, <1>3, <1>4, <1>6, EventsStay DEF PhaseInv, e
  <2>5. SatInv'
    <3>1. ASSUME NEW x \in Event, In(x, Base), NEW m \in Lock4Loc(x[2]), Pending(x, m)
          PROVE  Settled(x, m)'
      <4>1. CASE x = e /\ m = k
        <5>1. NoRoom(Base'[x[1]], x[2], LockLoc(m), FirstUnlock(x, m))
          BY <1>4, <1>6, <4>1
        <5>2. QED BY <1>1, <5>1, UnlockStays DEF Settled
      <4>2. CASE ~(x = e /\ m = k)
        BY <1>1, <1>3, <1>6, <3>1, <4>2 DEF Pending, Settled, e
      <4>3. QED BY <4>1, <4>2
    <3>2. Growing
      BY <1>1, <1>6, QuietGrowing
    <3>3. Base' = Base
      BY <1>2, <1>4, <1>6
    <3>4. QED BY <1>1, <1>6, <3>1, <3>2, <3>3, SatStep
  <2>6. QED BY <2>1, <2>3, <2>4, <2>5
<1>7. ASSUME NEW r0, NEW r1, lockMap' = lockMap \cup {p},
             work' = [work EXCEPT !.new = @ \cup Created(p.lk, r0.ec) \cup Created(p.uk, r1.ec)],
             Around(trs, trs', e, LockLoc(k), FirstUnlock(e, k), r0, r1)
      PROVE  IInv'
  <2>1. /\ AllSound(trs') /\ Grown(trs, trs') /\ In(p.lk, trs') /\ In(p.uk, trs')
        /\ "LOCK" \in TypesIn(trs', p.lk) /\ "UNLOCK" \in TypesIn(trs', p.uk)
        /\ PosIn(trs', p.lk) <= PosIn(trs', e) /\ PosIn(trs', e) < PosIn(trs', p.uk)
        /\ \A x \in Event :
             In(x, trs') => In(x, trs) \/ (x = p.lk /\ r0.ec >= 0) \/ (x = p.uk /\ r1.ec >= 0)
        /\ \A x \in Event : In(x, trs') /\ "GCHECK" \in TypesIn(trs', x) =>
             In(x, trs) /\ "GCHECK" \in TypesIn(trs, x)
    BY <1>5, <1>7 DEF Around
  <2>2. Growing
    BY <1>2, <1>4, <2>1, GrownSelf DEF Growing
  <2> DEFINE N == Created(p.lk, r0.ec) \cup Created(p.uk, r1.ec)
  <2>3. N \in SUBSET Event /\ \A x \in N : x = p.lk \/ x = p.uk
    BY <1>5 DEF Created
  <2>4. work' = [work EXCEPT !.new = @ \cup N]
    BY <1>7, JobIs
  <2>5. \A x \in Event : In(x, trs') => In(x, trs) \/ x \in N
    BY <2>1 DEF Created
  <2> HIDE DEF N
  <2>6. /\ work' \in [curr : SUBSET Event, new : SUBSET Event, iter : Nat, locs : Nat]
        /\ work'.curr = work.curr /\ work'.new = work.new \cup N
    BY <2>3, <2>4, NewOnes
  <2>7. TypeOK'
    BY <1>1, <1>3, <1>5, <1>7, <2>1, <2>6, ThreadsType DEF TypeOK
  <2>8. \A x \in Held' : x \in Held \/ In(x, trs')
    BY <1>1, <1>3, <1>7, <2>1, <2>3, <2>6 DEF Held, e
  <2>9. HeldInv'
    BY <1>4, <2>2, <2>8, HeldStep
  <2>10. Encloses(trs', p)
    <3>1. In(e, trs') /\ e \in Event
      BY <1>2, <2>1, GrownIn
    <3>2. QED BY <1>2, <1>5, <2>1, <3>1 DEF Encloses
  <2>11. RegionInv'
    BY <1>4, <1>7, <2>2, <2>10, RegionStep
  <2>12. GuardInv'
    BY <1>1, <1>2, <1>4, <2>1, <2>2, GuardStep
  <2>13. PhaseInv'
    <3>1. In(FreeEvent, trs') /\ In(UseEvent, trs')
      <4>1. In(FreeEvent, trs) /\ In(UseEvent, trs)
        BY <1>1, <1>2 DEF PhaseInv
      <4>2. QED BY <1>2, <2>1, <4>1, GrownIn
    <3>2. QED BY <1>1, <1>2, <1>3, <1>4, <3>1, EventsStay DEF PhaseInv, e
  <2>14. SatInv'
    <3>1. ASSUME NEW x \in Event, In(x, Base), NEW m \in Lock4Loc(x[2]), Pending(x, m)
          PROVE  Settled(x, m)'
      <4>1. CASE x = e /\ m = k
        BY <1>1, <1>7, <4>1, UnlockStays DEF Settled, p
      <4>2. CASE ~(x = e /\ m = k)
        BY <1>1, <1>3, <2>6, <3>1, <4>2 DEF Pending, Settled, e
      <4>3. QED BY <4>1, <4>2
    <3>2. \A x \in Event : In(x, Base') /\ ~In(x, Base) =>
            \A m \in Lock4Loc(x[2]) : Pending(x, m)'
      BY <1>2, <1>4, <2>5, <2>6 DEF Pending
    <3>3. lockMap \subseteq lockMap'
      BY <1>7
    <3>4. QED BY <1>1, <2>2, <3>1, <3>2, <3>3, SatStep
  <2>15. QED BY <1>1, <2>2, <2>7, <2>9, <2>11, <2>12, <2>13, <2>14, GrowingSound DEF CheckInv
<1>8. QED BY <1>1, <1>6, <1>7

LEMMA addCheckStep ==
  ASSUME IInv, NEW b \in job.branches, addCheck(b)
  PROVE  IInv'
<1> USE DEF IInv
<1> DEFINE e == job.loc
           i == e[1]
           m == b.check
           c == <<i, m>>
           r == TryInsert(trs[i], m, "GCHECK", IndexOf(trs[i], e[2]), 0)
           K == IF Inserted(r) THEN b.killers ELSE {}
           B == IF Inserted(r) THEN trs ELSE <<>>
<1>1. /\ pc = "lock" /\ job.locks = {} /\ warn' = warn /\ poc' = poc /\ excl' = excl /\ ef' = ef
      /\ lockMap' = lockMap /\ work' = work /\ verdict' = verdict
      /\ trs' = PutIn(trs, i, r.seq)
      /\ job' = [job EXCEPT !.branches = @ \ {b}, !.check = c, !.ec = r.ec, !.killers = K,
                             !.before = B]
      /\ pc' = IF Inserted(r) THEN "killer" ELSE "lock"
  BY DEF addCheck, InsertCheck, Put, PutIn, At
<1>2. /\ AllSound(trs) /\ Base = trs /\ In(e, trs) /\ e \in Event /\ e[2] \in Loc
      /\ b \in CriticalBranches(e[2]) /\ job.kept = {}
  <2>1. AllSound(trs) /\ Base = trs /\ e # None /\ b \in CriticalBranches(e[2]) /\ job.kept = {}
    BY <1>1 DEF Base, Tentative, SoundInv, PhaseInv
  <2>2. In(e, trs)
    BY <2>1 DEF HeldInv, Held
  <2>3. QED BY <2>1, <2>2, InIs
<1>3. m \in Loc /\ b.killers \subseteq Loc /\ m # e[2]
  BY <1>2, BranchesAre
<1>4. /\ i \in 1 .. Len(trs) /\ i \in Nat /\ IndexOf(trs[i], e[2]) \in 1 .. Len(trs[i])
      /\ trs[i][IndexOf(trs[i], e[2])].loc = e[2] /\ Len(trs[i]) \in Nat
  BY <1>2, InIs, ThreadsType, SoundAt, LenProperties DEF PosIn
<1> HIDE DEF i, m, e
<1>5. /\ Placed(trs, trs', i, m, "GCHECK", r) /\ r.ec \in Int
      /\ Inserted(r) => IndexOf(r.seq, m) <= IndexOf(r.seq, e[2])
  <2>1. /\ IndexOf(trs[i], e[2]) \in 0 .. Len(trs[i]) /\ 0 \in 0 .. Len(trs[i])
        /\ IndexOf(trs[i], e[2]) # 0 /\ "GCHECK" \in Types
    BY <1>4, LockTypes
  <2>2. trs' = PutIn(trs, i, r.seq)
    BY <1>1
  <2>3. QED BY ONLY <1>2, <1>3, <1>4, <2>1, <2>2, TryPlaced
<1> HIDE DEF r
<1>6. c \in Event /\ c[1] = i /\ c[2] = m
  BY <1>3, <1>4, PairIs
<1> HIDE DEF c
<1>7. /\ job' \in Task /\ job'.loc = e /\ job'.locks = {} /\ job'.branches = job.branches \ {b}
      /\ job'.kept = {} /\ job'.check = c /\ job'.ec = r.ec /\ job'.killers = K /\ K \subseteq Loc
      /\ job'.before = B
  <2>1. job \in Task /\ K \subseteq Loc /\ B \in Seq(Seq(Node))
    BY <1>2, <1>3, JobIs DEF AllSound
  <2>2. job' = [job EXCEPT !.branches = job.branches \ {b}, !.check = c, !.ec = r.ec, !.killers = K,
                           !.before = B]
    BY <1>1, <2>1 DEF Task
  <2> HIDE DEF K, B
  <2>3. QED BY <1>1, <1>2, <1>5, <1>6, <2>1, <2>2 DEF Task, e
<1>8. AllSound(trs') /\ Grown(trs, trs')
  BY <1>5 DEF Placed, Adds
<1>9. TypeOK'
  BY <1>1, <1>7, <1>8, ThreadsType DEF TypeOK
<1>10. CASE ~Inserted(r)
  <2>1. trs' = trs /\ pc' = "lock"
    BY <1>1, <1>5, <1>10 DEF Placed
  <2>2. \A x \in Held' : x \in Held \/ In(x, trs)
    BY <1>1, <1>2, <1>7 DEF Held, e
  <2>3. SoundInv' /\ HeldInv' /\ CheckInv' /\ RegionInv' /\ GuardInv'
    BY <1>1, <2>1, <2>2, QuietStep
  <2>4. Growing /\ Base' = trs
    BY <1>1, <2>1, QuietGrowing
  <2>5. PhaseInv'
    BY <1>1, <1>2, <1>7, <2>1, <2>4, EventsStay DEF PhaseInv, e
  <2>6. SatInv'
    <3>1. ASSUME NEW x \in Event, In(x, Base), NEW k \in Lock4Loc(x[2]), Pending(x, k)
          PROVE  Settled(x, k)'
      BY <1>1, <1>7, <2>1, <3>1 DEF Pending, Settled
    <3>2. QED BY <1>1, <1>2, <2>1, <2>4, <3>1, SatStep
  <2>7. QED BY <1>9, <2>3, <2>5, <2>6
<1>11. CASE Inserted(r)
  <2>1. pc' = "killer" /\ K = b.killers /\ job'.before = trs
    BY <1>1, <1>7, <1>11
  <2>2. trs'[i] = r.seq /\ In(c, trs')
    BY <1>5, <1>11 DEF Placed, c
  <2>3. Base' = trs
    <3>1. CASE r.ec = SameExists
      <4>1. Base' = trs'
        BY <1>7, <3>1 DEF Base, Tentative
      <4>2. QED BY <1>5, <3>1, <4>1 DEF Placed
    <3>2. CASE r.ec # SameExists
      <4>1. Base' = Without(trs', c, "GCHECK")
        BY <1>7, <2>1, <3>2 DEF Base, Tentative
      <4>2. Without(trs', c, "GCHECK") = PutIn(trs', i, RemoveLoc(r.seq, m, {"GCHECK"}).seq)
        BY <1>6, <2>2 DEF Without, PutIn
      <4>3. QED BY <1>5, <1>11, <3>2, <4>1, <4>2 DEF Placed
    <3>3. QED BY <3>1, <3>2
  <2>4. Growing
    BY <1>2, <1>8, <2>3, GrownSelf DEF Growing
  <2>5. \A x \in Held' : x \in Held
    BY <1>1, <1>2, <1>7 DEF Held, e
  <2>6. SoundInv' /\ HeldInv' /\ RegionInv'
    BY <1>1, <2>4, <2>5, GrowingSound, HeldStep, RegionStep
  <2>7. GuardInv'
    BY <1>1, <1>2, <2>3, <2>4, GuardStep
  <2>8. PhaseInv'
    BY <1>1, <1>2, <1>7, <2>1, <2>3, EventsStay DEF PhaseInv, e
  <2>9. SatInv'
    <3>1. ASSUME NEW x \in Event, In(x, Base), NEW k \in Lock4Loc(x[2]), Pending(x, k)
          PROVE  Settled(x, k)'
      BY <1>1, <1>7, <2>1, <3>1 DEF Pending, Settled
    <3>2. QED BY <1>1, <1>2, <2>3, <2>4, <3>1, SatStep
  <2>10. CheckInv'
    <3>1. PosIn(trs', c) < PosIn(trs', e)
      <4>1. In(e, trs') /\ c[1] = e[1] /\ c # e
        BY <1>2, <1>3, <1>6, <1>8, GrownIn DEF i
      <4>2. PosIn(trs', c) <= PosIn(trs', e)
        BY <1>5, <1>6, <1>11, <2>2, <4>1 DEF PosIn
      <4>3. PosIn(trs', c) # PosIn(trs', e)
        BY <1>8, <2>2, <4>1, PosDiffers
      <4>4. PosIn(trs', c) \in Nat /\ PosIn(trs', e) \in Nat
        BY <1>8, <2>2, <4>1, GrownSelf, GrownPos
      <4>5. QED BY <4>2, <4>3, <4>4
    <3>2. \A x \in Event : In(x, trs') => In(x, trs) \/ x = c
      BY <1>5 DEF Placed, Adds, c
    <3>3. /\ ~In(c, trs) => r.ec >= 0
          /\ r.ec >= 0 => ~In(c, trs)
      BY <1>5, <2>2 DEF Placed, c
    <3>4. \A x \in Event : In(x, trs') /\ "GCHECK" \in TypesIn(trs', x) =>
            x = c \/ (In(x, trs) /\ "GCHECK" \in TypesIn(trs, x))
      BY <1>5, LockTypes DEF Placed, Adds, c
    <3>5. c[1] = e[1] /\ m = c[2]
      BY <1>6 DEF i
    <3>6. \E q \in CriticalBranches(e[2]) :
            /\ q.check = c[2] /\ K \subseteq q.killers
            /\ \A z \in job'.kept : /\ z[2] \in q.killers \ K
                                    /\ <<c, z>> \in poc'
      BY <1>2, <1>7, <2>1, <3>5 DEF m
    <3>7. QED BY <1>7, <2>1, <2>2, <2>3, <3>1, <3>2, <3>3, <3>4, <3>5, <3>6 DEF CheckInv
  <2>11. QED BY <1>9, <2>6, <2>7, <2>8, <2>9, <2>10
<1>12. QED BY <1>10, <1>11

(* A check that no killer has stayed for is taken out again completely.    *)
LEMMA endCheckIs ==
  ASSUME IInv, endCheck
  PROVE  trs' = Base /\ pc = "killer"
<1> USE DEF IInv
<1> DEFINE c == job.check
           i == c[1]
<1>1. /\ pc = "killer"
      /\ \/ /\ job.kept = {}
            /\ trs' = PutIn(trs, i, RollBack(trs[i], c[2], "GCHECK", job.ec))
         \/ job.kept # {} /\ trs' = trs
  <2>1. [trs EXCEPT ![i] = RollBack(@, c[2], "GCHECK", job.ec)] =
          [trs EXCEPT ![i] = RollBack(trs[i], c[2], "GCHECK", job.ec)]
    OBVIOUS
  <2>2. QED BY <2>1 DEF endCheck, PutIn
<1>2. AllSound(trs) /\ i \in 1 .. Len(trs)
  <2>1. AllSound(trs) /\ In(c, trs)
    BY <1>1 DEF SoundInv, CheckInv
  <2>2. QED BY <2>1, InIs
<1>3. trs' = Base
  <2>1. CASE job.kept = {} /\ job.ec # SameExists
    <3>1. Base = Without(trs, c, "GCHECK")
      BY <1>1, <2>1 DEF Base, Tentative
    <3>2. QED BY <1>1, <2>1, <3>1 DEF Without, PutIn, RollBack
  <2>2. CASE job.kept = {} /\ job.ec = SameExists
    <3>1. Base = trs
      BY <2>2 DEF Base, Tentative
    <3>2. trs' = PutIn(trs, i, trs[i])
      BY <1>1, <2>2 DEF RollBack
    <3>3. QED BY <1>2, <3>1, <3>2, PutBack
  <2>3. CASE job.kept # {}
    BY <1>1, <2>3 DEF Base, Tentative
  <2>4. QED BY <2>1, <2>2, <2>3
<1>4. QED BY <1>1, <1>3

LEMMA endCheckStep == IInv /\ endCheck => IInv'
<1> SUFFICES ASSUME IInv, endCheck PROVE IInv'
  OBVIOUS
<1> USE DEF IInv
<1> DEFINE c == job.check
           i == c[1]
<1>1. /\ pc = "killer" /\ pc' = "lock" /\ warn' = warn /\ poc' = poc /\ excl' = excl /\ ef' = ef
      /\ lockMap' = lockMap /\ verdict' = verdict
      /\ job' = [job EXCEPT !.check = None, !.ec = 0, !.kept = {}, !.before = <<>>]
      /\ \/ /\ job.kept = {} /\ work' = work
            /\ trs' = PutIn(trs, i, RollBack(trs[i], c[2], "GCHECK", job.ec))
         \/ /\ job.kept # {} /\ trs' = trs
            /\ work' = [work EXCEPT !.new = @ \cup Created(c, job.ec)]
  <2>1. [trs EXCEPT ![i] = RollBack(@, c[2], "GCHECK", job.ec)] =
          [trs EXCEPT ![i] = RollBack(trs[i], c[2], "GCHECK", job.ec)]
    OBVIOUS
  <2>2. QED BY <2>1 DEF endCheck, PutIn
<1>2. /\ AllSound(trs) /\ AllSound(Base) /\ Grown(Base, trs) /\ In(c, trs) /\ c \in Event
      /\ i \in 1 .. Len(trs)
  <2>1. AllSound(trs) /\ AllSound(Base) /\ Grown(Base, trs) /\ In(c, trs)
    BY <1>1 DEF SoundInv, CheckInv
  <2>2. QED BY <2>1, InIs
<1>3. trs' = Base
  BY endCheckIs
<1>4. Base' = Base
  BY <1>1, <1>3 DEF Base, Tentative
<1>5. Growing
  BY <1>2, <1>3, <1>4, GrownSelf DEF Growing
<1>6. /\ job' \in Task /\ job'.loc = job.loc /\ job'.locks = job.locks
      /\ job'.branches = job.branches /\ job'.kept = {}
  <2>1. job \in Task
    BY JobIs
  <2>2. job' = [job EXCEPT !.check = None, !.ec = 0, !.kept = {}, !.before = <<>>]
    BY <1>1
  <2> DEFINE n == None
             K == {}
             z == 0
             B == <<>>
  <2>3. n \in Event \cup {None} /\ z \in Int /\ K \in SUBSET Event /\ K = {} /\ B \in Seq(Seq(Node))
    OBVIOUS
  <2>4. job' = [job EXCEPT !.check = n, !.ec = z, !.kept = K, !.before = B]
    BY <2>2
  <2> HIDE DEF n, K, z, B
  <2>5. QED BY ONLY <2>1, <2>3, <2>4 DEF Task
<1>7. /\ work' \in [curr : SUBSET Event, new : SUBSET Event, iter : Nat, locs : Nat]
      /\ work'.curr = work.curr /\ work.new \subseteq work'.new
      /\ work'.new \subseteq work.new \cup {c}
      /\ work' = work \/ job.kept # {}
      /\ job.kept # {} /\ job.ec >= 0 => c \in work'.new
  <2>1. CASE work' = work /\ job.kept = {}
    BY <2>1, JobIs
  <2>2. CASE job.kept # {} /\ work' = [work EXCEPT !.new = @ \cup Created(c, job.ec)]
    <3> DEFINE N == Created(c, job.ec)
    <3>1. N \in SUBSET Event /\ N \subseteq {c} /\ (job.ec >= 0 => c \in N)
      BY <1>2 DEF Created
    <3>2. work' = [work EXCEPT !.new = @ \cup N]
      BY <2>2
    <3> HIDE DEF N
    <3>3. /\ work' \in [curr : SUBSET Event, new : SUBSET Event, iter : Nat, locs : Nat]
          /\ work'.curr = work.curr /\ work'.new = work.new \cup N
      BY <3>1, <3>2, NewOnes
    <3>4. QED BY <2>2, <3>1, <3>3
  <2>3. QED BY <1>1, <2>1, <2>2
<1>8. TypeOK'
  BY <1>1, <1>2, <1>3, <1>6, <1>7, ThreadsType DEF TypeOK
<1>9. job.kept # {} => Base = trs
  BY DEF Base, Tentative
<1>10. \A x \in Held' : x \in Held \/ In(x, Base')
  BY <1>1, <1>2, <1>4, <1>6, <1>7, <1>9 DEF Held
<1>11. SoundInv' /\ HeldInv' /\ RegionInv'
  BY <1>1, <1>5, <1>10, GrowingSound, HeldStep, RegionStep
<1>12. GuardInv'
  BY <1>1, <1>4, <1>5, GuardStep
<1>13. PhaseInv'
  BY <1>1, <1>4, <1>6, EventsStay DEF PhaseInv
<1>14. SatInv'
  <2>1. ASSUME NEW x \in Event, In(x, Base), NEW k \in Lock4Loc(x[2]), Pending(x, k)
        PROVE  Settled(x, k)'
    <3>1. CASE x = c /\ job.ec >= 0
      <4>1. job.kept # {}
        BY <1>1, <2>1, <3>1 DEF CheckInv
      <4>2. QED BY <1>7, <3>1, <4>1 DEF Pending, Settled
    <3>2. CASE ~(x = c /\ job.ec >= 0)
      BY <1>1, <1>6, <1>7, <2>1, <3>2 DEF Pending, Settled
    <3>3. QED BY <3>1, <3>2
  <2>2. QED BY <1>1, <1>4, <1>5, <2>1, SatStep
<1>15. QED BY <1>1, <1>8, <1>11, <1>12, <1>13, <1>14 DEF CheckInv

(* What addKiller does: nothing but to strike the location off, or to put  *)
(* it in and give up the warning or keep the killer.                       *)
LEMMA addKillerIs ==
  ASSUME IInv, NEW l \in job.killers, addKiller(l)
  PROVE  /\ pc = "killer" /\ warn' = warn /\ excl' = excl /\ lockMap' = lockMap /\ ef' = ef
         /\ l \in Loc
         /\ \/ /\ job' = [job EXCEPT !.killers = @ \ {l}]
               /\ pc' = pc /\ trs' = trs /\ poc' = poc /\ work' = work /\ verdict' = verdict
            \/ \E i \in 1 .. Len(trs) : \E r :
                 /\ Placed(trs, trs', i, l, "GSET", r) /\ In(<<i, l>>, trs')
                 /\ \/ Reject /\ poc' = poc /\ job' = job /\ work' = work
                    \/ /\ job.check # <<i, l>>
                       /\ poc' = poc \cup {<<job.check, <<i, l>>>>}
                       /\ job' = [job EXCEPT !.killers = @ \ {l}, !.kept = @ \cup {<<i, l>>}]
                       /\ work' = [work EXCEPT !.new = @ \cup Created(<<i, l>>, r.ec)]
                       /\ pc' = pc /\ verdict' = verdict
<1> USE DEF IInv
<1> DEFINE takers == Takers(trs, l, "GSET", {})
           i == First(takers)
           r == TryInsert(trs[i], l, "GSET", 0, 0)
           e == <<i, l>>
<1>1. /\ pc = "killer" /\ warn' = warn /\ excl' = excl /\ lockMap' = lockMap /\ ef' = ef
      /\ \/ /\ job' = [job EXCEPT !.killers = @ \ {l}]
            /\ pc' = pc /\ poc' = poc /\ work' = work /\ verdict' = verdict
            /\ \/ trs' = trs
               \/ takers # {} /\ trs' = PutIn(trs, i, RollBack(r.seq, l, "GSET", r.ec))
         \/ /\ takers # {} /\ trs' = PutIn(trs, i, r.seq)
            /\ \/ Reject /\ poc' = poc /\ job' = job /\ work' = work
               \/ /\ ~NotAfter(i, r.seq, l)
                  /\ poc' = poc \cup Before(job.check, e)
                  /\ job' = [job EXCEPT !.killers = @ \ {l}, !.kept = @ \cup {e}]
                  /\ work' = [work EXCEPT !.new = @ \cup Created(e, r.ec)]
                  /\ pc' = pc /\ verdict' = verdict
  BY DEF addKiller, Put, PutIn
<1>2. AllSound(trs) /\ l \in Loc /\ "GSET" \in Types /\ DOMAIN trs = 1 .. Len(trs)
      /\ job.check \in Event /\ job.check[2] \in Loc
  <2>1. AllSound(trs) /\ In(job.check, trs)
    BY <1>1 DEF SoundInv, CheckInv
  <2>2. QED BY <2>1, JobIs, LockTypes, ThreadsType, InIs
<1>3. ASSUME takers # {}
      PROVE  i \in 1 .. Len(trs) /\ Inserted(r) /\ 0 \in 0 .. Len(trs[i])
  <2>1. takers \subseteq 1 .. Len(trs) /\ takers \subseteq Nat
    BY <1>2 DEF Takers
  <2>2. i \in takers /\ i \in 1 .. Len(trs)
    BY <1>3, <2>1, FirstIs
  <2>3. Inserted(r)
    BY <2>2 DEF Takers
  <2> HIDE DEF i
  <2>4. Len(trs[i]) \in Nat
    BY <1>2, <2>2, SoundAt, LenProperties
  <2>5. QED BY <2>2, <2>3, <2>4
<1> HIDE DEF i
<1>4. ASSUME takers # {}
      PROVE  Placed(trs, PutIn(trs, i, r.seq), i, l, "GSET", r)
  BY <1>2, <1>3, <1>4, TryPlaced
<1>5. CASE /\ job' = [job EXCEPT !.killers = @ \ {l}]
           /\ pc' = pc /\ poc' = poc /\ work' = work /\ verdict' = verdict
           /\ \/ trs' = trs
              \/ takers # {} /\ trs' = PutIn(trs, i, RollBack(r.seq, l, "GSET", r.ec))
  <2>1. ASSUME takers # {}
        PROVE  PutIn(trs, i, RollBack(r.seq, l, "GSET", r.ec)) = trs
    <3> DEFINE us == PutIn(trs, i, r.seq)
    <3>1. i \in 1 .. Len(trs) /\ Inserted(r) /\ Placed(trs, us, i, l, "GSET", r)
      BY <1>3, <1>4, <2>1
    <3> HIDE DEF r
    <3>2. \A s : PutIn(us, i, s) = PutIn(trs, i, s)
      <4>1. trs = [j \in 1 .. Len(trs) |-> trs[j]]
        BY <1>2, ThreadsType
      <4>2. QED BY <3>1, <4>1 DEF PutIn
    <3> HIDE DEF us
    <3>3. CASE r.ec = SameExists
      BY <3>1, <3>2, <3>3 DEF RollBack, Placed, us
    <3>4. CASE r.ec # SameExists
      BY <3>1, <3>2, <3>4 DEF RollBack, Placed
    <3>5. QED BY <3>3, <3>4
  <2> HIDE DEF r, takers
  <2>2. trs' = trs
    BY <1>5, <2>1
  <2>3. QED BY <1>1, <1>2, <1>5, <2>2
<1>6. CASE /\ takers # {} /\ trs' = PutIn(trs, i, r.seq)
           /\ \/ Reject /\ poc' = poc /\ job' = job /\ work' = work
              \/ /\ ~NotAfter(i, r.seq, l)
                 /\ poc' = poc \cup Before(job.check, e)
                 /\ job' = [job EXCEPT !.killers = @ \ {l}, !.kept = @ \cup {e}]
                 /\ work' = [work EXCEPT !.new = @ \cup Created(e, r.ec)]
                 /\ pc' = pc /\ verdict' = verdict
  <2>1. i \in 1 .. Len(trs) /\ Inserted(r) /\ Placed(trs, trs', i, l, "GSET", r)
    BY <1>3, <1>4, <1>6
  <2> HIDE DEF r, takers
  <2>2. In(e, trs') /\ trs'[i] = r.seq /\ AllSound(trs')
    BY <2>1 DEF Placed, Adds
  <2>3. ASSUME ~NotAfter(i, r.seq, l) PROVE job.check # e /\ Before(job.check, e) = {<<job.check, e>>}
    <3>1. SUFFICES ASSUME job.check = e PROVE FALSE
      BY DEF Before
    <3>2. IndexOf(r.seq, l) \in 1 .. Len(r.seq) /\ e \in Event /\ Len(r.seq) \in Nat
          /\ e[1] = i /\ e[2] = l
      <4>1. e[1] = i /\ e[2] = l /\ e \in Event
        BY <2>2, InIs
      <4>2. QED BY <2>1, <2>2, <4>1, InIs, SoundAt, LenProperties DEF PosIn
    <3>3. IndexOf(r.seq, l) <= IndexOf(r.seq, l)
      BY <3>2
    <3>4. QED BY <2>3, <3>1, <3>2, <3>3 DEF NotAfter
  <2>4. \/ Reject /\ poc' = poc /\ job' = job /\ work' = work
        \/ /\ job.check # e
           /\ poc' = poc \cup {<<job.check, e>>}
           /\ job' = [job EXCEPT !.killers = @ \ {l}, !.kept = @ \cup {e}]
           /\ work' = [work EXCEPT !.new = @ \cup Created(e, r.ec)]
           /\ pc' = pc /\ verdict' = verdict
    BY <1>6, <2>3
  <2>5. QED BY <1>1, <1>2, <2>1, <2>2, <2>4
<1>7. QED BY <1>1, <1>5, <1>6

LEMMA addKillerStep ==
  ASSUME IInv, NEW l \in job.killers, addKiller(l)
  PROVE  IInv'
<1> USE DEF IInv
<1> DEFINE c == job.check
<1>1. /\ pc = "killer" /\ warn' = warn /\ excl' = excl /\ lockMap' = lockMap /\ ef' = ef
      /\ l \in Loc
      /\ \/ /\ job' = [job EXCEPT !.killers = @ \ {l}]
            /\ pc' = pc /\ trs' = trs /\ poc' = poc /\ work' = work /\ verdict' = verdict
         \/ \E i \in 1 .. Len(trs) : \E r :
              /\ Placed(trs, trs', i, l, "GSET", r) /\ In(<<i, l>>, trs')
              /\ \/ Reject /\ poc' = poc /\ job' = job /\ work' = work
                 \/ /\ c # <<i, l>>
                    /\ poc' = poc \cup {<<c, <<i, l>>>>}
                    /\ job' = [job EXCEPT !.killers = @ \ {l}, !.kept = @ \cup {<<i, l>>}]
                    /\ work' = [work EXCEPT !.new = @ \cup Created(<<i, l>>, r.ec)]
                    /\ pc' = pc /\ verdict' = verdict
  BY addKillerIs
<1>2. AllSound(trs) /\ AllSound(Base) /\ Grown(Base, trs)
  BY DEF SoundInv
<1>3. /\ In(c, trs) /\ c[1] = job.loc[1] /\ c \in Event
      /\ PosIn(trs, c) < PosIn(trs, job.loc)
      /\ \A x \in Event : In(x, trs) => In(x, Base) \/ x = c
      /\ ~In(c, Base) => job.ec >= 0
      /\ job.kept = {} /\ job.ec >= 0 => ~In(c, Base)
      /\ job.kept = {} => job.before = Base
      /\ \A x \in Event : In(x, trs) /\ "GCHECK" \in TypesIn(trs, x) =>
           x = c \/ (In(x, Base) /\ "GCHECK" \in TypesIn(Base, x))
  BY <1>1, <1>2, InIs DEF CheckInv
<1>4. PICK b \in CriticalBranches(job.loc[2]) :
        /\ b.check = c[2] /\ job.killers \subseteq b.killers
        /\ \A z \in job.kept : z[2] \in b.killers \ job.killers /\ <<c, z>> \in poc
  BY <1>1 DEF CheckInv
<1>5. In(job.loc, trs) /\ job.loc # None
  <2>1. job.loc # None
    BY <1>1 DEF PhaseInv
  <2>2. In(job.loc, Base)
    BY <2>1 DEF HeldInv, Held
  <2>3. QED BY <1>2, <2>1, <2>2, GrownIn
<1> HIDE DEF c
<1>6. CASE /\ job' = [job EXCEPT !.killers = @ \ {l}]
           /\ pc' = pc /\ trs' = trs /\ poc' = poc /\ work' = work /\ verdict' = verdict
  <2>1. /\ job' \in Task /\ job'.loc = job.loc /\ job'.locks = job.locks /\ job'.kept = job.kept
        /\ job'.branches = job.branches /\ job'.check = c /\ job'.ec = job.ec
        /\ job'.killers = job.killers \ {l} /\ job'.before = job.before
    <3>1. job \in Task
      BY JobIs
    <3>2. job' = [job EXCEPT !.killers = job.killers \ {l}]
      BY <1>6, <3>1 DEF Task
    <3>3. QED BY <3>1, <3>2 DEF Task, c
  <2>2. Base' = Base
    BY <1>6, <2>1 DEF Base, Tentative, c
  <2>3. TypeOK'
    BY <1>1, <1>6, <2>1 DEF TypeOK
  <2>4. Growing
    BY <1>2, <1>6, <2>2, GrownSelf DEF Growing
  <2>5. Held' = Held
    BY <1>1, <1>6, <2>1 DEF Held
  <2>6. SoundInv' /\ HeldInv' /\ RegionInv'
    BY <1>1, <2>4, <2>5, GrowingSound, HeldStep, RegionStep
  <2>7. GuardInv'
    BY <1>1, <1>6, <2>2, <2>4, GuardStep
  <2>8. PhaseInv'
    BY <1>1, <1>6, <2>1, <2>2, EventsStay DEF PhaseInv
  <2>9. SatInv'
    <3>1. ASSUME NEW x \in Event, In(x, Base), NEW k \in Lock4Loc(x[2]), Pending(x, k)
          PROVE  Settled(x, k)'
      BY <1>1, <1>6, <2>1, <3>1 DEF Pending, Settled, c
    <3>2. QED BY <1>1, <1>6, <2>2, <2>4, <3>1, SatStep
  <2>10. CheckInv'
    <3>1. \E q \in CriticalBranches(job'.loc[2]) :
            /\ q.check = c[2] /\ job'.killers \subseteq q.killers
            /\ \A z \in job'.kept : z[2] \in q.killers \ job'.killers /\ <<c, z>> \in poc'
      BY <1>4, <1>6, <2>1
    <3>2. QED BY <1>3, <1>6, <2>1, <2>2, <3>1 DEF CheckInv
  <2>11. QED BY <2>3, <2>6, <2>7, <2>8, <2>9, <2>10
<1>7. ASSUME NEW i \in 1 .. Len(trs), NEW r,
             Placed(trs, trs', i, l, "GSET", r), In(<<i, l>>, trs'),
             \/ Reject /\ poc' = poc /\ job' = job /\ work' = work
             \/ /\ c # <<i, l>>
                /\ poc' = poc \cup {<<c, <<i, l>>>>}
                /\ job' = [job EXCEPT !.killers = @ \ {l}, !.kept = @ \cup {<<i, l>>}]
                /\ work' = [work EXCEPT !.new = @ \cup Created(<<i, l>>, r.ec)]
                /\ pc' = pc /\ verdict' = verdict
      PROVE  IInv'
  <2> DEFINE z == <<i, l>>
  <2>1. /\ AllSound(trs') /\ Grown(trs, trs')
        /\ \A x \in Event : In(x, trs') => In(x, trs) \/ x = z
        /\ \A x \in Event : In(x, trs') /\ "GCHECK" \in TypesIn(trs', x) =>
             In(x, trs) /\ "GCHECK" \in TypesIn(trs, x)
        /\ In(z, trs') /\ ~In(z, trs) => r.ec >= 0
    BY <1>7, LockTypes DEF Placed, Adds
  <2>2. In(z, trs') /\ z \in Event /\ z[2] = l /\ z[1] = i
    BY <1>7, <2>1, InIs
  <2>3. Grown(Base, trs')
    BY <1>2, <2>1, GrownTrans
  <2>4. In(FreeEvent, trs') /\ In(UseEvent, trs')
    <3>1. In(FreeEvent, Base) /\ In(UseEvent, Base)
      BY <1>1 DEF PhaseInv
    <3>2. QED BY <1>2, <2>1, <2>3, <3>1, GrownIn
  <2> HIDE DEF z
  <2>5. CASE Reject /\ poc' = poc /\ job' = job /\ work' = work
    <3>1. pc' = "done" /\ verdict' = "infeasible" /\ Base' = trs'
      BY <2>5 DEF Reject, Base, Tentative
    <3>2. Growing
      BY <1>2, <2>1, <2>3, <3>1, GrownSelf DEF Growing
    <3>3. TypeOK'
      BY <1>1, <2>1, <2>5, <3>1, ThreadsType DEF TypeOK
    <3>4. Held' = Held
      BY <1>1, <2>5 DEF Held
    <3>5. SoundInv' /\ HeldInv' /\ RegionInv'
      BY <1>1, <3>2, <3>4, GrowingSound, HeldStep, RegionStep
    <3>6. PhaseInv'
      BY <1>1, <2>4, <2>5, <3>1, EventsStay DEF PhaseInv
    <3>7. GuardInv' /\ SatInv' /\ CheckInv'
      BY <3>1 DEF GuardInv, SatInv, CheckInv
    <3>8. QED BY <3>3, <3>5, <3>6, <3>7
  <2>6. CASE /\ c # z
             /\ poc' = poc \cup {<<c, z>>}
             /\ job' = [job EXCEPT !.killers = @ \ {l}, !.kept = @ \cup {z}]
             /\ work' = [work EXCEPT !.new = @ \cup Created(z, r.ec)]
             /\ pc' = pc /\ verdict' = verdict
    <3>1. /\ job' \in Task /\ job'.loc = job.loc /\ job'.locks = job.locks
          /\ job'.kept = job.kept \cup {z} /\ job'.kept # {}
          /\ job'.branches = job.branches /\ job'.check = c /\ job'.ec = job.ec
          /\ job'.killers = job.killers \ {l}
      <4> DEFINE K == job.killers \ {l}
                 Z == job.kept \cup {z}
      <4>1. job \in Task /\ K \subseteq Loc /\ Z \subseteq Event
        BY <2>2, JobIs
      <4>2. job' = [job EXCEPT !.killers = K, !.kept = Z]
        BY <2>6, <4>1 DEF Task
      <4>3. Z # {}
        OBVIOUS
      <4>4. Z = job.kept \cup {z} /\ K = job.killers \ {l}
        OBVIOUS
      <4> HIDE DEF K, Z
      <4>5. QED BY <4>1, <4>2, <4>3, <4>4 DEF Task, c
    <3>2. Base' = trs'
      BY <1>1, <2>6, <3>1 DEF Base, Tentative
    <3>3. Growing
      BY <1>2, <2>1, <2>3, <3>2, GrownSelf DEF Growing
    <3> DEFINE N == Created(z, r.ec)
    <3>4. /\ N \in SUBSET Event /\ N \subseteq {z} /\ (r.ec >= 0 => z \in N)
          /\ work' = [work EXCEPT !.new = @ \cup N]
      BY <2>2, <2>6 DEF Created
    <3> HIDE DEF N
    <3>5. /\ work' \in [curr : SUBSET Event, new : SUBSET Event, iter : Nat, locs : Nat]
          /\ work'.curr = work.curr /\ work'.new = work.new \cup N
      BY <3>4, NewOnes
    <3>6. poc' \in Pairs /\ poc \subseteq poc'
      BY <1>3, <2>2, <2>6 DEF TypeOK, Pairs
    <3>7. TypeOK'
      BY <1>1, <2>1, <2>6, <3>1, <3>5, <3>6, ThreadsType DEF TypeOK
    <3>8. In(c, trs')
      BY <1>2, <1>3, <2>1, GrownIn
    <3>9. \A x \in Held' : x \in Held \/ In(x, trs')
      <4>1. \A x \in Ends(poc') : x \in Ends(poc) \/ x = c \/ x = z
        BY <2>6 DEF Ends
      <4>2. QED BY <1>1, <2>2, <2>6, <3>1, <3>4, <3>5, <3>8, <4>1 DEF Held
    <3>10. SoundInv' /\ HeldInv' /\ RegionInv'
      BY <1>1, <3>2, <3>3, <3>9, GrowingSound, HeldStep, RegionStep
    <3>11. PosIn(trs', c) < PosIn(trs', job.loc) /\ In(job.loc, trs')
      BY <1>2, <1>3, <1>5, <2>1, GrownPos, GrownIn
    <3>12. Guards(trs', poc', c)
      <4>1. job.loc \in Event /\ job.loc[1] = c[1]
        BY <1>2, <1>3, <1>5, InIs
      <4>2. l \in b.killers /\ <<c, z>> \in poc'
        BY <1>4, <2>6
      <4>3. QED BY <1>4, <2>2, <3>11, <4>1, <4>2 DEF Guards
    <3>13. GuardInv'
      <4>1. \A x \in Event : In(x, Base') /\ "GCHECK" \in TypesIn(Base', x) =>
              \/ In(x, Base) /\ "GCHECK" \in TypesIn(Base, x)
              \/ Guards(Base', poc', x)
        BY <1>3, <2>1, <3>2, <3>12
      <4>2. QED BY <1>1, <3>3, <3>6, <4>1, GuardStep
    <3>14. PhaseInv'
      BY <1>1, <2>4, <2>6, <3>1, <3>2, <3>6, EventsStay DEF PhaseInv
    <3>15. SatInv'
      <4>1. ASSUME NEW x \in Event, In(x, Base), NEW k \in Lock4Loc(x[2]), Pending(x, k)
            PROVE  Settled(x, k)'
        BY <1>1, <2>6, <3>1, <3>5, <4>1 DEF Pending, Settled, c
      <4>2. ASSUME NEW x \in Event, In(x, Base'), ~In(x, Base), NEW k \in Lock4Loc(x[2])
            PROVE  Pending(x, k)'
        <5>1. CASE In(x, trs)
          <6>1. x = c /\ job.ec >= 0
            BY <1>3, <4>2, <5>1
          <6>2. QED BY <1>1, <2>6, <3>1, <6>1 DEF Pending
        <5>2. CASE ~In(x, trs)
          <6>1. x = z /\ r.ec >= 0
            BY <2>1, <3>2, <4>2, <5>2
          <6>2. QED BY <3>4, <3>5, <6>1 DEF Pending
        <5>3. QED BY <5>1, <5>2
      <4>3. QED BY <1>1, <2>6, <3>3, <4>1, <4>2, SatStep
    <3>16. CheckInv'
      <4>1. \E q \in CriticalBranches(job'.loc[2]) :
              /\ q.check = c[2] /\ job'.killers \subseteq q.killers
              /\ \A y \in job'.kept : y[2] \in q.killers \ job'.killers /\ <<c, y>> \in poc'
        BY <1>4, <2>2, <2>6, <3>1
      <4>2. QED BY <1>3, <2>6, <3>1, <3>2, <3>8, <3>11, <4>1 DEF CheckInv
    <3>17. QED BY <3>7, <3>10, <3>13, <3>14, <3>15, <3>16
  <2>7. QED BY <1>7, <2>5, <2>6 DEF z
<1>8. QED BY <1>1, <1>6, <1>7

LEMMA NextStep == IInv /\ (Next \/ Terminated) => IInv'
<1> SUFFICES ASSUME IInv, Next PROVE IInv'
  BY StutterStep DEF Terminated
<1>1. CASE initFree \/ initUseSameThread \/ initUseOtherThread
  BY <1>1, initFreeStep, initUseSameThreadStep, initUseOtherThreadStep
<1>2. CASE efEscapeNode \/ efFetchNode \/ efNextPath \/ efDone
  BY <1>2, efEscapeNodeStep, efFetchNodeStep, efNextPathStep, efDoneStep
<1>3. CASE \E e \in work.curr : takeLoc(e)
  BY <1>3, takeLocStep
<1>4. CASE \E k \in job.locks : addLock(k)
  BY <1>4, addLockStep
<1>5. CASE \E b \in job.branches : addCheck(b)
  BY <1>5, addCheckStep
<1>6. CASE \E l \in job.killers : addKiller(l)
  BY <1>6, addKillerStep
<1>7. CASE endCheck \/ endLoc \/ endRound
  BY <1>7, endCheckStep, endLocStep, endRoundStep
<1>8. CASE addExclusions \/ addSeqConstraint \/ validate
  BY <1>8, addExclusionsStep, addSeqConstraintStep, validateStep
<1>9. QED BY <1>1, <1>2, <1>3, <1>4, <1>5, <1>6, <1>7, <1>8 DEF Next

(* The invariant holds throughout, whatever order sets are iterated in and *)
(* wherever the limits cut the rounds off.                                 *)
THEOREM InvariantHolds == Spec => []IInv
<1>1. Init => IInv
  BY InitStep
<1>2. IInv /\ [Next \/ Terminated]_vars => IInv'
  BY NextStep, StutterStep
<1>3. QED BY <1>1, <1>2, PTL DEF Spec

----------------------------------------------------------------------------
(* What the invariant says of a schedule: its properties hold for every    *)
(* program, warning and lock table.                                        *)

(* Every step is one of the invariant, so that a property of such steps is *)
(* a property of the system.                                               *)
LEMMA StepsSafe == Spec => [][IInv /\ IInv' /\ (Next \/ Terminated)]_vars
<1>1. IInv /\ [Next \/ Terminated]_vars => [IInv /\ IInv' /\ (Next \/ Terminated)]_vars
  BY NextStep
<1>2. QED BY <1>1, InvariantHolds, PTL DEF Spec

(* Threads stay sequences of typed nodes, constraints and lock records are *)
(* about events of the program, and lists are what they are declared as.   *)
THEOREM Typing == Spec => []TypeOK
<1>1. IInv => TypeOK
  BY DEF IInv
<1>2. QED BY <1>1, InvariantHolds, PTL

(* Whatever is inserted, merged and rolled back, in whatever order the     *)
(* schedule asks for it: every thread can still be executed in its order.  *)
THEOREM Executable == Spec => []ThreadsExecutable
<1>1. IInv => ThreadsExecutable
  <2> SUFFICES ASSUME IInv, NEW i \in DOMAIN trs, NEW j \in DOMAIN trs[i], NEW k \in DOMAIN trs[i], j < k
               PROVE  trs[i][j].loc # trs[i][k].loc /\ Follows(trs[i][j].loc, trs[i][k].loc)
    BY DEF ThreadsExecutable
  <2>1. AllSound(trs)
    BY DEF IInv, SoundInv
  <2>2. i \in 1 .. Len(trs)
    BY <2>1, ThreadsType
  <2>3. Good(trs[i]) /\ trs[i] \in Seq(Node)
    BY <2>1, <2>2, SoundAt
  <2>4. j \in 1 .. Len(trs[i]) /\ k \in 1 .. Len(trs[i])
    BY <2>3
  <2>5. QED BY <2>3, <2>4 DEF Good, Distinct, Ordered
<1>2. QED BY <1>1, InvariantHolds, PTL

----------------------------------------------------------------------------
LEMMA LockGivenUp ==
  ASSUME IInv, NEW k \in job.locks, addLock(k), lockMap' = lockMap
  PROVE  trs' = trs
<1> USE DEF IInv
<1> DEFINE e == job.loc
           p == LockPair(e, k)
<1>1. /\ pc = "lock"
      /\ \/ trs' = trs
         \/ /\ lockMap' = lockMap \cup {p}
            /\ \E r0, r1 : Around(trs, trs', e, LockLoc(k), FirstUnlock(e, k), r0, r1)
  BY addLockIs
<1>2. CASE /\ lockMap' = lockMap \cup {p}
           /\ \E r0, r1 : Around(trs, trs', e, LockLoc(k), FirstUnlock(e, k), r0, r1)
  <2>1. p \in lockMap /\ Base = trs
    BY <1>1, <1>2, LockAt
  <2>2. In(p.lk, trs) /\ In(p.uk, trs) /\ Encloses(trs, p)
    BY <2>1 DEF HeldInv, Held, RegionInv
  <2>3. p.lk = <<e[1], LockLoc(k)>> /\ p.uk = <<e[1], FirstUnlock(e, k)>>
    BY DEF LockPair
  <2>4. "LOCK" \in TypesIn(trs, p.lk) /\ "UNLOCK" \in TypesIn(trs, p.uk)
    BY <2>2 DEF Encloses
  <2> HIDE DEF p, e
  <2>5. QED BY <1>2, <2>2, <2>3, <2>4 DEF Around
<1>3. QED BY <1>1, <1>2

LEMMA KillerGivenUp ==
  ASSUME IInv, NEW l \in job.killers, addKiller(l), job'.killers # job.killers, job'.kept = job.kept
  PROVE  trs' = trs
<1> USE DEF IInv
<1>1. /\ pc = "killer"
      /\ \/ trs' = trs
         \/ job' = job
         \/ \E i \in 1 .. Len(trs) :
              job' = [job EXCEPT !.killers = @ \ {l}, !.kept = @ \cup {<<i, l>>}]
  BY addKillerIs
<1>2. ASSUME NEW i \in 1 .. Len(trs),
             job' = [job EXCEPT !.killers = @ \ {l}, !.kept = @ \cup {<<i, l>>}]
      PROVE  FALSE
  <2>1. job \in Task
    BY JobIs
  <2>2. job'.kept = job.kept \cup {<<i, l>>}
    BY <1>2, <2>1 DEF Task
  <2>3. <<i, l>> \in job.kept
    BY <2>2
  <2>4. \A z \in job.kept : z[2] \notin job.killers
    BY <1>1 DEF CheckInv
  <2>5. <<i, l>>[2] = l
    OBVIOUS
  <2>6. QED BY <2>3, <2>4, <2>5
<1>3. QED BY <1>1, <1>2

(* insertLoc hands out a node that was there, gives it one more type, or   *)
(* makes one; what is undone is told apart by its return code alone.  A    *)
(* lock pair, check or killer that is given up leaves every thread as it   *)
(* was: no type that another event relies on is masked out with it.  For a *)
(* check that is how it was before the check and all of its killers.       *)
THEOREM NothingLeftBehind == Spec => RollbackExact
<1> DEFINE GivesBack == (GivenUp => trs' = trs) /\ (CheckGivenUp => trs' = job.before)
<1> USE DEF GivenUp, CheckGivenUp
<1>1. IInv /\ Next => GivesBack
  <2> SUFFICES ASSUME IInv, Next PROVE GivesBack
    OBVIOUS
  <2>1. job \in Task
    BY JobIs DEF IInv
  <2>2. CASE \E k \in job.locks : addLock(k)
    BY <2>2, LockGivenUp, addLockIs
  <2>3. CASE \E l \in job.killers : addKiller(l)
    BY <2>3, KillerGivenUp, addKillerIs
  <2>4. CASE \E b \in job.branches : addCheck(b)
    <3>1. PICK b \in job.branches : addCheck(b)
      BY <2>4
    <3>2. pc = "lock"
      BY <3>1 DEF addCheck
    <3>3. PICK r :
            job' = [job EXCEPT !.branches = @ \ {b}, !.check = <<job.loc[1], b.check>>,
                               !.ec = r.ec, !.killers = IF Inserted(r) THEN b.killers ELSE {},
                               !.before = IF Inserted(r) THEN trs ELSE <<>>]
      BY <3>1 DEF addCheck
    <3>4. job'.locks = job.locks
      BY <2>1, <3>3 DEF Task
    <3>5. QED BY <3>2, <3>4
  <2>5. CASE endCheck
    <3>1. pc = "killer" /\ job' = [job EXCEPT !.check = None, !.ec = 0, !.kept = {}, !.before = <<>>]
      BY <2>5 DEF endCheck
    <3>2. job'.killers = job.killers
      BY <2>1, <3>1 DEF Task
    <3>3. job.kept = {} => trs' = job.before
      BY <2>5, <3>1, endCheckIs DEF IInv, CheckInv
    <3>4. QED BY <3>1, <3>2, <3>3
  <2>6. CASE endLoc
    BY <2>6 DEF endLoc, Idle
  <2>7. CASE \E e \in work.curr : takeLoc(e)
    BY <2>7 DEF takeLoc
  <2>8. CASE initFree \/ initUseSameThread \/ initUseOtherThread \/ efEscapeNode \/ efFetchNode
             \/ efNextPath \/ efDone
    BY <2>8 DEF initFree, initUseSameThread, initUseOtherThread, efEscapeNode, efFetchNode,
                efNextPath, efDone
  <2>9. CASE endRound \/ addExclusions \/ addSeqConstraint \/ validate
    BY <2>9 DEF endRound, addExclusions, addSeqConstraint, validate
  <2>10. QED BY <2>2, <2>3, <2>4, <2>5, <2>6, <2>7, <2>8, <2>9 DEF Next
<1>2. IInv /\ Terminated => GivesBack
  BY DEF Terminated, vars
<1>3. [IInv /\ IInv' /\ (Next \/ Terminated)]_vars => [GivesBack]_vars
  BY <1>1, <1>2
<1> HIDE DEF GivenUp, CheckGivenUp
<1>4. QED BY <1>3, StepsSafe, PTL DEF RollbackExact

----------------------------------------------------------------------------
LEMMA RegionsHold == IInv => RegionsEnclose
<1> SUFFICES ASSUME IInv, NEW p \in lockMap
             PROVE  /\ p.lk[1] = p.uk[1]
                    /\ \E x \in Live : /\ x[1] = p.lk[1] /\ p.info \in Lock4Loc(x[2])
                                       /\ At(p.lk) <= At(x) /\ At(x) <= At(p.uk)
                                       /\ At(p.lk) < At(p.uk)
  BY DEF RegionsEnclose
<1>1. AllSound(trs) /\ AllSound(Base) /\ Grown(Base, trs)
  BY DEF IInv, SoundInv
<1>2. In(p.lk, Base) /\ In(p.uk, Base) /\ Encloses(Base, p)
  BY DEF IInv, HeldInv, Held, RegionInv
<1>3. Encloses(trs, p) /\ In(p.lk, trs) /\ In(p.uk, trs)
  BY <1>1, <1>2, EnclosesGrown, GrownIn
<1>4. PICK x \in Event : /\ In(x, trs) /\ x[1] = p.lk[1] /\ p.info \in Lock4Loc(x[2])
                         /\ PosIn(trs, p.lk) <= PosIn(trs, x) /\ PosIn(trs, x) < PosIn(trs, p.uk)
  BY <1>3 DEF Encloses
<1>5. x \in Live /\ p.lk[1] = p.uk[1]
  BY <1>1, <1>3, <1>4, LiveEvents DEF Encloses
<1>6. PosIn(trs, p.lk) \in Nat /\ PosIn(trs, x) \in Nat /\ PosIn(trs, p.uk) \in Nat
  BY <1>1, <1>3, <1>4, <1>5, GrownSelf, GrownPos
<1>7. At(p.lk) <= At(x) /\ At(x) <= At(p.uk) /\ At(p.lk) < At(p.uk)
  BY <1>4, <1>6 DEF At, PosIn
<1>8. QED BY <1>4, <1>5, <1>7

LEMMA ChecksHold == IInv => ChecksGuard
<1> SUFFICES ASSUME IInv PROVE ChecksGuard
  OBVIOUS
<1>1. AllSound(trs)
  BY DEF IInv, SoundInv
<1>2. pc = "killer" => At(job.check) < At(job.loc)
  BY DEF IInv, CheckInv, At, PosIn
<1>3. ASSUME pc \notin {"killer", "done"}, NEW x \in Live, "GCHECK" \in TypesOf(x)
      PROVE  \E y \in Live : \E b \in CriticalBranches(y[2]) :
               /\ y[1] = x[1] /\ b.check = x[2]
               /\ At(x) < At(y)
               /\ \E z \in Live : z[2] \in b.killers /\ <<x, z>> \in poc
  <2>1. Base = trs
    BY <1>3 DEF Base, Tentative
  <2>2. In(x, trs) /\ x \in Event
    BY <1>1, <1>3, LiveEvents, InIs
  <2>3. "GCHECK" \in TypesIn(trs, x)
    BY <1>3 DEF TypesIn, TypesAt, TypesOf, At
  <2>4. Guards(trs, poc, x)
    BY <1>3, <2>1, <2>2, <2>3 DEF IInv, GuardInv
  <2>5. QED BY <1>1, <2>4, LiveEvents DEF Guards, At, PosIn
<1>4. QED BY <1>2, <1>3 DEF ChecksGuard

LEMMA SaturatedHolds == IInv => Saturated
<1> SUFFICES ASSUME IInv, pc = "exclude", work.new = {}, NEW e \in Live, NEW k \in Lock4Loc(e[2])
             PROVE  LockPair(e, k) \in lockMap \/ NoRoom(trs[e[1]], e[2], LockLoc(k), FirstUnlock(e, k))
  BY DEF Saturated
<1>1. AllSound(trs) /\ Base = trs /\ work.curr = {}
  BY DEF IInv, SoundInv, Base, Tentative, PhaseInv
<1>2. In(e, trs) /\ e \in Event /\ e[1] \in 1 .. Len(trs) /\ e[2] \in Locs(trs[e[1]]) /\ e[2] \in Loc
  BY <1>1, LiveEvents, InIs
<1>3. ~Pending(e, k)
  BY <1>1 DEF Pending
<1>4. QED BY <1>1, <1>2, <1>3 DEF IInv, SatInv

(* A recorded region encloses an event its lock is held at, a check stays  *)
(* before the event it guards and before a killer of it, and rounds that   *)
(* no limit cuts short leave no lock out that there is room for.           *)
THEOREM StaysAround == Spec => []InsertedAround
<1>1. IInv => InsertedAround
  BY RegionsHold, ChecksHold, SaturatedHolds DEF InsertedAround
<1>2. QED BY <1>1, InvariantHolds, PTL

----------------------------------------------------------------------------
(* To the solver ThreadSched is the builder of module Schedule.            *)

LEMMA MentionedIs == Builder!Mentioned = Ends(poc) \cup Ends(UNION excl)
<1>1. \A R : Ends(R) = UNION { {q[1], q[2]} : q \in R }
  BY DEF Ends
<1>2. QED BY <1>1 DEF Builder!Mentioned

LEMMA MentionedLive == IInv => Builder!Mentioned \subseteq Live /\ Live \subseteq Event
<1> SUFFICES ASSUME IInv PROVE Builder!Mentioned \subseteq Live /\ Live \subseteq Event
  OBVIOUS
<1>1. AllSound(trs) /\ AllSound(Base) /\ Grown(Base, trs)
  BY DEF IInv, SoundInv
<1>2. Live \subseteq Event
  BY <1>1, LiveEvents, InIs
<1>3. ASSUME NEW e \in Builder!Mentioned PROVE e \in Live
  <2>1. e \in Held
    BY <1>3, MentionedIs DEF Held
  <2>2. In(e, Base)
    BY <2>1 DEF IInv, HeldInv
  <2>3. QED BY <1>1, <2>2, GrownIn, LiveEvents
<1>4. QED BY <1>2, <1>3

(* A choice takes from the disjunctions and from nowhere else.             *)
LEMMA ChoicesAre ==
  ASSUME NEW D, NEW chosen \in Choices(D)
  PROVE  chosen \subseteq UNION D
<1>1. PICK f \in [D -> UNION D] : chosen = Range(f)
  BY DEF Choices
<1>2. QED BY <1>1 DEF Range

(* Events that no constraint is about can always go first.                 *)
LEMMA SolverAnswers ==
  Satisfiable(poc, excl) <=> Builder!Solvable
<1>1. Builder!Choices(excl) = Choices(excl)
  BY DEF Choices, Builder!Choices, Range, Builder!Range
<1>2. ASSUME NEW chosen \in Choices(excl)
      PROVE  Acyclic(poc \cup chosen) <=>
               \A S \in SUBSET Builder!Mentioned : S # {} => Builder!HasFirst(S, poc \cup chosen)
  <2> DEFINE R == poc \cup chosen
             M == Builder!Mentioned
  <2>1. Ends(R) \subseteq M
    <3>1. chosen \subseteq UNION excl
      BY ChoicesAre
    <3>2. QED BY <3>1, MentionedIs DEF Ends
  <2>2. \A q \in R : q[1] \in Ends(R) /\ q[2] \in Ends(R)
    BY DEF Ends
  <2> HIDE DEF M, R
  <2>3. ASSUME \A S \in SUBSET M : S # {} => Builder!HasFirst(S, R)
        PROVE  Acyclic(R)
    BY <2>1, <2>3 DEF Acyclic, Builder!HasFirst
  <2>4. ASSUME Acyclic(R), NEW S \in SUBSET M, S # {} PROVE Builder!HasFirst(S, R)
    <3>1. CASE S \subseteq Ends(R)
      BY <2>4, <3>1 DEF Acyclic, Builder!HasFirst
    <3>2. CASE ~(S \subseteq Ends(R))
      <4>1. PICK b \in S : b \notin Ends(R)
        BY <3>2
      <4>2. \A a \in S : <<a, b>> \notin R
        BY <2>2, <4>1
      <4>3. QED BY <4>2 DEF Builder!HasFirst
    <3>3. QED BY <3>1, <3>2
  <2>5. QED BY <2>3, <2>4 DEF R, M
<1>3. QED BY <1>1, <1>2 DEF Satisfiable, Builder!Solvable

(* Constraints only come; a verdict is given once, by the solver or by     *)
(* someone who gives up.                                                   *)
LEMMA StepKinds ==
  ASSUME IInv, Next
  PROVE  \/ verdict' = verdict /\ poc \subseteq poc' /\ excl \subseteq excl'
         \/ verdict' = "infeasible" /\ verdict = "none" /\ poc' = poc /\ excl' = excl
         \/ validate
<1> USE DEF IInv
<1>0. pc # "done" => verdict = "none"
  BY DEF PhaseInv
<1>1. CASE initFree \/ initUseSameThread \/ initUseOtherThread
  BY <1>0, <1>1 DEF initFree, initUseSameThread, initUseOtherThread, StartEF, Reject
<1>2. CASE efEscapeNode \/ efFetchNode \/ efNextPath \/ efDone
  BY <1>0, <1>2 DEF efEscapeNode, efFetchNode, efNextPath, efDone, Reject
<1>3. CASE \E e \in work.curr : takeLoc(e)
  BY <1>3 DEF takeLoc
<1>4. CASE \E k \in job.locks : addLock(k)
  BY <1>4 DEF addLock
<1>5. CASE \E b \in job.branches : addCheck(b)
  BY <1>5 DEF addCheck
<1>6. CASE \E l \in job.killers : addKiller(l)
  BY <1>0, <1>6 DEF addKiller, Reject
<1>7. CASE endCheck \/ endLoc \/ endRound
  BY <1>7 DEF endCheck, endLoc, endRound
<1>8. CASE addExclusions
  <2>1. excl = {}
    BY <1>8 DEF addExclusions, PhaseInv
  <2>2. QED BY <1>8, <2>1 DEF addExclusions
<1>9. CASE addSeqConstraint \/ validate
  BY <1>9 DEF addSeqConstraint
<1>10. QED BY <1>1, <1>2, <1>3, <1>4, <1>5, <1>6, <1>7, <1>8, <1>9 DEF Next

LEMMA BuilderStep ==
  ASSUME IInv, IInv', Next
  PROVE  Builder!Next \/ UNCHANGED Builder!vars
<1>1. (Builder!Mentioned \subseteq Live /\ Live \subseteq Event)'
  BY MentionedLive, PTL
<1>2. CASE verdict' = verdict /\ poc \subseteq poc' /\ excl \subseteq excl'
  <2>1. CASE verdict = "none"
    BY <1>1, <1>2, <2>1 DEF Builder!Next, Builder!Build
  <2>2. CASE verdict # "none"
    <3>1. pc = "done"
      BY <2>2 DEF IInv, PhaseInv
    <3>2. FALSE
      <4>1. ~Next
        BY <3>1 DEF Next, initFree, initUseSameThread, initUseOtherThread, efEscapeNode,
                    efFetchNode, efNextPath, efDone, takeLoc, addLock, addCheck, addKiller,
                    endCheck, endLoc, endRound, addExclusions, addSeqConstraint, validate
      <4>2. QED BY <4>1
    <3>3. QED BY <3>2
  <2>3. QED BY <2>1, <2>2
<1>3. CASE verdict' = "infeasible" /\ verdict = "none" /\ poc' = poc /\ excl' = excl
  <2>1. Builder!Mentioned' = Builder!Mentioned
    BY <1>3 DEF Builder!Mentioned
  <2>2. QED BY <1>1, <1>3, <2>1 DEF Builder!Next, Builder!GiveUp
<1>4. CASE validate
  <2>1. /\ pc = "solve" /\ trs' = trs /\ poc' = poc /\ excl' = excl
        /\ verdict' = IF Satisfiable(poc, excl) THEN "feasible" ELSE "infeasible"
    BY <1>4 DEF validate
  <2>2. verdict = "none" /\ Live' = Live
    BY <2>1 DEF IInv, PhaseInv, Live
  <2>3. QED BY <2>1, <2>2, SolverAnswers DEF Builder!Next, Builder!Decide
<1>5. QED BY <1>2, <1>3, <1>4, StepKinds

(* However the threads are edited, the solver's side sees constraints that *)
(* only come, are about events that are there when it is asked, and are    *)
(* decided as a whole: addresses of freed nodes never reach it.            *)
THEOREM Builds == Spec => BuildsSchedule
<1>1. Init => Builder!Init
  <2>1. ASSUME trs = <<>> PROVE Live = {}
    BY <2>1 DEF Live
  <2>2. QED BY <2>1 DEF Init, Builder!Init
<1>2. [IInv /\ IInv' /\ (Next \/ Terminated)]_vars => [Builder!Next]_(Builder!vars)
  <2>1. CASE IInv /\ IInv' /\ Next
    BY <2>1, BuilderStep
  <2>2. CASE UNCHANGED vars
    BY <2>2 DEF vars, Builder!vars, Live
  <2>3. QED BY <2>1, <2>2 DEF Terminated
<1>3. QED BY <1>1, <1>2, StepsSafe, PTL DEF Spec, BuildsSchedule, Builder!Spec

----------------------------------------------------------------------------
(* Mutual exclusion needs locks that are told apart by their objects.      *)
(* GlobalState::sameLockObjs is symmetric, but as it only asks for objects *)
(* in common it need not be transitive: then a lock can be of two clusters *)
(* and is put into the first (run sched_clusters).                         *)
LockObjectsAgree ==
  /\ \A k, m \in LockInfos : SameLockObjs(k, m) => SameLockObjs(m, k)
  /\ \A k, m, n \in LockInfos :
       SameLockObjs(k, m) /\ SameLockObjs(m, n) => SameLockObjs(k, n)

(* Locks with the same object are never in different clusters.             *)
Separate(E) ==
  \A i, j \in 1 .. Len(E) : \A k \in E[i], m \in E[j] : SameLockObjs(k, m) => i = j

LEMMA ClusterAdds ==
  ASSUME LockObjectsAgree, NEW E \in Seq(SUBSET LockInfos), Separate(E), NEW k \in LockInfos
  PROVE  /\ AddToCluster(E, k) \in Seq(SUBSET LockInfos)
         /\ Separate(AddToCluster(E, k))
         /\ Len(E) <= Len(AddToCluster(E, k))
         /\ \A i \in 1 .. Len(E) : E[i] \subseteq AddToCluster(E, k)[i]
         /\ \E i \in 1 .. Len(AddToCluster(E, k)) : k \in AddToCluster(E, k)[i]
<1> DEFINE S == { i \in DOMAIN E : \E m \in E[i] : SameLockObjs(k, m) }
           A == AddToCluster(E, k)
           h == First(S)
<1>1. S \subseteq 1 .. Len(E) /\ DOMAIN E = 1 .. Len(E)
  OBVIOUS
<1>2. \A i \in 1 .. Len(E) : E[i] \subseteq LockInfos
  OBVIOUS
<1>3. \A i \in 1 .. Len(E) : i \in S <=> \E m \in E[i] : SameLockObjs(k, m)
  OBVIOUS
<1>4. A = IF S = {} THEN Append(E, {k}) ELSE [E EXCEPT ![h] = E[h] \cup {k}]
  BY DEF AddToCluster
<1>5. CASE S = {}
  <2> HIDE DEF S, A, h
  <2>1. /\ A = Append(E, {k}) /\ Len(A) = Len(E) + 1 /\ A[Len(E) + 1] = {k}
        /\ \A i \in 1 .. Len(E) : A[i] = E[i]
    BY <1>4, <1>5
  <2>2. A \in Seq(SUBSET LockInfos)
    BY <2>1
  <2>3. ASSUME NEW i \in 1 .. Len(A), NEW j \in 1 .. Len(A), NEW x \in A[i], NEW m \in A[j],
               SameLockObjs(x, m)
        PROVE  i = j
    <3>1. x \in LockInfos /\ m \in LockInfos
      BY <2>2
    <3>2. SameLockObjs(m, x)
      BY <2>3, <3>1 DEF LockObjectsAgree
    <3>3. CASE i \in 1 .. Len(E) /\ j \in 1 .. Len(E)
      BY <2>1, <2>3, <3>3 DEF Separate
    <3>4. CASE i = Len(E) + 1 /\ j \in 1 .. Len(E)
      <4>1. x = k /\ m \in E[j]
        BY <2>1, <3>4
      <4>2. QED BY <1>3, <1>5, <2>3, <3>4, <4>1
    <3>5. CASE j = Len(E) + 1 /\ i \in 1 .. Len(E)
      <4>1. m = k /\ x \in E[i]
        BY <2>1, <3>5
      <4>2. QED BY <1>3, <1>5, <3>2, <3>5, <4>1
    <3>6. QED BY <2>1, <3>3, <3>4, <3>5
  <2>4. Separate(A)
    BY <2>3 DEF Separate
  <2>5. Len(E) <= Len(A) /\ \A i \in 1 .. Len(E) : E[i] \subseteq A[i]
    BY <2>1
  <2>6. \E i \in 1 .. Len(A) : k \in A[i]
    BY <2>1
  <2>7. QED BY <2>2, <2>4, <2>5, <2>6 DEF A
<1>6. CASE S # {}
  <2> HIDE DEF S
  <2>0. S \subseteq Nat
    BY <1>1
  <2>1. h \in S
    BY <1>6, <2>0, FirstIs
  <2> HIDE DEF h
  <2>2. h \in 1 .. Len(E)
    BY <1>1, <2>1
  <2>3. PICK y \in E[h] : SameLockObjs(k, y)
    BY <1>3, <2>1, <2>2
  <2>4. y \in LockInfos
    BY <1>2, <2>2
  <2> HIDE DEF A
  <2>5. /\ Len(A) = Len(E) /\ A[h] = E[h] \cup {k}
        /\ \A i \in 1 .. Len(E) : i # h => A[i] = E[i]
    BY <1>4, <1>6, <2>2
  <2>6. A \in Seq(SUBSET LockInfos)
    BY <1>4, <1>6, <2>2
  <2>7. ASSUME NEW j \in 1 .. Len(E), NEW m \in E[j], SameLockObjs(k, m)
        PROVE  j = h
    <3>1. m \in LockInfos
      BY <1>2
    <3>2. SameLockObjs(m, k)
      BY <2>7, <3>1 DEF LockObjectsAgree
    <3>3. SameLockObjs(m, y)
      BY <2>3, <2>4, <3>1, <3>2 DEF LockObjectsAgree
    <3>4. QED BY <2>2, <3>3 DEF Separate
  <2>8. ASSUME NEW i \in 1 .. Len(A), NEW j \in 1 .. Len(A), NEW x \in A[i], NEW m \in A[j],
               SameLockObjs(x, m)
        PROVE  i = j
    <3>1. x \in LockInfos /\ m \in LockInfos
      BY <2>6
    <3>2. SameLockObjs(m, x)
      BY <2>8, <3>1 DEF LockObjectsAgree
    <3>3. i \in 1 .. Len(E) /\ j \in 1 .. Len(E)
      BY <2>5
    <3>4. (x \in E[i] \/ (x = k /\ i = h)) /\ (m \in E[j] \/ (m = k /\ j = h))
      BY <2>5, <3>3
    <3>5. CASE x \in E[i] /\ m \in E[j]
      BY <2>8, <3>3, <3>5 DEF Separate
    <3>6. CASE x = k /\ i = h /\ m \in E[j]
      BY <2>7, <2>8, <3>3, <3>6
    <3>7. CASE m = k /\ j = h /\ x \in E[i]
      BY <2>7, <3>2, <3>3, <3>7
    <3>8. QED BY <3>4, <3>5, <3>6, <3>7
  <2>9. QED BY <2>2, <2>5, <2>6, <2>8 DEF Separate, A
<1>7. QED BY <1>5, <1>6

Recorded(k) == \E p \in lockMap : p.info = k

(* The clusters after n locks, from those before.                          *)
Clustered(f, n) ==
  IF n = 0 THEN <<>>
  ELSE IF Recorded(warn.rank[n]) THEN AddToCluster(f[n - 1], warn.rank[n]) ELSE f[n - 1]

LEMMA ClustersExist ==
  ASSUME warn.rank \in Seq(LockInfos \cup Loc),
         NEW n \in 0 .. Len(warn.rank)
  PROVE  \E f : f = [m \in 0 .. n |-> Clustered(f, m)]
<1> DEFINE L == Len(warn.rank)
           Some(m) == \E f : f = [x \in 0 .. m |-> Clustered(f, x)]
           Bad == { m \in 0 .. L : ~Some(m) }
<1>0. L \in Nat
  OBVIOUS
<1>1. Some(0)
  <2> DEFINE f == [x \in 0 .. 0 |-> <<>>]
  <2>1. f = [x \in 0 .. 0 |-> Clustered(f, x)]
    <3>1. \A x \in 0 .. 0 : Clustered(f, x) = <<>>
      BY DEF Clustered
    <3>2. QED BY <3>1
  <2>2. QED BY <2>1
<1>2. ASSUME NEW m \in 0 .. L, m + 1 \in 0 .. L, Some(m) PROVE Some(m + 1)
  <2>1. PICK f : f = [x \in 0 .. m |-> Clustered(f, x)]
    BY <1>2
  <2> DEFINE g == [x \in 0 .. m + 1 |-> IF x = m + 1 THEN Clustered(f, m + 1) ELSE f[x]]
  <2>2. \A x \in 0 .. m : f[x] = Clustered(f, x) /\ g[x] = f[x]
    <3>1. \A x \in 0 .. m : f[x] = Clustered(f, x)
      BY <2>1
    <3>2. \A x \in 0 .. m : x \in 0 .. m + 1 /\ x # m + 1
      BY <1>0
    <3>3. QED BY ONLY <3>1, <3>2
  <2>3. g[m + 1] = Clustered(f, m + 1)
    <3>1. m + 1 \in 0 .. m + 1
      BY <1>0
    <3>2. QED BY ONLY <3>1
  <2> HIDE DEF g
  <2>4. ASSUME NEW x \in 0 .. m + 1 PROVE g[x] = Clustered(g, x)
    <3>1. CASE x = 0
      <4>1. x \in 0 .. m
        BY <1>0, <3>1
      <4>2. QED BY ONLY <2>2, <3>1, <4>1 DEF Clustered
    <3>2. CASE x # 0 /\ x \in 0 .. m
      <4>1. x - 1 \in 0 .. m
        BY <1>0, <3>2
      <4>2. g[x - 1] = f[x - 1]
        BY <2>2, <4>1
      <4>3. QED BY ONLY <2>2, <3>2, <4>2 DEF Clustered
    <3>3. CASE x = m + 1
      <4>1. x - 1 \in 0 .. m
        BY <1>0, <3>3
      <4>2. g[x - 1] = f[x - 1]
        BY <2>2, <4>1
      <4>3. g[x] = Clustered(f, x)
        BY <2>3, <3>3
      <4>4. QED BY ONLY <4>2, <4>3 DEF Clustered
    <3>4. QED BY <1>0, <3>1, <3>2, <3>3
  <2>5. g = [x \in 0 .. m + 1 |-> Clustered(g, x)]
    <3>1. g = [x \in 0 .. m + 1 |-> g[x]]
      BY DEF g
    <3>2. QED BY ONLY <2>4, <3>1
  <2>6. QED BY <2>5
<1> HIDE DEF L, Some
<1>3. SUFFICES ASSUME Bad # {} PROVE FALSE
  BY DEF L, Some
<1>4. Bad \subseteq Nat
  BY <1>0
<1>5. First(Bad) \in Bad /\ \A m \in Bad : First(Bad) <= m
  BY <1>3, <1>4, FirstIs
<1>6. PICK b \in Bad : \A m \in Bad : b <= m
  BY <1>5
<1>7. b # 0
  BY <1>1, <1>6
<1>8. b - 1 \in 0 .. L /\ b - 1 \notin Bad /\ b - 1 + 1 = b
  BY <1>0, <1>6, <1>7
<1>9. QED BY <1>2, <1>6, <1>8

LEMMA ClustersAre ==
  ASSUME warn.rank \in Seq(LockInfos \cup Loc),
         NEW n \in 0 .. Len(warn.rank)
  PROVE  ClustersUpTo[n] = Clustered(ClustersUpTo, n)
<1> DEFINE L == Len(warn.rank)
<1>1. L \in 0 .. L
  OBVIOUS
<1>2. \E f : f = [m \in 0 .. L |-> Clustered(f, m)]
  BY <1>1, ClustersExist
<1>3. ClustersUpTo = [m \in 0 .. L |-> Clustered(ClustersUpTo, m)]
  BY <1>2 DEF ClustersUpTo, Clustered, Recorded
<1>4. QED BY <1>3

(* Every recorded lock is in a cluster, and clusters are kept apart.       *)
Covered(E, n) ==
  \A x \in 1 .. n : Recorded(warn.rank[x]) => \E i \in 1 .. Len(E) : warn.rank[x] \in E[i]

LEMMA ClustersKeep ==
  ASSUME LockObjectsAgree, TypeOK, warn.rank \in Seq(LockInfos \cup Loc),
         NEW n \in 0 .. Len(warn.rank)
  PROVE  /\ ClustersUpTo[n] \in Seq(SUBSET LockInfos)
         /\ Separate(ClustersUpTo[n])
         /\ Covered(ClustersUpTo[n], n)
<1> DEFINE L == Len(warn.rank)
           Fine(m) == /\ ClustersUpTo[m] \in Seq(SUBSET LockInfos)
                      /\ Separate(ClustersUpTo[m])
                      /\ Covered(ClustersUpTo[m], m)
           Bad == { m \in 0 .. L : ~Fine(m) }
<1>0. L \in Nat
  OBVIOUS
<1>1. Fine(0)
  <2>1. ClustersUpTo[0] = <<>>
    BY ClustersAre DEF Clustered
  <2>2. QED BY <2>1 DEF Separate, Covered
<1>2. ASSUME NEW m \in 1 .. L, Fine(m - 1) PROVE Fine(m)
  <2> DEFINE E == ClustersUpTo[m - 1]
             k == warn.rank[m]
             A == AddToCluster(E, k)
  <2>1. m \in 0 .. L /\ m - 1 \in 0 .. L /\ m # 0
    BY <1>0
  <2>2. ClustersUpTo[m] = IF Recorded(k) THEN A ELSE E
    BY <2>1, ClustersAre DEF Clustered
  <2>3. E \in Seq(SUBSET LockInfos) /\ Separate(E) /\ Covered(E, m - 1)
    BY <1>2
  <2>4. \A x \in 1 .. m : x = m \/ x \in 1 .. m - 1
    BY <1>0
  <2>5. CASE ~Recorded(k)
    <3>1. Covered(E, m)
      BY <2>3, <2>4, <2>5 DEF Covered
    <3>2. QED BY <2>2, <2>3, <2>5, <3>1
  <2>6. CASE Recorded(k)
    <3>1. k \in LockInfos
      BY <2>6 DEF Recorded, TypeOK
    <3> HIDE DEF E, k
    <3>2. /\ A \in Seq(SUBSET LockInfos) /\ Separate(A) /\ Len(E) <= Len(A)
          /\ \A i \in 1 .. Len(E) : E[i] \subseteq A[i]
          /\ \E i \in 1 .. Len(A) : k \in A[i]
      BY <2>3, <3>1, ClusterAdds
    <3> HIDE DEF A
    <3>3. \A i \in 1 .. Len(E) : i \in 1 .. Len(A)
      BY <2>3, <3>2
    <3>4. Covered(A, m)
      <4> SUFFICES ASSUME NEW x \in 1 .. m, Recorded(warn.rank[x])
                   PROVE  \E i \in 1 .. Len(A) : warn.rank[x] \in A[i]
        BY DEF Covered
      <4>1. CASE x = m
        BY <3>2, <4>1 DEF k
      <4>2. CASE x \in 1 .. m - 1
        BY <2>3, <3>2, <3>3, <4>2 DEF Covered
      <4>3. QED BY <2>4, <4>1, <4>2
    <3>5. ClustersUpTo[m] = A
      BY <2>2, <2>6
    <3>6. QED BY <3>2, <3>4, <3>5
  <2>7. QED BY <2>5, <2>6
<1> HIDE DEF L, Fine
<1>3. SUFFICES ASSUME Bad # {} PROVE FALSE
  BY DEF L, Fine
<1>4. Bad \subseteq Nat
  BY <1>0
<1>5. First(Bad) \in Bad /\ \A m \in Bad : First(Bad) <= m
  BY <1>3, <1>4, FirstIs
<1>6. PICK b \in Bad : \A m \in Bad : b <= m
  BY <1>5
<1>7. b # 0
  BY <1>1, <1>6
<1>8. b \in 1 .. L /\ b - 1 \in 0 .. L /\ b - 1 \notin Bad
  BY <1>0, <1>6, <1>7
<1>9. QED BY <1>2, <1>6, <1>8

(* Two regions on one lock object are ruled to be apart by one constraint, *)
(* which says that one of them ends before the other starts.               *)
LEMMA RegionsRuled ==
  ASSUME IInv, LockObjectsAgree, NEW r \in Apart(lockMap),
         r[1].info = r[2].info \/ SameLockObjs(r[1].info, r[2].info)
  PROVE  /\ Exclusion(r[1], r[2]) \in Exclusions \ {{}}
         /\ Exclusion(r[1], r[2]) \subseteq
              { <<r[1].uk, r[2].lk>>, <<r[2].uk, r[1].lk>> }
<1> DEFINE p == r[1]
           q == r[2]
           C == Clusters
<1>0. TypeOK /\ warn \in Warnings
  BY DEF IInv, TypeOK
<1>1. warn.rank \in Seq(LockInfos \cup Loc)
  BY <1>0, WarnIs
<1>2. p \in lockMap /\ q \in lockMap /\ r = <<p, q>>
  BY DEF Apart
<1>3. p.info \in LockInfos /\ q.info \in LockInfos
  BY <1>0, <1>2 DEF TypeOK
<1>4. /\ C \in Seq(SUBSET LockInfos) /\ Separate(C)
      /\ Covered(C, Len(warn.rank))
  <2>1. Len(warn.rank) \in 0 .. Len(warn.rank)
    BY <1>1
  <2>2. QED BY <1>0, <1>1, <2>1, ClustersKeep DEF Clusters
<1>5. ASSUME NEW k \in LockInfos, Recorded(k)
      PROVE  \E i \in 1 .. Len(C) : k \in C[i]
  <2>1. k \in ToSet(warn.rank)
    BY <1>0, SchedAssumption
  <2>2. PICK x \in 1 .. Len(warn.rank) : warn.rank[x] = k
    BY <1>1, <2>1 DEF ToSet
  <2>3. QED BY <1>4, <1>5, <2>2 DEF Covered
<1>6. PICK i \in 1 .. Len(C) : p.info \in C[i]
  BY <1>2, <1>3, <1>5 DEF Recorded
<1>7. PICK j \in 1 .. Len(C) : q.info \in C[j]
  BY <1>2, <1>3, <1>5 DEF Recorded
<1>8. q.info \in C[i]
  BY <1>4, <1>6, <1>7 DEF Separate
<1>9. C[i] \in ToSet(C)
  BY <1>4 DEF ToSet
<1>10. r \in Apart(RegionsOf(C[i]))
  BY <1>2, <1>6, <1>8 DEF Apart, RegionsOf
<1>11. Exclusion(p, q) \in Exclusions
  BY <1>9, <1>10 DEF Exclusions, Exclusive
<1>12. p.uk # q.lk \/ q.uk # p.lk
  <2>1. RegionsEnclose
    BY RegionsHold
  <2>2. At(p.lk) < At(p.uk) /\ At(q.lk) < At(q.uk)
    BY <1>2, <2>1 DEF RegionsEnclose
  <2>3. \A x \in Held : PosIn(trs, x) \in Nat
    <3>1. AllSound(trs) /\ AllSound(Base) /\ Grown(Base, trs)
      BY DEF IInv, SoundInv
    <3>2. \A x \in Held : In(x, trs)
      BY <3>1, GrownIn DEF IInv, HeldInv
    <3>3. QED BY <3>1, <3>2, GrownSelf, GrownPos
  <2>4. \A x \in Held : At(x) \in Nat
    BY <2>3 DEF At, PosIn
  <2>5. p.lk \in Held /\ q.lk \in Held
    BY <1>2 DEF Held
  <2> HIDE DEF p, q
  <2>6. QED BY <2>2, <2>4, <2>5
<1>13. QED BY <1>11, <1>12 DEF Exclusion, Before

(* A verdict is feasible only if the solver has an order for constraints   *)
(* with the free before the use, the order of every thread and every pair  *)
(* of clustered regions among them.                                        *)
Decided ==
  /\ pc \in {"order", "solve"} => excl = Exclusions \ {{}}
  /\ verdict = "feasible" =>
       /\ Satisfiable(poc, excl)
       /\ ThreadOrder \cup {<<FreeEvent, UseEvent>>} \subseteq poc
       /\ excl = Exclusions \ {{}}

LEMMA DecidedStep ==
  ASSUME IInv, Decided, Next
  PROVE  Decided'
<1> USE DEF IInv
<1>0. /\ pc # "done" => verdict = "none"
      /\ pc \in {"exclude", "order", "solve"} => <<FreeEvent, UseEvent>> \in poc
      /\ pc = "solve" => ThreadOrder \subseteq poc
  BY DEF PhaseInv
<1>1. CASE addExclusions
  <2>1. /\ excl' = Exclusions \ {{}} /\ Exclusions' = Exclusions
        /\ verdict' = "none" /\ pc' = "order"
    BY <1>0, <1>1 DEF addExclusions, Exclusions, RegionsOf, Clusters, ClustersUpTo
  <2>2. QED BY <2>1 DEF Decided
<1>2. CASE addSeqConstraint
  <2>1. /\ excl' = excl /\ Exclusions' = Exclusions /\ pc = "order"
        /\ verdict' = "none" /\ pc' = "solve"
    BY <1>0, <1>2 DEF addSeqConstraint, Exclusions, RegionsOf, Clusters, ClustersUpTo
  <2>2. QED BY <2>1 DEF Decided
<1>3. CASE validate
  <2>1. /\ excl' = excl /\ poc' = poc /\ trs' = trs /\ warn' = warn
        /\ Exclusions' = Exclusions /\ pc = "solve" /\ pc' = "done"
        /\ verdict' = IF Satisfiable(poc, excl) THEN "feasible" ELSE "infeasible"
    BY <1>3 DEF validate, Exclusions, RegionsOf, Clusters, ClustersUpTo
  <2>2. ThreadOrder' = ThreadOrder /\ FreeEvent' = FreeEvent /\ UseEvent' = UseEvent
    BY <2>1 DEF ThreadOrder, FreeEvent, UseEvent
  <2>3. Satisfiable(poc, excl)' = Satisfiable(poc, excl)
    BY <2>1
  <2>4. QED BY <1>0, <2>1, <2>2, <2>3 DEF Decided
<1>4. CASE ~addExclusions /\ ~addSeqConstraint /\ ~validate
  <2>1. pc' \notin {"order", "solve"} /\ verdict' # "feasible"
    <3>1. CASE initFree \/ initUseSameThread \/ initUseOtherThread
      BY <1>0, <3>1 DEF initFree, initUseSameThread, initUseOtherThread, StartEF, Reject
    <3>2. CASE efEscapeNode \/ efFetchNode \/ efNextPath \/ efDone
      BY <1>0, <3>2 DEF efEscapeNode, efFetchNode, efNextPath, efDone, Reject
    <3>3. CASE \E e \in work.curr : takeLoc(e)
      BY <1>0, <3>3 DEF takeLoc
    <3>4. CASE \E k \in job.locks : addLock(k)
      BY <1>0, <3>4 DEF addLock
    <3>5. CASE \E b \in job.branches : addCheck(b)
      BY <1>0, <3>5 DEF addCheck
    <3>6. CASE \E l \in job.killers : addKiller(l)
      BY <1>0, <3>6 DEF addKiller, Reject
    <3>7. CASE endCheck \/ endLoc \/ endRound
      BY <1>0, <3>7 DEF endCheck, endLoc, endRound
    <3>8. QED BY <1>4, <3>1, <3>2, <3>3, <3>4, <3>5, <3>6, <3>7 DEF Next
  <2>2. QED BY <2>1 DEF Decided
<1>5. QED BY <1>1, <1>2, <1>3, <1>4

LEMMA DecidedHolds == Spec => []Decided
<1>1. Init => Decided
  BY DEF Init, Decided
<1>2. Decided /\ [IInv /\ IInv' /\ (Next \/ Terminated)]_vars => Decided'
  <2>1. CASE Decided /\ IInv /\ Next
    BY <2>1, DecidedStep
  <2>2. CASE Decided /\ UNCHANGED vars
    <3>1. /\ pc' = pc /\ verdict' = verdict /\ poc' = poc /\ excl' = excl
          /\ trs' = trs /\ warn' = warn /\ lockMap' = lockMap
      BY <2>2 DEF vars
    <3>2. Exclusions' = Exclusions /\ ThreadOrder' = ThreadOrder
      BY <3>1 DEF Exclusions, RegionsOf, Clusters, ClustersUpTo, ThreadOrder
    <3>3. FreeEvent' = FreeEvent /\ UseEvent' = UseEvent
      BY <3>1 DEF FreeEvent, UseEvent
    <3>4. Satisfiable(poc, excl)' = Satisfiable(poc, excl)
      BY <3>1
    <3>5. QED BY <2>2, <3>1, <3>2, <3>3, <3>4 DEF Decided
  <2>3. QED BY <2>1, <2>2 DEF Terminated
<1>3. QED BY <1>1, <1>2, StepsSafe, PTL DEF Spec

(* Fewer constraints have an order if more have.                           *)
LEMMA AcyclicFewer ==
  ASSUME NEW R, NEW Q, Q \subseteq R, Acyclic(R)
  PROVE  Acyclic(Q)
<1>1. Ends(Q) \subseteq Ends(R)
  BY DEF Ends
<1>2. QED BY <1>1 DEF Acyclic

(* What meets one set of disjunctions meets another one if each of these   *)
(* is implied by one of those.                                             *)
LEMMA SatisfiableWeaker ==
  ASSUME NEW R, NEW D, NEW W, Satisfiable(R, D),
         \A w \in W : \E d \in D : d \subseteq w
  PROVE  Satisfiable(R, W)
<1>1. PICK chosen \in Choices(D) : Acyclic(R \cup chosen)
  BY DEF Satisfiable
<1>2. PICK f \in [D -> UNION D] : chosen = Range(f) /\ \A d \in D : f[d] \in d
  BY DEF Choices
<1>3. \A w \in W : \E x \in w : x \in chosen
  <2> SUFFICES ASSUME NEW w \in W PROVE \E x \in w : x \in chosen
    OBVIOUS
  <2>1. PICK d \in D : d \subseteq w
    OBVIOUS
  <2>2. f[d] \in d /\ f[d] \in chosen
    BY <1>2 DEF Range
  <2>3. QED BY <2>1, <2>2
<1> DEFINE g == [w \in W |-> CHOOSE x \in w : x \in chosen]
<1>4. \A w \in W : g[w] \in w /\ g[w] \in chosen
  BY <1>3
<1>5. g \in [W -> UNION W]
  BY <1>4
<1>6. Range(g) \subseteq chosen
  BY <1>4 DEF Range
<1> HIDE DEF g
<1>7. Range(g) \in Choices(W)
  BY <1>4, <1>5 DEF Choices
<1>8. Acyclic(R \cup Range(g))
  <2>1. R \cup Range(g) \subseteq R \cup chosen
    BY <1>6
  <2>2. QED BY <1>1, <2>1, AcyclicFewer
<1>9. QED BY <1>7, <1>8 DEF Satisfiable

(* Critical regions on one lock object do not overlap in the order that a  *)
(* feasible warning stands on, whichever lock of its cluster each is a     *)
(* region of - if having the same object tells the locks apart.            *)
THEOREM RegionsExclude ==
  ASSUME LockObjectsAgree
  PROVE  Spec => []MutualExclusion
<1>1. IInv /\ Decided => MutualExclusion
  <2> SUFFICES ASSUME IInv, Decided, verdict = "feasible"
               PROVE  Satisfiable(ThreadOrder \cup poc \cup {<<FreeEvent, UseEvent>>},
                                  SameObjectRegions)
    BY DEF MutualExclusion
  <2>1. /\ Satisfiable(poc, excl) /\ excl = Exclusions \ {{}}
        /\ ThreadOrder \cup poc \cup {<<FreeEvent, UseEvent>>} = poc
    BY DEF Decided
  <2>2. ASSUME NEW w \in SameObjectRegions PROVE \E d \in excl : d \subseteq w
    <3>1. PICK r \in Apart(lockMap) :
            /\ r[1].info = r[2].info \/ SameLockObjs(r[1].info, r[2].info)
            /\ w = { <<r[1].uk, r[2].lk>>, <<r[2].uk, r[1].lk>> }
      BY DEF SameObjectRegions
    <3>2. QED BY <2>1, <3>1, RegionsRuled
  <2>3. Satisfiable(poc, SameObjectRegions)
    BY <2>1, <2>2, SatisfiableWeaker
  <2>4. QED BY <2>1, <2>3
<1>2. QED BY <1>1, InvariantHolds, DecidedHolds, PTL
=============================================================================
