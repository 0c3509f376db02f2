------------------------------- MODULE MCAlias -------------------------------
(***************************************************************************)
(* Programs for Alias: entry functions of a small driver and what they     *)
(* call.  A block is a record of MCPasses' kind: its function,             *)
(* instructions and successors; a block's number is 100 times that of its  *)
(* function and its own.                                                   *)
(***************************************************************************)
EXTENDS Alias

Alloca(v, ty) == [op |-> "alloca", def |-> v, ty |-> ty]
Gep(v, w, f) == [op |-> "gep", def |-> v, base |-> w, fid |-> f]
Cast(v, w) == [op |-> "cast", def |-> v, src |-> w]
Bin(v, w) == [op |-> "bin", def |-> v, srcs |-> <<w>>]
Select(v, w, x) == [op |-> "select", def |-> v, srcs |-> <<w, x>>]
Phi(v, s, from) == [op |-> "phi", def |-> v, srcs |-> s, from |-> from]
Load(v, p) == [op |-> "load", def |-> v, ptr |-> p]
Store(w, p) == [op |-> "store", val |-> w, ptr |-> p]
Call(v, f, as) == [op |-> "call", def |-> v, fn |-> {f}, args |-> as]
CallPtr(v, p, fs, as) == [op |-> "call", def |-> v, fn |-> fs, args |-> as, fptr |-> p]
Malloc(v) == Call(v, "malloc", <<>>)
Free(v) == Call(NoResult, "free", <<v>>)
Ret == [op |-> "ret", val |-> {}]
Give(v) == [op |-> "ret", val |-> {v}]
Go == [op |-> "br", on |-> "none"]
Test(v) == [op |-> "test", on |-> v]   \* null: the first successor

Functions == <<"release", "use", "publish", "box", "reuse", "again", "loop", "swap", "setG", "useG", "freeG",
               "slot", "drop", "make", "get", "call1", "act1", "call2", "act2", "preset", "choose", "rotate", "useH", "renew">>

SuccOf == <<
  <<<<103, 102>>, <<103>>, <<>>>>,
  <<<<203, 202>>, <<>>, <<>>>>,
  <<<<302, 303>>, <<304>>, <<304>>, <<>>>>,
  <<<<>>>>,
  <<<<>>>>,
  <<<<602, 604>>, <<603, 605>>, <<605>>, <<605>>, <<>>>>,
  <<<<702>>, <<703, 705>>, <<704, 705>>, <<702>>, <<>>>>,
  <<<<802, 803>>, <<803>>, <<>>>>,
  <<<<902, 903>>, <<903>>, <<>>>>,
  <<<<1003, 1002>>, <<>>, <<>>>>,
  <<<<1103, 1102>>, <<>>, <<>>>>,
  <<<<1202, 1203>>, <<1203>>, <<>>>>,
  <<<<>>>>,
  <<<<1403, 1402>>, <<>>, <<>>>>,
  <<<<1502, 1503>>, <<1504>>, <<1504>>, <<>>>>,
  <<<<>>>>, <<<<1702, 1703>>, <<1703>>, <<>>>>,
  <<<<>>>>, <<<<>>>>,
  <<<<>>>>,
  <<<<2102, 2103>>, <<2104>>, <<2104>>, <<2105, 2106>>, <<>>, <<>>>>,
  <<<<2202, 2203>>, <<>>, <<>>>>,
  <<<<2302, 2303>>, <<2303>>, <<>>>>,
  <<<<>>>>>>

Text == <<
  (* the buffer of a device is freed *)
  <<<<Gep("a1", "d1", 1), Load("a2", "a1"), Test("a2")>>,
    <<Free("a2"), Go>>,
    <<Ret>>>>,
  (* used, and what it points to *)
  <<<<Gep("b1", "d2", 1), Load("b2", "b1"), Test("b2")>>,
    <<Gep("b3", "b2", 2), Load("b4", "b3"), Ret>>,
    <<Ret>>>>,
  (* made, shown to others, and used or freed *)
  <<<<Gep("c1", "d3", 1), Malloc("c2"), Store("c2", "c1"), Go>>,
    <<Gep("c3", "c2", 1), Load("c4", "c3"), Go>>,
    <<Free("c2"), Go>>,
    <<Ret>>>>,
  (* shown to others in a container of its own *)
  <<<<Malloc("e1"), Malloc("e2"), Gep("e3", "e1", 1), Store("e2", "e3"),
      Gep("e4", "d4", 3), Store("e1", "e4"), Free("e2"), Ret>>>>,
  <<<<Gep("f1", "d5", 3), Load("f2", "f1"), Gep("f3", "f2", 1), Load("f4", "f3"), Gep("f5", "f4", 1), Load("f6", "f5"), Ret>>>>,
  (* freed on a way on which it may be replaced *)
  <<<<Alloca("g1", "Slot"), Malloc("g2"), Store("g2", "g1"), Go>>,
    <<Free("g2"), Go>>,
    <<Malloc("g3"), Store("g3", "g1"), Go>>,
    <<Go>>,
    <<Load("g4", "g1"), Gep("g5", "g4", 1), Load("g6", "g5"), Ret>>>>,
  (* used in a loop that frees *)
  <<<<Malloc("h1"), Go>>,
    <<Gep("h2", "h1", 1), Load("h3", "h2"), Go>>,
    <<Free("h1"), Go>>,
    <<Go>>,
    <<Ret>>>>,
  (* one of two pointers is freed and replaced *)
  <<<<Gep("i1", "d8", 1), Gep("i2", "d8", 2), Select("i3", "i1", "i2"), Load("i4", "i3"), Bin("i5", "i4"), Go>>,
    <<Malloc("i6"), Store("i6", "i3"), Go>>,
    <<Free("i5"), Load("i7", "i1"), Gep("i8", "i7", 1), Load("i9", "i8"), Ret>>>>,
  (* a global that entry functions write to *)
  <<<<Gep("j1", "G", 1), Malloc("j2"), Store("j2", "j1"), Go>>,
    <<Free("j2"), Go>>,
    <<Ret>>>>,
  <<<<Gep("k1", "G", 1), Load("k2", "k1"), Test("k2")>>,
    <<Gep("k3", "k2", 1), Load("k4", "k3"), Ret>>,
    <<Ret>>>>,
  <<<<Gep("l1", "G", 1), Load("l2", "l1"), Test("l2")>>,
    <<Free("l2"), Gep("l3", "G", 2), Load("l4", "l3"), Ret>>,
    <<Ret>>>>,
  (* a slot on the stack is given to what frees what is in it *)
  <<<<Alloca("m1", "Slot"), Malloc("m2"), Gep("m3", "m1", 1), Store("m2", "m3"), Go>>,
    <<Call(NoResult, "drop", <<"m1">>), Go>>,
    <<Load("m4", "m3"), Gep("m5", "m4", 1), Load("m6", "m5"), Ret>>>>,
  <<<<Load("n1", "n0"), Cast("n2", "n1"), Free("n2"), Ret>>>>,
  (* something is made by a callee, which may fail *)
  <<<<Call("o1", "get", <<>>), Test("o1")>>,
    <<Gep("o2", "o1", 1), Load("o3", "o2"), Free("o1"), Load("o4", "o2"), Ret>>,
    <<Ret>>>>,
  <<<<Malloc("p1"), Go>>,
    <<Free("p1"), Go>>,
    <<Go>>,
    <<Phi("p2", <<"null", "p1">>, <<1502, 1503>>), Give("p2")>>>>,
  (* what is called through a pointer that the device holds *)
  <<<<Gep("q1", "d16", 4), Load("q2", "q1"), CallPtr(NoResult, "q2", {"act1"}, <<"d16">>), Ret>>>>,
  <<<<Gep("r1", "r0", 1), Load("r2", "r1"), Go>>,
    <<Gep("r3", "r2", 1), Load("r4", "r3"), Go>>,
    <<Free("r2"), Ret>>>>,
  <<<<Gep("s1", "d18", 4), Load("s2", "s1"), CallPtr(NoResult, "s2", {"act2"}, <<"d18">>), Ret>>>>,
  <<<<Gep("t1", "t0", 2), Load("t2", "t1"), Free("t2"), Ret>>>>,
  (* a preset of a global is replaced *)
  <<<<Gep("u1", "H", 1), Load("u2", "u1"), Malloc("u3"), Store("u3", "u1"), Load("u4", "u1"), Ret>>>>,
  (* callees of two contexts; stores that meet *)
  <<<<Gep("v1", "d21", 1), Call("v2", "get", <<>>), Store("v2", "v1"), Go>>,
    <<Call("v3", "get", <<>>), Store("v3", "v1"), Go>>,
    <<Load("v4", "v1"), Go>>,
    <<Load("v5", "v1"), Test("v5")>>,
    <<Ret>>,
    <<Free("v2"), Gep("v6", "v5", 1), Load("v7", "v6"), Ret>>>>,
  (* stored back to where it was loaded from, one of two *)
  <<<<Gep("w1", "d22", 1), Gep("w2", "d22", 2), Load("w3", "w1"), Select("w4", "w1", "w2"), Load("w5", "w4"), Cast("w6", "w5"),
      Store("w6", "w4"), Free("w3"), Load("w7", "w2"), Test("w7")>>,
    <<Ret>>,
    <<Load("w8", "w7"), Load("w9", "w1"), Load("w10", "w9"), Ret>>>>,
  <<<<Gep("x1", "H", 1), Load("x2", "x1"), Go>>,
    <<Malloc("x3"), Store("x3", "x1"), Go>>,
    <<Load("x4", "x1"), Gep("x5", "x4", 1), Load("x6", "x5"), Ret>>>>,
  (* freed, replaced for others too, and used: another invocation frees it *)
  <<<<Gep("y1", "d24", 1), Load("y2", "y1"), Free("y2"), Malloc("y3"), Store("y3", "y1"),
      Gep("y4", "y3", 1), Load("y5", "y4"), Ret>>>>>>

Callees == [slot |-> {"drop"}, make |-> {"get"}, call1 |-> {"act1"}, call2 |-> {"act2"}, choose |-> {"get"}]

MCBlock == UNION {{100 * f + n : n \in DOMAIN SuccOf[f]} : f \in DOMAIN SuccOf}
MCHost == [b \in MCBlock |-> Functions[b \div 100]]
MCSucc == [b \in MCBlock |-> SuccOf[b \div 100][b % 100]]
MCModule(fs) ==
  LET all == ToSet(fs) \cup UNION {Callees[f] : f \in ToSet(fs) \cap DOMAIN Callees}
  IN [b \in {c \in MCBlock : MCHost[c] \in all} |-> Text[b \div 100][b % 100]]
MCEntryBB == [f \in ToSet(Functions) |-> 100 * (CHOOSE n \in DOMAIN Functions : Functions[n] = f) + 1]
Straight(s) == [k \in DOMAIN s |-> <<s[k], FALSE>>]
Looped(s) == [k \in DOMAIN s |-> <<s[k], TRUE>>] \o Straight(s)
MCOrder == [f \in ToSet(Functions) |->
  CASE f = "release" -> Straight(<<101, 102, 103>>)
    [] f = "use" -> Straight(<<201, 202, 203>>)
    [] f = "publish" -> Straight(<<301, 302, 303, 304>>)
    [] f = "again" -> Straight(<<601, 604, 602, 603, 605>>)
    [] f = "loop" -> Straight(<<701>>) \o Looped(<<702, 703, 704>>) \o Straight(<<705>>)
    [] f = "swap" -> Straight(<<801, 802, 803>>)
    [] f = "setG" -> Straight(<<901, 902, 903>>)
    [] f = "useG" -> Straight(<<1001, 1002, 1003>>)
    [] f = "freeG" -> Straight(<<1101, 1102, 1103>>)
    [] f = "slot" -> Straight(<<1201, 1202, 1203>>)
    [] f = "make" -> Straight(<<1401, 1402, 1403>>)
    [] f = "get" -> Straight(<<1501, 1503, 1502, 1504>>)
    [] f = "act1" -> Straight(<<1701, 1702, 1703>>)
    [] f = "choose" -> Straight(<<2101, 2103, 2102, 2104, 2106, 2105>>)
    [] f = "useH" -> Straight(<<2301, 2302, 2303>>)
    [] f = "rotate" -> Straight(<<2201, 2203, 2202>>)
    [] OTHER -> Straight(<<MCEntryBB[f]>>)]
MCParams == [f \in ToSet(Functions) |->
  CASE f = "release" -> <<"d1">> [] f = "use" -> <<"d2">> [] f = "publish" -> <<"d3">> [] f = "box" -> <<"d4">>
    [] f = "reuse" -> <<"d5">> [] f = "swap" -> <<"d8">> [] f = "drop" -> <<"n0">> [] f = "call1" -> <<"d16">>
    [] f = "act1" -> <<"r0">> [] f = "call2" -> <<"d18">> [] f = "act2" -> <<"t0">> [] f = "choose" -> <<"d21">> [] f = "rotate" -> <<"d22">> [] f = "renew" -> <<"d24">> [] OTHER -> <<>>]

MCFieldTypes == [Dev |-> <<"Buf", "Buf", "Box", "Ops">>, Buf |-> <<"scalar", "Item">>, Item |-> <<"scalar">>,
                 Box |-> <<"Buf">>, Slot |-> <<"Buf">>, Ops |-> <<"scalar">>]
Devs == {"d1", "d2", "d3", "d4", "d5", "d8", "d16", "r0", "d18", "t0", "d21", "d22", "d24", "G", "H"}
Bufs == {"a2", "b2", "c2", "e2", "f4", "g2", "g3", "g4", "h1", "i4", "i5", "i6", "i7", "j2", "k2", "l2", "m2", "m4",
         "n1", "n2", "o1", "p1", "p2", "r2", "t2", "u2", "u3", "u4", "v2", "v3", "v4", "v5", "w3", "w5", "w6", "w7", "w9", "x2", "x3", "x4", "y2", "y3", "K"}
Boxes == {"e1", "f2"}
MCPointeeTy == [v \in Devs \cup Bufs \cup Boxes \cup {"n0", "b4"} |->
  CASE v \in Devs -> "Dev" [] v \in Bufs -> "Buf" [] v \in Boxes -> "Box" [] v = "n0" -> "Slot" [] OTHER -> "Item"]
MCGlobals == <<"G", "H", "K">>
MCPresets == {<<"H", 1, "K">>}
MCTables == {[table |-> "ops1", ty |-> "Ops", fid |-> 1, fn |-> "act1"], [table |-> "ops1", ty |-> "Ops", fid |-> 2, fn |-> "act2"]}
MCInvalidRets == [get |-> {<<1502, 1>>}]

Alone(f) == [analysed |-> <<f>>, run |-> <<f>>]
Twice(f) == [analysed |-> <<f>>, run |-> <<f, f>>]
Both(f, g) == [analysed |-> <<f, g>>, run |-> <<f, g>>]
(* All alone and twice; two that have the same memory.                     *)
Entry == {"release", "use", "publish", "box", "reuse", "again", "loop", "swap", "setG", "useG", "freeG", "slot",
          "make", "call1", "call2", "preset", "useH", "choose", "rotate", "renew"}
Pairs(s) == {Both(p[1], p[2]) : p \in {q \in s \X s : q[1] # q[2]}}
MCPlans ==
  {Alone(f) : f \in Entry} \cup {Twice(f) : f \in Entry \ {"choose", "rotate"}}
    \cup Pairs({"release", "use", "publish"}) \cup Pairs({"box", "reuse"}) \cup Pairs({"setG", "useG", "freeG"})
    \cup Pairs({"preset", "useH"}) \cup {Both("call1", "call2"), Both("swap", "release")}
    \cup {[analysed |-> <<f, g>>, run |-> <<g>>] : f \in {"preset", "setG", "publish"}, g \in {"useH", "freeG", "use", "swap"}}
=============================================================================
