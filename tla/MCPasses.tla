------------------------------ MODULE MCPasses ------------------------------
(***************************************************************************)
(* Programs for Passes: entry functions, on words of three bits, and what  *)
(* they call.  A block is a record: its function, instructions and         *)
(* successors.                                                             *)
(***************************************************************************)
EXTENDS Passes

VARIABLE question   \* about a store and a check, apart from the programs

Br(v, p, n) == [op |-> "br", lhs |-> Var(v), pred |-> p, rhs |-> Const(n)]
Switch(v, cs) == [op |-> "switch", on |-> Var(v), cases |-> cs]
Jump == [op |-> "jump"]
Ret == [op |-> "ret", val |-> {}]
Give(v) == [op |-> "ret", val |-> {Var(v)}]
Phi(v, s) == [op |-> "phi", def |-> v, in |-> s]
Bin(v, f, w, n) == [op |-> "bin", def |-> v, bop |-> f, src |-> Var(w), n |-> n, width |-> 3]
Cast(v, w) == [op |-> "cast", def |-> v, src |-> Var(w), ptr |-> FALSE]
Load(v, p) == [op |-> "load", def |-> v, ptr |-> p]
Store(p, o) == [op |-> "store", ptr |-> p, val |-> o]
Call(v, f, as) == [op |-> "call", def |-> v, fn |-> f, args |-> as]
Lock(p) == Call(NoResult, {"lock"}, <<Var(p)>>)
LockNested(p) == Call(NoResult, {"lock_nested"}, <<Var(p)>>)
Unlock(p) == Call(NoResult, {"unlock"}, <<Var(p)>>)

(* A block is 100 times the number of its function and its own.            *)
Functions == <<"narrow", "choose", "errors", "get", "wrap", "other", "flags", "locked", "done", "loop", "phis", "state">>

(* The successors of the blocks of each function.                           *)
SuccOf == <<
  <<<<102, 103>>, <<104, 105>>, <<106, 105>>, <<105>>, <<106, 107>>, <<>>, <<108, 106>>, <<>>>>,
  <<<<205, 202, 202, 203, 204>>, <<206, 207>>, <<204>>, <<206, 207>>, <<206, 207>>, <<207>>, <<>>>>,
  <<<<302, 307>>, <<303, 304>>, <<>>, <<305, 303>>, <<306, 303>>, <<>>, <<304, 303>>>>,
  <<<<402, 403>>, <<404>>, <<405, 406>>, <<>>, <<404>>, <<404>>>>,
  <<<<>>>>,
  <<<<602, 603>>, <<603>>, <<>>>>,
  <<<<702, 703>>, <<704>>, <<704>>, <<705, 706>>, <<707>>, <<707>>, <<708, 709>>, <<709, 710>>, <<>>, <<>>>>,
  <<<<802, 803>>, <<804>>, <<804>>, <<805, 806>>, <<805, 806>>, <<>>>>,
  <<<<>>>>,
  <<<<1002>>, <<1003, 1004>>, <<1002, 1005>>, <<1005, 1006>>, <<>>, <<1007, 1005>>, <<>>>>,
  <<<<1102, 1103>>, <<1104>>, <<1105, 1106>>, <<1107>>, <<1104>>, <<1104>>, <<1108, 1109>>, <<1110>>, <<1110>>, <<1111, 1112>>, <<>>, <<>>>>,
  <<<<1202, 1203, 1204>>, <<>>, <<>>, <<>>>>>>

(* Their instructions.                                                     *)
Text == <<
  (* branches on an argument *)
  <<<<Br("x", "sgt", 0)>>,
    <<Br("x", "slt", 1)>>,
    <<Br("x", "eq", -1)>>,
    <<Jump>>,
    <<Phi("ny", <<<<Var("x"), 102>>, <<Var("x"), 103>>, <<Const(0), 104>>>>), Br("ny", "ult", 3)>>,
    <<Ret>>,
    <<Cast("nz", "ny"), Br("nz", "eq", 0)>>,
    <<Ret>>>>,
  (* a switch: two cases share a block, one falls through *)
  <<<<Switch("x", <<0, 1, 2, 3>>)>>,
    <<Br("x", "eq", 2)>>,
    <<Jump>>,
    <<Br("x", "sle", 1)>>,
    <<Br("x", "eq", 1)>>,
    <<Jump>>,
    <<Phi("sy", <<<<Var("x"), 202>>, <<Var("x"), 204>>, <<Var("x"), 205>>, <<Const(0), 206>>>>), Ret>>>>,
  (* checks of what functions return, directly and through another one *)
  <<<<Br("x", "sgt", 1)>>,
    <<Call("er", {"get"}, <<Var("x")>>), Cast("ec", "er"), Br("ec", "slt", 0)>>,
    <<Ret>>,
    <<Call("eq", {"wrap", "other"}, <<Const(0)>>), Br("eq", "sge", 0)>>,
    <<Call("ek", {"get"}, <<Const(1)>>), Br("ek", "eq", -1)>>,
    <<Ret>>,
    <<Call("es", {"get"}, <<Var("x")>>), Br("es", "ne", -1)>>>>,
  <<<<Br("a", "eq", 0)>>,
    <<Jump>>,
    <<Call("gh", {"read"}, <<>>), Br("gh", "slt", 0)>>,
    <<Phi("gv", <<<<Const(-1), 402>>, <<Const(-2), 405>>, <<Var("gh"), 406>>>>), Give("gv")>>,
    <<Jump>>,
    <<Jump>>>>,
  <<<<Call("wk", {"get"}, <<Var("b")>>), Give("wk")>>>>,
  <<<<Br("c", "eq", 0)>>,
    <<Jump>>,
    <<Phi("vv", <<<<Const(2), 601>>, <<Const(0), 602>>>>), Give("vv")>>>>,
  (* checks of memory: p and q stand for the same, r may be elsewhere *)
  <<<<Br("x", "eq", 0)>>,
    <<Store("p", Const(1)), Jump>>,
    <<Store("r", Const(-2)), Jump>>,
    <<Load("fl", "q"), Br("fl", "sgt", 0)>>,
    <<Load("fm", "p"), Bin("fn", "and", "fm", -3), Store("p", Var("fn")), Jump>>,
    <<Load("fo", "p"), Bin("fp", "or", "fo", 2), Store("p", Var("fp")), Jump>>,
    <<Load("fq", "q"), Bin("fr", "and", "fq", 2), Br("fr", "ne", 0)>>,
    <<Load("fs", "r"), Bin("ft", "and", "fs", 3), Br("ft", "eq", 2)>>,
    <<Ret>>,
    <<Ret>>>>,
  (* locks: given back in branches, in a callee, in a loop, in the order of taking *)
  <<<<Lock("k"), Br("x", "eq", 0)>>,
    <<Unlock("k"), Jump>>,
    <<Call(NoResult, {"done"}, <<>>), Jump>>,
    <<Lock("k"), LockNested("m"), Unlock("m"), Unlock("k"), Br("x", "sgt", 1)>>,
    <<Lock("k"), Lock("m"), Unlock("k"), Unlock("m"), Call("lr", {"read"}, <<>>), Br("lr", "eq", 0)>>,
    <<Ret>>>>,
  <<<<Unlock("k"), Ret>>>>,
  (* a loop: its variable is met before what it becomes *)
  <<<<Jump>>,
    <<Phi("ij", <<<<Const(0), 1001>>, <<Var("ik"), 1003>>>>), Phi("im", <<<<Var("x"), 1001>>, <<Var("ij"), 1003>>>>), Br("ij", "slt", 2)>>,
    <<Bin("ik", "add", "ij", 1), Call("ir", {"get"}, <<Var("ij")>>), Br("ir", "slt", 0)>>,
    <<Br("im", "sgt", 1)>>,
    <<Ret>>,
    <<Br("ij", "eq", 1)>>,
    <<Ret>>>>,
  (* checks of phis, and of phis of phis *)
  <<<<Br("x", "eq", 0)>>,
    <<Jump>>,
    <<Br("x", "sgt", 1)>>,
    <<Phi("cu", <<<<Const(0), 1102>>, <<Const(1), 1105>>, <<Const(2), 1106>>>>), Jump>>,
    <<Jump>>,
    <<Jump>>,
    <<Br("cu", "ne", 0)>>,
    <<Jump>>,
    <<Jump>>,
    <<Phi("cv", <<<<Var("cu"), 1108>>, <<Const(-1), 1109>>>>), Br("cv", "sgt", 1)>>,
    <<Ret>>,
    <<Ret>>>>,
  (* a switch on what memory holds *)
  <<<<Store("p", Const(1)), Load("zl", "p"), Switch("zl", <<0, 1>>)>>,
    <<Ret>>,
    <<Ret>>,
    <<Ret>>>>>>

MCBlock == UNION {{100 * f + n : n \in DOMAIN SuccOf[f]} : f \in DOMAIN SuccOf}
MCHost == [b \in MCBlock |-> Functions[b \div 100]]
MCSucc == [b \in MCBlock |-> SuccOf[b \div 100][b % 100]]
MCModule(entry) ==
  LET fs == {entry} \cup (CASE entry = "errors" -> {"get", "wrap", "other"} [] entry = "loop" -> {"get"}
                            [] entry = "locked" -> {"done"} [] OTHER -> {})
  IN [b \in {c \in MCBlock : MCHost[c] \in fs} |-> Text[b \div 100][b % 100]]
MCEntryBB == [narrow |-> 101, choose |-> 201, errors |-> 301, get |-> 401, wrap |-> 501, other |-> 601,
              flags |-> 701, locked |-> 801, done |-> 901, loop |-> 1001, phis |-> 1101, state |-> 1201]
Straight(s) == [k \in DOMAIN s |-> <<s[k], FALSE>>]
Looped(s) == [k \in DOMAIN s |-> <<s[k], TRUE>>] \o Straight(s)
MCOrder == [
  narrow |-> Straight(<<101, 103, 102, 104, 105, 107, 108, 106>>),
  choose |-> Straight(<<201, 205, 203, 204, 202, 206, 207>>),
  errors |-> Straight(<<301, 307, 302, 304, 305, 306, 303>>),
  get |-> Straight(<<401, 403, 406, 405, 402, 404>>),
  wrap |-> Straight(<<501>>), other |-> Straight(<<601, 602, 603>>),
  flags |-> Straight(<<701, 703, 702, 704, 706, 705, 707, 708, 710, 709>>),
  locked |-> Straight(<<801, 803, 802, 804>>) \o Straight(<<805>>) \o Straight(<<806>>),
  done |-> Straight(<<901>>),
  loop |-> Straight(<<1001>>) \o Looped(<<1002, 1003>>) \o Straight(<<1004, 1006, 1007, 1005>>),
  phis |-> Straight(<<1101, 1103, 1106, 1105, 1102, 1104, 1107, 1109, 1108, 1110, 1112, 1111>>),
  state |-> Straight(<<1201, 1204, 1203, 1202>>)]
MCParams == [f \in DOMAIN MCEntryBB |->
  CASE f = "get" -> <<"a">> [] f = "wrap" -> <<"b">> [] f = "other" -> <<"c">>
    [] f \in {"done", "state"} -> <<>> [] OTHER -> <<"x">>]
MCPointee == [p |-> {"o1"}, q |-> {"o2"}, r |-> {"o2", "o3"}, k |-> {"ok"}, m |-> {"om"}]
MCHome == [o1 |-> "h1", o2 |-> "h1", o3 |-> "h2", ok |-> "hk", om |-> "hm"]
MCLocks == {<<"lock", "unlock">>, <<"lock_nested", "unlock">>, <<"lock_irq", "unlock_irq">>}

Run == {"narrow", "choose", "errors", "flags", "locked", "loop", "phis"}
RunSwitch == {"state", "flags"}

(* What a store does to a word, and how a branch checks it.                *)
Stores == {ConstSet(n) : n \in Word} \cup {Adjust(n, f) : n \in 0..(2^WordBits - 1), f \in {"and", "or"}} \cup {Adjust(0, "none")}
NoMask == -1
Compares == [pred : {"eq", "ne", "sgt", "sge", "slt", "sle"}, n : Word, mask : {NoMask} \cup 0..(2^WordBits - 1), left : BOOLEAN]

Ask ==
  /\ question = Nothing /\ Walking /\ ~stale /\ visited = {} /\ curr = <<1101, 1>>
  /\ \E ts \in Stores, c \in {d \in Compares : d.left => d.mask = NoMask}, dst \in {0, 1} :
       question' = [ts |-> ts, check |-> c, dst |-> dst]
  /\ UNCHANGED vars

Answered == question # Nothing /\ UNCHANGED <<vars, question>>

MCInit == Init /\ question = Nothing
MCNext == (question = Nothing /\ Next /\ UNCHANGED question) \/ Ask \/ Answered
MCSpec == MCInit /\ [][MCNext]_<<vars, question>>

(* What is in memory after the store, if it was w, and the way it goes on. *)
After(ts, w) ==
  CASE ts.pat = "const" -> {ts.n}
    [] ts.op \in {"and", "or"} -> {Compute(ts.op, w, ts.n, WordBits)}
    [] OTHER -> Word
Way(c, w) ==
  LET v == IF c.mask = NoMask THEN w ELSE Compute("and", w, c.mask, WordBits)
  IN IF (IF c.left THEN Holds(c.pred, c.n, v) ELSE Holds(c.pred, v, c.n)) THEN 0 ELSE 1
Check(c) ==
  LET pat == getTCPattern(c.pred, c.left)
  IN IF c.mask = NoMask THEN ConstCheck(pat, c.n) ELSE MaskCheck(pat, c.n, c.mask, WordBits)

(* A store that is said to rule out a way on does so whatever was there,   *)
(* also one that sets some bits only; and the solver is told of exactly    *)
(* the values with which a branch goes the way.                            *)
TraitExact ==
  question # Nothing =>
    LET c == question.check
    IN /\ kill(question.ts, Check(c), question.dst) =>
            \A w \in Word : \A v \in After(question.ts, w) : Way(c, v) # question.dst
       /\ c.mask = NoMask => getZ3Expr4Branch(Check(c), question.dst) = {w \in Word : Way(c, w) = question.dst}
=============================================================================
