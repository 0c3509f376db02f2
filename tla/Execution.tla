------------------------------ MODULE Execution ------------------------------
(***************************************************************************)
(* What a program does when it runs, by the rules of LLVM: the reference   *)
(* for what the passes say of it.  Arguments, and what memory and external *)
(* functions give, are any words.                                          *)
(***************************************************************************)
EXTENDS Program

CONSTANT
  MaxBlocks   \* bound: blocks that an activation goes through

VARIABLES
  frames,  \* the activations, the one that runs last
  ptrs,    \* where the pointers point to
  mem,     \* what is known of the memory, by its homes
  wrote,   \* the location of the last store to a home
  held,    \* locks that are held: home -> location of the lock call
  gave,    \* the last unlock call, and the lock call it undid
  taken    \* the last way on: branch, number of the successor, what decided its operands

runVars == <<frames, ptrs, mem, wrote, held, gave, taken>>

Nothing == <<>>
RunInit ==
  /\ frames = <<>> /\ ptrs = Nothing /\ mem = Nothing /\ wrote = Nothing
  /\ held = Nothing /\ gave = Nothing /\ taken = Nothing

Frame(ctx, args) ==
  [ctx |-> ctx, b |-> Last(ctx)[1], pc |-> 1,
   env |-> args,              \* variables that have a value
   from |-> Nothing,          \* locations that have decided on it
   trail |-> <<>>]            \* the blocks behind

Act == Last(frames)
SetAct(fr) == frames' = Front(frames) \o <<fr>>
now == <<Act.b, Act.pc>>
Here == Loc(now, Act.ctx)
Value(o) == IF isConstant(o) THEN o.n ELSE Act.env[o.v]
Decided(o) == IF ~isConstant(o) /\ o.v \in DOMAIN Act.from THEN Act.from[o.v] ELSE {}
Put(fr, v, w, locs) == [fr EXCEPT !.env = (v :> w) @@ @, !.from = (v :> locs) @@ @, !.pc = @ + 1]

Executing(op) == frames # <<>> /\ At(now).op = op

runStart(f) ==
  /\ frames = <<>>
  /\ \E args \in [ToSet(params[f]) -> Word] : frames' = <<Frame(<<First(entryBB[f])>>, args)>>
  /\ ptrs' \in {g \in [DOMAIN Pointee -> Range(Home)] :
                  \A p \in DOMAIN Pointee : g[p] \in {Home[o] : o \in Pointee[p]}}
  /\ UNCHANGED <<mem, wrote, held, gave, taken>>

runValue ==
  /\ frames # <<>>
  /\ \/ At(now).op = "cast" /\ SetAct(Put(Act, At(now).def, Value(At(now).src), Decided(At(now).src)))
     \/ At(now).op = "bin"
          /\ SetAct(Put(Act, At(now).def, Compute(At(now).bop, Value(At(now).src), At(now).n, At(now).width),
                        Decided(At(now).src)))
  /\ UNCHANGED <<ptrs, mem, wrote, held, gave, taken>>

runLoad ==
  /\ Executing("load")
  /\ LET h == ptrs[At(now).ptr]
     IN \E w \in IF h \in DOMAIN mem THEN {mem[h]} ELSE Word :
          /\ mem' = (h :> w) @@ mem
          /\ SetAct(Put(Act, At(now).def, w, IF h \in DOMAIN wrote THEN {wrote[h]} ELSE {}))
  /\ UNCHANGED <<ptrs, wrote, held, gave, taken>>

runStore ==
  /\ Executing("store")
  /\ mem' = (ptrs[At(now).ptr] :> Value(At(now).val)) @@ mem
  /\ wrote' = (ptrs[At(now).ptr] :> Here) @@ wrote
  /\ SetAct([Act EXCEPT !.pc = @ + 1])
  /\ UNCHANGED <<ptrs, held, gave, taken>>

----------------------------------------------------------------------------
(* Calls                                                                   *)
Args(f) == [v \in ToSet(params[f]) |-> Value(At(now).args[CHOOSE k \in DOMAIN params[f] : params[f][k] = v])]

runCall ==
  /\ Executing("call")
  /\ \E f \in At(now).fn : hasBody(f)
       /\ frames' = Append(frames, Frame(CalleeCtx(Act.ctx, now, f), Args(f)))
  /\ UNCHANGED <<ptrs, mem, wrote, held, gave, taken>>

(* A lock is not taken twice, and not given back unless it is held.        *)
LockHome == ptrs[At(now).args[1].v]
runExternal ==
  /\ Executing("call")
  /\ \E f \in At(now).fn : \E w \in IF At(now).def = NoResult THEN {0} ELSE Word :
       /\ ~hasBody(f)
       /\ SetAct(Put(Act, At(now).def, w, {}))
       /\ CASE \E p \in LockPairs : f = p[1] ->
                 /\ LockHome \notin DOMAIN held
                 /\ held' = (LockHome :> Here) @@ held /\ UNCHANGED gave
            [] \E p \in LockPairs : f = p[2] ->
                 /\ LockHome \in DOMAIN held
                 /\ held' = [h \in DOMAIN held \ {LockHome} |-> held[h]]
                 /\ gave' = [unlock |-> Here, lock |-> held[LockHome]]
            [] OTHER -> UNCHANGED <<held, gave>>
  /\ UNCHANGED <<ptrs, mem, wrote, taken>>

Executed(fr) == {Loc(Terminator(b), fr.ctx) : b \in ToSet(fr.trail) \cup {fr.b}}

(* What decides on the result: the way through the callee, and through     *)
(* what it has called for it.                                              *)
runReturn ==
  /\ Executing("ret") /\ Len(frames) > 1
  /\ LET caller == frames[Len(frames) - 1]
         result == At(now).val
         i == <<caller.b, caller.pc>>
         locs == Executed(Act) \cup UNION {Decided(o) : o \in result}
     IN frames' = SubSeq(frames, 1, Len(frames) - 2) \o
                    <<IF result = {} THEN [caller EXCEPT !.pc = @ + 1]
                      ELSE Put(caller, At(i).def, Value(CHOOSE o \in result : TRUE), locs)>>
  /\ UNCHANGED <<ptrs, mem, wrote, held, gave, taken>>

----------------------------------------------------------------------------
(* To the next block.  All its phis take their values at once; what has    *)
(* decided on them is the way since they did so last.                      *)
Since(trail, b) ==
  {trail[k] : k \in {n \in DOMAIN trail : \A m \in DOMAIN trail : trail[m] = b => m <= n}}
PhisOf(b) == {n \in DOMAIN code[b] : code[b][n].op = "phi"}
Coming(b, n, from) == code[b][n].in[CHOOSE k \in DOMAIN code[b][n].in : code[b][n].in[k][2] = from][1]

Into(b) ==
  LET trail == Append(Act.trail, Act.b)
      phis == {code[b][n].def : n \in PhisOf(b)}
      locs == {Loc(Terminator(d), Act.ctx) : d \in Since(trail, b)}
      nth(v) == CHOOSE n \in PhisOf(b) : code[b][n].def = v
  IN [Act EXCEPT !.b = b, !.pc = Cardinality(phis) + 1, !.trail = trail,
                 !.env = [v \in phis |-> Value(Coming(b, nth(v), Act.b))] @@ @,
                 !.from = [v \in phis |-> locs] @@ @]

runBranch ==
  /\ frames # <<>> /\ At(now).op \in {"br", "switch", "jump"}
  /\ Len(Act.trail) < MaxBlocks
  /\ LET k == Successor(now, Value)
         operands == CASE At(now).op = "br" -> {At(now).lhs, At(now).rhs}
                       [] At(now).op = "switch" -> {At(now).on} [] OTHER -> {}
     IN /\ SetAct(Into(succ[Act.b][k]))
        /\ taken' = [loc |-> Here, to |-> succ[Act.b][k], by |-> UNION {Decided(o) : o \in operands}]
  /\ UNCHANGED <<ptrs, mem, wrote, held, gave>>

RunStep == runValue \/ runLoad \/ runStore \/ runCall \/ runExternal \/ runReturn \/ runBranch
=============================================================================
