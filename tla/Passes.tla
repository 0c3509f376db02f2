------------------------------- MODULE Passes -------------------------------
(***************************************************************************)
(* The path, lockset and trait passes on one walk over an entry function,  *)
(* as addAllVisitorAnalysis lines them up: each instruction is shown to    *)
(* all of them before the next.                                            *)
(*                                                                         *)
(* When the walk is over the entry function is run, to see whether what    *)
(* the passes have found is so.                                            *)
(***************************************************************************)
EXTENDS Killers, LocksetPass, Execution, Walk

CONSTANTS
  Entries,
  Module(_)  \* the code an entry function is analysed with

VARIABLE killers  \* when the walk is over: branch and number of a successor -> locations

passVars == <<constraintInformation, brConstraints, deadBBs, tsets, traitChecks, locks, unlocks, pairs>>
vars == <<code, passVars, walkVars, killers, stale, runVars>>

Init ==
  /\ PathInit /\ TraitInit /\ LockInit /\ RunInit
  /\ stale \in BOOLEAN
  /\ \E f \in Entries :
       /\ code = Module(f)
       /\ walk = <<Visitor(EntryCtx(f), f)>>
       /\ contexts = {EntryCtx(f)}
  /\ visited = {} /\ killers = Nothing

(* Instructions are visited in the blocks that are not dead.               *)
Visible == Walking /\ (Top.pc = 1 => ~isDeadBB(Top.ctx, currBB))
Rest == UNCHANGED <<code, killers, stale, runVars>>

skipBB ==
  /\ Walking /\ Top.pc = 1 /\ isDeadBB(Top.ctx, currBB)
  /\ walk' = Front(walk) \o <<[Top EXCEPT !.todo = Tail(@)]>>
  /\ UNCHANGED <<contexts, visited, passVars>> /\ Rest

visitPHI == At_("phi") /\ Visible /\ visitPHINode(Top.ctx, curr) /\ Advance /\ UNCHANGED <<traitVars, lockVars>> /\ Rest
visitCast == At_("cast") /\ Visible /\ visitCastInst(Top.ctx, curr) /\ Advance /\ UNCHANGED <<traitVars, lockVars>> /\ Rest
visitStore == At_("store") /\ Visible /\ visitStoreInst(Top.ctx, curr) /\ Advance /\ UNCHANGED <<pathVars, lockVars>> /\ Rest
visitOther ==
  /\ Walking /\ At(curr).op \in {"load", "bin", "jump", "ret"} /\ Visible
  /\ Advance /\ UNCHANGED passVars /\ Rest
visitBranch ==
  /\ At_("br") /\ Visible
  /\ visitBranchInst(Top.ctx, curr) /\ checkBranch(Top.ctx, curr)
  /\ Advance /\ UNCHANGED lockVars /\ Rest
visitSwitch ==
  /\ At_("switch") /\ Visible
  /\ visitSwitchInst(Top.ctx, curr) /\ checkSwitch(Top.ctx, curr)
  /\ Advance /\ UNCHANGED lockVars /\ Rest

visitCall == At_("call") /\ Visible /\ enterCall /\ UNCHANGED passVars /\ Rest

processCalledFunction(f) ==
  /\ Walking /\ f \in Top.targets
  /\ TakeTarget(f)
  /\ IF hasBody(f) THEN visitCallInst(Top.ctx, curr, f) /\ UNCHANGED lockVars
     ELSE visitLockCall(Top.ctx, curr, f) /\ UNCHANGED pathVars
  /\ UNCHANGED traitVars /\ Rest

leave == leaveCallee /\ UNCHANGED passVars /\ Rest

(* _succ2No                                                                *)
succ2No(b, s) == (CHOOSE k \in DOMAIN succ[b] : succ[b][k] = s /\ \A n \in 1..(k - 1) : succ[b][n] # s) - 1
WaysOn(loc) == {succ2No(getParent(loc.inst), s) : s \in ToSet(succ[getParent(loc.inst)])}

Checks == {c.loc : c \in traitChecks}
finish ==
  /\ Over /\ Len(walk) = 1
  /\ \E k \in {[q \in UNION {{c} \X WaysOn(c) : c \in Checks} |-> getCondKillerLocs(q[1], q[2], contexts)]} :
       killers' = k
  /\ walk' = <<>>
  /\ runStart(host[Top.ctx[1][1]])
  /\ UNCHANGED <<code, contexts, visited, passVars, stale>>

run == walk = <<>> /\ RunStep /\ UNCHANGED <<code, passVars, walkVars, killers, stale>>

(* The entry function returns, or the bound on its blocks is reached.      *)
over ==
  /\ walk = <<>>
  /\ \/ At(now).op = "ret" /\ Len(frames) = 1
     \/ succ[Act.b] # <<>> /\ Act.pc = Len(code[Act.b]) /\ Len(Act.trail) = MaxBlocks
  /\ UNCHANGED vars

Next ==
  \/ skipBB \/ visitPHI \/ visitCast \/ visitStore \/ visitOther \/ visitBranch \/ visitSwitch
  \/ visitCall \/ (\E f \in UNION {At(i).fn : i \in {j \in Inst : At(j).op = "call"}} : processCalledFunction(f))
  \/ leave \/ finish \/ run \/ over

Spec == Init /\ [][Next]_vars
----------------------------------------------------------------------------
(* The walk is a stack of contexts that have been met; what the path pass  *)
(* keeps is about variables of the program, and says that a block is dead  *)
(* only with a reason.                                                     *)
TypeOK ==
  /\ \A n \in DOMAIN walk : walk[n].ctx \in contexts
  /\ DOMAIN constraintInformation \subseteq
       (contexts \cup {AnyCtx}) \X (Variables \cup UNION {ToSet(params[f]) : f \in DOMAIN params})
  /\ \A k \in DOMAIN constraintInformation :
       \A b \in DOMAIN constraintInformation[k].cons :
         constraintInformation[k].cons[b] \subseteq Word
  /\ deadBBs \subseteq (contexts \cup {AnyCtx}) \X Block
  /\ \A p \in pairs : p[1] \in locks /\ p[2] \in unlocks

(* Every block that a run comes to has been walked, and the path pass has  *)
(* not ruled it out: no branch, switch, phi or argument was misjudged.     *)
ExecutedIsLive ==
  \A n \in DOMAIN frames :
    <<frames[n].ctx, frames[n].b>> \in visited /\ ~isDeadBB(frames[n].ctx, frames[n].b)

(* What the path pass knows of a variable in a block is so in every run.   *)
ValuesConstrained ==
  \A n \in DOMAIN frames : \A c \in {frames[n].ctx, AnyCtx} : \A v \in DOMAIN frames[n].env :
    <<c, v>> \in DOMAIN constraintInformation
      /\ hasConstraint(constraintInformation[<<c, v>>], frames[n].b) =>
        frames[n].env[v] \in constraintInformation[<<c, v>>].cons[frames[n].b]

(* "all the InstLocs that once executed, making the specified branch       *)
(* infeasible": what decided on the operand of a branch is no killer of    *)
(* the way the branch takes.                                               *)
KillersKill ==
  taken # Nothing =>
    LET q == <<taken.loc, succ2No(getParent(taken.loc.inst), taken.to)>>
    IN q \in DOMAIN killers => taken.by \cap killers[q] = {}

(* Every unlock of a run is paired with the lock that it gives back.       *)
UnlockPaired ==
  gave # Nothing => \E p \in pairs : p[1].loc = gave.lock /\ p[2].loc = gave.unlock
=============================================================================
