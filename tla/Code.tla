-------------------------------- MODULE Code --------------------------------
(***************************************************************************)
(* The instructions of the functions that are analysed: LLVM's, as records *)
(* with their operation in op.                                             *)
(***************************************************************************)
EXTENDS Integers, Reach

CONSTANT params  \* the formal arguments of each function

VARIABLE code    \* the module: the instructions of each block, phis first; Flow.succ is where the last one goes

NoResult == "no result"   \* what a call without one defines

Inst == UNION {{<<b, n>> : n \in DOMAIN code[b]} : b \in DOMAIN code}
At(i) == code[i[1]][i[2]]
Terminator(b) == <<b, Len(code[b])>>

(* getCalleeCtx: the context of a call to this function.                   *)
CalleeCtx(ctx, i, f) == ctx \o <<i, <<entryBB[f], 1>>>>
hasBody(f) == f \in DOMAIN entryBB
=============================================================================
