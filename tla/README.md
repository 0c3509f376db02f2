# UAFX in TLA+

UAFX is a static analyzer for cross-entry use-after-free bugs in C programs
(Linux drivers above all). It is an LLVM pass, `SAAPass`, that runs a
flow- and context-sensitive alias analysis over every entry function of a
module, records where heap objects are freed and used, and then, for every pair
of a free site and a use site of what may be the same object, decides whether
some interleaving of two invocations lets the free happen before the use. The
hard part, and what this project is about, is that decision: which events go
into a partial order, where, and what a solver is finally asked.

Paths below are relative to `src/llvm_analysis/MainAnalysisPasses/`; `SA` is
`SoundyAliasAnalysis`.

## 1. Inventory

The program is sequential but for one worker thread that samples memory use.
"Concurrency" is what it reasons *about*: interleavings of entry functions,
which it represents by its own objects `Thread`, `ThreadSched`, `POConstraint`.

| Component | Code | State it keeps | Operations |
|---|---|---|---|
| Thread of a schedule | `SA/include/ModuleState.h` 43-516 | `seq`: a vector of locations with type bits | `insertLoc`, `testInsertLoc`, `testLocInSeq`, `init`, `removeLoc` |
| Schedule | `ModuleState.h` 517-790, `SA/src/ModuleState.cpp` 1-692 | `trs`, `lockMap`, `poc`, worklists | `initUAFThreads`, `addEFPaths`, `addSuppTrLocs`, `addLockTrLocs`, `addCondTrLocs`, `validateAll` |
| Partial-order solver | `Utils/include/Constraint.h` 299-434 | inequalities over event addresses, disjunctions | `addConstraint`, `addConstraintOr`, `solve` |
| Warning filters | `ModuleState.h` 3198-3660 | scratch threads | `_validateUAF_heu`, `_validateUAF_obj`, `_validateSeqUAF` |
| Detection loop | `SA/src/SoundyAliasAnalysis.cpp` 617-747, `ModuleState.h` 3338-3389 | `fired`/`bounced` caches, warning count | `detectUAFs`, type I and type II loops, `fireAnUAF` |
| Equivalent objects | `SA/include/AliasObject.h` 357-1440 | paths of escapes and fetches, caches per object | `getForwardEqvObjs(Once)`, `getBackwardEqvObjs(Once)` |
| Lockset pass | `SA/src/LocksetAnalysisVisitor.cpp`, `Utils/include/LockInfo.h` | `GlobalState::locks` and their pairs | `visitCallInst`, `getLock4Loc`, `sameLockObjs` |
| Condition killers | `ModuleState.h` 1317-1900 | caches of checks and killers | `getCondKillerLocs` and its cases |
| Control-flow queries | `Utils/src/CFGUtils.cpp` | per-function caches | `reachable`, `dom`, `postDom`, `chainable`, `getCriticalBranches` |
| Traversal | `SA/src/GlobalVisitor.cpp` | call contexts, visit counts | `analyze`, `visit`, `processCalledFunction` |
| Driver | `SoundyAliasAnalysis.cpp` 329-612 | the phases, the list of entry functions | `runOnModule` |
| Memory monitor | `SoundyAliasAnalysis.cpp` 121-209 | samples under a mutex, a worker thread | `start`, `stop`, `memRecHandler`, `printMemStatistics` |
| Points-to store, alias pass | `SA/src/AliasObject.cpp`, `AliasAnalysisVisitor.cpp` | objects, fields, points-to records with paths | updates and fetches |
| Path and trait passes | `PathAnalysisVisitor.cpp`, `TraitAnalysisVisitor.cpp`, `Constraint.h` | dead blocks, constraints, traits | one visit function per instruction |

How they interact: the driver runs the traversal over each entry with the
passes attached; they fill `GlobalState` (free and use sites of objects, locks,
constraints). Detection enumerates objects, asks the equivalent-object search
for aliases across entries with the path of escapes and fetches that connects
them, and calls `fireAnUAF` for every pair of sites. That runs the filters and
`validateUAF`, which makes one `ThreadSched`, fills it (asking the lockset and
killer tables and the control-flow queries all along) and hands it to the
solver. There are no callbacks between components and no messages; they share
`GlobalState`.

What is hard here: a schedule is edited in the middle, with roll-backs, while a
constraint store holds raw addresses of its nodes; worklists are ordered by
address, so each run takes another order; searches are cut off by limits and
cached; caches are keyed on less than the answer depends on. Which
properties make each component correct is said with its module in section 3;
the hazards at their lines are listed in `PROJECT.json`.

## 2. Plan

In this order, the most important behaviour first:

1. **Thread**: one thread under any sequence of calls. *Done: model, run, four
   theorems.*
2. **ThreadSched** over the same operators, with the solver, and **Schedule**,
   the abstract promise it implements. *Done: model, runs, all safety
   properties and the refinement proved.*
3. **Detection**: the loops over free sites, equivalent objects and use sites,
   and the caches of `fireAnUAF`. *Done: model, run, six theorems.*
4. **EqvSearch**: equivalent objects, their caches and limits. *Done: model,
   runs; `PathsLead` and `CachesExact` proved.*
5. **MemoryMonitor**: the real threads. *Done: model, runs, four theorems.*
6. **BlockOrder** and **Traversal**: block order, loop passes, call depth.
   *Done: models, runs, all safety properties proved.*
7. **Flow** and **Reach**: reachability, dominance and critical branches of
   locations with call contexts, against the ways through the program with its
   calls expanded (**Ways**). *Done: models, run, five theorems.*
8. **Program**, **Code**, **Walk**: instructions of a module and the walk over
   them that all passes share. *Done: used by 9 and 10.*
9. **PathPass**, **TraitPass**, **Killers**, **LocksetPass**, composed by
   **Passes** and held against **Execution**. *Done: models, runs; not proved.*
10. **Objects**, **PointsTo**, **Filters**, composed by **Alias** and held
    against **HeapRun**. *Done: models, run; not proved.*
11. Embedded objects, arrays and casts between types in PointsTo; the selection
    of entry and init functions; the callback store with `addSyncTrLocs`.

Proofs that would come next: that LocksetPass only pairs what `Belongs`, with the locks known
when the unlock is visited. That resets in PointsTo leave no record of another entry
function active, which was planned, is not so: see section 3.

## 3. The modules

### ThreadOps, Thread, ThreadOpsProofs, ThreadProofs

`ThreadOps` has the methods of class `Thread` as pure operators from the old
vector to `[ec, seq]`, the return code and the new vector. `Thread` wraps them in a
state machine: `seq` is `Thread::seq`, `call` the last call and what it
returned, `fill` the progress of `Thread::init`. Every method with every
argument is an action. What the methods ask of the control-flow graph is given
by constants: `Reaches(a, b, blk)` is `b->reachable(a, &blk)`, `Dom` and
`PostDom` the queries of `InstLoc`. Positions count from 1; `stop = 0` and
`start = 0` are null pointers.

`NoDup`, `Executable`: a thread never has a location twice and stays an
execution, judged by `Follows` (some execution comes from the one location to
the other), not by the answers of `reachable` that the methods go by: these are
about pairs, and from a to b and from b to c need not give from a to c.
`RejectionJustified`: when the first-fit scan refuses a location, no slot of the
range fits, that is, none is reachable from all nodes before it and leads to all
nodes from there on.

Two notes on the code. `testLocInSeq` "tests" by inserting, with no type bit, and so
leaves the location in the thread; the model does too. `fork` is never called,
`altScheds` stays empty, both are left out.

### ThreadSched, Schedule, SchedProofs

`ThreadSched` is the life of one schedule inside `validateUAF`. `pc` names
the function that runs: `initFree`, `initUse` (`initUAFThreads`), `ef`
(`addEFPaths`/`addOneEFPath`, one action per path node, from the path's end),
`supp` (`addSuppTrLocs`), `lock` and `killer` (its inner loops `addLockTrLocs`
and `addCondTrLocs`), `exclude` (the clusters of locks), `order`
(`addSeqConstraint`), `solve`. One action is one iteration of the innermost
loop with every insertion, roll-back, constraint and worklist update of that
iteration. An event is a pair of thread index and location, the identity of
the `InstLocTr` whose address the code hands to z3. Sets ordered by address
are iterated in any order; the order of lock records is drawn once per warning
(`warn.rank`) because the code uses it twice. What other components
compute (locks held, critical branches with their killers, escape/fetch paths)
comes from constants.

`Schedule` is the abstract specification: events come and go, constraints only
grow and are only about events that are there, and the verdict is decided once,
by whether every set of events has a first one for some choice in every
disjunction. `BuildsSchedule` is the refinement (events are the live nodes). It
would be broken by a roll-back that removes a node some constraint mentions, in
C++ a dangling address that the solver or a worklist still holds.

Invariants: `ThreadsExecutable` as above; `InsertedAround`, of three parts: a
recorded pair of a lock and an unlock is a region around an event
(`RegionsEnclose`), a check stands before what it guards and before its killer
in the order (`ChecksGuard`), and unless it is cut off the worklist leaves no
lock out that would fit (`Saturated`); `MutualExclusion`: a feasible verdict
has an interleaving in which no two regions on the same lock object overlap.
`RollbackExact`, of two parts: a step that gives up a lock pair or a killer leaves
every thread as it was before the step; the step that gives up a check, since none
of its killers has stayed (`endCheck`, `ModuleState.cpp:614-622`), leaves every
thread as it was before the check was tried, several steps ago. The threads at
that time are in `job.before`, a history field that only the property reads.
`Answers`: `validateUAF` ends.

Behaviours met while modelling, which the model keeps: a location occurs once
per thread, so in a loop a use may end up outside its lock region (the unlock's search
range is then empty); `initUAFThreads` rejects a free and a use that reach each
other, as its own TODO says; `_noKill` compares the type with `TY_FREE`
exactly, so a free with another type bit is not exempted; the verdict may
depend on address order.

### Detection, DetectionProofs

The loops of `detectUAFs`, `_detectUAFS_ty1` and `_detectUAFS_ty2`, flattened:
`pc` says which loop runs, `freed`, `bos`, `uos` and `pairs` are what its
iterators still have to visit, `fo`, `ro`, `uo` the loop variables. One action
is one iteration. `fireAnUAF` looks a pair of sites up in `fired` and `bounced`
and else asks `validateUAF`, a constant here (it is ThreadSched) that maps a
candidate to a verdict. What the equivalent-object search returns is a constant too.

`WarnedOnce`: a pair of sites is printed once, however many objects lead to it.
`OneAnswer`: the caches never hold both answers, pthread entries excepted.
`AllAnswered`: at the end every candidate, stated without the loops, has an
answer, the ones that type II skips included. `FiredJustified`: a warning is
about objects that lead to each other and that the solver accepted.
`PThreadComplete`: in pthread entries, where sites stand for several threads, an
early rejection hides no feasible candidate. (Outside of them it may: the
cache is keyed by sites only. That is what the code means to do, so no
property says otherwise.) `inPTEntry` asks `GlobalState::callbacks`, which only
`CallbackAnalysisVisitor` fills; this build does not add that pass, so it has no
such entries. The model takes them as a constant, as `fireAnUAF` does.

### EqvPath, EqvSearch, EqvProofs

`EqvPath` has the paths of escapes and fetches and how they are joined,
`EqvSearch` the search: `stack` is the C++ stack of pending `Once` calls,
`query` the layered search on top of it, `once` and `all` the caches of every
object. One action is one iteration of the innermost loop, a call or a return.
`Links` are the edges by which an object is found through one that points to
it, `Around` is the path that the code then makes (`addf` and `adde`).

`PathsLead`: every path found is a way in which the one object escapes and is
loaded as the other, node for node, which the replay in ThreadSched takes
for granted. `CachesExact`: what is cached for one step is what a search from
nothing would find (`AsFresh`, of the objects whose own search meets no circle and no type
twice: `Settled`), and what is cached for all steps is what a
breadth-first closure of these finds (`AllIsLayers`). That others do not cut such a search
short either is `NothingCutShort`, which TLC evaluates for the objects of the run: on no
way over a settled object does a type repeat, and calls are not counted.
`Converse`: forward and backward, written twice in the code, agree; `Convertible` is what that
takes.
`Answered`: every query ends.

Two behaviours met on the way are in the model and in no property. The forward
search takes only edges to the base of an object (`AliasObject.h` 1058), the
backward search every escape edge (1373), so with a pointer into the middle of an object
one direction says equivalent and the other does not; the objects of the
`eqv_search` run have no such pointer. And when the limit on
chains is exceeded, `validateEqvStack` returns -9 so that "the caller (at every
layer) should return immediately" (`AliasObject.h` 929), but
`getForwardEqvObjsOnce` returns its outer `err`, which is 0 (see the finding
`eqv_cache` for why), and the layer above goes on.

### MemoryMonitor, MonitorProofs

The class as an interface: the main thread calls any method at any time, the
worker samples. One action is what happens between two accesses to what
the threads share; the atomics are read and written in actions of their
own, the vector only under `vec_mutex`, as in the code. Of the log only the line being
written is kept, as the set of threads that wrote on it.

`WindowWhole`: while statistics are computed the window is not empty and is what the vector
holds. `PauseRespected`: after `pause()` at most one more sample is recorded.
`NothingMissed`: full and incremental prints together leave no sample out.
`StopReturns`: `stop()` returns. `LinesWhole`, that a line of the log is by one
thread, is stated in the module and not checked by a run, because it does not
hold: the worker logs a sample piece by piece and without a lock, also in the
middle of the line of a warning (`SoundyAliasAnalysis.cpp:204`), although
`ext_uaf_warns.py:44` expects "One line per warning."; two samples show it.

### BlockOrder

`BBTraversalHelper` on one flow graph. `Iterate` lists the components as LLVM's
`scc_iterator` does (external: any order LLVM may choose), `takeSCC` is the body
of the loop in `getSCCTraversalOrder` up to `runToposort`, and `visitSucc` and
`finishBB` are the call and the return of `recursiveDFSToposort`: `grey` is the stack of its
calls, which are the GREY blocks, `sorted` is `SortedBBs` read from its end, and what
is in neither is WHITE. `order` is the entry of `oCache`. `count` asks
`getNumTimesToAnalyze` for each component; the lengths are a recursive function over the
blocks in the order of the loop, as the map `useDefLength` is filled. Which edges are back edges
is not in the model of the code, which only looks at colours; the properties define them by dominance.
`OrderLeads`: every block is listed once and after the blocks that lead to it
(`Topological`), and in a loop all edges but those back to a dominator go forward, "as if the loop is
only executed once" (`LoopOnce`). `LongestChain`: the number of
passes is the length of the longest chain of uses between blocks of the loop.

### Flow, Reach, Ways, WaysProofs

The queries of `CFGUtils.cpp` as operators: `Flow` has those inside of a
function, `Reach` the methods of `InstLoc`. An instruction is a block and a
number, a calling context the sequence of `CallContext::callSites`. Searches
are closures, since their order does not matter and no caller limits them; the
two dominator trees are LLVM's (external). `getContext` and `getLoc` intern,
here equal values are the same. `Passable` and `bypassCall` keep the
shortcuts for a single blocking location: these decide differently from the
search, so they are part of the model. The code groups blocking locations by callee and
recurses into each group; here `InEntered` is the same as a function of the contexts
that blocking locations are entered through.

`Ways` says what an execution may do, from LLVM's language reference and not from the
queries: a call is followed by the first instruction of its callee, a return by
what follows the call (`Follows`). A question (`Ask`) is two locations, or one and
the start, and a set of blocking locations. The queries change nothing, so the
machine has no more steps than this.

`BranchesDecide`: the critical branches of a block are the edges whose removal
cuts it off from the entry, at blocks with more than one successor. For
locations in contexts the reference is a walk over instructions that enters and
leaves calls, within the activation of the function where the two contexts
part, since `reachable` does not consider that an outer loop comes
round again. `ReachMeansPath`, `PathMeansReach`: `reachable` says yes exactly
if there is such a walk that no blocking location is on. `DomSound`: what `dom`,
`postDom` and `getCriticalBranches` claim holds of every walk.

Where the code answers otherwise, the run stays out of the way and says so here:
- A call on the way to `this` that is blocked as a whole is taken for blocked
  even before it is made (397: `isReachableInBB(bi,B)` holds for `bi == B`), so
  nothing in its callee is reachable from before the call, not even what is
  before the blocking location. `PathMeansReach` is for the other calls.
- `getDomsForRet` leaves the return block itself out, so one blocking location
  in the only return block of a callee "is not in the critical path" (473) and
  the call is passed.
- The first instruction of a callee does not block where the walk starts from
  it (`bi != A`, 349). `Judged` leaves this and the case before out of `ReachMeansPath`, for
  the callees on the way to a blocking location; in the entry function both are in.
- `bypassCall` looks at the callees in which there are blocking locations
  only. The calls of the run are direct.
- `postDom` and `dom` take the two cases in which contexts part inside of both,
  two call sites of one function and two callees of one call site, for one
  another (1213, 1306), against NOTE 1 at 1156 and `reachable` at 1462; and the
  loop at 1230 compares call sites with the entries of their callees. They
  miss that a location is inevitable whenever it is not in the same function or
  one call below it. `DomComplete` in MCFlow states what is missed; no run
  checks it, TLC finds it violated at once. That they say yes too often is ruled
  out: `DomSound` is proved.
- `reachable` is not transitive over calls in loops: from what a call executes to
  the loop's head, from there to the call, but not from the call to itself. Threads
  are therefore judged by `Follows`, of which only `ExecutionsCompose` is
  assumed; the flow graphs of `thread` and `sched` have a call in a loop, so that
  `Reaches` is not transitive there.

### Traversal, TraversalProofs

`GlobalVisitor` with its stack of visitors, one per function and context.
`enter` starts an entry function; `visitBlock`, `visitBranch`, `return` are the
loops of `analyze`; `visitCallInst`, `skipTarget`, `processCalledFunction` the
steps of a call. A context is `CallContext::callSites`: functions and call sites in turn.
`visitBranch` stands for `PathAnalysisVisitor`, which may declare blocks dead
in one context or in all.

`OncePerContext`: no context is analysed twice.
`NothingForgotten`: at the end every call of every live block was seen in every
context analysed, but for what the limits leave out. `Ends`: the walk ends.
`ChainsSimple`, that no function is entered while it is on the chain of its callers
and no chain is longer than its limit, is proved and not checked again. A call is one
instruction, of the blocks of one function (`CallsIn`).

### Program, Code, Walk

The passes are modelled over programs: `Program` has words, constants,
comparisons and the stripping of casts (words wrap at `WordBits`), `Code` the instructions of a block as
records, `Walk` the walk of `GlobalVisitor` over them, instruction by
instruction: `walk` is the stack of visitors, `contexts` those that have been
entered, `visited` the blocks seen in each. `enterCall`, `TakeTarget` and
`leaveCallee` are the steps of a call, which the passes' own handlers are
conjoined with. Where `Traversal` asks what the walk may leave out, `Walk` gives the
passes the order in which they see the program. The order of blocks comes from
a constant. MCTraversal assumes of its one, and TLC checks, what `OrderLeads` promises of `BlockOrder`.

### PathPass, TraitPass, LocksetPass, Killers, Passes, Execution

`PathPass` is `PathAnalysisVisitor` with `Constraint`: of a variable, in a
context or in none (`AnyCtx`), the values it may have in each block, and the
blocks that are dead since it may have none. A z3 expression is the set of words
that satisfy it. `TraitPass` is `TraitAnalysisVisitor` with `TraitSet` and
`TraitCheck`: what stores set of a word (a constant, some bits) and what
branches check (a constant, a masked range, a switch). `LocksetPass` has the
locks, the unlocks and their pairs; `Killers` has `getCondKillerLocs` and its three
cases: checks of memory, of what a call returns, of a phi, with the kill
sequences of a callee's paths. `Passes` composes the three on one walk, in the order in
which `addAllVisitorAnalysis` adds them, and asks for the killers of every way out of every check at
the end (`finish`). Then the entry function is run: `Execution` interprets the
program on every argument, every content of memory and every answer of a
function without a body. It knows nothing of the passes, and is what they are held against.

`ExecutedIsLive`: no block is run that the passes have declared dead.
`ValuesConstrained`: no variable has a value that its constraint excludes in the
block and context where it is. `KillersKill`: when a branch is taken one way,
what its operand was decided by (the store it was loaded from, the returns and branches it came
by) is no killer of that way. `UnlockPaired`: every unlock that gives a lock back is paired
with the lock call that took it. `TraitExact`: for every store and every check of a
word, a store that is said to kill a branch excludes it for every content of
memory before, and the expression the solver is given has exactly the right values.

The programs of MCPasses: `narrow` and `choose` (branches and switches on an
argument, phis), `errors` (checks of results, through one callee and another,
directly and through a pointer), `flags` (bits of memory through two pointers to the same
and one that may be elsewhere), `locked` (locks given back in branches, in a
callee, in the order of taking, in a second round), `loop` and `phis`.

Where the code is wrong otherwise, the programs stay out of the way:
- The ways out of a switch have two numberings: the finding `path_kill`.
- Unsigned predicates are taken for the signed ones of the same name
  (`Trait.cpp` 41-60), and a constant on the left turns the predicate into its
  inverse where it should be swapped (`PathAnalysisVisitor.cpp` 344).
- Constants are cut to `int`, and `trunc` passes a constraint on unchanged (634,
  693). Words of the model have the width of the operand.
- A case of a switch that shares the default's block loses the values of the
  default: the block may be found dead. Constraints of a switch are not made
  at all if the variable has one already (30).
- `merge` is done once: constraints that are added for all contexts later are
  missing in the constraint of a context, although `ModuleState.h:2402` says that these
  "already include all the constraints in the ctx-free one".
- A mask of the sign bit is compared as a wide unsigned number (`Trait.cpp` 243).
- A lock that is visited after its unlock is not paired, nor one whose object set
  overlaps with another's that was paired first.
- `_escapeKseq` compares a path with a longer sequence by `std::equal`, which
  reads past the end of the path (`ModuleState.h:1687`): `stale` is what is read,
  chosen once, and the run has both answers.

### Objects, PointsTo, ScratchThread, Filters, HeapRun, Alias

`PointsTo` is the alias pass: `mem` has the objects and the points-to records of
their fields (`AliasObject`), `ptos` the records of variables per context,
`freeSites` and `accessSites` what was freed and used where, with the record it was
reached by. A record has its history of locations and the tags of its loads. A
field that holds nothing is given a placeholder when it is loaded
(`createFieldPointee`); a store deactivates the records that it post-dominates and
the next entry function reactivates what was there at its start (`resetPtos`).
Where the code takes the first element of a set ordered by address, the model takes any; for the one
place where the order of all elements matters, `presetsFirst` is one of two.

`Filters` is the part of `validateUAF` before the schedule, for one pair of a
free and a use: heuristics (stack objects, reference counts, linked lists, unrelated
indirect calls), data flow within one invocation (`seqRejects`) and escape analysis between two
(`conRejects`), over scratch threads (`ScratchThread`, an instance of
`ThreadOps` in which the queries are those of `Reach`). `mayReject` says that it may drop the
pair, for some order of addresses.

`Alias` analyses one or two entry functions (`plan`), one after the other on one
`mem`, and then runs one or two, the same one twice also, as threads that interleave after every
instruction. `HeapRun` is the reference: memory is any at the start,
pointers in it are found out when they are loaded, a null pointer stops the
thread, and the first access to something freed is kept as `uaf`. `validateUAF` then
asks the filters about every pair of abstract objects that stand for what was freed and used.

`PointersCovered`: whatever a variable points to in a run, one of its records is
about it. `SeqUAFKept`: a use after free that happens in one invocation is not dropped.
`ConUAFKept`: one that happens between two invocations is not dropped either, with one
exception that the property states (`OnlySequential`): if the free also reaches the
use in the flow graph, `_validateUAF_obj` takes the pair for one of a single
invocation (`is_f2u`, `ModuleState.h:3539`) and tests the data flow of one, after
which a race of two is dropped; the heuristics alone must not drop it. Its comment,
"if F reaches U and both access the same object, we will have no EF paths" (3638), does not
speak of the second invocation. The function `renew` makes this race: it frees what the device
has, allocates and stores another one and uses what it then loads. Two invocations run, one
frees what the other has just stored and is about to use, and the warning is dropped, since in
one invocation the store is between the free and the use.

Each of the 24 functions of MCAlias is there for one kind of record: fields of a shared
device, containers of containers, globals and presets, stack slots passed
down, pointers replaced on one way or on all, two pointers of which one is stored
to, allocation in a callee that may fail, calls through pointers, loops.

Where the code drops a real bug or misses a pointer, the programs stay out of the way:
- Activating or deactivating a record also switches the first record of the
  same field and target (`pointsFrom` has one of them only), so after `g->f = p`
  in a branch and `g->f = p; g->f = q` in the other, a load misses p; and a strong store that is
  visited a third time leaves nothing active. After an entry function that stores the target of a
  preset once more, `resetPtos` may leave the next one without the preset: it goes through the records in the order of
  their addresses, and the stored record, switched off last, takes the preset along
  (`presetsFirst`). And a store of a target that an earlier entry function has stored already switches
  the earlier record on again, for the present one.
- `pointsFrom` keeps the location of the first record only: an escape by a
  later store of the same field is missed by `_hasGlobalEscape`.
- `inferSrcDstMap` loses sources or destinations when pointees of several bases
  were merged; `mergePointsTo` keeps one history per object, so
  `_validateSeqUAF` may test the wrong one.
- The heuristics for reference counts and linked lists drop every warning about
  objects of the types, or frees by the functions, that they are given, by design.
  They are in `Filters`; the sets are empty in the run (`ListTypes`, `PutFunctions`),
  for with them no use after free of such an object would be kept.
- `_inDiffSTInstances` is true also if both functions are in one struct.
- Loops are walked twice and calls in them are seen in the last round, so what is
  stored behind a call is missed by a load before it.
- An argument that is passed on untouched gets one placeholder in the caller
  and another in the callee.
- The last heuristic drops `while (..) { p = malloc(); if (c) break; free(p); use(p); }`.
- A function that returns an invalid pointer after a free is trusted to have a
  caller that checks it.
- A field of a heap object that another invocation overwrites through a
  published container is not followed, as a comment admits.

## 4. Runs

| Run | Shows | Bounds |
|---|---|---|
| `thread` | all properties of Thread | 4 locations, a branch, a loop around a call; one type, traces up to 3 |
| `sched` | all properties of ThreadSched, the refinement and that it ends | 3 entry functions, 22 locations, 4 locks, 9 warnings, 1 fetch per path, `MaxLocs = 8` |
| `sched_clusters` | a finding | 1 warning, locks whose object sets overlap pairwise |
| `detection` | all properties of Detection | 3 objects, 2 free and 3 use sites, one in a pthread |
| `eqv_search` | all properties of EqvSearch | 15 objects, 9 queries in any order |
| `eqv_cache` | a finding | 15 objects with circles and a chain that repeats a type |
| `monitor` | all properties of MemoryMonitor but `LinesWhole` | 4 samples |
| `flow` | all properties of BlockOrder, Flow and Reach but `DomComplete` | all flow graphs of 4 blocks; a program of 3 functions, 13 blocks and 6 contexts, all pairs of 13 locations with up to 2 of 30 blocking ones |
| `traversal` | all properties of Traversal | 4 functions, 11 calls, depth 2, 2 targets of a pointer, 2 passes |
| `path` | all properties of Passes | 8 entry functions, 4 callees, 72 blocks, words of 3 bits, runs of up to 9 blocks; every store against every check |
| `path_kill` | a finding | a switch on a field |
| `points_to` | all properties of Alias | 20 entry functions, 4 callees; 68 plans of one or two entry functions analysed, one or two run in every interleaving, up to 8 blocks each |

Why they are enough. For a thread, four locations hold each relation two
locations can have (ordered, exclusive, mutually reachable, and following one another
through a location between them only) in every position
of the thread, and all threads over them are reached; more types only multiply
states, as types are never compared with each other in `insertLoc`.

For a schedule, the three entry functions were written so
that every return of every function is taken: locks that nest, overlap and do not
pair, checks with no killer, several killers, killers that fail one by one, a
killer that is also the use, fetches whose escape goes to the same thread, to
another, to a new one and to none, a loop. Most warnings need fewer than
`MaxIterations = 3` rounds and `MaxLocs = 8` locations, so that part of `InsertedAround` speaks of
complete worklists; one is cut off.

For detection, three objects are the smallest case where type I and type II
reach the same sites by different objects, with verdicts that differ. For the
search, the objects go through both directions, hosts and embedded objects,
chains of two layers, three objects of different types that point to each
other in a circle, where what comes up again is the first of several pending calls and not the
last, a list node outside of it, and limits that are met. For the
monitor, an incremental print after another one needs two samples between them
at most; four leave room for a pause and a stop. Four blocks hold a loop in a
loop, a loop with two entries, and a branch inside of a loop. The program of
`flow` has calls in a loop, in a branch and on every path, two deep, with one, two and
no callees in common; two blocking locations are what it takes to close both
ways of a branch. For the traversal,
the build has `MAX_LOOP_CNT = 1`, `MAX_CALLSITE_DEPTH = 7`, `MAX_FUNC_PTR = 3`; the run has 2, 2 and 2, so that
loops are passed more than once and each limit is met: direct and indirect
recursion, a call in a loop, a pointer with too many targets, dead blocks.

The programs of `path` and `points_to` are written so that every kind of
record is made and used: section 3 says what each is for. Three bits hold a sign, a
mask of one, two and all bits, and every order of two constants and a
variable. The programs leave out on purpose what is listed there as wrong
in the code, since one such case would hide all others behind one violation;
so a property that holds says that there is no further way for it to fail in
these programs.

Deadlock is checked everywhere; the only stutters are the ends
of what runs to an end (`Terminated`, `Finished`).

Fairness: `sched`, `eqv_search` and `traversal` assume weak fairness of `Next`.
These are sequential code with nothing to wait for, so a step that
can be taken is taken. `monitor` assumes that the operating system runs the
worker, and that a method of the main thread, once called, goes on; nobody is obliged to call
one.

### Findings

`sched_clusters`: `addSuppTrLocs` clusters locks greedily in address order and
never merges clusters, but "same lock objects" is overlap of sets, which is not
transitive. With L2 sharing an object with L3 and another with L1, in the order L3, L1,
L2, the regions of L1 and L2 get no exclusion, against the comment at
`ModuleState.cpp:373`, and a warning is kept that mutual exclusion rules out. The
`sched` run has a transitive relation and satisfies the property.

`eqv_cache`: `getForwardEqvObjsOnce` keeps the error of an inner call in a
variable that shadows its own (`AliasObject.h:1079`). A search that was cut short
deeper down is therefore cached as complete, and what an object is equivalent to
depends on which object was asked first.

`path_kill`: the ways out of a switch have two numberings. `_succ2No`
(`CFGUtils.cpp:992`) counts LLVM's successors, of which the default is the
first; `TraitSet::kill` (`Trait.cpp:224`) and `getZ3Expr4Branch` (109) count the
cases and put the default last. A store of the value of case 1 is therefore
said to kill the way to case 1, against `ModuleState.h:1878`, and a warning whose
free or use stands there is thrown away. Without a switch on memory the
property holds (`path`).

## 5. Proofs

`ThreadProofs` proves `TypeOK`, `NoDup`, `Executable` and `RejectionJustified`
of Thread for every set of locations, every flow graph and every sequence of
calls. Assumptions: `ReachIsBoolean`; `ReachIsSound`, that a location can follow
where `reachable` says so, which is `ReachMeansPath` of Reach; `ExecutionsCompose`, that what can follow
what follows can follow, which is so because a location is an instruction in its full
calling context, and an execution goes on from there whatever it did before;
`TraceAssumption`, that a trace is a sequence of locations. Nothing is assumed of `Dom` and
`PostDom`, and not that `reachable` is transitive.

The inductive invariant adds to the type invariant that the thread has distinct
locations and is ordered by `Follows`. Neither half of the second is inductive for the
answers of `reachable`: the insertion scan looks only at nodes
from `start_loc` on, so a node before it comes before the new one only by
way of `start_loc`, which needs the order of what is already
there; and the nodes behind the slot come after it by way of the node at the
slot. Both ways are compositions of executions and need not be answers of
`reachable`. `ThreadOpsProofs` states this for the operators (`InsertLocGood`,
`RemoveLocGood` and one lemma per case of the scan), and what an insertion leaves
where it was; both the thread and the schedule cite it. `RejectionJustified`
is about answers again (`FirstFitComplete`): the scan refuses at a node that neither
leads to the new location nor is reached from it, so that no slot before or behind it fits; or
because the node at `start_loc` does not lead to the new location; or at the end of the range, whose
nodes are then all unreached from it.

`SchedProofs` has the inductive invariant of ThreadSched and what
follows from it, for every program, every warning and every order of iteration:
`TypeOK`, `ThreadsExecutable`, `InsertedAround`, `RollbackExact`, the refinement
`BuildsSchedule`, and `MutualExclusion`. `SchedAssumption` says what the other
components hand over: two paths of mirrored escapes and fetches, lock records that
are all in the order drawn, checks that dominate what they are critical for. The
invariant `IInv` has eight parts. They speak of `Base`, the threads without the
check that is on trial: what a roll-back would leave, and the threads themselves
whenever nothing is on trial. `SoundInv`: both are executions, and the threads have
grown from `Base`. `HeldInv`: every event that is remembered anywhere, in a
constraint, a disjunction, a lock record, a worklist or a job, is in `Base`, so that
no roll-back takes away a node the solver has heard of. `PhaseInv` and `CheckInv`: in
an inner loop, what the outer loop was at, and that the check at hand stands before
the event it guards and has a type of its own to lose; and that while no killer of it
has stayed, `Base` is what the threads were before the check, so that the roll-back of
`endCheck` restores just that. `RegionInv`, `GuardInv` and
`SatInv` carry the three parts of `InsertedAround` over later insertions, which only
move nodes apart. That no room was left for a lock (`SatInv`, `NoRoom`) stays true because
threads only grow: what does not fit into a thread does not fit into a longer one.

`MutualExclusion` is proved under `LockObjectsAgree`: `sameLockObjs` is symmetric and
transitive. The code does not ensure the second, and without it the property is
false: that is the finding `sched_clusters`. Given it, the greedy clusters are the
equivalence classes (`ClustersKeep`); the clusters are a recursive function of the
lock list, whose existence is shown by a smallest counterexample, no induction
theorem being usable here. Every two regions of a cluster then have their disjunction in the
constraints, and one of its two sides in what the verdict stands on.

`EqvProofs` proves `PathsLead` for every points-to graph, every set of queries and
all limits. The invariant is that the results of every pending call, of the query and
in both caches hold only paths that are ways and that are made of blocks. A way
(`Way`) goes on, node for node, where the node before ended, up to the hosts of
objects. A block is `n` escapes followed by `n` fetches through the same fields in
reverse order. Through a pointer a path gets one node more at each end and stays one block
(`WrapBlock`), layers put blocks in a row (`ConnectBlocks`); pairing by counting,
as `getPairedIndex` does, finds the partner in a row of blocks
(`BlocksPaired`), though it would not in an arbitrary path. Neither half is
inductive without the pending calls: a caller uses the answer as one for the object that it waits for,
so the frame above must be of that object (`StackOK`). `EqvAssumption` says that
the object at an embedded object's place in its own host is that object or none, since
`setEmbObj` records both sides (`AliasObject.h` 2287-2310), and that there are finitely many objects.

It also proves `CachesExact`, whatever was searched before and in whatever order, under
`NothingCutShort`. One half of this needs no hypothesis (`LayersKept`: `AllIsLayers`). The other half does,
and the finding `eqv_cache` is what happens without it: a call for a settled object can still be cut short
by the calls below it on the stack, whose types it repeats. `TypesApart` says that
this is not so, and `MAX_EQV_OBJ_ENUM_CNT = 0`, the code's default (`AliasObject.cpp:13`), that
calls are not given up for their number.
Nothing is asked of the other objects: they may point to each other in circles and be cut short at will.

The argument has three layers. First, of the stack alone (`Pending`, for all limits and objects): the
pending calls form a chain, each for an object that the calls before it have to go through,
all distinct and none cached (`Chain`). So the way to a settled object on top of the stack is one that
`TypesApart` speaks of, and `validateEqvStack` answers 0 (`NotCutShort`). Second, what a pending call of a settled object holds:
exactly the paths through the pointers and the host that it has done (`Exact`, `Part`), with the
error 0, since what it asks is settled as well and what it gets is theirs. It
therefore returns what the recursive `Fresh` says. That `Fresh` exists is shown by the largest
set closed under `Sources` on which it does, the objects being finite (`FreshDomain`). Third, the layers of `getForwardEqvObjs`
(`LInv`): each object that a layer has to search is still to come, is being searched, or has
its cached answer absorbed (`InLayer`, `Done`), and every path found goes through one object of the
layers before (`Traced`). Earlier answers remain whole layers because caches are only ever filled
(`Grows`, `LayersStay`).

From the first half follows that the two directions agree (`SettledConverse` for two objects that both can be
searched to the end, `SearchesConverse` for all, which is `Converse`). The two searches are not mirror
images: forward starts at the escape of `x`, backward at the fetch of `y`. What each goes
through is the same pair of records, though (`Turn`), or the same pair of hosts (`Inside`), if
`Convertible` holds: no pointer leads into the middle of an object, which the directions treat
differently (section 3), `SameTypes` is symmetric, and what is embedded in a host has the place there
that its counterpart has. TLC evaluates it for the run's objects. Since the answers of both
are `Fresh`, a first object, in the order of `Sources`, of which an answer is not found
from the other end would be reached through another one (`ForwardIsBackward`, `BackwardIsForward`).

`DetectionProofs` proves all properties of Detection for all finite and
infinite sets of objects and sites, whatever the search and the solver answer
(`DetectionAssumption`: sites and equivalents are of the right type, and an object is equivalent to
itself). The caches' invariants follow from one lemma about how `fireAnUAF`
changes them. `FiredJustified` needs that the pairs at hand are those of the
candidate that the loop variables describe. `AllAnswered` is the hard one: a candidate is
still to come (`Left`), is at hand (`Now`) or has its answer, and each loop
hands candidates from one to the next; `Covered` shows that what type II skips
type I has examined.

`MonitorProofs` proves `WindowWhole`, `PauseRespected` and `NothingMissed` for
every number of samples. The invariant adds `Contiguous` (what was printed is a prefix of
the samples that reaches `memUsageIdx`), `OneLate` (a late sample means
that the worker has passed the test of `paused` since) and `Room`.

`TraversalProofs` proves `TypeOK`, `ChainsSimple` and `OncePerContext` for every
program and all limits (`TraversalAssumption`). That a callee's context is new
needs an invariant about all contexts and not only those on the stack: they are closed
under dropping the last call, those of a chain below a waiting visitor
come from call sites it has visited, and not from targets it still has to call
(`Shape`, `Fresh`, `Closed`). `NothingForgotten` needs another one, `Kept`: a
context that was analysed is done for good or has a visitor, and a visitor has had
the calls of every block behind it that is not dead, in its last pass of a component those
of the component too (`Walked`), has in its open block just the rest left
(`InBlock`), and of what it has had only the targets of the present call are not seen yet
(`AllSeen`). The hard case is a target that is skipped because its call site is on
the context already: that does not happen, because a call is of one function only
and that function would then be on the chain twice (`SkippedSeen`).

`WaysProofs` proves what the queries answer for every program: `BranchesDecide`,
`DomSound`, `PathMeansReach` and `ReachMeansPath`, for all flow graphs, all calls,
any depth of contexts and all sets of blocking locations. The assumptions are
LLVM's rules (the entry block has no predecessor, a call is not the last instruction of
its block), that every block is reached and can return (an endless loop
or a call of `panic` is on no way to a return, and the dominator trees then say what is vacuous), that
no function is in a context twice, which Traversal ensures (`ChainsSimple`), and that a call
is of one function. The contexts are all those that calls lead to, and finite in number. The run's
program satisfies all of this.

Executions are sets here and not paths. What is reached from W (`Reached`) is a recursive function of
sets, about which nothing can be proved by induction; a largest counterexample among the finitely
many sets shows that it exists, and that it gives the least set that contains W and is
closed under what comes next (`ReachedIs`). To show that something is not reached,
a proof names a closed set without it. To show that it is reached, a proof takes the set
of what is reached and follows a way through the blocks of one function (`BlockWay`).

A location with a context of `n` calls is in `n + 1` activations, one per level, in each
at a call but for the last. The queries ask one question inside of a function per
level. So the invariant of an execution is a statement of each level. For `DomSound`: before
`this`, an execution is where, at some level, it can be without having passed what the
answer is about (`Arrives`, `Comes`), in the same function or in a callee of a call that
does not lead to it (`HereStays`, `CallStays`); for `postDom` the levels of `this` are
inevitable one after the other. For `PathMeansReach`: an execution from `other`
has returned from the upper levels of `other`, has gone on at one level and has entered the levels of
its present location above (`OnWay`). For each step of `Follows` the invariant is
carried over: to the next instruction, into a call, out of one (`OnWayStays`, `OnWayReturns`). For
`ReachMeansPath` the ways at each level have to be put together, and the calls on them passed without a blocking
location: a call that does not block as a whole has a way from the entry of its callee to a return
that neither blocking locations nor calls that block are on (`PassableWay`), so its
calls have such ways in turn. That this ends is a statement about the depth of calls: of the
contexts that cannot be passed although `bypassCall` says so a deepest one would have a
callee that is deeper still (`Deepest`, `CallPassed`, `Passes`). `DownWay` and `UpWay` then lead from `other` out of its activations and into those of `this`.

`ReachMeansPath` is about questions that are `Judged`, `PathMeansReach` about those
with `CallsOpen`. Section 3 says at what lines the code answers otherwise without these;
the run has questions of all four kinds. `BranchesDecide` follows from `TakenAreCritical`, which is a statement about graphs:
if two of the successors of a block lead to a location without a way back, neither decides, and
if one alone does, every way takes it (`CriticalDecides`, `DecidingIsCritical`).

`WaysProofs` also proves `OrderLeads` and `LongestChain` for every flow graph, all uses between its
blocks and every order that `scc_iterator` may list (`GraphsAssumption`: a graph is
finite, block 1 is its entry and successors are blocks of it). The listed components part
the live blocks (`ComponentsAre`, `IteratorLists`), and one is listed after all it has edges
to, so that it is enough to sort each for itself (`OrderedLeads`). The invariant `OrderInv` says of
a search that is going on (`Searching`): the grey blocks are a path of edges that are no back
edges; what follows a block that was put down is grey or put down, and put down if the edge
is no back edge and the component is reducible. A successor that is grey is where
the code looks away. Without a back edge it would close a circle with the path
(`Finishing`), which a reducible loop does not have. That the path has no back edges is
because a dominator of a grey block is grey already: otherwise the path up to it would
avoid the dominator (`Pushed`). When the root is put down, the blocks put down are closed under edges
in the component, and so are all of it (`ComponentConnected`). For `LongestChain`: a block without a chain of its
own has the length of a chain that it is in, and its own chain is a part of that one
(`TimesIs`).

The runs do not repeat the type invariants of ThreadSched, Detection, EqvSearch
and Traversal.

Only model-checked:
- `Converse` of EqvSearch for two objects of which one cannot be searched to the end, as
  the objects of the circle in the run and those loaded from it.
- `ExecutedIsLive`, `ValuesConstrained`, `KillersKill` and `UnlockPaired` of Passes,
  `PointersCovered`, `ConUAFKept` and `SeqUAFKept` of Alias. They compare an analysis with
  the runs of a program, and they hold of programs that stay out of the way of what
  section 3 lists: for all programs they are false, and hypotheses that exclude just these cases would say
  little less than the properties. Killers and Filters are also written with recursive operators, as the
  code's recursion over paths and contexts is, which the prover does not support.
- `TraitExact`: it is about powers of two and single bits of words, of which the provers know
  nothing. The three bits of the run have a sign, and masks of one, two and all bits.
- Liveness: `Answers`, `Answered`, `Ends`, `StopReturns` (beyond TLAPS).

## 6. Not modelled

Section 2 says what is planned. Left out for good: queries of LLVM values
that no modelled function asks, name lists, printing, the entry point scan, the log-processing scripts, and the legacy
detectors and taint data that this build does not run. `addSyncTrLocs` is left
out of ThreadSched because it works on `GlobalState::callbacks`, which only
a pass that is never added fills. z3 is modelled by what it decides for strict
inequalities over integers: a constraint set is satisfiable when it has no
cycle.

Of the modelled parts: the trimming of a pair of objects with 128 or more paths
(EqvSearch); the list of blocked function names and `_shouldSkipForPerf`, which
is off unless the user sets a time limit per function (Traversal); an entry that the user's
configuration lists twice, which would be analysed twice (Traversal has a set of
entries); the values of samples and all of the log but its
line structure (MemoryMonitor); embedded objects, arrays, unions, casts between
types, `memcpy`, the recovery of a container from a pointer to its field, and
GEP operators inside of other instructions (PointsTo); the reading of
configuration files and the choice of entry and init functions, where
`SoundyAliasAnalysis.cpp:366` adds an init function to a set only if it is in
it already, so that the first phase never has anything to do.
