--------------------------- MODULE MemoryMonitor ---------------------------
(***************************************************************************)
(* Class MemoryMonitor, the only second thread of the program: a worker    *)
(* samples the memory in use and the main thread prints statistics of it,  *)
(* while both write to the log.  One action is what happens between two    *)
(* accesses to what the threads share.                                     *)
(*                                                                         *)
(* A sample is known by its position (from 0), so memoryUsages is its      *)
(* size.  Of the log only the line of a sample or of a warning that is     *)
(* being written is kept, as the set of the threads that wrote on it.      *)
(***************************************************************************)
EXTENDS Integers, FiniteSets

CONSTANT MaxSamples   \* bound: /proc/self/statm cannot be opened any more

ASSUME MonitorAssumption == MaxSamples \in Nat

VARIABLES
  running, paused,          \* atomic flags
  memoryUsages, memUsageIdx,
  mutex,                    \* vec_mutex: who holds it
  worker,                   \* where the worker is
  main,                     \* which method the main thread is in
  id0, id1,                 \* the window that is being printed
  line,                     \* who wrote on the current line of the log
  reported,                 \* samples that were printed so far
  late,                     \* samples recorded since pause() returned
  stopped                   \* stop() has returned

workerVars == <<memoryUsages, worker, late>>
windowVars == <<memUsageIdx, id0, id1, reported>>
vars == <<running, paused, mutex, main, line, stopped, workerVars, windowVars>>

Init ==
  /\ running = TRUE /\ paused = FALSE
  /\ memoryUsages = 0 /\ memUsageIdx = 0
  /\ mutex = "free"
  /\ worker = "none" /\ main = "idle"
  /\ id0 = 0 /\ id1 = 0
  /\ line = {}
  /\ reported = {}
  /\ late = 0
  /\ stopped = FALSE

----------------------------------------------------------------------------
(* The worker: the loop of start() and memRecHandler.                      *)
checkRunning ==
  /\ worker = "running?"
  /\ worker' = IF running THEN "paused?" ELSE "gone"
  /\ UNCHANGED <<running, paused, mutex, main, line, stopped, memoryUsages, late, windowVars>>

(* Mutant: it is not asked whether it is paused.                           *)
checkPausedNot ==
  /\ worker = "paused?"
  /\ worker' = "open"
  /\ UNCHANGED <<running, paused, mutex, main, line, stopped, memoryUsages, late, windowVars>>

checkPaused ==
  /\ worker = "paused?"
  /\ worker' = IF paused THEN "sleep" ELSE "open"
  /\ UNCHANGED <<running, paused, mutex, main, line, stopped, memoryUsages, late, windowVars>>

openStatm ==
  /\ worker = "open"
  /\ \/ memoryUsages < MaxSamples /\ worker' = "log"
     \/ worker' = "sleep"
  /\ UNCHANGED <<running, paused, mutex, main, line, stopped, memoryUsages, late, windowVars>>

(* "[MEM] Current Memory Usage: " ... " MB.\n", piece by piece             *)
logUsage ==
  /\ \/ worker = "log" /\ worker' = "logging" /\ line' = line \cup {"worker"}
     \/ worker = "logging" /\ worker' = "record" /\ line' = {}
  /\ UNCHANGED <<running, paused, mutex, main, stopped, memoryUsages, late, windowVars>>

(* Mutant: without the lock.                                               *)
recordUnlocked ==
  /\ worker = "record"
  /\ memoryUsages' = memoryUsages + 1
  /\ late' = IF paused THEN late + 1 ELSE late
  /\ worker' = "sleep"
  /\ UNCHANGED <<running, paused, mutex, main, line, stopped, windowVars>>

record ==
  /\ worker = "record"
  /\ mutex = "free"
  /\ memoryUsages' = memoryUsages + 1
  /\ late' = IF paused THEN late + 1 ELSE late
  /\ worker' = "sleep"
  /\ UNCHANGED <<running, paused, mutex, main, line, stopped, windowVars>>

(* Mutant: running is checked only once.                                   *)
sleepForEver ==
  /\ worker = "sleep"
  /\ worker' = "paused?"
  /\ UNCHANGED <<running, paused, mutex, main, line, stopped, memoryUsages, late, windowVars>>

sleep ==
  /\ worker = "sleep"
  /\ worker' = "running?"
  /\ UNCHANGED <<running, paused, mutex, main, line, stopped, memoryUsages, late, windowVars>>

Worker ==
  checkRunning \/ checkPaused \/ openStatm \/ logUsage \/ record \/ sleep

----------------------------------------------------------------------------
(* The main thread.                                                        *)
(* Not while there is a worker to be joined: that would end the program.   *)
start ==
  /\ main = "idle"
  /\ worker = "none" \/ (worker = "gone" /\ stopped)
  /\ worker' = "running?"
  /\ UNCHANGED <<running, paused, mutex, main, line, stopped, memoryUsages, late, windowVars>>

pause ==
  /\ main = "idle"
  /\ paused' = TRUE
  /\ late' = IF paused THEN late ELSE 0
  /\ UNCHANGED <<running, mutex, main, line, stopped, memoryUsages, worker, windowVars>>

resume ==
  /\ main = "idle"
  /\ paused' = FALSE
  /\ late' = 0
  /\ UNCHANGED <<running, mutex, main, line, stopped, memoryUsages, worker, windowVars>>

stop ==
  /\ main = "idle"
  /\ running' = FALSE
  /\ main' = "join"
  /\ UNCHANGED <<paused, mutex, line, stopped, workerVars, windowVars>>

(* A thread that was never started is not joinable: there is no waiting.   *)
join ==
  /\ main = "join"
  /\ worker \in {"none", "gone"}
  /\ stopped' = TRUE
  /\ main' = "idle"
  /\ UNCHANGED <<running, paused, mutex, line, workerVars, windowVars>>

(* printMemStatistics(incr) takes the lock ...                             *)
printMemStatistics(incr) ==
  /\ main = "idle"
  /\ mutex = "free"
  /\ mutex' = "main"
  /\ main' = IF incr THEN "print new" ELSE "print all"
  /\ UNCHANGED <<running, paused, line, stopped, workerVars, windowVars>>

(* Mutant: an incremental window starts one too late.                      *)
windowLate ==
  /\ main \in {"print new", "print all"}
  /\ memoryUsages > 0
  /\ id0' = IF main = "print new" THEN memUsageIdx + 1 ELSE 0
  /\ id1' = memoryUsages - 1
  /\ memUsageIdx' = id1'
  /\ main' = "report"
  /\ UNCHANGED <<running, paused, mutex, line, stopped, workerVars, reported>>

(* ... computes the window, from the last sample of the print before ...   *)
window ==
  /\ main \in {"print new", "print all"}
  /\ memoryUsages > 0
  /\ id0' = IF main = "print new" THEN memUsageIdx ELSE 0
  /\ id1' = memoryUsages - 1
  /\ memUsageIdx' = id1'
  /\ main' = "report"
  /\ UNCHANGED <<running, paused, mutex, line, stopped, workerVars, reported>>

nothingToPrint ==
  /\ main \in {"print new", "print all"}
  /\ memoryUsages = 0
  /\ main' = "idle"
  /\ mutex' = "free"
  /\ UNCHANGED <<running, paused, line, stopped, workerVars, windowVars>>

(* ... and goes from begin() + id0 to end().                               *)
report ==
  /\ main = "report"
  /\ reported' = reported \cup (id0..(memoryUsages - 1))
  /\ main' = "idle"
  /\ mutex' = "free"
  /\ UNCHANGED <<running, paused, line, stopped, workerVars, memUsageIdx, id0, id1>>

(* printUAFWarningInJson: a warning goes to the log in pieces, too.        *)
warn ==
  /\ \/ main = "idle" /\ main' = "warn" /\ line' = line \cup {"main"}
     \/ main = "warn" /\ main' = "idle" /\ line' = {}
  /\ UNCHANGED <<running, paused, mutex, stopped, workerVars, windowVars>>

Main ==
  \/ start \/ pause \/ resume \/ stop \/ join \/ warn
  \/ \E incr \in BOOLEAN : printMemStatistics(incr)
  \/ window \/ nothingToPrint \/ report

Next == Worker \/ Main

Spec == Init /\ [][Next]_vars

(* The operating system runs the worker; a method that was called goes on. *)
LiveSpec == Spec /\ WF_vars(Worker) /\ WF_vars(main # "idle" /\ Main)

----------------------------------------------------------------------------
TypeOK ==
  /\ running \in BOOLEAN /\ paused \in BOOLEAN /\ stopped \in BOOLEAN
  /\ memoryUsages \in 0..MaxSamples
  /\ memUsageIdx \in Nat /\ id0 \in Nat /\ id1 \in Nat /\ late \in Nat
  /\ mutex \in {"free", "main"}
  /\ worker \in {"none", "running?", "paused?", "open", "log", "logging", "record", "sleep", "gone"}
  /\ main \in {"idle", "join", "print new", "print all", "report", "warn"}
  /\ mutex = "main" <=> main \in {"print new", "print all", "report"}
  /\ line \subseteq {"main", "worker"}
  /\ reported \subseteq 0..(MaxSamples - 1)

(* While statistics are computed, the window is not empty and ends where   *)
(* the samples end: the average divides by id1 - id0 + 1, and the copy for *)
(* the median has room for as many.                                        *)
WindowWhole ==
  main = "report" => id0 <= id1 /\ id1 + 1 = memoryUsages

(* Whatever was printed incrementally or in full before, after a print     *)
(* every sample recorded by then has been part of one.                     *)
NothingMissed ==
  [][main = "report" /\ main' = "idle" => reported' = 0..(memoryUsages - 1)]_vars

(* After pause() has returned, at most the sample that was being taken is  *)
(* still recorded.                                                         *)
PauseRespected == paused => late <= 1

(* stop() returns: the worker sees that it is to end.                      *)
StopReturns == main = "join" ~> main = "idle"

(* "One line per warning": no line of the log is by both threads.          *)
LinesWhole == Cardinality(line) <= 1
=============================================================================
