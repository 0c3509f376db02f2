--------------------------- MODULE MonitorProofs ---------------------------
(***************************************************************************)
(* What holds of the memory monitor for any number of samples and prints.  *)
(***************************************************************************)
EXTENDS MemoryMonitor, TLAPS

(* What was printed is everything up to the sample that the next           *)
(* incremental print starts with; in the middle of a print, up to a sample *)
(* that the window has or that it begins right after.                      *)
Contiguous ==
  /\ main # "report" =>
       \/ reported = {} /\ memUsageIdx = 0
       \/ reported = 0..memUsageIdx /\ memUsageIdx < memoryUsages
  /\ main = "report" =>
       /\ memUsageIdx = id1
       /\ reported \subseteq 0..(memoryUsages - 1)
       /\ 0..(id0 - 1) \subseteq reported

(* The worker is on its way to record a sample.                            *)
Sampling == worker \in {"open", "log", "logging", "record"}
OneLate == paused => late <= 1 /\ (Sampling => late = 0)

(* There is room for a sample that was taken.                              *)
Room == worker \in {"log", "logging", "record"} => memoryUsages < MaxSamples

IInv == TypeOK /\ WindowWhole /\ Contiguous /\ OneLate /\ Room

LEMMA InitInv == Init => IInv
<1> SUFFICES ASSUME Init PROVE IInv
  OBVIOUS
<1> USE MonitorAssumption DEF MonitorAssumption, Init
<1>1. running \in BOOLEAN /\ paused \in BOOLEAN /\ stopped \in BOOLEAN
  OBVIOUS
<1>2. TypeOK
  BY <1>1 DEF TypeOK
<1>3. WindowWhole /\ Contiguous /\ OneLate /\ Room
  BY DEF WindowWhole, Contiguous, OneLate, Room, Sampling
<1> QED
  BY <1>2, <1>3 DEF IInv

(* The numbers of the state, for steps that calculate with them.           *)
LEMMA Numbers ==
  IInv => /\ memoryUsages \in 0..MaxSamples
          /\ memUsageIdx \in Nat /\ id0 \in Nat /\ id1 \in Nat /\ late \in Nat
          /\ MaxSamples \in Nat
  BY MonitorAssumption, Zenon DEF IInv, TypeOK, MonitorAssumption

(* A step of the worker adds at most one sample, never during a print.     *)
LEMMA WorkerInv == IInv /\ Worker => IInv'
<1> SUFFICES ASSUME IInv, Worker PROVE IInv'
  OBVIOUS
<1> USE MonitorAssumption DEF MonitorAssumption, IInv
<1>1. CASE checkRunning
  BY <1>1 DEF checkRunning, windowVars,
     TypeOK, WindowWhole, Contiguous, OneLate, Room, Sampling
<1>2. CASE checkPaused
  BY <1>2 DEF checkPaused, windowVars,
     TypeOK, WindowWhole, Contiguous, OneLate, Room, Sampling
<1>3. CASE openStatm
  BY <1>3 DEF openStatm, windowVars,
     TypeOK, WindowWhole, Contiguous, OneLate, Room, Sampling
<1>4. CASE logUsage
  BY <1>4 DEF logUsage, windowVars,
     TypeOK, WindowWhole, Contiguous, OneLate, Room, Sampling
<1>5. CASE record
  <2>0. memoryUsages < MaxSamples
    BY <1>5 DEF record, Room
  <2>1. memoryUsages \in Nat /\ memoryUsages < MaxSamples /\ memUsageIdx \in Nat /\ late \in Nat
    BY <2>0, Numbers
  <2>2. main' = main /\ main \notin {"print new", "print all", "report"}
    BY <1>5 DEF record, TypeOK
  <2>3. TypeOK'
    <3>1. memoryUsages' \in 0..MaxSamples /\ late' \in Nat
      BY <1>5, <2>1 DEF record
    <3> QED
      BY <1>5, <3>1 DEF record, TypeOK, windowVars
  <2>4. WindowWhole'
    BY <2>2 DEF WindowWhole
  <2>5. Contiguous'
    <3>1. /\ memoryUsages' = memoryUsages + 1
          /\ memUsageIdx' = memUsageIdx /\ reported' = reported
      BY <1>5 DEF record, windowVars
    <3>2. \/ reported = {} /\ memUsageIdx = 0
          \/ reported = 0..memUsageIdx /\ memUsageIdx < memoryUsages
      BY <2>2 DEF Contiguous
    <3>3. main' # "report"
      BY <2>2
    <3> QED
      BY <2>1, <3>1, <3>2, <3>3 DEF Contiguous
  <2>6. OneLate' /\ Room'
    BY <1>5, <2>1 DEF record, OneLate, Room, Sampling
  <2> QED
    BY <2>3, <2>4, <2>5, <2>6
<1>6. CASE sleep
  BY <1>6 DEF sleep, windowVars,
     TypeOK, WindowWhole, Contiguous, OneLate, Room, Sampling
<1> QED
  BY <1>1, <1>2, <1>3, <1>4, <1>5, <1>6 DEF Worker

LEMMA MainInv == IInv /\ Main => IInv'
<1> SUFFICES ASSUME IInv, Main PROVE IInv'
  OBVIOUS
<1> USE MonitorAssumption DEF MonitorAssumption, IInv
<1>1. CASE start
  BY <1>1 DEF start, workerVars, windowVars,
     TypeOK, WindowWhole, Contiguous, OneLate, Room, Sampling
<1>2. CASE pause
  BY <1>2 DEF pause, workerVars, windowVars,
     TypeOK, WindowWhole, Contiguous, OneLate, Room, Sampling
<1>3. CASE resume
  BY <1>3 DEF resume, workerVars, windowVars,
     TypeOK, WindowWhole, Contiguous, OneLate, Room, Sampling
<1>4. CASE stop
  BY <1>4 DEF stop, workerVars, windowVars,
     TypeOK, WindowWhole, Contiguous, OneLate, Room, Sampling
<1>5. CASE join
  BY <1>5 DEF join, workerVars, windowVars,
     TypeOK, WindowWhole, Contiguous, OneLate, Room, Sampling
<1>6. CASE warn
  BY <1>6 DEF warn, workerVars, windowVars,
     TypeOK, WindowWhole, Contiguous, OneLate, Room, Sampling
<1>7. CASE \E incr \in BOOLEAN : printMemStatistics(incr)
  <2> PICK incr \in BOOLEAN : printMemStatistics(incr)
    BY <1>7
  <2>1. main' \in {"print new", "print all"} /\ main = "idle"
    BY DEF printMemStatistics
  <2>2. TypeOK' /\ OneLate' /\ Room'
    BY <2>1 DEF printMemStatistics, TypeOK, OneLate, Room, Sampling, workerVars, windowVars
  <2>3. WindowWhole' /\ Contiguous'
    BY <2>1 DEF printMemStatistics, WindowWhole, Contiguous, workerVars, windowVars
  <2> QED
    BY <2>2, <2>3
<1>8. CASE window
  <2>1. memoryUsages \in Nat /\ memoryUsages <= MaxSamples /\ memUsageIdx \in Nat
          /\ id0 \in Nat /\ id1 \in Nat
    BY Numbers
  <2>2. memoryUsages' = memoryUsages /\ worker' = worker /\ late' = late /\ paused' = paused
    BY <1>8 DEF window, workerVars
  <2>3. /\ id1' = memoryUsages - 1 /\ memUsageIdx' = id1' /\ reported' = reported
        /\ main' = "report" /\ main # "report" /\ memoryUsages > 0
        /\ id0' = memUsageIdx \/ id0' = 0
    BY <1>8 DEF window
  <2>31. \/ reported = {} /\ memUsageIdx = 0
         \/ reported = 0..memUsageIdx /\ memUsageIdx < memoryUsages
    BY <2>3 DEF Contiguous
  <2>32. id0' \in Nat /\ id1' \in Nat /\ id0' <= memUsageIdx /\ memUsageIdx <= id1'
    BY <2>1, <2>3, <2>31
  <2>4. TypeOK'
    BY <1>8, <2>3, <2>32, Zenon DEF window, TypeOK, workerVars
  <2>5. WindowWhole'
    BY <2>1, <2>2, <2>3, <2>32 DEF WindowWhole
  <2>6. Contiguous'
    <3>1. reported \subseteq 0..(memoryUsages - 1)
      BY <2>1, <2>31
    <3>2. 0..(id0' - 1) \subseteq reported
      <4>1. CASE id0' = 0
        BY <4>1
      <4>2. CASE id0' = memUsageIdx
        BY <2>1, <2>31, <4>2
      <4> QED
        BY <2>3, <4>1, <4>2
    <3> QED
      BY <2>2, <2>3, <3>1, <3>2 DEF Contiguous
  <2>7. OneLate' /\ Room'
    BY <2>2 DEF OneLate, Room, Sampling
  <2> QED
    BY <2>4, <2>5, <2>6, <2>7
<1>9. CASE nothingToPrint
  BY <1>9 DEF nothingToPrint, workerVars, windowVars,
     TypeOK, WindowWhole, Contiguous, OneLate, Room, Sampling
<1>10. CASE report
  <2>1. memoryUsages \in Nat /\ memoryUsages <= MaxSamples /\ memUsageIdx \in Nat
          /\ id0 \in Nat /\ id1 \in Nat
    BY Numbers
  <2>2. memoryUsages' = memoryUsages /\ worker' = worker /\ late' = late /\ paused' = paused
    BY <1>10 DEF report, workerVars
  <2>3. main = "report" /\ main' = "idle" /\ id0 <= id1 /\ id1 = memoryUsages - 1
          /\ memUsageIdx' = memUsageIdx /\ memUsageIdx = id1
    BY <1>10, <2>1 DEF report, WindowWhole, Contiguous
  <2>4. reported' = 0..(memoryUsages - 1)
    <3>1. 0..(memoryUsages - 1) = 0..(id0 - 1) \cup id0..(memoryUsages - 1)
      BY <2>1, <2>3
    <3>2. reported' = reported \cup id0..(memoryUsages - 1)
      BY <1>10 DEF report
    <3> QED
      BY <2>3, <3>1, <3>2 DEF Contiguous
  <2>5. TypeOK'
    <3>1. reported' \subseteq 0..(MaxSamples - 1)
      BY <2>1, <2>4
    <3> QED
      BY <1>10, <2>3, <3>1 DEF report, TypeOK, workerVars
  <2>6. WindowWhole' /\ Contiguous'
    BY <2>1, <2>2, <2>3, <2>4 DEF WindowWhole, Contiguous
  <2>7. OneLate' /\ Room'
    BY <2>2 DEF OneLate, Room, Sampling
  <2> QED
    BY <2>4, <2>5, <2>6, <2>7
<1> QED
  BY <1>1, <1>2, <1>3, <1>4, <1>5, <1>6, <1>7, <1>8, <1>9, <1>10 DEF Main

LEMMA StepInv == IInv /\ [Next]_vars => IInv'
<1>1. ASSUME IInv, UNCHANGED vars PROVE IInv'
  <2> USE <1>1 DEF vars, windowVars, workerVars, IInv
  <2>1. TypeOK'
    BY DEF TypeOK
  <2>2. WindowWhole' /\ Contiguous' /\ OneLate' /\ Room'
    BY DEF WindowWhole, Contiguous, OneLate, Room, Sampling
  <2> QED
    BY <2>1, <2>2
<1> QED
  BY <1>1, WorkerInv, MainInv DEF Next

THEOREM MonitorInv == Spec => []IInv
  BY InitInv, StepInv, PTL DEF Spec

(* Statistics are computed over a window that is not empty and ends with   *)
(* the last sample: the worker cannot add one in the middle.               *)
THEOREM MonitorWindowWhole == Spec => []WindowWhole
<1>1. IInv => WindowWhole
  BY DEF IInv
<1> QED
  BY <1>1, MonitorInv, PTL

(* After pause() at most the sample that was being taken is recorded.      *)
THEOREM MonitorPauseRespected == Spec => []PauseRespected
<1>1. IInv => PauseRespected
  BY DEF IInv, OneLate, PauseRespected
<1> QED
  BY <1>1, MonitorInv, PTL

(* Every print completes what was printed before to all samples so far.    *)
THEOREM MonitorNothingMissed == Spec => NothingMissed
<1>1. IInv /\ [Next]_vars
        => [main = "report" /\ main' = "idle" => reported' = 0..(memoryUsages - 1)]_vars
  <2> SUFFICES ASSUME IInv, Next, main = "report", main' = "idle"
               PROVE  reported' = 0..(memoryUsages - 1)
    BY DEF vars, windowVars, workerVars
  <2>1. ~Worker
    BY DEF Worker, checkRunning, checkPaused, openStatm, logUsage, record, sleep
  <2>2. report
    BY <2>1 DEF Next, Main, start, pause, resume, stop, join, warn, printMemStatistics,
                window, nothingToPrint
  <2>3. reported' = reported \cup id0..(memoryUsages - 1)
    BY <2>2 DEF report
  <2>4. id0 \in Nat /\ memoryUsages \in Nat
    BY MonitorAssumption DEF MonitorAssumption, IInv, TypeOK
  <2>5. 0..(memoryUsages - 1) = 0..(id0 - 1) \cup id0..(memoryUsages - 1)
        \/ memoryUsages <= id0
    BY <2>4
  <2> QED
    BY <2>3, <2>4, <2>5 DEF IInv, Contiguous, WindowWhole
<1> QED
  BY <1>1, MonitorInv, PTL DEF Spec, NothingMissed
=============================================================================
