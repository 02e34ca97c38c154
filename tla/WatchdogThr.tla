---------------------------- MODULE WatchdogThr ----------------------------
(***************************************************************************)
(* The watchdog thread, src/watchdogThr.c: every two seconds it checks     *)
(* that each worker has shown a sign of life, and closes all of them when  *)
(* one has not.                                                            *)
(*                                                                         *)
(*   Start -> Clear -> Sleep -> Check -> CloseReader -> CloseAnalyzer      *)
(*              ^                 |        -> ClosePrinter                 *)
(*              +-----------------+        -> WakeAnalyzer -> WakePrinter  *)
(***************************************************************************)
EXTENDS Globals

NoSignOfLife == [t \in Worker |-> FALSE]

WatchdogStart ==
  /\ Step("watchdog", "Start", "Clear")
  /\ checkPoint' = NoSignOfLife
  /\ toClose' = [toClose EXCEPT !["watchdog"] = FALSE]
  /\ UNCHANGED <<process, sync, source, queues, analyzerVars, frame, done>>

\* Mutants: the requests to all threads are erased; the signs of life are not.
WatchdogClear_AllRequests ==
  /\ Step("watchdog", "Clear", "Sleep")
  /\ checkPoint' = NoSignOfLife
  /\ toClose' = [t \in DOMAIN toClose |-> FALSE]
  /\ UNCHANGED <<process, sync, source, queues, analyzerVars, frame, done>>

WatchdogClear_KeepsSigns ==
  /\ Step("watchdog", "Clear", "Sleep")
  /\ toClose' = [toClose EXCEPT !["watchdog"] = FALSE]
  /\ UNCHANGED <<process, sync, source, queues, analyzerVars, frame,
                 checkPoint, done>>

\* A round starts by erasing the signs of life, and a request to close the
\* watchdog.  The others only ever set these four flags and only the watchdog
\* reads them, after its sleep, so the four stores are one step.
WatchdogClear ==
  /\ Step("watchdog", "Clear", "Sleep")
  /\ checkPoint' = NoSignOfLife
  /\ toClose' = [toClose EXCEPT !["watchdog"] = FALSE]
  /\ UNCHANGED <<process, sync, source, queues, analyzerVars, frame, done>>

\* sleep(2), and the load of watchdogToClose.
WatchdogWake ==
  /\ SleepOver
  /\ Step("watchdog", "Sleep", IF toClose["watchdog"] THEN "Done" ELSE "Check")
  /\ UNCHANGED <<process, sync, source, queues, analyzerVars, frame, flags>>

\* Between two clears nobody unsets a flag once it is set, so the three loads
\* in a row decide what one load of all three would, made when the first one
\* finds a flag unset or else when the last one is made.
WatchdogCheck ==
  /\ Step("watchdog", "Check", IF \A t \in Worker : checkPoint[t]
                                 THEN "Clear" ELSE "CloseReader")
  /\ UNCHANGED <<process, sync, source, queues, analyzerVars, frame, flags>>

WatchdogCloseReader ==
  RequestClose("watchdog", "CloseReader", "reader", "CloseAnalyzer")

WatchdogCloseAnalyzer ==
  RequestClose("watchdog", "CloseAnalyzer", "analyzer", "ClosePrinter")

WatchdogClosePrinter ==
  RequestClose("watchdog", "ClosePrinter", "printer", "WakeAnalyzer")

WatchdogWakeAnalyzer ==
  WakeAll("watchdog", "WakeAnalyzer", "condCpuStatsQueue", "WakePrinter")

WatchdogWakePrinter ==
  WakeAll("watchdog", "WakePrinter", "condCpuStatsPrinterQueue", "Done")

WatchdogStep ==
  \/ WatchdogStart
  \/ WatchdogClear
  \/ WatchdogWake
  \/ WatchdogCheck
  \/ WatchdogCloseReader
  \/ WatchdogCloseAnalyzer
  \/ WatchdogClosePrinter
  \/ WatchdogWakeAnalyzer
  \/ WatchdogWakePrinter
=============================================================================
