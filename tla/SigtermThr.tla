----------------------------- MODULE SigtermThr -----------------------------
(***************************************************************************)
(* The SIGTERM thread, src/sigtermThr.c, and the signal itself.            *)
(*                                                                         *)
(*   Start -> Poll -> CloseReader -> CloseAnalyzer -> ClosePrinter         *)
(*     -> CloseWatchdog -> WakeAnalyzer -> WakePrinter -> Done             *)
(***************************************************************************)
EXTENDS Globals

\* sigaction(SIGTERM, ...).
SigtermStart ==
  /\ Step("sigterm", "Start", "Poll")
  /\ UNCHANGED <<process, sync, source, queues, analyzerVars, frame, flags>>

\* SIGTERM arrives, on whatever thread: the handler term sets done, or the
\* default action ends the process when no handler is installed yet.
Sigterm ==
  /\ SigtermSent
  /\ process = "running"
  /\ PromptStart => Booted
  /\ \/ /\ pc["sigterm"] = "Start"
        /\ process' = "killed"
        /\ UNCHANGED done
     \/ /\ pc["sigterm"] # "Start"
        /\ done' = TRUE
        /\ UNCHANGED process
  /\ UNCHANGED <<pc, sync, source, queues, analyzerVars, frame, checkPoint,
                 toClose>>

\* while (!done) sleep: a round that finds done unset changes nothing.
SigtermPoll ==
  /\ done
  /\ Step("sigterm", "Poll", "CloseReader")
  /\ UNCHANGED <<process, sync, source, queues, analyzerVars, frame, flags>>

\* Mutant: one flag is set twice and the reader's is forgotten.
SigtermCloseReader_Printer ==
  RequestClose("sigterm", "CloseReader", "printer", "CloseAnalyzer")

SigtermCloseReader ==
  RequestClose("sigterm", "CloseReader", "reader", "CloseAnalyzer")

SigtermCloseAnalyzer ==
  RequestClose("sigterm", "CloseAnalyzer", "analyzer", "ClosePrinter")

SigtermClosePrinter ==
  RequestClose("sigterm", "ClosePrinter", "printer", "CloseWatchdog")

SigtermCloseWatchdog ==
  RequestClose("sigterm", "CloseWatchdog", "watchdog", "WakeAnalyzer")

\* Mutant: both broadcasts are on one condition variable.
SigtermWakeAnalyzer_Printer ==
  WakeAll("sigterm", "WakeAnalyzer", "condCpuStatsPrinterQueue", "WakePrinter")

SigtermWakeAnalyzer ==
  WakeAll("sigterm", "WakeAnalyzer", "condCpuStatsQueue", "WakePrinter")

SigtermWakePrinter ==
  WakeAll("sigterm", "WakePrinter", "condCpuStatsPrinterQueue", "Done")

SigtermStep ==
  \/ SigtermStart
  \/ SigtermPoll
  \/ SigtermCloseReader
  \/ SigtermCloseAnalyzer
  \/ SigtermClosePrinter
  \/ SigtermCloseWatchdog
  \/ SigtermWakeAnalyzer
  \/ SigtermWakePrinter
=============================================================================
