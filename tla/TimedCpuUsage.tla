--------------------------- MODULE TimedCpuUsage ---------------------------
(***************************************************************************)
(* The program with a clock.  CpuUsage lets every statement take any time; *)
(* here the slow ones (the sleeps, a pass over /proc/stat, writing a frame *)
(* to the terminal) take a time of their own and all others none, so that  *)
(* one can ask what the watchdog's two seconds mean against the reader's   *)
(* one.  The steps are those of CpuUsage, unchanged.                       *)
(***************************************************************************)
EXTENDS CpuUsage

CONSTANTS
  ReaderNap,    \* sleep(1) of the reader, in units of the clock
  WatchdogNap,  \* sleep(2) of the watchdog
  ReadTimes,    \* how long a pass over /proc/stat may take
  PrintTimes    \* how long a frame may take to write; the terminal may block

\* Nobody asks the program to end; main waits for the SIGTERM thread for ever,
\* and takes no step.
ASSUME NoSigtermAssumption == ~SigtermSent
ASSUME NapAssumption == /\ ReaderNap \in Nat \ {0}
                        /\ WatchdogNap \in Nat /\ ReaderNap < WatchdogNap
ASSUME TimesAssumption == /\ ReadTimes \in SUBSET Nat \ {{}}
                          /\ PrintTimes \in SUBSET Nat \ {{}}

VARIABLES
  left,     \* time left of the slow statement a thread is in
  silent,   \* time since a worker last set its check point, up to TooLong
  slowest   \* the longest pass and the longest frame so far

timedVars == <<vars, left, silent, slowest>>

\* Two rounds of the watchdog.
TooLong == 2 * WatchdogNap

\* Mutants: reader and watchdog sleep equally long; the reader hardly sleeps.
Durations_SameNap(t, at) ==
  CASE t = "reader" /\ at = "Sleep"   -> {ReaderNap}
    [] t = "reader" /\ at = "Read"    -> ReadTimes
    [] t = "watchdog" /\ at = "Sleep" -> {ReaderNap}
    [] t = "printer" /\ at = "Print"  -> PrintTimes
    [] OTHER                          -> {0}

Durations_ShortNap(t, at) ==
  CASE t = "reader" /\ at = "Sleep"   -> {ReaderNap - 1}
    [] t = "reader" /\ at = "Read"    -> ReadTimes
    [] t = "watchdog" /\ at = "Sleep" -> {WatchdogNap}
    [] t = "printer" /\ at = "Print"  -> PrintTimes
    [] OTHER                          -> {0}

\* How long thread t stays at a point of its function.
Durations(t, at) ==
  CASE t = "reader" /\ at = "Sleep"   -> {ReaderNap}
    [] t = "reader" /\ at = "Read"    -> ReadTimes
    [] t = "watchdog" /\ at = "Sleep" -> {WatchdogNap}
    [] t = "printer" /\ at = "Print"  -> PrintTimes
    [] OTHER                          -> {0}

TimedInit ==
  /\ Init
  /\ left = [t \in Thread |-> 0]
  /\ silent = [t \in Worker |-> 0]
  /\ slowest = [read |-> 0, print |-> 0]

StepOf(t) ==
  \/ t = "reader" /\ ReaderStep
  \/ t = "analyzer" /\ AnalyzerStep
  \/ t = "printer" /\ PrinterStep
  \/ t = "watchdog" /\ WatchdogStep
  \/ t = "sigterm" /\ SigtermStep

AtLeast(m, n) == IF m > n THEN m ELSE n

\* A thread whose slow statement is over takes its next step, and enters the
\* statement behind it.
Run(t) ==
  /\ left[t] = 0
  /\ StepOf(t)
  /\ \E d \in Durations(t, pc'[t]) :
       /\ left' = [left EXCEPT ![t] = d]
       /\ slowest' = [read  |-> IF t = "reader" /\ pc'[t] = "Read"
                                THEN AtLeast(slowest.read, d) ELSE slowest.read,
                      print |-> IF t = "printer" /\ pc'[t] = "Print"
                                THEN AtLeast(slowest.print, d) ELSE slowest.print]
  /\ silent' = IF t \in Worker /\ pc[t] \in {"Mark", "Print"}
               THEN [silent EXCEPT ![t] = 0] ELSE silent

\* The mutex a thread takes in its next step, where it takes one.
Wants(t, m) ==
  \/ /\ m = "queueCpuStatsMutex"
     /\ \/ t = "reader" /\ pc[t] = "Sleep"
        \/ t = "analyzer" /\ pc[t] \in {"Lock", "Wait"}
  \/ /\ m = "queueCpuStatsPrinterMutex"
     /\ \/ t = "analyzer" /\ pc[t] = "Process"
        \/ t = "printer" /\ pc[t] \in {"Lock", "Wait"}

\* A thread that has returned, waits for others at the barrier, for a condition
\* or a mutex, for the boot, or for SIGTERM.
Blocked(t) ==
  \/ pc[t] = "Done"
  \/ pc[t] = "Barrier" /\ arrived # BarrierCount
  \/ \E c \in Cond : t \in waiting[c]
  \/ \E m \in Mutex : Wants(t, m) /\ mutex[m] # Nobody
  \/ pc[t] = "Sleep" /\ ~SleepOver
  \/ pc[t] = "Poll" /\ ~done

\* Time passes when everybody sleeps, is blocked or is in a slow statement.
Elapse ==
  /\ process = "running"
  /\ \A t \in Thread : left[t] = 0 => Blocked(t)
  /\ \E t \in Thread : left[t] > 0
  /\ left' = [t \in Thread |-> IF left[t] > 0 THEN left[t] - 1 ELSE 0]
  /\ silent' = [w \in Worker |-> AtMost(silent[w] + 1, TooLong + 1)]
  /\ UNCHANGED <<vars, slowest>>

\* pthread_cond_wait returns without a signal.
Spurious ==
  /\ \/ SpuriousWakeup("analyzer", "condCpuStatsQueue")
     \/ SpuriousWakeup("printer", "condCpuStatsPrinterQueue")
  /\ UNCHANGED <<left, silent, slowest>>

TimedNext ==
  \/ \E t \in Thread : Run(t)
  \/ Spurious
  \/ Elapse

TimedSpec == TimedInit /\ [][TimedNext]_timedVars

-----------------------------------------------------------------------------

\* A healthy program is left alone: as long as a pass over /proc/stat and the
\* writing of a frame together take less than the second the watchdog waits
\* longer than the reader sleeps, and the reader lives, nobody is asked to
\* close, however the rounds of watchdog and workers are shifted against each
\* other.
HealthyStaysOpen ==
  /\ slowest.read + slowest.print < WatchdogNap - ReaderNap
  /\ pc["reader"] # "Done"
  => ~Closing

\* A worker that gives no sign of life for longer than two rounds of the
\* watchdog, because it is stuck, blocked or gone, has been asked to close.
SilenceNoticed ==
  process = "running" =>
    \A t \in Worker : silent[t] > TooLong => toClose[t]

\* How many rounds the printer may find when the terminal lets it go on.
PileUp == TooLong \div ReaderNap + 1

\* While the terminal blocks, no more rounds pile up behind the printer than
\* the reader makes before the watchdog closes it.
PileUpBounded ==
  Len(cpuStatsQueuePrint) <= PileUp * (threadsNum + 1)

\* "times 3 in case to buffer some data" (analyzerThr.c, printerThr.c): the
\* three rounds the buffers have room for are enough as long as no frame takes
\* three sleeps of the reader to write.
BatchFitsInTime == slowest.print < 3 * ReaderNap => BatchFits
=============================================================================
