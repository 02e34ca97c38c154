--------------------------- MODULE CpuUsageProofs ---------------------------
(***************************************************************************)
(* Proofs about the program, for every number of CPUs, every capacity of   *)
(* the queues and every environment (what /proc/stat answers, whether and  *)
(* when SIGTERM comes, how late a thread starts).                          *)
(*                                                                         *)
(* Three invariants are inductive: ControlInv, on program counters,        *)
(* mutexes, wait sets, the barrier and the requests to close, which needs  *)
(* nothing else; DataInv, on the queues and buffers, which needs the part  *)
(* of ControlInv that says when threadsNum is final; and BootInv, on the   *)
(* requests made before every thread has started.                          *)
(***************************************************************************)
EXTENDS CpuUsage, TLAPS

(***************************************************************************)
(* The control invariant                                                   *)
(***************************************************************************)

ControlTypes ==
  /\ pc \in [Thread -> Label]
  /\ process \in {"running", "exited", "killed", "segfault", "overrun"}
  /\ mutex \in [Mutex -> Worker \cup {Nobody}]
  /\ waiting \in [Cond -> SUBSET Worker]
  /\ live \subseteq Primitive
  /\ threadsNum \in 0 .. CpuThreads + 1
  /\ checkPoint \in [Worker -> BOOLEAN]
  /\ toClose \in [Worker \cup {"watchdog"} -> BOOLEAN]
  /\ done \in BOOLEAN

\* How many of analyzer and printer have arrived at the barrier.
Consumers == (IF pc["analyzer"] = "Start" THEN 0 ELSE 1)
               + (IF pc["printer"] = "Start" THEN 0 ELSE 1)

\* The barrier counts the threads that have reached it, and the reader only
\* reaches it with the number of CPUs known.
BarrierInv ==
  /\ arrived \in {Consumers, Consumers + 1}
  /\ arrived = Consumers + 1 => threadsNum = CpuThreads
  /\ pc["reader"] \in {"Start", "Count"} => arrived = Consumers
  /\ pc["reader"] \notin {"Start", "Count", "Done"} => arrived = Consumers + 1
  /\ \A t \in {"analyzer", "printer"} :
       pc[t] \notin {"Start", "Barrier"} => arrived = BarrierCount

\* Who owns a mutex is in a critical section of it, and conversely.  The
\* exception is a reader that has returned for an error in /proc/stat.
LockInv ==
  /\ mutex["queueCpuStatsMutex"] # "printer"
  /\ mutex["queueCpuStatsPrinterMutex"] # "reader"
  /\ pc["reader"] \in {"Read", "Signal"} => mutex["queueCpuStatsMutex"] = "reader"
  /\ mutex["queueCpuStatsMutex"] = "reader" =>
       pc["reader"] \in {"Read", "Signal", "Done"}
  /\ pc["reader"] = "Done" /\ mutex["queueCpuStatsMutex"] = "reader" =>
       ReadResults \cap {"FILE_READ_ERROR", "INCORRECT_NUM_CPU_USAGE"} # {}
  /\ pc["analyzer"] = "Take" <=> mutex["queueCpuStatsMutex"] = "analyzer"
  /\ pc["analyzer"] \in {"Push", "Signal"} <=>
       mutex["queueCpuStatsPrinterMutex"] = "analyzer"
  /\ pc["printer"] = "Take" <=> mutex["queueCpuStatsPrinterMutex"] = "printer"

\* Each condition variable has one waiter, which is in pthread_cond_wait.
WaitInv ==
  /\ waiting["condCpuStatsQueue"] \subseteq {"analyzer"}
  /\ waiting["condCpuStatsPrinterQueue"] \subseteq {"printer"}
  /\ "analyzer" \in waiting["condCpuStatsQueue"] => pc["analyzer"] = "Wait"
  /\ "printer" \in waiting["condCpuStatsPrinterQueue"] => pc["printer"] = "Wait"

\* main returns after every thread, and nothing runs afterwards.
ExitInv == process = "exited" => \A t \in Thread : pc[t] = "Done"

ControlInv ==
  /\ ControlTypes
  /\ BarrierInv
  /\ LockInv
  /\ WaitInv
  /\ NoMissedWakeup
  /\ StopsOnlyWhenAsked
  /\ ExitInv

USE DEF sync, source, queues, flags, analyzerVars

\* As there is one waiter at most, pthread_cond_signal leaves none.
LEMMA SignalWakesAll ==
  ASSUME ControlTypes, NEW c \in Cond, NEW t, waiting[c] \subseteq {t}, Signal(c)
  PROVE  /\ waiting' \in [Cond -> SUBSET Worker]
         /\ waiting'[c] = {}
         /\ \A d \in Cond \ {c} : waiting'[d] = waiting[d]
  BY DEF ControlTypes, Signal

\* The steps of the reader keep the control invariant ...
LEMMA ControlReader ==
  ASSUME ControlInv, ReaderStep
  PROVE  ControlInv'
  <1> USE CpuThreadsAssumption
      DEF ControlInv, ControlTypes, Consumers, BarrierInv, LockInv, WaitInv,
          ExitInv, NoMissedWakeup, StopsOnlyWhenAsked, Label, Thread,
          Worker, Mutex, Cond, Nobody, BarrierCount, Joined
  <1>1. CASE ReaderStart
    BY <1>1 DEF ReaderStart, Step
  <1>2. CASE ReaderCount
    BY <1>2 DEF ReaderCount, Step
  <1>3. CASE ReaderLeaveBarrier
    BY <1>3 DEF ReaderLeaveBarrier, Step, LeaveBarrier
  <1>4. CASE ReaderLock
    BY <1>4 DEF ReaderLock, Step, Acquire
  <1>5. CASE ReaderRead
    BY <1>5 DEF ReaderRead, Step
  <1>6. CASE ReaderReadFails
    BY <1>6 DEF ReaderReadFails, Step
  <1>7. CASE ReaderOpenFails
    BY <1>7 DEF ReaderOpenFails, Step
  <1>8. CASE ReaderSignal
    <2>1. /\ waiting' \in [Cond -> SUBSET Worker]
          /\ waiting'["condCpuStatsQueue"] = {}
          /\ waiting'["condCpuStatsPrinterQueue"] = waiting["condCpuStatsPrinterQueue"]
      <3>1. Signal("condCpuStatsQueue")
        BY <1>8 DEF ReaderSignal
      <3> QED BY <3>1, SignalWakesAll
    <2> QED BY <1>8, <2>1 DEF ReaderSignal, Step, Release
  <1>9. CASE ReaderMark
    BY <1>9 DEF ReaderMark, Step
  <1>10. CASE ReaderCheckClose
    BY <1>10 DEF ReaderCheckClose, Step
  <1> QED BY <1>1, <1>2, <1>3, <1>4, <1>5, <1>6, <1>7, <1>8, <1>9, <1>10 DEF
         ReaderStep

\* ... and so do those of the analyzer ...
LEMMA ControlAnalyzer ==
  ASSUME ControlInv, AnalyzerStep
  PROVE  ControlInv'
  <1> USE CpuThreadsAssumption
      DEF ControlInv, ControlTypes, Consumers, BarrierInv, LockInv, WaitInv,
          ExitInv, NoMissedWakeup, StopsOnlyWhenAsked, Label, Thread,
          Worker, Mutex, Cond, Nobody, BarrierCount, Joined
  <1>1. CASE AnalyzerStart
    BY <1>1 DEF AnalyzerStart, Step
  <1>2. CASE AnalyzerLeaveBarrier
    BY <1>2 DEF AnalyzerLeaveBarrier, Step, LeaveBarrier
  <1>3. CASE AnalyzerLock
    BY <1>3 DEF AnalyzerLock, Step, Acquire
  <1>4. CASE AnalyzerWait
    BY <1>4 DEF AnalyzerWait, Step, CondWait, Release
  <1>5. CASE AnalyzerWakeup
    BY <1>5 DEF AnalyzerWakeup, Step, Acquire
  <1>6. CASE AnalyzerTake
    BY <1>6 DEF AnalyzerTake, Step, Release
  <1>7. CASE AnalyzerOverrun
    BY <1>7 DEF AnalyzerOverrun, Step
  <1>8. CASE AnalyzerProcess
    BY <1>8 DEF AnalyzerProcess, Step, Acquire
  <1>9. CASE AnalyzerPush
    BY <1>9 DEF AnalyzerPush, Step
  <1>10. CASE AnalyzerSignal
    <2>1. /\ waiting' \in [Cond -> SUBSET Worker]
          /\ waiting'["condCpuStatsPrinterQueue"] = {}
          /\ waiting'["condCpuStatsQueue"] = waiting["condCpuStatsQueue"]
      <3>1. Signal("condCpuStatsPrinterQueue")
        BY <1>10 DEF AnalyzerSignal
      <3> QED BY <3>1, SignalWakesAll
    <2> QED BY <1>10, <2>1 DEF AnalyzerSignal, Step, Release
  <1>11. CASE AnalyzerMark
    BY <1>11 DEF AnalyzerMark, Step
  <1> QED BY <1>1, <1>2, <1>3, <1>4, <1>5, <1>6, <1>7, <1>8, <1>9, <1>10,
         <1>11 DEF AnalyzerStep

\* ... of the printer ...
LEMMA ControlPrinter ==
  ASSUME ControlInv, PrinterStep
  PROVE  ControlInv'
  <1> USE CpuThreadsAssumption
      DEF ControlInv, ControlTypes, Consumers, BarrierInv, LockInv, WaitInv,
          ExitInv, NoMissedWakeup, StopsOnlyWhenAsked, Label, Thread,
          Worker, Mutex, Cond, Nobody, BarrierCount, Joined
  <1>1. CASE PrinterStart
    BY <1>1 DEF PrinterStart, Step
  <1>2. CASE PrinterLeaveBarrier
    BY <1>2 DEF PrinterLeaveBarrier, Step, LeaveBarrier
  <1>3. CASE PrinterLock
    BY <1>3 DEF PrinterLock, Step, Acquire
  <1>4. CASE PrinterWait
    BY <1>4 DEF PrinterWait, Step, CondWait, Release
  <1>5. CASE PrinterWakeup
    BY <1>5 DEF PrinterWakeup, Step, Acquire
  <1>6. CASE PrinterTake
    BY <1>6 DEF PrinterTake, Step, Release
  <1>7. CASE PrinterOverrun
    BY <1>7 DEF PrinterOverrun, Step
  <1>8. CASE PrinterPrint
    BY <1>8 DEF PrinterPrint, Step
  <1> QED BY <1>1, <1>2, <1>3, <1>4, <1>5, <1>6, <1>7, <1>8 DEF PrinterStep

\* ... of the watchdog ...
LEMMA ControlWatchdog ==
  ASSUME ControlInv, WatchdogStep
  PROVE  ControlInv'
  <1> USE CpuThreadsAssumption
      DEF ControlInv, ControlTypes, Consumers, BarrierInv, LockInv, WaitInv,
          ExitInv, NoMissedWakeup, StopsOnlyWhenAsked, Label, Thread,
          Worker, Mutex, Cond, Nobody, BarrierCount, Joined
  <1>1. CASE WatchdogStart
    BY <1>1 DEF WatchdogStart, Step, NoSignOfLife
  <1>2. CASE WatchdogClear
    BY <1>2 DEF WatchdogClear, Step, NoSignOfLife
  <1>3. CASE WatchdogWake
    BY <1>3 DEF WatchdogWake, Step
  <1>4. CASE WatchdogCheck
    BY <1>4 DEF WatchdogCheck, Step
  <1>5. CASE WatchdogCloseReader
    BY <1>5 DEF WatchdogCloseReader, Step, RequestClose
  <1>6. CASE WatchdogCloseAnalyzer
    BY <1>6 DEF WatchdogCloseAnalyzer, Step, RequestClose
  <1>7. CASE WatchdogClosePrinter
    BY <1>7 DEF WatchdogClosePrinter, Step, RequestClose
  <1>8. CASE WatchdogWakeAnalyzer
    BY <1>8 DEF WatchdogWakeAnalyzer, Step, WakeAll, Broadcast
  <1>9. CASE WatchdogWakePrinter
    BY <1>9 DEF WatchdogWakePrinter, Step, WakeAll, Broadcast
  <1> QED BY <1>1, <1>2, <1>3, <1>4, <1>5, <1>6, <1>7, <1>8, <1>9 DEF
         WatchdogStep

\* ... of the SIGTERM thread ...
LEMMA ControlSigterm ==
  ASSUME ControlInv, SigtermStep
  PROVE  ControlInv'
  <1> USE CpuThreadsAssumption
      DEF ControlInv, ControlTypes, Consumers, BarrierInv, LockInv, WaitInv,
          ExitInv, NoMissedWakeup, StopsOnlyWhenAsked, Label, Thread,
          Worker, Mutex, Cond, Nobody, BarrierCount, Joined
  <1>1. CASE SigtermStart
    BY <1>1 DEF SigtermStart, Step
  <1>2. CASE SigtermPoll
    BY <1>2 DEF SigtermPoll, Step
  <1>3. CASE SigtermCloseReader
    BY <1>3 DEF SigtermCloseReader, Step, RequestClose
  <1>4. CASE SigtermCloseAnalyzer
    BY <1>4 DEF SigtermCloseAnalyzer, Step, RequestClose
  <1>5. CASE SigtermClosePrinter
    BY <1>5 DEF SigtermClosePrinter, Step, RequestClose
  <1>6. CASE SigtermCloseWatchdog
    BY <1>6 DEF SigtermCloseWatchdog, Step, RequestClose
  <1>7. CASE SigtermWakeAnalyzer
    BY <1>7 DEF SigtermWakeAnalyzer, Step, WakeAll, Broadcast
  <1>8. CASE SigtermWakePrinter
    BY <1>8 DEF SigtermWakePrinter, Step, WakeAll, Broadcast
  <1> QED BY <1>1, <1>2, <1>3, <1>4, <1>5, <1>6, <1>7, <1>8 DEF SigtermStep

\* ... the arrival of SIGTERM, the end of main and spurious wakeups.
LEMMA ControlRest ==
  ASSUME ControlInv,
         \/ Sigterm
         \/ MainReturn
         \/ SpuriousWakeup("analyzer", "condCpuStatsQueue")
         \/ SpuriousWakeup("printer", "condCpuStatsPrinterQueue")
         \/ UNCHANGED vars
  PROVE  ControlInv'
  <1> USE CpuThreadsAssumption
      DEF ControlInv, ControlTypes, Consumers, BarrierInv, LockInv, WaitInv,
          ExitInv, NoMissedWakeup, StopsOnlyWhenAsked, Label, Thread,
          Worker, Mutex, Cond, Nobody, BarrierCount, Joined
  <1>1. CASE Sigterm
    BY <1>1 DEF Sigterm
  <1>2. CASE MainReturn
    BY <1>2 DEF MainReturn
  <1>3. CASE SpuriousWakeup("analyzer", "condCpuStatsQueue")
    BY <1>3 DEF SpuriousWakeup
  <1>4. CASE SpuriousWakeup("printer", "condCpuStatsPrinterQueue")
    BY <1>4 DEF SpuriousWakeup
  <1>5. CASE UNCHANGED vars
    BY <1>5 DEF vars
  <1> QED BY <1>1, <1>2, <1>3, <1>4, <1>5

\* The control invariant is inductive.
LEMMA ControlInit == Init => ControlInv
  <1> SUFFICES ASSUME Init PROVE ControlInv
    OBVIOUS
  <1>1. ControlTypes
    <2>1. pc \in [Thread -> Label] /\ threadsNum \in 0 .. CpuThreads + 1
      BY CpuThreadsAssumption DEF Init, Label
    <2>2. /\ mutex \in [Mutex -> Worker \cup {Nobody}]
          /\ waiting \in [Cond -> SUBSET Worker]
      BY DEF Init
    <2> QED BY <2>1, <2>2 DEF Init, ControlTypes
  <1>2. BarrierInv /\ LockInv /\ WaitInv
    BY DEF Init, BarrierInv, Consumers, LockInv, WaitInv, Thread, Worker, Mutex,
           Cond, Nobody
  <1>3. NoMissedWakeup /\ StopsOnlyWhenAsked /\ ExitInv
    BY DEF Init, NoMissedWakeup, StopsOnlyWhenAsked, ExitInv, Thread, Worker,
           Cond
  <1> QED BY <1>1, <1>2, <1>3 DEF ControlInv

LEMMA ControlNext == ControlInv /\ [Next]_vars => ControlInv'
  BY ControlReader, ControlAnalyzer, ControlPrinter, ControlWatchdog,
     ControlSigterm, ControlRest DEF Next

LEMMA ControlHolds == Spec => []ControlInv
  BY ControlInit, ControlNext, PTL DEF Spec

\* pc is a function, so a step of a thread leaves the others where they are.
LEMMA StepMoves ==
  ASSUME ControlInv, NEW t \in Thread, NEW from, NEW to, Step(t, from, to)
  PROVE  /\ pc[t] = from /\ pc'[t] = to
         /\ \A u \in Thread \ {t} : pc'[u] = pc[u]
  BY DEF ControlInv, ControlTypes, Step

\* While the analyzer works, threadsNum is final.
LEMMA ReadyThreads ==
  ASSUME ControlInv, pc["analyzer"] \notin {"Start", "Barrier"}
  PROVE  threadsNum = CpuThreads
  BY DEF ControlInv, BarrierInv, BarrierCount, Consumers

-----------------------------------------------------------------------------
(***************************************************************************)
(* Data                                                                    *)
(***************************************************************************)

\* Pushing a row keeps what is queued and never exceeds the capacity.
LEMMA PushAllResult ==
  ASSUME NEW S, NEW queue \in Seq(S), NEW row \in Seq(S),
         Len(queue) <= MAX_CAPACITY
  PROVE  /\ PushAll(queue, row) \in Seq(S)
         /\ Len(PushAll(queue, row)) =
              IF Len(queue) + Len(row) < MAX_CAPACITY
              THEN Len(queue) + Len(row) ELSE MAX_CAPACITY
         /\ \A i \in 1 .. Len(queue) : PushAll(queue, row)[i] = queue[i]
         /\ \A i \in 1 .. Len(row) :
              Len(queue) + i <= MAX_CAPACITY =>
                PushAll(queue, row)[Len(queue) + i] = row[i]
  <1> USE CapacityAssumption
  <1> DEFINE all == queue \o row
             n == AtMost(Len(all), MAX_CAPACITY)
  <1>1. /\ all \in Seq(S)
        /\ Len(all) = Len(queue) + Len(row)
        /\ \A i \in 1 .. Len(queue) : all[i] = queue[i]
        /\ \A i \in 1 .. Len(row) : all[Len(queue) + i] = row[i]
    OBVIOUS
  <1>2. n \in 0 .. Len(all) /\ n = IF Len(queue) + Len(row) < MAX_CAPACITY
                 THEN Len(queue) + Len(row) ELSE MAX_CAPACITY
    BY <1>1 DEF AtMost
  <1>3. /\ SubSeq(all, 1, n) \in Seq(S)
        /\ Len(SubSeq(all, 1, n)) = n
        /\ \A i \in 1 .. n : SubSeq(all, 1, n)[i] = all[i]
    BY <1>1, <1>2
  <1>4. PushAll(queue, row) = SubSeq(all, 1, n)
    BY DEF PushAll
  <1> HIDE DEF all, n
  <1>5. Len(queue) \in Nat /\ Len(row) \in Nat /\ n \in Nat
    BY <1>2
  <1> QED BY <1>1, <1>2, <1>3, <1>4, <1>5

\* Filling a buffer from a queue keeps its type.
LEMMA FillType ==
  ASSUME NEW S, NEW buffer \in [Cpu -> S], NEW queue \in Seq(S)
  PROVE  Fill(buffer, queue) \in [Cpu -> S]
  BY CpuThreadsAssumption DEF Fill, Cpu

DataInv ==
  /\ tick \in Tick
  /\ cpuStatsQueue \in Seq(Reading)
  /\ Len(cpuStatsQueue) <= MAX_CAPACITY
  /\ cpuStatsQueuePrint \in Seq(UsageCell)
  /\ Len(cpuStatsQueuePrint) <= MAX_CAPACITY
  /\ cpuStats \in [Cpu -> Cell]
  /\ prevCpuStats \in [Cpu -> Cell]
  /\ cpuStatsPrint \in [Cpu -> UsageCell]
  /\ frame \in [Cpu -> UsageCell]

dataVars == <<tick, queues, analyzerVars, frame>>

\* Most steps move no data.
LEMMA DataUnchanged ==
  ASSUME DataInv, UNCHANGED dataVars
  PROVE  DataInv'
  BY DEF DataInv, dataVars

\* What the reader pushes are readings.
LEMMA ReadingsType ==
  ASSUME NEW n \in 0 .. CpuThreads + 1, tick \in Tick
  PROVE  Readings(n) \in Seq(Reading) /\ NextTick \in Tick
  <1>1. NextTick \in Tick
    BY MaxTickAssumption DEF NextTick, AtMost, Tick
  <1>2. ASSUME NEW i \in 1 .. n PROVE [cpu |-> i - 1, tick |-> NextTick] \in Reading
    BY <1>1, CpuThreadsAssumption DEF Reading, Cpu
  <1> QED BY <1>1, <1>2, CpuThreadsAssumption DEF Readings

\* The steps of the reader keep the data invariant ...
LEMMA DataReader ==
  ASSUME ControlInv, DataInv, ReaderStep
  PROVE  DataInv'
  <1> USE DEF DataInv
  <1>1. CASE ReaderRead
    <2> DEFINE row == Readings(threadsNum + 1)
    <2>1. threadsNum + 1 \in 0 .. CpuThreads + 1
      BY <1>1, CpuThreadsAssumption DEF ReaderRead, Step, ControlInv, BarrierInv
    <2>2. row \in Seq(Reading) /\ NextTick \in Tick
      BY <2>1, ReadingsType
    <2>3. tick' = NextTick /\ cpuStatsQueue' = PushAll(cpuStatsQueue, row)
      BY <1>1 DEF ReaderRead
    <2> HIDE DEF row
    <2>4. cpuStatsQueue' \in Seq(Reading) /\ Len(cpuStatsQueue') <= MAX_CAPACITY
      BY <2>2, <2>3, PushAllResult, CapacityAssumption
    <2> QED BY <1>1, <2>2, <2>3, <2>4 DEF ReaderRead
  <1>2. CASE ReaderReadFails
    <2>1. PICK n \in 0 .. threadsNum :
            cpuStatsQueue' = PushAll(cpuStatsQueue, Readings(n))
      BY <1>2 DEF ReaderReadFails
    <2>2. n \in 0 .. CpuThreads + 1
      BY <2>1, CpuThreadsAssumption DEF ControlInv, ControlTypes
    <2>3. Readings(n) \in Seq(Reading) /\ tick' \in Tick
      BY <1>2, <2>2, ReadingsType DEF ReaderReadFails
    <2>4. cpuStatsQueue' \in Seq(Reading) /\ Len(cpuStatsQueue') <= MAX_CAPACITY
      BY <2>1, <2>3, PushAllResult, CapacityAssumption
    <2> QED BY <1>2, <2>3, <2>4 DEF ReaderReadFails
  <1>3. CASE UNCHANGED dataVars
    BY <1>3, DataUnchanged
  <1> QED BY <1>1, <1>2, <1>3
          DEF ReaderStep, ReaderStart, ReaderCount, ReaderLeaveBarrier, ReaderLock,
              ReaderOpenFails, ReaderSignal, ReaderMark, ReaderCheckClose, dataVars

\* ... and so do those of the analyzer ...
LEMMA DataAnalyzer ==
  ASSUME ControlInv, DataInv, AnalyzerStep
  PROVE  DataInv'
  <1> USE DEF DataInv
  <1>1. CASE AnalyzerLeaveBarrier
    <2>1. ASSUME NEW i \in Cpu PROVE [cpu |-> i, tick |-> 0] \in Reading
      BY MaxTickAssumption DEF Reading, Tick
    <2> QED BY <1>1, <2>1 DEF AnalyzerLeaveBarrier, Cell, UsageCell
  <1>2. CASE AnalyzerTake
    <2>1. cpuStatsQueue \in Seq(Cell)
      BY DEF Cell
    <2>2. cpuStats' \in [Cpu -> Cell]
      BY <1>2, <2>1, FillType DEF AnalyzerTake
    <2> QED BY <1>2, <2>2, CapacityAssumption DEF AnalyzerTake
  <1>3. CASE AnalyzerProcess
    <2>1. ASSUME NEW i \in Cpu
          PROVE  [cur |-> cpuStats[i], prev |-> prevCpuStats[i]] \in UsageCell
      BY DEF Usage, UsageCell
    <2> QED BY <1>3, <2>1 DEF AnalyzerProcess
  <1>4. CASE AnalyzerPush
    <2> DEFINE row == [i \in 1 .. threadsNum + 1 |-> cpuStatsPrint[i - 1]]
    <2>1. threadsNum = CpuThreads
      BY <1>4, CpuThreadsAssumption
         DEF AnalyzerPush, Step, ControlInv, BarrierInv, BarrierCount, Consumers
    <2>2. row \in Seq(UsageCell)
      <3>1. ASSUME NEW i \in 1 .. threadsNum + 1
            PROVE  cpuStatsPrint[i - 1] \in UsageCell
        BY <2>1, CpuThreadsAssumption DEF Cpu
      <3> QED BY <2>1, <3>1, CpuThreadsAssumption
    <2>3. cpuStatsQueuePrint' = PushAll(cpuStatsQueuePrint, row)
      BY <1>4 DEF AnalyzerPush
    <2> HIDE DEF row
    <2>4. /\ cpuStatsQueuePrint' \in Seq(UsageCell)
          /\ Len(cpuStatsQueuePrint') <= MAX_CAPACITY
      BY <2>2, <2>3, PushAllResult, CapacityAssumption
    <2> QED BY <1>4, <2>4 DEF AnalyzerPush
  <1>5. CASE AnalyzerMark
    BY <1>5 DEF AnalyzerMark
  <1>6. CASE UNCHANGED dataVars
    BY <1>6, DataUnchanged
  <1> QED BY <1>1, <1>2, <1>3, <1>4, <1>5, <1>6
          DEF AnalyzerStep, AnalyzerStart, AnalyzerLock, AnalyzerWait,
              AnalyzerWakeup, AnalyzerOverrun, AnalyzerSignal, dataVars

\* ... of the printer ...
LEMMA DataPrinter ==
  ASSUME DataInv, PrinterStep
  PROVE  DataInv'
  <1> USE DEF DataInv
  <1>1. CASE PrinterLeaveBarrier
    BY <1>1 DEF PrinterLeaveBarrier, UsageCell
  <1>2. CASE PrinterTake
    <2>1. frame' \in [Cpu -> UsageCell]
      BY <1>2, FillType DEF PrinterTake
    <2> QED BY <1>2, <2>1, CapacityAssumption DEF PrinterTake
  <1>3. CASE UNCHANGED dataVars
    BY <1>3, DataUnchanged
  <1> QED BY <1>1, <1>2, <1>3
          DEF PrinterStep, PrinterStart, PrinterLock, PrinterWait, PrinterWakeup,
              PrinterOverrun, PrinterPrint, dataVars

\* ... and all the others, which move no data.
LEMMA DataWatchdog ==
  ASSUME WatchdogStep \/ SigtermStep
  PROVE  UNCHANGED dataVars
  BY DEF WatchdogStep, WatchdogStart, WatchdogClear, WatchdogWake, WatchdogCheck,
         WatchdogCloseReader, WatchdogCloseAnalyzer, WatchdogClosePrinter,
         WatchdogWakeAnalyzer, WatchdogWakePrinter,
         SigtermStep, SigtermStart, SigtermPoll, SigtermCloseReader,
         SigtermCloseAnalyzer, SigtermClosePrinter, SigtermCloseWatchdog,
         SigtermWakeAnalyzer, SigtermWakePrinter, RequestClose, WakeAll, dataVars

LEMMA DataRest ==
  ASSUME \/ Sigterm
         \/ MainReturn
         \/ SpuriousWakeup("analyzer", "condCpuStatsQueue")
         \/ SpuriousWakeup("printer", "condCpuStatsPrinterQueue")
         \/ UNCHANGED vars
  PROVE  UNCHANGED dataVars
  BY DEF Sigterm, MainReturn, SpuriousWakeup, vars, dataVars

\* The data invariant is inductive relative to the control invariant.
LEMMA DataInit == Init => DataInv
  BY MaxTickAssumption, CapacityAssumption
     DEF Init, DataInv, Tick, Cell, UsageCell

LEMMA DataNext == ControlInv /\ DataInv /\ [Next]_vars => DataInv'
  BY DataReader, DataAnalyzer, DataPrinter, DataWatchdog, DataRest, DataUnchanged
     DEF Next

LEMMA DataHolds == Spec => []DataInv
  BY DataInit, DataNext, ControlHolds, PTL DEF Spec

-----------------------------------------------------------------------------
(***************************************************************************)
(* Theorems                                                                *)
(***************************************************************************)

\* Every variable keeps its type; in particular neither queue ever exceeds
\* MAX_CAPACITY (push_CpuStats, push_CpuStatsPrint).
THEOREM TypeCorrect == Spec => []TypeOK
  <1>1. ControlInv /\ DataInv => TypeOK
    BY DEF ControlInv, ControlTypes, BarrierInv, BarrierCount, Consumers,
           DataInv, TypeOK
  <1> QED BY <1>1, ControlHolds, DataHolds, PTL

\* reader and analyzer never work on cpuStatsQueue at the same time, analyzer
\* and printer never on cpuStatsQueuePrint.
THEOREM MutualExclusionHolds == Spec => []MutualExclusion
  <1>1. ControlInv => MutualExclusion
    BY DEF ControlInv, LockInv, MutualExclusion
  <1> QED BY <1>1, ControlHolds, PTL

\* A consumer blocked in pthread_cond_wait has nothing to consume, or its
\* producer is about to signal it, also when the reader fails.
THEOREM NoMissedWakeupHolds == Spec => []NoMissedWakeup
  <1>1. ControlInv => NoMissedWakeup
    BY DEF ControlInv
  <1> QED BY <1>1, ControlHolds, PTL

\* Past the barrier analyzer and printer find the final threadsNum.
THEOREM BarrierPublishes == Spec => []BarrierPublishesThreadsNum
  <1>1. ControlInv => BarrierPublishesThreadsNum
    BY DEF ControlInv, BarrierInv, Consumers, BarrierCount,
           BarrierPublishesThreadsNum
  <1> QED BY <1>1, ControlHolds, PTL

\* analyzer and printer return only when asked to.
THEOREM StopsOnlyWhenAskedHolds == Spec => []StopsOnlyWhenAsked
  <1>1. ControlInv => StopsOnlyWhenAsked
    BY DEF ControlInv
  <1> QED BY <1>1, ControlHolds, PTL

NoReadError ==
  ReadResults \cap {"FILE_READ_ERROR", "INCORRECT_NUM_CPU_USAGE"} = {}

\* As long as /proc/stat can be read in full no thread returns with a mutex.
THEOREM NoOrphanedLockHolds ==
  ASSUME NoReadError
  PROVE  Spec => []NoOrphanedLock
  <1>1. ControlInv => NoOrphanedLock
    BY NoReadError
       DEF NoReadError, ControlInv, ControlTypes, LockInv, NoOrphanedLock, Mutex,
           Nobody, Worker
  <1> QED BY <1>1, ControlHolds, PTL

\* As long as /proc/stat can be read in full, main destroys no mutex that is
\* locked and no condition variable that is waited on.
THEOREM TeardownQuietHolds ==
  ASSUME NoReadError
  PROVE  Spec => []TeardownQuiet
  <1>1. ControlInv => TeardownQuiet
    BY NoReadError
       DEF NoReadError, ControlInv, ControlTypes, LockInv, WaitInv, ExitInv,
           TeardownQuiet, Mutex, Cond, Nobody, Worker, Thread
  <1> QED BY <1>1, ControlHolds, PTL

-----------------------------------------------------------------------------
(***************************************************************************)
(* Nobody is asked to terminate before every thread has initialised its    *)
(* flags.                                                                  *)
(***************************************************************************)

BootInv ==
  /\ done => Booted
  /\ pc["sigterm"] \notin {"Start", "Poll"} => Booted
  /\ pc["watchdog"] \notin {"Start", "Clear", "Sleep"} => Booted
  /\ \A t \in Worker : toClose[t] => Booted

\* A thread initialises its flags once.
LEMMA StepBooted ==
  ASSUME ControlInv, Booted, NEW t \in Thread, NEW from, NEW to, to # "Start",
         Step(t, from, to)
  PROVE  Booted'
  BY DEF ControlInv, ControlTypes, Booted, Step

\* What the requests of the worker threads do to each other: a worker that
\* starts withdraws its own, every other step of a worker leaves them alone.
LEMMA WorkerRequests ==
  ASSUME ControlInv, ReaderStep \/ AnalyzerStep \/ PrinterStep
  PROVE  /\ \/ UNCHANGED toClose
            \/ \E t \in Worker : /\ pc[t] = "Start"
                                 /\ toClose' = [toClose EXCEPT ![t] = FALSE]
         /\ UNCHANGED done
         /\ pc'["sigterm"] = pc["sigterm"] /\ pc'["watchdog"] = pc["watchdog"]
         /\ Booted => Booted'
  <1> USE DEF Worker
  <1>0. /\ \A t \in Worker : t \in Thread /\ {"watchdog", "sigterm"} \subseteq Thread \ {t}
    BY DEF Thread
  <1>1. CASE ReaderStep
    <2> USE DEF ReaderStep, ReaderStart, ReaderCount, ReaderLeaveBarrier,
                ReaderLock, ReaderRead, ReaderReadFails, ReaderOpenFails,
                ReaderSignal, ReaderMark, ReaderCheckClose, LeaveBarrier
    <2>1. \/ UNCHANGED <<toClose, done>>
          \/ /\ Step("reader", "Start", "Count") /\ UNCHANGED done
             /\ toClose' = [toClose EXCEPT !["reader"] = FALSE]
      BY <1>1
    <2>2. pc'["sigterm"] = pc["sigterm"] /\ pc'["watchdog"] = pc["watchdog"]
      BY <1>0, <1>1, StepMoves
    <2>3. Booted => Booted'
      BY <1>0, <1>1, StepBooted DEF Booted
    <2> QED BY <1>0, <2>1, <2>2, <2>3, StepMoves
  <1>2. CASE AnalyzerStep
    <2> USE DEF AnalyzerStep, AnalyzerStart, AnalyzerLeaveBarrier, AnalyzerLock,
                AnalyzerWait, AnalyzerWakeup, AnalyzerTake, AnalyzerOverrun,
                AnalyzerProcess, AnalyzerPush, AnalyzerSignal, AnalyzerMark,
                LeaveBarrier
    <2>1. \/ UNCHANGED <<toClose, done>>
          \/ /\ Step("analyzer", "Start", "Barrier") /\ UNCHANGED done
             /\ toClose' = [toClose EXCEPT !["analyzer"] = FALSE]
      BY <1>2
    <2>2. pc'["sigterm"] = pc["sigterm"] /\ pc'["watchdog"] = pc["watchdog"]
      BY <1>0, <1>2, StepMoves
    <2>3. Booted => Booted'
      BY <1>0, <1>2, StepBooted DEF Booted
    <2> QED BY <1>0, <2>1, <2>2, <2>3, StepMoves
  <1>3. CASE PrinterStep
    <2> USE DEF PrinterStep, PrinterStart, PrinterLeaveBarrier, PrinterLock,
                PrinterWait, PrinterWakeup, PrinterTake, PrinterOverrun,
                PrinterPrint, LeaveBarrier
    <2>1. \/ UNCHANGED <<toClose, done>>
          \/ /\ Step("printer", "Start", "Barrier") /\ UNCHANGED done
             /\ toClose' = [toClose EXCEPT !["printer"] = FALSE]
      BY <1>3
    <2>2. pc'["sigterm"] = pc["sigterm"] /\ pc'["watchdog"] = pc["watchdog"]
      BY <1>0, <1>3, StepMoves
    <2>3. Booted => Booted'
      BY <1>0, <1>3, StepBooted DEF Booted
    <2> QED BY <1>0, <2>1, <2>2, <2>3, StepMoves
  <1> QED BY <1>1, <1>2, <1>3

\* The watchdog withdraws requests to itself only, and makes others only when
\* a sleep has ended.
LEMMA WatchdogRequests ==
  ASSUME PromptStart, ControlInv, BootInv, WatchdogStep
  PROVE  BootInv' /\ \A t \in Worker : toClose[t] => toClose'[t]
  <1> USE DEF Worker, Thread, BootInv
  <1>1. CASE WatchdogStart
    <2>1. /\ pc["watchdog"] = "Start" /\ pc'["watchdog"] = "Clear"
          /\ pc'["sigterm"] = pc["sigterm"] /\ UNCHANGED done
          /\ \A t \in Worker : toClose'[t] = toClose[t]
      BY <1>1, StepMoves DEF WatchdogStart, ControlInv, ControlTypes
    <2> QED BY <2>1 DEF Booted
  <1>2. CASE WatchdogClear
    <2>1. /\ pc'["watchdog"] = "Sleep"
          /\ pc'["sigterm"] = pc["sigterm"] /\ UNCHANGED done
          /\ \A t \in Worker : toClose'[t] = toClose[t]
      BY <1>2, StepMoves DEF WatchdogClear, ControlInv, ControlTypes
    <2>2. Booted => Booted'
      BY <1>2, StepBooted DEF WatchdogClear
    <2> QED BY <2>1, <2>2
  <1>3. CASE WatchdogWake
    <2>1. UNCHANGED <<done, toClose>>
      BY <1>3 DEF WatchdogWake
    <2>2. Booted
      BY <1>3 DEF WatchdogWake, SleepOver
    <2>3. Booted'
      BY <1>3, <2>2, StepBooted DEF WatchdogWake
    <2> QED BY <2>1, <2>3
  <1>4. ASSUME NEW to, to # "Start", NEW from,
               from \notin {"Start", "Clear", "Sleep"}, Step("watchdog", from, to),
               UNCHANGED done,
               \A t \in Worker : toClose[t] => toClose'[t]
        PROVE  BootInv' /\ \A t \in Worker : toClose[t] => toClose'[t]
    <2>1. Booted
      BY <1>4, StepMoves
    <2>2. Booted'
      BY <1>4, <2>1, StepBooted
    <2> QED BY <1>4, <2>2
  <1>5. CASE WatchdogCheck
    BY <1>4, <1>5 DEF WatchdogCheck
  <1>6. CASE \/ WatchdogCloseReader \/ WatchdogCloseAnalyzer \/ WatchdogClosePrinter
    <2>1. \A t \in Worker : toClose[t] => toClose'[t]
      BY <1>6 DEF WatchdogCloseReader, WatchdogCloseAnalyzer, WatchdogClosePrinter,
                  RequestClose, ControlInv, ControlTypes
    <2> QED BY <1>4, <1>6, <2>1
            DEF WatchdogCloseReader, WatchdogCloseAnalyzer, WatchdogClosePrinter,
                RequestClose
  <1>7. CASE WatchdogWakeAnalyzer \/ WatchdogWakePrinter
    BY <1>4, <1>7 DEF WatchdogWakeAnalyzer, WatchdogWakePrinter, WakeAll
  <1> QED BY <1>1, <1>2, <1>3, <1>5, <1>6, <1>7 DEF WatchdogStep

\* The SIGTERM thread withdraws none, and makes some only after a SIGTERM.
LEMMA SigtermRequests ==
  ASSUME ControlInv, BootInv, SigtermStep
  PROVE  BootInv' /\ \A t \in Worker : toClose[t] => toClose'[t]
  <1> USE DEF Worker, Thread, BootInv
  <1>1. CASE SigtermStart
    <2>1. /\ pc["sigterm"] = "Start" /\ pc'["sigterm"] = "Poll"
          /\ pc'["watchdog"] = pc["watchdog"] /\ UNCHANGED <<toClose, done>>
      BY <1>1, StepMoves DEF SigtermStart
    <2> QED BY <2>1 DEF Booted
  <1>2. ASSUME NEW to, to # "Start", NEW from, Step("sigterm", from, to),
               done \/ from \notin {"Start", "Poll"}, UNCHANGED done,
               \A t \in Worker : toClose[t] => toClose'[t]
        PROVE  BootInv' /\ \A t \in Worker : toClose[t] => toClose'[t]
    <2>1. Booted
      BY <1>2, StepMoves
    <2>2. Booted'
      BY <1>2, <2>1, StepBooted
    <2> QED BY <1>2, <2>2
  <1>3. CASE SigtermPoll
    BY <1>2, <1>3 DEF SigtermPoll
  <1>4. CASE \/ SigtermCloseReader \/ SigtermCloseAnalyzer
             \/ SigtermClosePrinter \/ SigtermCloseWatchdog
    <2>1. \A t \in Worker : toClose[t] => toClose'[t]
      BY <1>4 DEF SigtermCloseReader, SigtermCloseAnalyzer, SigtermClosePrinter,
                  SigtermCloseWatchdog, RequestClose, ControlInv, ControlTypes
    <2> QED BY <1>2, <1>4, <2>1
            DEF SigtermCloseReader, SigtermCloseAnalyzer, SigtermClosePrinter,
                SigtermCloseWatchdog, RequestClose
  <1>5. CASE SigtermWakeAnalyzer \/ SigtermWakePrinter
    BY <1>2, <1>5 DEF SigtermWakeAnalyzer, SigtermWakePrinter, WakeAll
  <1> QED BY <1>1, <1>3, <1>4, <1>5 DEF SigtermStep

\* A step keeps BootInv, and with it every request to a worker.
LEMMA BootNext ==
  ASSUME PromptStart, ControlInv, BootInv, [Next]_vars
  PROVE  BootInv' /\ \A t \in Worker : toClose[t] => toClose'[t]
  <1>1. CASE ReaderStep \/ AnalyzerStep \/ PrinterStep
    <2>1. CASE UNCHANGED toClose
      BY <1>1, <2>1, WorkerRequests DEF BootInv
    <2>2. CASE \E t \in Worker : /\ pc[t] = "Start"
                                 /\ toClose' = [toClose EXCEPT ![t] = FALSE]
      <3>1. ~Booted
        BY <2>2 DEF Booted, Thread
      <3>2. \A t \in Worker : ~toClose[t]
        BY <3>1 DEF BootInv
      <3>3. \A t \in Worker : ~toClose'[t]
        BY <2>2, <3>2 DEF ControlInv, ControlTypes
      <3> QED BY <1>1, <3>1, <3>2, <3>3, WorkerRequests DEF BootInv
    <2> QED BY <1>1, <2>1, <2>2, WorkerRequests
  <1>2. CASE Sigterm
    <2>1. UNCHANGED <<pc, toClose>> /\ Booted
      BY <1>2 DEF Sigterm
    <2> QED BY <2>1 DEF BootInv, Booted
  <1>3. CASE \/ MainReturn
             \/ SpuriousWakeup("analyzer", "condCpuStatsQueue")
             \/ SpuriousWakeup("printer", "condCpuStatsPrinterQueue")
             \/ UNCHANGED vars
    <2>1. UNCHANGED <<pc, toClose, done>>
      BY <1>3 DEF MainReturn, SpuriousWakeup, vars
    <2> QED BY <2>1 DEF BootInv, Booted
  <1> QED BY <1>1, <1>2, <1>3, WatchdogRequests, SigtermRequests DEF Next

LEMMA BootHolds ==
  ASSUME PromptStart
  PROVE  Spec => []BootInv
  <1>1. Init => BootInv
    BY DEF Init, BootInv, Worker, Thread
  <1>2. ControlInv /\ BootInv /\ [Next]_vars => BootInv'
    BY PromptStart, BootNext
  <1> QED BY <1>1, <1>2, ControlHolds, PTL DEF Spec

\* If the threads start in time, no request to close a worker is ever
\* withdrawn, by whatever the watchdog and the workers do to their flags.
THEOREM CloseRequestsStickHolds ==
  ASSUME PromptStart
  PROVE  Spec => CloseRequestsStick
  <1>1. ControlInv /\ BootInv /\ [Next]_vars
          => [\A t \in Worker : toClose[t] => toClose'[t]]_vars
    BY PromptStart, BootNext
  <1>2. Spec => []ControlInv /\ []BootInv /\ [][Next]_vars
    BY PromptStart, ControlHolds, BootHolds DEF Spec
  <1> QED BY <1>1, <1>2, PTL DEF CloseRequestsStick

-----------------------------------------------------------------------------
(***************************************************************************)
(* Frames: the pipeline keeps rounds whole, and the intervals of           *)
(* consecutive frames adjoin, for every number of CPUs and every capacity. *)
(***************************************************************************)

\* The number of rows of a round.
Rows == CpuThreads + 1

\* A round fits the queues.
RoundFits == Rows <= MAX_CAPACITY

-----------------------------------------------------------------------------
(***************************************************************************)
(* Adjoining intervals.  Between two pushes the last row of the queue ends *)
(* where the next one will begin: at cpuStats until memcpy, at             *)
(* prevCpuStats after it.  A queue that is full takes nothing until it is  *)
(* drained.                                                                *)
(***************************************************************************)

PrintRowInv ==
  pc["analyzer"] \in {"Push", "Signal", "Mark"} =>
    \A i \in Cpu :
      cpuStatsPrint[i] = [cur |-> cpuStats[i], prev |-> prevCpuStats[i]]

LastBatch == IF pc["analyzer"] \in {"Signal", "Mark"} THEN cpuStats
                                                      ELSE prevCpuStats

LastRowInv ==
  cpuStatsQueuePrint # <<>> /\ Len(cpuStatsQueuePrint) < MAX_CAPACITY =>
    /\ Len(cpuStatsQueuePrint) >= Rows
    /\ \A i \in Cpu :
         cpuStatsQueuePrint[Len(cpuStatsQueuePrint) - Rows + i + 1].cur
           = LastBatch[i]

\* Nothing is in the printer's queue before the analyzer has started.
EarlyInv == pc["analyzer"] \in {"Start", "Barrier"} => cpuStatsQueuePrint = <<>>

AdjoinInv == PrintRowInv /\ LastRowInv /\ EarlyInv /\ FramesAdjoin

\* A step that leaves prevCpuStats and the queue alone, outside of the span
\* from the computation of figures to memcpy.
LEMMA AdjoinIdle ==
  ASSUME AdjoinInv,
         pc["analyzer"] \notin {"Push", "Signal", "Mark"},
         pc'["analyzer"] \notin {"Push", "Signal", "Mark"},
         pc'["analyzer"] \in {"Start", "Barrier"} =>
           pc["analyzer"] \in {"Start", "Barrier"},
         UNCHANGED <<prevCpuStats, cpuStatsQueuePrint>>
  PROVE  AdjoinInv'
  <1> USE DEF AdjoinInv
  <1>1. PrintRowInv'
    BY DEF PrintRowInv
  <1>2. LastBatch = prevCpuStats /\ LastBatch' = prevCpuStats
    BY DEF LastBatch
  <1>3. LastRowInv'
    BY <1>2 DEF LastRowInv
  <1>4. EarlyInv'
    BY DEF EarlyInv
  <1>5. FramesAdjoin'
    BY DEF FramesAdjoin
  <1> QED BY <1>1, <1>3, <1>4, <1>5

\* A step of a thread that has nothing to do with these rows.
LEMMA AdjoinUnchanged ==
  ASSUME AdjoinInv, pc'["analyzer"] = pc["analyzer"],
         UNCHANGED <<cpuStats, prevCpuStats, cpuStatsPrint, cpuStatsQueuePrint>>
  PROVE  AdjoinInv'
  <1> USE DEF AdjoinInv
  <1>1. PrintRowInv'
    BY DEF PrintRowInv
  <1>2. LastBatch' = LastBatch
    BY DEF LastBatch
  <1>3. LastRowInv'
    BY <1>2 DEF LastRowInv
  <1>4. EarlyInv'
    BY DEF EarlyInv
  <1>5. FramesAdjoin'
    BY DEF FramesAdjoin
  <1> QED BY <1>1, <1>3, <1>4, <1>5

\* The printer drains the queue.
LEMMA AdjoinDrained ==
  ASSUME AdjoinInv, pc'["analyzer"] = pc["analyzer"],
         UNCHANGED <<cpuStats, prevCpuStats, cpuStatsPrint>>,
         cpuStatsQueuePrint' = <<>>
  PROVE  AdjoinInv'
  <1>1. PrintRowInv'
    BY DEF AdjoinInv, PrintRowInv
  <1>2. LastRowInv' /\ EarlyInv'
    BY DEF LastRowInv, EarlyInv
  <1>3. 1 .. Len(cpuStatsQueuePrint') - (CpuThreads + 1) = {}
    BY CpuThreadsAssumption
  <1>4. FramesAdjoin'
    BY <1>3 DEF FramesAdjoin
  <1> QED BY <1>1, <1>2, <1>4 DEF AdjoinInv

\* The row the analyzer is about to push, and the queue afterwards.
LEMMA PushedRow ==
  ASSUME ControlInv, DataInv, AnalyzerPush
  PROVE  /\ pc["analyzer"] = "Push" /\ pc'["analyzer"] = "Signal"
         /\ threadsNum = CpuThreads
         /\ UNCHANGED <<cpuStats, prevCpuStats, cpuStatsPrint>>
         /\ Len(cpuStatsQueuePrint') =
              IF Len(cpuStatsQueuePrint) + Rows < MAX_CAPACITY
              THEN Len(cpuStatsQueuePrint) + Rows ELSE MAX_CAPACITY
         /\ \A k \in 1 .. Len(cpuStatsQueuePrint) :
              cpuStatsQueuePrint'[k] = cpuStatsQueuePrint[k]
         /\ \A i \in Cpu :
              Len(cpuStatsQueuePrint) + i + 1 <= MAX_CAPACITY =>
                cpuStatsQueuePrint'[Len(cpuStatsQueuePrint) + i + 1]
                  = cpuStatsPrint[i]
  <1> USE CpuThreadsAssumption, CapacityAssumption
  <1> DEFINE row == [i \in 1 .. threadsNum + 1 |-> cpuStatsPrint[i - 1]]
  <1>1. /\ pc["analyzer"] = "Push" /\ pc'["analyzer"] = "Signal"
        /\ threadsNum = CpuThreads
        /\ UNCHANGED <<cpuStats, prevCpuStats, cpuStatsPrint>>
    BY DEF AnalyzerPush, Step, ControlInv, ControlTypes, BarrierInv,
           BarrierCount, Consumers, Thread, Worker
  <1>2. cpuStatsQueuePrint' = PushAll(cpuStatsQueuePrint, row)
    BY DEF AnalyzerPush
  <1>3. /\ row \in Seq(UsageCell)
        /\ Len(row) = Rows
        /\ \A i \in Cpu : row[i + 1] = cpuStatsPrint[i] /\ i + 1 \in 1 .. Rows
    <2>1. ASSUME NEW i \in 1 .. threadsNum + 1
          PROVE  cpuStatsPrint[i - 1] \in UsageCell
      BY <1>1 DEF Cpu, DataInv
    <2>2. row \in Seq(UsageCell) /\ Len(row) = Rows
      BY <1>1, <2>1 DEF Rows
    <2>3. ASSUME NEW i \in Cpu
          PROVE  row[i + 1] = cpuStatsPrint[i] /\ i + 1 \in 1 .. Rows
      BY <1>1 DEF Cpu, Rows
    <2> QED BY <2>2, <2>3
  <1>4. cpuStatsQueuePrint \in Seq(UsageCell) /\ Len(cpuStatsQueuePrint) <= MAX_CAPACITY
    BY DEF DataInv
  <1> HIDE DEF row
  <1>5. /\ Len(cpuStatsQueuePrint') =
              IF Len(cpuStatsQueuePrint) + Rows < MAX_CAPACITY
              THEN Len(cpuStatsQueuePrint) + Rows ELSE MAX_CAPACITY
        /\ \A k \in 1 .. Len(cpuStatsQueuePrint) :
              cpuStatsQueuePrint'[k] = cpuStatsQueuePrint[k]
        /\ \A i \in 1 .. Rows :
              Len(cpuStatsQueuePrint) + i <= MAX_CAPACITY =>
                cpuStatsQueuePrint'[Len(cpuStatsQueuePrint) + i] = row[i]
    <2> DEFINE q == PushAll(cpuStatsQueuePrint, row)
    <2>1. /\ Len(q) = IF Len(cpuStatsQueuePrint) + Len(row) < MAX_CAPACITY
                      THEN Len(cpuStatsQueuePrint) + Len(row) ELSE MAX_CAPACITY
          /\ \A k \in 1 .. Len(cpuStatsQueuePrint) : q[k] = cpuStatsQueuePrint[k]
          /\ \A i \in 1 .. Len(row) :
                Len(cpuStatsQueuePrint) + i <= MAX_CAPACITY =>
                  q[Len(cpuStatsQueuePrint) + i] = row[i]
      <3>1. /\ cpuStatsQueuePrint \in Seq(UsageCell) /\ row \in Seq(UsageCell)
            /\ Len(cpuStatsQueuePrint) <= MAX_CAPACITY
        BY <1>3, <1>4
      <3>2. Len(q) = IF Len(cpuStatsQueuePrint) + Len(row) < MAX_CAPACITY
                     THEN Len(cpuStatsQueuePrint) + Len(row) ELSE MAX_CAPACITY
        BY <3>1, PushAllResult
      <3>3. ASSUME NEW k \in 1 .. Len(cpuStatsQueuePrint)
            PROVE  q[k] = cpuStatsQueuePrint[k]
        BY <3>1, PushAllResult
      <3>4. ASSUME NEW i \in 1 .. Len(row),
                   Len(cpuStatsQueuePrint) + i <= MAX_CAPACITY
            PROVE  q[Len(cpuStatsQueuePrint) + i] = row[i]
        BY <3>1, <3>4, PushAllResult
      <3> QED BY <3>2, <3>3, <3>4
    <2>2. cpuStatsQueuePrint' = q /\ Len(row) = Rows
      BY <1>2, <1>3
    <2> HIDE DEF q
    <2> QED BY <2>1, <2>2
  <1>6. ASSUME NEW i \in Cpu, Len(cpuStatsQueuePrint) + i + 1 <= MAX_CAPACITY
        PROVE  cpuStatsQueuePrint'[Len(cpuStatsQueuePrint) + i + 1] = cpuStatsPrint[i]
    <2>1. /\ i + 1 \in 1 .. Rows
          /\ Len(cpuStatsQueuePrint) + i + 1 = Len(cpuStatsQueuePrint) + (i + 1)
      BY <1>3, <1>4 DEF Cpu
    <2> QED BY <1>3, <1>5, <1>6, <2>1
  <1> QED BY <1>1, <1>5, <1>6

LEMMA AdjoinPush ==
  ASSUME ControlInv, DataInv, AdjoinInv, AnalyzerPush
  PROVE  AdjoinInv'
  <1> USE CpuThreadsAssumption, CapacityAssumption
  <1> DEFINE L == Len(cpuStatsQueuePrint)
  <1>1. L \in Nat /\ L <= MAX_CAPACITY /\ Rows \in Nat /\ Rows > 1
    BY DEF DataInv, Rows
  <1>2. /\ Len(cpuStatsQueuePrint') \in Nat
        /\ Len(cpuStatsQueuePrint') = IF L + Rows < MAX_CAPACITY
                                      THEN L + Rows ELSE MAX_CAPACITY
    <2>1. Len(cpuStatsQueuePrint') = IF L + Rows < MAX_CAPACITY
                                      THEN L + Rows ELSE MAX_CAPACITY
      BY PushedRow
    <2> QED BY <1>1, <2>1
  <1>3. PrintRowInv'
    BY PushedRow DEF AdjoinInv, PrintRowInv
  <1>7. ASSUME NEW i \in Cpu
        PROVE  cpuStatsPrint[i].cur = cpuStats[i] /\ cpuStatsPrint[i].prev = prevCpuStats[i]
    <2>1. cpuStatsPrint[i] = [cur |-> cpuStats[i], prev |-> prevCpuStats[i]]
      BY PushedRow DEF AdjoinInv, PrintRowInv
    <2> QED BY <2>1
  <1>4. LastRowInv'
    <2> SUFFICES ASSUME Len(cpuStatsQueuePrint') < MAX_CAPACITY
                 PROVE  /\ Len(cpuStatsQueuePrint') >= Rows
                        /\ \A i \in Cpu :
                             cpuStatsQueuePrint'[Len(cpuStatsQueuePrint') - Rows + i + 1].cur
                               = cpuStats[i]
      BY PushedRow DEF LastRowInv, LastBatch
    <2>1. Len(cpuStatsQueuePrint') = L + Rows /\ L + Rows < MAX_CAPACITY
      BY <1>1, <1>2
    <2>2. ASSUME NEW i \in Cpu
          PROVE  cpuStatsQueuePrint'[Len(cpuStatsQueuePrint') - Rows + i + 1].cur
                   = cpuStats[i]
      <3>1. /\ Len(cpuStatsQueuePrint') - Rows + i + 1 = L + i + 1
            /\ L + i + 1 <= MAX_CAPACITY
        BY <1>1, <2>1 DEF Cpu, Rows
      <3>2. cpuStatsQueuePrint'[L + i + 1] = cpuStatsPrint[i]
        BY <3>1, PushedRow
      <3>3. cpuStatsPrint[i].cur = cpuStats[i]
        BY <1>7
      <3> QED BY <3>1, <3>2, <3>3
    <2>3. Len(cpuStatsQueuePrint') >= Rows
      BY <1>1, <2>1
    <2> QED BY <2>2, <2>3
  <1>5. EarlyInv'
    BY PushedRow DEF EarlyInv
  <1>6. FramesAdjoin'
    <2> SUFFICES ASSUME NEW k \in 1 .. Len(cpuStatsQueuePrint') - Rows
                 PROVE  cpuStatsQueuePrint'[k + Rows].prev = cpuStatsQueuePrint'[k].cur
      BY DEF FramesAdjoin, Rows
    <2>1. k \in Nat /\ k >= 1 /\ k + Rows <= Len(cpuStatsQueuePrint')
      BY <1>1, <1>2
    <2>2. CASE k + Rows <= L
      <3>1. k \in 1 .. L - Rows /\ k \in 1 .. L /\ k + Rows \in 1 .. L
        BY <1>1, <2>1, <2>2
      <3>2. cpuStatsQueuePrint[k + Rows].prev = cpuStatsQueuePrint[k].cur
        BY <3>1 DEF AdjoinInv, FramesAdjoin, Rows
      <3> QED BY <3>1, <3>2, PushedRow
    <2>3. CASE k + Rows > L
      <3> DEFINE i == k + Rows - L - 1
      <3>1. L < MAX_CAPACITY /\ i \in Nat /\ i < Rows /\ L + i + 1 <= MAX_CAPACITY
        BY <1>1, <1>2, <2>1, <2>3
      <3>2. cpuStatsQueuePrint # <<>>
        <4> SUFFICES ASSUME cpuStatsQueuePrint = <<>> PROVE FALSE
          OBVIOUS
        <4>1. L = 0
          OBVIOUS
        <4>2. Len(cpuStatsQueuePrint') <= Rows
          BY <1>1, <1>2, <4>1
        <4> QED BY <1>1, <2>1, <4>2
      <3>3. i \in Cpu
        BY <1>1, <3>1 DEF Cpu, Rows
      <3>4. L >= Rows /\ cpuStatsQueuePrint[L - Rows + i + 1].cur = prevCpuStats[i]
        BY <3>1, <3>2, <3>3, PushedRow DEF AdjoinInv, LastRowInv, LastBatch
      <3>5. k = L - Rows + i + 1 /\ k + Rows = L + i + 1 /\ k \in 1 .. L
        BY <1>1, <2>1, <3>1, <3>4
      <3>6. cpuStatsQueuePrint'[L + i + 1] = cpuStatsPrint[i]
        BY <3>1, <3>3, PushedRow
      <3>7. cpuStatsQueuePrint'[k] = cpuStatsQueuePrint[k]
        BY <3>5, PushedRow
      <3> HIDE DEF i
      <3>8. cpuStatsPrint[i].prev = prevCpuStats[i]
        BY <1>7, <3>3
      <3> QED BY <3>4, <3>5, <3>6, <3>7, <3>8
    <2>4. k + Rows <= L \/ k + Rows > L
      BY <1>1, <2>1
    <2> QED BY <2>2, <2>3, <2>4
  <1> QED BY <1>3, <1>4, <1>5, <1>6 DEF AdjoinInv

LEMMA AdjoinAnalyzer ==
  ASSUME ControlInv, DataInv, AdjoinInv, AnalyzerStep
  PROVE  AdjoinInv'
  <1>0. "analyzer" \in Thread
    BY DEF Thread, Worker
  <1>1. CASE AnalyzerStart
    <2>1. pc["analyzer"] = "Start" /\ pc'["analyzer"] = "Barrier"
      BY <1>0, <1>1, StepMoves DEF AnalyzerStart
    <2>2. UNCHANGED <<prevCpuStats, cpuStatsQueuePrint>>
      BY <1>1 DEF AnalyzerStart
    <2> QED BY <2>1, <2>2, AdjoinIdle
  <1>2. CASE AnalyzerLeaveBarrier
    <2>1. pc["analyzer"] = "Barrier" /\ pc'["analyzer"] = "Lock"
      BY <1>0, <1>2, StepMoves DEF AnalyzerLeaveBarrier, LeaveBarrier
    <2>2. cpuStatsQueuePrint = <<>> /\ cpuStatsQueuePrint' = <<>>
      BY <1>2, <2>1 DEF AnalyzerLeaveBarrier, AdjoinInv, EarlyInv
    <2>3. PrintRowInv' /\ LastRowInv' /\ EarlyInv'
      BY <2>1, <2>2 DEF PrintRowInv, LastRowInv, EarlyInv
    <2>4. 1 .. Len(cpuStatsQueuePrint') - (CpuThreads + 1) = {}
      BY <2>2, CpuThreadsAssumption
    <2>5. FramesAdjoin'
      BY <2>4 DEF FramesAdjoin
    <2> QED BY <2>3, <2>5 DEF AdjoinInv
  <1>3. CASE AnalyzerLock
    <2>1. pc["analyzer"] = "Lock" /\ pc'["analyzer"] = "Take"
      BY <1>0, <1>3, StepMoves DEF AnalyzerLock
    <2>2. UNCHANGED <<prevCpuStats, cpuStatsQueuePrint>>
      BY <1>3 DEF AnalyzerLock
    <2> QED BY <2>1, <2>2, AdjoinIdle
  <1>4. CASE AnalyzerWait
    <2>1. pc["analyzer"] = "Take" /\ pc'["analyzer"] = "Wait"
      BY <1>0, <1>4, StepMoves DEF AnalyzerWait
    <2>2. UNCHANGED <<prevCpuStats, cpuStatsQueuePrint>>
      BY <1>4 DEF AnalyzerWait
    <2> QED BY <2>1, <2>2, AdjoinIdle
  <1>5. CASE AnalyzerWakeup
    <2>1. pc["analyzer"] = "Wait" /\ pc'["analyzer"] \in {"Done", "Take"}
      BY <1>0, <1>5, StepMoves DEF AnalyzerWakeup
    <2>2. UNCHANGED <<prevCpuStats, cpuStatsQueuePrint>>
      BY <1>5 DEF AnalyzerWakeup
    <2> QED BY <2>1, <2>2, AdjoinIdle
  <1>6. CASE AnalyzerTake
    <2>1. pc["analyzer"] = "Take" /\ pc'["analyzer"] = "Process"
      BY <1>0, <1>6, StepMoves DEF AnalyzerTake
    <2>2. UNCHANGED <<prevCpuStats, cpuStatsQueuePrint>>
      BY <1>6 DEF AnalyzerTake
    <2> QED BY <2>1, <2>2, AdjoinIdle
  <1>7. CASE AnalyzerOverrun
    BY <1>7, AdjoinUnchanged DEF AnalyzerOverrun
  <1>8. CASE AnalyzerProcess
    <2>1. pc["analyzer"] = "Process" /\ pc'["analyzer"] = "Push"
      BY <1>0, <1>8, StepMoves DEF AnalyzerProcess
    <2>2. UNCHANGED <<cpuStats, prevCpuStats, cpuStatsQueuePrint>>
      BY <1>8 DEF AnalyzerProcess
    <2>3. threadsNum = CpuThreads
      BY <2>1, ReadyThreads
    <2>4. \A i \in Cpu : cpuStatsPrint'[i]
                           = [cur |-> cpuStats[i], prev |-> prevCpuStats[i]]
      BY <1>8, <2>3, CpuThreadsAssumption DEF AnalyzerProcess, Cpu
    <2>5. PrintRowInv'
      BY <2>2, <2>4 DEF PrintRowInv
    <2>6. LastBatch' = LastBatch
      BY <2>1, <2>2 DEF LastBatch
    <2>7. LastRowInv' /\ EarlyInv' /\ FramesAdjoin'
      BY <2>1, <2>2, <2>6 DEF AdjoinInv, LastRowInv, EarlyInv, FramesAdjoin
    <2> QED BY <2>5, <2>7 DEF AdjoinInv
  <1>9. CASE AnalyzerPush
    BY <1>9, AdjoinPush
  <1>10. CASE AnalyzerSignal
    <2>1. pc["analyzer"] = "Signal" /\ pc'["analyzer"] = "Mark"
      BY <1>0, <1>10, StepMoves DEF AnalyzerSignal
    <2>2. UNCHANGED <<cpuStats, prevCpuStats, cpuStatsPrint, cpuStatsQueuePrint>>
      BY <1>10 DEF AnalyzerSignal
    <2>3. LastBatch' = LastBatch
      BY <2>1, <2>2 DEF LastBatch
    <2> QED BY <2>1, <2>2, <2>3
            DEF AdjoinInv, PrintRowInv, LastRowInv, EarlyInv, FramesAdjoin
  <1>11. CASE AnalyzerMark
    <2>1. pc["analyzer"] = "Mark" /\ pc'["analyzer"] = "Lock"
      BY <1>0, <1>11, StepMoves DEF AnalyzerMark
    <2>2. UNCHANGED cpuStatsQueuePrint
      BY <1>11 DEF AnalyzerMark
    <2>3. threadsNum = CpuThreads
      BY <2>1, ReadyThreads
    <2>4. \A i \in Cpu : prevCpuStats'[i] = cpuStats[i]
      BY <1>11, <2>3, CpuThreadsAssumption DEF AnalyzerMark, Cpu
    <2>5. \A i \in Cpu : LastBatch'[i] = LastBatch[i]
      BY <2>1, <2>4 DEF LastBatch
    <2>6. LastRowInv'
      BY <2>2, <2>5 DEF AdjoinInv, LastRowInv
    <2>7. PrintRowInv' /\ EarlyInv' /\ FramesAdjoin'
      BY <2>1, <2>2 DEF AdjoinInv, PrintRowInv, EarlyInv, FramesAdjoin
    <2> QED BY <2>6, <2>7 DEF AdjoinInv
  <1> QED BY <1>1, <1>2, <1>3, <1>4, <1>5, <1>6, <1>7, <1>8, <1>9, <1>10, <1>11
          DEF AnalyzerStep

LEMMA AdjoinPrinter ==
  ASSUME ControlInv, DataInv, AdjoinInv, PrinterStep
  PROVE  AdjoinInv'
  <1>0. "printer" \in Thread /\ "analyzer" \in Thread \ {"printer"}
    BY DEF Thread, Worker
  <1>1. CASE PrinterTake
    <2>1. pc'["analyzer"] = pc["analyzer"]
      BY <1>0, <1>1, StepMoves DEF PrinterTake
    <2> QED BY <1>1, <2>1, AdjoinDrained DEF PrinterTake
  <1>2. CASE PrinterStart
    <2>1. pc'["analyzer"] = pc["analyzer"]
      BY <1>0, <1>2, StepMoves DEF PrinterStart
    <2>2. UNCHANGED <<cpuStats, prevCpuStats, cpuStatsPrint, cpuStatsQueuePrint>>
      BY <1>2 DEF PrinterStart
    <2> QED BY <2>1, <2>2, AdjoinUnchanged
  <1>3. CASE PrinterLeaveBarrier
    <2>1. pc'["analyzer"] = pc["analyzer"]
      BY <1>0, <1>3, StepMoves DEF PrinterLeaveBarrier, LeaveBarrier
    <2>2. UNCHANGED <<cpuStats, prevCpuStats, cpuStatsPrint, cpuStatsQueuePrint>>
      BY <1>3 DEF PrinterLeaveBarrier, LeaveBarrier
    <2> QED BY <2>1, <2>2, AdjoinUnchanged
  <1>4. CASE PrinterLock
    <2>1. pc'["analyzer"] = pc["analyzer"]
      BY <1>0, <1>4, StepMoves DEF PrinterLock
    <2>2. UNCHANGED <<cpuStats, prevCpuStats, cpuStatsPrint, cpuStatsQueuePrint>>
      BY <1>4 DEF PrinterLock
    <2> QED BY <2>1, <2>2, AdjoinUnchanged
  <1>5. CASE PrinterWait
    <2>1. pc'["analyzer"] = pc["analyzer"]
      BY <1>0, <1>5, StepMoves DEF PrinterWait
    <2>2. UNCHANGED <<cpuStats, prevCpuStats, cpuStatsPrint, cpuStatsQueuePrint>>
      BY <1>5 DEF PrinterWait
    <2> QED BY <2>1, <2>2, AdjoinUnchanged
  <1>6. CASE PrinterWakeup
    <2>1. pc'["analyzer"] = pc["analyzer"]
      BY <1>0, <1>6, StepMoves DEF PrinterWakeup
    <2>2. UNCHANGED <<cpuStats, prevCpuStats, cpuStatsPrint, cpuStatsQueuePrint>>
      BY <1>6 DEF PrinterWakeup
    <2> QED BY <2>1, <2>2, AdjoinUnchanged
  <1>7. CASE PrinterPrint
    <2>1. pc'["analyzer"] = pc["analyzer"]
      BY <1>0, <1>7, StepMoves DEF PrinterPrint
    <2>2. UNCHANGED <<cpuStats, prevCpuStats, cpuStatsPrint, cpuStatsQueuePrint>>
      BY <1>7 DEF PrinterPrint
    <2> QED BY <2>1, <2>2, AdjoinUnchanged
  <1>8. CASE PrinterOverrun
    <2>1. pc'["analyzer"] = pc["analyzer"]
      BY <1>0, <1>8, StepMoves DEF PrinterOverrun
    <2>2. UNCHANGED <<cpuStats, prevCpuStats, cpuStatsPrint, cpuStatsQueuePrint>>
      BY <1>8 DEF PrinterOverrun
    <2> QED BY <2>1, <2>2, AdjoinUnchanged
  <1> QED BY <1>1, <1>2, <1>3, <1>4, <1>5, <1>6, <1>7, <1>8 DEF PrinterStep

LEMMA AdjoinReader ==
  ASSUME ControlInv, AdjoinInv, ReaderStep
  PROVE  AdjoinInv'
  <1>0. "reader" \in Thread /\ "analyzer" \in Thread \ {"reader"}
    BY DEF Thread, Worker
  <1>1. CASE ReaderStart
    <2>1. pc'["analyzer"] = pc["analyzer"]
      BY <1>0, <1>1, StepMoves DEF ReaderStart
    <2>2. UNCHANGED <<cpuStats, prevCpuStats, cpuStatsPrint, cpuStatsQueuePrint>>
      BY <1>1 DEF ReaderStart
    <2> QED BY <2>1, <2>2, AdjoinUnchanged
  <1>2. CASE ReaderCount
    <2>1. pc'["analyzer"] = pc["analyzer"]
      BY <1>0, <1>2, StepMoves DEF ReaderCount
    <2>2. UNCHANGED <<cpuStats, prevCpuStats, cpuStatsPrint, cpuStatsQueuePrint>>
      BY <1>2 DEF ReaderCount
    <2> QED BY <2>1, <2>2, AdjoinUnchanged
  <1>3. CASE ReaderLeaveBarrier
    <2>1. pc'["analyzer"] = pc["analyzer"]
      BY <1>0, <1>3, StepMoves DEF ReaderLeaveBarrier, LeaveBarrier
    <2>2. UNCHANGED <<cpuStats, prevCpuStats, cpuStatsPrint, cpuStatsQueuePrint>>
      BY <1>3 DEF ReaderLeaveBarrier, LeaveBarrier
    <2> QED BY <2>1, <2>2, AdjoinUnchanged
  <1>4. CASE ReaderLock
    <2>1. pc'["analyzer"] = pc["analyzer"]
      BY <1>0, <1>4, StepMoves DEF ReaderLock
    <2>2. UNCHANGED <<cpuStats, prevCpuStats, cpuStatsPrint, cpuStatsQueuePrint>>
      BY <1>4 DEF ReaderLock
    <2> QED BY <2>1, <2>2, AdjoinUnchanged
  <1>5. CASE ReaderRead
    <2>1. pc'["analyzer"] = pc["analyzer"]
      BY <1>0, <1>5, StepMoves DEF ReaderRead
    <2>2. UNCHANGED <<cpuStats, prevCpuStats, cpuStatsPrint, cpuStatsQueuePrint>>
      BY <1>5 DEF ReaderRead
    <2> QED BY <2>1, <2>2, AdjoinUnchanged
  <1>6. CASE ReaderReadFails
    <2>1. pc'["analyzer"] = pc["analyzer"]
      BY <1>0, <1>6, StepMoves DEF ReaderReadFails
    <2>2. UNCHANGED <<cpuStats, prevCpuStats, cpuStatsPrint, cpuStatsQueuePrint>>
      BY <1>6 DEF ReaderReadFails
    <2> QED BY <2>1, <2>2, AdjoinUnchanged
  <1>7. CASE ReaderOpenFails
    <2>1. pc'["analyzer"] = pc["analyzer"]
      BY <1>0, <1>7, StepMoves DEF ReaderOpenFails
    <2>2. UNCHANGED <<cpuStats, prevCpuStats, cpuStatsPrint, cpuStatsQueuePrint>>
      BY <1>7 DEF ReaderOpenFails
    <2> QED BY <2>1, <2>2, AdjoinUnchanged
  <1>8. CASE ReaderSignal
    <2>1. pc'["analyzer"] = pc["analyzer"]
      BY <1>0, <1>8, StepMoves DEF ReaderSignal
    <2>2. UNCHANGED <<cpuStats, prevCpuStats, cpuStatsPrint, cpuStatsQueuePrint>>
      BY <1>8 DEF ReaderSignal
    <2> QED BY <2>1, <2>2, AdjoinUnchanged
  <1>9. CASE ReaderMark
    <2>1. pc'["analyzer"] = pc["analyzer"]
      BY <1>0, <1>9, StepMoves DEF ReaderMark
    <2>2. UNCHANGED <<cpuStats, prevCpuStats, cpuStatsPrint, cpuStatsQueuePrint>>
      BY <1>9 DEF ReaderMark
    <2> QED BY <2>1, <2>2, AdjoinUnchanged
  <1>10. CASE ReaderCheckClose
    <2>1. pc'["analyzer"] = pc["analyzer"]
      BY <1>0, <1>10, StepMoves DEF ReaderCheckClose
    <2>2. UNCHANGED <<cpuStats, prevCpuStats, cpuStatsPrint, cpuStatsQueuePrint>>
      BY <1>10 DEF ReaderCheckClose
    <2> QED BY <2>1, <2>2, AdjoinUnchanged
  <1> QED BY <1>1, <1>2, <1>3, <1>4, <1>5, <1>6, <1>7, <1>8, <1>9, <1>10
          DEF ReaderStep

LEMMA AdjoinWatchdog ==
  ASSUME ControlInv, AdjoinInv, WatchdogStep
  PROVE  AdjoinInv'
  <1>0. "watchdog" \in Thread /\ "analyzer" \in Thread \ {"watchdog"}
    BY DEF Thread, Worker
  <1>1. pc'["analyzer"] = pc["analyzer"]
    BY <1>0, StepMoves
       DEF WatchdogStep, WatchdogStart, WatchdogClear, WatchdogWake,
           WatchdogCheck, WatchdogCloseReader, WatchdogCloseAnalyzer,
           WatchdogClosePrinter, WatchdogWakeAnalyzer, WatchdogWakePrinter,
           RequestClose, WakeAll
  <1>2. UNCHANGED <<cpuStats, prevCpuStats, cpuStatsPrint, cpuStatsQueuePrint>>
    BY DEF WatchdogStep, WatchdogStart, WatchdogClear, WatchdogWake,
           WatchdogCheck, WatchdogCloseReader, WatchdogCloseAnalyzer,
           WatchdogClosePrinter, WatchdogWakeAnalyzer, WatchdogWakePrinter,
           RequestClose, WakeAll
  <1> QED BY <1>1, <1>2, AdjoinUnchanged

LEMMA AdjoinSigterm ==
  ASSUME ControlInv, AdjoinInv, SigtermStep
  PROVE  AdjoinInv'
  <1>0. "sigterm" \in Thread /\ "analyzer" \in Thread \ {"sigterm"}
    BY DEF Thread, Worker
  <1>1. pc'["analyzer"] = pc["analyzer"]
    BY <1>0, StepMoves
       DEF SigtermStep, SigtermStart, SigtermPoll, SigtermCloseReader,
           SigtermCloseAnalyzer, SigtermClosePrinter, SigtermCloseWatchdog,
           SigtermWakeAnalyzer, SigtermWakePrinter, RequestClose, WakeAll
  <1>2. UNCHANGED <<cpuStats, prevCpuStats, cpuStatsPrint, cpuStatsQueuePrint>>
    BY DEF SigtermStep, SigtermStart, SigtermPoll, SigtermCloseReader,
           SigtermCloseAnalyzer, SigtermClosePrinter, SigtermCloseWatchdog,
           SigtermWakeAnalyzer, SigtermWakePrinter, RequestClose, WakeAll
  <1> QED BY <1>1, <1>2, AdjoinUnchanged

LEMMA AdjoinInit == Init => AdjoinInv
  <1> SUFFICES ASSUME Init PROVE AdjoinInv
    OBVIOUS
  <1>1. pc["analyzer"] = "Start" /\ cpuStatsQueuePrint = <<>>
    BY DEF Init, Thread, Worker
  <1>2. 1 .. Len(cpuStatsQueuePrint) - (CpuThreads + 1) = {}
    BY <1>1, CpuThreadsAssumption
  <1> QED BY <1>1, <1>2
          DEF AdjoinInv, PrintRowInv, LastRowInv, EarlyInv, FramesAdjoin

LEMMA AdjoinNext ==
  ControlInv /\ DataInv /\ AdjoinInv /\ [Next]_vars => AdjoinInv'
  <1> SUFFICES ASSUME ControlInv, DataInv, AdjoinInv, [Next]_vars
               PROVE  AdjoinInv'
    OBVIOUS
  <1>1. CASE \/ Sigterm \/ MainReturn
             \/ SpuriousWakeup("analyzer", "condCpuStatsQueue")
             \/ SpuriousWakeup("printer", "condCpuStatsPrinterQueue")
             \/ UNCHANGED vars
    <2>1. /\ pc' = pc
          /\ UNCHANGED <<cpuStats, prevCpuStats, cpuStatsPrint, cpuStatsQueuePrint>>
      BY <1>1 DEF Sigterm, MainReturn, SpuriousWakeup, vars
    <2> QED BY <2>1, AdjoinUnchanged
  <1> QED BY <1>1, AdjoinReader, AdjoinAnalyzer, AdjoinPrinter, AdjoinWatchdog,
             AdjoinSigterm DEF Next

\* The frames in cpuStatsQueuePrint cover adjoining intervals, whatever the
\* capacity of the queue and however many rounds the analyzer has discarded.
THEOREM FramesAdjoinHolds == Spec => []FramesAdjoin
  <1>1. AdjoinInv => FramesAdjoin
    BY DEF AdjoinInv
  <1> QED BY <1>1, AdjoinInit, AdjoinNext, ControlHolds, DataHolds, PTL DEF Spec
=============================================================================
