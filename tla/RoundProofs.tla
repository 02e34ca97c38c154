----------------------------- MODULE RoundProofs -----------------------------
(***************************************************************************)
(* Proofs that rounds stay whole on their way from /proc/stat to the       *)
(* screen, for every number of CPUs, if a round fits the queues            *)
(* (RoundFits) and /proc/stat can be read in full (NoReadError).  Either   *)
(* condition is needed: a round that does not fit is cut at every push,    *)
(* and a reader that fails half way leaves a cut round in cpuStatsQueue.   *)
(***************************************************************************)
EXTENDS CpuUsageProofs

USE DEF sync, source, queues, flags, analyzerVars

\* One row per CPU, all of one pass over /proc/stat.
WholeBatch(batch) ==
  \E now \in Tick : \A i \in Cpu : batch[i] = [cpu |-> i, tick |-> now]

\* One figure per CPU, all from one pass relative to one other.
WholeFrame(figures) ==
  \E now, before \in Tick : \A i \in Cpu :
    figures[i] = [cur  |-> [cpu |-> i, tick |-> now],
                  prev |-> [cpu |-> i, tick |-> before]]

\* The round a consumer of the queue will use: the others are discarded.
Oldest(queue) == [i \in Cpu |-> queue[i + 1]]

\* What is in a queue starts with a whole round.
QueueRounds ==
  /\ cpuStatsQueue # <<>> =>
       Len(cpuStatsQueue) >= Rows /\ WholeBatch(Oldest(cpuStatsQueue))
  /\ cpuStatsQueuePrint # <<>> =>
       Len(cpuStatsQueuePrint) >= Rows /\ WholeFrame(Oldest(cpuStatsQueuePrint))

Working == {"Process", "Push", "Signal", "Mark"}

\* The analyzer's buffers hold whole rounds whenever it uses them.
BufferRounds ==
  /\ pc["analyzer"] \in Working => WholeBatch(cpuStats)
  /\ pc["analyzer"] \notin {"Start", "Barrier"} => WholeBatch(prevCpuStats)
  /\ pc["analyzer"] = "Push" => WholeFrame(cpuStatsPrint)

RoundInv == QueueRounds /\ BufferRounds /\ FrameWhole

-----------------------------------------------------------------------------
(***************************************************************************)
(* Rounds in queues and buffers                                            *)
(***************************************************************************)

\* Only its values at the CPUs make a batch, or a frame, whole.
LEMMA SameBatch ==
  ASSUME NEW a, NEW b, WholeBatch(a), \A i \in Cpu : b[i] = a[i]
  PROVE  WholeBatch(b)
  BY DEF WholeBatch

LEMMA SameFrame ==
  ASSUME NEW a, NEW b, WholeFrame(a), \A i \in Cpu : b[i] = a[i]
  PROVE  WholeFrame(b)
  BY DEF WholeFrame

\* A push of a round leaves the oldest round of the queue where it is, or
\* makes the new one the oldest.
LEMMA PushKeepsOldest ==
  ASSUME RoundFits, NEW S, NEW queue \in Seq(S), NEW row \in Seq(S),
         Len(queue) <= MAX_CAPACITY, Len(row) = Rows,
         queue # <<>> => Len(queue) >= Rows
  PROVE  /\ Len(PushAll(queue, row)) >= Rows
         /\ queue # <<>> =>
              \A i \in Cpu : Oldest(PushAll(queue, row))[i] = Oldest(queue)[i]
         /\ queue = <<>> =>
              \A i \in Cpu : Oldest(PushAll(queue, row))[i] = row[i + 1]
  <1> USE CpuThreadsAssumption, CapacityAssumption
  <1> DEFINE q == PushAll(queue, row)
  <1>1. Len(q) = IF Len(queue) + Len(row) < MAX_CAPACITY
                 THEN Len(queue) + Len(row) ELSE MAX_CAPACITY
    BY PushAllResult
  <1>2. ASSUME NEW k \in 1 .. Len(queue) PROVE q[k] = queue[k]
    BY PushAllResult
  <1>0. queue \in Seq(S) /\ row \in Seq(S) /\ Len(queue) <= MAX_CAPACITY
    OBVIOUS
  <1>3. ASSUME NEW i \in 1 .. Len(row), Len(queue) + i <= MAX_CAPACITY
        PROVE  q[Len(queue) + i] = row[i]
    <2>1. \A j \in 1 .. Len(row) : Len(queue) + j <= MAX_CAPACITY =>
            PushAll(queue, row)[Len(queue) + j] = row[j]
      BY ONLY <1>0, PushAllResult, SMTT(30)
    <2> QED BY ONLY <1>3, <2>1, i \in 1 .. Len(row)
  <1> HIDE DEF q
  <1>4. Len(queue) \in Nat /\ Rows \in Nat /\ Rows <= MAX_CAPACITY
    BY DEF Rows, RoundFits
  <1>5. Len(q) >= Rows
    BY <1>1, <1>4
  <1>6. ASSUME NEW i \in Cpu PROVE i + 1 \in 1 .. Rows
    BY DEF Cpu, Rows
  <1>7. ASSUME queue # <<>>, NEW i \in Cpu
        PROVE  Oldest(q)[i] = Oldest(queue)[i]
    <2>1. i + 1 \in 1 .. Len(queue)
      BY <1>4, <1>6, <1>7
    <2>2. q[i + 1] = queue[i + 1]
      BY <1>2, <2>1
    <2> QED BY <2>2 DEF Oldest
  <1>8. ASSUME queue = <<>>, NEW i \in Cpu
        PROVE  Oldest(q)[i] = row[i + 1]
    <2>1. Len(queue) = 0 /\ i + 1 \in 1 .. Len(row) /\ i + 1 <= MAX_CAPACITY
      BY <1>4, <1>6, <1>8
    <2>2. q[0 + (i + 1)] = row[i + 1]
      BY <1>3, <2>1
    <2>3. q[i + 1] = row[i + 1]
      BY <2>2 DEF Cpu
    <2> QED BY <2>3 DEF Oldest
  <1> QED BY <1>5, <1>7, <1>8 DEF q

\* Draining a queue takes its oldest round.
LEMMA FillTakesOldest ==
  ASSUME NEW buffer, NEW S, NEW queue \in Seq(S), Len(queue) >= Rows, NEW i \in Cpu
  PROVE  Fill(buffer, queue)[i] = Oldest(queue)[i]
  <1>1. i < Len(queue)
    BY CpuThreadsAssumption DEF Cpu, Rows
  <1> QED BY <1>1 DEF Fill, Oldest

\* A step that moves no data and takes nobody to where data is used.
LEMMA RoundUnchanged ==
  ASSUME RoundInv,
         UNCHANGED <<cpuStatsQueue, cpuStatsQueuePrint, cpuStats, prevCpuStats,
                     cpuStatsPrint, frame>>,
         pc'["analyzer"] \in Working => pc["analyzer"] \in Working,
         pc'["analyzer"] \notin {"Start", "Barrier"} =>
           pc["analyzer"] \notin {"Start", "Barrier"},
         pc'["analyzer"] = "Push" => pc["analyzer"] = "Push",
         pc'["printer"] = "Print" => pc["printer"] = "Print"
  PROVE  RoundInv'
  <1>1. QueueRounds'
    BY DEF RoundInv, QueueRounds
  <1>2. BufferRounds'
    BY DEF RoundInv, BufferRounds
  <1>3. FrameWhole'
    BY DEF RoundInv, FrameWhole
  <1> QED BY <1>1, <1>2, <1>3 DEF RoundInv

-----------------------------------------------------------------------------
(***************************************************************************)
(* The steps of the threads                                                *)
(***************************************************************************)

LEMMA RoundReader ==
  ASSUME NoReadError, RoundFits, ControlInv, DataInv, RoundInv, ReaderStep
  PROVE  RoundInv'
  <1>0. "reader" \in Thread /\ {"analyzer", "printer"} \subseteq Thread \ {"reader"}
    BY DEF Thread, Worker
  <1>1. CASE ReaderRead
    <2>1. /\ pc["reader"] = "Read"
          /\ pc'["analyzer"] = pc["analyzer"] /\ pc'["printer"] = pc["printer"]
      BY <1>0, <1>1, StepMoves DEF ReaderRead
    <2>2. UNCHANGED <<cpuStatsQueuePrint, cpuStats, prevCpuStats, cpuStatsPrint, frame>>
      BY <1>1 DEF ReaderRead
    <2>3. threadsNum = CpuThreads
      BY <2>1 DEF ControlInv, BarrierInv
    <2> DEFINE row == Readings(Rows)
    <2>4. cpuStatsQueue' = PushAll(cpuStatsQueue, row)
      BY <1>1, <2>3 DEF ReaderRead, Rows
    <2>5. /\ row \in Seq(Reading) /\ Len(row) = Rows /\ NextTick \in Tick
          /\ \A i \in Cpu : row[i + 1] = [cpu |-> i, tick |-> NextTick]
      <3>1. NextTick \in Tick
        BY MaxTickAssumption DEF DataInv, NextTick, AtMost, Tick
      <3>2. row \in Seq(Reading) /\ Len(row) = Rows
        <4>1. Rows \in Nat /\ \A i \in 1 .. Rows : i - 1 \in Cpu
          BY CpuThreadsAssumption DEF Rows, Cpu
        <4>2. \A i \in 1 .. Rows : [cpu |-> i - 1, tick |-> NextTick] \in Reading
          BY <3>1, <4>1 DEF Reading
        <4> QED BY <4>1, <4>2 DEF Readings
      <3>3. ASSUME NEW i \in Cpu
            PROVE  row[i + 1] = [cpu |-> i, tick |-> NextTick]
        <4>1. i + 1 \in 1 .. Rows /\ (i + 1) - 1 = i
          BY CpuThreadsAssumption DEF Rows, Cpu
        <4> QED BY <4>1 DEF Readings
      <3> QED BY <3>1, <3>2, <3>3
    <2>6. cpuStatsQueue \in Seq(Reading) /\ Len(cpuStatsQueue) <= MAX_CAPACITY
      BY DEF DataInv
    <2>7. cpuStatsQueue # <<>> => Len(cpuStatsQueue) >= Rows
      BY DEF RoundInv, QueueRounds
    <2> HIDE DEF row
    <2>8. /\ Len(cpuStatsQueue') >= Rows
          /\ cpuStatsQueue # <<>> =>
               \A i \in Cpu : Oldest(cpuStatsQueue')[i] = Oldest(cpuStatsQueue)[i]
          /\ cpuStatsQueue = <<>> =>
               \A i \in Cpu : Oldest(cpuStatsQueue')[i] = row[i + 1]
      BY <2>4, <2>5, <2>6, <2>7, PushKeepsOldest
    <2>9. WholeBatch(Oldest(cpuStatsQueue'))
      <3>1. CASE cpuStatsQueue # <<>>
        <4>1. WholeBatch(Oldest(cpuStatsQueue))
          BY <3>1 DEF RoundInv, QueueRounds
        <4> QED BY <2>8, <3>1, <4>1, SameBatch
      <3>2. CASE cpuStatsQueue = <<>>
        <4>1. \A i \in Cpu : Oldest(cpuStatsQueue')[i] = [cpu |-> i, tick |-> NextTick]
          BY <2>5, <2>8, <3>2
        <4> QED BY <2>5, <4>1 DEF WholeBatch
      <3> QED BY <3>1, <3>2
    <2>10. QueueRounds'
      BY <2>2, <2>8, <2>9 DEF RoundInv, QueueRounds
    <2>11. BufferRounds' /\ FrameWhole'
      BY <2>1, <2>2 DEF RoundInv, BufferRounds, FrameWhole
    <2> QED BY <2>10, <2>11 DEF RoundInv
  <1>2. ~ReaderReadFails
    BY DEF ReaderReadFails, NoReadError
  <1>3. CASE ReaderStart
    <2>1. pc'["analyzer"] = pc["analyzer"] /\ pc'["printer"] = pc["printer"]
      BY <1>0, <1>3, StepMoves DEF ReaderStart
    <2>2. UNCHANGED <<cpuStatsQueue, cpuStatsQueuePrint, cpuStats, prevCpuStats,
                   cpuStatsPrint, frame>>
      BY <1>3 DEF ReaderStart
    <2> QED BY <2>1, <2>2, RoundUnchanged DEF Working
  <1>4. CASE ReaderCount
    <2>1. pc'["analyzer"] = pc["analyzer"] /\ pc'["printer"] = pc["printer"]
      BY <1>0, <1>4, StepMoves DEF ReaderCount
    <2>2. UNCHANGED <<cpuStatsQueue, cpuStatsQueuePrint, cpuStats, prevCpuStats,
                   cpuStatsPrint, frame>>
      BY <1>4 DEF ReaderCount
    <2> QED BY <2>1, <2>2, RoundUnchanged DEF Working
  <1>5. CASE ReaderLeaveBarrier
    <2>1. pc'["analyzer"] = pc["analyzer"] /\ pc'["printer"] = pc["printer"]
      BY <1>0, <1>5, StepMoves DEF ReaderLeaveBarrier, LeaveBarrier
    <2>2. UNCHANGED <<cpuStatsQueue, cpuStatsQueuePrint, cpuStats, prevCpuStats,
                   cpuStatsPrint, frame>>
      BY <1>5 DEF ReaderLeaveBarrier, LeaveBarrier
    <2> QED BY <2>1, <2>2, RoundUnchanged DEF Working
  <1>6. CASE ReaderLock
    <2>1. pc'["analyzer"] = pc["analyzer"] /\ pc'["printer"] = pc["printer"]
      BY <1>0, <1>6, StepMoves DEF ReaderLock
    <2>2. UNCHANGED <<cpuStatsQueue, cpuStatsQueuePrint, cpuStats, prevCpuStats,
                   cpuStatsPrint, frame>>
      BY <1>6 DEF ReaderLock
    <2> QED BY <2>1, <2>2, RoundUnchanged DEF Working
  <1>7. CASE ReaderSignal
    <2>1. pc'["analyzer"] = pc["analyzer"] /\ pc'["printer"] = pc["printer"]
      BY <1>0, <1>7, StepMoves DEF ReaderSignal
    <2>2. UNCHANGED <<cpuStatsQueue, cpuStatsQueuePrint, cpuStats, prevCpuStats,
                   cpuStatsPrint, frame>>
      BY <1>7 DEF ReaderSignal
    <2> QED BY <2>1, <2>2, RoundUnchanged DEF Working
  <1>8. CASE ReaderMark
    <2>1. pc'["analyzer"] = pc["analyzer"] /\ pc'["printer"] = pc["printer"]
      BY <1>0, <1>8, StepMoves DEF ReaderMark
    <2>2. UNCHANGED <<cpuStatsQueue, cpuStatsQueuePrint, cpuStats, prevCpuStats,
                   cpuStatsPrint, frame>>
      BY <1>8 DEF ReaderMark
    <2> QED BY <2>1, <2>2, RoundUnchanged DEF Working
  <1>9. CASE ReaderCheckClose
    <2>1. pc'["analyzer"] = pc["analyzer"] /\ pc'["printer"] = pc["printer"]
      BY <1>0, <1>9, StepMoves DEF ReaderCheckClose
    <2>2. UNCHANGED <<cpuStatsQueue, cpuStatsQueuePrint, cpuStats, prevCpuStats,
                   cpuStatsPrint, frame>>
      BY <1>9 DEF ReaderCheckClose
    <2> QED BY <2>1, <2>2, RoundUnchanged DEF Working
  <1>10. CASE ReaderOpenFails
    BY <1>10, RoundUnchanged DEF ReaderOpenFails
  <1> QED BY <1>1, <1>2, <1>3, <1>4, <1>5, <1>6, <1>7, <1>8, <1>9, <1>10
          DEF ReaderStep

LEMMA RoundAnalyzer ==
  ASSUME RoundFits, ControlInv, DataInv, RoundInv, AnalyzerStep
  PROVE  RoundInv'
  <1>0. "analyzer" \in Thread /\ "printer" \in Thread \ {"analyzer"}
    BY DEF Thread, Worker
  <1>1. CASE AnalyzerStart
    <2>1. /\ pc["analyzer"] = "Start" /\ pc'["analyzer"] = "Barrier"
          /\ pc'["printer"] = pc["printer"]
      BY <1>0, <1>1, StepMoves DEF AnalyzerStart
    <2>2. UNCHANGED <<cpuStatsQueue, cpuStatsQueuePrint, cpuStats, prevCpuStats,
                   cpuStatsPrint, frame>>
      BY <1>1 DEF AnalyzerStart
    <2> QED BY <2>1, <2>2, RoundUnchanged DEF Working
  <1>2. CASE AnalyzerLeaveBarrier
    <2>1. /\ pc["analyzer"] = "Barrier" /\ pc'["analyzer"] = "Lock"
          /\ pc'["printer"] = pc["printer"]
      BY <1>0, <1>2, StepMoves DEF AnalyzerLeaveBarrier, LeaveBarrier
    <2>2. UNCHANGED <<cpuStatsQueue, cpuStatsQueuePrint, frame>>
      BY <1>2 DEF AnalyzerLeaveBarrier
    <2>3. threadsNum = CpuThreads
      BY <1>2, <2>1 DEF AnalyzerLeaveBarrier, LeaveBarrier, ControlInv,
                        ControlTypes, BarrierInv, BarrierCount, Consumers
    <2>4. \A i \in Cpu : prevCpuStats'[i] = [cpu |-> i, tick |-> 0]
      BY <1>2, <2>3, CpuThreadsAssumption DEF AnalyzerLeaveBarrier, Cpu
    <2>5. 0 \in Tick
      BY MaxTickAssumption DEF Tick
    <2>6. WholeBatch(prevCpuStats')
      BY <2>4, <2>5 DEF WholeBatch
    <2>7. BufferRounds'
      BY <2>1, <2>6 DEF BufferRounds, Working
    <2>8. QueueRounds' /\ FrameWhole'
      BY <2>1, <2>2 DEF RoundInv, QueueRounds, FrameWhole
    <2> QED BY <2>7, <2>8 DEF RoundInv
  <1>3. CASE AnalyzerLock
    <2>1. /\ pc["analyzer"] = "Lock" /\ pc'["analyzer"] = "Take"
          /\ pc'["printer"] = pc["printer"]
      BY <1>0, <1>3, StepMoves DEF AnalyzerLock
    <2>2. UNCHANGED <<cpuStatsQueue, cpuStatsQueuePrint, cpuStats, prevCpuStats,
                   cpuStatsPrint, frame>>
      BY <1>3 DEF AnalyzerLock
    <2> QED BY <2>1, <2>2, RoundUnchanged DEF Working
  <1>4. CASE AnalyzerWait
    <2>1. /\ pc["analyzer"] = "Take" /\ pc'["analyzer"] = "Wait"
          /\ pc'["printer"] = pc["printer"]
      BY <1>0, <1>4, StepMoves DEF AnalyzerWait
    <2>2. UNCHANGED <<cpuStatsQueue, cpuStatsQueuePrint, cpuStats, prevCpuStats,
                   cpuStatsPrint, frame>>
      BY <1>4 DEF AnalyzerWait
    <2> QED BY <2>1, <2>2, RoundUnchanged DEF Working
  <1>5. CASE AnalyzerWakeup
    <2>1. /\ pc["analyzer"] = "Wait" /\ pc'["analyzer"] \in {"Done", "Take"}
          /\ pc'["printer"] = pc["printer"]
      BY <1>0, <1>5, StepMoves DEF AnalyzerWakeup
    <2>2. UNCHANGED <<cpuStatsQueue, cpuStatsQueuePrint, cpuStats, prevCpuStats,
                   cpuStatsPrint, frame>>
      BY <1>5 DEF AnalyzerWakeup
    <2> QED BY <2>1, <2>2, RoundUnchanged DEF Working
  <1>6. CASE AnalyzerTake
    <2>1. /\ pc["analyzer"] = "Take" /\ pc'["analyzer"] = "Process"
          /\ pc'["printer"] = pc["printer"]
      BY <1>0, <1>6, StepMoves DEF AnalyzerTake
    <2>2. UNCHANGED <<cpuStatsQueuePrint, prevCpuStats, cpuStatsPrint, frame>>
      BY <1>6 DEF AnalyzerTake
    <2>3. /\ cpuStatsQueue # <<>> /\ cpuStatsQueue' = <<>>
          /\ cpuStats' = Fill(cpuStats, cpuStatsQueue)
      BY <1>6 DEF AnalyzerTake
    <2>4. Len(cpuStatsQueue) >= Rows /\ WholeBatch(Oldest(cpuStatsQueue))
      BY <2>3 DEF RoundInv, QueueRounds
    <2>5. ASSUME NEW i \in Cpu
          PROVE  cpuStats'[i] = Oldest(cpuStatsQueue)[i]
      BY <2>3, <2>4, FillTakesOldest DEF DataInv
    <2>6. WholeBatch(cpuStats')
      BY <2>4, <2>5, SameBatch
    <2>7. BufferRounds'
      BY <2>1, <2>2, <2>6 DEF RoundInv, BufferRounds
    <2>8. QueueRounds' /\ FrameWhole'
      BY <2>1, <2>2, <2>3 DEF RoundInv, QueueRounds, FrameWhole
    <2> QED BY <2>7, <2>8 DEF RoundInv
  <1>7. CASE AnalyzerOverrun
    BY <1>7, RoundUnchanged DEF AnalyzerOverrun
  <1>8. CASE AnalyzerProcess
    <2>1. /\ pc["analyzer"] = "Process" /\ pc'["analyzer"] = "Push"
          /\ pc'["printer"] = pc["printer"]
      BY <1>0, <1>8, StepMoves DEF AnalyzerProcess
    <2>2. UNCHANGED <<cpuStatsQueue, cpuStatsQueuePrint, cpuStats, prevCpuStats, frame>>
      BY <1>8 DEF AnalyzerProcess
    <2>3. threadsNum = CpuThreads
      BY <2>1, ReadyThreads
    <2>4. \A i \in Cpu : cpuStatsPrint'[i]
                           = [cur |-> cpuStats[i], prev |-> prevCpuStats[i]]
      BY <1>8, <2>3, CpuThreadsAssumption DEF AnalyzerProcess, Cpu
    <2>5. WholeBatch(cpuStats) /\ WholeBatch(prevCpuStats)
      BY <2>1 DEF RoundInv, BufferRounds, Working
    <2>6. WholeFrame(cpuStatsPrint')
      <3>1. PICK now \in Tick : \A i \in Cpu : cpuStats[i] = [cpu |-> i, tick |-> now]
        BY <2>5 DEF WholeBatch
      <3>2. PICK before \in Tick :
              \A i \in Cpu : prevCpuStats[i] = [cpu |-> i, tick |-> before]
        BY <2>5 DEF WholeBatch
      <3>3. \A i \in Cpu : cpuStatsPrint'[i] = [cur  |-> [cpu |-> i, tick |-> now],
                                               prev |-> [cpu |-> i, tick |-> before]]
        BY <2>4, <3>1, <3>2
      <3> QED BY <3>3 DEF WholeFrame
    <2>7. BufferRounds'
      BY <2>1, <2>2, <2>5, <2>6 DEF BufferRounds
    <2>8. QueueRounds' /\ FrameWhole'
      BY <2>1, <2>2 DEF RoundInv, QueueRounds, FrameWhole
    <2> QED BY <2>7, <2>8 DEF RoundInv
  <1>9. CASE AnalyzerPush
    <2>1. /\ pc["analyzer"] = "Push" /\ pc'["analyzer"] = "Signal"
          /\ pc'["printer"] = pc["printer"]
      BY <1>0, <1>9, StepMoves DEF AnalyzerPush
    <2>2. UNCHANGED <<cpuStatsQueue, cpuStats, prevCpuStats, cpuStatsPrint, frame>>
      BY <1>9 DEF AnalyzerPush
    <2>3. threadsNum = CpuThreads
      BY <2>1, ReadyThreads
    <2> DEFINE row == [i \in 1 .. Rows |-> cpuStatsPrint[i - 1]]
    <2>4. cpuStatsQueuePrint' = PushAll(cpuStatsQueuePrint, row)
      BY <1>9, <2>3 DEF AnalyzerPush, Rows
    <2>5. /\ row \in Seq(UsageCell) /\ Len(row) = Rows
          /\ \A i \in Cpu : row[i + 1] = cpuStatsPrint[i]
      <3>1. Rows \in Nat /\ \A i \in 1 .. Rows : i - 1 \in Cpu
        BY CpuThreadsAssumption DEF Rows, Cpu
      <3>2. \A i \in 1 .. Rows : cpuStatsPrint[i - 1] \in UsageCell
        BY <3>1 DEF DataInv
      <3>3. ASSUME NEW i \in Cpu PROVE row[i + 1] = cpuStatsPrint[i]
        <4>1. i + 1 \in 1 .. Rows /\ (i + 1) - 1 = i
          BY CpuThreadsAssumption DEF Rows, Cpu
        <4> QED BY <4>1
      <3> QED BY <3>1, <3>2, <3>3
    <2>6. /\ cpuStatsQueuePrint \in Seq(UsageCell)
          /\ Len(cpuStatsQueuePrint) <= MAX_CAPACITY
          /\ cpuStatsQueuePrint # <<>> => Len(cpuStatsQueuePrint) >= Rows
      BY DEF DataInv, RoundInv, QueueRounds
    <2> HIDE DEF row
    <2>7. /\ Len(cpuStatsQueuePrint') >= Rows
          /\ cpuStatsQueuePrint # <<>> =>
               \A i \in Cpu : Oldest(cpuStatsQueuePrint')[i]
                                 = Oldest(cpuStatsQueuePrint)[i]
          /\ cpuStatsQueuePrint = <<>> =>
               \A i \in Cpu : Oldest(cpuStatsQueuePrint')[i] = row[i + 1]
      BY <2>4, <2>5, <2>6, PushKeepsOldest
    <2>8. WholeFrame(Oldest(cpuStatsQueuePrint'))
      <3>1. CASE cpuStatsQueuePrint # <<>>
        <4>1. WholeFrame(Oldest(cpuStatsQueuePrint))
          BY <3>1 DEF RoundInv, QueueRounds
        <4> QED BY <2>7, <3>1, <4>1, SameFrame
      <3>2. CASE cpuStatsQueuePrint = <<>>
        <4>1. WholeFrame(cpuStatsPrint)
          BY <2>1 DEF RoundInv, BufferRounds
        <4>2. \A i \in Cpu : Oldest(cpuStatsQueuePrint')[i] = cpuStatsPrint[i]
          BY <2>5, <2>7, <3>2
        <4> QED BY <4>1, <4>2, SameFrame
      <3> QED BY <3>1, <3>2
    <2>9. QueueRounds'
      BY <2>2, <2>7, <2>8 DEF RoundInv, QueueRounds
    <2>10. BufferRounds' /\ FrameWhole'
      BY <2>1, <2>2 DEF RoundInv, BufferRounds, FrameWhole, Working
    <2> QED BY <2>9, <2>10 DEF RoundInv
  <1>10. CASE AnalyzerSignal
    <2>1. /\ pc["analyzer"] = "Signal" /\ pc'["analyzer"] = "Mark"
          /\ pc'["printer"] = pc["printer"]
      BY <1>0, <1>10, StepMoves DEF AnalyzerSignal
    <2>2. UNCHANGED <<cpuStatsQueue, cpuStatsQueuePrint, cpuStats, prevCpuStats,
                   cpuStatsPrint, frame>>
      BY <1>10 DEF AnalyzerSignal
    <2> QED BY <2>1, <2>2, RoundUnchanged DEF Working
  <1>11. CASE AnalyzerMark
    <2>1. /\ pc["analyzer"] = "Mark" /\ pc'["analyzer"] = "Lock"
          /\ pc'["printer"] = pc["printer"]
      BY <1>0, <1>11, StepMoves DEF AnalyzerMark
    <2>2. UNCHANGED <<cpuStatsQueue, cpuStatsQueuePrint, cpuStats, cpuStatsPrint, frame>>
      BY <1>11 DEF AnalyzerMark
    <2>3. threadsNum = CpuThreads
      BY <2>1, ReadyThreads
    <2>4. \A i \in Cpu : prevCpuStats'[i] = cpuStats[i]
      BY <1>11, <2>3, CpuThreadsAssumption DEF AnalyzerMark, Cpu
    <2>5. WholeBatch(cpuStats)
      BY <2>1 DEF RoundInv, BufferRounds, Working
    <2>6. WholeBatch(prevCpuStats')
      BY <2>4, <2>5, SameBatch
    <2>7. BufferRounds'
      BY <2>1, <2>6 DEF BufferRounds, Working
    <2>8. QueueRounds' /\ FrameWhole'
      BY <2>1, <2>2 DEF RoundInv, QueueRounds, FrameWhole
    <2> QED BY <2>7, <2>8 DEF RoundInv
  <1> QED BY <1>1, <1>2, <1>3, <1>4, <1>5, <1>6, <1>7, <1>8, <1>9, <1>10, <1>11
          DEF AnalyzerStep

LEMMA RoundPrinter ==
  ASSUME ControlInv, DataInv, RoundInv, PrinterStep
  PROVE  RoundInv'
  <1>0. "printer" \in Thread /\ "analyzer" \in Thread \ {"printer"}
    BY DEF Thread, Worker
  <1>1. CASE PrinterStart
    <2>1. /\ pc["printer"] = "Start" /\ pc'["printer"] = "Barrier"
          /\ pc'["analyzer"] = pc["analyzer"]
      BY <1>0, <1>1, StepMoves DEF PrinterStart
    <2>2. UNCHANGED <<cpuStatsQueue, cpuStatsQueuePrint, cpuStats, prevCpuStats,
                   cpuStatsPrint, frame>>
      BY <1>1 DEF PrinterStart
    <2> QED BY <2>1, <2>2, RoundUnchanged DEF Working
  <1>2. CASE PrinterLeaveBarrier
    <2>1. /\ pc["printer"] = "Barrier" /\ pc'["printer"] = "Lock"
          /\ pc'["analyzer"] = pc["analyzer"]
      BY <1>0, <1>2, StepMoves DEF PrinterLeaveBarrier, LeaveBarrier
    <2>2. UNCHANGED <<cpuStatsQueue, cpuStatsQueuePrint, cpuStats, prevCpuStats,
                     cpuStatsPrint>>
      BY <1>2 DEF PrinterLeaveBarrier
    <2>3. FrameWhole'
      BY <2>1 DEF FrameWhole
    <2>4. QueueRounds' /\ BufferRounds'
      BY <2>1, <2>2 DEF RoundInv, QueueRounds, BufferRounds
    <2> QED BY <2>3, <2>4 DEF RoundInv
  <1>3. CASE PrinterLock
    <2>1. /\ pc["printer"] = "Lock" /\ pc'["printer"] = "Take"
          /\ pc'["analyzer"] = pc["analyzer"]
      BY <1>0, <1>3, StepMoves DEF PrinterLock
    <2>2. UNCHANGED <<cpuStatsQueue, cpuStatsQueuePrint, cpuStats, prevCpuStats,
                   cpuStatsPrint, frame>>
      BY <1>3 DEF PrinterLock
    <2> QED BY <2>1, <2>2, RoundUnchanged DEF Working
  <1>4. CASE PrinterWait
    <2>1. /\ pc["printer"] = "Take" /\ pc'["printer"] = "Wait"
          /\ pc'["analyzer"] = pc["analyzer"]
      BY <1>0, <1>4, StepMoves DEF PrinterWait
    <2>2. UNCHANGED <<cpuStatsQueue, cpuStatsQueuePrint, cpuStats, prevCpuStats,
                   cpuStatsPrint, frame>>
      BY <1>4 DEF PrinterWait
    <2> QED BY <2>1, <2>2, RoundUnchanged DEF Working
  <1>5. CASE PrinterWakeup
    <2>1. /\ pc["printer"] = "Wait" /\ pc'["printer"] \in {"Done", "Take"}
          /\ pc'["analyzer"] = pc["analyzer"]
      BY <1>0, <1>5, StepMoves DEF PrinterWakeup
    <2>2. UNCHANGED <<cpuStatsQueue, cpuStatsQueuePrint, cpuStats, prevCpuStats,
                   cpuStatsPrint, frame>>
      BY <1>5 DEF PrinterWakeup
    <2> QED BY <2>1, <2>2, RoundUnchanged DEF Working
  <1>6. CASE PrinterTake
    <2>1. /\ pc["printer"] = "Take" /\ pc'["printer"] = "Print"
          /\ pc'["analyzer"] = pc["analyzer"]
      BY <1>0, <1>6, StepMoves DEF PrinterTake
    <2>2. UNCHANGED <<cpuStatsQueue, cpuStats, prevCpuStats, cpuStatsPrint>>
      BY <1>6 DEF PrinterTake
    <2>3. /\ cpuStatsQueuePrint # <<>> /\ cpuStatsQueuePrint' = <<>>
          /\ frame' = Fill(frame, cpuStatsQueuePrint)
      BY <1>6 DEF PrinterTake
    <2>4. Len(cpuStatsQueuePrint) >= Rows /\ WholeFrame(Oldest(cpuStatsQueuePrint))
      BY <2>3 DEF RoundInv, QueueRounds
    <2>5. ASSUME NEW i \in Cpu
          PROVE  frame'[i] = Oldest(cpuStatsQueuePrint)[i]
      BY <2>3, <2>4, FillTakesOldest DEF DataInv
    <2>6. WholeFrame(frame')
      BY <2>4, <2>5, SameFrame
    <2>7. FrameWhole'
      BY <2>6 DEF FrameWhole, WholeFrame
    <2>8. QueueRounds' /\ BufferRounds'
      BY <2>1, <2>2, <2>3 DEF RoundInv, QueueRounds, BufferRounds
    <2> QED BY <2>7, <2>8 DEF RoundInv
  <1>7. CASE PrinterOverrun
    BY <1>7, RoundUnchanged DEF PrinterOverrun
  <1>8. CASE PrinterPrint
    <2>1. /\ pc["printer"] = "Print" /\ pc'["printer"] = "Lock"
          /\ pc'["analyzer"] = pc["analyzer"]
      BY <1>0, <1>8, StepMoves DEF PrinterPrint
    <2>2. UNCHANGED <<cpuStatsQueue, cpuStatsQueuePrint, cpuStats, prevCpuStats,
                   cpuStatsPrint, frame>>
      BY <1>8 DEF PrinterPrint
    <2> QED BY <2>1, <2>2, RoundUnchanged DEF Working
  <1> QED BY <1>1, <1>2, <1>3, <1>4, <1>5, <1>6, <1>7, <1>8 DEF PrinterStep

LEMMA RoundRest ==
  ASSUME ControlInv, RoundInv,
         WatchdogStep \/ SigtermStep \/ Sigterm \/ MainReturn
           \/ SpuriousWakeup("analyzer", "condCpuStatsQueue")
           \/ SpuriousWakeup("printer", "condCpuStatsPrinterQueue")
           \/ UNCHANGED vars
  PROVE  RoundInv'
  <1> USE DEF RequestClose, WakeAll
  <1>0. /\ "watchdog" \in Thread /\ {"analyzer", "printer"} \subseteq Thread \ {"watchdog"}
        /\ "sigterm" \in Thread /\ {"analyzer", "printer"} \subseteq Thread \ {"sigterm"}
    BY DEF Thread, Worker
  <1>1. CASE WatchdogStep
    <2> USE DEF WatchdogStep, WatchdogStart, WatchdogClear, WatchdogWake,
                WatchdogCheck, WatchdogCloseReader, WatchdogCloseAnalyzer,
                WatchdogClosePrinter, WatchdogWakeAnalyzer, WatchdogWakePrinter
    <2>1. pc'["analyzer"] = pc["analyzer"] /\ pc'["printer"] = pc["printer"]
      BY <1>0, <1>1, StepMoves
    <2>2. UNCHANGED <<cpuStatsQueue, cpuStatsQueuePrint, cpuStats, prevCpuStats,
                   cpuStatsPrint, frame>>
      BY <1>1
    <2> QED BY <2>1, <2>2, RoundUnchanged
  <1>2. CASE SigtermStep
    <2> USE DEF SigtermStep, SigtermStart, SigtermPoll, SigtermCloseReader,
                SigtermCloseAnalyzer, SigtermClosePrinter, SigtermCloseWatchdog,
                SigtermWakeAnalyzer, SigtermWakePrinter
    <2>1. pc'["analyzer"] = pc["analyzer"] /\ pc'["printer"] = pc["printer"]
      BY <1>0, <1>2, StepMoves
    <2>2. UNCHANGED <<cpuStatsQueue, cpuStatsQueuePrint, cpuStats, prevCpuStats,
                   cpuStatsPrint, frame>>
      BY <1>2
    <2> QED BY <2>1, <2>2, RoundUnchanged
  <1>3. CASE \/ Sigterm \/ MainReturn
             \/ SpuriousWakeup("analyzer", "condCpuStatsQueue")
             \/ SpuriousWakeup("printer", "condCpuStatsPrinterQueue")
             \/ UNCHANGED vars
    <2>1. /\ pc' = pc
          /\ UNCHANGED <<cpuStatsQueue, cpuStatsQueuePrint, cpuStats,
                         prevCpuStats, cpuStatsPrint, frame>>
      BY <1>3 DEF Sigterm, MainReturn, SpuriousWakeup, vars
    <2> QED BY <2>1, RoundUnchanged
  <1> QED BY <1>1, <1>2, <1>3

LEMMA RoundInit == Init => RoundInv
  BY DEF Init, RoundInv, QueueRounds, BufferRounds, FrameWhole, Working, Thread,
         Worker

LEMMA RoundNext ==
  ASSUME NoReadError, RoundFits
  PROVE  ControlInv /\ DataInv /\ RoundInv /\ [Next]_vars => RoundInv'
  BY NoReadError, RoundFits, RoundReader, RoundAnalyzer, RoundPrinter, RoundRest
     DEF Next

\* If a round fits the queues and /proc/stat can be read in full, every frame
\* the printer shows is one round: row i about CPU i, all rows from one pass
\* over the file relative to one earlier pass, none of them memory nobody
\* wrote.
THEOREM FrameWholeHolds ==
  ASSUME NoReadError, RoundFits
  PROVE  Spec => []FrameWhole
  <1>1. ControlInv /\ DataInv /\ RoundInv /\ [Next]_vars => RoundInv'
    BY NoReadError, RoundFits, RoundNext
  <1>2. RoundInv => FrameWhole
    BY DEF RoundInv
  <1> QED BY <1>1, <1>2, RoundInit, ControlHolds, DataHolds, PTL DEF Spec
=============================================================================
