---------------------------- MODULE DisplayProofs ----------------------------
(***************************************************************************)
(* Proof that threads, queues and buffers together implement Display, for  *)
(* every number of CPUs and every capacity that holds a round, if          *)
(* /proc/stat can be read in full.                                         *)
(*                                                                         *)
(* Of each queue and buffer the pass of its first row is enough, as its    *)
(* rounds are whole (RoundInv).  The passes are in order along the         *)
(* pipeline: what is on the screen, what waits for the printer, what the   *)
(* analyzer has done, what it is at, what waits for it, what was read last.*)
(***************************************************************************)
EXTENDS RoundProofs

USE DEF sync, source, queues, flags, analyzerVars

\* The end of the interval on the screen.
NothingShown == \A i \in Cpu : frame[i] = Garbage
ShownTo == IF NothingShown THEN 0 ELSE frame[0].cur.tick

\* The pass whose figures the analyzer pushed last (LastBatch), and the pass
\* it has got to.
DoneTick == LastBatch[0].tick
BatchTick == IF pc["analyzer"] \in Working THEN cpuStats[0].tick ELSE prevCpuStats[0].tick

Started == pc["analyzer"] \notin {"Start", "Barrier"}

FrameInv ==
  /\ NothingShown \/ WholeFrame(frame)
  /\ pc["printer"] \in {"Start", "Barrier"} => NothingShown
  /\ ~Started => NothingShown

OrderInv ==
  /\ Started => ShownTo <= DoneTick /\ DoneTick <= BatchTick /\ BatchTick <= tick
  /\ cpuStatsQueuePrint # <<>> =>
       /\ ShownTo <= cpuStatsQueuePrint[1].prev.tick
       /\ cpuStatsQueuePrint[1].prev.tick <= cpuStatsQueuePrint[1].cur.tick
       /\ cpuStatsQueuePrint[1].cur.tick <= DoneTick
  /\ cpuStatsQueue # <<>> =>
       /\ Started => BatchTick <= cpuStatsQueue[1].tick
       /\ cpuStatsQueue[1].tick <= tick

-----------------------------------------------------------------------------
(***************************************************************************)
(* Passes of rounds                                                        *)
(***************************************************************************)

LEMMA CpuFacts == 0 \in Cpu /\ 1 \in Cpu
  BY CpuThreadsAssumption DEF Cpu

LEMMA BatchIs ==
  ASSUME NEW batch, WholeBatch(batch)
  PROVE  batch[0].tick \in Nat
  <1>1. PICK now \in Tick : \A i \in Cpu : batch[i] = [cpu |-> i, tick |-> now]
    BY DEF WholeBatch
  <1>2. batch[0] = [cpu |-> 0, tick |-> now]
    BY <1>1, CpuFacts, Zenon
  <1>3. batch[0].tick = now
    BY <1>2
  <1> QED BY <1>3, MaxTickAssumption DEF Tick

\* A whole frame is no memory nobody wrote, whatever that looks like: its rows
\* differ.
LEMMA FrameIs ==
  ASSUME NEW figures, WholeFrame(figures)
  PROVE  /\ figures[0].cur.tick \in Tick /\ figures[0].prev.tick \in Tick
         /\ ~ \A i \in Cpu : figures[i] = Garbage
  <1>1. PICK now \in Tick, before \in Tick :
          \A i \in Cpu : figures[i] = [cur  |-> [cpu |-> i, tick |-> now],
                                       prev |-> [cpu |-> i, tick |-> before]]
    BY DEF WholeFrame
  <1>2. figures[0] = [cur  |-> [cpu |-> 0, tick |-> now],
                      prev |-> [cpu |-> 0, tick |-> before]]
    BY <1>1, CpuFacts, Zenon
  <1>3. figures[1] = [cur  |-> [cpu |-> 1, tick |-> now],
                      prev |-> [cpu |-> 1, tick |-> before]]
    BY <1>1, CpuFacts, Zenon
  <1>4. /\ figures[0].cur = [cpu |-> 0, tick |-> now]
        /\ figures[0].prev = [cpu |-> 0, tick |-> before]
        /\ figures[1].cur = [cpu |-> 1, tick |-> now]
    BY <1>2, <1>3
  <1>5. figures[0].cur.cpu # figures[1].cur.cpu
    BY <1>4
  <1> QED BY <1>4, <1>5, CpuFacts

LEMMA OldestIs ==
  ASSUME NEW queue
  PROVE  Oldest(queue)[0] = queue[1]
  BY CpuFacts DEF Oldest

LEMMA TickIs ==
  ASSUME DataInv
  PROVE  /\ tick \in Nat /\ NextTick \in Nat /\ tick <= NextTick
         /\ NextTick = IF tick < MaxTick THEN tick + 1 ELSE tick
  BY MaxTickAssumption DEF DataInv, Tick, NextTick, AtMost

\* What the buffers and queues hold are passes.
LEMMA PassesTyped ==
  ASSUME DataInv, RoundInv, FrameInv
  PROVE  /\ tick \in Nat /\ ShownTo \in Nat
         /\ Started => DoneTick \in Nat /\ BatchTick \in Nat /\ prevCpuStats[0].tick \in Nat
         /\ pc["analyzer"] \in Working => cpuStats[0].tick \in Nat
         /\ cpuStatsQueuePrint # <<>> =>
              cpuStatsQueuePrint[1].prev.tick \in Nat /\ cpuStatsQueuePrint[1].cur.tick \in Nat
         /\ cpuStatsQueue # <<>> => cpuStatsQueue[1].tick \in Nat
  <1>1. \A n \in Tick : n \in Nat
    BY MaxTickAssumption DEF Tick
  <1>2. ShownTo \in Nat
    BY <1>1, FrameIs DEF FrameInv, ShownTo
  <1>3. /\ Started => WholeBatch(prevCpuStats)
        /\ pc["analyzer"] \in Working => WholeBatch(cpuStats)
        /\ cpuStatsQueuePrint # <<>> => WholeFrame(Oldest(cpuStatsQueuePrint))
        /\ cpuStatsQueue # <<>> => WholeBatch(Oldest(cpuStatsQueue))
    BY DEF RoundInv, BufferRounds, QueueRounds, Started
  <1>4. /\ Started => prevCpuStats[0].tick \in Nat
        /\ pc["analyzer"] \in Working => cpuStats[0].tick \in Nat
    BY <1>3, BatchIs
  <1>5. cpuStatsQueuePrint # <<>> =>
          cpuStatsQueuePrint[1].prev.tick \in Nat /\ cpuStatsQueuePrint[1].cur.tick \in Nat
    BY <1>1, <1>3, FrameIs, OldestIs
  <1>6. cpuStatsQueue # <<>> => cpuStatsQueue[1].tick \in Nat
    BY <1>3, BatchIs, OldestIs
  <1>7. Started => DoneTick \in Nat /\ BatchTick \in Nat
    BY <1>4 DEF DoneTick, LastBatch, BatchTick, Working
  <1> QED BY <1>1, <1>2, <1>4, <1>5, <1>6, <1>7 DEF DataInv

-----------------------------------------------------------------------------
(***************************************************************************)
(* The order is kept                                                       *)
(***************************************************************************)

PassInv == FrameInv /\ OrderInv

\* A step that leaves the screen, the passes and the queues as they are.
LEMMA PassUnchanged ==
  ASSUME PassInv, UNCHANGED <<tick, cpuStatsQueue, cpuStatsQueuePrint, frame>>,
         Started' = Started, Started => DoneTick' = DoneTick /\ BatchTick' = BatchTick,
         ~Started => cpuStatsQueuePrint = <<>>,
         pc'["printer"] \in {"Start", "Barrier"} => pc["printer"] \in {"Start", "Barrier"}
  PROVE  PassInv'
  <1>1. NothingShown' = NothingShown /\ ShownTo' = ShownTo
    BY DEF NothingShown, ShownTo
  <1>2. FrameInv'
    BY <1>1 DEF PassInv, FrameInv
  <1>3. OrderInv'
    BY <1>1 DEF PassInv, OrderInv
  <1> QED BY <1>2, <1>3 DEF PassInv

\* A step of another thread than analyzer and printer that is not a pass.
LEMMA PassElsewhere ==
  ASSUME PassInv, AdjoinInv, pc'["analyzer"] = pc["analyzer"],
         pc'["printer"] \in {"Start", "Barrier"} => pc["printer"] \in {"Start", "Barrier"},
         UNCHANGED <<tick, cpuStatsQueue, cpuStatsQueuePrint, frame, cpuStats, prevCpuStats>>
  PROVE  PassInv'
  <1>1. Started' = Started /\ DoneTick' = DoneTick /\ BatchTick' = BatchTick
    BY DEF Started, DoneTick, LastBatch, BatchTick
  <1>2. ~Started => cpuStatsQueuePrint = <<>>
    BY DEF Started, AdjoinInv, EarlyInv
  <1> QED BY <1>1, <1>2, PassUnchanged

LEMMA PassReader ==
  ASSUME NoReadError, RoundFits, ControlInv, DataInv, RoundInv, AdjoinInv, PassInv, ReaderStep
  PROVE  PassInv'
  <1>0. "reader" \in Thread /\ {"analyzer", "printer"} \subseteq Thread \ {"reader"}
    BY DEF Thread, Worker
  <1>1. CASE ReaderRead
    <2>1. /\ pc["reader"] = "Read"
          /\ pc'["analyzer"] = pc["analyzer"] /\ pc'["printer"] = pc["printer"]
      BY <1>0, <1>1, StepMoves DEF ReaderRead
    <2>2. /\ UNCHANGED <<cpuStatsQueuePrint, cpuStats, prevCpuStats, frame>>
          /\ tick' = NextTick
      BY <1>1 DEF ReaderRead
    <2>3. threadsNum = CpuThreads
      BY <2>1 DEF ControlInv, BarrierInv
    <2> DEFINE row == Readings(Rows)
    <2>4. cpuStatsQueue' = PushAll(cpuStatsQueue, row)
      BY <1>1, <2>3 DEF ReaderRead, Rows
    <2>5. row \in Seq(Reading) /\ Len(row) = Rows /\ row[1] = [cpu |-> 0, tick |-> NextTick]
      <3>1. CpuThreads + 1 \in 0 .. CpuThreads + 1 /\ Rows \in Nat /\ 1 \in 1 .. Rows
        BY CpuThreadsAssumption DEF Rows
      <3>2. row \in Seq(Reading)
        BY <3>1, ReadingsType DEF DataInv, Rows
      <3>3. row = [i \in 1 .. Rows |-> [cpu |-> i - 1, tick |-> NextTick]]
        BY DEF Readings
      <3>4. row[1] = [cpu |-> 0, tick |-> NextTick]
        BY <3>1, <3>3
      <3>5. Len(row) = Rows
        BY <3>1, <3>2, <3>3
      <3> QED BY <3>2, <3>4, <3>5
    <2>6. cpuStatsQueue \in Seq(Reading) /\ Len(cpuStatsQueue) <= MAX_CAPACITY
          /\ (cpuStatsQueue # <<>> => Len(cpuStatsQueue) >= Rows)
      BY DEF DataInv, RoundInv, QueueRounds
    <2> HIDE DEF row
    <2>7. /\ cpuStatsQueue # <<>> => cpuStatsQueue'[1] = cpuStatsQueue[1]
          /\ cpuStatsQueue = <<>> => cpuStatsQueue'[1] = [cpu |-> 0, tick |-> NextTick]
      <3>1. /\ cpuStatsQueue # <<>> =>
                 \A i \in Cpu : Oldest(cpuStatsQueue')[i] = Oldest(cpuStatsQueue)[i]
            /\ cpuStatsQueue = <<>> =>
                 \A i \in Cpu : Oldest(cpuStatsQueue')[i] = row[i + 1]
        BY <2>4, <2>5, <2>6, PushKeepsOldest
      <3>2. 0 + 1 = 1
        OBVIOUS
      <3> QED BY <2>5, <3>1, <3>2, CpuFacts, OldestIs
    <2>8. Started' = Started /\ DoneTick' = DoneTick /\ BatchTick' = BatchTick
      BY <2>1, <2>2 DEF Started, DoneTick, LastBatch, BatchTick
    <2>9. NothingShown' = NothingShown /\ ShownTo' = ShownTo
      BY <2>2 DEF NothingShown, ShownTo
    <2>10. FrameInv'
      BY <2>1, <2>2, <2>8, <2>9 DEF PassInv, FrameInv
    <2>11. /\ tick \in Nat /\ NextTick \in Nat /\ tick <= NextTick
           /\ Started => BatchTick \in Nat
           /\ cpuStatsQueue # <<>> => cpuStatsQueue[1].tick \in Nat
      BY TickIs, PassesTyped DEF PassInv
    <2>12. OrderInv'
      <3>1. Started => BatchTick <= NextTick
        BY <2>11 DEF PassInv, OrderInv
      <3>2. CASE cpuStatsQueue # <<>>
        <4>1. cpuStatsQueue[1].tick <= NextTick /\ cpuStatsQueue'[1].tick = cpuStatsQueue[1].tick
          BY <2>7, <2>11, <3>2 DEF PassInv, OrderInv
        <4> QED BY <2>2, <2>8, <2>9, <3>1, <3>2, <4>1 DEF PassInv, OrderInv
      <3>3. CASE cpuStatsQueue = <<>>
        <4>1. cpuStatsQueue'[1].tick = NextTick
          BY <2>7, <3>3
        <4> QED BY <2>2, <2>8, <2>9, <2>11, <3>1, <4>1 DEF PassInv, OrderInv
      <3> QED BY <3>2, <3>3
    <2> QED BY <2>10, <2>12 DEF PassInv
  <1>2. ~ReaderReadFails
    BY DEF ReaderReadFails, NoReadError
  <1>3. CASE ReaderStep /\ ~ReaderRead
    <2> USE DEF ReaderStep, ReaderStart, ReaderCount, ReaderLeaveBarrier, ReaderLock,
                ReaderOpenFails, ReaderSignal, ReaderMark, ReaderCheckClose, LeaveBarrier
    <2>1. pc'["analyzer"] = pc["analyzer"] /\ pc'["printer"] = pc["printer"]
      BY <1>0, <1>2, <1>3, StepMoves
    <2>2. UNCHANGED <<tick, cpuStatsQueue, cpuStatsQueuePrint, frame, cpuStats, prevCpuStats>>
      BY <1>2, <1>3
    <2> QED BY <2>1, <2>2, PassElsewhere
  <1> QED BY <1>1, <1>3

\* The analyzer leaves the barrier: its last batch is the reading of tick 0.
LEMMA PassAnalyzerStarts ==
  ASSUME ControlInv, DataInv, RoundInv, RoundInv', AdjoinInv, PassInv, AnalyzerLeaveBarrier
  PROVE  PassInv'
  <1>0. "analyzer" \in Thread /\ "printer" \in Thread \ {"analyzer"}
    BY DEF Thread, Worker
  <1>1. /\ pc["analyzer"] = "Barrier" /\ pc'["analyzer"] = "Lock"
        /\ pc'["printer"] = pc["printer"]
    BY <1>0, StepMoves DEF AnalyzerLeaveBarrier, LeaveBarrier
  <1>2. /\ UNCHANGED <<tick, cpuStatsQueue, cpuStatsQueuePrint, frame>>
        /\ threadsNum = CpuThreads
    BY <1>1 DEF AnalyzerLeaveBarrier, LeaveBarrier, ControlInv,
                ControlTypes, BarrierInv, BarrierCount, Consumers
  <1>3. NothingShown /\ cpuStatsQueuePrint = <<>>
    BY <1>1 DEF PassInv, FrameInv, Started, AdjoinInv, EarlyInv
  <1>4. NothingShown' /\ ShownTo' = 0
    BY <1>2, <1>3 DEF NothingShown, ShownTo
  <1>5. prevCpuStats'[0] = [cpu |-> 0, tick |-> 0]
    BY <1>2, CpuFacts, CpuThreadsAssumption DEF AnalyzerLeaveBarrier
  <1>6. DoneTick' = 0 /\ BatchTick' = 0
    BY <1>1, <1>5 DEF DoneTick, LastBatch, BatchTick, Working
  <1>7. FrameInv'
    BY <1>4 DEF FrameInv
  <1>8. tick \in Nat /\ (cpuStatsQueue # <<>> => cpuStatsQueue[1].tick \in Nat)
    BY PassesTyped DEF PassInv
  <1>9. OrderInv'
    BY <1>2, <1>3, <1>4, <1>6, <1>8 DEF PassInv, OrderInv
  <1> QED BY <1>7, <1>9 DEF PassInv

\* The analyzer takes the oldest round of its queue.
LEMMA PassAnalyzerTakes ==
  ASSUME ControlInv, DataInv, RoundInv, RoundInv', AdjoinInv, PassInv, AnalyzerTake
  PROVE  PassInv'
  <1>0. "analyzer" \in Thread /\ "printer" \in Thread \ {"analyzer"}
    BY DEF Thread, Worker
  <1>1. /\ pc["analyzer"] = "Take" /\ pc'["analyzer"] = "Process"
        /\ pc'["printer"] = pc["printer"]
    BY <1>0, StepMoves DEF AnalyzerTake
  <1>2. /\ UNCHANGED <<tick, cpuStatsQueuePrint, prevCpuStats, frame>>
        /\ cpuStatsQueue # <<>> /\ cpuStatsQueue' = <<>>
        /\ cpuStats' = Fill(cpuStats, cpuStatsQueue)
    BY DEF AnalyzerTake
  <1>3. Len(cpuStatsQueue) >= Rows /\ cpuStatsQueue \in Seq(Reading)
    BY <1>2 DEF RoundInv, QueueRounds, DataInv
  <1>4. cpuStats'[0] = cpuStatsQueue[1]
    BY <1>2, <1>3, CpuFacts, FillTakesOldest, OldestIs
  <1>5. /\ Started /\ Started'
        /\ DoneTick' = DoneTick /\ BatchTick' = cpuStatsQueue[1].tick
    BY <1>1, <1>2, <1>4 DEF Started, DoneTick, LastBatch, BatchTick, Working
  <1>6. NothingShown' = NothingShown /\ ShownTo' = ShownTo
    BY <1>2 DEF NothingShown, ShownTo
  <1>7. FrameInv'
    BY <1>1, <1>2, <1>5, <1>6 DEF PassInv, FrameInv
  <1>8. /\ tick \in Nat /\ DoneTick \in Nat /\ BatchTick \in Nat
        /\ cpuStatsQueue[1].tick \in Nat
    BY <1>2, <1>5, PassesTyped DEF PassInv
  <1>9. /\ DoneTick <= BatchTick /\ BatchTick <= cpuStatsQueue[1].tick
        /\ cpuStatsQueue[1].tick <= tick
    BY <1>2, <1>5 DEF PassInv, OrderInv
  <1>10. OrderInv'
    BY <1>2, <1>5, <1>6, <1>8, <1>9 DEF PassInv, OrderInv
  <1> QED BY <1>7, <1>10 DEF PassInv

\* The analyzer pushes its figures: what it has done catches up with what it
\* is at.
LEMMA PassAnalyzerPushes ==
  ASSUME RoundFits, ControlInv, DataInv, RoundInv, RoundInv', AdjoinInv, PassInv, AnalyzerPush
  PROVE  PassInv'
  <1>0. "analyzer" \in Thread /\ "printer" \in Thread \ {"analyzer"}
    BY DEF Thread, Worker
  <1>1. /\ pc["analyzer"] = "Push" /\ pc'["analyzer"] = "Signal"
        /\ pc'["printer"] = pc["printer"]
    BY <1>0, StepMoves DEF AnalyzerPush
  <1>2. UNCHANGED <<tick, cpuStatsQueue, cpuStats, prevCpuStats, cpuStatsPrint, frame>>
    BY DEF AnalyzerPush
  <1>3. /\ Started /\ Started'
        /\ DoneTick = prevCpuStats[0].tick /\ DoneTick' = cpuStats[0].tick
        /\ BatchTick = cpuStats[0].tick /\ BatchTick' = cpuStats[0].tick
    BY <1>1, <1>2 DEF Started, DoneTick, LastBatch, BatchTick, Working
  <1>4. NothingShown' = NothingShown /\ ShownTo' = ShownTo
    BY <1>2 DEF NothingShown, ShownTo
  <1>5. FrameInv'
    BY <1>1, <1>2, <1>3, <1>4 DEF PassInv, FrameInv
  <1>6. cpuStatsQueuePrint # <<>> => cpuStatsQueuePrint'[1] = cpuStatsQueuePrint[1]
    <2>1. cpuStatsQueuePrint # <<>> => 1 \in 1 .. Len(cpuStatsQueuePrint)
      BY DEF DataInv
    <2> QED BY <2>1, PushedRow
  <1>7. cpuStatsQueuePrint = <<>> =>
          cpuStatsQueuePrint'[1] = [cur |-> cpuStats[0], prev |-> prevCpuStats[0]]
    <2> SUFFICES ASSUME cpuStatsQueuePrint = <<>>
                 PROVE  cpuStatsQueuePrint'[1] = [cur |-> cpuStats[0], prev |-> prevCpuStats[0]]
      OBVIOUS
    <2>1. Len(cpuStatsQueuePrint) = 0 /\ 0 + 0 + 1 = 1 /\ 1 <= MAX_CAPACITY
      BY CapacityAssumption
    <2>2. Len(cpuStatsQueuePrint) + 0 + 1 = 1
      BY <2>1
    <2>3. cpuStatsQueuePrint'[1] = cpuStatsPrint[0]
      BY <2>1, <2>2, CpuFacts, PushedRow
    <2>4. cpuStatsPrint[0] = [cur |-> cpuStats[0], prev |-> prevCpuStats[0]]
      BY <1>1, CpuFacts DEF AdjoinInv, PrintRowInv
    <2> QED BY <2>3, <2>4
  <1>8. /\ tick \in Nat /\ ShownTo \in Nat
        /\ DoneTick \in Nat /\ BatchTick \in Nat
        /\ cpuStatsQueuePrint # <<>> =>
              cpuStatsQueuePrint[1].prev.tick \in Nat /\ cpuStatsQueuePrint[1].cur.tick \in Nat
    BY <1>3, PassesTyped DEF PassInv
  <1>9. ShownTo <= DoneTick /\ DoneTick <= BatchTick /\ BatchTick <= tick
    BY <1>3 DEF PassInv, OrderInv
  <1>10. /\ ShownTo <= cpuStatsQueuePrint'[1].prev.tick
         /\ cpuStatsQueuePrint'[1].prev.tick <= cpuStatsQueuePrint'[1].cur.tick
         /\ cpuStatsQueuePrint'[1].cur.tick <= BatchTick
    <2>1. CASE cpuStatsQueuePrint = <<>>
      <3>1. /\ cpuStatsQueuePrint'[1].prev.tick = DoneTick
            /\ cpuStatsQueuePrint'[1].cur.tick = BatchTick
        BY <1>3, <1>7, <2>1
      <3> QED BY <1>8, <1>9, <3>1
    <2>2. CASE cpuStatsQueuePrint # <<>>
      <3>1. /\ ShownTo <= cpuStatsQueuePrint[1].prev.tick
            /\ cpuStatsQueuePrint[1].prev.tick <= cpuStatsQueuePrint[1].cur.tick
            /\ cpuStatsQueuePrint[1].cur.tick <= DoneTick
        BY <2>2 DEF PassInv, OrderInv
      <3>2. cpuStatsQueuePrint[1].cur.tick <= BatchTick
        BY <1>8, <1>9, <2>2, <3>1
      <3> QED BY <1>6, <2>2, <3>1, <3>2
    <2> QED BY <2>1, <2>2
  <1>11. ShownTo <= BatchTick /\ BatchTick <= BatchTick
    BY <1>8, <1>9
  <1>12. DoneTick' = BatchTick /\ BatchTick' = BatchTick
    BY <1>3
  <1>13. OrderInv'
    BY <1>2, <1>3, <1>4, <1>9, <1>10, <1>11, <1>12 DEF PassInv, OrderInv
  <1> QED BY <1>5, <1>13 DEF PassInv

LEMMA PassAnalyzer ==
  ASSUME RoundFits, ControlInv, DataInv, RoundInv, RoundInv', AdjoinInv, PassInv, AnalyzerStep
  PROVE  PassInv'
  <1>0. "analyzer" \in Thread /\ "printer" \in Thread \ {"analyzer"}
    BY DEF Thread, Worker
  <1>1. ~Started => cpuStatsQueuePrint = <<>>
    BY DEF Started, AdjoinInv, EarlyInv
  <1>2. CASE AnalyzerLeaveBarrier \/ AnalyzerTake \/ AnalyzerPush
    BY <1>2, PassAnalyzerStarts, PassAnalyzerTakes, PassAnalyzerPushes
  <1>3. CASE AnalyzerStart
    <2>1. /\ pc["analyzer"] = "Start" /\ pc'["analyzer"] = "Barrier"
          /\ pc'["printer"] = pc["printer"]
      BY <1>0, <1>3, StepMoves DEF AnalyzerStart
    <2>2. UNCHANGED <<tick, cpuStatsQueue, cpuStatsQueuePrint, frame>>
      BY <1>3 DEF AnalyzerStart
    <2>3. ~Started /\ Started' = Started
      BY <2>1 DEF Started
    <2> QED BY <1>1, <2>1, <2>2, <2>3, PassUnchanged
  <1>4. CASE AnalyzerLock \/ AnalyzerWait \/ AnalyzerWakeup
    <2>1. /\ pc["analyzer"] \in {"Lock", "Take", "Wait"}
          /\ pc'["analyzer"] \in {"Take", "Wait", "Done"}
          /\ pc'["printer"] = pc["printer"]
      BY <1>0, <1>4, StepMoves DEF AnalyzerLock, AnalyzerWait, AnalyzerWakeup
    <2>2. UNCHANGED <<tick, cpuStatsQueue, cpuStatsQueuePrint, frame, cpuStats, prevCpuStats>>
      BY <1>4 DEF AnalyzerLock, AnalyzerWait, AnalyzerWakeup
    <2>3. Started' = Started /\ DoneTick' = DoneTick /\ BatchTick' = BatchTick
      BY <2>1, <2>2 DEF Started, DoneTick, LastBatch, BatchTick, Working
    <2> QED BY <1>1, <2>1, <2>2, <2>3, PassUnchanged
  <1>5. CASE AnalyzerProcess \/ AnalyzerSignal
    <2>1. /\ \/ pc["analyzer"] = "Process" /\ pc'["analyzer"] = "Push"
             \/ pc["analyzer"] = "Signal" /\ pc'["analyzer"] = "Mark"
          /\ pc'["printer"] = pc["printer"]
      BY <1>0, <1>5, StepMoves DEF AnalyzerProcess, AnalyzerSignal
    <2>2. UNCHANGED <<tick, cpuStatsQueue, cpuStatsQueuePrint, frame, cpuStats, prevCpuStats>>
      BY <1>5 DEF AnalyzerProcess, AnalyzerSignal
    <2>3. Started' = Started /\ DoneTick' = DoneTick /\ BatchTick' = BatchTick
      BY <2>1, <2>2 DEF Started, DoneTick, LastBatch, BatchTick, Working
    <2> QED BY <1>1, <2>1, <2>2, <2>3, PassUnchanged
  <1>6. CASE AnalyzerMark
    <2>1. /\ pc["analyzer"] = "Mark" /\ pc'["analyzer"] = "Lock"
          /\ pc'["printer"] = pc["printer"]
      BY <1>0, <1>6, StepMoves DEF AnalyzerMark
    <2>2. UNCHANGED <<tick, cpuStatsQueue, cpuStatsQueuePrint, frame>>
      BY <1>6 DEF AnalyzerMark
    <2>3. threadsNum = CpuThreads
      BY <2>1, ReadyThreads
    <2>4. prevCpuStats'[0] = cpuStats[0]
      BY <1>6, <2>3, CpuFacts, CpuThreadsAssumption DEF AnalyzerMark
    <2>5. Started' = Started /\ DoneTick' = DoneTick /\ BatchTick' = BatchTick
      BY <2>1, <2>4 DEF Started, DoneTick, LastBatch, BatchTick, Working
    <2> QED BY <1>1, <2>1, <2>2, <2>5, PassUnchanged
  <1>7. CASE AnalyzerOverrun
    BY <1>7, PassElsewhere DEF AnalyzerOverrun
  <1> QED BY <1>2, <1>3, <1>4, <1>5, <1>6, <1>7 DEF AnalyzerStep

\* The printer takes the oldest round of its queue: the screen catches up
\* with it.
LEMMA PrinterShows ==
  ASSUME RoundFits, ControlInv, DataInv, RoundInv, AdjoinInv, PassInv, PrinterTake
  PROVE  /\ pc["printer"] = "Take" /\ pc'["printer"] = "Print"
         /\ pc'["analyzer"] = pc["analyzer"]
         /\ cpuStatsQueuePrint # <<>>
         /\ WholeFrame(frame') /\ frame'[0] = cpuStatsQueuePrint[1]
         /\ ~NothingShown' /\ ShownTo' = cpuStatsQueuePrint[1].cur.tick
  <1>0. "printer" \in Thread /\ "analyzer" \in Thread \ {"printer"}
    BY DEF Thread, Worker
  <1>1. /\ pc["printer"] = "Take" /\ pc'["printer"] = "Print"
        /\ pc'["analyzer"] = pc["analyzer"]
    BY <1>0, StepMoves DEF PrinterTake
  <1>2. /\ cpuStatsQueuePrint # <<>>
        /\ frame' = Fill(frame, cpuStatsQueuePrint)
    BY DEF PrinterTake
  <1>3. /\ Len(cpuStatsQueuePrint) >= Rows /\ WholeFrame(Oldest(cpuStatsQueuePrint))
        /\ cpuStatsQueuePrint \in Seq(UsageCell)
    BY <1>2 DEF RoundInv, QueueRounds, DataInv
  <1>4. ASSUME NEW i \in Cpu
        PROVE  frame'[i] = Oldest(cpuStatsQueuePrint)[i]
    BY <1>2, <1>3, FillTakesOldest
  <1>5. WholeFrame(frame')
    BY <1>3, <1>4, SameFrame
  <1>6. frame'[0] = cpuStatsQueuePrint[1]
    BY <1>4, CpuFacts, OldestIs
  <1>7. ~NothingShown'
    BY <1>5, FrameIs DEF NothingShown
  <1>8. ShownTo' = frame'[0].cur.tick
    BY <1>7 DEF ShownTo
  <1> QED BY <1>1, <1>2, <1>5, <1>6, <1>7, <1>8

LEMMA PassPrinter ==
  ASSUME RoundFits, ControlInv, DataInv, RoundInv, AdjoinInv, PassInv, PrinterStep
  PROVE  PassInv'
  <1>0. "printer" \in Thread /\ "analyzer" \in Thread \ {"printer"}
    BY DEF Thread, Worker
  <1>1. CASE PrinterTake
    <2>1. UNCHANGED <<tick, cpuStatsQueue, cpuStats, prevCpuStats>> /\ cpuStatsQueuePrint' = <<>>
      BY <1>1 DEF PrinterTake
    <2>2. /\ pc'["printer"] = "Print" /\ pc'["analyzer"] = pc["analyzer"]
          /\ cpuStatsQueuePrint # <<>> /\ WholeFrame(frame')
          /\ ShownTo' = cpuStatsQueuePrint[1].cur.tick
      BY <1>1, PrinterShows
    <2>3. Started' = Started /\ DoneTick' = DoneTick /\ BatchTick' = BatchTick
      BY <2>1, <2>2 DEF Started, DoneTick, LastBatch, BatchTick
    <2>4. Started
      BY <2>2 DEF Started, AdjoinInv, EarlyInv
    <2>5. FrameInv'
      BY <2>2, <2>3, <2>4 DEF FrameInv
    <2>6. ShownTo' <= DoneTick
      BY <2>2 DEF PassInv, OrderInv
    <2>7. OrderInv'
      BY <2>1, <2>3, <2>4, <2>6 DEF PassInv, OrderInv
    <2> QED BY <2>5, <2>7 DEF PassInv
  <1>2. CASE PrinterLeaveBarrier
    <2>1. /\ pc["printer"] = "Barrier" /\ pc'["analyzer"] = pc["analyzer"]
      BY <1>0, <1>2, StepMoves DEF PrinterLeaveBarrier, LeaveBarrier
    <2>2. UNCHANGED <<tick, cpuStatsQueue, cpuStatsQueuePrint, cpuStats, prevCpuStats>>
      BY <1>2 DEF PrinterLeaveBarrier
    <2>3. NothingShown /\ NothingShown'
      BY <1>2, <2>1 DEF PrinterLeaveBarrier, PassInv, FrameInv, NothingShown
    <2>4. ShownTo' = ShownTo
      BY <2>3 DEF ShownTo
    <2>5. Started' = Started /\ DoneTick' = DoneTick /\ BatchTick' = BatchTick
      BY <2>1, <2>2 DEF Started, DoneTick, LastBatch, BatchTick
    <2>6. FrameInv'
      BY <2>3 DEF FrameInv
    <2>7. OrderInv'
      BY <2>2, <2>4, <2>5 DEF PassInv, OrderInv
    <2> QED BY <2>6, <2>7 DEF PassInv
  <1>3. CASE PrinterStart \/ PrinterLock \/ PrinterWait \/ PrinterWakeup \/ PrinterPrint
    <2>1. /\ pc'["analyzer"] = pc["analyzer"]
          /\ pc'["printer"] \in {"Start", "Barrier"} => pc["printer"] \in {"Start", "Barrier"}
      BY <1>0, <1>3, StepMoves DEF PrinterStart, PrinterLock, PrinterWait, PrinterWakeup, PrinterPrint
    <2>2. UNCHANGED <<tick, cpuStatsQueue, cpuStatsQueuePrint, frame, cpuStats, prevCpuStats>>
      BY <1>3 DEF PrinterStart, PrinterLock, PrinterWait, PrinterWakeup, PrinterPrint
    <2> QED BY <2>1, <2>2, PassElsewhere
  <1>4. CASE PrinterOverrun
    BY <1>4, PassElsewhere DEF PrinterOverrun
  <1> QED BY <1>1, <1>2, <1>3, <1>4 DEF PrinterStep

\* The steps of everybody else leave pipeline and screen alone.
LEMMA RestMovesNothing ==
  ASSUME ControlInv,
         WatchdogStep \/ SigtermStep \/ Sigterm \/ MainReturn
           \/ SpuriousWakeup("analyzer", "condCpuStatsQueue")
           \/ SpuriousWakeup("printer", "condCpuStatsPrinterQueue")
           \/ UNCHANGED vars
  PROVE  /\ pc'["analyzer"] = pc["analyzer"] /\ pc'["printer"] = pc["printer"]
         /\ UNCHANGED <<tick, cpuStatsQueue, cpuStatsQueuePrint, frame, cpuStats, prevCpuStats>>
  <1> USE DEF RequestClose, WakeAll
  <1>0. /\ "watchdog" \in Thread /\ {"analyzer", "printer"} \subseteq Thread \ {"watchdog"}
        /\ "sigterm" \in Thread /\ {"analyzer", "printer"} \subseteq Thread \ {"sigterm"}
    BY DEF Thread, Worker
  <1>1. CASE WatchdogStep
    <2> USE DEF WatchdogStep, WatchdogStart, WatchdogClear, WatchdogWake,
                WatchdogCheck, WatchdogCloseReader, WatchdogCloseAnalyzer,
                WatchdogClosePrinter, WatchdogWakeAnalyzer, WatchdogWakePrinter
    <2>1. pc'["analyzer"] = pc["analyzer"] /\ pc'["printer"] = pc["printer"]
      BY <1>0, <1>1, StepMoves
    <2> QED BY <1>1, <2>1
  <1>2. CASE SigtermStep
    <2> USE DEF SigtermStep, SigtermStart, SigtermPoll, SigtermCloseReader,
                SigtermCloseAnalyzer, SigtermClosePrinter, SigtermCloseWatchdog,
                SigtermWakeAnalyzer, SigtermWakePrinter
    <2>1. pc'["analyzer"] = pc["analyzer"] /\ pc'["printer"] = pc["printer"]
      BY <1>0, <1>2, StepMoves
    <2> QED BY <1>2, <2>1
  <1>3. CASE \/ Sigterm \/ MainReturn
             \/ SpuriousWakeup("analyzer", "condCpuStatsQueue")
             \/ SpuriousWakeup("printer", "condCpuStatsPrinterQueue")
             \/ UNCHANGED vars
    BY <1>3 DEF Sigterm, MainReturn, SpuriousWakeup, vars
  <1> QED BY <1>1, <1>2, <1>3

LEMMA PassInit == Init => PassInv
  <1> SUFFICES ASSUME Init PROVE PassInv
    OBVIOUS
  <1>1. NothingShown /\ ~Started
    BY DEF Init, NothingShown, Started, Thread, Worker
  <1>2. FrameInv
    BY <1>1 DEF FrameInv
  <1>3. OrderInv
    BY <1>1 DEF Init, OrderInv
  <1> QED BY <1>2, <1>3 DEF PassInv

LEMMA PassNext ==
  ASSUME NoReadError, RoundFits
  PROVE  ControlInv /\ DataInv /\ RoundInv /\ RoundInv' /\ AdjoinInv /\ PassInv /\ [Next]_vars
           => PassInv'
  <1> SUFFICES ASSUME ControlInv, DataInv, RoundInv, RoundInv', AdjoinInv, PassInv, [Next]_vars
               PROVE  PassInv'
    OBVIOUS
  <1>1. CASE WatchdogStep \/ SigtermStep \/ Sigterm \/ MainReturn
               \/ SpuriousWakeup("analyzer", "condCpuStatsQueue")
               \/ SpuriousWakeup("printer", "condCpuStatsPrinterQueue")
               \/ UNCHANGED vars
    BY <1>1, RestMovesNothing, PassElsewhere
  <1> QED BY <1>1, NoReadError, RoundFits, PassReader, PassAnalyzer, PassPrinter DEF Next

-----------------------------------------------------------------------------
(***************************************************************************)
(* The steps of the program as steps of the display                        *)
(***************************************************************************)

LEMMA ShownBlank ==
  ASSUME NothingShown
  PROVE  Shown = [from |-> 0, to |-> 0]
  BY DEF Shown, NothingShown

LEMMA ShownWhole ==
  ASSUME WholeFrame(frame)
  PROVE  Shown = [from |-> frame[0].prev.tick, to |-> frame[0].cur.tick]
  <1>1. ~ \A i \in Cpu : frame[i] = Garbage
    BY FrameIs
  <1>2. \E now, before \in Tick : \A i \in Cpu :
          frame[i] = [cur  |-> [cpu |-> i, tick |-> now],
                      prev |-> [cpu |-> i, tick |-> before]]
    BY DEF WholeFrame
  <1> QED BY <1>1, <1>2 DEF Shown

LEMMA ShownSame ==
  ASSUME UNCHANGED frame
  PROVE  Shown' = Shown
  BY DEF Shown

\* Where the interval on the screen ends.
LEMMA ShownEnds ==
  ASSUME FrameInv
  PROVE  Shown.to = ShownTo
  <1>1. CASE NothingShown
    BY <1>1, ShownBlank DEF ShownTo
  <1>2. CASE ~NothingShown
    BY <1>2, ShownWhole DEF ShownTo, FrameInv
  <1> QED BY <1>1, <1>2

LEMMA DisplayInit == Init => TheDisplay!Init
  <1> SUFFICES ASSUME Init PROVE TheDisplay!Init
    OBVIOUS
  <1>1. NothingShown /\ tick = 0
    BY DEF Init, NothingShown
  <1> QED BY <1>1, ShownBlank DEF TheDisplay!Init, TheDisplay!Blank

\* A round read is a pass made.
LEMMA ReadIsMakePass ==
  ASSUME DataInv, ReaderRead
  PROVE  TheDisplay!MakePass
  <1>1. tick' = NextTick /\ UNCHANGED frame
    BY DEF ReaderRead
  <1>2. NextTick = IF tick < MaxTick THEN tick + 1 ELSE tick
    BY TickIs
  <1> QED BY <1>1, <1>2, ShownSame DEF TheDisplay!MakePass

\* A round taken by the printer is an interval shown.
LEMMA TakeIsShow ==
  ASSUME RoundFits, ControlInv, DataInv, RoundInv, AdjoinInv, PassInv, PrinterTake
  PROVE  TheDisplay!Show
  <1> DEFINE from == cpuStatsQueuePrint[1].prev.tick
             to == cpuStatsQueuePrint[1].cur.tick
  <1>1. /\ cpuStatsQueuePrint # <<>> /\ Started
        /\ WholeFrame(frame') /\ frame'[0] = cpuStatsQueuePrint[1]
    BY PrinterShows DEF Started, AdjoinInv, EarlyInv
  <1>2. Shown' = [from |-> frame'[0].prev.tick, to |-> frame'[0].cur.tick]
    <2>1. ~ \A i \in Cpu : frame'[i] = Garbage
      BY <1>1, FrameIs
    <2>2. \E now, before \in Tick : \A i \in Cpu :
            frame'[i] = [cur  |-> [cpu |-> i, tick |-> now],
                         prev |-> [cpu |-> i, tick |-> before]]
      BY <1>1 DEF WholeFrame
    <2> QED BY <2>1, <2>2 DEF Shown
  <1>3. Shown' = [from |-> from, to |-> to]
    BY <1>1, <1>2
  <1>4. /\ tick \in Nat /\ from \in Nat /\ to \in Nat /\ ShownTo \in Nat
        /\ DoneTick \in Nat /\ BatchTick \in Nat
    BY <1>1, PassesTyped DEF PassInv
  <1>5. /\ ShownTo <= from /\ from <= to /\ to <= DoneTick
        /\ DoneTick <= BatchTick /\ BatchTick <= tick
    BY <1>1 DEF PassInv, OrderInv
  <1>6. UNCHANGED tick
    BY DEF PrinterTake
  <1> HIDE DEF from, to
  <1>7. from \in ShownTo .. tick /\ to \in from .. tick
    BY <1>4, <1>5
  <1>8. Shown.to = ShownTo
    BY ShownEnds DEF PassInv
  <1> QED BY <1>3, <1>6, <1>7, <1>8 DEF TheDisplay!Show

\* Every step of the program is a step of the display or leaves it alone.
LEMMA DisplayNext ==
  ASSUME NoReadError, RoundFits
  PROVE  ControlInv /\ DataInv /\ RoundInv /\ AdjoinInv /\ PassInv /\ [Next]_vars
           => [TheDisplay!Next]_<<tick, Shown>>
  <1> SUFFICES ASSUME ControlInv, DataInv, RoundInv, AdjoinInv, PassInv, [Next]_vars
               PROVE  TheDisplay!Next \/ UNCHANGED <<tick, Shown>>
    BY NoReadError, RoundFits
  <1>1. CASE UNCHANGED <<tick, frame>>
    BY <1>1, ShownSame
  <1>2. CASE ReaderStep
    <2>1. CASE ReaderRead
      BY <2>1, ReadIsMakePass DEF TheDisplay!Next
    <2>2. ~ReaderReadFails
      BY NoReadError DEF ReaderReadFails, NoReadError
    <2>3. CASE ~ReaderRead
      <3>1. UNCHANGED <<tick, frame>>
        BY <1>2, <2>2, <2>3
           DEF ReaderStep, ReaderStart, ReaderCount, ReaderLeaveBarrier, ReaderLock,
               ReaderOpenFails, ReaderSignal, ReaderMark, ReaderCheckClose, LeaveBarrier
      <3> QED BY <1>1, <3>1
    <2> QED BY <2>1, <2>3
  <1>3. CASE AnalyzerStep
    <2>1. UNCHANGED <<tick, frame>>
      BY <1>3
         DEF AnalyzerStep, AnalyzerStart, AnalyzerLeaveBarrier, AnalyzerLock, AnalyzerWait,
             AnalyzerWakeup, AnalyzerTake, AnalyzerOverrun, AnalyzerProcess, AnalyzerPush,
             AnalyzerSignal, AnalyzerMark
    <2> QED BY <1>1, <2>1
  <1>4. CASE PrinterStep
    <2>1. CASE PrinterTake
      BY <2>1, RoundFits, TakeIsShow DEF TheDisplay!Next
    <2>2. CASE PrinterLeaveBarrier
      <3>1. pc["printer"] = "Barrier" /\ UNCHANGED tick
        BY <2>2 DEF PrinterLeaveBarrier, LeaveBarrier, Step
      <3>2. NothingShown
        BY <3>1 DEF PassInv, FrameInv
      <3>3. \A i \in Cpu : frame'[i] = Garbage
        BY <2>2 DEF PrinterLeaveBarrier
      <3>4. Shown' = [from |-> 0, to |-> 0]
        BY <3>3 DEF Shown
      <3> QED BY <3>1, <3>2, <3>4, ShownBlank
    <2>3. CASE ~PrinterTake /\ ~PrinterLeaveBarrier
      <3>1. UNCHANGED <<tick, frame>>
        BY <1>4, <2>3
           DEF PrinterStep, PrinterStart, PrinterLock, PrinterWait, PrinterWakeup,
               PrinterOverrun, PrinterPrint
      <3> QED BY <1>1, <3>1
    <2> QED BY <2>1, <2>2, <2>3
  <1>5. CASE WatchdogStep \/ SigtermStep \/ Sigterm \/ MainReturn
               \/ SpuriousWakeup("analyzer", "condCpuStatsQueue")
               \/ SpuriousWakeup("printer", "condCpuStatsPrinterQueue")
               \/ UNCHANGED vars
    BY <1>1, <1>5, RestMovesNothing
  <1> QED BY <1>2, <1>3, <1>4, <1>5 DEF Next

\* If a round fits the queues and /proc/stat can be read in full, the five
\* threads with their queues and buffers implement the display: what the
\* screen shows is always one whole round over an interval that ends no later
\* than the last pass over /proc/stat and starts no earlier than the end of
\* the interval shown before, however the threads interleave.
THEOREM ImplementsDisplayHolds ==
  ASSUME NoReadError, RoundFits
  PROVE  Spec => ImplementsDisplay
  <1>1. ControlInv /\ DataInv /\ RoundInv /\ [Next]_vars => RoundInv'
    BY NoReadError, RoundFits, RoundNext
  <1>2. ControlInv /\ DataInv /\ RoundInv /\ RoundInv' /\ AdjoinInv /\ PassInv /\ [Next]_vars
          => PassInv'
    BY NoReadError, RoundFits, PassNext
  <1>3. ControlInv /\ DataInv /\ RoundInv /\ AdjoinInv /\ PassInv /\ [Next]_vars
          => [TheDisplay!Next]_<<tick, Shown>>
    BY NoReadError, RoundFits, DisplayNext
  <1> QED BY <1>1, <1>2, <1>3, RoundInit, AdjoinInit, AdjoinNext, PassInit, DisplayInit,
             ControlHolds, DataHolds, PTL
          DEF Spec, ImplementsDisplay, TheDisplay!Spec
=============================================================================
