----------------------------- MODULE ReaderThr -----------------------------
(***************************************************************************)
(* The reader thread, src/readerThr.c.                                     *)
(*                                                                         *)
(*   Start -> Count -> Barrier -> Sleep -> Read -> Signal -> Mark          *)
(*                                  ^                          |           *)
(*                                  +------- CheckClose <------+           *)
(***************************************************************************)
EXTENDS Globals

\* atomic_init is a plain store: it also erases a request made before it.
ReaderStart ==
  /\ Step("reader", "Start", "Count")
  /\ checkPoint' = [checkPoint EXCEPT !["reader"] = FALSE]
  /\ toClose' = [toClose EXCEPT !["reader"] = FALSE]
  /\ UNCHANGED <<process, sync, source, queues, analyzerVars, frame, done>>

\* getCpuThreadsNum and the arrival at the barrier.  On an error the thread
\* returns without having reached the barrier.
ReaderCount ==
  /\ \/ /\ "OK" \in CountResults
        /\ Step("reader", "Count", "Barrier")
        /\ threadsNum' = CpuThreads
        /\ arrived' = arrived + 1
     \/ /\ CountResults \cap {"FILE_OPEN_ERROR", "READ_NO_CPU_THR"} # {}
        /\ Step("reader", "Count", "Done")
        /\ threadsNum' = 0
        /\ UNCHANGED arrived
     \/ /\ "FILE_READ_ERROR" \in CountResults
        /\ Step("reader", "Count", "Done")
        /\ \E lines \in 0 .. CpuThreads + 1 : threadsNum' = lines
        /\ UNCHANGED arrived
  /\ UNCHANGED <<process, mutex, waiting, live, tick, queues, analyzerVars,
                 frame, flags>>

ReaderLeaveBarrier ==
  /\ LeaveBarrier("reader", "Sleep")
  /\ UNCHANGED <<process, sync, source, queues, analyzerVars, frame, flags>>

\* Mutant: the queue is filled without the mutex.
ReaderLock_NoLock ==
  /\ SleepOver
  /\ Step("reader", "Sleep", "Read")
  /\ UNCHANGED <<process, sync, source, queues, analyzerVars, frame, flags>>

\* sleep(1), then the mutex.
ReaderLock ==
  /\ SleepOver
  /\ Step("reader", "Sleep", "Read")
  /\ Acquire("reader", "queueCpuStatsMutex")
  /\ UNCHANGED <<process, waiting, arrived, live, source, queues,
                 analyzerVars, frame, flags>>

\* The first n readings of the pass over the file that is being made.
NextTick == AtMost(tick + 1, MaxTick)

Readings(n) == [i \in 1 .. n |-> [cpu |-> i - 1, tick |-> NextTick]]

\* getCpuStatsFromFile, all lines read.
ReaderRead ==
  /\ "OK" \in ReadResults
  /\ Step("reader", "Read", "Signal")
  /\ tick' = NextTick
  /\ cpuStatsQueue' = PushAll(cpuStatsQueue, Readings(threadsNum + 1))
  /\ UNCHANGED <<process, sync, threadsNum, cpuStatsQueuePrint, analyzerVars,
                 frame, flags>>

\* getCpuStatsFromFile fails at some line: the readings before it have been
\* pushed, and the thread returns with queueCpuStatsMutex locked.
ReaderReadFails ==
  /\ ReadResults \cap {"FILE_READ_ERROR", "INCORRECT_NUM_CPU_USAGE"} # {}
  /\ Step("reader", "Read", "Done")
  /\ tick' = NextTick
  /\ \E n \in 0 .. threadsNum :
       cpuStatsQueue' = PushAll(cpuStatsQueue, Readings(n))
  /\ UNCHANGED <<process, sync, threadsNum, cpuStatsQueuePrint, analyzerVars,
                 frame, flags>>

\* getCpuStatsFromFile cannot open the file and calls fclose(NULL).
ReaderOpenFails ==
  /\ "FILE_OPEN_ERROR" \in ReadResults
  /\ process = "running"
  /\ pc["reader"] = "Read"
  /\ process' = "segfault"
  /\ UNCHANGED <<pc, sync, source, queues, analyzerVars, frame, flags>>

\* Mutant: nobody is told of the new readings.
ReaderSignal_Silent ==
  /\ Step("reader", "Signal", "Mark")
  /\ Release("queueCpuStatsMutex")
  /\ UNCHANGED <<process, waiting, arrived, live, source, queues,
                 analyzerVars, frame, flags>>

\* pthread_cond_signal and pthread_mutex_unlock.
ReaderSignal ==
  /\ Step("reader", "Signal", "Mark")
  /\ Signal("condCpuStatsQueue")
  /\ Release("queueCpuStatsMutex")
  /\ UNCHANGED <<process, arrived, live, source, queues, analyzerVars, frame,
                 flags>>

ReaderMark ==
  /\ Step("reader", "Mark", "CheckClose")
  /\ checkPoint' = [checkPoint EXCEPT !["reader"] = TRUE]
  /\ UNCHANGED <<process, sync, source, queues, analyzerVars, frame, toClose,
                 done>>

\* Mutant: the flag of another thread is polled.
ReaderCheckClose_WrongFlag ==
  /\ Step("reader", "CheckClose", IF toClose["watchdog"] THEN "Done" ELSE "Sleep")
  /\ UNCHANGED <<process, sync, source, queues, analyzerVars, frame, flags>>

ReaderCheckClose ==
  /\ Step("reader", "CheckClose", IF toClose["reader"] THEN "Done" ELSE "Sleep")
  /\ UNCHANGED <<process, sync, source, queues, analyzerVars, frame, flags>>

ReaderStep ==
  \/ ReaderStart
  \/ ReaderCount
  \/ ReaderLeaveBarrier
  \/ ReaderLock
  \/ ReaderRead
  \/ ReaderReadFails
  \/ ReaderOpenFails
  \/ ReaderSignal
  \/ ReaderMark
  \/ ReaderCheckClose
=============================================================================
