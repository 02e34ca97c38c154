---------------------------- MODULE AnalyzerThr ----------------------------
(***************************************************************************)
(* The analyzer thread, src/analyzerThr.c.                                 *)
(*                                                                         *)
(*   Start -> Barrier -> Lock -> Take -> Process -> Push -> Signal         *)
(*                        ^      |  ^                             |        *)
(*                        |      v  |                             |        *)
(*                        |      Wait -> Done                     |        *)
(*                        +------------------ Mark <--------------+        *)
(***************************************************************************)
EXTENDS Globals

AnalyzerStart ==
  /\ Step("analyzer", "Start", "Barrier")
  /\ checkPoint' = [checkPoint EXCEPT !["analyzer"] = FALSE]
  /\ toClose' = [toClose EXCEPT !["analyzer"] = FALSE]
  /\ arrived' = arrived + 1
  /\ UNCHANGED <<process, mutex, waiting, live, source, queues, analyzerVars,
                 frame, done>>

\* After the barrier: allocate the buffers for threadsNum + 1 CPUs and fill
\* the counters of prevCpuStats with ones, the reading of tick 0.
AnalyzerLeaveBarrier ==
  /\ LeaveBarrier("analyzer", "Lock")
  /\ cpuStats' = [i \in Cpu |-> Garbage]
  /\ prevCpuStats' = [i \in Cpu |-> IF i < threadsNum + 1
                                      THEN [cpu |-> i, tick |-> 0]
                                      ELSE Garbage]
  /\ cpuStatsPrint' = [i \in Cpu |-> Garbage]
  /\ UNCHANGED <<process, sync, source, queues, frame, flags>>

AnalyzerLock ==
  /\ Step("analyzer", "Lock", "Take")
  /\ Acquire("analyzer", "queueCpuStatsMutex")
  /\ UNCHANGED <<process, waiting, arrived, live, source, queues,
                 analyzerVars, frame, flags>>

\* Nothing to dequeue: pthread_cond_wait.
AnalyzerWait ==
  /\ Step("analyzer", "Take", "Wait")
  /\ cpuStatsQueue = <<>>
  /\ CondWait("analyzer", "condCpuStatsQueue", "queueCpuStatsMutex")
  /\ UNCHANGED <<process, arrived, live, source, queues, analyzerVars, frame,
                 flags>>

\* Mutant: the thread returns with the mutex.
AnalyzerWakeup_KeepsLock ==
  /\ "analyzer" \notin waiting["condCpuStatsQueue"]
  /\ Step("analyzer", "Wait", IF toClose["analyzer"] THEN "Done" ELSE "Take")
  /\ Acquire("analyzer", "queueCpuStatsMutex")
  /\ UNCHANGED <<process, waiting, arrived, live, source, queues,
                 analyzerVars, frame, flags>>

\* pthread_cond_wait returns with the mutex.  Asked to close: free the
\* buffers, unlock and return.  Else try to dequeue again.
AnalyzerWakeup ==
  /\ "analyzer" \notin waiting["condCpuStatsQueue"]
  /\ mutex["queueCpuStatsMutex"] = Nobody
  /\ \/ /\ toClose["analyzer"]
        /\ Step("analyzer", "Wait", "Done")
        /\ UNCHANGED mutex
     \/ /\ ~toClose["analyzer"]
        /\ Step("analyzer", "Wait", "Take")
        /\ Acquire("analyzer", "queueCpuStatsMutex")
  /\ UNCHANGED <<process, waiting, arrived, live, source, queues,
                 analyzerVars, frame, flags>>

\* Dequeue everything into cpuStats, whose entries past the first
\* threadsNum + 1 nobody reads, and unlock.
AnalyzerTake ==
  /\ Step("analyzer", "Take", "Process")
  /\ cpuStatsQueue # <<>>
  /\ Len(cpuStatsQueue) <= BatchRoom
  /\ cpuStats' = Fill(cpuStats, cpuStatsQueue)
  /\ cpuStatsQueue' = <<>>
  /\ Release("queueCpuStatsMutex")
  /\ UNCHANGED <<process, waiting, arrived, live, source, cpuStatsQueuePrint,
                 prevCpuStats, cpuStatsPrint, frame, flags>>

\* More elements than cpuStats has room for: the loop that dequeues writes
\* past the end of the buffer.  Nothing is said of the process afterwards.
AnalyzerOverrun ==
  /\ process = "running"
  /\ pc["analyzer"] = "Take"
  /\ Len(cpuStatsQueue) > BatchRoom
  /\ process' = "overrun"
  /\ UNCHANGED <<pc, sync, source, queues, analyzerVars, frame, flags>>

\* Compute the usage of every CPU from this and the last batch, then lock.
AnalyzerProcess ==
  /\ Step("analyzer", "Process", "Push")
  /\ Acquire("analyzer", "queueCpuStatsPrinterMutex")
  /\ cpuStatsPrint' = [i \in Cpu |-> IF i < threadsNum + 1
                         THEN [cur |-> cpuStats[i], prev |-> prevCpuStats[i]]
                         ELSE cpuStatsPrint[i]]
  /\ UNCHANGED <<process, waiting, arrived, live, source, queues, cpuStats,
                 prevCpuStats, frame, flags>>

AnalyzerPush ==
  /\ Step("analyzer", "Push", "Signal")
  /\ cpuStatsQueuePrint' =
       PushAll(cpuStatsQueuePrint,
               [i \in 1 .. threadsNum + 1 |-> cpuStatsPrint[i - 1]])
  /\ UNCHANGED <<process, sync, source, cpuStatsQueue, analyzerVars, frame,
                 flags>>

AnalyzerSignal ==
  /\ Step("analyzer", "Signal", "Mark")
  /\ Signal("condCpuStatsPrinterQueue")
  /\ Release("queueCpuStatsPrinterMutex")
  /\ UNCHANGED <<process, arrived, live, source, queues, analyzerVars, frame,
                 flags>>

\* Mutant: prevCpuStats stays what it is.
AnalyzerMark_NoCopy ==
  /\ Step("analyzer", "Mark", "Lock")
  /\ checkPoint' = [checkPoint EXCEPT !["analyzer"] = TRUE]
  /\ UNCHANGED <<process, sync, source, queues, analyzerVars, frame, toClose,
                 done>>

\* memcpy to prevCpuStats, and the sign of life.
AnalyzerMark ==
  /\ Step("analyzer", "Mark", "Lock")
  /\ prevCpuStats' = [i \in Cpu |-> IF i < threadsNum + 1
                                      THEN cpuStats[i] ELSE prevCpuStats[i]]
  /\ checkPoint' = [checkPoint EXCEPT !["analyzer"] = TRUE]
  /\ UNCHANGED <<process, sync, source, queues, cpuStats, cpuStatsPrint,
                 frame, toClose, done>>

AnalyzerStep ==
  \/ AnalyzerStart
  \/ AnalyzerLeaveBarrier
  \/ AnalyzerLock
  \/ AnalyzerWait
  \/ AnalyzerWakeup
  \/ AnalyzerTake
  \/ AnalyzerOverrun
  \/ AnalyzerProcess
  \/ AnalyzerPush
  \/ AnalyzerSignal
  \/ AnalyzerMark
=============================================================================
