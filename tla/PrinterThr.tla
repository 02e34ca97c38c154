----------------------------- MODULE PrinterThr -----------------------------
(***************************************************************************)
(* The printer thread, src/printerThr.c.                                   *)
(*                                                                         *)
(*   Start -> Barrier -> Lock -> Take -> Print                             *)
(*                        ^      |  ^      |                               *)
(*                        |      v  |      |                               *)
(*                        |      Wait -> Done                              *)
(*                        +----------------+                               *)
(***************************************************************************)
EXTENDS Globals

PrinterStart ==
  /\ Step("printer", "Start", "Barrier")
  /\ checkPoint' = [checkPoint EXCEPT !["printer"] = FALSE]
  /\ toClose' = [toClose EXCEPT !["printer"] = FALSE]
  /\ arrived' = arrived + 1
  /\ UNCHANGED <<process, mutex, waiting, live, source, queues, analyzerVars,
                 frame, done>>

PrinterLeaveBarrier ==
  /\ LeaveBarrier("printer", "Lock")
  /\ frame' = [i \in Cpu |-> Garbage]
  /\ UNCHANGED <<process, sync, source, queues, analyzerVars, flags>>

PrinterLock ==
  /\ Step("printer", "Lock", "Take")
  /\ Acquire("printer", "queueCpuStatsPrinterMutex")
  /\ UNCHANGED <<process, waiting, arrived, live, source, queues,
                 analyzerVars, frame, flags>>

PrinterWait ==
  /\ Step("printer", "Take", "Wait")
  /\ cpuStatsQueuePrint = <<>>
  /\ CondWait("printer", "condCpuStatsPrinterQueue",
              "queueCpuStatsPrinterMutex")
  /\ UNCHANGED <<process, arrived, live, source, queues, analyzerVars, frame,
                 flags>>

\* Mutant: a return from pthread_cond_wait with nothing in the queue is taken
\* for the request to close.
PrinterWakeup_NoFlag ==
  /\ "printer" \notin waiting["condCpuStatsPrinterQueue"]
  /\ mutex["queueCpuStatsPrinterMutex"] = Nobody
  /\ Step("printer", "Wait", IF cpuStatsQueuePrint = <<>> THEN "Done" ELSE "Lock")
  /\ UNCHANGED <<process, sync, source, queues, analyzerVars, frame, flags>>

\* pthread_cond_wait returns with the mutex.  Asked to close: free the
\* buffers, unlock and return.  Else try to dequeue again.
PrinterWakeup ==
  /\ "printer" \notin waiting["condCpuStatsPrinterQueue"]
  /\ mutex["queueCpuStatsPrinterMutex"] = Nobody
  /\ \/ /\ toClose["printer"]
        /\ Step("printer", "Wait", "Done")
        /\ UNCHANGED mutex
     \/ /\ ~toClose["printer"]
        /\ Step("printer", "Wait", "Take")
        /\ Acquire("printer", "queueCpuStatsPrinterMutex")
  /\ UNCHANGED <<process, waiting, arrived, live, source, queues,
                 analyzerVars, frame, flags>>

\* Dequeue everything, the first threadsNum + 1 entries being the frame to
\* show, and unlock.
PrinterTake ==
  /\ Step("printer", "Take", "Print")
  /\ cpuStatsQueuePrint # <<>>
  /\ Len(cpuStatsQueuePrint) <= BatchRoom
  /\ frame' = Fill(frame, cpuStatsQueuePrint)
  /\ cpuStatsQueuePrint' = <<>>
  /\ Release("queueCpuStatsPrinterMutex")
  /\ UNCHANGED <<process, waiting, arrived, live, source, cpuStatsQueue,
                 analyzerVars, flags>>

PrinterOverrun ==
  /\ process = "running"
  /\ pc["printer"] = "Take"
  /\ Len(cpuStatsQueuePrint) > BatchRoom
  /\ process' = "overrun"
  /\ UNCHANGED <<pc, sync, source, queues, analyzerVars, frame, flags>>

\* printCpuUsage shows frame, which may take as long as the terminal likes;
\* then the sign of life.
PrinterPrint ==
  /\ Step("printer", "Print", "Lock")
  /\ checkPoint' = [checkPoint EXCEPT !["printer"] = TRUE]
  /\ UNCHANGED <<process, sync, source, queues, analyzerVars, frame, toClose,
                 done>>

PrinterStep ==
  \/ PrinterStart
  \/ PrinterLeaveBarrier
  \/ PrinterLock
  \/ PrinterWait
  \/ PrinterWakeup
  \/ PrinterTake
  \/ PrinterOverrun
  \/ PrinterPrint
=============================================================================
