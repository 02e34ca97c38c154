------------------------------ MODULE CpuUsage ------------------------------
(***************************************************************************)
(* The program: main (src/main.c) and the five threads it starts and       *)
(* joins.  A behaviour starts when main has created the threads; a thread  *)
(* that is at "Start" may not have run at all yet.                         *)
(***************************************************************************)
EXTENDS ReaderThr, AnalyzerThr, PrinterThr, WatchdogThr, SigtermThr

Init ==
  /\ pc = [t \in Thread |-> "Start"]
  /\ process = "running"
  /\ mutex = [m \in Mutex |-> Nobody]
  /\ waiting = [c \in Cond |-> {}]
  /\ arrived = 0
  /\ live = Primitive
  /\ threadsNum = 0
  /\ tick = 0
  /\ cpuStatsQueue = <<>>
  /\ cpuStatsQueuePrint = <<>>
  /\ cpuStats = [i \in Cpu |-> Garbage]
  /\ prevCpuStats = [i \in Cpu |-> Garbage]
  /\ cpuStatsPrint = [i \in Cpu |-> Garbage]
  /\ frame = [i \in Cpu |-> Garbage]
  /\ checkPoint = [t \in Worker |-> FALSE]
  /\ toClose = [t \in Worker \cup {"watchdog"} |-> FALSE]
  /\ done = FALSE

\* Mutant: the printer is not joined.
JoinedButPrinter == Thread \ {"printer"}

\* The threads main joins.
Joined == Thread

\* main has joined the five threads, destroys queueCpuStatsMutex (twice; the
\* second call finds nothing to do), the condition variables and the barrier,
\* and returns.
MainReturn ==
  /\ process = "running"
  /\ \A t \in Joined : pc[t] = "Done"
  /\ live' = live \ ({"queueCpuStatsMutex", "barrier"} \cup Cond)
  /\ process' = "exited"
  /\ UNCHANGED <<pc, mutex, waiting, arrived, source, queues, analyzerVars,
                 frame, flags>>

Next ==
  \/ ReaderStep
  \/ AnalyzerStep
  \/ PrinterStep
  \/ WatchdogStep
  \/ SigtermStep
  \/ Sigterm
  \/ MainReturn
  \/ SpuriousWakeup("analyzer", "condCpuStatsQueue")
  \/ SpuriousWakeup("printer", "condCpuStatsPrinterQueue")

Spec == Init /\ [][Next]_vars

\* The scheduler runs every thread.  Fairness is strong because a thread that
\* waits for a mutex can only step while the mutex is free: no thread keeps
\* one for ever, and the reader, who takes queueCpuStatsMutex again and again,
\* sleeps a second with the mutex free in between.  Nothing is assumed of
\* SIGTERM and of spurious wakeups.
Fairness ==
  /\ SF_vars(ReaderStep)
  /\ SF_vars(AnalyzerStep)
  /\ SF_vars(PrinterStep)
  /\ WF_vars(WatchdogStep)
  /\ WF_vars(SigtermStep)
  /\ WF_vars(MainReturn)

FairSpec == Spec /\ Fairness

-----------------------------------------------------------------------------
(* Safety *)

\* Type invariant.
TypeOK ==
  /\ pc \in [Thread -> Label]
  /\ process \in {"running", "exited", "killed", "segfault", "overrun"}
  /\ mutex \in [Mutex -> Worker \cup {Nobody}]
  /\ waiting \in [Cond -> SUBSET Worker]
  /\ arrived \in 0 .. BarrierCount
  /\ live \subseteq Primitive
  /\ threadsNum \in 0 .. CpuThreads + 1
  /\ tick \in Tick
  /\ cpuStatsQueue \in Seq(Reading)
  /\ Len(cpuStatsQueue) <= MAX_CAPACITY
  /\ cpuStatsQueuePrint \in Seq(UsageCell)
  /\ Len(cpuStatsQueuePrint) <= MAX_CAPACITY
  /\ cpuStats \in [Cpu -> Cell]
  /\ prevCpuStats \in [Cpu -> Cell]
  /\ cpuStatsPrint \in [Cpu -> UsageCell]
  /\ frame \in [Cpu -> UsageCell]
  /\ checkPoint \in [Worker -> BOOLEAN]
  /\ toClose \in [Worker \cup {"watchdog"} -> BOOLEAN]
  /\ done \in BOOLEAN

\* Neither queue is ever touched by two threads at a time: the critical
\* sections of reader and analyzer, and of analyzer and printer, exclude each
\* other, also after a return from pthread_cond_wait.
MutualExclusion ==
  /\ ~ /\ pc["reader"] \in {"Read", "Signal"}
       /\ pc["analyzer"] = "Take"
  /\ ~ /\ pc["analyzer"] \in {"Push", "Signal"}
       /\ pc["printer"] = "Take"

\* A consumer never sleeps on data nobody will tell it about: while analyzer
\* (printer) is blocked and its queue is not empty, the producer that filled
\* the queue still holds the mutex, and signals before it unlocks.
NoMissedWakeup ==
  /\ /\ "analyzer" \in waiting["condCpuStatsQueue"]
     /\ cpuStatsQueue # <<>>
     => mutex["queueCpuStatsMutex"] = "reader"
  /\ /\ "printer" \in waiting["condCpuStatsPrinterQueue"]
     /\ cpuStatsQueuePrint # <<>>
     => mutex["queueCpuStatsPrinterMutex"] = "analyzer"

\* analyzer and printer size their buffers and loops by threadsNum, which the
\* reader counts up while they start: past the barrier they find the final
\* number of CPUs, whatever the order in which the threads got going.
BarrierPublishesThreadsNum ==
  \A t \in {"analyzer", "printer"} :
    pc[t] \notin {"Start", "Barrier"} => threadsNum = CpuThreads

\* A thread that has returned owns no mutex ("remember to unlock mutexes",
\* analyzerThr.c): whoever needs it would block for ever.
NoOrphanedLock ==
  \A m \in Mutex : mutex[m] # Nobody => pc[mutex[m]] # "Done"

\* analyzer and printer return only because watchdog or sigterm asked them
\* to, never for a spurious return from pthread_cond_wait.
StopsOnlyWhenAsked ==
  \A t \in {"analyzer", "printer"} : pc[t] = "Done" => toClose[t]

\* When main destroys mutexes and condition variables nobody holds the ones
\* or is blocked on the others.
TeardownQuiet ==
  process = "exited" => /\ \A m \in Mutex : mutex[m] = Nobody
                        /\ \A c \in Cond : waiting[c] = {}

\* What the printer shows is one round: row i is about CPU i, all rows come
\* from one pass over /proc/stat and are relative to one earlier pass, or to
\* the initial ones; no row is memory nobody wrote.
FrameWhole ==
  pc["printer"] = "Print" =>
    \E now, before \in Tick : \A i \in Cpu :
      frame[i] = [cur  |-> [cpu |-> i, tick |-> now],
                  prev |-> [cpu |-> i, tick |-> before]]

\* Frames queued one after the other cover adjoining intervals: no time is
\* counted twice and none skipped, although the analyzer discards all but the
\* oldest of the rounds it finds queued.
FramesAdjoin ==
  \A k \in 1 .. Len(cpuStatsQueuePrint) - (CpuThreads + 1) :
    cpuStatsQueuePrint[k + CpuThreads + 1].prev = cpuStatsQueuePrint[k].cur

\* The frame as an interval, if it is one: row i is about CPU i and all rows
\* are computed from the same two passes.  Nothing is shown before the first.
Torn == [from |-> MaxTick + 1, to |-> MaxTick + 1]

Shown ==
  IF \A i \in Cpu : frame[i] = Garbage THEN [from |-> 0, to |-> 0]
  ELSE IF \E now, before \in Tick : \A i \in Cpu :
            frame[i] = [cur  |-> [cpu |-> i, tick |-> now],
                        prev |-> [cpu |-> i, tick |-> before]]
  THEN [from |-> frame[0].prev.tick, to |-> frame[0].cur.tick]
  ELSE Torn

TheDisplay == INSTANCE Display WITH passes <- tick, shown <- Shown

\* The five threads, queues and buffers together implement the abstract
\* display: frames are whole, never show what has not been read, and never
\* go back in time, whatever is refused, discarded or batched on the way.
ImplementsDisplay == TheDisplay!Spec

\* A request to close a worker is never withdrawn (the watchdog withdraws the
\* one to itself every round).
CloseRequestsStick ==
  [][\A t \in Worker : toClose[t] => toClose'[t]]_vars

\* A batch fits the buffers, made "times 3 in case to buffer some data"
\* (analyzerThr.c, printerThr.c).
BatchFits == process # "overrun"

-----------------------------------------------------------------------------
(* Liveness *)

Closing == \E t \in DOMAIN toClose : toClose[t]

\* The reader terminates when watchdog or sigterm decided so, whatever
\* /proc/stat makes it return with; only the whole process may end first.
ReaderStops ==
  toClose["reader"] ~> pc["reader"] = "Done" \/ process # "running"

\* A SIGTERM that finds analyzer and printer blocked ends the program.  That
\* includes the watchdog: should it erase the request just made to it, it still
\* misses a sign of life of the reader, who is gone, and gives up.
IdleShutdown ==
  /\ pc["sigterm"] = "WakeAnalyzer"
  /\ "analyzer" \in waiting["condCpuStatsQueue"]
  /\ "printer" \in waiting["condCpuStatsPrinterQueue"]
  ~> process = "exited"

\* Unless the program is closing, the display gets at least as far as any
\* pass the reader has made.
DisplayCatchesUp ==
  \A k \in Tick \ {0} :
    tick = k ~> Closing \/ (frame[0] # Garbage /\ frame[0].cur.tick >= k)

\* The watchdog notices a reader that has returned for an error and closes
\* the program.
WatchdogNotices ==
  pc["reader"] = "Done" ~> pc["watchdog"] = "Done" \/ process # "running"

\* "After that the app should end its performance" (README.md): a handled
\* SIGTERM ends the program.
SigtermEndsProgram == done ~> process = "exited"
=============================================================================
