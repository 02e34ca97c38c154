------------------------------ MODULE Globals ------------------------------
(***************************************************************************)
(* The state the five threads share (globals of main.c, queue.c and the    *)
(* *Thr.c files), the locals of the threads that outlive a step, and the   *)
(* pthread primitives the threads use on it.  Each *Thr module adds the    *)
(* steps of one thread; CpuUsage composes them.                            *)
(*                                                                         *)
(* Data.  One pass over /proc/stat yields one Reading per "cpu" line; its  *)
(* ten counters are abstracted to the number of the pass, the tick.  A     *)
(* usage figure is computed from two readings of one index and is modelled *)
(* as that pair.                                                           *)
(***************************************************************************)
EXTENDS Naturals, Sequences

CONSTANTS
  CpuThreads,    \* number of "cpu<n>" lines of /proc/stat
  MAX_CAPACITY,  \* capacity of both queues
  MaxTick,       \* bound: passes over /proc/stat told apart; later ones
                 \* all carry this tick
  CountResults,  \* what getCpuThreadsNum may return in this environment
  ReadResults,   \* what getCpuStatsFromFile may return
  SigtermSent,   \* whether the user ever sends SIGTERM
  PromptStart,   \* TRUE: every thread has initialised its flags before a
                 \* sleep of the program ends and before SIGTERM arrives
  Garbage        \* content of malloc'ed memory nobody has written

CountErrors == {"FILE_OPEN_ERROR", "FILE_READ_ERROR", "READ_NO_CPU_THR"}
ReadErrors == {"FILE_OPEN_ERROR", "FILE_READ_ERROR", "INCORRECT_NUM_CPU_USAGE"}

ASSUME CpuThreadsAssumption == CpuThreads \in Nat \ {0}
ASSUME CapacityAssumption == MAX_CAPACITY \in Nat \ {0}
ASSUME MaxTickAssumption == MaxTick \in Nat
ASSUME ResultsAssumption == /\ CountResults \subseteq CountErrors \cup {"OK"}
                            /\ ReadResults \subseteq ReadErrors \cup {"OK"}
ASSUME BooleansAssumption == SigtermSent \in BOOLEAN /\ PromptStart \in BOOLEAN

Cpu == 0 .. CpuThreads
Tick == 0 .. MaxTick
Reading == [cpu : Cpu, tick : Tick]                  \* CpuUsageStats
Cell == Reading \cup {Garbage}
Usage == [cur : Cell, prev : Cell]                   \* CpuUsageStatsPrint
UsageCell == Usage \cup {Garbage}

VARIABLES
  pc,                 \* where each thread is
  process,            \* how the process is doing
  mutex,              \* owner of each mutex
  waiting,            \* threads blocked in pthread_cond_wait
  arrived,            \* threads that have reached the barrier
  live,               \* pthread objects not destroyed yet
  threadsNum,         \* readerThr.c
  tick,               \* passes over /proc/stat so far
  cpuStatsQueue,      \* reader -> analyzer
  cpuStatsQueuePrint, \* analyzer -> printer
  cpuStats,           \* analyzer: the batch taken from the queue
  prevCpuStats,       \* analyzer: the batch analysed before
  cpuStatsPrint,      \* analyzer: the usage figures computed last
  frame,              \* printer: its cpuStatsPrint, the figures it shows
  checkPoint,         \* "I am alive" flags, set by threads, cleared by watchdog
  toClose,            \* requests to terminate
  done                \* sigtermThr.c: SIGTERM was handled

flags == <<checkPoint, toClose, done>>
queues == <<cpuStatsQueue, cpuStatsQueuePrint>>
sync == <<mutex, waiting, arrived, live>>
source == <<threadsNum, tick>>
analyzerVars == <<cpuStats, prevCpuStats, cpuStatsPrint>>
vars == <<pc, process, mutex, waiting, arrived, live, threadsNum, tick,
          cpuStatsQueue, cpuStatsQueuePrint, cpuStats, prevCpuStats,
          cpuStatsPrint, frame, checkPoint, toClose, done>>

Worker == {"reader", "analyzer", "printer"}          \* watched, meet at the barrier
Thread == Worker \cup {"watchdog", "sigterm"}

\* Where a thread can be: before its next step, named after it; "Done" when
\* its function has returned.
Label ==
  {"Start", "Barrier", "Done",                                 \* any thread
   "Count", "Sleep", "Read", "Signal", "Mark", "CheckClose",   \* reader
   "Lock", "Take", "Wait", "Process", "Push", "Print",         \* its consumers
   "Clear", "Check", "Poll",                                   \* watchdog, sigterm
   "CloseReader", "CloseAnalyzer", "ClosePrinter", "CloseWatchdog",
   "WakeAnalyzer", "WakePrinter"}

Mutex == {"queueCpuStatsMutex", "queueCpuStatsPrinterMutex"}
Cond == {"condCpuStatsQueue", "condCpuStatsPrinterQueue"}
Primitive == Mutex \cup Cond \cup {"barrier"}
Nobody == "nobody"

\* Mutant: the buffers hold two rounds.
BatchRoom_Two == (threadsNum + 1) * 2

\* How many entries the batch buffers of analyzer and printer hold.
BatchRoom == (threadsNum + 1) * 3

\* Mutant: the barrier does not wait for the reader.
BarrierForTwo == 2

\* The threads that wait at the barrier (its count).
BarrierCount == 3

-----------------------------------------------------------------------------
(* Control *)

\* Thread t goes from one point of its function to another.
Step(t, from, to) ==
  /\ process = "running"
  /\ pc[t] = from
  /\ pc' = [pc EXCEPT ![t] = to]

\* No thread is still to run the initialisation at its start.
Booted == \A t \in Thread : pc[t] # "Start"

\* A sleep(n) may end: it takes any time, at least the boot if PromptStart.
SleepOver == PromptStart => Booted

-----------------------------------------------------------------------------
(* pthreads *)

Acquire(t, m) ==
  /\ mutex[m] = Nobody
  /\ mutex' = [mutex EXCEPT ![m] = t]

Release(m) ==
  mutex' = [mutex EXCEPT ![m] = Nobody]

\* pthread_cond_wait: give the mutex back and block, in one step.
CondWait(t, c, m) ==
  /\ waiting' = [waiting EXCEPT ![c] = @ \cup {t}]
  /\ Release(m)

\* pthread_cond_signal unblocks at least one waiter, if there is one.
Signal(c) ==
  \/ /\ waiting[c] = {}
     /\ UNCHANGED waiting
  \/ \E woken \in SUBSET waiting[c] :
       /\ woken # {}
       /\ waiting' = [waiting EXCEPT ![c] = @ \ woken]

Broadcast(c) ==
  waiting' = [waiting EXCEPT ![c] = {}]

\* POSIX lets pthread_cond_wait return without a signal.
SpuriousWakeup(t, c) ==
  /\ process = "running"
  /\ t \in waiting[c]
  /\ waiting' = [waiting EXCEPT ![c] = @ \ {t}]
  /\ UNCHANGED <<pc, process, mutex, arrived, live, source, queues,
                 analyzerVars, frame, flags>>

\* pthread_barrier_wait, the return from it.
LeaveBarrier(t, to) ==
  /\ arrived = BarrierCount
  /\ Step(t, "Barrier", to)

-----------------------------------------------------------------------------
(* Steps the watchdog and the SIGTERM thread share *)

RequestClose(t, from, target, to) ==
  /\ Step(t, from, to)
  /\ toClose' = [toClose EXCEPT ![target] = TRUE]
  /\ UNCHANGED <<process, sync, source, queues, analyzerVars, frame,
                 checkPoint, done>>

WakeAll(t, from, c, to) ==
  /\ Step(t, from, to)
  /\ Broadcast(c)
  /\ UNCHANGED <<process, mutex, arrived, live, source, queues, analyzerVars,
                 frame, flags>>

-----------------------------------------------------------------------------
(* Queues: pushing a row of elements one by one, a full queue refusing the *)
(* rest (nobody looks at the return value of push_CpuStats[Print]).        *)

AtMost(m, n) == IF m < n THEN m ELSE n

\* Mutant: push does not look whether the queue is full.
PushAllUnchecked(queue, elements) == queue \o elements

PushAll(queue, elements) ==
  LET all == queue \o elements
  IN  SubSeq(all, 1, AtMost(Len(all), MAX_CAPACITY))

\* Mutant: the loop that drains the queue starts at 0, not behind the element
\* dequeued to see that there is one.
FillFromZero(buffer, queue) ==
  [i \in Cpu |-> IF i + 1 < Len(queue) THEN queue[i + 2] ELSE buffer[i]]

\* Mutant: the element dequeued to see that there is one is not copied.
FillButFirst(buffer, queue) ==
  [i \in Cpu |-> IF i > 0 /\ i < Len(queue) THEN queue[i + 1] ELSE buffer[i]]

\* The first elements of a drained queue overwrite those of a buffer.
Fill(buffer, queue) ==
  [i \in Cpu |-> IF i < Len(queue) THEN queue[i + 1] ELSE buffer[i]]
=============================================================================
