# CpuUsage in TLA+

CpuUsage is a C program that shows the load of every CPU in a terminal.  It
reads `/proc/stat` once a second and passes the figures through two bounded
queues to the screen, one thread per stage, with a watchdog and a thread that
waits for SIGTERM beside them.  Its tests are written with Unity, whose sources
are part of the repository.  This directory holds a TLA+ model of both, the TLC
configurations that check the model, and proofs for TLAPS.

All paths below are relative to the repository; line numbers refer to the
commit the model was written from.

## 1. The system

| component | code | state | operations |
|---|---|---|---|
| queue | `src/queue.c`, `inc/queue.h` | two circular arrays of 40 slots with `front`, `rear`, `size` | `push_`, `dequeue_`, `front_`, `rear_`, `isFull_`, `isEmpty_CpuStats`, the same for `...Print`, `printQueue`, accessors of the ten counters |
| reader thread | `src/readerThr.c` | `threadsNum`, line buffer, static `cpuStats`, `readerCheckPoint`, `readerToClose` | count the CPUs once (`getCpuThreadsNum`); then every second parse and push one element per `cpu` line (`getCpuStatsFromFile`) |
| analyzer thread | `src/analyzerThr.c` | `cpuStats`, `prevCpuStats`, `cpuStatsPrint`, two flags | drain the first queue, compute usage against the previous batch, push to the second |
| printer thread | `src/printerThr.c` | its `cpuStatsPrint`, two flags | drain the second queue, draw one row per CPU |
| watchdog thread | `src/watchdogThr.c` | `watchdogToClose` | every two seconds clear the three check points, sleep, check them; close the workers when one is missing |
| SIGTERM thread | `src/sigtermThr.c` | `done` | install the handler, poll `done`, close everybody |
| main | `src/main.c` | mutexes, condition variables, barrier | create five threads, join them, destroy the objects |
| Unity assertions and messages | `Unity/src/unity.c`, `unity.h`, `unity_internals.h` | one union for values of `EACH_EQUAL` | decide, and print what was expected and what was found; choose tests by pattern |
| Unity runner and fixture | `Unity/src/unity.c`, `Unity/extras/fixture` | counters, flags of the current test, saved pointers, options | begin, run, ignore, fail and conclude tests; repeat; end |
| Unity memory | `Unity/extras/memory` | a heap in an array, number of blocks, countdown to a failure | `malloc`, `calloc`, `realloc`, `free` with guards; leak check |
| unit tests, Unity's examples | `tests/`, `Unity/examples` | | not modelled |

How they interact:

- reader -> analyzer through `cpuStatsQueue`, guarded by `queueCpuStatsMutex`,
  announced on `condCpuStatsQueue`; analyzer -> printer likewise through
  `cpuStatsQueuePrint`.
- reader, analyzer and printer meet once at a barrier of three, which is what
  makes `threadsNum`, an ordinary global, safe to read for the other two.
- watchdog and SIGTERM thread ask the others to end by setting atomic flags
  (without any mutex) and broadcasting on the two condition variables.  The
  reader looks at its flag after each round, analyzer and printer only after a
  return from `pthread_cond_wait`, the watchdog only after its sleep, and each
  thread also *initialises* its own flags when it starts.
- an assertion of Unity leaves a test by `longjmp` to the section the runner
  has opened (body, tear-down); the tests may be linked with Unity's allocator,
  which fails a test through the same functions.

What is hard about it: the close protocol races with everything; the reader
has error exits, one before the barrier and one inside the critical section;
the queues drop what does not fit and nobody looks at the return value; a
consumer discards all rounds of a batch but the oldest, yet computes the next
interval from it; a dequeue returns a pointer into the array; all lines of
`/proc/stat` are parsed into one static struct; differences of counters wrap
round; the watchdog's verdict depends on how its two seconds and the reader's
one fall.  In Unity: a test may be left at any call and what it leaves behind
must not show in the next; every integer goes through one signed type and every
float may be an infinity or NaN.

What makes each component correct:

- *queue*: it is a bounded FIFO; its three indices agree; the slot a dequeue
  points to survives until the caller has copied it.
- *workers*: mutual exclusion per queue; no consumer sleeps on data; buffers
  are sized by the final number of CPUs; a frame on the screen is one whole
  round; successive frames cover adjoining intervals and never go back; an
  error leaves no mutex locked; a batch fits its buffer; the figures are those
  of the kernel's clocks.
- *watchdog, SIGTERM thread*: a request sticks; who is asked to end ends; a
  dead or blocked worker is noticed in time, a healthy one left alone; SIGTERM
  ends the program.
- *main*: what it destroys is in nobody's use.
- *Unity*: an assertion holds exactly if what it says is true, and a message
  shows why not; a verdict belongs to the test that earned it; the exit code
  counts the failures; blocks are disjoint and leaks are found.

The hazards behind these properties are listed with their lines in
`PROJECT.json` ("hazards").

## 2. The modules

| module | content |
|---|---|
| `BoundedFifo` | abstract specification: what a queue of queue.c promises |
| `RingQueue` | the circular array of queue.c, one action per function; refines `BoundedFifo` |
| `RingQueueProofs` | TLAPS: invariants and the refinement, for every capacity |
| `Globals` | shared variables, pthread primitives, steps several threads share |
| `ReaderThr`, `AnalyzerThr`, `PrinterThr`, `WatchdogThr`, `SigtermThr` | the steps of one thread each, named like the source file |
| `Display` | abstract specification: what the user sees, in terms of passes and intervals |
| `CpuUsage` | main, composition, fairness, properties; refines `Display` |
| `TimedCpuUsage` | the same steps under a clock |
| `TimedProofs` | TLAPS: all properties of `TimedCpuUsage` |
| `CpuUsageProofs`, `RoundProofs`, `DisplayProofs` | TLAPS: control and requests, intervals, rounds, the refinement of `Display` |
| `StatParser` | the two functions that read `/proc/stat`, one action per line read |
| `UsageCalc` | the unsigned arithmetic of a figure and the size of its bar |
| `Measure` | kernel, file, parser, figures and bars, one measurement after the other |
| `MeasureProofs` | TLAPS: all properties of `Measure` |
| `UnityCore`, `UnityMemory` | the control functions of Unity; its allocator |
| `UnityFixture` | a test program: command line, repetitions, tests, pointers; composes the two above |
| `UnityFixtureProofs` | TLAPS: all properties of `UnityFixture` and `UnityMemory` |
| `UnityText`, `UnityNumbers`, `UnityFloats`, `UnityDoubles`, `UnityFloatText`, `UnityStrings` | operators: how numbers are shown, what each assertion decides, how tests are chosen |
| `UnityAsserts` | a sequence of assertions; all properties of the operators |
| `UnityAssertsProofs` | TLAPS: what the assertions on integers, arrays, floats and strings decide, and that a failure shows two texts |
| `MCRingQueue`, `MCCpuUsage`, `MCTimedCpuUsage`, `MCMeasure`, `MCUnityFixture`, `MCUnityAsserts` | instances for TLC |

### How state and steps correspond to the code

*Variables* carry the names of the globals and locals they stand for.  The
atomic flags of all threads are the functions `checkPoint` and `toClose`;
`pc` is the position of each thread, `process` the fate of the process
(`running`, `exited`, `killed` by SIGTERM before the handler is installed,
`segfault` after `fclose(NULL)`, `overrun` after a write past a buffer; nothing
is said of a process past the last two).

*Steps of the threads.*  Every access to shared state is a step of its own
unless a mutex, or the flag's only reader, makes the difference invisible:

- what a thread does with a queue between lock and unlock is invisible to
  others, who take the mutex first; hence all pushes of a round, and all
  dequeues of a batch together with the unlock that follows, are one step each.
  The analyzer's local computation is merged with the lock that follows it.
- a return from `pthread_cond_wait`, the load of the close flag and, if it is
  set, `free`, unlock and `return` are one step: the flag is only ever set by
  others, and a request that comes after the load is in the model a request
  that comes after the step.
- the watchdog's four stores at the start of a round are one step, its three
  loads are another (the comments in `WatchdogThr` say why); the four stores
  and two broadcasts of a close request are separate steps.
- a thread's `atomic_init`s at its start are one step.  For analyzer and
  printer it includes the arrival at the barrier.

*Data in `CpuUsage`.*  A reading of one CPU is the pair (CPU, number of the
pass over the file); a usage figure is the pair of readings it is computed
from.  The constant `Garbage` is the content of memory `malloc` returned and
nobody wrote.  Of each buffer the model keeps the first `threadsNum + 1`
entries, the only ones that are read; more dequeued elements than the buffer
holds are `overrun`.  The refinement of `Display` maps a frame to the interval
its rows have in common, and one whose rows differ to an interval no display
can show (`Torn`).

*Queues* are the content of a `BoundedFifo` there: `RingQueue` shows that the
array behaves like one, `MutualExclusion` that calls do not overlap.

*Environment of `CpuUsage`.*  `CountResults` and `ReadResults` say what the two
functions that read `/proc/stat` may return; any error may come at any line.
SIGTERM may come (`SigtermSent`) at any time.  With `PromptStart` a sleep does
not end, and SIGTERM does not come, before every thread has run its few lines
of initialisation; without it they may come at any time.  Sleeps otherwise take
any time: there is no clock, so the safety results hold whatever the speed of
threads and terminal, and the watchdog may find anyone late.
`pthread_cond_wait` may return spuriously.

*Time in `TimedCpuUsage`.*  A thread that enters a sleep, a pass over the file
or the writing of a frame gets a duration (`Durations`); it takes its next step
when that is over, and all other statements take no time.  `Elapse` lets a unit
of time pass when every thread is in a slow statement or blocked.  `Blocked`
spells out what a thread waits for (the barrier, a condition, a mutex, the
boot, SIGTERM, or nothing more) and is what `~ENABLED StepOf(t)` would say, but
can be reasoned about.  Wakeups may be spurious here too; SIGTERM never comes.

*Numbers in `Measure`.*  The kernel has a clock for each CPU (busy, idle,
waiting for I/O) and prints them in columns: how many, and which of them the
busy time goes to, is a choice, as is a line longer than the buffer of `fgets`
(it is cut inside a number).  Behind the CPUs comes the line `intr`, read 99
bytes at a time: how many numbers are in each piece is a choice (`Rests`), and
there may be no such line.  The parser looks at no name.  Between two passes
clocks move as `Moves` says and CPUs are plugged in and out.
The threads take turns: how they interleave is the matter of `CpuUsage`.

*Unity.*  `section` says where the runner is, between which of its `setjmp`s;
`verdict`, `atStart`, `failures` and `blocks` are history that the properties
compare with the program's own counters.  `UnityAsserts` makes one assertion
per step with arguments from given sets; all state they share is the union
`quick`.  The numbers of bytes of an `int` and of a `UNITY_INT` are constants
(two and three in the run, four and eight in the code).  A macro converts its
arguments to a type (`ArgumentTypes`): the macros with a width to that of their
style, `INT` and `UINT` only to a `UNITY_INT`, though they are made in the
style of an `int`.  A float is an integer
number of units up to a largest one, or one of the constants `Inf`, `-Inf` and
`NaN`, which stand for what is no number; the values are those both types have.
The floats that are printed are fractions.  `UnityPrintFloat` scales them with
multiplications and divisions of floats, so that "The 7th digit won't always be
totally correct" (`unity.c:329`).  All roundings of one scaling together are a
factor near one (`Roundings`).  What the code does exactly is exact in the
model: a whole number is split off from one between 1 and 10^7 before anything
is multiplied (`unity.c:404-411`), so that only what is behind the point is
rounded, and that stays below one.

## 3. The runs

| run | instance | properties |
|---|---|---|
| `ring_queue` | 3 slots, 3 values | `TypeOK`, `FieldsAgree`, `DequeuedSlotStable`, `ImplementsFifo` |
| `startup` | 1 CPU, SIGTERM, no `PromptStart` | `TypeOK`, `MutualExclusion`, `NoMissedWakeup`, `BarrierPublishesThreadsNum`, `NoOrphanedLock`, `StopsOnlyWhenAsked`, `TeardownQuiet` |
| `pipeline` | 1 CPU, 5 slots, 2 ticks, fairness | `FrameWhole`, `FramesAdjoin`, `ImplementsDisplay`, `DisplayCatchesUp` |
| `idle_shutdown` | 1 CPU, SIGTERM, fairness | `IdleShutdown`, `CloseRequestsStick` |
| `faults` | every error, 7 slots, fairness | `WatchdogNotices`, `ReaderStops` |
| `timing` | 14 slots, a quarter of a second as unit, frames of 0 to 5 s | `HealthyStaysOpen`, `SilenceNoticed`, `PileUpBounded`, `BatchFitsInTime` |
| `measure` | 2 CPUs, 3 passes, counters of 4 bits | `RowPerCpu`, `ReadingExact`, `FiguresTrue`, `BarsFit` |
| `unity_tests` | 3 tests of up to 5 calls, 6 command lines, a heap for three small blocks | `VerdictOwn`, `ExitCodeExact`, `PointersRestored`, `PassesOnlyClean`, `CountExact`, `BlocksDisjoint` |
| `unity_asserts` | the ends of the integer types, infinities, NaN, fractions with roundings up, down and none, NULL, short strings and patterns | `NumbersRight`, `ElementsAgree`, `FloatsAgree`, `FloatTextRight`, `StringsRight`, `FailureTells`, `SelectionRight` |

and the runs that show a disagreement between the code and what it says:

| run | violated | what happens |
|---|---|---|
| `lost_wakeup` | `SigtermEndsProgram` | flag and broadcast fall between a consumer's test of the queue and its `pthread_cond_wait`, or while it is at work: the broadcast wakes nobody, nobody signals again, `main` never returns |
| `bad_line` | `NoOrphanedLock` | the reader returns with the mutex locked |
| `big_machine` | `FrameWhole` | a round does not fit the queue, and rows nobody wrote are shown |

`lost_wakeup` is why the positive statement is `IdleShutdown`: SIGTERM ends the
program when both consumers are blocked as the broadcasts begin.

*What the runs rely on*, in other words what the program needs so as to work:

- a round fits the queues (`CpuThreads + 1 <= MAX_CAPACITY`; `big_machine`);
- for `NoOrphanedLock` and `TeardownQuiet`, no line has more than ten numbers
  and the file does not end early (`bad_line`);
- for a row to be a CPU's, the line `cpu` fits the buffer of `fgets`, and no CPU
  is unplugged; `RowPerCpu` says what else a row can be, and
  `Comparable` which figures then still mean something;
- for `CloseRequestsStick` and the liveness, every thread has run its
  initialisation before anybody is asked to close (`PromptStart`);
- for a batch to fit its buffer, no frame takes three seconds to write:
  `BatchFitsInTime`.  In `timing`, where it may take five, up to five rounds
  pile up in the queue (`PileUpBounded`), and the buffer of three is overrun.
  With 40 slots that concerns machines of up to 12 CPUs.

*Why the bounds are enough.*  `CpuThreads = 1` makes two rows (`cpu`, `cpu0`):
one is enough to have a round cut in two.  Five slots hold two rounds and half
of a third, so that refusal, a batch of several rounds and a partial round all
happen; two slots hold one round.  Seven slots are one more than the three
rounds a buffer holds.  Ticks saturate: with `MaxTick = 2` the passes 1 and 2
are told apart from all later ones, and a stale, skipped or repeated interval
shows between them.  With `MaxTick = 0` data is irrelevant to the property.
In `timing` the unit is finer than the difference between the two sleeps, so
that rounds of watchdog and reader take every position to each other, the
durations lie on both sides of each condition (`read + print` of 0 to 5 against
4, frames of 11 and 20 against 12), and 14 slots never refuse a row.  In
`measure` counters start near `2^4 - 1` so that they wrap at once; the third
pass is the first whose predecessor was itself preceded by one; the clocks
include one that moves backwards (iowait) and one that stands still.  The line
`intr` is missing, has more numbers than a line of a CPU, or is read as a piece
of six numbers and one of none; and CPUs are unplugged with each of them, also
when the line `cpu` is cut.  With `Columns = {4, 10}` the struct keeps stale
numbers or cannot.  Four bits
serve for 64: sums and differences are taken modulo the word in either case.
In `unity_tests` the program has an ignored test between two others, its
command lines select all, some or none and repeat it zero to two times; the
heap holds three small blocks, or two and a larger one, so that an allocation
succeeds or fails and a `realloc` grows in place, moves (the larger one behind
two small ones) or fails.  In `unity_asserts` two- and
three-byte integers have the same conversions among them as the types of C; a
char, an int and a `UNITY_INT` differ in width, so that each is narrower than
the next.  Floats are printed with two digits, and the roundings of a scaling
take up to 1/32 of what is scaled: about three units of the last digit.  In the
code it is about as many of the last of seven, as each operation takes up to
2^-24 and there are about six of them.

*Fairness.*  The scheduler runs every thread that can run, and a thread that
waits for a mutex gets it in the end when it is free again and again: no thread
keeps a mutex for long, the reader sleeps a second between two acquisitions.
That is strong fairness of the three workers; watchdog, SIGTERM thread and main
need no mutex and get weak fairness.  SIGTERM and spurious wakeups are not fair.

Deadlock is not checked for the program and for a test program, which are meant
to stop, nor for a measurement, which the bound on passes stops.

Operators whose comment begins with "Mutant" are not part of the model: each is
a variant of the definition below it with a plausible mistake, and replacing
the definition by it makes TLC find the property violated that `PROJECT.json`
names.

## 4. The proofs

`RingQueueProofs`, from `Capacity > 0` and `Zero \in Value` alone.  The
inductive invariant is `TypeOK /\ FieldsAgree /\ DequeuedBehindFront`: the type
says the indices are slots, `FieldsAgree` ties `rear` to `front + size` modulo
the capacity, and the last conjunct says that the slot a dequeue handed out is
the one `front` has just left.  From it follow `TypeCorrect`,
`FieldsAlwaysAgree` and `SlotStable`.  For `Refinement` a push is shown to append to
`Content`, and a dequeue to take its head and leave its tail, by arithmetic on
slots (`Around`, `AfterSlot`).

`CpuUsageProofs`, from the assumptions of `Globals` on its constants alone:
any number of CPUs, any capacity, any set of errors, SIGTERM or not, prompt
start or not.

- `ControlInv` is inductive by itself.  `BarrierInv` counts who has arrived;
  with it the barrier opens only after the reader has stored `threadsNum`.
  `LockInv` says that the owner of a mutex is in a critical section and
  conversely, with the one exception of a reader that returned for an error.
  `WaitInv` says that each condition variable has one possible waiter: that is
  why `pthread_cond_signal` suffices.  `NoMissedWakeup`, `StopsOnlyWhenAsked`
  and `ExitInv` complete it.  Mutual exclusion alone is not inductive: it needs
  `LockInv`.
- `DataInv` (types of queues and buffers) needs `BarrierInv`: rows are built
  with `threadsNum + 1` entries, which is only right once it is final.

Theorems: `TypeCorrect`, `MutualExclusionHolds`, `NoMissedWakeupHolds`,
`BarrierPublishes`, `StopsOnlyWhenAskedHolds`; and, if a read never fails half
way (`NoReadError`, the run `bad_line` shows the need), `NoOrphanedLockHolds`
and `TeardownQuietHolds`.

Frames, in the same module, for every number of CPUs and every capacity, also
one that holds no whole round: `FramesAdjoinHolds`.  `FramesAdjoin` is not inductive,
since a push relates the last row of the queue to `prevCpuStats`.  `LastRowInv`
says what the last row ends with: `cpuStats` between push and `memcpy`,
`prevCpuStats` otherwise; a queue that is full needs no such claim, as it takes
nothing before it is drained.  `PrintRowInv` says what the row to be pushed is
made of, and `EarlyInv` that the queue is empty while `prevCpuStats` is filled.

`RoundProofs`, if `CpuThreads + 1 <= MAX_CAPACITY` (`RoundFits`; the run
`big_machine` shows the need) and no read fails half way (`NoReadError`): `FrameWholeHolds`.  The
inductive invariant follows a round on its way: the oldest round of either
queue is whole (`QueueRounds`; younger ones may be cut), and so are the
analyzer's buffers whenever it uses them (`BufferRounds`).  `PushKeepsOldest`
and `FillTakesOldest` are the two facts about queues it rests on.

Requests, in `CpuUsageProofs`, if every thread starts in time (`PromptStart`; without it the
`atomic_init` at the start of the reader, `readerThr.c:24`, erases a request
that came before it): `CloseRequestsStickHolds`.  `BootInv` says that nobody is asked to
close before every thread has initialised its flags, the only other place
where a worker's flag is cleared.

`DisplayProofs`, under the hypotheses of `RoundProofs`: `ImplementsDisplayHolds`,
step by step with the refinement mapping of `CpuUsage`.  A frame is the
interval its rows share, so that the shown frame maps to an interval because it
is whole; that the new one ends after the old one needs an order on everything
that is still on its way.  `PassInv` is that order: behind the frame on the
screen come the rounds of the printer's queue, the analyzer's buffers, the
rounds of the first queue and the pass the reader is in, and the passes never
decrease along this line (`OrderInv`); with `FramesAdjoin` (`FrameInv`) it is
inductive.

`MeasureProofs`, for any set of CPUs, any width of a counter, any clocks and
any layout of the file, with any numbers behind the CPUs (`RestsAssumption`),
from the assumptions that there are finitely many CPUs
and at least one (`CpusAssumption`), that clocks are natural numbers to begin
with (`ClocksAssumption`), and that between two passes busy time does not run
backwards and less than 2^Width units pass (`MovesAssumption`; at 100 units a
second that is no restriction for 64 bits).  The
invariant has a part for each station of a measurement: the kernel's clocks
(`KernelInv`), where the program is (`PhaseInv`), the number of CPUs counted
(`ThreadsInv`), what has moved since the last pass (`MovesInv`), what the rows
hold of the lines read so far (`RowsInv`) and what the figures are computed
from (`FiguresInv`).  No CPU comes twice because the pieces before the others
are, and a zero for a column that is not printed lasts until a pass has read
another line as a CPU's, which the history variable `gone` records.  Theorems: `RowPerCpuHolds`, `ReadingExactHolds`,
`FiguresTrueHolds` and `BarsFitHolds`.  The line `cpu` is a sum over the CPUs:
what a sum does when one summand changes is proved by induction on the size of
the set, with the fold written as the recursive function it is.  The figures
need that a difference modulo 2^Width is the true difference whenever that fits
the word, whether or not the counter has wrapped round in between.

`UnityFixtureProofs`, for any program of tests, any command lines and any heap:
`BlocksDisjointHolds`, `CountExactHolds`, `PassesOnlyCleanHolds`,
`PointersRestoredHolds`, `ExitCodeExactHolds`, `VerdictOwnHolds`.  The
invariant says that the blocks lie below `heap_index` without touching each
other and are as many as `malloc_count` (`MemInv`; one released at the end of
the heap gives its bytes back only because no other lies behind it), that the
flags of the current test tell its verdict and are down between tests
(`VerdictInv`), and that the first value saved of a pointer is the one it had
when the test began (`PointerInv`; undoing goes backwards, so that the first
one wins).

`TimedProofs`, for any number of CPUs, any capacity, any set of errors and any
durations, from the assumption that the reader sleeps for some time and less
than the watchdog (`NapAssumption`; the code has one second and two):
`SilenceNoticedHolds`, `HealthyStaysOpenHolds`, `PileUpBoundedHolds`,
`BatchFitsInTimeHolds`.  The invariant has four parts.

- `ClockInv`.  While the watchdog has slept for `Slept`, a worker whose check
  point is set has been silent for at most that, one whose check point is not
  set for at least that, and nobody for more than `WatchdogNap` longer
  (`WatchInv`).  So when the watchdog finds a check point unset the worker has
  been silent for the whole sleep, and when it finds all set the next round
  starts with a silence of one sleep at most: `SilenceNoticed`.
- `FlowInv`.  When time passes (`ElapseStill` says where each thread then is)
  the analyzer has nothing to do or is gone: a round is taken and analysed in
  the instant it is pushed (`PipeInv`), and two rounds are a sleep of the reader
  apart (`PaceInv`).
- `HealthInv`.  Hence a consumer with nothing to do gave its sign of life when
  the last round came, and one at work will within `Lag` and the longest
  frame, which is less than the watchdog sleeps: `HealthyStaysOpen`.
- `RoundsInv`.  More than `k` rounds in the printer's queue mean that the
  printer has been in its frame for at least `k` sleeps of the reader
  (`Kept`).  A frame that is longer than three sleeps is what it takes to
  overrun a buffer of three rounds (`BatchFitsInTime`); and a printer that is
  silent for too long stops the analyzer, so that no more rounds come
  (`PileUpBounded`).  The bounds are on the one time `T` that the printer has
  been away, which is why `RoundsInv` has an existential quantifier.

`UnityAssertsProofs`, for every width of an `int` and a `UNITY_INT`, all
numbers, arrays of bytes, floats, tolerances, strings and patterns, from what
the constants are (`BytesAssumption`, `NumbersAssumption`, `ArraysAssumption`,
`FloatAssumption`, `DoubleAssumption`, `FloatsAssumption`,
`SigDigitsAssumption`, `RoundingsAssumption`, `ShownFloatsAssumption`,
`StringsAssumption`, `SettingsAssumption`, `TestsAssumption`): `NumbersRightHolds`,
`ElementsAgreeHolds`, `FloatsAgreeHolds`, `StringsRightHolds`,
`FailureTellsHolds`, `FloatTextRightHolds`, `SelectionRightHolds`.  An assertion
is made and judged in one step, so that the work is in lemmas about what each
function returns.

- *Integers.*  A conversion is a remainder by a power of 256 (`UnsignedIs`,
  `SignedIs`), and one to a narrower type may be made through a wider one
  (`ThroughWide`).  That a tolerance is compared with the right distance needs
  that the difference of two numbers of a type, taken in the wide type as the
  code takes it, loses nothing (`UnsignedDifference`, `WithinNumbersIs`); the
  order needs the case split on the style that the code makes (`OrderIs`).  Of
  the style only its range decides (`RangeDecides`), so that the claim can be
  about the type the arguments were converted to, also where that is wider.
- *Arrays.*  The loops over bytes and elements are recursive functions; what
  they compute is fixed by running backwards from their end (`Backward`).  A
  number of given bytes is a sum over them (`DigitsOf`, `DigitsUnique`): equal
  bytes and equal numbers are the same thing.  `EACH_EQUAL` needs the one
  invariant of the module, `QuickType`: the union it stores its value in always
  holds bytes, whatever has used it before, and the bytes it reads are those it
  has just written (`StoredIs`).
- *Floats.*  Both types are one theory of numbers up to some largest one with
  infinities and NaN (`PlusIn`, `WithinIn`, `FloatIs`, `DoubleIs`); `EqualIs`
  says what equality comes to with a relative tolerance of which nothing is
  assumed but that it is a fraction.
- *Strings.*  The loop over two strings stops at the first character that
  differs (`SameUpTo`), and no character of a string is the terminator.
- *Messages.*  Two texts that are equal come from one value.  For a number in
  decimal that is an induction over the number, by its last digit
  (`DecimalTells`, `NumberTells`); in hexadecimal and binary the digits are
  read one by one (`HexTells`, `MaskTells`), and `StyleTells` puts the styles
  together.  The text of a character is no beginning of another's unless it is
  the backslash's, so that two strings can be followed side by side along
  their texts (`CharTells`, `PrintsTell`, `QuotedTells`).  What is printed are
  the values in the bytes that were compared, though the assertion prints them
  after another conversion (`ArgumentShown`, `ElementShown`).
- *The text of a float*, for any number of digits of two or more, any roundings
  that leave a number between half and double of itself, and all fractions
  whose exponents are within those of the type (`SigDigitsAssumption`,
  `RoundingsAssumption`, `ShownFloatsAssumption`).  The text is right to half a
  unit for `AfterScaling`, what the roundings leave of the number, and hence for
  the number itself where nothing is rounded.  The code chooses the way to
  scale by the number and then scales what the roundings make of it, which may
  have a digit more or less: it is in range all the same (`OffBelow`,
  `OffAbove`, `FractionIs`, `SplitIs`).  Each of the three ways leaves it with
  as many digits before the point as are significant (`SmallIs`, `MiddleIs`,
  `LargeIs`), the middle one because the whole part has as many digits as the
  number (`WholeIs`).  The one exception is a number that is a power of ten at
  its scale (`UnitNext`): it has a digit more, and is the carry.  Rounding to
  the last digit then changes half a unit (`NearestIs`), and zeroes left out
  change nothing (`ZeroesAre`).
- *Patterns*, of any number of parts and any length, in every form of an option
  and in every order of two of them.  What a pattern means is not computed from its text:
  `SettingsAssumption` says that the text reads as the parts (`Reads`: each
  part where the separators before it end).  That fits every text a user would
  write; it leaves out one that begins with a comma and a quote on its own
  (section 5).  From there the code is followed.  Skipping separators stops where
  the next part begins (`ScanIs`), a word is compared up to its end
  (`WordIs`), and a name is found somewhere in the text it is looked for in
  (`PlaceIs`).  The loop over the text is followed from the last part to
  the first (`MatchesIs`), so that a test matches exactly if some part selects
  it (`PatternIs`).  The loop over the arguments keeps of each kind
  of option the last pattern (`OptionsOfLine`).

A proof was also a check of the model.  The arms of the `CASE` by which
`Measure` prints a line once overlapped, so that what it printed was not
determined (TLC took the first); they are disjoint now.  `FloatsAgree` was not
provable while infinity was the number after the largest float: a finite
difference taken from it came back into the range.  It now lies beyond twice
the range, which is all that is assumed of it.  The decimal digits of
`UnityText`, and the scale of a float, were computed up to a fixed number of
them.  The loop over the command line is a recursive function, since of a fold
over a sequence nothing can be proved here.

Only model-checked: liveness, since TLAPS has no support for fairness and
ENABLED.  Every safety property of a passing run is stated by a theorem.

## 5. Not modelled

- Of the program: the layout of the output (escape sequences, brackets, names)
  apart from the size of a bar; failures of `malloc`, `pthread_create` and
  `pthread_*_init`, whose results the code does not look at; names of six
  characters (`cpu100` and on), which fill `t_cpuName` without a terminator.
- Of Unity: `UnityMessage` and `UnityPrintF` (their conversions are the
  functions modelled in `UnityText`), execution times, the layout of messages
  and summaries; the assertions that are a single condition (`TEST_ASSERT`,
  `TEST_ASSERT_NULL`); `UnityFloatToPtr` and `UnityDoubleToPtr`, which are
  `UnityNumToPtr` without a size; the rounding of floats in the float assertions,
  and which roundings a given number suffers when it is printed; the variant of
  its allocator that calls `malloc`; the text of the help.
- `tests/Tests.c` is straight-line code without state of its own.  Unity's
  examples are examples, and nothing of them is built.

Noticed while modelling, outside any run:

- When `getCpuThreadsNum` fails the reader returns before the barrier
  (`readerThr.c:26`), and analyzer and printer wait there for ever, where no
  flag and no broadcast reaches them.
- A request to close that comes before the reader's `atomic_init`
  (`readerThr.c:24`) is erased by it.
- After the watchdog has closed the workers, `main` still waits for the SIGTERM
  thread, which polls until a SIGTERM comes.
- A `cpu` line of more than 99 bytes is read as two: the pass returns OK with
  its rows shifted; at the start it is counted as no CPU at all
  (`READ_NO_CPU_THR`).  When a CPU is unplugged the pass goes on to the line
  `intr`: a piece of more than ten numbers ends it with
  `INCORRECT_NUM_CPU_USAGE` and the reader with it, the file left open
  (`readerThr.c:93`), one of ten or fewer is pushed and shown as a CPU, though
  the comment there says "we got CPU usage in cpuStats struct variable"
  (`readerThr.c:96`; the run `measure` reaches both, and `RowPerCpu` says so).
  When a CPU is exchanged for another, figures compare different CPUs once.
- If no clock of a CPU has moved, the usage is zero by zero, and the conversion
  of NaN to an unsigned size of a bar is undefined (`printerThr.c:67`).
- `main.c:50` destroys `queueCpuStatsMutex` a second time instead of the
  printer's mutex; `rear_CpuStats` returns the next free slot rather than the
  last element (it is not used); `readerThr.c:61` calls `fclose(NULL)`.
- Unity: bits above those of an `int` are compared by `TEST_ASSERT_BITS` but
  not printed, and a backslash in a string is not escaped, so that two texts in
  a message may be equal (`FailureTells` excludes both).  A tolerance of NaN
  passes for finite floats, though the array assertion rejects it; the array
  assertion adds a relative tolerance to the one asked for.  Where
  `UnityPrintFloat` rounds "to nearest, round half to even" it looks at the
  parity of the fraction alone (`unity.c:418-424`).  A `realloc` that grows the
  last block in place releases it first, and loses it when the allocation is
  made to fail, whereas one that moves says "Do not release old memory"
  (`unity_memory.c:198`).  A pattern that begins with a comma matches nothing,
  and a lone quote reads past the end (the instances have neither).

## 6. Plan

Done: the queue, the five threads and main with safety, liveness, time and the
refinement of what the user sees; the numbers from kernel to bar; Unity's
assertions, runner, fixture and allocator.

Proved as well: every safety property of the program, of `Measure`,
`RingQueue` and `UnityFixture`, also under the clock, the refinements, and what
the assertions of Unity decide, their messages show and its patterns select.

Left: nothing but liveness, which stays with TLC.
