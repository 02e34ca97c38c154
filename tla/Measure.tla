------------------------------ MODULE Measure ------------------------------
(***************************************************************************)
(* One measurement after the other, with its numbers: the kernel's clocks, *)
(* the lines of /proc/stat, the parser, the figures and the bars.  The     *)
(* threads take turns here; how they interleave is the matter of CpuUsage. *)
(***************************************************************************)
EXTENDS StatParser, UsageCalc, FiniteSetsExt, Functions

CONSTANTS
  Cpus,         \* numbers of the CPUs the machine can have
  Columns,      \* how many counters the kernel may print on a line
  BusyCounters, \* counters the load may be counted in
  Moves,        \* how the clocks of a CPU may move between two passes
  Origins,      \* what its clocks may show at the start
  Cut,          \* counters of a long line that buf has room for
  Rests,        \* numbers in each of the pieces behind the lines of the CPUs
  MaxPass       \* bound: passes over the file

ASSUME CpusAssumption == Cpus \in (SUBSET Nat) \ {{}} /\ IsFiniteSet(Cpus)
ASSUME ColumnsAssumption == Columns \subseteq 4 .. 10 /\ Cut \in 1 .. 3
ASSUME RestsAssumption == Rests \subseteq Seq(Seq(Nat))

\* What the kernel measures of a CPU.
Clocks == {"busy", "idle", "iowait"}

ASSUME ClocksAssumption ==
  /\ Origins \subseteq [Clocks -> Nat] /\ Moves \subseteq [Clocks -> Int]
  /\ BusyCounters \subseteq {"user", "nice", "system", "irq", "softirq", "steal"}

VARIABLES
  clock,    \* kernel: what each CPU has done, in clock ticks
  plugged,  \* kernel: CPUs that are plugged in
  layout,   \* kernel: how it prints the file
  phase,    \* what the program does next
  pass,     \* passes begun
  prev,     \* prevCpuStats of the analyzer
  usage,    \* cpuStatsPrint of the analyzer
  bars,     \* length of the bars on the screen
  seen,     \* clock at the last pass and at the one before
  gone      \* an earlier pass took another line for that of a CPU now gone

kernelVars == <<clock, plugged, layout>>
vars == <<parserVars, kernelVars, phase, pass, prev, usage, bars, seen, gone>>

-----------------------------------------------------------------------------
(* /proc/stat *)

Clock(name, at) ==
  IF Len(name) = 2 THEN at[name[2]]
  ELSE [k \in Clocks |->
          MapThenSumSet(LAMBDA c : at[c][k], Cpus)]

\* In the second between two passes the busy clocks do not run backwards, and
\* nothing does so much that a counter runs all the way round.
ASSUME MovesAssumption ==
  \A move \in [Cpus -> Moves] : \A name \in {<<"cpu">>} \cup {<<"cpu", c>> : c \in Cpus} :
    LET done == Clock(name, move)
    IN  done.busy >= 0 /\ done.busy + (done.idle + done.iowait) < Word

\* Guests run in user time.  A kernel without the column "iowait" counts that
\* time as idle.
Printed(time, counter) ==
  Unsigned(CASE counter = layout.busy -> time.busy
             [] counter = "idle" /\ layout.columns = 4 -> time.idle + time.iowait
             [] counter = "idle" /\ layout.columns # 4 -> time.idle
             [] counter = "iowait" -> time.iowait
             [] counter = "guest" /\ layout.busy = "user" -> time.busy
             [] OTHER -> 0)

Line(name) ==
  [name   |-> name,
   values |-> [j \in 1 .. layout.columns |->
                 Printed(Clock(name, clock), accessorsCpu[j])]]

\* What follows the lines of the CPUs: the line "intr", which has a number for
\* each interrupt and is read in pieces of 99 characters with as many numbers
\* as that may hold, and the lines behind it.  In a truncated copy nothing.
Others == [j \in DOMAIN layout.rest |-> [name |-> <<"other">>, values |-> layout.rest[j]]]

\* A line that does not fit into buf is cut, here behind the first digit of a
\* number: the other digits are the first word of the second piece.
Pieces(line) ==
  IF layout.long
  THEN << [line EXCEPT !.values = Append(SubSeq(@, 1, Cut), @[Cut + 1] \div 10)],
          [name |-> <<"digits">>,
           values |-> SubSeq(line.values, Cut + 2, layout.columns)] >>
  ELSE <<line>>

CpuLines == [j \in 1 .. Cardinality(plugged) |->
               LET c == CHOOSE c \in plugged : Cardinality({d \in plugged : d <= c}) = j
               IN  Line(<<"cpu", c>>)]

Stat == Pieces(Line(<<"cpu">>)) \o CpuLines \o Others

\* How many pieces come before the others.
CpuPieces == (IF layout.long THEN 2 ELSE 1) + Cardinality(plugged)

-----------------------------------------------------------------------------

Init ==
  /\ ParserInit
  /\ clock \in [Cpus -> Origins]
  /\ plugged = Cpus
  /\ layout \in {l \in [columns : Columns, busy : BusyCounters,
                        long : BOOLEAN, rest : Rests] :
                   l.busy \in {accessorsCpu[j] : j \in 1 .. l.columns}}
  /\ phase = "count" /\ pass = 0
  /\ prev = <<>> /\ usage = <<>> /\ bars = <<>>
  /\ seen = [now |-> clock, before |-> clock] /\ gone = FALSE

Count ==
  /\ phase = "count" /\ phase' = "counting"
  /\ \/ CountOpen(Stat)
     \/ CountOpenFails
  /\ UNCHANGED <<kernelVars, pass, prev, usage, bars, seen, gone>>

\* The call is over.  The analyzer begins with counters of one.
Counted ==
  /\ phase = "counting" /\ reading = "no"
  /\ phase' = IF result = "OK" THEN "sleep" ELSE "stop"
  /\ prev' = [j \in 1 .. threadsNum + 1 |-> [t |-> [c \in Counter |-> 1]]]
  /\ UNCHANGED <<parserVars, kernelVars, pass, usage, bars, seen, gone>>

\* A second passes.  The clocks move, the idle ones even back; CPUs may be
\* unplugged and plugged in; a line may have grown out of buf; the pieces behind
\* them have other numbers.
Second ==
  /\ phase = "sleep" /\ phase' = "read"
  /\ pass < MaxPass
  /\ \E move \in [Cpus -> Moves] :
       /\ \A c \in Cpus : \A k \in DOMAIN move[c] :
            /\ clock[c][k] + move[c][k] >= 0
            /\ c \in plugged \/ move[c][k] = 0
       /\ clock' = [c \in Cpus |-> [k \in DOMAIN move[c] |-> clock[c][k] + move[c][k]]]
  /\ plugged' \in (SUBSET Cpus) \ {{}}
  /\ \E long \in {layout.long, TRUE}, rest \in Rests :
       /\ rest = <<>> <=> layout.rest = <<>>
       /\ layout' = [layout EXCEPT !.long = long, !.rest = rest]
  /\ UNCHANGED <<parserVars, pass, prev, usage, bars, seen, gone>>

Read ==
  /\ phase = "read" /\ phase' = "reading"
  /\ pass' = pass + 1
  /\ StatsOpen(Stat)
  /\ seen' = [now |-> clock, before |-> seen.now]
  /\ UNCHANGED <<kernelVars, prev, usage, bars, gone>>

\* One piece of the file.
Parse ==
  /\ ParserStep
  /\ UNCHANGED <<kernelVars, phase, pass, prev, usage, bars, seen, gone>>

\* The figures from the counters of this pass and of the one before, line by
\* line.
Analyze ==
  /\ phase = "reading" /\ reading = "no"
  /\ \/ /\ result # "OK"
        /\ phase' = "stop"
        /\ UNCHANGED usage
     \/ /\ result = "OK"
        /\ phase' = "print"
        /\ usage' = [j \in 1 .. threadsNum + 1 |-> UsagePercentage(prev[j].t, rows[j].t)]
  /\ UNCHANGED <<parserVars, kernelVars, pass, prev, bars, seen, gone>>

PrintBars ==
  /\ phase = "print" /\ phase' = "shown"
  /\ bars' \in {sizes \in [1 .. threadsNum + 1 -> UNION {BarSizes(u) : u \in Range(usage)}] :
                  \A j \in 1 .. threadsNum + 1 : sizes[j] \in BarSizes(usage[j])}
  /\ UNCHANGED <<parserVars, kernelVars, pass, prev, usage, seen, gone>>

\* memcpy(prevCpuStats, cpuStats, ...)
Remember ==
  /\ phase = "shown" /\ phase' = "sleep"
  /\ prev' = rows
  /\ gone' = (gone \/ threadsNum + 1 > CpuPieces)
  /\ UNCHANGED <<parserVars, kernelVars, pass, usage, bars, seen>>

Next ==
  \/ Count
  \/ Counted
  \/ Second
  \/ Read
  \/ Parse
  \/ Analyze
  \/ PrintBars
  \/ Remember

Spec == Init /\ [][Next]_vars

-----------------------------------------------------------------------------

\* After a start that succeeds there is a row for each CPU that is plugged in.
\* From then on a pass that succeeds has the line "cpu" first and no CPU twice.
\* "We got CPU usage in cpuStats struct variable", says a comment there, but
\* nothing checks the name of a line: what is pushed and is no CPU's is the
\* second piece of a line "cpu" that has outgrown buf or, once CPUs have been
\* unplugged, a piece from behind their lines with ten numbers or fewer
\* (getCpuThreadsNum, getCpuStatsFromFile).
RowPerCpu ==
  /\ phase = "sleep" /\ pass = 0 => threadsNum = Cardinality(plugged)
  /\ phase = "print" =>
       /\ rows[1].name = <<"cpu">>
       /\ \A j, k \in 1 .. threadsNum + 1 :
            IsCpu(rows[j]) /\ rows[j].name = rows[k].name => j = k
       /\ \A j \in 1 .. threadsNum + 1 :
            \/ IsCpu(rows[j])
            \/ layout.long /\ j = 2
            \/ j > CpuPieces /\ Len(layout.rest[j - CpuPieces]) <= 10

\* The row is a line of the kernel as a whole: not "cpu" when that is cut.
Whole(j) == IsCpu(rows[j]) /\ (layout.long => j # 1)

\* A pass that succeeds yields the kernel's counters of each line, also behind a
\* line that has outgrown buf, and zero for those an older kernel does not
\* print, although all lines are parsed into one static struct: until a pass
\* has left the numbers of another line in there.
ReadingExact ==
  phase = "print" =>
    \A j \in 1 .. threadsNum + 1 : Whole(j) =>
      \A k \in 1 .. 10 :
        /\ k <= layout.columns =>
             rows[j].t[accessorsCpu[k]] = Line(rows[j].name).values[k]
        /\ k > layout.columns /\ ~gone => rows[j].t[accessorsCpu[k]] = 0

\* What a CPU has done between the last two passes.
Since(name, k) == Clock(name, seen.now)[k] - Clock(name, seen.before)[k]
IdleSince(name) == Since(name, "idle") + Since(name, "iowait")

\* The row stands for one CPU in both passes, with no number of another line
\* left in its struct, and the time it was idle did not run backwards.
Comparable(j) ==
  /\ pass > 1 /\ Whole(j)
  /\ prev[j].name = rows[j].name
  /\ gone => layout.columns = 10
  /\ IdleSince(rows[j].name) >= 0

\* A figure is the busy share of the time between two passes, although the
\* counters wrap round.
FiguresTrue ==
  phase = "print" =>
    \A j \in 1 .. threadsNum + 1 : Comparable(j) =>
      LET busy == Since(rows[j].name, "busy")
      IN  usage[j] = [num |-> busy, den |-> busy + IdleSince(rows[j].name)]

\* A bar fits between its brackets, and is full only for a CPU that never
\* idled, unless no clock moved at all.
BarsFit ==
  phase = "shown" =>
    \A j \in 1 .. threadsNum + 1 :
      Comparable(j) /\ IsFinite(usage[j]) =>
        /\ bars[j] \in 0 .. 10
        /\ bars[j] = 10 => IdleSince(rows[j].name) = 0
=============================================================================
