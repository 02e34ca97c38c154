----------------------------- MODULE UsageCalc ------------------------------
(***************************************************************************)
(* From two readings of the counters of one CPU to the bar on the screen:  *)
(* the loop of analyzerThread that computes a usage (src/analyzerThr.c)    *)
(* and printCpuUsage (src/printerThr.c).  The counters are unsigned long   *)
(* and their sums and differences wrap round.                              *)
(***************************************************************************)
EXTENDS Integers

CONSTANT Width   \* bits of an unsigned long

ASSUME WidthAssumption == Width \in Nat \ {0}

Word == 2 ^ Width
Unsigned(n) == n % Word

IdleTime(t) == Unsigned(t["idle"] + t["iowait"])

\* Mutant: the time of guests, part of "user" already, counts twice.
NonIdleTime_Guests(t) ==
  Unsigned(t["user"] + t["nice"] + t["system"] + t["irq"] + t["softirq"]
           + t["steal"] + t["guest"] + t["guestNice"])

NonIdleTime(t) ==
  Unsigned(t["user"] + t["nice"] + t["system"] + t["irq"] + t["softirq"]
           + t["steal"])

TotalTime(t) == Unsigned(IdleTime(t) + NonIdleTime(t))

\* The usage as the fraction num / den.  With den = 0 the double is NaN or
\* infinite.
UsagePercentage(prev, cur) ==
  LET totald == Unsigned(TotalTime(cur) - TotalTime(prev))
      idled  == Unsigned(IdleTime(cur) - IdleTime(prev))
  IN  [num |-> Unsigned(totald - idled), den |-> totald]

IsFinite(usage) == usage.den # 0

\* Mutant: the bar is rounded up.
BarSizes_Up(usage) ==
  IF IsFinite(usage) THEN {(10 * usage.num) \div usage.den + 1} ELSE {0, 11}

\* The sizes a bar may have: the conversion of a double that is no number of
\* the type to unsigned int is undefined and may yield anything.
BarSizes(usage) ==
  IF IsFinite(usage) THEN {(10 * usage.num) \div usage.den} ELSE {0, 11}
=============================================================================
