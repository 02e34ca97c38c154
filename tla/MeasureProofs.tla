---------------------------- MODULE MeasureProofs ----------------------------
(***************************************************************************)
(* Proofs that what the program reads, computes and shows is what the      *)
(* kernel counted, for every set of CPUs, every width of an unsigned long  *)
(* and every way the clocks may move: getCpuThreadsNum and                 *)
(* getCpuStatsFromFile, the loop of analyzerThread and printCpuUsage.      *)
(***************************************************************************)
EXTENDS Measure, FiniteSetTheorems, SequenceTheorems, WellFoundedInduction, TLAPS

(***************************************************************************)
(* Arithmetic modulo Word                                                  *)
(***************************************************************************)

\* There are 2 ^ Width sets of bits.
LEMMA WordType == Word \in Nat \ {0}
  <1> DEFINE Bits == 1 .. Width
  <1>1. IsFiniteSet(Bits) /\ Cardinality(Bits) = Width
    BY FS_Interval, WidthAssumption
  <1> HIDE DEF Bits
  <1>2. IsFiniteSet(SUBSET Bits) /\ Cardinality(SUBSET Bits) = 2 ^ Width
    BY <1>1, FS_SUBSET
  <1> QED BY <1>2, FS_EmptySet, FS_CardinalityType DEF Word

LEMMA UnsignedIs ==
  ASSUME NEW n \in Int
  PROVE  Unsigned(n) \in 0 .. Word - 1 /\ \E q \in Int : n = Word * q + Unsigned(n)
  <1>1. /\ Unsigned(n) \in 0 .. Word - 1
        /\ n = Word * (n \div Word) + Unsigned(n)
        /\ n \div Word \in Int
    BY WordType, SMT DEF Unsigned
  <1> QED BY <1>1

\* A number and a remainder that differ by a multiple of Word.
LEMMA UnsignedOf ==
  ASSUME NEW n \in Int, NEW q \in Int, NEW rest \in 0 .. Word - 1, n = Word * q + rest
  PROVE  Unsigned(n) = rest
  BY WordType, SMT DEF Unsigned

LEMMA UnsignedSmall ==
  ASSUME NEW n \in 0 .. Word - 1
  PROVE  Unsigned(n) = n
  <1>1. n \in Int /\ 0 \in Int /\ n = Word * 0 + n
    BY WordType
  <1> QED BY <1>1, UnsignedOf

\* A sum or a difference may be reduced before or after.
LEMMA UnsignedAdd ==
  ASSUME NEW a \in Int, NEW b \in Int
  PROVE  /\ Unsigned(Unsigned(a) + b) = Unsigned(a + b)
         /\ Unsigned(a + Unsigned(b)) = Unsigned(a + b)
         /\ Unsigned(Unsigned(a) - b) = Unsigned(a - b)
         /\ Unsigned(a - Unsigned(b)) = Unsigned(a - b)
  <1>1. PICK p \in Int : a = Word * p + Unsigned(a)
    BY UnsignedIs
  <1>2. PICK q \in Int : b = Word * q + Unsigned(b)
    BY UnsignedIs
  <1>3. Unsigned(a) \in Int /\ Unsigned(b) \in Int /\ Word \in Int
    BY UnsignedIs, WordType
  <1>4. ASSUME NEW x \in Int, NEW y \in Int, NEW k \in Int, x = Word * k + y
        PROVE  Unsigned(x) = Unsigned(y)
    <2>1. PICK l \in Int : y = Word * l + Unsigned(y)
      BY UnsignedIs
    <2> DEFINE wk == Word * k
               wl == Word * l
    <2>2. k + l \in Int /\ Word * (k + l) = wk + wl /\ wk \in Int /\ wl \in Int
      BY <1>3
    <2>3. x = wk + y /\ y = wl + Unsigned(y) /\ Unsigned(y) \in 0 .. Word - 1
          /\ Unsigned(y) \in Int
      BY <1>4, <2>1, UnsignedIs, WordType
    <2> HIDE DEF wk, wl
    <2>4. x = (wk + wl) + Unsigned(y)
      BY <2>2, <2>3
    <2> QED BY <2>2, <2>3, <2>4, UnsignedOf
  <1>5. a + b = Word * p + (Unsigned(a) + b) /\ a - b = Word * p + (Unsigned(a) - b)
    <2> DEFINE wp == Word * p
               rest == Unsigned(a)
    <2>1. a = wp + rest /\ wp \in Int /\ rest \in Int
      BY <1>1, <1>3
    <2> HIDE DEF wp, rest
    <2>2. a + b = wp + (rest + b) /\ a - b = wp + (rest - b)
      BY <2>1
    <2> QED BY <2>2 DEF wp, rest
  <1>6. a + b = Word * q + (a + Unsigned(b))
    BY <1>2, <1>3
  <1>7. a - b = Word * (-q) + (a - Unsigned(b))
    <2>1. Word * (-q) = -(Word * q)
      BY <1>3
    <2> QED BY <1>2, <1>3, <2>1
  <1>8. /\ a + b \in Int /\ a - b \in Int /\ -q \in Int
        /\ Unsigned(a) + b \in Int /\ Unsigned(a) - b \in Int
        /\ a + Unsigned(b) \in Int /\ a - Unsigned(b) \in Int
    BY <1>3
  <1> QED BY <1>4, <1>5, <1>6, <1>7, <1>8

LEMMA UnsignedDifference ==
  ASSUME NEW a \in Int, NEW b \in Int
  PROVE  Unsigned(Unsigned(a) - Unsigned(b)) = Unsigned(a - b)
  <1>1. Unsigned(a) \in Int /\ Unsigned(b) \in Int
    BY UnsignedIs, WordType
  <1>2. Unsigned(Unsigned(a) - Unsigned(b)) = Unsigned(a - Unsigned(b))
    BY <1>1, UnsignedAdd
  <1>3. Unsigned(a - Unsigned(b)) = Unsigned(a - b)
    BY UnsignedAdd
  <1> QED BY <1>2, <1>3

-----------------------------------------------------------------------------
(***************************************************************************)
(* Sums over the CPUs.  The fold of the library is a recursive function on *)
(* the subsets of the set; that there is one is shown by induction on the  *)
(* number of elements.                                                     *)
(***************************************************************************)

LEMMA Induction ==
  ASSUME NEW M \in SUBSET Nat, 0 \in M, \A n \in M : n + 1 \in M
  PROVE  M = Nat
  <1> SUFFICES ASSUME Nat \ M # {} PROVE FALSE
    OBVIOUS
  <1>1. PICK n \in Nat \ M : \A m \in Nat \ M : ~(<<m, n>> \in OpToRel(<, Nat))
    <2>1. Nat \ M \subseteq Nat
      OBVIOUS
    <2> QED BY <2>1, NatLessThanWellFounded, WFMin
  <1>2. n \in Nat /\ n \notin M
    BY <1>1, Zenon
  <1>3. n - 1 \in Nat /\ n - 1 < n /\ (n - 1) + 1 = n
    BY <1>2
  <1>4. n - 1 \notin M
    BY <1>2, <1>3
  <1>5. <<n - 1, n>> \in OpToRel(<, Nat)
    BY <1>2, <1>3 DEF OpToRel
  <1> QED BY <1>1, <1>3, <1>4, <1>5, Zenon

First(s) == CHOOSE c \in s : TRUE

\* What the sum of v over s is made of, when sum has it for smaller sets.
SumStep(v, sum, s) == IF s = {} THEN 0 ELSE v[First(s)] + sum[s \ {First(s)}]

Sums(v, S, sum) == sum = [s \in SUBSET S |-> SumStep(v, sum, s)]

LEMMA SumExists ==
  ASSUME NEW S, IsFiniteSet(S), NEW v
  PROVE  \E sum : Sums(v, S, sum)
  <1> DEFINE Small(n) == {s \in SUBSET S : Cardinality(s) <= n}
             SumsUpTo(n, sum) == sum = [s \in Small(n) |-> SumStep(v, sum, s)]
             M == {n \in Nat : \E sum : SumsUpTo(n, sum)}
  <1>1. \A s \in SUBSET S : IsFiniteSet(s) /\ Cardinality(s) \in Nat
    BY FS_Subset, FS_CardinalityType
  <1>2. 0 \in M
    <2> DEFINE sum == [s \in Small(0) |-> 0]
    <2>1. \A s \in Small(0) : s = {}
      BY <1>1, FS_EmptySet
    <2>2. SumsUpTo(0, sum)
      BY <2>1 DEF SumStep
    <2> QED BY <2>2
  <1>3. ASSUME NEW n \in M PROVE n + 1 \in M
    <2>1. PICK sum : SumsUpTo(n, sum)
      OBVIOUS
    <2> DEFINE next == [s \in Small(n + 1) |-> SumStep(v, sum, s)]
    <2>2. \A s \in Small(n) : sum[s] = SumStep(v, sum, s)
      BY <2>1
    <2>3. ASSUME NEW s \in Small(n + 1), s # {}
          PROVE  s \ {First(s)} \in Small(n) /\ s \ {First(s)} \in Small(n + 1)
      <3>1. First(s) \in s /\ IsFiniteSet(s) /\ Cardinality(s) \in Nat /\ Cardinality(s) <= n + 1
        BY <1>1, <2>3 DEF First
      <3>2. Cardinality(s \ {First(s)}) = Cardinality(s) - 1
        BY <3>1, FS_RemoveElement
      <3> QED BY <3>1, <3>2
    <2>4. ASSUME NEW s \in Small(n + 1)
          PROVE  SumStep(v, sum, s) = SumStep(v, next, s)
      <3>1. CASE s = {}
        BY <3>1 DEF SumStep
      <3>2. CASE s # {}
        <4>1. sum[s \ {First(s)}] = next[s \ {First(s)}]
          BY <2>2, <2>3, <3>2
        <4> QED BY <3>2, <4>1 DEF SumStep
      <3> QED BY <3>1, <3>2
    <2>5. SumsUpTo(n + 1, next)
      BY <2>4
    <2> HIDE DEF next, SumsUpTo
    <2> QED BY <2>5
  <1>4. M = Nat
    <2>1. M \in SUBSET Nat
      OBVIOUS
    <2> HIDE DEF M
    <2> QED BY <1>2, <1>3, <2>1, Induction
  <1>5. Cardinality(S) \in M /\ Small(Cardinality(S)) = SUBSET S
    BY <1>4, FS_Subset, FS_CardinalityType
  <1> QED BY <1>5 DEF Sums

\* The time k of all CPUs together, in the line "cpu".
Sum(at, k) == MapThenSumSet(LAMBDA c : at[c][k], Cpus)

\* The recursive function of the library is one.
LEMMA SumIs ==
  ASSUME NEW at, NEW k
  PROVE  \E sum : /\ \A s \in SUBSET Cpus :
                       sum[s] = SumStep([c \in Cpus |-> at[c][k]], sum, s)
                  /\ Sum(at, k) = sum[Cpus]
  <1> DEFINE S == Cpus
             v == [c \in S |-> at[c][k]]
             Step(sum, s) == IF s = {} THEN 0 ELSE at[First(s)][k] + sum[s \ {First(s)}]
             iter == CHOOSE sum : sum = [s \in SUBSET S |-> Step(sum, s)]
  <1>1. Sum(at, k) = iter[S]
    BY Zenon DEF Sum, MapThenSumSet, MapThenFoldSet, First
  <1>2. \A sum : \A s \in SUBSET S : Step(sum, s) = SumStep(v, sum, s)
    <2> TAKE sum
    <2> TAKE s \in SUBSET S
    <2>1. s # {} => First(s) \in S
      BY DEF First
    <2> QED BY <2>1 DEF SumStep
  <1>3. PICK sum : Sums(v, S, sum)
    BY SumExists, CpusAssumption
  <1>4. sum = [s \in SUBSET S |-> Step(sum, s)]
    BY <1>2, <1>3 DEF Sums
  <1>5. iter = [s \in SUBSET S |-> Step(iter, s)]
    <2> HIDE DEF Step
    <2> QED BY <1>4
  <1>6. \A s \in SUBSET S : iter[s] = Step(iter, s)
    <2> HIDE DEF Step, iter
    <2> QED BY <1>5
  <1>7. \A s \in SUBSET S : iter[s] = SumStep(v, iter, s)
    <2> HIDE DEF Step, iter, v
    <2> QED BY <1>2, <1>6
  <1> QED BY <1>1, <1>7

\* A sum of natural numbers is one.
LEMMA SumType ==
  ASSUME NEW at, NEW k, \A c \in Cpus : at[c][k] \in Nat
  PROVE  Sum(at, k) \in Nat
  <1> DEFINE v == [c \in Cpus |-> at[c][k]]
  <1>1. \A c \in Cpus : v[c] \in Nat
    OBVIOUS
  <1>2. PICK sum : (\A s \in SUBSET Cpus : sum[s] = SumStep(v, sum, s)) /\ Sum(at, k) = sum[Cpus]
    BY SumIs
  <1> HIDE DEF v
  <1> DEFINE M == {n \in Nat : \A s \in SUBSET Cpus : Cardinality(s) <= n => sum[s] \in Nat}
  <1>3. \A s \in SUBSET Cpus : IsFiniteSet(s) /\ Cardinality(s) \in Nat
    BY CpusAssumption, FS_Subset, FS_CardinalityType
  <1>4. ASSUME NEW s \in SUBSET Cpus, s # {}
        PROVE  /\ First(s) \in s /\ s \ {First(s)} \in SUBSET Cpus
               /\ sum[s] = v[First(s)] + sum[s \ {First(s)}]
               /\ Cardinality(s \ {First(s)}) = Cardinality(s) - 1
    <2>1. First(s) \in s
      BY <1>4 DEF First
    <2> QED BY <1>2, <1>3, <1>4, <2>1, FS_RemoveElement DEF SumStep
  <1>5. sum[{}] = 0
    BY <1>2 DEF SumStep
  <1>6. 0 \in M
    BY <1>3, <1>5, FS_EmptySet
  <1>7. ASSUME NEW n \in M PROVE n + 1 \in M
    <2> SUFFICES ASSUME NEW s \in SUBSET Cpus, Cardinality(s) <= n + 1 PROVE sum[s] \in Nat
      OBVIOUS
    <2>1. CASE s = {}
      BY <1>5, <2>1
    <2>2. CASE s # {}
      <3>1. sum[s \ {First(s)}] \in Nat
        BY <1>3, <1>4, <2>2
      <3>2. v[First(s)] \in Nat
        BY <1>1, <1>4, <2>2
      <3> QED BY <1>4, <2>2, <3>1, <3>2
    <2> QED BY <2>1, <2>2
  <1>8. Cardinality(Cpus) \in M
    <2>1. M \in SUBSET Nat
      OBVIOUS
    <2> HIDE DEF M
    <2> QED BY <1>6, <1>7, <2>1, Induction, FS_CardinalityType, CpusAssumption
  <1> QED BY <1>2, <1>3, <1>8

EachAdded(old, new, move, k) ==
  \A c \in Cpus : /\ old[c][k] \in Int /\ new[c][k] \in Int /\ move[c][k] \in Int
                  /\ new[c][k] = old[c][k] + move[c][k]

\* What has been added to each of the summands has been added to the sum.
LEMMA SumAdd ==
  ASSUME NEW old, NEW new, NEW move, NEW k, EachAdded(old, new, move, k)
  PROVE  /\ Sum(old, k) \in Int /\ Sum(new, k) \in Int /\ Sum(move, k) \in Int
         /\ Sum(new, k) = Sum(old, k) + Sum(move, k)
  <1> DEFINE u == [c \in Cpus |-> old[c][k]]
             v == [c \in Cpus |-> new[c][k]]
             w == [c \in Cpus |-> move[c][k]]
             Added(x, y, z) == x \in Int /\ y \in Int /\ z \in Int /\ y = x + z
  <1>1. \A c \in Cpus : Added(u[c], v[c], w[c])
    BY DEF EachAdded
  <1>2. PICK su : (\A s \in SUBSET Cpus : su[s] = SumStep(u, su, s)) /\ Sum(old, k) = su[Cpus]
    BY SumIs
  <1>3. PICK sv : (\A s \in SUBSET Cpus : sv[s] = SumStep(v, sv, s)) /\ Sum(new, k) = sv[Cpus]
    BY SumIs
  <1>4. PICK sw : (\A s \in SUBSET Cpus : sw[s] = SumStep(w, sw, s)) /\ Sum(move, k) = sw[Cpus]
    BY SumIs
  <1> HIDE DEF u, v, w
  <1> DEFINE M == {n \in Nat : \A s \in SUBSET Cpus :
                                 Cardinality(s) <= n => Added(su[s], sv[s], sw[s])}
  <1>5. \A s \in SUBSET Cpus : IsFiniteSet(s) /\ Cardinality(s) \in Nat
    BY CpusAssumption, FS_Subset, FS_CardinalityType
  <1>6. ASSUME NEW s \in SUBSET Cpus, s # {}
        PROVE  /\ First(s) \in s /\ s \ {First(s)} \in SUBSET Cpus
               /\ su[s] = u[First(s)] + su[s \ {First(s)}]
               /\ sv[s] = v[First(s)] + sv[s \ {First(s)}]
               /\ sw[s] = w[First(s)] + sw[s \ {First(s)}]
               /\ Cardinality(s \ {First(s)}) = Cardinality(s) - 1
    <2>1. First(s) \in s
      BY <1>6 DEF First
    <2>2. /\ su[s] = u[First(s)] + su[s \ {First(s)}]
          /\ sv[s] = v[First(s)] + sv[s \ {First(s)}]
          /\ sw[s] = w[First(s)] + sw[s \ {First(s)}]
      BY <1>2, <1>3, <1>4, <1>6 DEF SumStep
    <2> QED BY <1>5, <2>1, <2>2, FS_RemoveElement
  <1>7. su[{}] = 0 /\ sv[{}] = 0 /\ sw[{}] = 0
    BY <1>2, <1>3, <1>4 DEF SumStep
  <1>8. 0 \in M
    <2>1. \A s \in SUBSET Cpus : Cardinality(s) <= 0 => s = {}
      BY <1>5, FS_EmptySet
    <2>2. Added(su[{}], sv[{}], sw[{}])
      BY <1>7
    <2> HIDE DEF Added
    <2> QED BY <2>1, <2>2
  <1>9. ASSUME NEW n \in M PROVE n + 1 \in M
    <2> SUFFICES ASSUME NEW s \in SUBSET Cpus, Cardinality(s) <= n + 1
                 PROVE  Added(su[s], sv[s], sw[s])
      OBVIOUS
    <2>1. CASE s = {}
      BY <1>7, <2>1
    <2>2. CASE s # {}
      <3>1. Added(su[s \ {First(s)}], sv[s \ {First(s)}], sw[s \ {First(s)}])
        BY <1>5, <1>6, <2>2
      <3>2. Added(u[First(s)], v[First(s)], w[First(s)])
        BY <1>1, <1>6, <2>2
      <3>3. /\ su[s] = u[First(s)] + su[s \ {First(s)}]
            /\ sv[s] = v[First(s)] + sv[s \ {First(s)}]
            /\ sw[s] = w[First(s)] + sw[s \ {First(s)}]
        BY <1>6, <2>2
      <3>4. ASSUME NEW a, NEW b, NEW c, NEW x, NEW y, NEW z, Added(a, b, c), Added(x, y, z)
            PROVE  Added(a + x, b + y, c + z)
        BY <3>4
      <3> HIDE DEF Added
      <3>5. Added(u[First(s)] + su[s \ {First(s)}], v[First(s)] + sv[s \ {First(s)}],
                  w[First(s)] + sw[s \ {First(s)}])
        BY <3>1, <3>2, <3>4
      <3> QED BY <3>3, <3>5
    <2> QED BY <2>1, <2>2
  <1>10. Cardinality(Cpus) \in M
    <2>1. M \in SUBSET Nat
      OBVIOUS
    <2> HIDE DEF M
    <2> QED BY <1>8, <1>9, <2>1, Induction, FS_CardinalityType, CpusAssumption
  <1>11. Added(su[Cpus], sv[Cpus], sw[Cpus])
    <2>1. Cardinality(Cpus) <= Cardinality(Cpus)
      BY <1>5
    <2> QED BY <1>10, <2>1
  <1> QED BY <1>2, <1>3, <1>4, <1>11

-----------------------------------------------------------------------------
(***************************************************************************)
(* From counters to figures                                                *)
(***************************************************************************)

Times == [Clocks -> Nat]

\* Counters of a line on which the kernel has printed the times.
Tells(t, time) ==
  \A k \in 1 .. 10 :
    t[accessorsCpu[k]] = IF k <= layout.columns THEN Printed(time, accessorsCpu[k]) ELSE 0

LayoutOK ==
  /\ layout.columns \in 4 .. 10
  /\ layout.busy \in {"user", "nice", "system", "irq", "softirq", "steal"}
  /\ layout.busy \in {accessorsCpu[k] : k \in 1 .. layout.columns}

LEMMA TellsEach ==
  ASSUME NEW t, NEW time, Tells(t, time), LayoutOK
  PROVE  /\ \A c \in {"user", "nice", "system"} : t[c] = Printed(time, c)
         /\ t["idle"] = Printed(time, "idle")
         /\ t["iowait"] = IF layout.columns = 4 THEN 0 ELSE Printed(time, "iowait")
         /\ \A c \in {"irq", "softirq", "steal"} :
              t[c] = Printed(time, c) \/ (t[c] = 0 /\ layout.busy # c)
  <1>1. /\ accessorsCpu[1] = "user" /\ accessorsCpu[2] = "nice" /\ accessorsCpu[3] = "system"
        /\ accessorsCpu[4] = "idle" /\ accessorsCpu[5] = "iowait" /\ accessorsCpu[6] = "irq"
        /\ accessorsCpu[7] = "softirq" /\ accessorsCpu[8] = "steal"
        /\ accessorsCpu[9] = "guest" /\ accessorsCpu[10] = "guestNice"
    BY DEF accessorsCpu
  <1>2. layout.columns \in 4 .. 10
    BY DEF LayoutOK
  <1>3. /\ t["user"] = Printed(time, "user") /\ t["nice"] = Printed(time, "nice")
        /\ t["system"] = Printed(time, "system") /\ t["idle"] = Printed(time, "idle")
        /\ t["iowait"] = IF 5 <= layout.columns THEN Printed(time, "iowait") ELSE 0
        /\ t["irq"] = IF 6 <= layout.columns THEN Printed(time, "irq") ELSE 0
        /\ t["softirq"] = IF 7 <= layout.columns THEN Printed(time, "softirq") ELSE 0
        /\ t["steal"] = IF 8 <= layout.columns THEN Printed(time, "steal") ELSE 0
    BY <1>1, <1>2 DEF Tells
  <1>4. /\ layout.busy = "irq" => 6 <= layout.columns
        /\ layout.busy = "softirq" => 7 <= layout.columns
        /\ layout.busy = "steal" => 8 <= layout.columns
    <2>1. PICK k \in 1 .. layout.columns : layout.busy = accessorsCpu[k]
      BY DEF LayoutOK
    <2>2. k \in 1 .. 10 /\ k <= layout.columns
      BY <1>2, <2>1
    <2>3. /\ accessorsCpu[k] = "irq" => k = 6 
          /\ accessorsCpu[k] = "softirq" => k = 7
          /\ accessorsCpu[k] = "steal" => k = 8
      BY <1>1, <2>2
    <2> QED BY <2>1, <2>2, <2>3
  <1> QED BY <1>2, <1>3, <1>4

\* The idle and the other time the program computes from a line.
LEMMA TimesOf ==
  ASSUME NEW t, NEW time \in Times, Tells(t, time), LayoutOK
  PROVE  /\ IdleTime(t) = Unsigned(time.idle + time.iowait)
         /\ NonIdleTime(t) = Unsigned(time.busy)
         /\ TotalTime(t) = Unsigned(time.busy + (time.idle + time.iowait))
  <1>1. /\ time.idle \in Int /\ time.iowait \in Int /\ time.busy \in Int
        /\ time.idle + time.iowait \in Int /\ Unsigned(0) = 0
    BY WordType, UnsignedSmall DEF Times, Clocks
  <1>2. \A n \in Int : Unsigned(n) \in Int /\ Unsigned(n) \in 0 .. Word - 1
    BY UnsignedIs, WordType
  <1>3. IdleTime(t) = Unsigned(time.idle + time.iowait)
    <2> layout.busy \notin {"idle", "iowait"}
      BY DEF LayoutOK
    <2>1. CASE layout.columns = 4
      <3>1. t["idle"] = Unsigned(time.idle + time.iowait) /\ t["iowait"] = 0
        BY <2>1, TellsEach DEF Printed
      <3>2. Unsigned(time.idle + time.iowait) + 0 = Unsigned(time.idle + time.iowait)
        BY <1>1, <1>2
      <3> QED BY <1>1, <1>2, <3>1, <3>2, UnsignedSmall DEF IdleTime
    <2>2. CASE layout.columns # 4
      <3>1. t["idle"] = Unsigned(time.idle) /\ t["iowait"] = Unsigned(time.iowait)
        BY <2>2, TellsEach DEF Printed
      <3>2. Unsigned(Unsigned(time.idle) + Unsigned(time.iowait))
              = Unsigned(time.idle + Unsigned(time.iowait))
        BY <1>1, <1>2, UnsignedAdd
      <3>3. Unsigned(time.idle + Unsigned(time.iowait)) = Unsigned(time.idle + time.iowait)
        BY <1>1, UnsignedAdd
      <3> QED BY <3>1, <3>2, <3>3 DEF IdleTime
    <2> QED BY <2>1, <2>2
  <1>4. NonIdleTime(t) = Unsigned(time.busy)
    <2> DEFINE b == Unsigned(time.busy)
    <2>1. \A c \in {"user", "nice", "system", "irq", "softirq", "steal"} :
            t[c] = IF layout.busy = c THEN b ELSE 0
      <3>1. \A c \in {"user", "nice", "system", "irq", "softirq", "steal"} :
              Printed(time, c) = IF layout.busy = c THEN b ELSE 0
        BY <1>1 DEF Printed
      <3> QED BY <3>1, TellsEach
    <2>2. b \in Int /\ Unsigned(b) = b
      BY <1>1, <1>2, UnsignedSmall
    <2>3. t["user"] + t["nice"] + t["system"] + t["irq"] + t["softirq"] + t["steal"] = b
      <3> HIDE DEF b
      <3> QED BY <2>1, <2>2 DEF LayoutOK
    <2> QED BY <2>2, <2>3 DEF NonIdleTime
  <1>5. TotalTime(t) = Unsigned(time.busy + (time.idle + time.iowait))
    <2>1. Unsigned(Unsigned(time.idle + time.iowait) + Unsigned(time.busy))
            = Unsigned((time.idle + time.iowait) + Unsigned(time.busy))
      BY <1>1, <1>2, UnsignedAdd
    <2>2. Unsigned((time.idle + time.iowait) + Unsigned(time.busy))
            = Unsigned((time.idle + time.iowait) + time.busy)
      BY <1>1, UnsignedAdd
    <2>3. (time.idle + time.iowait) + time.busy = time.busy + (time.idle + time.iowait)
      BY <1>1
    <2> QED BY <1>3, <1>4, <2>1, <2>2, <2>3 DEF TotalTime
  <1> QED BY <1>3, <1>4, <1>5

\* The figure of a line is what its CPU has done, although the counters it is
\* computed from wrap round, as long as all that fits one of them.
LEMMA UsageOf ==
  ASSUME NEW old \in Times, NEW new \in Times, NEW prevT, NEW curT, LayoutOK,
         Tells(prevT, old), Tells(curT, new),
         new.busy >= old.busy, new.idle + new.iowait >= old.idle + old.iowait,
         (new.busy - old.busy) + ((new.idle + new.iowait) - (old.idle + old.iowait)) < Word
  PROVE  UsagePercentage(prevT, curT)
           = [num |-> new.busy - old.busy,
              den |-> (new.busy - old.busy)
                        + ((new.idle + new.iowait) - (old.idle + old.iowait))]
  <1> DEFINE b0 == old.busy
             b1 == new.busy
             i0 == old.idle + old.iowait
             i1 == new.idle + new.iowait
             totald == Unsigned(TotalTime(curT) - TotalTime(prevT))
             idled == Unsigned(IdleTime(curT) - IdleTime(prevT))
  <1>1. b0 \in Int /\ b1 \in Int /\ i0 \in Int /\ i1 \in Int
    BY DEF Times, Clocks
  <1>2. /\ TotalTime(curT) = Unsigned(b1 + i1) /\ TotalTime(prevT) = Unsigned(b0 + i0)
        /\ IdleTime(curT) = Unsigned(i1) /\ IdleTime(prevT) = Unsigned(i0)
    BY TimesOf
  <1>3. b1 >= b0 /\ i1 >= i0 /\ (b1 - b0) + (i1 - i0) < Word
    OBVIOUS
  <1>4. UsagePercentage(prevT, curT) = [num |-> Unsigned(totald - idled), den |-> totald]
    BY DEF UsagePercentage
  <1> HIDE DEF b0, b1, i0, i1
  <1>5. \A n \in Int : Unsigned(n) \in Int
    BY UnsignedIs, WordType
  <1>6. totald = Unsigned((b1 + i1) - (b0 + i0))
    <2>1. b1 + i1 \in Int /\ b0 + i0 \in Int
      BY <1>1
    <2> QED BY <1>2, <2>1, UnsignedDifference
  <1>7. idled = Unsigned(i1 - i0)
    BY <1>1, <1>2, UnsignedDifference
  <1>8. Unsigned(totald - idled) = Unsigned(((b1 + i1) - (b0 + i0)) - (i1 - i0))
    <2>1. (b1 + i1) - (b0 + i0) \in Int /\ i1 - i0 \in Int
      BY <1>1
    <2> QED BY <1>6, <1>7, <2>1, UnsignedDifference
  <1>9. /\ (b1 + i1) - (b0 + i0) = (b1 - b0) + (i1 - i0)
        /\ ((b1 + i1) - (b0 + i0)) - (i1 - i0) = b1 - b0
        /\ b1 - b0 \in 0 .. Word - 1 /\ (b1 - b0) + (i1 - i0) \in 0 .. Word - 1
    BY <1>1, <1>3, WordType
  <1>10. totald = (b1 - b0) + (i1 - i0) /\ Unsigned(totald - idled) = b1 - b0
    BY <1>6, <1>8, <1>9, UnsignedSmall
  <1> HIDE DEF totald, idled
  <1> QED BY <1>4, <1>10 DEF b0, b1, i0, i1

-----------------------------------------------------------------------------
(***************************************************************************)
(* The inductive invariant.  Row by row it follows the pieces of the file: *)
(* what a row tells is claimed of the lines that are read as a whole, and  *)
(* that the struct keeps nothing, until another line has been left in it.  *)
(***************************************************************************)

LineNames == {<<"cpu">>} \cup {<<"cpu", c>> : c \in Cpus}

\* The first words of the pieces of the file, and the pieces.
Names == LineNames \cup {<<"digits">>, <<"other">>}
StatPieces == [name : Names, values : Seq(Nat)]

\* All but the first n pieces are still to be read.
Rest(n) == n <= Len(Stat) /\ file = SubSeq(Stat, n + 1, Len(Stat))

KernelInv ==
  /\ clock \in [Cpus -> Times]
  /\ seen \in [now : [Cpus -> Times], before : [Cpus -> Times]]
  /\ plugged \in (SUBSET Cpus) \ {{}}
  /\ layout \in [columns : 4 .. 10, busy : BusyCounters, long : BOOLEAN, rest : Rests]
  /\ LayoutOK

\* Where the program may be.
PhaseInv ==
  /\ phase \in {"count", "counting", "sleep", "read", "reading", "print", "shown", "stop"}
  /\ reading \in {"no", "count", "stats"}
  /\ reading = "count" => phase = "counting"
  /\ reading = "stats" => phase = "reading"
  /\ pass \in Nat /\ threadsNum \in Nat
  /\ phase \in {"count", "counting"} => pass = 0
  /\ phase \in {"reading", "print", "shown"} => pass > 0 /\ seen.now = clock

\* The number of threads on its way to that of the CPUs plugged in.
ThreadsInv ==
  /\ reading = "count" => Rest(threadsNum) /\ \A j \in 1 .. threadsNum : IsCpu(Stat[j])
  /\ \/ phase = "counting" /\ reading = "no" /\ result = "OK"
     \/ phase = "sleep" /\ pass = 0
     => threadsNum = Cardinality(plugged)

\* The rows of a pass that is going on or has succeeded.
HasRows ==
  \/ reading = "stats"
  \/ phase = "reading" /\ reading = "no" /\ result = "OK"
  \/ phase \in {"print", "shown"}

Row == [name : Names, t : [Counter -> Nat]]

\* Counters of a line on which the kernel has printed the times, and zeros for
\* the counters it does not print.
Shows(t, time) ==
  \A k \in 1 .. layout.columns : t[accessorsCpu[k]] = Printed(time, accessorsCpu[k])
Zeros(t) == \A k \in layout.columns + 1 .. 10 : t[accessorsCpu[k]] = 0

\* No number of another line can be in a counter that is not printed.
Clean == gone => layout.columns = 10

\* What a row tells that is a line of the kernel as a whole.
RowTells(row, j, at) ==
  IsCpu(row) /\ (layout.long => j # 1) =>
    /\ row.name \in LineNames
    /\ Shows(row.t, Clock(row.name, at))
    /\ Clean => Zeros(row.t)

RowsTell ==
  /\ rows \in Seq(Row) /\ Len(rows) <= threadsNum + 1 /\ Len(rows) <= Len(Stat)
  /\ \A j \in 1 .. Len(rows) :
       /\ rows[j].name = Stat[j].name
       /\ RowTells(rows[j], j, clock)
       /\ j > CpuPieces => Len(layout.rest[j - CpuPieces]) <= 10

PrevTells(at) == \A j \in 1 .. threadsNum + 1 : RowTells(prev[j], j, at)

\* A pass that has failed ends the program.
Failed ==
  \/ phase = "stop"
  \/ phase = "reading" /\ reading = "no" /\ result # "OK"

\* The counters the kernel does not print stay zero in the static struct, until
\* a piece from behind the lines of the CPUs is parsed into it.
StructInv ==
  /\ cpuStats.t \in [Counter -> Nat]
  /\ Clean /\ (HasRows => Len(rows) <= CpuPieces) => Zeros(cpuStats.t)

\* What the clocks have moved by since a pass is one of Moves.
Moved(old, new) ==
  \E move \in [Cpus -> Moves] :
    \A c \in Cpus : \A k \in Clocks : new[c][k] = old[c][k] + move[c][k]

MovesInv ==
  /\ phase = "sleep" /\ pass > 0 => clock = seen.now
  /\ phase = "read" /\ pass > 0 => Moved(seen.now, clock)
  /\ phase \in {"reading", "print", "shown"} /\ pass > 1 => Moved(seen.before, seen.now)

RowsInv ==
  /\ ~Failed => StructInv
  /\ HasRows => RowsTell
  /\ HasRows /\ reading = "no" => Len(rows) = threadsNum + 1
  /\ reading = "stats" => Rest(Len(rows))
  /\ phase \in {"sleep", "read"} /\ pass > 0 => PrevTells(seen.now)
  /\ phase \in {"reading", "print", "shown"} /\ pass > 1 => PrevTells(seen.before)

\* What is on the screen comes from the rows of two passes.
FiguresInv ==
  /\ phase \in {"print", "shown"} =>
       \A j \in 1 .. threadsNum + 1 : usage[j] = UsagePercentage(prev[j].t, rows[j].t)
  /\ phase = "shown" =>
       \A j \in 1 .. threadsNum + 1 : bars[j] \in BarSizes(usage[j])

Inv == KernelInv /\ PhaseInv /\ ThreadsInv /\ MovesInv /\ RowsInv /\ FiguresInv

-----------------------------------------------------------------------------
(***************************************************************************)
(* The lines of /proc/stat                                                 *)
(***************************************************************************)

LEMMA LengthOf ==
  ASSUME NEW n \in Nat, NEW S, NEW f \in [1 .. n -> S]
  PROVE  f \in Seq(S) /\ Len(f) = n
  <1>1. f \in Seq(S)
    BY SeqDef
  <1>2. Len(f) \in Nat /\ 1 .. Len(f) = 1 .. n
    BY <1>1, LenProperties
  <1> QED BY <1>1, <1>2

LEMMA ClockType ==
  ASSUME NEW at \in [Cpus -> Times], NEW name \in LineNames
  PROVE  Clock(name, at) \in Times
  <1>1. CASE name = <<"cpu">>
    <2>1. Len(name) # 2
      BY <1>1
    <2>2. Clock(name, at) = [k \in Clocks |-> Sum(at, k)]
      BY <2>1, Zenon DEF Clock, Sum
    <2>3. \A k \in Clocks : Sum(at, k) \in Nat
      BY SumType DEF Times
    <2> QED BY <2>2, <2>3 DEF Times
  <1>2. ASSUME NEW c \in Cpus, name = <<"cpu", c>> PROVE Clock(name, at) \in Times
    <2>1. Len(name) = 2 /\ name[2] = c
      BY <1>2
    <2>2. Clock(name, at) = at[c]
      BY <2>1, Zenon DEF Clock
    <2> QED BY <2>2
  <1> QED BY <1>1, <1>2 DEF LineNames

LEMMA PrintedType ==
  ASSUME NEW time \in Times, NEW counter, LayoutOK
  PROVE  Printed(time, counter) \in Nat
  <1>1. \A n \in Int : Unsigned(n) \in Nat
    BY UnsignedIs, WordType
  <1>2. time.busy \in Int /\ time.idle \in Int /\ time.iowait \in Int
        /\ time.idle + time.iowait \in Int
    BY DEF Times, Clocks
  <1>3. layout.busy \notin {"idle", "iowait", "guest"}
    BY DEF LayoutOK
  <1> QED BY <1>1, <1>2, <1>3 DEF Printed

LEMMA LineFacts ==
  ASSUME KernelInv, NEW name \in LineNames
  PROVE  /\ Line(name).name = name /\ IsCpu(Line(name))
         /\ Line(name).values \in Seq(Nat) /\ Len(Line(name).values) = layout.columns
         /\ \A k \in 1 .. layout.columns :
              Line(name).values[k] = Printed(Clock(name, clock), accessorsCpu[k])
         /\ Line(name) \in StatPieces
  <1> DEFINE values == [k \in 1 .. layout.columns |-> Printed(Clock(name, clock), accessorsCpu[k])]
  <1>1. Line(name) = [name |-> name, values |-> values]
    BY DEF Line
  <1>2. layout.columns \in 4 .. 10 /\ layout.columns \in Nat
    BY DEF KernelInv, LayoutOK
  <1>3. values \in [1 .. layout.columns -> Nat]
    BY ClockType, PrintedType DEF KernelInv
  <1>4. values \in Seq(Nat) /\ Len(values) = layout.columns
    <2> HIDE DEF values
    <2> QED BY <1>2, <1>3, LengthOf
  <1>5. Head(name) = "cpu"
    BY DEF LineNames
  <1>6. \A k \in 1 .. layout.columns : values[k] = Printed(Clock(name, clock), accessorsCpu[k])
    OBVIOUS
  <1> HIDE DEF values
  <1> QED BY <1>1, <1>4, <1>5, <1>6 DEF IsCpu, StatPieces, Names

UpTo(c) == {d \in plugged : d <= c}
Nth(j) == CHOOSE c \in plugged : Cardinality(UpTo(c)) = j

\* The CPUs plugged in can be counted off in the order of their numbers.
LEMMA NthFacts ==
  ASSUME plugged \in SUBSET Cpus
  PROVE  /\ IsFiniteSet(plugged) /\ Cardinality(plugged) \in Nat
         /\ \A j \in 1 .. Cardinality(plugged) :
              Nth(j) \in plugged /\ Cardinality(UpTo(Nth(j))) = j
  <1> DEFINE N == Cardinality(plugged)
             rank == [c \in plugged |-> Cardinality(UpTo(c))]
  <1>1. IsFiniteSet(plugged) /\ N \in Nat /\ plugged \subseteq Nat
    BY CpusAssumption, FS_Subset, FS_CardinalityType
  <1>2. \A c \in plugged : IsFiniteSet(UpTo(c)) /\ Cardinality(UpTo(c)) \in 1 .. N
    <2> TAKE c \in plugged
    <2>1. UpTo(c) \in SUBSET plugged /\ c \in UpTo(c)
      BY <1>1 DEF UpTo
    <2>2. IsFiniteSet(UpTo(c)) /\ Cardinality(UpTo(c)) <= N /\ Cardinality(UpTo(c)) \in Nat
      BY <1>1, <2>1, FS_Subset, FS_CardinalityType
    <2>3. Cardinality(UpTo(c)) # 0
      BY <2>1, <2>2, FS_EmptySet
    <2> QED BY <1>1, <2>2, <2>3
  <1>3. ASSUME NEW b \in plugged, NEW c \in plugged, b < c
        PROVE  Cardinality(UpTo(b)) # Cardinality(UpTo(c))
    <2>1. b \in Nat /\ c \in Nat /\ c <= c /\ ~(c <= b)
      BY <1>1, <1>3
    <2>2. \A d \in plugged : d <= b => d <= c
      BY <1>1, <1>3, <2>1
    <2>3. UpTo(b) \in SUBSET UpTo(c) /\ c \in UpTo(c) /\ c \notin UpTo(b)
      BY <2>1, <2>2 DEF UpTo
    <2> QED BY <1>2, <2>3, FS_Subset
  <1>4. rank \in Injection(plugged, 1 .. N)
    <2>1. rank \in [plugged -> 1 .. N]
      BY <1>2
    <2>2. \A b, c \in plugged : rank[b] = rank[c] => b = c
      <3> TAKE b, c \in plugged
      <3>1. b \in Nat /\ c \in Nat
        BY <1>1
      <3> QED BY <1>3, <3>1
    <2> HIDE DEF rank
    <2> QED BY <2>1, <2>2, Zenon DEF Injection, IsInjective
  <1>5. IsFiniteSet(1 .. N) /\ Cardinality(1 .. N) = N
    BY <1>1, FS_Interval
  <1>6. rank \in Surjection(plugged, 1 .. N)
    <2> HIDE DEF rank, N
    <2> QED BY <1>1, <1>4, <1>5, FS_Injection DEF N
  <1>7. \A j \in 1 .. N : \E c \in plugged : rank[c] = j
    <2> HIDE DEF rank
    <2> QED BY <1>6, Zenon DEF Surjection
  <1>8. ASSUME NEW j \in 1 .. N PROVE Nth(j) \in plugged /\ Cardinality(UpTo(Nth(j))) = j
    <2>1. PICK c \in plugged : Cardinality(UpTo(c)) = j
      BY <1>7
    <2> QED BY <2>1, Zenon DEF Nth
  <1> QED BY <1>1, <1>8

IsConcat(t, s1, s2) ==
  /\ Len(t) = Len(s1) + Len(s2)
  /\ \A j \in 1 .. Len(s1) + Len(s2) : t[j] = IF j <= Len(s1) THEN s1[j] ELSE s2[j - Len(s1)]

LEMMA Joined ==
  ASSUME NEW S, NEW s1 \in Seq(S), NEW s2 \in Seq(S)
  PROVE  s1 \o s2 \in Seq(S) /\ IsConcat(s1 \o s2, s1, s2)
  BY ConcatProperties, Zenon DEF IsConcat

LEMMA CpuLinesFacts ==
  ASSUME KernelInv
  PROVE  /\ Cardinality(plugged) \in Nat
         /\ CpuLines \in Seq(StatPieces) /\ Len(CpuLines) = Cardinality(plugged)
         /\ \A j \in 1 .. Cardinality(plugged) :
              CpuLines[j] = Line(<<"cpu", Nth(j)>>) /\ <<"cpu", Nth(j)>> \in LineNames
  <1> DEFINE N == Cardinality(plugged)
             line(j) == Line(<<"cpu", Nth(j)>>)
  <1>1. plugged \in SUBSET Cpus
    BY DEF KernelInv
  <1>2. N \in Nat /\ \A j \in 1 .. N : Nth(j) \in Cpus
    BY <1>1, NthFacts
  <1>3. CpuLines = [j \in 1 .. N |-> line(j)]
    BY Zenon DEF CpuLines, Nth, UpTo
  <1>4. \A j \in 1 .. N : <<"cpu", Nth(j)>> \in LineNames
    BY <1>2 DEF LineNames
  <1>5. \A j \in 1 .. N : line(j) \in StatPieces
    BY <1>4, LineFacts
  <1> HIDE DEF N, line
  <1>6. CpuLines \in [1 .. N -> StatPieces]
    BY <1>3, <1>5
  <1>7. CpuLines \in Seq(StatPieces) /\ Len(CpuLines) = N
    BY <1>2, <1>6, LengthOf
  <1>8. \A j \in 1 .. N : CpuLines[j] = line(j)
    BY <1>3
  <1> QED BY <1>2, <1>4, <1>7, <1>8 DEF N, line

Heads == Pieces(Line(<<"cpu">>))
HeadCount == IF layout.long THEN 2 ELSE 1

\* The line "cpu", whole or in two pieces.
LEMMA HeadsFacts ==
  ASSUME KernelInv
  PROVE  /\ Heads \in Seq(StatPieces) /\ Len(Heads) = HeadCount
         /\ Heads[1].name = <<"cpu">>
         /\ ~layout.long => Heads[1] = Line(<<"cpu">>)
         /\ layout.long => Heads[2].name = <<"digits">>
         /\ \A j \in 1 .. HeadCount : Len(Heads[j].values) <= layout.columns
  <1> DEFINE values == Line(<<"cpu">>).values
             first == Append(SubSeq(values, 1, Cut), values[Cut + 1] \div 10)
             second == SubSeq(values, Cut + 2, layout.columns)
  <1>1. <<"cpu">> \in LineNames
    BY DEF LineNames
  <1>2. /\ Line(<<"cpu">>).name = <<"cpu">> /\ Line(<<"cpu">>) \in StatPieces
        /\ values \in Seq(Nat) /\ Len(values) = layout.columns
    BY <1>1, LineFacts
  <1>3. Line(<<"cpu">>) = [name |-> <<"cpu">>, values |-> values]
    BY <1>2 DEF StatPieces
  <1>4. layout.columns \in 4 .. 10 /\ layout.long \in BOOLEAN /\ Cut \in 1 .. 3
    BY ColumnsAssumption DEF KernelInv
  <1>5. CASE ~layout.long
    <2>1. Heads = <<Line(<<"cpu">>)>>
      BY <1>5, Zenon DEF Heads, Pieces
    <2>2. Heads \in Seq(StatPieces) /\ Len(Heads) = 1 /\ Heads[1] = Line(<<"cpu">>)
      BY <1>2, <2>1
    <2>3. HeadCount = 1
      BY <1>5 DEF HeadCount
    <2>4. Len(Heads[1].values) <= layout.columns
      BY <1>2, <1>4, <2>2
    <2> QED BY <1>2, <1>5, <2>2, <2>3, <2>4
  <1>6. CASE layout.long
    <2> DEFINE piece == [name |-> <<"cpu">>, values |-> first]
               digits == [name |-> <<"digits">>, values |-> second]
    <2>1. Heads = <<piece, digits>>
      <3>1. Heads = << [Line(<<"cpu">>) EXCEPT !.values = first], digits >>
        BY <1>6, Zenon DEF Heads, Pieces
      <3>2. [Line(<<"cpu">>) EXCEPT !.values = first] = piece
        <4> HIDE DEF values, first
        <4> QED BY <1>3
      <3> HIDE DEF piece, digits
      <3> QED BY <3>1, <3>2
    <2> HIDE DEF values
    <2>2. first \in Seq(Nat) /\ Len(first) = Cut + 1
      <3> DEFINE some == SubSeq(values, 1, Cut)
      <3>1. some \in Seq(Nat) /\ Len(some) = Cut
        <4>1. \A i \in 1 .. Cut : i \in 1 .. Len(values)
          BY <1>2, <1>4
        <4>2. \A i \in 1 .. Cut : values[i] \in Nat
          BY <1>2, <4>1, ElementOfSeq
        <4>3. 1 \in Int /\ Cut \in Int /\ 1 <= Cut /\ (Cut - 1) + 1 = Cut
          BY <1>4
        <4> HIDE DEF some
        <4> QED BY <4>2, <4>3, SubSeqProperties DEF some
      <3>2. Cut + 1 \in 1 .. Len(values)
        BY <1>2, <1>4
      <3>3. values[Cut + 1] \in Nat
        BY <1>2, <3>2, ElementOfSeq
      <3>4. values[Cut + 1] \div 10 \in Nat
        BY <3>3, SMT
      <3> HIDE DEF some
      <3> QED BY <3>1, <3>4, AppendProperties DEF some
    <2>3. second \in Seq(Nat) /\ Len(second) <= layout.columns
      BY <1>2, <1>4
    <2> HIDE DEF first, second
    <2>4. piece \in StatPieces /\ digits \in StatPieces
      BY <1>1, <2>2, <2>3 DEF StatPieces, Names
    <2>5. Len(piece.values) <= layout.columns /\ Len(digits.values) <= layout.columns
          /\ piece.name = <<"cpu">> /\ digits.name = <<"digits">>
      BY <1>4, <2>2, <2>3
    <2> HIDE DEF piece, digits
    <2>6. Heads \in Seq(StatPieces) /\ Len(Heads) = 2 /\ Heads[1] = piece /\ Heads[2] = digits
      BY <2>1, <2>4
    <2>7. HeadCount = 2
      BY <1>6 DEF HeadCount
    <2>8. \A j \in 1 .. 2 : j = 1 \/ j = 2
      OBVIOUS
    <2> QED BY <1>6, <2>5, <2>6, <2>7, <2>8
  <1> QED BY <1>5, <1>6

LEMMA OthersFacts ==
  ASSUME KernelInv
  PROVE  /\ layout.rest \in Seq(Seq(Nat)) /\ Len(layout.rest) \in Nat
         /\ Others \in Seq(StatPieces) /\ Len(Others) = Len(layout.rest)
         /\ \A j \in 1 .. Len(layout.rest) :
              Others[j] = [name |-> <<"other">>, values |-> layout.rest[j]]
  <1> DEFINE rest == layout.rest
             other(j) == [name |-> <<"other">>, values |-> rest[j]]
  <1>1. rest \in Seq(Seq(Nat))
    BY RestsAssumption DEF KernelInv
  <1>2. Len(rest) \in Nat /\ DOMAIN rest = 1 .. Len(rest)
    BY <1>1, LenProperties
  <1>3. Others = [j \in 1 .. Len(rest) |-> other(j)]
    BY <1>2 DEF Others
  <1>4. \A j \in 1 .. Len(rest) : other(j) \in StatPieces
    <2> TAKE j \in 1 .. Len(rest)
    <2>1. rest[j] \in Seq(Nat)
      BY <1>1, ElementOfSeq
    <2> QED BY <2>1 DEF StatPieces, Names
  <1>5. \A j \in 1 .. Len(rest) : Others[j] = other(j)
    <2> HIDE DEF other
    <2> QED BY <1>3
  <1>6. Others \in [1 .. Len(rest) -> StatPieces]
    <2> HIDE DEF other
    <2> QED BY <1>3, <1>4
  <1>7. Others \in Seq(StatPieces) /\ Len(Others) = Len(rest)
    BY <1>2, <1>6, LengthOf
  <1> QED BY <1>1, <1>2, <1>5, <1>7

\* The file piece by piece.
LEMMA StatIs ==
  ASSUME KernelInv
  PROVE  LET N == Cardinality(plugged)
         IN  /\ N \in Nat /\ HeadCount \in 1 .. 2 /\ CpuPieces = HeadCount + N
             /\ Stat \in Seq(StatPieces) /\ Len(Stat) = CpuPieces + Len(layout.rest)
             /\ \A j \in 1 .. HeadCount : Stat[j] = Heads[j]
             /\ \A j \in HeadCount + 1 .. CpuPieces :
                  /\ Stat[j] = Line(<<"cpu", Nth(j - HeadCount)>>)
                  /\ <<"cpu", Nth(j - HeadCount)>> \in LineNames
                  /\ j - HeadCount \in 1 .. N
             /\ \A j \in CpuPieces + 1 .. Len(Stat) :
                  Stat[j] = [name |-> <<"other">>, values |-> layout.rest[j - CpuPieces]]
  <1> DEFINE N == Cardinality(plugged)
             P == StatPieces
             front == Heads \o CpuLines
             other(j) == [name |-> <<"other">>, values |-> layout.rest[j]]
             line(j) == Line(<<"cpu", Nth(j)>>)
  <1>1. /\ N \in Nat /\ CpuLines \in Seq(P) /\ Len(CpuLines) = N
        /\ \A j \in 1 .. N : CpuLines[j] = line(j) /\ <<"cpu", Nth(j)>> \in LineNames
    BY CpuLinesFacts
  <1>2. HeadCount \in 1 .. 2 /\ Heads \in Seq(P) /\ Len(Heads) = HeadCount
    BY HeadsFacts DEF HeadCount
  <1>3. /\ Others \in Seq(P) /\ Len(Others) = Len(layout.rest) /\ Len(layout.rest) \in Nat
        /\ \A j \in 1 .. Len(layout.rest) : Others[j] = other(j)
    BY OthersFacts
  <1>4. Stat = front \o Others
    BY Zenon DEF Stat, Heads
  <1>5. CpuPieces = HeadCount + N
    BY DEF CpuPieces, HeadCount
  <1> DEFINE R == Len(layout.rest)
  <1>20. N \in Nat /\ R \in Nat
    BY <1>1, <1>3
  <1> HIDE DEF N, P, other, line
  <1>6. /\ front \in Seq(P) /\ Len(front) = HeadCount + N
        /\ \A j \in 1 .. HeadCount + N :
             front[j] = IF j <= HeadCount THEN Heads[j] ELSE CpuLines[j - HeadCount]
    <2>1. front \in Seq(P) /\ IsConcat(front, Heads, CpuLines)
      BY <1>1, <1>2, Joined, Zenon
    <2> HIDE DEF front
    <2> QED BY <1>1, <1>2, <2>1 DEF IsConcat
  <1> HIDE DEF front
  <1>7. /\ Stat \in Seq(P) /\ Len(Stat) = CpuPieces + Len(layout.rest)
        /\ \A j \in 1 .. CpuPieces + Len(layout.rest) :
             Stat[j] = IF j <= CpuPieces THEN front[j] ELSE Others[j - CpuPieces]
    <2>1. Stat \in Seq(P) /\ IsConcat(Stat, front, Others)
      BY <1>3, <1>4, <1>6, Joined, Zenon
    <2> QED BY <1>3, <1>5, <1>6, <2>1 DEF IsConcat
  <1>8. ASSUME NEW j \in 1 .. HeadCount PROVE Stat[j] = Heads[j]
    <2>1. j \in 1 .. HeadCount + N /\ j \in 1 .. CpuPieces + Len(layout.rest)
          /\ j <= CpuPieces /\ j <= HeadCount
      <3>1. HeadCount \in 1 .. 2
        BY <1>2
      <3> HIDE DEF R
      <3>2. j \in 1 .. HeadCount + N /\ j \in 1 .. CpuPieces + R /\ j <= CpuPieces
            /\ j <= HeadCount
        BY <1>5, <1>20, <3>1
      <3> QED BY <3>2 DEF R
    <2> QED BY <1>6, <1>7, <2>1
  <1>9. ASSUME NEW j \in HeadCount + 1 .. CpuPieces
        PROVE  /\ Stat[j] = line(j - HeadCount) /\ j - HeadCount \in 1 .. N
               /\ <<"cpu", Nth(j - HeadCount)>> \in LineNames
    <2>1. j \in 1 .. HeadCount + N /\ j \in 1 .. CpuPieces + Len(layout.rest)
          /\ j <= CpuPieces /\ ~(j <= HeadCount) /\ j - HeadCount \in 1 .. N
      <3>1. HeadCount \in 1 .. 2
        BY <1>2
      <3> HIDE DEF R
      <3>2. j \in 1 .. HeadCount + N /\ j \in 1 .. CpuPieces + R /\ j <= CpuPieces
            /\ ~(j <= HeadCount) /\ j - HeadCount \in 1 .. N
        BY <1>5, <1>20, <3>1
      <3> QED BY <3>2 DEF R
    <2> QED BY <1>1, <1>6, <1>7, <2>1
  <1>10. ASSUME NEW j \in CpuPieces + 1 .. Len(Stat)
         PROVE  Stat[j] = other(j - CpuPieces)
    <2>1. j \in 1 .. CpuPieces + Len(layout.rest) /\ ~(j <= CpuPieces)
          /\ j - CpuPieces \in 1 .. Len(layout.rest)
      <3>1. HeadCount \in 1 .. 2 /\ Len(Stat) = CpuPieces + R
        BY <1>2, <1>7
      <3> HIDE DEF R
      <3>2. j \in 1 .. CpuPieces + R /\ ~(j <= CpuPieces) /\ j - CpuPieces \in 1 .. R
        BY <1>5, <1>20, <3>1
      <3> QED BY <3>2 DEF R
    <2> QED BY <1>3, <1>7, <2>1
  <1> QED BY <1>1, <1>2, <1>5, <1>7, <1>8, <1>9, <1>10 DEF N, P, other, line

\* Which of its pieces begin with "cpu", and which of these are lines as the
\* kernel has printed them.
LEMMA StatFacts ==
  ASSUME KernelInv, NEW j \in 1 .. Len(Stat)
  PROVE  /\ Stat[j] \in StatPieces
         /\ j <= CpuPieces => Len(Stat[j].values) <= layout.columns
         /\ j <= CpuPieces /\ ~IsCpu(Stat[j]) => layout.long /\ j = 2
         /\ j > CpuPieces => ~IsCpu(Stat[j]) /\ Stat[j].values = layout.rest[j - CpuPieces]
         /\ IsCpu(Stat[j]) /\ (layout.long => j # 1) =>
              Stat[j].name \in LineNames /\ Stat[j] = Line(Stat[j].name)
         /\ layout.long => ~IsCpu(Stat[2])
         /\ Stat[1].name = <<"cpu">>
  <1>1. /\ Cardinality(plugged) \in Nat /\ HeadCount \in 1 .. 2
        /\ CpuPieces = HeadCount + Cardinality(plugged)
        /\ Stat \in Seq(StatPieces) /\ Len(Stat) = CpuPieces + Len(layout.rest)
        /\ Len(layout.rest) \in Nat
    BY StatIs, OthersFacts
  <1>2. Stat[j] \in StatPieces
    BY <1>1, ElementOfSeq
  <1>3. layout.long \in BOOLEAN /\ layout.columns \in 4 .. 10
        /\ HeadCount = IF layout.long THEN 2 ELSE 1
    BY DEF KernelInv, HeadCount
  <1>4. /\ Stat[1].name = <<"cpu">> /\ (layout.long => ~IsCpu(Stat[2]))
        /\ ~layout.long => Stat[1] = Line(<<"cpu">>)
        /\ <<"cpu">> \in LineNames
    <2>1. 1 \in 1 .. HeadCount /\ (layout.long => 2 \in 1 .. HeadCount)
      BY <1>3
    <2>2. Stat[1] = Heads[1] /\ (layout.long => Stat[2] = Heads[2])
      BY <2>1, StatIs
    <2> QED BY <2>2, HeadsFacts DEF IsCpu, LineNames
  <1>5. CASE j \in 1 .. HeadCount
    <2>1. Stat[j] = Heads[j] /\ Len(Stat[j].values) <= layout.columns
      BY <1>5, StatIs, HeadsFacts
    <2>2. ~(j > CpuPieces)
      BY <1>1, <1>5
    <2>3. j = 1 \/ (layout.long /\ j = 2)
      BY <1>3, <1>5
    <2>4. j = 1 => IsCpu(Stat[j])
      BY <1>4 DEF IsCpu
    <2>5. j = 1 /\ ~layout.long => Stat[j].name \in LineNames /\ Stat[j] = Line(Stat[j].name)
      BY <1>4
    <2> QED BY <1>2, <1>4, <2>1, <2>2, <2>3, <2>4, <2>5
  <1>6. CASE j \in HeadCount + 1 .. CpuPieces
    <2>1. PICK name \in LineNames : Stat[j] = Line(name)
      BY <1>6, StatIs
    <2>2. Stat[j].name = name /\ IsCpu(Stat[j]) /\ Len(Stat[j].values) = layout.columns
      BY <2>1, LineFacts
    <2>3. ~(j > CpuPieces) /\ layout.columns <= layout.columns
      BY <1>1, <1>3, <1>6
    <2> QED BY <1>2, <1>4, <2>1, <2>2, <2>3
  <1>7. CASE j \in CpuPieces + 1 .. Len(Stat)
    <2>1. Stat[j] = [name |-> <<"other">>, values |-> layout.rest[j - CpuPieces]]
      BY <1>7, StatIs
    <2>2. ~(j <= CpuPieces)
      BY <1>1, <1>7
    <2>3. ~IsCpu(Stat[j]) /\ Stat[j].values = layout.rest[j - CpuPieces]
      BY <2>1 DEF IsCpu
    <2> QED BY <1>2, <1>4, <2>2, <2>3
  <1> QED BY <1>1, <1>5, <1>6, <1>7

PieceIs(piece, j) ==
  /\ piece \in StatPieces
  /\ j <= CpuPieces => Len(piece.values) <= layout.columns
  /\ j > CpuPieces => ~IsCpu(piece) /\ piece.values = layout.rest[j - CpuPieces]
  /\ IsCpu(piece) /\ (layout.long => j # 1) =>
       piece.name \in LineNames /\ piece = Line(piece.name)

LEMMA StatPiece ==
  ASSUME KernelInv, NEW j \in 1 .. Len(Stat)
  PROVE  PieceIs(Stat[j], j)
  BY StatFacts, Zenon DEF PieceIs

\* No line of a CPU is there twice.
LEMMA StatNames ==
  ASSUME KernelInv, NEW j \in 1 .. Len(Stat), NEW k \in 1 .. Len(Stat),
         IsCpu(Stat[j]), Stat[j].name = Stat[k].name
  PROVE  j = k
  <1>1. /\ Cardinality(plugged) \in Nat /\ HeadCount \in 1 .. 2
        /\ CpuPieces = HeadCount + Cardinality(plugged)
        /\ Len(Stat) \in Nat
    BY StatIs, LenProperties
  <1>2. IsCpu(Stat[k])
    BY DEF IsCpu
  <1>3. \A i \in {j, k} : \/ i = 1
                          \/ /\ i \in HeadCount + 1 .. CpuPieces
                             /\ Stat[i].name = <<"cpu", Nth(i - HeadCount)>>
                             /\ i - HeadCount \in 1 .. Cardinality(plugged)
    <2> TAKE i \in {j, k}
    <2>1. IsCpu(Stat[i]) /\ i \in 1 .. Len(Stat) /\ i <= CpuPieces
      BY <1>1, <1>2, StatFacts
    <2>2. i = 2 => ~layout.long
      BY <2>1, StatFacts
    <2>3. i = 1 \/ i \in HeadCount + 1 .. CpuPieces
      BY <1>1, <2>1, <2>2 DEF HeadCount, KernelInv
    <2>4. i \in HeadCount + 1 .. CpuPieces =>
            /\ Stat[i].name = <<"cpu", Nth(i - HeadCount)>>
            /\ i - HeadCount \in 1 .. Cardinality(plugged)
      BY StatIs, LineFacts
    <2> QED BY <2>3, <2>4
  <1>4. Stat[1].name = <<"cpu">>
    BY StatFacts
  <1>5. CASE j = 1 \/ k = 1
    <2>1. \A c : <<"cpu">> # <<"cpu", c>>
      OBVIOUS
    <2>2. \A i \in {j, k} : i = 1
      BY <1>3, <1>4, <1>5, <2>1
    <2> QED BY <2>2
  <1>6. CASE j # 1 /\ k # 1
    <2>1. /\ Nth(j - HeadCount) = Nth(k - HeadCount)
          /\ j - HeadCount \in 1 .. Cardinality(plugged)
          /\ k - HeadCount \in 1 .. Cardinality(plugged)
      BY <1>3, <1>6
    <2>2. Cardinality(UpTo(Nth(j - HeadCount))) = j - HeadCount
          /\ Cardinality(UpTo(Nth(k - HeadCount))) = k - HeadCount
      BY <2>1, NthFacts DEF KernelInv
    <2>3. j - HeadCount = k - HeadCount
      BY <2>1, <2>2
    <2> QED BY <1>1, <2>3
  <1> QED BY <1>5, <1>6

LEMMA StatType ==
  ASSUME KernelInv
  PROVE  Stat \in Seq(StatPieces) /\ Len(Stat) \in Nat
  <1>1. Stat \in Seq(StatPieces)
    BY StatIs
  <1> QED BY <1>1, LenProperties

\* What is read next, and what remains to be read then.
LEMMA RestFacts ==
  ASSUME KernelInv, NEW n \in Nat, Rest(n), file # <<>>
  PROVE  /\ n + 1 \in 1 .. Len(Stat) /\ Head(file) = Stat[n + 1]
         /\ Tail(file) = SubSeq(Stat, n + 2, Len(Stat))
  <1>1. Stat \in Seq(StatPieces) /\ Len(Stat) \in Nat
    BY StatType
  <1>2. n <= Len(Stat) /\ file = SubSeq(Stat, n + 1, Len(Stat))
    BY DEF Rest
  <1>3. n # Len(Stat)
    BY <1>1, <1>2, SubSeqEmpty
  <1>4. n + 1 \in 1 .. Len(Stat) /\ Len(Stat) \in n + 1 .. Len(Stat) /\ (n + 1) + 1 = n + 2
    BY <1>1, <1>2, <1>3
  <1> QED BY <1>1, <1>2, <1>4, HeadTailOfSubSeq

LEMMA RestAll ==
  ASSUME KernelInv
  PROVE  0 <= Len(Stat) /\ Stat = SubSeq(Stat, 0 + 1, Len(Stat))
  <1>1. Stat \in Seq(StatPieces) /\ Len(Stat) \in Nat
    BY StatType
  <1> QED BY <1>1, SubSeqFull

\* The file and what it is made of depend on the kernel alone.
LEMMA StatUnchanged ==
  ASSUME UNCHANGED kernelVars
  PROVE  /\ Stat' = Stat /\ plugged' = plugged /\ layout' = layout /\ clock' = clock
         /\ CpuPieces' = CpuPieces
         /\ \A j : IsCpu(Stat[j])' = IsCpu(Stat[j])
  <1>1. clock' = clock /\ plugged' = plugged /\ layout' = layout
    BY DEF kernelVars
  <1>2. Stat' = Stat
    BY <1>1 DEF Stat, CpuLines, Pieces, Line, Printed, Others
  <1> QED BY <1>1, <1>2 DEF IsCpu, CpuPieces

-----------------------------------------------------------------------------
(***************************************************************************)
(* Every step keeps the invariant                                          *)
(***************************************************************************)

LEMMA KernelNext ==
  ASSUME KernelInv, [Next]_vars
  PROVE  KernelInv'
  <1>1. CASE UNCHANGED <<kernelVars, seen>>
    BY <1>1 DEF KernelInv, LayoutOK, kernelVars
  <1>2. CASE Second
    <2>1. PICK move \in [Cpus -> Moves] :
            /\ \A c \in Cpus : \A k \in DOMAIN move[c] : clock[c][k] + move[c][k] >= 0
            /\ clock' = [c \in Cpus |-> [k \in DOMAIN move[c] |-> clock[c][k] + move[c][k]]]
      BY <1>2 DEF Second
    <2>2. \A c \in Cpus : move[c] \in [Clocks -> Int]
      BY ClocksAssumption
    <2>3. \A c \in Cpus : \A k \in Clocks : clock[c][k] + move[c][k] \in Nat
      <3> TAKE c \in Cpus
      <3> TAKE k \in Clocks
      <3>1. clock[c][k] \in Int /\ move[c][k] \in Int
        BY <2>2 DEF KernelInv, Times
      <3>2. clock[c][k] + move[c][k] >= 0
        BY <2>1, <2>2
      <3> QED BY <3>1, <3>2
    <2>4. clock' \in [Cpus -> Times]
      <3>1. \A c \in Cpus : [k \in DOMAIN move[c] |-> clock[c][k] + move[c][k]] \in Times
        BY <2>2, <2>3 DEF Times
      <3> QED BY <2>1, <3>1
    <2>5. plugged' \in (SUBSET Cpus) \ {{}} /\ seen' = seen
      BY <1>2 DEF Second
    <2>6. PICK long \in {layout.long, TRUE}, rest \in Rests :
            layout' = [layout EXCEPT !.long = long, !.rest = rest]
      BY <1>2 DEF Second
    <2>7. /\ layout' \in [columns : 4 .. 10, busy : BusyCounters, long : BOOLEAN, rest : Rests]
          /\ layout'.columns = layout.columns /\ layout'.busy = layout.busy
      BY <2>6 DEF KernelInv
    <2> QED BY <2>4, <2>5, <2>7 DEF KernelInv, LayoutOK
  <1>3. CASE Read
    BY <1>3 DEF Read, KernelInv, LayoutOK, kernelVars
  <1>4. CASE Count \/ Counted \/ Parse \/ Analyze \/ PrintBars \/ Remember \/ UNCHANGED vars
    BY <1>1, <1>4 DEF Count, Counted, Parse, Analyze, PrintBars, Remember, vars
  <1> QED BY <1>2, <1>3, <1>4 DEF Next

LEMMA PhaseNext ==
  ASSUME PhaseInv, [Next]_vars
  PROVE  PhaseInv'
  <1> USE DEF PhaseInv
  <1>1. CASE UNCHANGED vars
    BY <1>1 DEF vars, parserVars, kernelVars
  <1>2. CASE Count
    BY <1>2 DEF Count, CountOpen, CountOpenFails, Return, kernelVars
  <1>3. CASE Counted
    BY <1>3 DEF Counted, parserVars, kernelVars
  <1>4. CASE Second
    BY <1>4 DEF Second, parserVars, kernelVars
  <1>5. CASE Read
    BY <1>5 DEF Read, StatsOpen, kernelVars
  <1>6. CASE Parse
    <2>1. UNCHANGED <<kernelVars, phase, pass, seen>> /\ ParserStep
      BY <1>6 DEF Parse
    <2>2. CASE CountLine \/ CountEnd
      BY <2>1, <2>2 DEF CountLine, CountEnd, Return, kernelVars
    <2>3. CASE StatsLine \/ StatsLineTooLong \/ StatsEnd \/ EndOfFile
      BY <2>1, <2>3 DEF StatsLine, StatsLineTooLong, StatsEnd, EndOfFile, Return, kernelVars
    <2> QED BY <2>1, <2>2, <2>3 DEF ParserStep
  <1>7. CASE Analyze
    BY <1>7 DEF Analyze, parserVars, kernelVars
  <1>8. CASE PrintBars
    BY <1>8 DEF PrintBars, parserVars, kernelVars
  <1>9. CASE Remember
    BY <1>9 DEF Remember, parserVars, kernelVars
  <1> QED BY <1>1, <1>2, <1>3, <1>4, <1>5, <1>6, <1>7, <1>8, <1>9 DEF Next

\* A step of the parser takes place only while a file is open.
LEMMA ParserOpen ==
  ASSUME PhaseInv, Parse
  PROVE  reading # "no" /\ phase \in {"counting", "reading"}
  BY DEF PhaseInv, Parse, ParserStep, CountLine, CountEnd, StatsLine, StatsLineTooLong,
         StatsEnd, EndOfFile

LEMMA FiguresNext ==
  ASSUME PhaseInv, FiguresInv, [Next]_vars
  PROVE  FiguresInv'
  <1> USE DEF FiguresInv
  <1>1. CASE UNCHANGED vars
    BY <1>1 DEF vars, parserVars
  <1>2. CASE Count \/ Counted \/ Second \/ Read \/ Remember
    BY <1>2 DEF Count, Counted, Second, Read, Remember
  <1>3. CASE Parse
    <2>1. phase' \in {"counting", "reading"}
      BY <1>3, ParserOpen DEF Parse
    <2> QED BY <2>1
  <1>4. CASE Analyze
    <2> DEFINE figure(j) == UsagePercentage(prev[j].t, rows[j].t)
    <2>1. UNCHANGED <<threadsNum, prev, rows>>
      BY <1>4 DEF Analyze, parserVars
    <2>2. /\ phase' \in {"print", "stop"}
          /\ phase' = "print" => usage' = [j \in 1 .. threadsNum + 1 |-> figure(j)]
      BY <1>4 DEF Analyze
    <2>3. phase' = "print" => \A j \in 1 .. threadsNum + 1 : usage'[j] = figure(j)
      <3> HIDE DEF figure
      <3> QED BY <2>2
    <2> QED BY <2>1, <2>2, <2>3
  <1>5. CASE PrintBars
    <2>1. UNCHANGED <<threadsNum, prev, rows, usage>> /\ phase = "print" /\ phase' = "shown"
      BY <1>5 DEF PrintBars, parserVars
    <2>2. \A j \in 1 .. threadsNum + 1 : bars'[j] \in BarSizes(usage[j])
      BY <1>5, Zenon DEF PrintBars
    <2> QED BY <2>1, <2>2
  <1> QED BY <1>1, <1>2, <1>3, <1>4, <1>5 DEF Next

LEMMA MovesNext ==
  ASSUME KernelInv, PhaseInv, MovesInv, [Next]_vars
  PROVE  MovesInv'
  <1> USE DEF MovesInv
  <1>1. CASE UNCHANGED <<clock, seen, pass>> /\ (phase' = phase \/ (phase' # "sleep" /\ phase' # "read"
               /\ (phase' \in {"reading", "print", "shown"} => phase \in {"reading", "print", "shown"})))
    BY <1>1 DEF Moved
  <1>2. CASE Count \/ Parse \/ Analyze \/ PrintBars \/ UNCHANGED vars
    BY <1>1, <1>2 DEF Count, Parse, Analyze, PrintBars, vars, kernelVars
  <1>3. CASE Counted
    BY <1>3 DEF Counted, PhaseInv, kernelVars
  <1>4. CASE Second
    <2>1. PICK move \in [Cpus -> Moves] :
            clock' = [c \in Cpus |-> [k \in DOMAIN move[c] |-> clock[c][k] + move[c][k]]]
      BY <1>4 DEF Second
    <2>2. \A c \in Cpus : move[c] \in [Clocks -> Int]
      BY ClocksAssumption
    <2>3. \A c \in Cpus : \A k \in Clocks : clock'[c][k] = clock[c][k] + move[c][k]
      BY <2>1, <2>2
    <2>4. UNCHANGED <<seen, pass>> /\ phase = "sleep" /\ phase' = "read"
      BY <1>4 DEF Second
    <2>5. pass > 0 => Moved(seen.now, clock')
      BY <2>3, <2>4 DEF Moved
    <2> QED BY <2>4, <2>5 DEF Moved
  <1>5. CASE Read
    <2>1. /\ phase = "read" /\ phase' = "reading" /\ pass' = pass + 1 /\ pass \in Nat
          /\ seen'.now = clock /\ seen'.before = seen.now
      BY <1>5 DEF Read, PhaseInv
    <2> QED BY <2>1 DEF Moved
  <1>6. CASE Remember
    BY <1>6 DEF Remember, PhaseInv, kernelVars
  <1> QED BY <1>2, <1>3, <1>4, <1>5, <1>6 DEF Next

\* The number of lines counted when the count ends well.
LEMMA CountIs ==
  ASSUME KernelInv, NEW n \in Nat, n > 1, n + 1 \in 1 .. Len(Stat),
         \A j \in 1 .. n : IsCpu(Stat[j]), ~IsCpu(Stat[n + 1])
  PROVE  n - 1 = Cardinality(plugged)
  <1>1. /\ n \in 1 .. Len(Stat) /\ 2 \in 1 .. n /\ Len(Stat) \in Nat
    BY StatType
  <1>2. ~layout.long
    BY <1>1, StatFacts
  <1>3. /\ Cardinality(plugged) \in Nat /\ CpuPieces = 1 + Cardinality(plugged)
    BY <1>2, StatIs DEF HeadCount
  <1>4. n <= CpuPieces
    BY <1>1, <1>3, StatFacts
  <1>5. ~(n + 1 <= CpuPieces)
    BY <1>2, StatFacts
  <1> QED BY <1>3, <1>4, <1>5

LEMMA ThreadsNext ==
  ASSUME KernelInv, PhaseInv, ThreadsInv, [Next]_vars
  PROVE  ThreadsInv'
  <1>1. CASE UNCHANGED <<kernelVars, parserVars, phase, pass>>
    <2>1. Stat' = Stat /\ plugged' = plugged /\ \A j : IsCpu(Stat[j])' = IsCpu(Stat[j])
      BY <1>1, StatUnchanged
    <2>2. UNCHANGED <<reading, file, threadsNum, result, phase, pass>>
      BY <1>1 DEF parserVars
    <2> QED BY <2>1, <2>2 DEF ThreadsInv, Rest, IsCpu
  <1>2. CASE UNCHANGED vars
    BY <1>1, <1>2 DEF vars
  <1>3. CASE Count
    <2>1. Stat' = Stat
      BY <1>3, StatUnchanged DEF Count
    <2>2. phase' = "counting"
      BY <1>3 DEF Count
    <2>3. CASE CountOpen(Stat)
      <3>1. reading' = "count" /\ file' = Stat /\ threadsNum' = 0
        BY <2>3 DEF CountOpen
      <3>2. Rest(threadsNum)'
        BY <2>1, <3>1, RestAll DEF Rest
      <3> QED BY <2>2, <3>1, <3>2 DEF ThreadsInv
    <2>4. CASE CountOpenFails
      BY <2>2, <2>4 DEF CountOpenFails, Return, ThreadsInv
    <2> QED BY <1>3, <2>3, <2>4 DEF Count
  <1>4. CASE Counted
    <2>1. /\ phase = "counting" /\ reading = "no" /\ reading' = reading /\ threadsNum' = threadsNum
          /\ plugged' = plugged /\ phase' = IF result = "OK" THEN "sleep" ELSE "stop"
      BY <1>4 DEF Counted, parserVars, kernelVars
    <2> QED BY <2>1 DEF ThreadsInv
  <1>5. CASE Parse
    <2>1. UNCHANGED <<kernelVars, phase, pass>> /\ ParserStep /\ phase \in {"counting", "reading"}
      BY <1>5, ParserOpen DEF Parse
    <2>2. Stat' = Stat /\ plugged' = plugged /\ \A j : IsCpu(Stat[j])' = IsCpu(Stat[j])
      BY <2>1, StatUnchanged
    <2>3. PICK n \in Nat : n = threadsNum
      BY DEF PhaseInv
    <2>4. ASSUME reading = "count", file # <<>>
          PROVE  /\ n + 1 \in 1 .. Len(Stat) /\ Head(file) = Stat[n + 1]
                 /\ Tail(file) = SubSeq(Stat, n + 2, Len(Stat))
                 /\ \A j \in 1 .. n : IsCpu(Stat[j])
      BY <2>3, <2>4, RestFacts DEF ThreadsInv
    <2>5. CASE CountLine
      <3>1. /\ reading = "count" /\ file # <<>> /\ IsCpu(Head(file))
            /\ threadsNum' = n + 1 /\ file' = Tail(file) /\ reading' = reading
        BY <2>3, <2>5 DEF CountLine
      <3>2. n + 1 <= Len(Stat) /\ file' = SubSeq(Stat, (n + 1) + 1, Len(Stat))
        <4>1. (n + 1) + 1 = n + 2
          OBVIOUS
        <4>2. n + 1 \in 1 .. Len(Stat)
          BY <2>4, <3>1
        <4>3. n + 1 <= Len(Stat)
          BY <4>2, StatType
        <4> QED BY <2>4, <3>1, <4>1, <4>3
      <3>3. Rest(threadsNum)'
        BY <2>2, <3>1, <3>2 DEF Rest
      <3>4. \A j \in 1 .. n + 1 : IsCpu(Stat[j])
        BY <2>4, <3>1
      <3>5. reading = "count" /\ phase' = "counting"
        BY <2>1, <3>1 DEF PhaseInv
      <3>6. \A j \in 1 .. threadsNum' : IsCpu(Stat[j])'
        BY <2>2, <3>1, <3>4
      <3> QED BY <3>1, <3>3, <3>5, <3>6 DEF ThreadsInv
    <2>6. CASE CountEnd
      <3>1. /\ reading = "count" /\ file # <<>> /\ ~IsCpu(Head(file)) /\ reading' = "no"
            /\ threadsNum' = IF n # 0 THEN n - 1 ELSE 0
            /\ result' = IF threadsNum' = 0 THEN "READ_NO_CPU_THR" ELSE "OK"
        BY <2>3, <2>6 DEF CountEnd, Return
      <3>2. result' = "OK" => n > 1 /\ threadsNum' = n - 1
        BY <3>1
      <3>3. n > 1 => n - 1 = Cardinality(plugged)
        BY <2>4, <3>1, CountIs
      <3>4. phase' = "counting"
        BY <2>1, <3>1 DEF PhaseInv
      <3> QED BY <2>2, <3>1, <3>2, <3>3, <3>4 DEF ThreadsInv
    <2>7. CASE EndOfFile
      BY <2>1, <2>7 DEF EndOfFile, Return, ThreadsInv
    <2>8. CASE StatsLine \/ StatsLineTooLong \/ StatsEnd
      <3>1. reading' # "count" /\ phase' = "reading"
        BY <2>1, <2>8 DEF StatsLine, StatsLineTooLong, StatsEnd, Return, PhaseInv
      <3> QED BY <3>1 DEF ThreadsInv
    <2> QED BY <2>1, <2>5, <2>6, <2>7, <2>8 DEF ParserStep
  <1>6. CASE Second \/ Read \/ Analyze \/ PrintBars
    <2>1. phase' \in {"read", "reading", "print", "shown", "stop"} /\ reading' # "count"
      BY <1>6 DEF Second, Read, Analyze, PrintBars, StatsOpen, parserVars, PhaseInv
    <2> QED BY <2>1 DEF ThreadsInv
  <1>7. CASE Remember
    <2>1. phase = "shown" /\ phase' = "sleep" /\ pass' = pass /\ reading' = reading
      BY <1>7 DEF Remember, parserVars
    <2>2. pass > 0 /\ pass \in Nat /\ reading # "count"
      BY <2>1 DEF PhaseInv
    <2> QED BY <2>1, <2>2 DEF ThreadsInv
  <1> QED BY <1>2, <1>3, <1>4, <1>5, <1>6, <1>7 DEF Next

-----------------------------------------------------------------------------

LEMMA AccessorsDiffer ==
  \A j, k \in 1 .. 10 : accessorsCpu[j] = accessorsCpu[k] => j = k
  <1> SUFFICES ASSUME NEW j \in 1 .. 10, NEW k \in 1 .. 10, accessorsCpu[j] = accessorsCpu[k]
               PROVE  j = k
    OBVIOUS
  <1> DEFINE named(n, c) ==
        /\ n = 1 => c = "user"
        /\ n = 2 => c = "nice"
        /\ n = 3 => c = "system"
        /\ n = 4 => c = "idle"
        /\ n = 5 => c = "iowait"
        /\ n = 6 => c = "irq"
        /\ n = 7 => c = "softirq"
        /\ n = 8 => c = "steal"
        /\ n = 9 => c = "guest"
        /\ n = 10 => c = "guestNice"
  <1>1. \A n \in 1 .. 10 : named(n, accessorsCpu[n])
    BY DEF accessorsCpu
  <1> QED BY <1>1

\* The struct after a piece: its numbers, and those of before where it has none.
LEMMA ParsedIs ==
  ASSUME NEW piece, piece.values \in Seq(Nat), NEW stats, stats.t \in [Counter -> Nat]
  PROVE  /\ Parsed(stats, piece).name = piece.name
         /\ Parsed(stats, piece) = [name |-> piece.name, t |-> Parsed(stats, piece).t]
         /\ Parsed(stats, piece).t \in [Counter -> Nat]
         /\ \A k \in 1 .. 10 :
              Parsed(stats, piece).t[accessorsCpu[k]] =
                IF k <= Len(piece.values) THEN piece.values[k] ELSE stats.t[accessorsCpu[k]]
  <1> DEFINE at(c) == CHOOSE k \in 1 .. 10 : accessorsCpu[k] = c
             value(c) == IF at(c) <= Len(piece.values) THEN piece.values[at(c)] ELSE stats.t[c]
             t == [c \in Counter |-> value(c)]
  <1>1. Parsed(stats, piece) = [name |-> piece.name, t |-> t]
    BY Zenon DEF Parsed
  <1>2. \A k \in 1 .. 10 : at(accessorsCpu[k]) = k /\ accessorsCpu[k] \in Counter
    BY AccessorsDiffer DEF Counter
  <1>3. \A c \in Counter : at(c) \in 1 .. 10
    BY DEF Counter
  <1>4. Len(piece.values) \in Nat
    BY LenProperties
  <1> HIDE DEF at
  <1>5. \A c \in Counter : value(c) \in Nat
    <2> TAKE c \in Counter
    <2>1. at(c) <= Len(piece.values) => at(c) \in 1 .. Len(piece.values)
      <3>1. \A m \in 1 .. 10, n \in Nat : m <= n => m \in 1 .. n
        OBVIOUS
      <3> HIDE DEF value, t
      <3> QED BY <1>3, <1>4, <3>1, Zenon
    <2>2. at(c) <= Len(piece.values) => piece.values[at(c)] \in Nat
      BY <2>1, ElementOfSeq
    <2> QED BY <2>2
  <1>6. \A k \in 1 .. 10 :
          t[accessorsCpu[k]] =
            IF k <= Len(piece.values) THEN piece.values[k] ELSE stats.t[accessorsCpu[k]]
    <2> TAKE k \in 1 .. 10
    <2>1. t[accessorsCpu[k]] = value(accessorsCpu[k])
      <3> HIDE DEF value
      <3> QED BY <1>2
    <2> HIDE DEF t
    <2> QED BY <1>2, <2>1
  <1>7. t \in [Counter -> Nat]
    <2> HIDE DEF value
    <2> QED BY <1>5
  <1> HIDE DEF t
  <1> QED BY <1>1, <1>6, <1>7

LEMMA TellsOf ==
  ASSUME NEW t, NEW time, KernelInv, Shows(t, time), Zeros(t)
  PROVE  Tells(t, time)
  <1>1. layout.columns \in 4 .. 10
    BY DEF KernelInv
  <1>2. \A k \in 1 .. 10 : k \in 1 .. layout.columns \/ k \in layout.columns + 1 .. 10
    BY <1>1
  <1>3. \A k \in 1 .. 10 : (k \in 1 .. layout.columns) = (k <= layout.columns)
    BY <1>1
  <1> QED BY <1>2, <1>3 DEF Tells, Shows, Zeros

\* What a row tells does not depend on how long the lines are.
LEMMA TellsSame ==
  ASSUME layout'.columns = layout.columns, layout'.busy = layout.busy
  PROVE  /\ \A t, time : Shows(t, time)' <=> Shows(t, time)
         /\ \A t : Zeros(t)' <=> Zeros(t)
  <1>1. \A time, c : Printed(time, c)' = Printed(time, c)
    BY Zenon DEF Printed
  <1> QED BY <1>1, Zenon DEF Shows, Zeros

\* It tells no less when a line outgrows buf, or a pass ends.
LEMMA RowSame ==
  ASSUME layout'.columns = layout.columns, layout'.busy = layout.busy,
         layout.long => layout'.long, gone => gone'
  PROVE  \A row, j, at : RowTells(row, j, at) => RowTells(row, j, at)'
  <1>1. /\ \A t, time : Shows(t, time)' <=> Shows(t, time)
        /\ \A t : Zeros(t)' <=> Zeros(t)
    BY TellsSame
  <1>2. Clean' => Clean
    BY DEF Clean
  <1>3. \A row : IsCpu(row)' <=> IsCpu(row)
    BY DEF IsCpu
  <1> QED BY <1>1, <1>2, <1>3, Zenon DEF RowTells

LEMMA RowsSame ==
  ASSUME UNCHANGED <<kernelVars, rows, threadsNum, gone>>
  PROVE  RowsTell => RowsTell'
  <1>1. /\ Stat' = Stat /\ layout' = layout /\ clock' = clock /\ rows' = rows
        /\ threadsNum' = threadsNum /\ CpuPieces' = CpuPieces /\ gone' = gone
    BY StatUnchanged
  <1>2. \A row, j, at : RowTells(row, j, at) => RowTells(row, j, at)'
    BY <1>1, RowSame
  <1> QED BY <1>1, <1>2 DEF RowsTell

LEMMA PrevSame ==
  ASSUME UNCHANGED <<prev, threadsNum>>, gone => gone', layout.long => layout'.long,
         layout'.columns = layout.columns, layout'.busy = layout.busy
  PROVE  \A at : PrevTells(at) => PrevTells(at)'
  <1>1. \A row, j, at : RowTells(row, j, at) => RowTells(row, j, at)'
    BY RowSame
  <1> QED BY <1>1 DEF PrevTells

\* A further row.
LEMMA RowsLine ==
  ASSUME KernelInv, PhaseInv, RowsInv, Parse, StatsLine
  PROVE  StructInv' /\ RowsTell' /\ Rest(Len(rows))'
  <1>1. UNCHANGED <<kernelVars, threadsNum, gone, phase>> /\ reading = "stats" /\ file # <<>>
        /\ phase = "reading" /\ reading' = reading
    BY DEF Parse, StatsLine, PhaseInv
  <1>2. StructInv /\ RowsTell /\ Rest(Len(rows)) /\ HasRows /\ HasRows'
    BY <1>1 DEF RowsInv, Failed, HasRows
  <1>3. PICK n \in Nat : n = Len(rows)
    BY <1>2, LenProperties DEF RowsTell
  <1>4. /\ n + 1 \in 1 .. Len(Stat) /\ Head(file) = Stat[n + 1]
        /\ Tail(file) = SubSeq(Stat, n + 2, Len(Stat))
    BY <1>1, <1>2, <1>3, RestFacts
  <1> DEFINE piece == Stat[n + 1]
  <1>5. /\ n < threadsNum + 1 /\ Len(piece.values) <= 10
        /\ cpuStats' = Parsed(cpuStats, piece) /\ rows' = Append(rows, cpuStats')
        /\ file' = Tail(file)
    BY <1>3, <1>4 DEF StatsLine
  <1>6. PieceIs(piece, n + 1)
    BY <1>4, StatPiece, Zenon
  <1> HIDE DEF piece
  <1>7. /\ piece.values \in Seq(Nat) /\ piece.name \in Names /\ Len(piece.values) \in Nat
        /\ CpuPieces \in Nat /\ layout.columns \in 4 .. 10
    BY <1>6, StatIs, LenProperties DEF PieceIs, StatPieces, KernelInv
  <1>8. /\ cpuStats'.name = piece.name /\ cpuStats' \in Row /\ cpuStats'.t \in [Counter -> Nat]
        /\ \A k \in 1 .. 10 :
             cpuStats'.t[accessorsCpu[k]] =
               IF k <= Len(piece.values) THEN piece.values[k] ELSE cpuStats.t[accessorsCpu[k]]
    <2> DEFINE parsed == Parsed(cpuStats, piece)
    <2>1. cpuStats.t \in [Counter -> Nat]
      BY <1>2 DEF StructInv
    <2>2. /\ parsed.name = piece.name
          /\ parsed = [name |-> piece.name, t |-> parsed.t]
          /\ parsed.t \in [Counter -> Nat]
          /\ \A k \in 1 .. 10 :
               parsed.t[accessorsCpu[k]] =
                 IF k <= Len(piece.values) THEN piece.values[k] ELSE cpuStats.t[accessorsCpu[k]]
      BY <1>7, <2>1, ParsedIs
    <2>3. cpuStats' = parsed
      BY <1>5
    <2> HIDE DEF parsed
    <2>4. parsed \in Row
      BY <1>7, <2>2 DEF Row
    <2> QED BY <2>2, <2>3, <2>4
  <1>9. /\ Stat' = Stat /\ layout' = layout /\ clock' = clock /\ threadsNum' = threadsNum
        /\ CpuPieces' = CpuPieces /\ gone' = gone
    BY <1>1, StatUnchanged
  <1>10. /\ rows' \in Seq(Row) /\ Len(rows') = n + 1
         /\ \A j \in 1 .. n : rows'[j] = rows[j]
         /\ rows'[n + 1] = cpuStats'
    BY <1>2, <1>3, <1>5, <1>8, AppendProperties DEF RowsTell
  <1>11. n + 1 <= CpuPieces /\ Clean => Zeros(cpuStats'.t)
    <2> SUFFICES ASSUME n + 1 <= CpuPieces, Clean PROVE Zeros(cpuStats'.t)
      OBVIOUS
    <2>1. Zeros(cpuStats.t)
      BY <1>2, <1>3, <1>7 DEF StructInv
    <2>2. \A k \in layout.columns + 1 .. 10 : k \in 1 .. 10 /\ ~(k <= Len(piece.values))
      <3>1. Len(piece.values) <= layout.columns
        BY <1>6, Zenon DEF PieceIs
      <3>2. \A c \in 4 .. 10, l \in Nat : l <= c =>
              \A k \in c + 1 .. 10 : k \in 1 .. 10 /\ ~(k <= l)
        OBVIOUS
      <3> QED BY <1>7, <3>1, <3>2, Zenon
    <2> QED BY <1>8, <2>1, <2>2 DEF Zeros
  <1>12. StructInv'
    <2>1. Clean' = Clean /\ \A t : Zeros(t)' <=> Zeros(t)
      BY <1>9, TellsSame DEF Clean
    <2>2. Clean /\ n + 1 <= CpuPieces => Zeros(cpuStats.t)'
      BY <1>11, <2>1
    <2> QED BY <1>2, <1>8, <1>9, <1>10, <2>1, <2>2 DEF StructInv
  <1>13. Len(Stat) \in Nat /\ threadsNum \in Nat
    BY StatType DEF PhaseInv
  <1>14. Rest(Len(rows))'
    <2>1. (n + 1) + 1 = n + 2 /\ n + 1 <= Len(Stat)
      BY <1>4, <1>13
    <2>2. file' = SubSeq(Stat, (n + 1) + 1, Len(Stat))
      BY <1>4, <1>5, <2>1
    <2> QED BY <1>9, <1>10, <2>1, <2>2 DEF Rest
  <1>15. RowTells(cpuStats', n + 1, clock)
    <2> SUFFICES ASSUME IsCpu(cpuStats'), layout.long => n + 1 # 1
                 PROVE  /\ piece.name \in LineNames
                        /\ Shows(cpuStats'.t, Clock(piece.name, clock))
                        /\ Clean => Zeros(cpuStats'.t)
      BY <1>8 DEF RowTells
    <2>1. IsCpu(piece)
      BY <1>8 DEF IsCpu
    <2>2. piece.name \in LineNames /\ piece = Line(piece.name) /\ n + 1 <= CpuPieces
      BY <1>6, <1>7, <2>1 DEF PieceIs
    <2>3. /\ Len(piece.values) = layout.columns
          /\ \A k \in 1 .. layout.columns :
               piece.values[k] = Printed(Clock(piece.name, clock), accessorsCpu[k])
      BY <2>2, LineFacts
    <2>4. \A k \in 1 .. layout.columns : k \in 1 .. 10 /\ k <= Len(piece.values)
      <3>1. \A c \in 4 .. 10 : \A l : l = c => \A k \in 1 .. c : k \in 1 .. 10 /\ k <= l
        OBVIOUS
      <3> QED BY <1>7, <2>3, <3>1, Zenon
    <2>5. Shows(cpuStats'.t, Clock(piece.name, clock))
      BY <1>8, <2>3, <2>4 DEF Shows
    <2> QED BY <1>11, <2>2, <2>5
  <1>16. ASSUME NEW j \in 1 .. n + 1
         PROVE  /\ rows'[j].name = Stat[j].name
                /\ RowTells(rows'[j], j, clock)
                /\ j > CpuPieces => Len(layout.rest[j - CpuPieces]) <= 10
    <2>1. CASE j = n + 1
      <3>1. Stat[j] = piece /\ rows'[j] = cpuStats'
        BY <1>10, <2>1 DEF piece
      <3>2. rows'[j].name = Stat[j].name /\ RowTells(rows'[j], j, clock)
        BY <1>8, <1>15, <2>1, <3>1
      <3>3. PieceIs(piece, j) /\ Len(piece.values) <= 10
        BY <1>5, <1>6, <2>1
      <3>4. j > CpuPieces => Len(layout.rest[j - CpuPieces]) <= 10
        BY <3>3, Zenon DEF PieceIs
      <3> QED BY <3>2, <3>4
    <2>2. CASE j # n + 1
      <3>1. j \in 1 .. n
        BY <1>3, <2>2
      <3> QED BY <1>2, <1>3, <1>10, <3>1 DEF RowsTell
    <2> QED BY <2>1, <2>2
  <1>17. RowsTell'
    <2>1. \A row, j, at : RowTells(row, j, at) => RowTells(row, j, at)'
      BY <1>9, RowSame
    <2>2. \A j \in 1 .. Len(rows') :
            /\ rows'[j].name = Stat[j]'.name
            /\ RowTells(rows[j], j, clock)'
            /\ j > CpuPieces' => Len(layout'.rest[j - CpuPieces']) <= 10
      <3> TAKE j \in 1 .. Len(rows')
      <3>1. j \in 1 .. n + 1
        BY <1>10
      <3> QED BY <1>9, <1>16, <2>1, <3>1
    <2>3. Len(rows') <= threadsNum' + 1 /\ Len(rows') <= Len(Stat')
      BY <1>3, <1>4, <1>5, <1>9, <1>10, <1>13
    <2> QED BY <1>10, <2>2, <2>3 DEF RowsTell
  <1> QED BY <1>12, <1>14, <1>17

LEMMA RowsNext ==
  ASSUME KernelInv, PhaseInv, MovesInv, RowsInv, [Next]_vars
  PROVE  RowsInv'
  <1> SUFFICES /\ ~Failed' => StructInv'
               /\ HasRows' => RowsTell'
               /\ HasRows' /\ reading' = "no" => Len(rows') = threadsNum' + 1
               /\ reading' = "stats" => Rest(Len(rows))'
               /\ phase' \in {"sleep", "read"} /\ pass' > 0 => PrevTells(seen.now)'
               /\ phase' \in {"reading", "print", "shown"} /\ pass' > 1
                    => PrevTells(seen.before)'
    BY DEF RowsInv
  <1>1. /\ layout'.columns = layout.columns /\ layout'.busy = layout.busy
        /\ layout.long => layout'.long
        /\ ~Second => UNCHANGED kernelVars /\ CpuPieces' = CpuPieces
        /\ ~Remember => gone' = gone
        /\ gone => gone'
    <2>1. CASE Second
      <3>1. PICK long \in {layout.long, TRUE}, rest \in Rests :
              layout' = [layout EXCEPT !.long = long, !.rest = rest]
        BY <2>1 DEF Second
      <3>2. layout \in [columns : 4 .. 10, busy : BusyCounters, long : BOOLEAN, rest : Rests]
        BY DEF KernelInv
      <3>3. layout'.columns = layout.columns /\ layout'.busy = layout.busy
            /\ layout'.long = long
        BY <3>1, <3>2
      <3>4. layout.long => layout'.long
        BY <3>2, <3>3
      <3>5. gone' = gone
        BY <2>1 DEF Second
      <3> QED BY <2>1, <3>3, <3>4, <3>5
    <2>2. CASE ~Second
      <3>1. Remember => UNCHANGED kernelVars /\ (gone => gone')
        BY DEF Remember
      <3>2. ~Remember => UNCHANGED <<kernelVars, gone>>
        BY <2>2 DEF Next, vars, Count, Counted, Read, Parse, Analyze, PrintBars
      <3>3. UNCHANGED kernelVars /\ (~Remember => gone' = gone) /\ (gone => gone')
        BY <3>1, <3>2
      <3>4. CpuPieces' = CpuPieces /\ layout' = layout
        BY <3>3, StatUnchanged
      <3> QED BY <2>2, <3>3, <3>4
    <2> QED BY <2>1, <2>2
  <1>2. /\ ~Failed => StructInv
        /\ HasRows => RowsTell
        /\ HasRows /\ reading = "no" => Len(rows) = threadsNum + 1
        /\ reading = "stats" => Rest(Len(rows))
        /\ phase \in {"sleep", "read"} /\ pass > 0 => PrevTells(seen.now)
        /\ phase \in {"reading", "print", "shown"} /\ pass > 1 => PrevTells(seen.before)
    BY DEF RowsInv
  <1>3. /\ cpuStats' = cpuStats /\ StructInv
        /\ \/ ~HasRows
           \/ HasRows' /\ rows' = rows /\ CpuPieces' = CpuPieces
        => StructInv'
    <2>1. (Clean' => Clean) /\ \A t : Zeros(t)' <=> Zeros(t)
      BY <1>1, TellsSame DEF Clean
    <2> QED BY <2>1, Zenon DEF StructInv
  <1>4. UNCHANGED <<prev, threadsNum>> => \A at : PrevTells(at) => PrevTells(at)'
    BY <1>1, PrevSame
  <1>5. UNCHANGED <<prev, threadsNum, seen>> =>
          /\ PrevTells(seen.now) => PrevTells(seen.now)'
          /\ PrevTells(seen.before) => PrevTells(seen.before)'
    BY <1>4 DEF PrevTells
  <1>6. CASE UNCHANGED vars
    <2>1. UNCHANGED <<reading, file, threadsNum, cpuStats, rows, result, phase, pass, prev, seen,
                      gone>>
      BY <1>6 DEF vars, parserVars
    <2>2. UNCHANGED kernelVars /\ Stat' = Stat /\ CpuPieces' = CpuPieces
      BY <1>6, StatUnchanged DEF vars
    <2>3. RowsTell => RowsTell'
      BY <2>1, <2>2, RowsSame
    <2>4. Failed' = Failed /\ HasRows' = HasRows /\ (Rest(Len(rows))' <=> Rest(Len(rows)))
      BY <2>1, <2>2 DEF Failed, HasRows, Rest
    <2> QED BY <1>2, <1>3, <1>5, <2>1, <2>2, <2>3, <2>4
  <1>7. CASE Count
    <2>1. /\ phase = "count" /\ phase' = "counting" /\ reading' # "stats" /\ cpuStats' = cpuStats
          /\ reading # "stats"
      BY <1>7 DEF Count, CountOpen, CountOpenFails, Return, PhaseInv
    <2>2. ~Failed /\ ~HasRows /\ ~HasRows'
      BY <2>1 DEF Failed, HasRows
    <2> QED BY <1>2, <1>3, <2>1, <2>2
  <1>8. CASE Counted
    <2>1. /\ phase = "counting" /\ reading = "no" /\ reading' = "no" /\ cpuStats' = cpuStats
          /\ phase' \in {"sleep", "stop"} /\ pass' = pass /\ pass = 0
      BY <1>8 DEF Counted, parserVars, PhaseInv
    <2>2. ~Failed /\ ~HasRows /\ ~HasRows'
      BY <2>1 DEF Failed, HasRows
    <2> QED BY <1>2, <1>3, <2>1, <2>2
  <1>9. CASE Second
    <2>1. /\ phase = "sleep" /\ phase' = "read" /\ reading' = reading /\ cpuStats' = cpuStats
          /\ pass' = pass /\ seen' = seen /\ UNCHANGED <<prev, threadsNum>>
      BY <1>9 DEF Second, parserVars
    <2>2. ~Failed /\ ~HasRows /\ ~HasRows' /\ reading = "no"
      BY <2>1 DEF Failed, HasRows, PhaseInv
    <2> QED BY <1>2, <1>3, <1>5, <2>1, <2>2
  <1>10. CASE Read
    <2>1. /\ phase = "read" /\ phase' = "reading" /\ reading' = "stats" /\ cpuStats' = cpuStats
          /\ pass' = pass + 1 /\ pass \in Nat /\ seen'.before = seen.now
          /\ rows' = <<>> /\ file' = Stat /\ UNCHANGED <<prev, threadsNum>>
          /\ Stat' = Stat /\ threadsNum \in Nat /\ reading # "stats"
      BY <1>1, <1>10, StatUnchanged DEF Read, StatsOpen, PhaseInv, Second
    <2>2. ~Failed /\ ~HasRows
      BY <2>1 DEF Failed, HasRows
    <2>3. RowsTell'
      BY <2>1, RestAll DEF RowsTell
    <2>4. Rest(Len(rows))'
      <3>1. Len(rows') = 0
        BY <2>1
      <3> QED BY <2>1, <3>1, RestAll DEF Rest
    <2>5. PrevTells(seen.now) => PrevTells(seen.before)'
      BY <1>4, <2>1 DEF PrevTells
    <2> QED BY <1>2, <1>3, <2>1, <2>2, <2>3, <2>4, <2>5
  <1>11. CASE Parse
    <2>1. UNCHANGED <<phase, pass, prev, seen, gone>> /\ ParserStep /\ UNCHANGED kernelVars
      BY <1>11 DEF Parse
    <2>2. Stat' = Stat /\ CpuPieces' = CpuPieces
      BY <2>1, StatUnchanged
    <2>3. CASE CountLine \/ CountEnd
      <3>1. /\ phase = "counting" /\ reading' # "stats" /\ cpuStats' = cpuStats
            /\ phase' = "counting" /\ reading # "stats"
        BY <2>1, <2>3 DEF CountLine, CountEnd, Return, PhaseInv
      <3>2. ~Failed /\ ~HasRows /\ ~HasRows'
        BY <3>1 DEF Failed, HasRows
      <3> QED BY <1>2, <1>3, <3>1, <3>2
    <2>4. reading = "stats" => /\ phase = "reading" /\ ~Failed /\ HasRows
                               /\ (UNCHANGED threadsNum /\ pass' > 1 => PrevTells(seen.before)')
      <3>1. reading = "stats" => phase = "reading" /\ ~Failed /\ HasRows
        BY DEF PhaseInv, Failed, HasRows
      <3> QED BY <1>2, <1>5, <2>1, <3>1
    <2>5. CASE StatsLine
      <3>1. StructInv' /\ RowsTell' /\ Rest(Len(rows))'
        BY <1>11, <2>5, RowsLine
      <3>2. reading' = "stats" /\ reading = "stats" /\ UNCHANGED threadsNum
        BY <2>5 DEF StatsLine
      <3> QED BY <2>1, <2>4, <3>1, <3>2
    <2>6. CASE StatsLineTooLong
      <3>1. /\ reading = "stats" /\ reading' = "no" /\ result' # "OK" /\ UNCHANGED threadsNum
        BY <2>6 DEF StatsLineTooLong, Return
      <3>2. Failed' /\ ~HasRows'
        BY <2>1, <2>4, <3>1 DEF Failed, HasRows
      <3> QED BY <2>1, <2>4, <3>1, <3>2
    <2>7. CASE StatsEnd
      <3>1. /\ reading = "stats" /\ reading' = "no" /\ UNCHANGED <<rows, threadsNum, cpuStats>>
            /\ Len(rows) = threadsNum + 1 /\ result' = "OK"
        BY <2>7 DEF StatsEnd, Return
      <3>2. RowsTell'
        BY <1>2, <2>1, <2>4, <3>1, RowsSame
      <3>3. HasRows'
        BY <2>1, <2>4, <3>1 DEF HasRows
      <3> QED BY <1>2, <1>3, <2>1, <2>2, <2>4, <3>1, <3>2, <3>3
    <2>8. CASE EndOfFile
      <3>1. /\ reading \in {"stats", "count"} /\ reading' = "no" /\ result' # "OK"
            /\ UNCHANGED <<rows, threadsNum, cpuStats>>
        BY <2>8 DEF EndOfFile, Return, PhaseInv
      <3>2. ~HasRows' /\ (reading = "count" => phase = "counting" /\ ~Failed /\ ~HasRows)
            /\ (reading = "stats" => Failed')
        BY <2>1, <2>4, <3>1 DEF HasRows, PhaseInv, Failed
      <3> QED BY <1>2, <1>3, <2>1, <2>4, <3>1, <3>2
    <2> QED BY <2>1, <2>3, <2>5, <2>6, <2>7, <2>8 DEF ParserStep
  <1>12. CASE Analyze \/ PrintBars
    <2>1. /\ UNCHANGED <<reading, file, threadsNum, cpuStats, rows, result, pass, prev, seen, gone>>
          /\ reading = "no" /\ UNCHANGED kernelVars /\ CpuPieces' = CpuPieces
      BY <1>12, StatUnchanged DEF Analyze, PrintBars, parserVars, PhaseInv
    <2>2. /\ phase \in {"reading", "print"} /\ phase' \in {"stop", "print", "shown"}
          /\ phase = "reading" /\ result # "OK" => phase' = "stop"
          /\ phase = "reading" /\ result = "OK" => phase' = "print"
          /\ phase = "print" => phase' = "shown"
      BY <1>12 DEF Analyze, PrintBars
    <2>3. (HasRows' => HasRows) /\ (Failed => Failed') /\ (~Failed' => HasRows')
      BY <2>1, <2>2 DEF HasRows, Failed
    <2>4. RowsTell => RowsTell'
      BY <2>1, RowsSame
    <2> QED BY <1>2, <1>3, <1>5, <2>1, <2>2, <2>3, <2>4
  <1>13. CASE Remember
    <2>1. /\ UNCHANGED <<reading, threadsNum, cpuStats, rows, result, pass, seen>>
          /\ phase = "shown" /\ phase' = "sleep" /\ prev' = rows /\ UNCHANGED kernelVars
          /\ gone' = (gone \/ threadsNum + 1 > CpuPieces)
      BY <1>13 DEF Remember, parserVars
    <2>2. /\ reading = "no" /\ HasRows /\ ~Failed /\ ~HasRows' /\ seen.now = clock
      BY <2>1 DEF PhaseInv, HasRows, Failed
    <2>3. RowsTell /\ Len(rows) = threadsNum + 1 /\ StructInv
      BY <1>2, <2>2
    <2>4. \A row, j, at : RowTells(row, j, at) => RowTells(row, j, at)'
      BY <1>1, RowSame
    <2>5. PrevTells(seen.now)'
      BY <2>1, <2>2, <2>3, <2>4 DEF PrevTells, RowsTell
    <2>6. StructInv'
      <3>1. \A t : Zeros(t)' <=> Zeros(t)
        BY <1>1, TellsSame
      <3>2. threadsNum \in Nat /\ CpuPieces \in Nat /\ layout' = layout
        BY <2>1, StatIs, StatUnchanged DEF PhaseInv
      <3>3. CASE layout.columns = 10
        <4>1. \A t : Zeros(t)
          BY <3>3 DEF Zeros
        <4> QED BY <2>1, <2>3, <3>1, <4>1 DEF StructInv
      <3>4. CASE layout.columns # 10
        <4>1. Clean' => ~gone'
          BY <3>2, <3>4 DEF Clean
        <4>2. ~gone' => ~gone /\ ~(threadsNum + 1 > CpuPieces)
          BY <2>1
        <4>3. ~(threadsNum + 1 > CpuPieces) => Len(rows) <= CpuPieces
          BY <2>3, <3>2
        <4>4. Clean' => Clean /\ Len(rows) <= CpuPieces
          BY <4>1, <4>2, <4>3 DEF Clean
        <4> QED BY <2>1, <2>3, <3>1, <4>4 DEF StructInv
      <3> QED BY <3>3, <3>4
    <2> QED BY <2>1, <2>2, <2>5, <2>6
  <1> QED BY <1>6, <1>7, <1>8, <1>9, <1>10, <1>11, <1>12, <1>13 DEF Next

LEMMA InvInit ==
  ASSUME Init
  PROVE  Inv
  <1>1. clock \in [Cpus -> Times] /\ seen = [now |-> clock, before |-> clock]
    BY ClocksAssumption DEF Init, Times
  <1>2. /\ layout \in [columns : Columns, busy : BusyCounters, long : BOOLEAN, rest : Rests]
        /\ layout.busy \in {accessorsCpu[j] : j \in 1 .. layout.columns}
    BY DEF Init
  <1>3. layout.columns \in 4 .. 10
        /\ layout.busy \in {"user", "nice", "system", "irq", "softirq", "steal"}
    BY <1>2, ColumnsAssumption, ClocksAssumption
  <1>4. layout \in [columns : 4 .. 10, busy : BusyCounters, long : BOOLEAN, rest : Rests]
    BY <1>2, ColumnsAssumption
  <1>5. plugged \in (SUBSET Cpus) \ {{}}
    BY CpusAssumption DEF Init
  <1>6. KernelInv
    BY <1>1, <1>2, <1>3, <1>4, <1>5 DEF KernelInv, LayoutOK
  <1>7. PhaseInv /\ ThreadsInv /\ MovesInv /\ FiguresInv
    BY DEF Init, ParserInit, PhaseInv, ThreadsInv, MovesInv, FiguresInv
  <1>8. StructInv /\ ~HasRows
    <2>1. cpuStats.t = [c \in Counter |-> 0]
      BY DEF Init, ParserInit
    <2>2. \A k \in layout.columns + 1 .. 10 : accessorsCpu[k] \in Counter
      <3>1. \A k \in layout.columns + 1 .. 10 : k \in 1 .. 10
        BY <1>3
      <3> QED BY <3>1, Zenon DEF Counter
    <2>3. StructInv
      BY <2>1, <2>2 DEF StructInv, Zeros
    <2>4. ~HasRows
      BY DEF Init, ParserInit, HasRows
    <2> QED BY <2>3, <2>4
  <1>9. RowsInv
    <2>1. reading = "no" /\ phase = "count"
      BY DEF Init, ParserInit
    <2> QED BY <1>8, <2>1 DEF RowsInv
  <1> QED BY <1>6, <1>7, <1>9 DEF Inv

LEMMA InvNext ==
  ASSUME Inv, [Next]_vars
  PROVE  Inv'
  BY KernelNext, PhaseNext, ThreadsNext, MovesNext, RowsNext, FiguresNext DEF Inv

\* In every state the program has got as far as its phase says, and the rows,
\* the counters kept from the pass before and the figures are those of the
\* lines they were read from.
THEOREM InvHolds == Spec => []Inv
  <1>1. Init => Inv
    BY InvInit
  <1>2. Inv /\ [Next]_vars => Inv'
    BY InvNext
  <1> QED BY <1>1, <1>2, PTL DEF Spec

-----------------------------------------------------------------------------
(***************************************************************************)
(* What follows from it                                                    *)
(***************************************************************************)

\* The row j of a pass that has succeeded.
LEMMA RowFacts ==
  ASSUME Inv, phase \in {"print", "shown"}, NEW j \in 1 .. threadsNum + 1
  PROVE  /\ j \in 1 .. Len(Stat) /\ rows[j].name = Stat[j].name
         /\ RowTells(rows[j], j, seen.now)
         /\ j > CpuPieces => Len(layout.rest[j - CpuPieces]) <= 10
  <1>1. HasRows /\ reading = "no" /\ threadsNum \in Nat /\ seen.now = clock
    BY DEF Inv, PhaseInv, HasRows
  <1>2. RowsTell /\ Len(rows) = threadsNum + 1
    BY <1>1 DEF Inv, RowsInv
  <1>3. Len(Stat) \in Nat
    BY StatType DEF Inv
  <1> QED BY <1>1, <1>2, <1>3 DEF RowsTell

\* The program starts with a row for each CPU; it takes none twice, and nothing
\* else for one but what is left of a line that has been cut and, in the place
\* of a CPU that has gone, a piece of at most ten numbers from behind the lines
\* of the CPUs.
THEOREM RowPerCpuHolds == Spec => []RowPerCpu
  <1>1. Inv => RowPerCpu
    <2> SUFFICES ASSUME Inv PROVE RowPerCpu
      OBVIOUS
    <2>1. phase = "sleep" /\ pass = 0 => threadsNum = Cardinality(plugged)
      BY DEF Inv, ThreadsInv
    <2>2. ASSUME phase = "print"
          PROVE  /\ rows[1].name = <<"cpu">>
                 /\ \A j, k \in 1 .. threadsNum + 1 :
                      IsCpu(rows[j]) /\ rows[j].name = rows[k].name => j = k
                 /\ \A j \in 1 .. threadsNum + 1 :
                      \/ IsCpu(rows[j])
                      \/ layout.long /\ j = 2
                      \/ j > CpuPieces /\ Len(layout.rest[j - CpuPieces]) <= 10
      <3>1. KernelInv /\ 1 \in 1 .. threadsNum + 1
        BY DEF Inv, PhaseInv
      <3>2. \A j \in 1 .. threadsNum + 1 :
              /\ j \in 1 .. Len(Stat) /\ rows[j].name = Stat[j].name
              /\ IsCpu(rows[j]) <=> IsCpu(Stat[j])
              /\ j > CpuPieces => Len(layout.rest[j - CpuPieces]) <= 10
        BY <2>2, RowFacts DEF IsCpu
      <3>3. rows[1].name = <<"cpu">>
        BY <3>1, <3>2, StatFacts
      <3>4. \A j, k \in 1 .. threadsNum + 1 :
              IsCpu(rows[j]) /\ rows[j].name = rows[k].name => j = k
        BY <3>1, <3>2, StatNames
      <3>5. \A j \in 1 .. threadsNum + 1 :
              \/ IsCpu(rows[j])
              \/ layout.long /\ j = 2
              \/ j > CpuPieces /\ Len(layout.rest[j - CpuPieces]) <= 10
        <4> TAKE j \in 1 .. threadsNum + 1
        <4>1. j <= CpuPieces \/ j > CpuPieces
          BY <3>1, <3>2, StatIs
        <4> QED BY <3>1, <3>2, <4>1, StatFacts
      <3> QED BY <3>3, <3>4, <3>5
    <2> QED BY <2>1, <2>2 DEF RowPerCpu
  <1> QED BY <1>1, InvHolds, PTL

\* Each row of a pass that succeeds and is a whole line holds the counters the
\* kernel prints for its CPU, and zeros for the others until a pass has left
\* the numbers of another line in the struct.
THEOREM ReadingExactHolds == Spec => []ReadingExact
  <1>1. Inv => ReadingExact
    <2> SUFFICES ASSUME Inv, phase = "print", NEW j \in 1 .. threadsNum + 1, Whole(j),
                        NEW k \in 1 .. 10
                 PROVE  /\ k <= layout.columns =>
                             rows[j].t[accessorsCpu[k]] = Line(rows[j].name).values[k]
                        /\ k > layout.columns /\ ~gone => rows[j].t[accessorsCpu[k]] = 0
      BY DEF ReadingExact
    <2>1. seen.now = clock /\ KernelInv /\ layout.columns \in 4 .. 10
      BY DEF Inv, PhaseInv, KernelInv
    <2>2. /\ rows[j].name \in LineNames
          /\ Shows(rows[j].t, Clock(rows[j].name, clock))
          /\ ~gone => Zeros(rows[j].t)
      BY <2>1, RowFacts DEF RowTells, Whole, Clean
    <2>3. ASSUME k <= layout.columns
          PROVE  rows[j].t[accessorsCpu[k]] = Line(rows[j].name).values[k]
      <3>1. k \in 1 .. layout.columns
        BY <2>1, <2>3
      <3> QED BY <2>1, <2>2, <3>1, LineFacts DEF Shows
    <2>4. k > layout.columns => k \in layout.columns + 1 .. 10
      BY <2>1
    <2> QED BY <2>2, <2>3, <2>4 DEF Zeros
  <1> QED BY <1>1, InvHolds, PTL

\* What a line tells has moved by what its CPU has done.
LEMMA ClockMoved ==
  ASSUME NEW old \in [Cpus -> Times], NEW new \in [Cpus -> Times], Moved(old, new),
         NEW name \in LineNames
  PROVE  /\ Clock(name, new).busy >= Clock(name, old).busy
         /\ (Clock(name, new).busy - Clock(name, old).busy)
              + ((Clock(name, new).idle + Clock(name, new).iowait)
                  - (Clock(name, old).idle + Clock(name, old).iowait)) < Word
  <1>1. PICK move \in [Cpus -> Moves] :
          \A c \in Cpus : \A k \in Clocks : new[c][k] = old[c][k] + move[c][k]
    BY DEF Moved
  <1>2. \A c \in Cpus : \A k \in Clocks :
          old[c][k] \in Int /\ new[c][k] \in Int /\ move[c][k] \in Int
    <2>1. \A c \in Cpus : old[c] \in Times /\ new[c] \in Times /\ move[c] \in [Clocks -> Int]
      BY ClocksAssumption
    <2> QED BY <2>1 DEF Times
  <1> DEFINE Added(k) == /\ Clock(name, old)[k] \in Int /\ Clock(name, move)[k] \in Int
                         /\ Clock(name, new)[k] = Clock(name, old)[k] + Clock(name, move)[k]
  <1>3. ASSUME NEW k \in Clocks PROVE Added(k)
    <2>1. CASE name = <<"cpu">>
      <3>1. \A at : Clock(name, at) = [l \in Clocks |-> Sum(at, l)]
        <4>1. Len(name) # 2
          BY <2>1
        <4> QED BY <4>1, Zenon DEF Clock, Sum
      <3>2. \A at : Clock(name, at)[k] = Sum(at, k)
        BY <3>1
      <3>3. /\ Sum(old, k) \in Int /\ Sum(new, k) \in Int /\ Sum(move, k) \in Int
            /\ Sum(new, k) = Sum(old, k) + Sum(move, k)
        <4>1. EachAdded(old, new, move, k)
          BY <1>1, <1>2 DEF EachAdded
        <4> QED BY <4>1, SumAdd
      <3> QED BY <3>2, <3>3
    <2>2. ASSUME NEW c \in Cpus, name = <<"cpu", c>> PROVE Added(k)
      <3>1. \A at : Clock(name, at) = at[c]
        <4>1. Len(name) = 2 /\ name[2] = c
          BY <2>2
        <4> QED BY <4>1, Zenon DEF Clock
      <3> QED BY <1>1, <1>2, <3>1
    <2> QED BY <2>1, <2>2 DEF LineNames
  <1>4. /\ Clock(name, move).busy >= 0
        /\ Clock(name, move).busy + (Clock(name, move).idle + Clock(name, move).iowait) < Word
    BY MovesAssumption, Zenon DEF LineNames
  <1>5. Added("busy") /\ Added("idle") /\ Added("iowait")
    BY <1>3 DEF Clocks
  <1> QED BY <1>4, <1>5, WordType

\* The figure of a row that can be compared.
LEMMA FigureFacts ==
  ASSUME Inv, phase \in {"print", "shown"}, NEW j \in 1 .. threadsNum + 1, Comparable(j)
  PROVE  LET busy == Since(rows[j].name, "busy")
             idle == IdleSince(rows[j].name)
         IN  /\ usage[j] = [num |-> busy, den |-> busy + idle]
             /\ busy \in Nat /\ idle \in Nat
  <1> DEFINE name == rows[j].name
             old == Clock(name, seen.before)
             new == Clock(name, seen.now)
  <1>1. Whole(j) /\ pass > 1 /\ prev[j].name = name /\ IdleSince(name) >= 0 /\ Clean
        /\ KernelInv
    BY DEF Comparable, Clean, Inv
  <1>2. name \in LineNames /\ Tells(rows[j].t, new)
    <2>1. RowTells(rows[j], j, seen.now)
      BY RowFacts
    <2> QED BY <1>1, <2>1, TellsOf DEF RowTells, Whole
  <1>3. PrevTells(seen.before) /\ Moved(seen.before, seen.now)
    BY <1>1 DEF Inv, RowsInv, MovesInv
  <1>4. Tells(prev[j].t, old)
    <2>1. RowTells(prev[j], j, seen.before) /\ IsCpu(prev[j]) /\ (layout.long => j # 1)
      BY <1>1, <1>3 DEF PrevTells, Whole, IsCpu
    <2> QED BY <1>1, <2>1, TellsOf DEF RowTells
  <1>5. seen.now \in [Cpus -> Times] /\ seen.before \in [Cpus -> Times] /\ LayoutOK
    BY DEF Inv, KernelInv
  <1> HIDE DEF name
  <1>6. old \in Times /\ new \in Times
    BY <1>2, <1>5, ClockType
  <1>7. /\ new.busy >= old.busy
        /\ (new.busy - old.busy) + ((new.idle + new.iowait) - (old.idle + old.iowait)) < Word
    BY <1>2, <1>3, <1>5, ClockMoved
  <1>8. Since(name, "busy") = new.busy - old.busy
        /\ IdleSince(name) = (new.idle - old.idle) + (new.iowait - old.iowait)
    BY DEF Since, IdleSince
  <1> HIDE DEF old, new
  <1>9. /\ new.busy \in Nat /\ old.busy \in Nat /\ new.idle \in Nat /\ old.idle \in Nat
        /\ new.iowait \in Nat /\ old.iowait \in Nat
    BY <1>6 DEF Times, Clocks
  <1>10. /\ (new.idle + new.iowait) - (old.idle + old.iowait) = IdleSince(name)
         /\ new.idle + new.iowait >= old.idle + old.iowait
         /\ Since(name, "busy") \in Nat /\ IdleSince(name) \in Nat
    BY <1>1, <1>7, <1>8, <1>9
  <1>11. UsagePercentage(prev[j].t, rows[j].t)
           = [num |-> Since(name, "busy"), den |-> Since(name, "busy") + IdleSince(name)]
    <2>1. UsagePercentage(prev[j].t, rows[j].t)
            = [num |-> new.busy - old.busy,
               den |-> (new.busy - old.busy)
                         + ((new.idle + new.iowait) - (old.idle + old.iowait))]
      BY <1>2, <1>4, <1>5, <1>6, <1>7, <1>10, UsageOf
    <2> QED BY <1>8, <1>10, <2>1
  <1>12. usage[j] = UsagePercentage(prev[j].t, rows[j].t)
    BY DEF Inv, FiguresInv
  <1> QED BY <1>10, <1>11, <1>12 DEF name

\* The figure computed for a CPU is the share of the time it was busy between
\* the two passes, whether or not the counters have wrapped round.
THEOREM FiguresTrueHolds == Spec => []FiguresTrue
  <1>1. Inv => FiguresTrue
    BY FigureFacts DEF FiguresTrue
  <1> QED BY <1>1, InvHolds, PTL

\* No bar is longer than the space between its brackets, and a bar that fills
\* it is that of a CPU that never idled.
THEOREM BarsFitHolds == Spec => []BarsFit
  <1>1. Inv => BarsFit
    <2> SUFFICES ASSUME Inv, phase = "shown", NEW j \in 1 .. threadsNum + 1, Comparable(j),
                        IsFinite(usage[j])
                 PROVE  /\ bars[j] \in 0 .. 10
                        /\ bars[j] = 10 => IdleSince(rows[j].name) = 0
      BY DEF BarsFit
    <2> DEFINE busy == Since(rows[j].name, "busy")
               idle == IdleSince(rows[j].name)
    <2>1. usage[j] = [num |-> busy, den |-> busy + idle] /\ busy \in Nat /\ idle \in Nat
      BY FigureFacts
    <2>2. bars[j] \in {(10 * usage[j].num) \div usage[j].den}
      BY DEF Inv, FiguresInv, BarSizes
    <2> HIDE DEF busy, idle
    <2>3. busy + idle # 0 /\ bars[j] = (10 * busy) \div (busy + idle)
      BY <2>1, <2>2 DEF IsFinite
    <2> DEFINE den == busy + idle
               bar == (10 * busy) \div den
    <2>4. den \in Nat \ {0} /\ 10 * busy \in Nat /\ 10 * busy <= 10 * den
      BY <2>1, <2>3
    <2>5. bar \in Nat /\ den * bar <= 10 * busy /\ 10 * busy < den * bar + den
      <3>1. \A a \in Nat, d \in Nat \ {0} :
              a \div d \in Nat /\ d * (a \div d) <= a /\ a < d * (a \div d) + d
        BY SMT
      <3> HIDE DEF den
      <3> QED BY <2>4, <3>1
    <2>6. bar <= 10
      <3> SUFFICES ASSUME bar >= 11 PROVE FALSE
        BY <2>5
      <3>1. den * bar >= den * 11
        <4> HIDE DEF den, bar
        <4> QED BY <2>4, <2>5
      <3> HIDE DEF den, bar
      <3> QED BY <2>4, <2>5, <3>1
    <2>7. bar = 10 => idle = 0
      <3> SUFFICES ASSUME bar = 10 PROVE idle = 0
        OBVIOUS
      <3>1. den * 10 <= 10 * busy
        BY <2>5
      <3> HIDE DEF bar
      <3> QED BY <2>1, <3>1
    <2> QED BY <2>3, <2>5, <2>6, <2>7 DEF idle
  <1> QED BY <1>1, InvHolds, PTL
=============================================================================
