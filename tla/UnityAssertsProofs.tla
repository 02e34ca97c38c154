------------------------- MODULE UnityAssertsProofs -------------------------
(***************************************************************************)
(* Proofs that the assertions of Unity hold exactly if what they say is    *)
(* true, for every width of an int and a UNITY_INT, all numbers, arrays,   *)
(* floats and strings, that the message of one that fails shows two        *)
(* different texts, and that patterns select the tests they name.          *)
(***************************************************************************)
EXTENDS UnityAsserts, FiniteSetTheorems, FunctionTheorems, SequenceTheorems,
        WellFoundedInduction, TLAPS

-----------------------------------------------------------------------------
(***************************************************************************)
(* Floats.  max is the largest number of the type.                         *)
(***************************************************************************)

Legal(max) == {NaN, Inf, -Inf} \cup -max .. max

Largest(type) == IF type = "float" THEN FloatMax ELSE DoubleMax
Parts(type) == IF type = "float" THEN Precision ELSE DoublePrecision

\* The arithmetic of both types.
PlusIn(max, x, y) ==
  IF isnan(x) \/ isnan(y) \/ (isinf(x) /\ y = -x) THEN NaN
  ELSE IF x + y > max THEN Inf ELSE IF x + y < -max THEN -Inf ELSE x + y

Tolerance(parts, x) == IF isnan(x) \/ isinf(x) THEN x ELSE x \div parts

WithinIn(max, delta, e, a) ==
  LET diff == Abs(PlusIn(max, a, Neg(e)))
  IN  \/ isinf(e) /\ isinf(a) /\ (e < 0) = (a < 0)
      \/ isnan(e) /\ isnan(a)
      \/ ~(isnan(diff) \/ isinf(diff) \/ Less(Abs(delta), diff))

LEMMA LargestType ==
  ASSUME NEW type
  PROVE  /\ Largest(type) \in Nat \ {0} /\ 2 * Largest(type) < Inf
         /\ Parts(type) \in Nat \ {0}
  BY FloatAssumption, DoubleAssumption DEF Largest, Parts

LEMMA FloatIs ==
  /\ \A x, y : Plus(x, y) = PlusIn(FloatMax, x, y)
  /\ \A x : TimesPrecision(x) = Tolerance(Precision, x)
  /\ \A delta, e, a : UnityFloatsWithin(delta, e, a) = WithinIn(FloatMax, delta, e, a)
  <1>1. \A x, y : Plus(x, y) = PlusIn(FloatMax, x, y)
    BY Zenon DEF Plus, PlusIn, Rounded
  <1>2. \A x : TimesPrecision(x) = Tolerance(Precision, x)
    BY Zenon DEF TimesPrecision, Tolerance
  <1>3. \A delta, e, a : UnityFloatsWithin(delta, e, a) = WithinIn(FloatMax, delta, e, a)
    BY <1>1, Zenon DEF UnityFloatsWithin, WithinIn
  <1> QED BY <1>1, <1>2, <1>3

LEMMA DoubleIs ==
  /\ \A x, y : Double!Plus(x, y) = PlusIn(DoubleMax, x, y)
  /\ \A x : Double!Abs(x) = Abs(x) /\ Double!Neg(x) = Neg(x)
  /\ \A x, y : Double!Less(x, y) = Less(x, y)
  /\ \A x : Double!TimesPrecision(x) = Tolerance(DoublePrecision, x)
  /\ \A delta, e, a : Double!UnityFloatsWithin(delta, e, a) = WithinIn(DoubleMax, delta, e, a)
  <1>0. /\ \A x : Double!isnan(x) = isnan(x) /\ Double!isinf(x) = isinf(x)
        /\ \A x, y : Double!Less(x, y) = Less(x, y)
    BY Zenon DEF Double!isnan, isnan, Double!isinf, isinf, Double!Less, Less
  <1>1. \A x, y : Double!Plus(x, y) = PlusIn(DoubleMax, x, y)
    BY Zenon DEF Double!Plus, PlusIn, Double!Rounded, Double!isnan, isnan, Double!isinf, isinf
  <1>2. \A x : Double!Abs(x) = Abs(x) /\ Double!Neg(x) = Neg(x)
    BY Zenon DEF Double!Abs, Abs, Double!Neg, Neg, Double!Less, Less, Double!isnan, isnan
  <1>3. \A x : Double!TimesPrecision(x) = Tolerance(DoublePrecision, x)
    BY Zenon DEF Double!TimesPrecision, Tolerance, Double!isnan, isnan, Double!isinf, isinf
  <1>4. \A delta, e, a : Double!UnityFloatsWithin(delta, e, a) = WithinIn(DoubleMax, delta, e, a)
    BY <1>0, <1>1, <1>2, Zenon DEF Double!UnityFloatsWithin, WithinIn
  <1> QED BY <1>0, <1>1, <1>2, <1>3, <1>4

\* How far apart two floats are, for the assertions.
Apart(max, e, a) ==
  CASE NaN \in {e, a} \/ (e \in {Inf, -Inf} /\ e = a) -> NaN
    [] NaN \notin {e, a} /\ e # a /\ {e, a} \cap {Inf, -Inf} # {} -> Inf
    [] {e, a} \cap {NaN, Inf, -Inf} = {} -> IF Distance(e, a) > max THEN Inf ELSE Distance(e, a)

LEMMA ApartIs ==
  ASSUME NEW max \in Nat \ {0}, 2 * max < Inf, NEW e \in Legal(max), NEW a \in Legal(max)
  PROVE  Abs(PlusIn(max, a, Neg(e))) = Apart(max, e, a)
  <1> USE FloatAssumption DEF Legal, Abs, PlusIn, Neg, Less, isnan, isinf, Distance
  <1>1. CASE NaN \in {e, a}
    BY <1>1 DEF Apart
  <1>2. CASE e \in {Inf, -Inf} /\ NaN # a
    <2>1. CASE e = a
      BY <1>2, <2>1 DEF Apart
    <2>2. CASE e # a
      <3>1. Apart(max, e, a) = Inf
        BY <1>2, <2>2 DEF Apart
      <3>2. PlusIn(max, a, Neg(e)) \in {Inf, -Inf}
        BY <1>2, <2>2
      <3> QED BY <3>1, <3>2
    <2> QED BY <2>1, <2>2
  <1>3. CASE a \in {Inf, -Inf} /\ e \in -max .. max
    <2>1. Apart(max, e, a) = Inf
      BY <1>3 DEF Apart
    <2>2. PlusIn(max, a, Neg(e)) \in {Inf, -Inf}
      BY <1>3
    <2> QED BY <2>1, <2>2
  <1>4. CASE a \in -max .. max /\ e \in -max .. max
    <2>1. Apart(max, e, a) = IF Distance(e, a) > max THEN Inf ELSE Distance(e, a)
      BY <1>4 DEF Apart
    <2>2. PlusIn(max, a, Neg(e))
            = IF Distance(e, a) > max THEN IF a > e THEN Inf ELSE -Inf ELSE a - e
      BY <1>4
    <2> QED BY <1>4, <2>1, <2>2
  <1> QED BY <1>1, <1>2, <1>3, <1>4

\* What an assertion of a tolerance comes to.
Near(max, delta, e, a) ==
  \/ e = a /\ e \in {NaN, Inf, -Inf}
  \/ /\ {e, a} \cap {NaN, Inf, -Inf} = {}
     /\ Distance(e, a) <= max
     /\ delta # NaN => Distance(e, a) <= Distance(0, delta)

LEMMA WithinNear ==
  ASSUME NEW max \in Nat \ {0}, 2 * max < Inf, NEW delta \in Legal(max),
         NEW e \in Legal(max), NEW a \in Legal(max)
  PROVE  WithinIn(max, delta, e, a) <=> Near(max, delta, e, a)
  <1> USE FloatAssumption DEF Legal, isnan, isinf
  <1> DEFINE diff == Abs(PlusIn(max, a, Neg(e)))
  <1>1. diff = Apart(max, e, a)
    BY ApartIs DEF Legal
  <1> HIDE DEF diff
  <1>2. WithinIn(max, delta, e, a)
          <=> \/ isinf(e) /\ isinf(a) /\ (e < 0) = (a < 0)
              \/ isnan(e) /\ isnan(a)
              \/ ~(isnan(diff) \/ isinf(diff) \/ Less(Abs(delta), diff))
    BY Zenon DEF WithinIn, diff
  <1>3. CASE {e, a} \cap {NaN, Inf, -Inf} # {}
    <2>1. diff \in {NaN, Inf}
      BY <1>1, <1>3 DEF Apart
    <2> QED BY <1>2, <1>3, <2>1 DEF Near
  <1>4. CASE {e, a} \cap {NaN, Inf, -Inf} = {}
    <2>1. diff = IF Distance(e, a) > max THEN Inf ELSE Distance(e, a)
      BY <1>1, <1>4 DEF Apart
    <2>2. Distance(e, a) \in Nat
      BY <1>4 DEF Distance
    <2>3. Abs(delta) = IF delta = NaN THEN NaN ELSE Distance(0, delta)
      BY DEF Abs, Less, Distance
    <2>4. delta # NaN => Distance(0, delta) \in Nat /\ Distance(0, delta) # NaN
      BY DEF Distance
    <2>5. ~isinf(e) /\ ~isnan(e) /\ (Near(max, delta, e, a) <=>
             Distance(e, a) <= max /\ (delta # NaN => Distance(e, a) <= Distance(0, delta)))
      BY <1>4 DEF Near
    <2>6. CASE Distance(e, a) > max
      BY <1>2, <2>1, <2>2, <2>5, <2>6
    <2>7. CASE Distance(e, a) <= max
      <3>1. diff \in Nat /\ ~isnan(diff) /\ ~isinf(diff) /\ diff = Distance(e, a)
        BY <2>1, <2>2, <2>7
      <3>2. Less(Abs(delta), diff) <=> delta # NaN /\ Distance(0, delta) < diff
        BY <2>3, <2>4, <3>1 DEF Less
      <3> QED BY <1>2, <2>2, <2>4, <2>5, <2>7, <3>1, <3>2
    <2> QED BY <2>2, <2>6, <2>7
  <1> QED BY <1>3, <1>4

\* The values asserted about are those of the type.
Values == {NaN, Inf, -Inf} \cup ((-FloatMax .. FloatMax) \cap (-DoubleMax .. DoubleMax))

LEMMA ValuesLegal ==
  ASSUME NEW type
  PROVE  /\ Values \subseteq Legal(Largest(type))
         /\ Floats \subseteq Values /\ FloatDeltas \subseteq Values
         /\ FloatArrays \subseteq [1 .. 2 -> Values]
  BY FloatsAssumption DEF Values, Legal, Largest

\* Quotient and remainder.
LEMMA DivideIs ==
  ASSUME NEW n \in Int, NEW m \in Nat \ {0}
  PROVE  /\ n \div m \in Int /\ n % m \in 0 .. m - 1
         /\ n = m * (n \div m) + (n % m)
  BY SMT

\* The tolerance of the EQUAL assertions is no more than the number.
LEMMA ToleranceLegal ==
  ASSUME NEW max \in Nat \ {0}, 2 * max < Inf, NEW parts \in Nat \ {0}, NEW x \in Legal(max)
  PROVE  Tolerance(parts, x) \in Legal(max)
  <1>1. CASE x \in {NaN, Inf, -Inf}
    BY <1>1 DEF Tolerance, isnan, isinf, Legal
  <1>2. CASE x \in -max .. max
    <2>1. x \div parts \in -max .. max
      <3>1. x \in Int /\ parts \in Int /\ parts >= 1
        BY <1>2
      <3> DEFINE q == x \div parts
                 r == x % parts
      <3>3. q \in Int /\ r \in 0 .. parts - 1 /\ x = parts * q + r
        BY <3>1, DivideIs
      <3> HIDE DEF q, r
      <3>4. CASE q >= 0
        <4>1. parts * q >= q
          BY <3>1, <3>3, <3>4
        <4> QED BY <1>2, <3>1, <3>3, <3>4, <4>1 DEF q
      <3>5. CASE q < 0
        <4>1. parts * q + parts - 1 <= q
          <5>1. (parts - 1) * (q + 1) <= 0
            BY <3>1, <3>3, <3>5
          <5>2. (parts - 1) * (q + 1) = parts * q + parts - q - 1
            BY <3>1, <3>3
          <5> QED BY <3>1, <3>3, <5>1, <5>2
        <4> QED BY <1>2, <3>1, <3>3, <3>5, <4>1 DEF q
      <3> QED BY <3>3, <3>4, <3>5
    <2>2. x \in {NaN, Inf, -Inf} \/ Tolerance(parts, x) = x \div parts
      BY DEF Tolerance, isnan, isinf
    <2>3. x \notin {NaN, Inf, -Inf}
      BY <1>2, FloatAssumption
    <2> QED BY <2>1, <2>2, <2>3 DEF Legal
  <1> QED BY <1>1, <1>2 DEF Legal

LEMMA WithinIs ==
  ASSUME NEW type \in Types, NEW delta \in Legal(Largest(type)),
         NEW e \in Legal(Largest(type)), NEW a \in Legal(Largest(type))
  PROVE  Within(type, delta, e, a) <=> Near(Largest(type), delta, e, a)
  <1>1. WithinIn(Largest(type), delta, e, a) <=> Near(Largest(type), delta, e, a)
    BY LargestType, WithinNear
  <1>2. CASE type = "float"
    <2>1. Within(type, delta, e, a) <=> WithinIn(FloatMax, delta, e, a)
      BY <1>2, FloatIs, Zenon DEF Within, UnityAssertFloatsWithin
    <2> QED BY <1>1, <1>2, <2>1 DEF Largest
  <1>3. CASE type = "double"
    <2>1. Within(type, delta, e, a) <=> WithinIn(DoubleMax, delta, e, a)
      BY <1>3, DoubleIs DEF Within, UnityAssertDoublesWithin, UnityDoublesWithin
    <2> QED BY <1>1, <1>3, <2>1 DEF Largest
  <1> QED BY <1>2, <1>3 DEF Types

LEMMA EqualIs ==
  ASSUME NEW type \in Types, NEW e \in Legal(Largest(type)), NEW a \in Legal(Largest(type))
  PROVE  Equal(type, e, a) <=> Near(Largest(type), Tolerance(Parts(type), e), e, a)
  <1> DEFINE t == Tolerance(Parts(type), e)
  <1>1. t \in Legal(Largest(type))
    BY LargestType, ToleranceLegal
  <1>2. Within(type, t, e, a) <=> Near(Largest(type), t, e, a)
    <2> HIDE DEF t
    <2> QED BY <1>1, WithinIs
  <1>3. CASE type = "float"
    <2>1. TimesPrecision(e) = t
      BY <1>3, FloatIs DEF Parts
    <2>2. Equal(type, e, a) <=> Within(type, TimesPrecision(e), e, a)
      BY <1>3, Zenon DEF Equal, Within, AssertEqualFloat
    <2> QED BY <1>2, <2>1, <2>2
  <1>4. CASE type = "double"
    <2>1. Double!TimesPrecision(e) = t
      BY <1>4, DoubleIs DEF Parts
    <2>2. Equal(type, e, a) <=> Within(type, Double!TimesPrecision(e), e, a)
      BY <1>4 DEF Equal, Within, AssertEqualDouble, Double!AssertEqualFloat,
              Double!UnityAssertFloatsWithin, UnityAssertDoublesWithin, UnityDoublesWithin
    <2> QED BY <1>2, <2>1, <2>2
  <1> QED BY <1>3, <1>4 DEF Types

\* The same comparison for both types.
LEMMA InOrderIs ==
  ASSUME NEW type \in Types, NEW t \in Legal(Largest(type)), NEW a \in Legal(Largest(type)),
         NEW compare
  PROVE  InOrder(type, t, a, compare) <=>
           \/ /\ "smaller" \in compare => Less(a, t)
              /\ "greater" \in compare => Less(t, a)
           \/ "equal" \in compare /\ Equal(type, t, a)
  <1>1. CASE type = "float"
    <2>1. Equal(type, t, a) <=> UnityFloatsWithin(TimesPrecision(t), t, a)
      BY <1>1, Zenon DEF Equal, AssertEqualFloat, UnityAssertFloatsWithin
    <2>2. InOrder(type, t, a, compare) <=> UnityAssertGreaterOrLessFloat(t, a, compare)
      BY <1>1, Zenon DEF InOrder
    <2> QED BY <2>1, <2>2 DEF UnityAssertGreaterOrLessFloat
  <1>2. CASE type = "double"
    <2>1. Equal(type, t, a) <=> Double!UnityFloatsWithin(Double!TimesPrecision(t), t, a)
      BY <1>2 DEF Equal, AssertEqualDouble, Double!AssertEqualFloat,
              Double!UnityAssertFloatsWithin
    <2>2. InOrder(type, t, a, compare) <=> Double!UnityAssertGreaterOrLessFloat(t, a, compare)
      BY <1>2 DEF InOrder, UnityAssertGreaterOrLessDouble
    <2> QED BY <2>1, <2>2, DoubleIs DEF Double!UnityAssertGreaterOrLessFloat
  <1> QED BY <1>1, <1>2 DEF Types

\* Numbers have the traits of numbers.
LEMMA SpecialNumber ==
  ASSUME NEW type \in Types, NEW x, x \notin {NaN, Inf, -Inf}, NEW trait \in Traits
  PROVE  Special(type, x, trait, TRUE) = (trait = "det")
  <1>1. ~isinf(x) /\ ~isnan(x)
    BY DEF isinf, isnan
  <1>2. trait \in {"inf", "neg_inf", "nan", "det"}
    BY DEF Traits
  <1>3. CASE type = "float"
    <2>1. Special(type, x, trait, TRUE) = UnityAssertFloatSpecial(x, trait, TRUE)
      BY <1>3, Zenon DEF Special
    <2> QED BY <1>1, <1>2, <2>1 DEF UnityAssertFloatSpecial
  <1>4. CASE type = "double"
    <2>1. Special(type, x, trait, TRUE) = Double!UnityAssertFloatSpecial(x, trait, TRUE)
      BY <1>4, SMT DEF Special, UnityAssertDoubleSpecial
    <2>2. ~Double!isinf(x) /\ ~Double!isnan(x)
      BY <1>1, Zenon DEF Double!isinf, isinf, Double!isnan, isnan
    <2> QED BY <1>2, <2>1, <2>2 DEF Double!UnityAssertFloatSpecial
  <1> QED BY <1>3, <1>4 DEF Types

\* With no tolerance of its own an array assertion compares as EQUAL does.
LEMMA NearDouble ==
  ASSUME NEW max \in Nat \ {0}, 2 * max < Inf, NEW t \in Legal(max),
         NEW e \in Legal(max), NEW a \in Legal(max)
  PROVE  /\ PlusIn(max, Abs(0), Abs(t)) \in Legal(max)
         /\ Near(max, PlusIn(max, Abs(0), Abs(t)), e, a) <=> Near(max, t, e, a)
  <1> USE FloatAssumption
  <1> DEFINE s == PlusIn(max, Abs(0), Abs(t))
  <1>1. Abs(0) = 0 /\ 0 # NaN /\ 0 \notin {Inf, -Inf}
    BY DEF Abs, Less, isnan
  <1>2. CASE t = NaN
    BY <1>1, <1>2 DEF PlusIn, Abs, Less, isnan, Legal
  <1>3. CASE t # NaN
    <2>1. Abs(t) = Distance(0, t) /\ Abs(t) \in 0 .. max \cup {Inf} /\ Abs(t) \in Int
      BY <1>3 DEF Abs, Less, isnan, Legal, Distance
    <2>2. s = Abs(t)
      BY <1>1, <2>1 DEF PlusIn, isnan, isinf
    <2>3. Distance(0, Abs(t)) = Distance(0, t)
      BY <2>1 DEF Distance
    <2>4. s \in Legal(max) /\ s # NaN /\ Distance(0, s) = Distance(0, t)
      BY <2>1, <2>2, <2>3 DEF Legal
    <2> HIDE DEF s
    <2>5. Near(max, s, e, a) <=> Near(max, t, e, a)
      BY <1>3, <2>4 DEF Near
    <2> QED BY <2>4, <2>5 DEF s
  <1> QED BY <1>2, <1>3

LEMMA WithinArrayIs ==
  ASSUME NEW type \in Types, NEW mem, NEW e, NEW a, NEW num, NEW flags,
         NEW delta
  PROVE  WithinArray(type, mem, delta, e, a, num, flags) <=>
           /\ num > 0
           /\ ~isnan(delta)
           /\ \/ isinf(delta)
              \/ ArraysHold(e, a, num,
                   LAMBDA i : LET x == mem[e][Walk(i, flags) + 1]
                              IN  Within(type, PlusIn(Largest(type), Abs(delta),
                                                 Abs(Tolerance(Parts(type), x))),
                                         x, mem[a][i + 1]))
  <1>1. CASE type = "float"
    <2>1. WithinArray(type, mem, delta, e, a, num, flags)
            <=> UnityAssertWithinFloatArray(mem, delta, e, a, num, flags)
      BY <1>1, Zenon DEF WithinArray
    <2>2. \A d, x, y : Within(type, d, x, y) <=> UnityFloatsWithin(d, x, y)
      BY <1>1, Zenon DEF Within, UnityAssertFloatsWithin
    <2>3. \A d, x : PlusIn(Largest(type), Abs(d), Abs(Tolerance(Parts(type), x)))
                      = Plus(Abs(d), Abs(TimesPrecision(x)))
      BY <1>1, FloatIs, Zenon DEF Largest, Parts
    <2> QED BY <2>1, <2>2, <2>3 DEF UnityAssertWithinFloatArray, ArraysHold
  <1>2. CASE type = "double"
    <2>1. WithinArray(type, mem, delta, e, a, num, flags)
            <=> Double!UnityAssertWithinFloatArray(mem, delta, e, a, num, flags)
      BY <1>2 DEF WithinArray, UnityAssertWithinDoubleArray
    <2>2. \A d, x, y : Within(type, d, x, y) <=> Double!UnityFloatsWithin(d, x, y)
      BY <1>2 DEF Within, UnityAssertDoublesWithin, UnityDoublesWithin
    <2>3. \A d, x : PlusIn(Largest(type), Abs(d), Abs(Tolerance(Parts(type), x)))
                      = Double!Plus(Double!Abs(d), Double!Abs(Double!TimesPrecision(x)))
      BY <1>2, DoubleIs DEF Largest, Parts
    <2>4. Double!isnan(delta) = isnan(delta) /\ Double!isinf(delta) = isinf(delta)
      BY Zenon DEF Double!isinf, isinf, Double!isnan, isnan
    <2> QED BY <2>1, <2>2, <2>3, <2>4
            DEF Double!UnityAssertWithinFloatArray, Double!ArraysHold, ArraysHold,
                Double!Walk, Walk, Double!NULL, NULL
  <1> QED BY <1>1, <1>2 DEF Types

LEMMA FloatArrayIs ==
  ASSUME NEW type \in Types, NEW mem \in [1 .. 2 -> FloatArrays], NEW p \in Pointers,
         NEW num \in 0 .. 2
  PROVE  WithinArray(type, mem, 0, p[1], p[2], num, "array") <=>
           /\ num > 0
           /\ \/ p[1] = p[2]
              \/ /\ NULL \notin {p[1], p[2]}
                 /\ \A i \in 1 .. num : Equal(type, mem[1][i], mem[2][i])
  <1> DEFINE max == Largest(type)
             Delta(x) == PlusIn(max, Abs(0), Abs(Tolerance(Parts(type), x)))
  <1>1. max \in Nat \ {0} /\ 2 * max < Inf /\ Parts(type) \in Nat \ {0}
    BY LargestType
  <1>2. \A k \in 1 .. 2, i \in 1 .. 2 : mem[k][i] \in Legal(max)
    BY ValuesLegal
  <1> HIDE DEF max
  <1>3. ASSUME NEW x \in Legal(max), NEW y \in Legal(max)
        PROVE  Within(type, Delta(x), x, y) <=> Equal(type, x, y)
    <2>1. Tolerance(Parts(type), x) \in Legal(max)
      BY <1>1, ToleranceLegal
    <2>2. /\ Delta(x) \in Legal(max)
          /\ Near(max, Delta(x), x, y) <=> Near(max, Tolerance(Parts(type), x), x, y)
      BY <1>1, <2>1, NearDouble
    <2> HIDE DEF Delta
    <2>3. Within(type, Delta(x), x, y) <=> Near(max, Delta(x), x, y)
      BY <2>2, WithinIs DEF max
    <2>4. Equal(type, x, y) <=> Near(max, Tolerance(Parts(type), x), x, y)
      BY EqualIs DEF max
    <2> QED BY <2>2, <2>3, <2>4
  <1>4. ~isnan(0) /\ ~isinf(0)
    BY FloatAssumption DEF isnan, isinf
  <1>5. WithinArray(type, mem, 0, p[1], p[2], num, "array") <=>
          /\ num > 0
          /\ \/ p[1] = p[2]
             \/ /\ NULL \notin {p[1], p[2]}
                /\ \A i \in 0 .. num - 1 :
                     Within(type, Delta(mem[p[1]][i + 1]), mem[p[1]][i + 1], mem[p[2]][i + 1])
    BY <1>4, WithinArrayIs DEF ArraysHold, Walk, max
  <1> HIDE DEF Delta
  <1>6. CASE p[1] = p[2] \/ NULL \in {p[1], p[2]}
    BY <1>5, <1>6
  <1>7. CASE p[1] = 1 /\ p[2] = 2
    <2>1. \A i \in 0 .. num - 1 : i + 1 \in 1 .. num /\ i + 1 \in 1 .. 2
      OBVIOUS
    <2>2. \A i \in 1 .. num : i - 1 \in 0 .. num - 1 /\ (i - 1) + 1 = i
      OBVIOUS
    <2>3. \A i \in 1 .. num :
            Within(type, Delta(mem[1][i]), mem[1][i], mem[2][i])
              <=> Equal(type, mem[1][i], mem[2][i])
      BY <1>2, <1>3
    <2>4. (\A i \in 0 .. num - 1 :
             Within(type, Delta(mem[1][i + 1]), mem[1][i + 1], mem[2][i + 1]))
           <=> \A i \in 1 .. num : Equal(type, mem[1][i], mem[2][i])
      BY <2>1, <2>2, <2>3
    <2> QED BY <1>5, <1>7, <2>4 DEF NULL
  <1> QED BY <1>6, <1>7 DEF Pointers, NULL

-----------------------------------------------------------------------------

\* Which assertion a step is, and how its call is named.
LEMMA CallIs ==
  ASSUME Next
  PROVE  \/ Continue /\ call' = NoCall
         \/ AssertBits /\ call'.fn = "Bits"
         \/ AssertEqualNumber /\ call'.fn = "EqualNumber"
         \/ AssertOrder /\ call'.fn = "Order"
         \/ AssertWithin /\ call'.fn = "Within"
         \/ AssertEqualIntArray /\ call'.fn = "EqualIntArray"
         \/ AssertEachEqual /\ call'.fn = "EachEqual"
         \/ AssertNumbersArrayWithin /\ call'.fn = "ArrayWithin"
         \/ AssertEqualMemory /\ call'.fn = "Memory"
         \/ AssertFloatsWithin /\ call'.fn \in {"FloatsWithin", "FloatsNotWithin"}
         \/ AssertEqualFloats /\ call'.fn \in {"EqualFloat", "NotEqualFloat"}
         \/ AssertFloatArray /\ call'.fn = "FloatArray"
         \/ AssertFloatOrder /\ call'.fn = "FloatOrder"
         \/ AssertFloatSpecial /\ call'.fn = "FloatSpecial"
         \/ ShowFloat /\ call'.fn = "ShowFloat"
         \/ AssertEqualString /\ call'.fn = "String"
         \/ AssertEqualStringLen /\ call'.fn = "StringLen"
         \/ AssertEqualStringArray /\ call'.fn = "StringArray"
         \/ Select /\ call'.fn = "Select"
  <1> USE DEF Make
  <1>1. Continue => call' = NoCall
    BY DEF Continue
  <1>2. AssertBits => call'.fn = "Bits"
    BY DEF AssertBits
  <1>3. AssertEqualNumber => call'.fn = "EqualNumber"
    BY DEF AssertEqualNumber
  <1>4. AssertOrder => call'.fn = "Order"
    BY DEF AssertOrder
  <1>5. AssertWithin => call'.fn = "Within"
    BY DEF AssertWithin
  <1>6. AssertEqualIntArray => call'.fn = "EqualIntArray"
    <2> HIDE DEF Make
    <2>1. AssertEqualIntArray =>
            \E mem, p, num, style, holds, texts :
              Make([fn |-> "EqualIntArray", mem |-> mem, p |-> p, num |-> num, style |-> style],
                   holds, texts)
      BY Zenon DEF AssertEqualIntArray
    <2> QED BY <2>1 DEF Make
  <1>7. AssertEachEqual => call'.fn = "EachEqual"
    BY DEF AssertEachEqual
  <1>8. AssertNumbersArrayWithin => call'.fn = "ArrayWithin"
    BY DEF AssertNumbersArrayWithin
  <1>9. AssertEqualMemory => call'.fn = "Memory"
    BY DEF AssertEqualMemory
  <1>10. AssertFloatsWithin => call'.fn \in {"FloatsWithin", "FloatsNotWithin"}
    BY DEF AssertFloatsWithin
  <1>11. AssertEqualFloats => call'.fn \in {"EqualFloat", "NotEqualFloat"}
    BY DEF AssertEqualFloats
  <1>12. AssertFloatArray => call'.fn = "FloatArray"
    BY DEF AssertFloatArray
  <1>13. AssertFloatOrder => call'.fn = "FloatOrder"
    BY DEF AssertFloatOrder
  <1>14. AssertFloatSpecial => call'.fn = "FloatSpecial"
    BY DEF AssertFloatSpecial
  <1>15. ShowFloat => call'.fn = "ShowFloat"
    BY DEF ShowFloat
  <1>16. AssertEqualString => call'.fn = "String"
    BY DEF AssertEqualString
  <1>17. AssertEqualStringLen => call'.fn = "StringLen"
    BY DEF AssertEqualStringLen
  <1>18. AssertEqualStringArray => call'.fn = "StringArray"
    BY DEF AssertEqualStringArray
  <1>19. Select => call'.fn = "Select"
    BY DEF Select
  <1> HIDE DEF Make
  <1> QED
    BY <1>1, <1>2, <1>3, <1>4, <1>5, <1>6, <1>7, <1>8, <1>9, <1>10, <1>11, <1>12, <1>13,
       <1>14, <1>15, <1>16, <1>17, <1>18, <1>19
       DEF Next, IntegerAssert, FloatAssert, StringAssert

-----------------------------------------------------------------------------

LEMMA FloatsBoolean ==
  ASSUME NEW type, NEW mem, NEW delta, NEW e, NEW a, NEW num, NEW flags
  PROVE  /\ Within(type, delta, e, a) \in BOOLEAN
         /\ Equal(type, e, a) \in BOOLEAN
         /\ WithinArray(type, mem, delta, e, a, num, flags) \in BOOLEAN
  <1>1. \A max, d : WithinIn(max, d, e, a) \in BOOLEAN
    BY Zenon DEF WithinIn
  <1>2. \A d : UnityFloatsWithin(d, e, a) \in BOOLEAN /\ Double!UnityFloatsWithin(d, e, a) \in BOOLEAN
    BY <1>1, FloatIs, DoubleIs
  <1>3. Within(type, delta, e, a) \in BOOLEAN
    BY <1>2 DEF Within, UnityAssertFloatsWithin, UnityAssertDoublesWithin, UnityDoublesWithin
  <1>4. Equal(type, e, a) \in BOOLEAN
    BY <1>2 DEF Equal, AssertEqualFloat, AssertEqualDouble, UnityAssertFloatsWithin,
            Double!AssertEqualFloat, Double!UnityAssertFloatsWithin
  <1>5. UnityAssertWithinFloatArray(mem, delta, e, a, num, flags) \in BOOLEAN
    BY Zenon DEF UnityAssertWithinFloatArray
  <1>6. UnityAssertWithinDoubleArray(mem, delta, e, a, num, flags) \in BOOLEAN
    BY DEF UnityAssertWithinDoubleArray, Double!UnityAssertWithinFloatArray
  <1> QED BY <1>3, <1>4, <1>5, <1>6 DEF WithinArray

\* What is asserted equal has the same traits, and is both at least and at most.
LEMMA EqualTells ==
  ASSUME NEW type \in Types, NEW e \in Legal(Largest(type)), NEW a \in Legal(Largest(type))
  PROVE  /\ Equal(type, e, a) =>
              \A trait \in Traits : Special(type, e, trait, TRUE) = Special(type, a, trait, TRUE)
         /\ Equal(type, e, a) <=>
              \A side \in {"smaller", "greater"} : InOrder(type, e, a, {side, "equal"})
  <1> DEFINE near == Near(Largest(type), Tolerance(Parts(type), e), e, a)
  <1>1. Equal(type, e, a) <=> near
    BY EqualIs
  <1>2. near => e = a \/ {e, a} \cap {NaN, Inf, -Inf} = {}
    BY DEF Near
  <1> HIDE DEF near
  <1>3. ASSUME {e, a} \cap {NaN, Inf, -Inf} = {}, NEW trait \in Traits
        PROVE  Special(type, e, trait, TRUE) = Special(type, a, trait, TRUE)
    BY <1>3, SpecialNumber
  <1>4. InOrder(type, e, a, {"smaller", "equal"}) <=> Less(a, e) \/ Equal(type, e, a)
    BY InOrderIs
  <1>5. InOrder(type, e, a, {"greater", "equal"}) <=> Less(e, a) \/ Equal(type, e, a)
    BY InOrderIs
  <1>6. ~(Less(a, e) /\ Less(e, a))
    BY LargestType, FloatAssumption DEF Less, Legal
  <1> QED BY <1>1, <1>2, <1>3, <1>4, <1>5, <1>6

\* The assertions about floats, one by one.
LEMMA FloatsAgreeStep ==
  ASSUME Next
  PROVE  FloatsAgree'
  <1> USE DEF Make
  <1>1. CASE AssertFloatsWithin /\ call'.fn \in {"FloatsWithin", "FloatsNotWithin"}
    <2>1. CASE call'.fn = "FloatsNotWithin"
      BY <2>1 DEF FloatsAgree
    <2>2. CASE call'.fn = "FloatsWithin"
      <3>1. PICK type \in Types, delta \in FloatDeltas, e \in Floats, a \in Floats :
              /\ call' = [fn |-> "FloatsWithin", type |-> type, delta |-> delta,
                          expected |-> e, actual |-> a]
              /\ passed' = Within(type, delta, e, a)
        BY <1>1, <2>2 DEF AssertFloatsWithin
      <3>2. /\ delta \in Legal(Largest(type)) /\ e \in Legal(Largest(type))
            /\ a \in Legal(Largest(type))
        BY ValuesLegal
      <3>3. passed' \in BOOLEAN /\ (passed' <=> Near(Largest(type), delta, e, a))
        BY <3>1, <3>2, WithinIs, FloatsBoolean
      <3>4. {delta, e, a} \cap {NaN, Inf, -Inf} = {} =>
              passed' = (Distance(e, a) <= Distance(0, delta) /\ Distance(e, a) <= Largest(type))
        BY <3>3 DEF Near
      <3> QED BY <3>1, <3>4 DEF FloatsAgree, Largest
    <2> QED BY <1>1, <2>1, <2>2
  <1>2. CASE AssertEqualFloats /\ call'.fn \in {"EqualFloat", "NotEqualFloat"}
    <2>1. CASE call'.fn = "NotEqualFloat"
      BY <2>1 DEF FloatsAgree
    <2>2. CASE call'.fn = "EqualFloat"
      <3>1. PICK type \in Types, e \in Floats, a \in Floats :
              /\ call' = [fn |-> "EqualFloat", type |-> type, expected |-> e, actual |-> a]
              /\ passed' = Equal(type, e, a)
        BY <1>2, <2>2 DEF AssertEqualFloats
      <3>2. e \in Legal(Largest(type)) /\ a \in Legal(Largest(type))
        BY ValuesLegal
      <3>3. passed' \in BOOLEAN
        BY <3>1, FloatsBoolean
      <3>4. passed' => \A trait \in Traits : Special(type, e, trait, TRUE) = Special(type, a, trait, TRUE)
        BY <3>1, <3>2, EqualTells
      <3>5. passed' = \A side \in {"smaller", "greater"} : InOrder(type, e, a, {side, "equal"})
        BY <3>1, <3>2, <3>3, EqualTells
      <3> QED BY <3>1, <3>4, <3>5 DEF FloatsAgree
    <2> QED BY <1>2, <2>1, <2>2
  <1>3. CASE AssertFloatArray /\ call'.fn = "FloatArray"
    <2>1. PICK type \in Types, mem \in [1 .. 2 -> FloatArrays], p \in Pointers,
               delta \in FloatDeltas, num \in 0 .. 2, flags \in {"array", "value"} :
            /\ call' = [fn |-> "FloatArray", type |-> type, mem |-> mem, p |-> p,
                        delta |-> delta, num |-> num, flags |-> flags]
            /\ passed' = WithinArray(type, mem, delta, p[1], p[2], num, flags)
      BY <1>3 DEF AssertFloatArray
    <2>2. CASE delta = 0 /\ flags = "array"
      <3>1. passed' \in BOOLEAN
        BY <2>1, FloatsBoolean
      <3>2. passed' = /\ num > 0
                      /\ \/ p[1] = p[2]
                         \/ /\ NULL \notin {p[1], p[2]}
                            /\ \A i \in 1 .. num : Equal(type, mem[1][i], mem[2][i])
        BY <2>1, <2>2, <3>1, FloatArrayIs
      <3> QED BY <2>1, <3>2 DEF FloatsAgree, Elementwise
    <2>3. CASE ~(delta = 0 /\ flags = "array")
      BY <2>1, <2>3 DEF FloatsAgree
    <2> QED BY <2>2, <2>3
  <1>4. CASE call'.fn \notin {"EqualFloat", "FloatArray", "FloatsWithin"}
    BY <1>4 DEF FloatsAgree
  <1> HIDE DEF Make
  <1> QED BY <1>1, <1>2, <1>3, <1>4, CallIs DEF NoCall

\* Equality, order, arrays and tolerances of floats and doubles agree with each
\* other and with the distance, for every precision and range: FloatsAgree.
THEOREM FloatsAgreeHolds == Spec => []FloatsAgree
  <1>1. Init => FloatsAgree
    BY DEF Init, NoCall, FloatsAgree
  <1>2. FloatsAgree /\ [Next]_vars => FloatsAgree'
    <2>1. FloatsAgree /\ UNCHANGED vars => FloatsAgree'
      <3> SUFFICES ASSUME FloatsAgree, UNCHANGED vars PROVE FloatsAgree'
        OBVIOUS
      <3>1. call' = call /\ passed' = passed
        BY DEF vars
      <3> QED BY <3>1, Zenon DEF FloatsAgree, Elementwise
    <2> QED BY <2>1, FloatsAgreeStep
  <1> QED BY <1>1, <1>2, PTL DEF Spec

-----------------------------------------------------------------------------
(***************************************************************************)
(* Integers.  A power of two counts the sets of bits, which is all that is *)
(* used of powers.                                                         *)
(***************************************************************************)

LEMMA PowerType ==
  ASSUME NEW n \in Nat
  PROVE  2^n \in Nat \ {0}
  <1> DEFINE Bits == 1 .. n
  <1>1. IsFiniteSet(Bits) /\ Cardinality(Bits) = n
    BY FS_Interval
  <1> HIDE DEF Bits
  <1>2. IsFiniteSet(SUBSET Bits) /\ Cardinality(SUBSET Bits) = 2^n
    BY <1>1, FS_SUBSET
  <1> QED BY <1>2, FS_EmptySet, FS_CardinalityType

\* A set of m + n bits is one of the first m and one of the other n.
LEMMA PowerSum ==
  ASSUME NEW m \in Nat, NEW n \in Nat
  PROVE  2^(m + n) = 2^m * 2^n
  <1> DEFINE A == 1 .. m
             B == m + 1 .. m + n
             C == 1 .. m + n
             f == [p \in (SUBSET A) \X (SUBSET B) |-> p[1] \cup p[2]]
  <1>1. /\ IsFiniteSet(A) /\ Cardinality(A) = m
        /\ IsFiniteSet(B) /\ Cardinality(B) = n
        /\ IsFiniteSet(C) /\ Cardinality(C) = m + n
    <2>1. 1 \in Int /\ m \in Int /\ m + 1 \in Int /\ m + n \in Int
      OBVIOUS
    <2>2. IsFiniteSet(A) /\ Cardinality(A) = m
      BY <2>1, FS_Interval
    <2>3. IsFiniteSet(B) /\ Cardinality(B) = IF m + 1 > m + n THEN 0 ELSE (m + n) - (m + 1) + 1
      BY <2>1, FS_Interval, Zenon
    <2>4. IsFiniteSet(C) /\ Cardinality(C) = IF 1 > m + n THEN 0 ELSE (m + n) - 1 + 1
      BY <2>1, FS_Interval, Zenon
    <2> HIDE DEF A, B, C
    <2> QED BY <2>2, <2>3, <2>4
  <1>2. A \cup B = C /\ A \cap B = {}
    OBVIOUS
  <1> HIDE DEF A, B, C
  <1>3. /\ IsFiniteSet(SUBSET A) /\ Cardinality(SUBSET A) = 2^m
        /\ IsFiniteSet(SUBSET B) /\ Cardinality(SUBSET B) = 2^n
        /\ IsFiniteSet(SUBSET C) /\ Cardinality(SUBSET C) = 2^(m + n)
    BY <1>1, FS_SUBSET
  <1>4. /\ IsFiniteSet((SUBSET A) \X (SUBSET B))
        /\ Cardinality((SUBSET A) \X (SUBSET B)) = 2^m * 2^n
    BY <1>3, FS_Product, ZenonT(40)
  <1>5. f \in Bijection((SUBSET A) \X (SUBSET B), SUBSET C)
    <2>1. f \in [(SUBSET A) \X (SUBSET B) -> SUBSET C]
      BY <1>2
    <2>2. \A p, q \in (SUBSET A) \X (SUBSET B) : f[p] = f[q] => p = q
      <3> SUFFICES ASSUME NEW p \in (SUBSET A) \X (SUBSET B), NEW q \in (SUBSET A) \X (SUBSET B),
                          f[p] = f[q]
                   PROVE  p = q
        OBVIOUS
      <3>1. p[1] \cup p[2] = q[1] \cup q[2]
        OBVIOUS
      <3>2. p[1] = (p[1] \cup p[2]) \cap A /\ p[2] = (p[1] \cup p[2]) \cap B
        BY <1>2
      <3>3. q[1] = (q[1] \cup q[2]) \cap A /\ q[2] = (q[1] \cup q[2]) \cap B
        BY <1>2
      <3> QED BY <3>1, <3>2, <3>3
    <2>3. \A c \in SUBSET C : \E p \in (SUBSET A) \X (SUBSET B) : f[p] = c
      <3> TAKE c \in SUBSET C
      <3>1. <<c \cap A, c \cap B>> \in (SUBSET A) \X (SUBSET B) /\ f[<<c \cap A, c \cap B>>] = c
        BY <1>2
      <3> QED BY <3>1
    <2> HIDE DEF f
    <2> QED BY <2>1, <2>2, <2>3, Fun_IsBij
  <1> HIDE DEF f
  <1>6. ExistsBijection((SUBSET A) \X (SUBSET B), SUBSET C)
    BY <1>5 DEF ExistsBijection
  <1> QED BY <1>3, <1>4, <1>6, FS_Bijection

Size(bytes) == 2^(8 * bytes)
Half(bytes) == 2^(8 * bytes - 1)

LEMMA SizeType ==
  ASSUME NEW b \in Nat \ {0}
  PROVE  Size(b) \in Nat \ {0} /\ Half(b) \in Nat \ {0} /\ Size(b) = 2 * Half(b)
  <1>1. 8 * b - 1 \in Nat /\ 1 + (8 * b - 1) = 8 * b
    OBVIOUS
  <1>2. 2^(1 + (8 * b - 1)) = 2^1 * Half(b)
    BY <1>1, PowerSum DEF Half
  <1>3. 2^1 = 2
    OBVIOUS
  <1> QED BY <1>1, <1>2, <1>3, PowerType DEF Size, Half

\* The size of a wider type is a multiple of that of a narrower one.
LEMMA SizeDivides ==
  ASSUME NEW b \in Nat \ {0}, NEW c \in Nat, b <= c
  PROVE  \E q \in Nat \ {0} : Size(c) = Size(b) * q
  <1>1. 8 * c - 8 * b \in Nat /\ 8 * b \in Nat /\ 8 * b + (8 * c - 8 * b) = 8 * c
    OBVIOUS
  <1> DEFINE q == 2^(8 * c - 8 * b)
  <1>2. q \in Nat \ {0} /\ 2^(8 * b + (8 * c - 8 * b)) = 2^(8 * b) * q
    BY <1>1, PowerSum, PowerType
  <1> HIDE DEF q
  <1> QED BY <1>1, <1>2 DEF Size

LEMMA SizeGrows ==
  ASSUME NEW b \in Nat \ {0}, NEW c \in Nat, b <= c
  PROVE  Size(b) <= Size(c)
  <1>1. PICK q \in Nat \ {0} : Size(c) = Size(b) * q
    BY SizeDivides
  <1>2. Size(b) \in Nat \ {0}
    BY SizeType
  <1>3. Size(b) * q >= Size(b)
    BY <1>2
  <1> QED BY <1>1, <1>3

\* A number and a remainder that differ by a multiple of the size.
LEMMA RemainderIs ==
  ASSUME NEW m \in Nat \ {0}, NEW n \in Int, NEW q \in Int, NEW r \in 0 .. m - 1, n = m * q + r
  PROVE  n % m = r /\ n \div m = q
  BY SMT

LEMMA UnsignedIs ==
  ASSUME NEW b \in Nat \ {0}, NEW n \in Int
  PROVE  /\ Unsigned(n, b) \in 0 .. Size(b) - 1 /\ Unsigned(n, b) \in Int
         /\ \E q \in Int : n = Size(b) * q + Unsigned(n, b)
  <1>1. Size(b) \in Nat \ {0} /\ Unsigned(n, b) = n % Size(b)
    BY SizeType DEF Unsigned, Size
  <1>2. /\ n \div Size(b) \in Int /\ n % Size(b) \in 0 .. Size(b) - 1
        /\ n = Size(b) * (n \div Size(b)) + (n % Size(b))
    BY <1>1, DivideIs, Zenon
  <1>3. Unsigned(n, b) \in 0 .. Size(b) - 1 /\ n = Size(b) * (n \div Size(b)) + Unsigned(n, b)
    BY <1>1, <1>2, Zenon
  <1>4. Unsigned(n, b) \in Int
    BY <1>3
  <1> QED BY <1>2, <1>3, <1>4, Zenon

LEMMA UnsignedOf ==
  ASSUME NEW b \in Nat \ {0}, NEW n \in Int, NEW q \in Int, NEW r \in 0 .. Size(b) - 1,
         n = Size(b) * q + r
  PROVE  Unsigned(n, b) = r
  <1>1. Size(b) \in Nat \ {0} /\ Unsigned(n, b) = n % Size(b)
    BY SizeType DEF Unsigned, Size
  <1> QED BY <1>1, RemainderIs

LEMMA UnsignedSmall ==
  ASSUME NEW b \in Nat \ {0}, NEW n \in 0 .. Size(b) - 1
  PROVE  Unsigned(n, b) = n
  <1>1. n \in Int /\ 0 \in Int /\ n = Size(b) * 0 + n
    BY SizeType
  <1> QED BY <1>1, UnsignedOf

\* What differs by a multiple of the size has one remainder.
LEMMA UnsignedShift ==
  ASSUME NEW b \in Nat \ {0}, NEW x \in Int, NEW y \in Int, NEW k \in Int, x = Size(b) * k + y
  PROVE  Unsigned(x, b) = Unsigned(y, b)
  <1>1. PICK l \in Int : y = Size(b) * l + Unsigned(y, b)
    BY UnsignedIs
  <1> DEFINE sk == Size(b) * k
             sl == Size(b) * l
  <1>2. k + l \in Int /\ Size(b) * (k + l) = sk + sl /\ sk \in Int /\ sl \in Int
    BY SizeType
  <1>3. x = sk + y /\ y = sl + Unsigned(y, b) /\ Unsigned(y, b) \in 0 .. Size(b) - 1
        /\ Unsigned(y, b) \in Int
    BY <1>1, UnsignedIs
  <1> HIDE DEF sk, sl
  <1>4. x = (sk + sl) + Unsigned(y, b)
    BY <1>2, <1>3
  <1> QED BY <1>2, <1>3, <1>4, UnsignedOf

\* A signed number is the one of its remainder's class within the type.
LEMMA SignedIs ==
  ASSUME NEW b \in Nat \ {0}, NEW n \in Int
  PROVE  /\ Signed(n, b) \in -Half(b) .. Half(b) - 1 /\ Signed(n, b) \in Int
         /\ Signed(n, b) = IF Unsigned(n, b) < Half(b) THEN Unsigned(n, b)
                           ELSE Unsigned(n, b) - Size(b)
         /\ Unsigned(Signed(n, b), b) = Unsigned(n, b)
  <1> DEFINE u == Unsigned(n, b)
  <1>1. u \in 0 .. Size(b) - 1 /\ u \in Int
    BY UnsignedIs
  <1>2. Size(b) \in Nat \ {0} /\ Half(b) \in Nat \ {0} /\ Size(b) = 2 * Half(b)
    BY SizeType
  <1>3. Signed(n, b) = IF u < Half(b) THEN u ELSE u - Size(b)
    BY Zenon DEF Signed, Size, Half
  <1> HIDE DEF u
  <1>4. Unsigned(u, b) = u
    BY <1>1, UnsignedSmall
  <1>5. u - Size(b) \in Int /\ u = Size(b) * 1 + (u - Size(b))
    BY <1>1, <1>2
  <1>6. Unsigned(u - Size(b), b) = Unsigned(u, b)
    <2> DEFINE v == u - Size(b)
    <2>1. v \in Int /\ u = Size(b) * 1 + v /\ 1 \in Int
      BY <1>5
    <2> HIDE DEF v
    <2>2. Unsigned(u, b) = Unsigned(v, b)
      BY <1>1, <2>1, UnsignedShift
    <2> QED BY <2>2 DEF v
  <1> QED BY <1>1, <1>2, <1>3, <1>4, <1>6 DEF u

\* Signed and unsigned numbers tell the same apart.
LEMMA SignedSame ==
  ASSUME NEW b \in Nat \ {0}, NEW m \in Int, NEW n \in Int
  PROVE  Signed(m, b) = Signed(n, b) <=> Unsigned(m, b) = Unsigned(n, b)
  BY SignedIs

\* An unsigned number comes through a wider signed type unharmed.
LEMMA ThroughWide ==
  ASSUME NEW b \in Nat \ {0}, NEW c \in Nat, b <= c, NEW n \in 0 .. Size(b) - 1
  PROVE  /\ Unsigned(n, c) = n
         /\ Signed(n, c) \in Int /\ Unsigned(Signed(n, c), c) = n
  <1>1. c \in Nat \ {0} /\ n \in Int
    BY SizeType
  <1>2. n \in 0 .. Size(c) - 1
    BY <1>1, SizeGrows, SizeType
  <1> QED BY <1>1, <1>2, UnsignedSmall, SignedIs

\* A difference may be taken before or after.
LEMMA UnsignedDifference ==
  ASSUME NEW b \in Nat \ {0}, NEW x \in Int, NEW y \in Int
  PROVE  Unsigned(x - y, b) = Unsigned(Unsigned(x, b) - Unsigned(y, b), b)
  <1>1. PICK p \in Int : x = Size(b) * p + Unsigned(x, b)
    BY UnsignedIs
  <1>2. PICK q \in Int : y = Size(b) * q + Unsigned(y, b)
    BY UnsignedIs
  <1> DEFINE u == Unsigned(x, b)
             v == Unsigned(y, b)
             sp == Size(b) * p
             sq == Size(b) * q
  <1>3. /\ u \in Int /\ v \in Int /\ sp \in Int /\ sq \in Int /\ p - q \in Int
        /\ Size(b) * (p - q) = sp - sq /\ x = sp + u /\ y = sq + v
    <2>1. u \in Int /\ v \in Int /\ Size(b) \in Int
      BY UnsignedIs, SizeType
    <2>2. sp \in Int /\ sq \in Int /\ p - q \in Int /\ Size(b) * (p - q) = sp - sq
      BY <2>1
    <2>3. x = sp + u /\ y = sq + v
      BY <1>1, <1>2
    <2> QED BY <2>1, <2>2, <2>3
  <1> HIDE DEF u, v, sp, sq
  <1>4. x - y = (sp - sq) + (u - v) /\ x - y \in Int /\ u - v \in Int
    BY <1>3
  <1>5. Unsigned(x - y, b) = Unsigned(u - v, b)
    <2> DEFINE s == x - y
               w == u - v
    <2>1. s \in Int /\ w \in Int /\ s = Size(b) * (p - q) + w
      BY <1>3, <1>4
    <2> HIDE DEF s, w
    <2>2. Unsigned(s, b) = Unsigned(w, b)
      BY <1>3, <2>1, UnsignedShift
    <2> QED BY <2>2 DEF s, w
  <1> QED BY <1>5 DEF u, v

LEMMA StyleIs ==
  ASSUME NEW style \in Styles
  PROVE  /\ style.length \in Nat \ {0} /\ style.length <= WideBytes
         /\ WideBytes \in Nat \ {0}
         /\ style.range \in {"int", "uint", "hex", "char"}
         /\ IsInt(style) <=> style.range \in {"int", "char"}
         /\ style.length \in {1, IntBytes, WideBytes}
  BY BytesAssumption DEF Styles, IsInt

\* The type of an argument is of the range of the style, and as wide at least.
LEMMA TypeIs ==
  ASSUME NEW style \in Styles, NEW type \in ArgumentTypes(style)
  PROVE  /\ type \in Styles /\ type.range = style.range
         /\ IsInt(type) <=> IsInt(style)
         /\ style.length <= type.length
  <1>1. type \in Styles
    BY DEF ArgumentTypes
  <1>2. CASE type = style
    BY <1>1, <1>2, StyleIs
  <1>3. CASE type = [style EXCEPT !.length = WideBytes]
    <2>1. type.length = WideBytes /\ type.range = style.range
      BY <1>3 DEF Styles
    <2> QED BY <1>1, <2>1, StyleIs
  <1> QED BY <1>2, <1>3 DEF ArgumentTypes

\* Only the range of the style matters to the assertions about two numbers.
LEMMA RangeDecides ==
  ASSUME NEW style \in Styles, NEW type \in ArgumentTypes(style)
  PROVE  /\ \A x, y, compare :
              UnityAssertGreaterOrLessOrEqualNumber(x, y, compare, style)
                = UnityAssertGreaterOrLessOrEqualNumber(x, y, compare, type)
         /\ \A delta, x, y :
              UnityAssertNumbersWithin(delta, x, y, style)
                = UnityAssertNumbersWithin(delta, x, y, type)
  <1>1. ASSUME NEW x PROVE AsStyle(x, style) = AsStyle(x, type)
    <2>1. IsInt(type) <=> IsInt(style)
      BY TypeIs
    <2> QED BY <2>1, Zenon DEF AsStyle
  <1>2. ASSUME NEW x, NEW y, NEW compare
        PROVE  UnityAssertGreaterOrLessOrEqualNumber(x, y, compare, style)
                 = UnityAssertGreaterOrLessOrEqualNumber(x, y, compare, type)
    <2>1. AsStyle(x, style) = AsStyle(x, type) /\ AsStyle(y, style) = AsStyle(y, type)
      BY <1>1, Zenon
    <2> QED BY <2>1, Zenon DEF UnityAssertGreaterOrLessOrEqualNumber
  <1>3. ASSUME NEW delta, NEW x, NEW y
        PROVE  UnityAssertNumbersWithin(delta, x, y, style)
                 = UnityAssertNumbersWithin(delta, x, y, type)
    <2>1. AsStyle(x, style) = AsStyle(x, type) /\ AsStyle(y, style) = AsStyle(y, type)
      BY <1>1, Zenon
    <2> QED BY <2>1, Zenon DEF UnityAssertNumbersWithin
  <1> QED BY <1>2, <1>3, Zenon

\* Two numbers of a style are less than its size apart.
LEMMA MeaningIs ==
  ASSUME NEW style \in Styles, NEW m \in Int, NEW n \in Int
  PROVE  /\ Meaning(m, style) \in Int /\ Meaning(n, style) \in Int
         /\ Distance(Meaning(m, style), Meaning(n, style)) \in 0 .. Size(style.length) - 1
         /\ Meaning(m, style) = Meaning(n, style)
              <=> Unsigned(m, style.length) = Unsigned(n, style.length)
  <1> DEFINE b == style.length
  <1>1. b \in Nat \ {0}
    BY StyleIs
  <1> HIDE DEF b
  <1>2. CASE IsInt(style)
    <2>1. Meaning(m, style) = Signed(m, b) /\ Meaning(n, style) = Signed(n, b)
      BY <1>2 DEF Meaning, b
    <2>2. /\ Signed(m, b) \in Int /\ Signed(n, b) \in Int
          /\ -Half(b) <= Signed(m, b) /\ Signed(m, b) < Half(b)
          /\ -Half(b) <= Signed(n, b) /\ Signed(n, b) < Half(b)
          /\ Half(b) \in Nat /\ Size(b) = 2 * Half(b)
      <3>1. Half(b) \in Nat /\ Size(b) = 2 * Half(b)
        BY <1>1, SizeType
      <3>2. Signed(m, b) \in Int /\ Signed(m, b) \in -Half(b) .. Half(b) - 1
        BY <1>1, SignedIs
      <3>3. Signed(n, b) \in Int /\ Signed(n, b) \in -Half(b) .. Half(b) - 1
        BY <1>1, SignedIs
      <3> QED BY <3>1, <3>2, <3>3
    <2>3. Distance(Signed(m, b), Signed(n, b)) \in 0 .. Size(b) - 1
      BY <2>2 DEF Distance
    <2>4. Signed(m, b) = Signed(n, b) <=> Unsigned(m, b) = Unsigned(n, b)
      BY <1>1, SignedSame
    <2> QED BY <2>1, <2>2, <2>3, <2>4 DEF b
  <1>3. CASE ~IsInt(style)
    <2>1. Meaning(m, style) = Unsigned(m, b) /\ Meaning(n, style) = Unsigned(n, b)
      BY <1>3 DEF Meaning, b
    <2>2. /\ Unsigned(m, b) \in 0 .. Size(b) - 1 /\ Unsigned(n, b) \in 0 .. Size(b) - 1
          /\ Size(b) \in Nat
      BY <1>1, UnsignedIs, SizeType
    <2>3. Distance(Unsigned(m, b), Unsigned(n, b)) \in 0 .. Size(b) - 1
      BY <2>2 DEF Distance
    <2> QED BY <2>1, <2>2, <2>3 DEF b
  <1> QED BY <1>2, <1>3

LEMMA EqualArgumentIs ==
  ASSUME NEW style \in Styles, NEW e \in Int, NEW a \in Int
  PROVE  EqualArgument(e, style) = EqualArgument(a, style)
           <=> Meaning(e, style) = Meaning(a, style)
  <1> DEFINE b == style.length
  <1>1. b \in Nat \ {0} /\ b <= WideBytes /\ WideBytes \in Nat \ {0}
    BY StyleIs
  <1>2. Meaning(e, style) = Meaning(a, style) <=> Unsigned(e, b) = Unsigned(a, b)
    BY MeaningIs
  <1> HIDE DEF b
  <1>3. CASE style.range = "uint"
    <2>1. /\ EqualArgument(e, style) = Signed(Unsigned(e, b), WideBytes)
          /\ EqualArgument(a, style) = Signed(Unsigned(a, b), WideBytes)
      BY <1>3 DEF EqualArgument, b
    <2>2. /\ Unsigned(e, b) \in 0 .. Size(b) - 1 /\ Unsigned(a, b) \in 0 .. Size(b) - 1
      BY <1>1, UnsignedIs
    <2> QED BY <1>1, <1>2, <2>1, <2>2, ThroughWide
  <1>4. CASE style.range # "uint"
    <2>1. EqualArgument(e, style) = Signed(e, b) /\ EqualArgument(a, style) = Signed(a, b)
      BY <1>4 DEF EqualArgument, b
    <2> QED BY <1>1, <1>2, <2>1, SignedSame
  <1> QED BY <1>3, <1>4

LEMMA OrderArgumentIs ==
  ASSUME NEW style \in Styles, NEW n \in Int
  PROVE  /\ OrderArgument(n, style) \in Int
         /\ AsStyle(OrderArgument(n, style), style) = Meaning(n, style)
         /\ IsInt(style) => OrderArgument(n, style) = Meaning(n, style)
         /\ ~IsInt(style) => Unsigned(OrderArgument(n, style), WideBytes) = Meaning(n, style)
  <1> DEFINE b == style.length
  <1>1. b \in Nat \ {0} /\ b <= WideBytes /\ WideBytes \in Nat \ {0}
    BY StyleIs
  <1> HIDE DEF b
  <1>2. CASE IsInt(style)
    <2>1. OrderArgument(n, style) = Signed(n, b) /\ Meaning(n, style) = Signed(n, b)
      BY <1>2 DEF OrderArgument, Meaning, b
    <2> QED BY <1>1, <1>2, <2>1, SignedIs DEF AsStyle
  <1>3. CASE ~IsInt(style)
    <2>1. /\ OrderArgument(n, style) = Signed(Unsigned(n, b), WideBytes)
          /\ Meaning(n, style) = Unsigned(n, b)
      BY <1>3 DEF OrderArgument, Meaning, b
    <2>2. Unsigned(n, b) \in 0 .. Size(b) - 1
      BY <1>1, UnsignedIs
    <2> QED BY <1>1, <1>3, <2>1, <2>2, ThroughWide DEF AsStyle
  <1> QED BY <1>2, <1>3

LEMMA OrderArgumentSame ==
  ASSUME NEW style \in Styles, NEW t \in Int, NEW a \in Int
  PROVE  OrderArgument(t, style) = OrderArgument(a, style)
           <=> Meaning(t, style) = Meaning(a, style)
  <1> DEFINE b == style.length
  <1>1. b \in Nat \ {0} /\ b <= WideBytes /\ WideBytes \in Nat \ {0}
    BY StyleIs
  <1>2. ~IsInt(style) => /\ OrderArgument(t, style) = Signed(Meaning(t, style), WideBytes)
                         /\ OrderArgument(a, style) = Signed(Meaning(a, style), WideBytes)
    BY DEF OrderArgument, Meaning
  <1> QED BY <1>2, OrderArgumentIs

LEMMA OrderIs ==
  ASSUME NEW style \in Styles, NEW t \in Int, NEW a \in Int, NEW compare \in Comparisons
  PROVE  UnityAssertGreaterOrLessOrEqualNumber(OrderArgument(t, style),
           OrderArgument(a, style), compare, style)
         = CASE compare = {} -> Meaning(a, style) # Meaning(t, style)
             [] compare = {"greater"} -> Meaning(a, style) > Meaning(t, style)
             [] compare = {"smaller"} -> Meaning(a, style) < Meaning(t, style)
             [] compare = {"greater", "equal"} -> Meaning(a, style) >= Meaning(t, style)
             [] compare = {"smaller", "equal"} -> Meaning(a, style) <= Meaning(t, style)
  <1> DEFINE x == Meaning(t, style)
             y == Meaning(a, style)
             same == OrderArgument(t, style) = OrderArgument(a, style)
  <1>1. x \in Int /\ y \in Int /\ (same <=> x = y)
    BY MeaningIs, OrderArgumentSame
  <1>2. /\ AsStyle(OrderArgument(t, style), style) = x
        /\ AsStyle(OrderArgument(a, style), style) = y
    BY OrderArgumentIs
  <1>3. UnityAssertGreaterOrLessOrEqualNumber(OrderArgument(t, style),
          OrderArgument(a, style), compare, style)
        = IF x = y THEN "equal" \in compare
          ELSE (y > x => "smaller" \notin compare) /\ (y < x => "greater" \notin compare)
    BY <1>1, <1>2 DEF UnityAssertGreaterOrLessOrEqualNumber
  <1> HIDE DEF x, y, same
  <1>4. compare \in {{}, {"greater"}, {"smaller"}, {"greater", "equal"}, {"smaller", "equal"}}
    BY DEF Comparisons
  <1> DEFINE says == CASE compare = {} -> y # x
                      [] compare = {"greater"} -> y > x
                      [] compare = {"smaller"} -> y < x
                      [] compare = {"greater", "equal"} -> y >= x
                      [] compare = {"smaller", "equal"} -> y <= x
             holds == IF x = y THEN "equal" \in compare
                      ELSE (y > x => "smaller" \notin compare) /\ (y < x => "greater" \notin compare)
  <1>5. holds = says
    <2>1. CASE compare = {}
      BY <1>1, <2>1
    <2>2. CASE compare = {"greater"}
      BY <1>1, <2>2
    <2>3. CASE compare = {"smaller"}
      BY <1>1, <2>3
    <2>4. CASE compare = {"greater", "equal"}
      BY <1>1, <2>4
    <2>5. CASE compare = {"smaller", "equal"}
      BY <1>1, <2>5
    <2> QED BY <1>4, <2>1, <2>2, <2>3, <2>4, <2>5
  <1>6. UnityAssertGreaterOrLessOrEqualNumber(OrderArgument(t, style),
          OrderArgument(a, style), compare, style) = holds
    BY <1>3
  <1> HIDE DEF holds, says
  <1>7. UnityAssertGreaterOrLessOrEqualNumber(OrderArgument(t, style),
          OrderArgument(a, style), compare, style) = says
    BY <1>5, <1>6, Zenon
  <1> QED BY <1>7, Zenon DEF says, x, y

LEMMA WithinNumbersIs ==
  ASSUME NEW style \in Styles, NEW e \in Int, NEW a \in Int, NEW delta \in Int
  PROVE  UnityAssertNumbersWithin(delta, OrderArgument(e, style), OrderArgument(a, style), style)
         = (Distance(Meaning(e, style), Meaning(a, style)) <= delta)
  <1> DEFINE x == Meaning(e, style)
             y == Meaning(a, style)
             oe == OrderArgument(e, style)
             oa == OrderArgument(a, style)
             b == style.length
  <1>1. /\ x \in Int /\ y \in Int /\ Distance(x, y) \in 0 .. Size(b) - 1
        /\ oe \in Int /\ oa \in Int /\ AsStyle(oe, style) = x /\ AsStyle(oa, style) = y
    BY MeaningIs, OrderArgumentIs
  <1>2. b \in Nat \ {0} /\ b <= WideBytes /\ WideBytes \in Nat \ {0}
    BY StyleIs
  <1>3. /\ Unsigned(oa - oe, WideBytes) = Unsigned(y - x, WideBytes)
        /\ Unsigned(oe - oa, WideBytes) = Unsigned(x - y, WideBytes)
    <2>1. CASE IsInt(style)
      BY <2>1, OrderArgumentIs
    <2>2. CASE ~IsInt(style)
      <3>1. Unsigned(oa, WideBytes) = y /\ Unsigned(oe, WideBytes) = x
        BY <2>2, OrderArgumentIs
      <3> HIDE DEF x, y, oe, oa
      <3>2. Unsigned(oa - oe, WideBytes)
              = Unsigned(Unsigned(oa, WideBytes) - Unsigned(oe, WideBytes), WideBytes)
        BY <1>1, <1>2, UnsignedDifference, Zenon
      <3>3. Unsigned(oe - oa, WideBytes)
              = Unsigned(Unsigned(oe, WideBytes) - Unsigned(oa, WideBytes), WideBytes)
        BY <1>1, <1>2, UnsignedDifference, Zenon
      <3> QED BY <3>1, <3>2, <3>3
    <2> QED BY <2>1, <2>2
  <1>4. UnityAssertNumbersWithin(delta, oe, oa, style)
          = ((IF y > x THEN Unsigned(oa - oe, WideBytes) ELSE Unsigned(oe - oa, WideBytes)) <= delta)
    BY <1>1 DEF UnityAssertNumbersWithin
  <1> HIDE DEF x, y, oe, oa, b
  <1>5. y > x => Distance(x, y) = y - x
    BY <1>1 DEF Distance
  <1>6. ~(y > x) => Distance(x, y) = x - y
    BY <1>1 DEF Distance
  <1>7. Unsigned(Distance(x, y), WideBytes) = Distance(x, y)
    BY <1>1, <1>2, ThroughWide
  <1>8. UnityAssertNumbersWithin(delta, oe, oa, style) = (Distance(x, y) <= delta)
    BY <1>3, <1>4, <1>5, <1>6, <1>7
  <1> QED BY <1>8 DEF x, y, oe, oa

LEMMA NumbersRightStep ==
  ASSUME Next
  PROVE  NumbersRight'
  <1> USE DEF Make
  <1>1. CASE AssertEqualNumber /\ call'.fn = "EqualNumber"
    <2>1. PICK e \in Numbers, a \in Numbers, style \in Styles, type \in Styles :
            /\ type \in ArgumentTypes(style)
            /\ call' = [fn |-> "EqualNumber", expected |-> e, actual |-> a, type |-> type]
            /\ passed' = UnityAssertEqualNumber(EqualArgument(e, type), EqualArgument(a, type))
      BY <1>1, TypeIs, Zenon DEF AssertEqualNumber
    <2>2. e \in Int /\ a \in Int
      BY NumbersAssumption
    <2>3. passed' = (Meaning(e, type) = Meaning(a, type))
      BY <2>1, <2>2, EqualArgumentIs DEF UnityAssertEqualNumber
    <2> QED BY <2>1, <2>3 DEF NumbersRight
  <1>2. CASE AssertOrder /\ call'.fn = "Order"
    <2>1. PICK t \in Numbers, a \in Numbers, compare \in Comparisons, style \in Styles,
               type \in Styles :
            /\ type \in ArgumentTypes(style)
            /\ call' = [fn |-> "Order", threshold |-> t, actual |-> a, compare |-> compare,
                        type |-> type]
            /\ passed' = UnityAssertGreaterOrLessOrEqualNumber(OrderArgument(t, type),
                           OrderArgument(a, type), compare, style)
      BY <1>2, TypeIs, Zenon DEF AssertOrder
    <2>2. t \in Int /\ a \in Int
      BY NumbersAssumption
    <2>3. passed' = UnityAssertGreaterOrLessOrEqualNumber(OrderArgument(t, type),
                      OrderArgument(a, type), compare, type)
      <3>1. type \in ArgumentTypes(style)
        BY <2>1
      <3>2. \A x, y, c : UnityAssertGreaterOrLessOrEqualNumber(x, y, c, style)
                           = UnityAssertGreaterOrLessOrEqualNumber(x, y, c, type)
        BY <3>1, RangeDecides, Zenon
      <3> QED BY <2>1, <3>2, Zenon
    <2>4. passed' =
            CASE compare = {} -> Meaning(a, type) # Meaning(t, type)
              [] compare = {"greater"} -> Meaning(a, type) > Meaning(t, type)
              [] compare = {"smaller"} -> Meaning(a, type) < Meaning(t, type)
              [] compare = {"greater", "equal"} -> Meaning(a, type) >= Meaning(t, type)
              [] compare = {"smaller", "equal"} -> Meaning(a, type) <= Meaning(t, type)
      BY <2>3, <2>2, OrderIs, Zenon
    <2>5. /\ call'.fn = "Order" /\ call'.threshold = t /\ call'.actual = a
          /\ call'.compare = compare /\ call'.type = type
          /\ call'.fn # "EqualNumber" /\ call'.fn # "Within"
      BY <2>1
    <2> QED BY <2>4, <2>5, Zenon DEF NumbersRight
  <1>3. CASE AssertWithin /\ call'.fn = "Within"
    <2>1. PICK delta \in Deltas, e \in Numbers, a \in Numbers, style \in Styles,
               type \in Styles :
            /\ type \in ArgumentTypes(style)
            /\ call' = [fn |-> "Within", delta |-> delta, expected |-> e, actual |-> a,
                        type |-> type]
            /\ passed' = UnityAssertNumbersWithin(DeltaArgument(delta, type),
                           OrderArgument(e, type), OrderArgument(a, type), style)
      BY <1>3, TypeIs, Zenon DEF AssertWithin
    <2>2. e \in Int /\ a \in Int /\ delta \in Int
      BY NumbersAssumption
    <2>3. DeltaArgument(delta, type) = Unsigned(delta, type.length)
          /\ DeltaArgument(delta, type) \in Int
      BY <2>2, UnsignedIs, StyleIs DEF DeltaArgument
    <2>4. passed' = UnityAssertNumbersWithin(DeltaArgument(delta, type),
                      OrderArgument(e, type), OrderArgument(a, type), type)
      <3>1. type \in ArgumentTypes(style)
        BY <2>1
      <3>2. \A d, x, y : UnityAssertNumbersWithin(d, x, y, style)
                           = UnityAssertNumbersWithin(d, x, y, type)
        BY <3>1, RangeDecides, Zenon
      <3> QED BY <2>1, <3>2, Zenon
    <2>5. passed' = (Distance(Meaning(e, type), Meaning(a, type)) <= DeltaArgument(delta, type))
      BY <2>4, <2>2, <2>3, WithinNumbersIs
    <2> QED BY <2>1, <2>3, <2>5 DEF NumbersRight
  <1>4. CASE call'.fn \notin {"EqualNumber", "Order", "Within"}
    BY <1>4 DEF NumbersRight
  <1> HIDE DEF Make
  <1> QED BY <1>1, <1>2, <1>3, <1>4, CallIs DEF NoCall

\* Equality, order and tolerance of integers are those of the numbers in the
\* type the assertion names, whatever the widths of the types: NumbersRight.
THEOREM NumbersRightHolds == Spec => []NumbersRight
  <1>1. Init => NumbersRight
    BY DEF Init, NoCall, NumbersRight
  <1>2. NumbersRight /\ [Next]_vars => NumbersRight'
    <2>1. NumbersRight /\ UNCHANGED vars => NumbersRight'
      <3> SUFFICES ASSUME NumbersRight, UNCHANGED vars PROVE NumbersRight'
        OBVIOUS
      <3>1. call' = call /\ passed' = passed
        BY DEF vars
      <3> QED BY <3>1, Zenon DEF NumbersRight
    <2> QED BY <2>1, NumbersRightStep
  <1> QED BY <1>1, <1>2, PTL DEF Spec

-----------------------------------------------------------------------------
(***************************************************************************)
(* Strings                                                                 *)
(***************************************************************************)

Character == (-128 .. 127) \ {0}

LEMMA MaxIs ==
  ASSUME NEW x \in Int, NEW y \in Int
  PROVE  /\ Max({x, y}) = IF x >= y THEN x ELSE y
         /\ Min({x, y}) = IF x <= y THEN x ELSE y
  <1>1. Max({x, y}) = IF x >= y THEN x ELSE y
    <2> DEFINE m == IF x >= y THEN x ELSE y
    <2>1. m \in {x, y} /\ \A z \in {x, y} : m >= z
      OBVIOUS
    <2>2. \A n \in {x, y} : (\A z \in {x, y} : n >= z) => n = m
      OBVIOUS
    <2> HIDE DEF m
    <2>3. Max({x, y}) = m
      BY <2>1, <2>2, Zenon DEF Max
    <2> QED BY <2>3 DEF m
  <1>2. Min({x, y}) = IF x <= y THEN x ELSE y
    <2> DEFINE m == IF x <= y THEN x ELSE y
    <2>1. m \in {x, y} /\ \A z \in {x, y} : m <= z
      OBVIOUS
    <2>2. \A n \in {x, y} : (\A z \in {x, y} : n <= z) => n = m
      OBVIOUS
    <2> HIDE DEF m
    <2>3. Min({x, y}) = m
      BY <2>1, <2>2, Zenon DEF Min
    <2> QED BY <2>3 DEF m
  <1> QED BY <1>1, <1>2

LEMMA StringIs ==
  ASSUME NEW s \in Seq(Character) \cup {NullString}
  PROVE  s # NullString <=> s \in Seq(Character)
  <1>1. ASSUME NullString \in Seq(Character)
        PROVE  FALSE
    <2>1. Len(NullString) = 1 /\ NullString[1] = 0
      BY DEF NullString
    <2>2. \A i \in 1 .. Len(NullString) : NullString[i] \in Character
      BY <1>1
    <2> QED BY <2>1, <2>2 DEF Character
  <1> QED BY <1>1, Zenon

\* Strings that agree up to n, terminators included, are one up to n.
LEMMA SameUpTo ==
  ASSUME NEW e \in Seq(Character), NEW a \in Seq(Character), NEW n \in Nat
  PROVE  (\A i \in 1 .. Min({n, Max({Len(e), Len(a)})}) : At(e, i) = At(a, i))
           <=> SubSeq(e, 1, Min({n, Len(e)})) = SubSeq(a, 1, Min({n, Len(a)}))
  <1> DEFINE m == Min({n, Max({Len(e), Len(a)})})
             x == Min({n, Len(e)})
             y == Min({n, Len(a)})
  <1>1. Len(e) \in Nat /\ Len(a) \in Nat /\ Max({Len(e), Len(a)}) \in Nat
    BY MaxIs
  <1>2. /\ x \in 0 .. Len(e) /\ y \in 0 .. Len(a) /\ m \in Nat
        /\ x = IF n <= Len(e) THEN n ELSE Len(e)
        /\ y = IF n <= Len(a) THEN n ELSE Len(a)
        /\ m = IF x >= y THEN x ELSE y
    <2>0. n \in Int /\ Len(e) \in Int /\ Len(a) \in Int /\ Max({Len(e), Len(a)}) \in Int
      BY <1>1
    <2>1. x = IF n <= Len(e) THEN n ELSE Len(e)
      BY <2>0, MaxIs, Zenon
    <2>2. y = IF n <= Len(a) THEN n ELSE Len(a)
      BY <2>0, MaxIs, Zenon
    <2>3. m = IF n <= Max({Len(e), Len(a)}) THEN n ELSE Max({Len(e), Len(a)})
      BY <2>0, MaxIs, Zenon
    <2>4. Max({Len(e), Len(a)}) = IF Len(e) >= Len(a) THEN Len(e) ELSE Len(a)
      BY <2>0, MaxIs, Zenon
    <2> HIDE DEF x, y, m
    <2> QED BY <1>1, <2>1, <2>2, <2>3, <2>4
  <1> HIDE DEF m, x, y
  <1>3. /\ \A i \in 1 .. Len(e) : e[i] # 0 /\ At(e, i) = e[i]
        /\ \A i \in 1 .. Len(a) : a[i] # 0 /\ At(a, i) = a[i]
        /\ \A i \in Nat : i > Len(e) => At(e, i) = 0
        /\ \A i \in Nat : i > Len(a) => At(a, i) = 0
    BY <1>1 DEF At, Character
  <1> DEFINE E == SubSeq(e, 1, x)
             A == SubSeq(a, 1, y)
  <1>4. /\ E \in Seq(Character) /\ Len(E) = x /\ \A i \in 1 .. x : E[i] = e[i]
        /\ A \in Seq(Character) /\ Len(A) = y /\ \A i \in 1 .. y : A[i] = a[i]
    BY <1>1, <1>2
  <1> HIDE DEF E, A
  <1>5. ASSUME \A i \in 1 .. m : At(e, i) = At(a, i)
        PROVE  E = A
    <2>1. x = y
      <3>1. CASE x < y
        BY <1>1, <1>2, <1>3, <1>5, <3>1
      <3>2. CASE y < x
        BY <1>1, <1>2, <1>3, <1>5, <3>2
      <3> QED BY <1>2, <3>1, <3>2
    <2>2. \A i \in 1 .. x : e[i] = a[i]
      BY <1>1, <1>2, <1>3, <1>5, <2>1
    <2>3. Len(E) = Len(A) /\ \A i \in 1 .. Len(E) : E[i] = A[i]
      BY <1>4, <2>1, <2>2
    <2> QED BY <1>4, <2>3, SeqEqual
  <1>6. ASSUME E = A, NEW i \in 1 .. m
        PROVE  At(e, i) = At(a, i)
    BY <1>1, <1>2, <1>3, <1>4, <1>6
  <1> QED BY <1>5, <1>6 DEF E, A, m, x, y

LEMMA EqualStringIs ==
  ASSUME NEW e \in Seq(Character) \cup {NullString}, NEW a \in Seq(Character) \cup {NullString}
  PROVE  UnityAssertEqualString(e, a) <=> e = a
  <1>1. CASE NullString \in {e, a}
    BY <1>1 DEF UnityAssertEqualString
  <1>2. CASE NullString \notin {e, a}
    <2>1. e \in Seq(Character) /\ a \in Seq(Character)
      BY <1>2
    <2> DEFINE n == Max({Len(e), Len(a)})
    <2>0. Len(e) \in Nat /\ Len(a) \in Nat
      BY <2>1
    <2>9. n = IF Len(e) >= Len(a) THEN Len(e) ELSE Len(a)
      <3>1. Len(e) \in Int /\ Len(a) \in Int
        BY <2>0
      <3> QED BY <3>1, MaxIs, Zenon
    <2>2. /\ n \in Nat /\ n >= Len(e) /\ n >= Len(a) /\ Len(e) \in Nat /\ Len(a) \in Nat
      <3> HIDE DEF n
      <3> QED BY <2>0, <2>9
    <2>3. UnityAssertEqualString(e, a) <=> \A i \in 1 .. n : At(e, i) = At(a, i)
      BY <1>2 DEF UnityAssertEqualString
    <2>4. (\A i \in 1 .. Min({n, n}) : At(e, i) = At(a, i))
            <=> SubSeq(e, 1, Min({n, Len(e)})) = SubSeq(a, 1, Min({n, Len(a)}))
      BY <2>1, <2>2, SameUpTo
    <2> HIDE DEF n
    <2>5. Min({n, n}) = n /\ Min({n, Len(e)}) = Len(e) /\ Min({n, Len(a)}) = Len(a)
      <3>1. n \in Int /\ Len(e) \in Int /\ Len(a) \in Int
        BY <2>2
      <3>2. /\ Min({n, n}) = IF n <= n THEN n ELSE n
            /\ Min({n, Len(e)}) = IF n <= Len(e) THEN n ELSE Len(e)
            /\ Min({n, Len(a)}) = IF n <= Len(a) THEN n ELSE Len(a)
        BY <3>1, MaxIs, Zenon
      <3> QED BY <2>2, <3>2
    <2>6. SubSeq(e, 1, Len(e)) = e /\ SubSeq(a, 1, Len(a)) = a
      BY <2>1, SubSeqFull
    <2> QED BY <2>3, <2>4, <2>5, <2>6
  <1> QED BY <1>1, <1>2

Pointed == Seq(Character) \cup {NullString}

LEMMA StringLenIs ==
  ASSUME NEW e \in Pointed, NEW a \in Pointed, NEW n \in Nat
  PROVE  UnityAssertEqualStringLen(e, a, n) <=>
           IF NullString \in {e, a} THEN e = a
           ELSE SubSeq(e, 1, Min({n, Len(e)})) = SubSeq(a, 1, Min({n, Len(a)}))
  <1>1. CASE NullString \in {e, a}
    BY <1>1, Zenon DEF UnityAssertEqualStringLen
  <1>2. CASE NullString \notin {e, a}
    <2>1. e \in Seq(Character) /\ a \in Seq(Character)
      BY <1>2 DEF Pointed
    <2>2. UnityAssertEqualStringLen(e, a, n) <=>
            \A i \in 1 .. Min({n, Max({Len(e), Len(a)})}) : At(e, i) = At(a, i)
      BY <1>2, Zenon DEF UnityAssertEqualStringLen
    <2> QED BY <1>2, <2>1, <2>2, SameUpTo, Zenon
  <1> QED BY <1>1, <1>2

LEMMA StringsBoolean ==
  ASSUME NEW e, NEW a
  PROVE  /\ UnityAssertEqualString(e, a) \in BOOLEAN
         /\ \A n : UnityAssertEqualStringLen(e, a, n) \in BOOLEAN
         /\ \A x, y, num, flags : UnityAssertEqualStringArray(<<e, a>>, x, y, num, flags) \in BOOLEAN
  BY DEF UnityAssertEqualString, UnityAssertEqualStringLen, UnityAssertEqualStringArray, ArraysHold

LEMMA StringArrayIs ==
  ASSUME NEW flags \in {"array", "value"}, NEW a \in StringArrays,
         NEW e \in IF flags = "array" THEN StringArrays ELSE Strings \ {NullString},
         NEW p \in Pointers, NEW num \in 0 .. 2, flags = "value" => p # <<1, 1>>
  PROVE  UnityAssertEqualStringArray(<<e, a>>, p[1], p[2], num, flags) <=>
           /\ num > 0
           /\ \/ p[1] = p[2]
              \/ /\ NULL \notin {p[1], p[2]}
                 /\ \A j \in 1 .. num : (IF flags = "array" THEN e[j] ELSE e) = a[j]
  <1> DEFINE mem == <<e, a>>
             E(j) == IF flags = "array" THEN e[j] ELSE e
  <1>1. \A j \in 1 .. 2 : E(j) \in Pointed /\ a[j] \in Pointed
    BY StringsAssumption DEF Pointed, Character
  <1>2. UnityAssertEqualStringArray(mem, p[1], p[2], num, flags) <=>
          /\ num > 0
          /\ \/ p[1] = p[2]
             \/ /\ NULL \notin {p[1], p[2]}
                /\ \A i \in 0 .. num - 1 :
                     UnityAssertEqualString(IF flags = "array" THEN mem[p[1]][i + 1] ELSE mem[p[1]],
                                            mem[p[2]][i + 1])
    BY DEF UnityAssertEqualStringArray, ArraysHold
  <1>3. ASSUME p[1] # p[2], NULL \notin {p[1], p[2]}
        PROVE  p[1] = 1 /\ p[2] = 2
    BY <1>3 DEF Pointers
  <1>4. \A j \in 1 .. 2 : UnityAssertEqualString(E(j), a[j]) <=> E(j) = a[j]
    <2> HIDE DEF E
    <2> QED BY <1>1, EqualStringIs, Zenon DEF Pointed
  <1>5. mem[1] = e /\ mem[2] = a
    OBVIOUS
  <1>6. ASSUME p[1] = 1, p[2] = 2
        PROVE  (\A i \in 0 .. num - 1 :
                  UnityAssertEqualString(IF flags = "array" THEN mem[p[1]][i + 1] ELSE mem[p[1]],
                                         mem[p[2]][i + 1]))
                 <=> \A j \in 1 .. num : E(j) = a[j]
    <2>1. \A i : /\ (IF flags = "array" THEN mem[p[1]][i + 1] ELSE mem[p[1]]) = E(i + 1)
                 /\ mem[p[2]][i + 1] = a[i + 1]
      BY <1>5, <1>6
    <2> HIDE DEF mem, E
    <2>2. (\A i \in 0 .. num - 1 : UnityAssertEqualString(E(i + 1), a[i + 1]))
            <=> \A j \in 1 .. num : UnityAssertEqualString(E(j), a[j])
      <3>1. /\ \A i \in 0 .. num - 1 : i + 1 \in 1 .. num
            /\ \A j \in 1 .. num : j - 1 \in 0 .. num - 1 /\ (j - 1) + 1 = j
        OBVIOUS
      <3> QED BY <3>1, Zenon
    <2>3. \A j \in 1 .. num : j \in 1 .. 2
      OBVIOUS
    <2> QED BY <1>4, <2>1, <2>2, <2>3, Zenon
  <1> HIDE DEF mem
  <1>7. UnityAssertEqualStringArray(mem, p[1], p[2], num, flags) <=>
           /\ num > 0
           /\ \/ p[1] = p[2]
              \/ /\ NULL \notin {p[1], p[2]}
                 /\ \A j \in 1 .. num : E(j) = a[j]
    BY <1>2, <1>3, <1>6, Zenon
  <1> QED BY <1>7 DEF mem

LEMMA StringsRightStep ==
  ASSUME Next
  PROVE  StringsRight'
  <1> USE DEF Make
  <1>1. CASE AssertEqualString /\ call'.fn = "String"
    <2>1. PICK e \in Strings, a \in Strings :
            /\ call' = [fn |-> "String", expected |-> e, actual |-> a]
            /\ passed' = UnityAssertEqualString(e, a)
      BY <1>1, Zenon DEF AssertEqualString
    <2>2. e \in Pointed /\ a \in Pointed
      BY StringsAssumption DEF Pointed, Character
    <2>3. passed' = (e = a)
      BY <2>1, <2>2, EqualStringIs, StringsBoolean DEF Pointed
    <2>4. /\ call'.fn = "String" /\ call'.expected = e /\ call'.actual = a
          /\ call'.fn # "StringLen" /\ call'.fn # "StringArray"
      BY <2>1
    <2> QED BY <2>3, <2>4, Zenon DEF StringsRight
  <1>2. CASE AssertEqualStringLen /\ call'.fn = "StringLen"
    <2>1. PICK e \in Strings, a \in Strings, length \in 0 .. 2 :
            /\ call' = [fn |-> "StringLen", expected |-> e, actual |-> a, length |-> length]
            /\ passed' = UnityAssertEqualStringLen(e, a, length)
      BY <1>2, Zenon DEF AssertEqualStringLen
    <2>2. e \in Pointed /\ a \in Pointed /\ length \in Nat
      BY StringsAssumption DEF Pointed, Character
    <2>3. passed' = IF NullString \in {e, a} THEN e = a
                    ELSE SubSeq(e, 1, Min({length, Len(e)})) = SubSeq(a, 1, Min({length, Len(a)}))
      <3>1. passed' \in BOOLEAN
        BY <2>1, StringsBoolean, Zenon
      <3> DEFINE X == IF NullString \in {e, a} THEN e = a
                      ELSE SubSeq(e, 1, Min({length, Len(e)}))
                             = SubSeq(a, 1, Min({length, Len(a)}))
      <3>2. passed' <=> X
        BY <2>1, <2>2, StringLenIs, Zenon
      <3>3. X \in BOOLEAN
        OBVIOUS
      <3> HIDE DEF X
      <3>4. passed' = X
        BY <3>1, <3>2, <3>3
      <3> QED BY <3>4, Zenon DEF X
    <2>4. /\ call'.fn = "StringLen" /\ call'.expected = e /\ call'.actual = a
          /\ call'.length = length
          /\ call'.fn # "String" /\ call'.fn # "StringArray"
      BY <2>1
    <2> QED BY <2>3, <2>4, Zenon DEF StringsRight
  <1>3. CASE AssertEqualStringArray /\ call'.fn = "StringArray"
    <2>1. PICK a \in StringArrays, p \in Pointers, num \in 0 .. 2, flags \in {"array", "value"} :
          \E e \in IF flags = "array" THEN StringArrays ELSE Strings \ {NullString} :
            /\ flags = "value" => p # <<1, 1>>
            /\ call' = [fn |-> "StringArray", mem |-> <<e, a>>, p |-> p, num |-> num,
                        flags |-> flags]
            /\ passed' = UnityAssertEqualStringArray(<<e, a>>, p[1], p[2], num, flags)
      BY <1>3, ZenonT(40) DEF AssertEqualStringArray
    <2>2. PICK e \in IF flags = "array" THEN StringArrays ELSE Strings \ {NullString} :
            /\ flags = "value" => p # <<1, 1>>
            /\ call' = [fn |-> "StringArray", mem |-> <<e, a>>, p |-> p, num |-> num,
                        flags |-> flags]
            /\ passed' = UnityAssertEqualStringArray(<<e, a>>, p[1], p[2], num, flags)
      BY <2>1, Zenon
    <2>3. passed' \in BOOLEAN
      BY <2>2, StringsBoolean, Zenon
    <2>4. passed' <=> /\ num > 0
                      /\ \/ p[1] = p[2]
                         \/ /\ NULL \notin {p[1], p[2]}
                            /\ \A j \in 1 .. num : (IF flags = "array" THEN e[j] ELSE e) = a[j]
      <3>1. flags = "value" => p # <<1, 1>>
        BY <2>2, Zenon
      <3>2. UnityAssertEqualStringArray(<<e, a>>, p[1], p[2], num, flags)
              <=> /\ num > 0
                  /\ \/ p[1] = p[2]
                     \/ /\ NULL \notin {p[1], p[2]}
                        /\ \A j \in 1 .. num : (IF flags = "array" THEN e[j] ELSE e) = a[j]
        BY <3>1, StringArrayIs
      <3> QED BY <2>2, <3>2
    <2>5. /\ call'.fn = "StringArray" /\ call'.mem[1] = e /\ call'.mem[2] = a
          /\ call'.p = p /\ call'.num = num /\ call'.flags = flags
          /\ call'.fn # "String" /\ call'.fn # "StringLen"
      BY <2>2
    <2> QED BY <2>3, <2>4, <2>5, Zenon DEF StringsRight, Elementwise
  <1>4. CASE call'.fn \notin {"String", "StringLen", "StringArray"}
    BY <1>4, Zenon DEF StringsRight
  <1> HIDE DEF Make
  <1> QED BY <1>1, <1>2, <1>3, <1>4, CallIs DEF NoCall

\* A string assertion holds exactly if the strings, or their beginnings, are
\* equal, for all strings: StringsRight.
THEOREM StringsRightHolds == Spec => []StringsRight
  <1>1. Init => StringsRight
    BY DEF Init, NoCall, StringsRight
  <1>2. StringsRight /\ [Next]_vars => StringsRight'
    <2>1. StringsRight /\ UNCHANGED vars => StringsRight'
      <3> SUFFICES ASSUME StringsRight, UNCHANGED vars PROVE StringsRight'
        OBVIOUS
      <3>1. call' = call /\ passed' = passed
        BY DEF vars
      <3> DEFINE Begin(string, n) == SubSeq(string, 1, Min({n, Len(string)}))
                 Right(c, holds) ==
                   /\ c.fn = "String" => holds = (c.expected = c.actual)
                   /\ c.fn = "StringLen" =>
                        holds = IF NullString \in {c.expected, c.actual}
                                THEN c.expected = c.actual
                                ELSE Begin(c.expected, c.length) = Begin(c.actual, c.length)
                   /\ c.fn = "StringArray" =>
                        holds = /\ c.num > 0
                                /\ \/ c.p[1] = c.p[2]
                                   \/ /\ NULL \notin {c.p[1], c.p[2]}
                                      /\ \A j \in 1 .. c.num :
                                           (IF c.flags = "array" THEN c.mem[1][j] ELSE c.mem[1])
                                             = c.mem[2][j]
      <3>2. StringsRight = Right(call, passed) /\ StringsRight' = Right(call', passed')
        BY Zenon DEF StringsRight, Elementwise
      <3> HIDE DEF Right
      <3> QED BY <3>1, <3>2, Zenon
    <2> QED BY <2>1, StringsRightStep
  <1> QED BY <1>1, <1>2, PTL DEF Spec

-----------------------------------------------------------------------------
(***************************************************************************)
(* Arrays.  The number in some bytes is a recursive function of where they *)
(* begin; that there is one, and what it comes to, is shown by induction   *)
(* on the number of bytes behind.                                          *)
(***************************************************************************)

LEMMA Induction ==
  ASSUME NEW M \in SUBSET Nat, 0 \in M, \A n \in M : n + 1 \in M
  PROVE  M = Nat
  <1> SUFFICES ASSUME Nat \ M # {} PROVE FALSE
    OBVIOUS
  <1>1. PICK n \in Nat \ M : \A m \in Nat \ M : ~(<<m, n>> \in OpToRel(<, Nat))
    <2>1. Nat \ M \subseteq Nat
      OBVIOUS
    <2> QED BY <2>1, NatLessThanWellFounded, WFMin
  <1>2. n \in Nat /\ n \notin M
    BY <1>1, Zenon
  <1>3. n - 1 \in Nat /\ n - 1 < n /\ (n - 1) + 1 = n
    BY <1>2
  <1>4. n - 1 \notin M
    BY <1>2, <1>3
  <1>5. <<n - 1, n>> \in OpToRel(<, Nat)
    BY <1>2, <1>3 DEF OpToRel
  <1> QED BY <1>1, <1>3, <1>4, <1>5, Zenon

\* f is a function that begins with z at the end and takes each step from the
\* value behind; there is one.
Runs(n, S, z, step, f) ==
  /\ f \in [1 .. n + 1 -> S] /\ f[n + 1] = z
  /\ \A k \in 1 .. n : f[k] = step[<<k, f[k + 1]>>]

LEMMA Backward ==
  ASSUME NEW n \in Nat, NEW S, NEW z \in S, NEW step \in [(1 .. n) \X S -> S]
  PROVE  \E f : Runs(n, S, z, step, f)
  <1> DEFINE Behind(m) == n + 1 - m .. n + 1
             P(m) == \E f \in [Behind(m) -> S] :
                       /\ f[n + 1] = z
                       /\ \A k \in n + 1 - m .. n : f[k] = step[<<k, f[k + 1]>>]
             M == {m \in Nat : m <= n => P(m)}
  <1>1. 0 \in M
    <2> DEFINE f == [k \in Behind(0) |-> z]
    <2>1. f \in [Behind(0) -> S] /\ f[n + 1] = z
      OBVIOUS
    <2>2. \A k \in n + 1 - 0 .. n : f[k] = step[<<k, f[k + 1]>>]
      OBVIOUS
    <2> HIDE DEF f
    <2>3. P(0)
      BY <2>1, <2>2
    <2> HIDE DEF P
    <2> QED BY <2>3
  <1>2. ASSUME NEW m \in M PROVE m + 1 \in M
    <2> HIDE DEF P
    <2> SUFFICES ASSUME m + 1 <= n PROVE P(m + 1)
      OBVIOUS
    <2> USE DEF P
    <2>1. PICK f \in [Behind(m) -> S] :
            /\ f[n + 1] = z
            /\ \A k \in n + 1 - m .. n : f[k] = step[<<k, f[k + 1]>>]
      <3>1. m \in Nat /\ (m <= n => P(m))
        <4> HIDE DEF P
        <4> QED OBVIOUS
      <3> HIDE DEF M
      <3>2. m \in Nat /\ m <= n
        BY <3>1
      <3> QED BY <3>1, <3>2
    <2> DEFINE j == n - m
               g == [k \in Behind(m + 1) |-> IF k = j THEN step[<<j, f[j + 1]>>] ELSE f[k]]
    <2>2. m \in Nat /\ j \in 1 .. n /\ j + 1 \in Behind(m)
      <3> HIDE DEF P
      <3>1. m \in Nat /\ m + 1 <= n
        OBVIOUS
      <3> HIDE DEF M
      <3> QED BY <3>1
    <2>3. step[<<j, f[j + 1]>>] \in S
      <3> HIDE DEF j, Behind, M
      <3> QED BY <2>2
    <2>4. g \in [Behind(m + 1) -> S]
      BY <2>2, <2>3
    <2>5. g[j] = step[<<j, f[j + 1]>>] /\ \A k \in Behind(m) : g[k] = f[k]
      OBVIOUS
    <2> HIDE DEF g
    <2>6. g[n + 1] = z
      BY <2>1, <2>5
    <2>7. ASSUME NEW k \in n + 1 - (m + 1) .. n
          PROVE  g[k] = step[<<k, g[k + 1]>>]
      <3>1. CASE k = j
        BY <2>2, <2>5, <3>1
      <3>2. CASE k # j
        <4>1. k \in n + 1 - m .. n /\ k \in Behind(m) /\ k + 1 \in Behind(m)
          BY <2>2, <3>2
        <4>2. g[k] = f[k] /\ g[k + 1] = f[k + 1]
          BY <2>5, <4>1, Zenon
        <4>3. f[k] = step[<<k, f[k + 1]>>]
          BY <2>1, <4>1, Zenon
        <4> QED BY <4>2, <4>3
      <3> QED BY <3>1, <3>2
    <2> QED BY <2>4, <2>6, <2>7
  <1>3. P(n)
    <2>1. M \in SUBSET Nat
      OBVIOUS
    <2> HIDE DEF M
    <2>2. n \in M
      BY <1>1, <1>2, <2>1, Induction
    <2> QED BY <2>2 DEF M
  <1> QED BY <1>3 DEF Runs

Byte == 0 .. 255

\* f[k] is the number in the bytes of v from k on.
Digits(n, v, f) ==
  /\ v \in [1 .. n -> Byte] /\ f \in [1 .. n + 1 -> Nat]
  /\ f[n + 1] = 0
  /\ \A k \in 1 .. n : f[k] = v[k] + 256 * f[k + 1]

LEMMA DigitsExist ==
  ASSUME NEW n \in Nat, NEW v \in [1 .. n -> Byte]
  PROVE  \E f : Digits(n, v, f)
  <1> DEFINE step == [p \in (1 .. n) \X Nat |-> v[p[1]] + 256 * p[2]]
  <1>1. \A k \in 1 .. n : v[k] \in Byte
    OBVIOUS
  <1>2. \A k \in 1 .. n, x \in Nat : v[k] + 256 * x \in Nat
    <2> TAKE k \in 1 .. n, x \in Nat
    <2> DEFINE w == v[k]
    <2>1. w \in Byte
      BY <1>1
    <2> HIDE DEF w
    <2>2. w + 256 * x \in Nat
      BY <2>1 DEF Byte
    <2> QED BY <2>2 DEF w
  <1>3. /\ step \in [(1 .. n) \X Nat -> Nat]
        /\ \A k \in 1 .. n, x \in Nat : step[<<k, x>>] = v[k] + 256 * x
    BY <1>2
  <1> HIDE DEF step
  <1>4. PICK f \in [1 .. n + 1 -> Nat] :
          f[n + 1] = 0 /\ \A k \in 1 .. n : f[k] = step[<<k, f[k + 1]>>]
    <2>1. \E f : Runs(n, Nat, 0, step, f)
      BY <1>3, Backward
    <2> QED BY <2>1 DEF Runs
  <1>5. \A k \in 1 .. n : f[k + 1] \in Nat
    OBVIOUS
  <1>6. \A k \in 1 .. n : f[k] = v[k] + 256 * f[k + 1]
    BY <1>3, <1>4, <1>5, ZenonT(40)
  <1> QED BY <1>4, <1>6 DEF Digits

LEMMA ElementIs ==
  ASSUME NEW bytes, NEW i, NEW n \in Nat, NEW v \in [1 .. n -> Byte],
         \A k \in 1 .. n : bytes[i * n + k] = v[k]
  PROVE  \E f : Digits(n, v, f) /\ Element(bytes, i, n) = f[1]
  <1> DEFINE Step(f) == [k \in 1 .. n + 1 |->
                           IF k > n THEN 0 ELSE bytes[i * n + k] + 256 * f[k + 1]]
             number == CHOOSE number : number = Step(number)
  <1>1. Element(bytes, i, n) = number[1]
    BY Zenon DEF Element
  <1>2. PICK f : Digits(n, v, f)
    BY DigitsExist
  <1>3. f = Step(f)
    BY <1>2 DEF Digits
  <1>4. number = Step(number)
    <2> HIDE DEF Step
    <2> QED BY <1>3
  <1>5. number = f
    <2>1. \A k \in 1 .. n + 1 : number[k] = IF k > n THEN 0 ELSE v[k] + 256 * number[k + 1]
      <3> HIDE DEF number
      <3> QED BY <1>4
    <2> HIDE DEF number
    <2> DEFINE M == {m \in Nat : m <= n => number[n + 1 - m] = f[n + 1 - m]}
    <2>2. 0 \in M
      BY <1>2, <2>1 DEF Digits
    <2>3. ASSUME NEW m \in M PROVE m + 1 \in M
      <3> SUFFICES ASSUME m + 1 <= n PROVE number[n - m] = f[n - m]
        OBVIOUS
      <3>1. n - m \in 1 .. n /\ (n - m) + 1 = n + 1 - m /\ n - m \in 1 .. n + 1
        OBVIOUS
      <3>2. number[n + 1 - m] = f[n + 1 - m]
        OBVIOUS
      <3> QED BY <1>2, <2>1, <3>1, <3>2, SMTT(40) DEF Digits
    <2>4. M = Nat
      <3>1. M \in SUBSET Nat
        OBVIOUS
      <3> HIDE DEF M
      <3> QED BY <2>2, <2>3, <3>1, Induction
    <2>5. \A k \in 1 .. n + 1 : number[k] = f[k]
      <3> TAKE k \in 1 .. n + 1
      <3>1. n + 1 - k \in Nat /\ n + 1 - k <= n /\ n + 1 - (n + 1 - k) = k
        OBVIOUS
      <3>2. n + 1 - k \in M
        BY <2>4, <3>1
      <3> QED BY <3>1, <3>2
    <2>6. number = [k \in 1 .. n + 1 |-> number[k]]
      BY <1>4
    <2>7. f = [k \in 1 .. n + 1 |-> f[k]]
      BY <1>2 DEF Digits
    <2> QED BY <2>5, <2>6, <2>7
  <1> QED BY <1>1, <1>2, <1>5

LEMMA SizeNext ==
  ASSUME NEW m \in Nat
  PROVE  /\ Size(m) \in Nat \ {0} /\ Size(m + 1) = 256 * Size(m)
         /\ Size(0) = 1
  <1>1. 8 * m \in Nat /\ 8 * (m + 1) = 8 + 8 * m /\ 8 * 0 = 0
    OBVIOUS
  <1>2. Size(m) \in Nat \ {0}
    BY <1>1, PowerType DEF Size
  <1>3. 2^8 = 256 /\ 2^0 = 1
    OBVIOUS
  <1>4. 2^(8 + 8 * m) = 2^8 * 2^(8 * m)
    BY <1>1, PowerSum
  <1>5. Size(m + 1) = 2^8 * Size(m)
    BY <1>1, <1>4, Zenon DEF Size
  <1> QED BY <1>1, <1>2, <1>3, <1>5 DEF Size

\* n bytes hold a number less than the size of their type.
LEMMA DigitsBound ==
  ASSUME NEW n \in Nat, NEW v, NEW f, Digits(n, v, f)
  PROVE  f[1] \in 0 .. Size(n) - 1
  <1> DEFINE M == {m \in Nat : m <= n => f[n + 1 - m] \in 0 .. Size(m) - 1}
  <1>1. 0 \in M
    <2>1. f[n + 1] = 0
      BY DEF Digits
    <2> QED BY <2>1, SizeNext
  <1>2. ASSUME NEW m \in M PROVE m + 1 \in M
    <2> SUFFICES ASSUME m + 1 <= n PROVE f[n - m] \in 0 .. Size(m + 1) - 1
      OBVIOUS
    <2>1. m \in Nat /\ n - m \in 1 .. n /\ (n - m) + 1 = n + 1 - m
      OBVIOUS
    <2>2. f[n + 1 - m] \in 0 .. Size(m) - 1
      BY <2>1
    <2>3. f[n - m] = v[n - m] + 256 * f[n + 1 - m] /\ v[n - m] \in 0 .. 255
      BY <2>1 DEF Digits, Byte
    <2> DEFINE s == Size(m)
               t == Size(m + 1)
    <2>4. s \in Nat /\ t = 256 * s
      BY <2>1, SizeNext
    <2> HIDE DEF s, t
    <2> QED BY <2>2, <2>3, <2>4 DEF s, t
  <1>3. n \in M
    <2>1. M \in SUBSET Nat
      OBVIOUS
    <2> HIDE DEF M
    <2> QED BY <1>1, <1>2, <2>1, Induction
  <1> QED BY <1>3

\* They hold one number only if they are the same.
LEMMA DigitsUnique ==
  ASSUME NEW n \in Nat, NEW u, NEW v, NEW f, NEW g, Digits(n, u, f), Digits(n, v, g)
  PROVE  f[1] = g[1] <=> \A k \in 1 .. n : u[k] = v[k]
  <1> DEFINE Same(m) == \A k \in n + 1 - m .. n : u[k] = v[k]
             M == {m \in Nat : m <= n => (f[n + 1 - m] = g[n + 1 - m] <=> Same(m))}
  <1>1. 0 \in M
    <2>1. f[n + 1] = 0 /\ g[n + 1] = 0
      BY DEF Digits
    <2> QED BY <2>1
  <1>2. ASSUME NEW m \in M PROVE m + 1 \in M
    <2> HIDE DEF Same
    <2> SUFFICES ASSUME m + 1 <= n PROVE f[n - m] = g[n - m] <=> Same(m + 1)
      OBVIOUS
    <2>1. m \in Nat /\ n - m \in 1 .. n /\ (n - m) + 1 = n + 1 - m /\ n + 1 - m \in 1 .. n + 1
      OBVIOUS
    <2>2. f[n + 1 - m] = g[n + 1 - m] <=> Same(m)
      BY <2>1
    <2>3. /\ f[n - m] = u[n - m] + 256 * f[n + 1 - m] /\ u[n - m] \in 0 .. 255
          /\ g[n - m] = v[n - m] + 256 * g[n + 1 - m] /\ v[n - m] \in 0 .. 255
          /\ f[n + 1 - m] \in Nat /\ g[n + 1 - m] \in Nat
      BY <2>1, SMTT(40) DEF Digits, Byte
    <2>4. f[n - m] = g[n - m] <=> u[n - m] = v[n - m] /\ f[n + 1 - m] = g[n + 1 - m]
      <3> DEFINE a == u[n - m]
                 b == v[n - m]
                 x == f[n + 1 - m]
                 y == g[n + 1 - m]
      <3>1. /\ a \in 0 .. 255 /\ b \in 0 .. 255 /\ x \in Nat /\ y \in Nat
            /\ f[n - m] = a + 256 * x /\ g[n - m] = b + 256 * y
        BY <2>3
      <3> HIDE DEF a, b, x, y
      <3>2. f[n - m] = g[n - m] <=> a = b /\ x = y
        BY <3>1
      <3> QED BY <3>2 DEF a, b, x, y
    <2>5. Same(m + 1) <=> u[n - m] = v[n - m] /\ Same(m)
      BY <2>1 DEF Same
    <2> QED BY <2>2, <2>4, <2>5
  <1>3. n \in M
    <2>1. M \in SUBSET Nat
      OBVIOUS
    <2> HIDE DEF M
    <2> QED BY <1>1, <1>2, <2>1, Induction
  <1> QED BY <1>3

Splits(x, s) == x % (256 * s) = (x % 256) + 256 * ((x \div 256) % s)

\* What remains of a number is its byte and what remains of the others.
LEMMA RemainderNext ==
  ASSUME NEW x \in Int, NEW s \in Nat \ {0}
  PROVE  Splits(x, s)
  <1> DEFINE q == x \div 256
             r == x % 256
             p == q \div s
             w == q % s
  <1>1. q \in Int /\ r \in 0 .. 255 /\ x = 256 * q + r
    OBVIOUS
  <1>2. p \in Int /\ w \in 0 .. s - 1 /\ q = s * p + w
    <2> HIDE DEF q
    <2> QED BY <1>1
  <1>3. 256 * s \in Nat \ {0} /\ 256 * w + r \in 0 .. (256 * s) - 1
    <2> HIDE DEF q, r, p, w
    <2> QED BY <1>1, <1>2
  <1>4. x = (256 * s) * p + (256 * w + r)
    <2> DEFINE y == s * p
    <2>1. y \in Int /\ (256 * s) * p = 256 * y
      <3> HIDE DEF p
      <3> QED BY <1>2
    <2> HIDE DEF y, q, r, p, w
    <2> QED BY <1>1, <1>2, <2>1 DEF y
  <1>5. x % (256 * s) = 256 * w + r
    <2> DEFINE m == 256 * s
               z == 256 * w + r
    <2>1. m \in Nat \ {0} /\ z \in 0 .. m - 1 /\ p \in Int /\ x \in Int /\ x = m * p + z
      BY <1>2, <1>3, <1>4
    <2> HIDE DEF m, z, p
    <2>2. x % m = z
      BY <2>1, RemainderIs
    <2> QED BY <2>2 DEF m, z
  <1> HIDE DEF q, r, p, w
  <1>6. 256 * w + r = r + 256 * w
    BY <1>1, <1>2
  <1> QED BY <1>5, <1>6, Zenon DEF q, r, w, Splits

\* To divide by a product is to divide twice.
LEMMA DivideTwice ==
  ASSUME NEW x \in Int, NEW s \in Nat \ {0}, NEW t \in Nat \ {0}
  PROVE  x \div (s * t) = (x \div s) \div t
  <1> DEFINE q == x \div s
             r == x % s
             p == q \div t
             w == q % t
             y == s * p
             z == s * w
             m == s * t
  <1>1. q \in Int /\ r \in 0 .. s - 1 /\ x = s * q + r
    OBVIOUS
  <1> HIDE DEF q, r
  <1>2. p \in Int /\ w \in 0 .. t - 1 /\ q = t * p + w
    BY <1>1
  <1> HIDE DEF p, w
  <1>3. y \in Int /\ z \in Nat /\ m \in Nat \ {0} /\ m * p = t * y
    BY <1>2
  <1>4. s * q = t * y + z
    BY <1>1, <1>2
  <1>5. z <= m - s
    <2> DEFINE u == t - 1 - w
    <2>1. u \in Nat /\ w = t - 1 - u
      BY <1>2
    <2> HIDE DEF u
    <2>2. s * u \in Nat /\ z = s * t - s - s * u
      BY <2>1
    <2> QED BY <1>3, <2>2
  <1> HIDE DEF y, z, m
  <1>6. x = m * p + (z + r) /\ z + r \in 0 .. m - 1
    BY <1>1, <1>3, <1>4, <1>5
  <1>7. x \div m = p
    BY <1>2, <1>3, <1>6, RemainderIs
  <1> QED BY <1>7 DEF m, p, q

\* The bytes of a number, from k on, hold what is left of it.
LEMMA DigitsOf ==
  ASSUME NEW n \in Nat, NEW v, NEW f, Digits(n, v, f), NEW N \in Int,
         \A k \in 1 .. n : v[k] = (N \div Size(k - 1)) % 256
  PROVE  f[1] = N % Size(n)
  <1> DEFINE Left(k) == N \div Size(k)
             M == {m \in Nat : m <= n => f[n + 1 - m] = Left(n - m) % Size(m)}
  <1>1. \A k \in Nat : Left(k) \in Int /\ Left(k + 1) = Left(k) \div 256
    <2> TAKE k \in Nat
    <2> DEFINE s == Size(k)
    <2>1. s \in Nat \ {0} /\ Size(k + 1) = s * 256
      BY SizeNext
    <2> HIDE DEF s
    <2>2. N \div s \in Int
      BY <2>1
    <2>3. N \div (s * 256) = (N \div s) \div 256
      BY <2>1, DivideTwice
    <2> QED BY <2>1, <2>2, <2>3 DEF s
  <1> HIDE DEF Left
  <1>2. 0 \in M
    <2>1. f[n + 1] = 0
      BY DEF Digits
    <2>2. Left(n) % 1 = 0 /\ Size(0) = 1
      BY <1>1, SizeNext
    <2> QED BY <2>1, <2>2
  <1>3. ASSUME NEW m \in M PROVE m + 1 \in M
    <2> SUFFICES ASSUME m + 1 <= n PROVE f[n - m] = Left(n - (m + 1)) % Size(m + 1)
      OBVIOUS
    <2> DEFINE j == n - m
    <2>1. m \in Nat /\ j \in 1 .. n /\ j + 1 = n + 1 - m /\ j - 1 \in Nat /\ (j - 1) + 1 = j
          /\ n - (m + 1) = j - 1
      OBVIOUS
    <2>2. f[j + 1] = Left(j) % Size(m)
      BY <2>1
    <2>3. f[j] = v[j] + 256 * f[j + 1]
      BY <2>1 DEF Digits
    <2>4. v[j] = Left(j - 1) % 256
      BY <2>1 DEF Left
    <2>5. Left(j) = Left(j - 1) \div 256 /\ Left(j - 1) \in Int
      BY <1>1, <2>1
    <2>6. Size(m) \in Nat \ {0} /\ Size(m + 1) = 256 * Size(m)
      BY <2>1, SizeNext
    <2> HIDE DEF j, M
    <2>7. Left(j - 1) % (256 * Size(m))
            = (Left(j - 1) % 256) + 256 * ((Left(j - 1) \div 256) % Size(m))
      <3>1. Splits(Left(j - 1), Size(m))
        BY <2>5, <2>6, RemainderNext
      <3> QED BY <3>1, Zenon DEF Splits
    <2>8. f[j] = Left(j - 1) % Size(m + 1)
      <3>1. f[j + 1] = (Left(j - 1) \div 256) % Size(m)
        BY <2>2, <2>5, Zenon
      <3> QED BY <2>3, <2>4, <2>6, <2>7, <3>1, Zenon
    <2> QED BY <2>1, <2>8 DEF j
  <1>4. n \in M
    <2>1. M \in SUBSET Nat
      OBVIOUS
    <2> HIDE DEF M
    <2> QED BY <1>2, <1>3, <2>1, Induction
  <1>5. Left(0) = N
    BY SizeNext DEF Left
  <1> QED BY <1>4, <1>5

\* A type narrower than another takes the same of a number from either.
LEMMA Narrow ==
  ASSUME NEW b \in Nat \ {0}, NEW c \in Nat, b <= c, NEW x \in Int
  PROVE  Unsigned(Unsigned(x, c), b) = Unsigned(x, b)
  <1> DEFINE u == Unsigned(x, c)
             s == Size(b)
             t == Size(c)
  <1>1. c \in Nat \ {0}
    OBVIOUS
  <1>2. u \in Int /\ \E q \in Int : x = t * q + u
    BY <1>1, UnsignedIs
  <1>3. PICK q \in Int : x = t * q + u
    BY <1>2
  <1>4. PICK r \in Nat \ {0} : t = s * r
    BY SizeDivides
  <1>5. s \in Nat
    BY SizeType
  <1> HIDE DEF u, s, t
  <1>6. x = s * (r * q) + u /\ r * q \in Int
    BY <1>2, <1>3, <1>4, <1>5
  <1>7. Unsigned(x, b) = Unsigned(u, b)
    <2> DEFINE k == r * q
    <2>1. k \in Int /\ x = s * k + u
      BY <1>6
    <2> HIDE DEF k
    <2> QED BY <1>2, <2>1, UnsignedShift DEF s
  <1> QED BY <1>7 DEF u

\* Element i of b, of n bytes, is there; and two are the same.
AreBytes(b, i, n) == \A k \in 1 .. n : b[i * n + k] \in Byte
SameBytes(b, i, c, j, n) == \A k \in 1 .. n : b[i * n + k] = c[j * n + k]

\* Two elements hold numbers of their type, the same only in the same bytes.
LEMMA ElementsAre ==
  ASSUME NEW n \in Nat, NEW b, NEW i, NEW c, NEW j,
         AreBytes(b, i, n), AreBytes(c, j, n)
  PROVE  /\ Element(b, i, n) \in 0 .. Size(n) - 1
         /\ Element(c, j, n) \in 0 .. Size(n) - 1
         /\ Element(b, i, n) = Element(c, j, n) <=> SameBytes(b, i, c, j, n)
  <1> DEFINE u == [k \in 1 .. n |-> b[i * n + k]]
             v == [k \in 1 .. n |-> c[j * n + k]]
  <1>1. /\ u \in [1 .. n -> Byte] /\ \A k \in 1 .. n : b[i * n + k] = u[k]
        /\ v \in [1 .. n -> Byte] /\ \A k \in 1 .. n : c[j * n + k] = v[k]
    BY DEF AreBytes
  <1> HIDE DEF u, v
  <1>2. PICK f : Digits(n, u, f) /\ Element(b, i, n) = f[1]
    BY <1>1, ElementIs
  <1>3. PICK g : Digits(n, v, g) /\ Element(c, j, n) = g[1]
    BY <1>1, ElementIs
  <1>4. f[1] \in 0 .. Size(n) - 1 /\ g[1] \in 0 .. Size(n) - 1
    BY <1>2, <1>3, DigitsBound
  <1>5. f[1] = g[1] <=> \A k \in 1 .. n : u[k] = v[k]
    BY <1>2, <1>3, DigitsUnique
  <1>6. SameBytes(b, i, c, j, n) <=> \A k \in 1 .. n : u[k] = v[k]
    BY <1>1 DEF SameBytes
  <1> QED BY <1>2, <1>3, <1>4, <1>5, <1>6

Quick == [1 .. WideBytes -> Byte]

\* The union holds the value an EACH_EQUAL assertion stored, in its type.
LEMMA StoredIs ==
  ASSUME NEW q \in Quick, NEW num \in Int, NEW n \in Nat \ {0}, n <= WideBytes
  PROVE  /\ UnityNumToPtr(q, num, n) \in Quick
         /\ Element(UnityNumToPtr(q, num, n), 0, n) = Unsigned(num, n)
  <1> DEFINE p == UnityNumToPtr(q, num, n)
             N == Unsigned(num, WideBytes)
             v == [k \in 1 .. n |-> (N \div Size(k - 1)) % 256]
  <1>1. WideBytes \in Nat \ {0}
    BY BytesAssumption
  <1>2. N \in Nat
    BY <1>1, UnsignedIs, SizeType
  <1>3. \A k \in 1 .. WideBytes : (N \div Size(k - 1)) % 256 \in Byte
    <2> TAKE k \in 1 .. WideBytes
    <2> DEFINE s == Size(k - 1)
    <2>1. s \in Nat \ {0}
      BY SizeNext
    <2> HIDE DEF s, N
    <2>2. N \div s \in Nat
      BY <1>2, <2>1
    <2> QED BY <2>2 DEF Byte, s
  <1> HIDE DEF N
  <1>4. p = [k \in 1 .. WideBytes |-> IF k <= n THEN (N \div Size(k - 1)) % 256 ELSE q[k]]
    BY DEF UnityNumToPtr, Quick, Size, N
  <1>5. p \in Quick
    <2>1. \A k \in 1 .. WideBytes : q[k] \in Byte
      BY DEF Quick
    <2> HIDE DEF p
    <2> QED BY <1>3, <1>4, <2>1 DEF Quick
  <1>6. v \in [1 .. n -> Byte] /\ \A k \in 1 .. n : p[0 * n + k] = v[k]
    <2> HIDE DEF p
    <2>1. \A k \in 1 .. n : 0 * n + k = k /\ k \in 1 .. WideBytes
      BY <1>1
    <2>2. \A k \in 1 .. n : p[k] = v[k]
      BY <1>4, <2>1
    <2> QED BY <1>3, <2>1, <2>2
  <1>7. \A k \in 1 .. n : v[k] = (N \div Size(k - 1)) % 256
    OBVIOUS
  <1> HIDE DEF p, v
  <1>8. PICK f : Digits(n, v, f) /\ Element(p, 0, n) = f[1]
    BY <1>6, ElementIs
  <1>9. f[1] = N % Size(n)
    BY <1>2, <1>7, <1>8, DigitsOf
  <1>10. N % Size(n) = Unsigned(num, n)
    BY <1>1, Narrow DEF N, Unsigned, Size
  <1> QED BY <1>5, <1>8, <1>9, <1>10 DEF p

\* An argument of an assertion of equality is the number in the bytes of its type.
LEMMA ArgumentShown ==
  ASSUME NEW type \in Styles, NEW n \in Int
  PROVE  /\ EqualArgument(n, type) \in Int
         /\ Unsigned(EqualArgument(n, type), type.length) = Unsigned(n, type.length)
         /\ IsInt(type) => EqualArgument(n, type) \in -Half(type.length) .. Half(type.length) - 1
  <1> DEFINE b == type.length
  <1>1. b \in Nat \ {0} /\ b <= WideBytes /\ WideBytes \in Nat \ {0}
    BY StyleIs
  <1>2. IsInt(type) => type.range # "uint"
    BY StyleIs
  <1> HIDE DEF b
  <1>3. CASE type.range = "uint"
    <2> DEFINE u == Unsigned(n, b)
               v == Signed(u, WideBytes)
    <2>1. EqualArgument(n, type) = v
      BY <1>3 DEF EqualArgument, b
    <2>2. u \in 0 .. Size(b) - 1 /\ u \in Int
      BY <1>1, UnsignedIs
    <2> HIDE DEF u
    <2>3. v \in Int /\ Unsigned(v, WideBytes) = u
      BY <1>1, <2>2, ThroughWide
    <2>4. Unsigned(Unsigned(v, WideBytes), b) = Unsigned(v, b)
      BY <1>1, <2>3, Narrow
    <2>5. Unsigned(u, b) = u
      BY <1>1, <2>2, UnsignedSmall
    <2> QED BY <1>2, <1>3, <2>1, <2>3, <2>4, <2>5 DEF u, b
  <1>4. CASE type.range # "uint"
    <2>1. EqualArgument(n, type) = Signed(n, b)
      BY <1>4 DEF EqualArgument, b
    <2>2. /\ Signed(n, b) \in Int /\ Unsigned(Signed(n, b), b) = Unsigned(n, b)
          /\ Signed(n, b) \in -Half(b) .. Half(b) - 1
      BY <1>1, SignedIs
    <2> QED BY <2>1, <2>2 DEF b
  <1> QED BY <1>3, <1>4

\* Its lower bytes are those of the number.
LEMMA ArgumentBytes ==
  ASSUME NEW style \in Styles, NEW type \in ArgumentTypes(style), NEW n \in Int
  PROVE  /\ EqualArgument(n, type) \in Int
         /\ Unsigned(EqualArgument(n, type), style.length) = Unsigned(n, style.length)
  <1> DEFINE x == EqualArgument(n, type)
             b == style.length
             c == type.length
  <1>1. type \in Styles /\ b \in Nat \ {0} /\ c \in Nat /\ b <= c
    BY TypeIs, StyleIs
  <1>2. x \in Int /\ Unsigned(x, c) = Unsigned(n, c)
    BY <1>1, ArgumentShown
  <1> HIDE DEF x, b, c
  <1>3. Unsigned(Unsigned(x, c), b) = Unsigned(x, b) /\ Unsigned(Unsigned(n, c), b) = Unsigned(n, b)
    BY <1>1, <1>2, Narrow
  <1> QED BY <1>2, <1>3 DEF x, b

\* A union of EACH_EQUAL assertions is bytes.
QuickType == quick \in Quick

LEMMA QuickTypeHolds == Spec => []QuickType
  <1>1. Init => QuickType
    BY DEF Init, QuickType, Quick, Byte
  <1>2. QuickType /\ [Next]_vars => QuickType'
    <2> SUFFICES ASSUME QuickType, [Next]_vars PROVE QuickType'
      OBVIOUS
    <2>1. CASE AssertEachEqual
      <3>1. PICK value \in EachValues, style \in Styles, type \in Styles :
              /\ type \in ArgumentTypes(style)
              /\ quick' = UnityNumToPtr(quick, EqualArgument(value, type), style.length)
        BY <2>1, TypeIs, Zenon DEF AssertEachEqual
      <3>2. EqualArgument(value, type) \in Int
        BY NumbersAssumption, TypeIs, ArgumentShown
      <3> QED BY <3>1, <3>2, StyleIs, StoredIs DEF QuickType
    <2>2. CASE UNCHANGED quick
      BY <2>2 DEF QuickType
    <2>3. AssertEachEqual \/ UNCHANGED quick
      BY DEF Next, IntegerAssert, FloatAssert, StringAssert, Continue, AssertBits,
             AssertEqualNumber, AssertOrder, AssertWithin, AssertEqualIntArray,
             AssertNumbersArrayWithin, AssertEqualMemory, AssertFloatsWithin,
             AssertEqualFloats, AssertFloatArray, AssertFloatOrder, AssertFloatSpecial,
             ShowFloat, AssertEqualString, AssertEqualStringLen, AssertEqualStringArray,
             Select, vars
    <2> QED BY <2>1, <2>2, <2>3
  <1> QED BY <1>1, <1>2, PTL DEF Spec

LEMMA ArrayIs ==
  ASSUME NEW b \in Arrays, NEW n \in Nat \ {0}, NEW num \in Fits(n), NEW i \in 0 .. num - 1
  PROVE  AreBytes(b, i, n)
  <1> SUFFICES ASSUME NEW k \in 1 .. n PROVE b[i * n + k] \in Byte
    BY DEF AreBytes
  <1> DEFINE c == CHOOSE b_ \in Arrays : TRUE
  <1>1. c \in Arrays
    OBVIOUS
  <1>2. num \in 0 .. 2 /\ num * n <= Len(c)
    BY DEF Fits
  <1> HIDE DEF c
  <1>3. b \in Seq(Byte) /\ c \in Seq(Byte) /\ Len(b) = Len(c)
    BY <1>1, ArraysAssumption DEF Byte
  <1>4. i * n + k \in 1 .. num * n
    <2>1. num \in {1, 2} /\ i \in {0, 1} /\ (num = 1 => i = 0)
      BY <1>2
    <2>2. CASE num = 1
      BY <2>1, <2>2
    <2>3. CASE num = 2
      BY <2>1, <2>3
    <2> QED BY <2>1, <2>2, <2>3
  <1>5. i * n + k \in 1 .. Len(b)
    <2> DEFINE x == i * n + k
               y == num * n
    <2>1. x \in 1 .. y /\ y <= Len(b) /\ Len(b) \in Nat
      BY <1>2, <1>3, <1>4
    <2>2. y \in Int
      BY <1>2
    <2> HIDE DEF x, y
    <2> QED BY <2>1, <2>2 DEF x
  <1> QED BY <1>3, <1>5

\* An element is read as a number that tells it from others of its type.
LEMMA EqualElementIs ==
  ASSUME NEW style \in Styles, NEW b, NEW i, NEW c, NEW j,
         AreBytes(b, i, style.length), AreBytes(c, j, style.length)
  PROVE  EqualElement(b, i, style) = EqualElement(c, j, style)
           <=> Element(b, i, style.length) = Element(c, j, style.length)
  <1> DEFINE n == style.length
             x == Element(b, i, n)
             y == Element(c, j, n)
  <1>1. n \in Nat \ {0}
    BY StyleIs
  <1>2. x \in 0 .. Size(n) - 1 /\ y \in 0 .. Size(n) - 1
    BY <1>1, ElementsAre
  <1>3. Size(n) \in Nat
    BY <1>1, SizeType
  <1> HIDE DEF n, x, y
  <1>4. x \in Int /\ y \in Int /\ Unsigned(x, n) = x /\ Unsigned(y, n) = y
    BY <1>1, <1>2, <1>3, UnsignedSmall
  <1>5. Signed(x, n) = Signed(y, n) <=> x = y
    BY <1>1, <1>4, SignedSame
  <1>6. EqualElement(b, i, style) = (IF IsInt(style) \/ n = WideBytes THEN Signed(x, n) ELSE x)
    BY DEF EqualElement, n, x
  <1>7. EqualElement(c, j, style) = (IF IsInt(style) \/ n = WideBytes THEN Signed(y, n) ELSE y)
    BY DEF EqualElement, n, y
  <1>8. EqualElement(b, i, style) = EqualElement(c, j, style) <=> x = y
    BY <1>5, <1>6, <1>7
  <1> QED BY <1>8 DEF x, y, n

LEMMA PointersAre ==
  ASSUME NEW p \in Pointers
  PROVE  \/ p = <<1, 2>> /\ NULL \notin {p[1], p[2]} /\ p[1] # p[2] /\ p[1] = 1 /\ p[2] = 2
         \/ p[1] = p[2]
         \/ NULL \in {p[1], p[2]} /\ p[1] # p[2]
  BY DEF Pointers, NULL

LEMMA EqualIntArrayIs ==
  ASSUME NEW mem \in [1 .. 2 -> Arrays], NEW p \in Pointers, NEW style \in Styles,
         NEW num \in Fits(style.length)
  PROVE  UnityAssertEqualIntArray(mem, p[1], p[2], num, style, "array")
           = UnityAssertEqualMemory(mem, p[1], p[2], style.length, num, "array")
  <1> DEFINE n == style.length
             Same(i) == EqualElement(mem[p[1]], i, style) = EqualElement(mem[p[2]], i, style)
             Bytes(i) == SameBytes(mem[p[1]], i, mem[p[2]], i, n)
  <1>1. n \in Nat \ {0}
    BY StyleIs
  <1> DEFINE L == UnityAssertEqualIntArray(mem, p[1], p[2], num, style, "array")
             R == UnityAssertEqualMemory(mem, p[1], p[2], n, num, "array")
  <1>2. /\ L \in BOOLEAN
        /\ L <=> /\ num > 0
                 /\ \/ p[1] = p[2]
                    \/ NULL \notin {p[1], p[2]} /\ \A i \in 0 .. num - 1 : Same(i)
    BY DEF UnityAssertEqualIntArray, ArraysHold, Walk
  <1>3. /\ R \in BOOLEAN
        /\ R <=> /\ n > 0
                 /\ num > 0
                 /\ \/ p[1] = p[2]
                    \/ NULL \notin {p[1], p[2]} /\ \A i \in 0 .. num - 1 : Bytes(i)
    BY DEF UnityAssertEqualMemory, ArraysHold, Walk, SameBytes
  <1>4. ASSUME p[1] = 1, p[2] = 2, NEW i \in 0 .. num - 1
        PROVE  Same(i) <=> Bytes(i)
    <2> DEFINE b == mem[p[1]]
               c == mem[p[2]]
    <2>1. b \in Arrays /\ c \in Arrays
      BY <1>4
    <2> HIDE DEF b, c
    <2>2. AreBytes(b, i, n) /\ AreBytes(c, i, n)
      BY <1>1, <2>1, ArrayIs
    <2>3. EqualElement(b, i, style) = EqualElement(c, i, style)
            <=> Element(b, i, n) = Element(c, i, n)
      BY <2>2, EqualElementIs
    <2>4. Element(b, i, n) = Element(c, i, n) <=> SameBytes(b, i, c, i, n)
      BY <1>1, <2>2, ElementsAre
    <2> QED BY <2>3, <2>4 DEF b, c
  <1> HIDE DEF Same, Bytes, L, R
  <1>5. \/ p[1] = p[2] \/ NULL \in {p[1], p[2]}
        \/ \A i \in 0 .. num - 1 : Same(i) <=> Bytes(i)
    BY <1>4, PointersAre, Zenon
  <1>6. n > 0
    BY <1>1
  <1>7. L <=> R
    BY <1>2, <1>3, <1>5, <1>6, Zenon
  <1>8. L = R
    BY <1>2, <1>3, <1>7
  <1> QED BY <1>8 DEF L, R

LEMMA ArrayWithinIs ==
  ASSUME NEW mem \in [1 .. 2 -> Arrays], NEW p \in Pointers, NEW style \in Styles,
         NEW num \in Fits(style.length), NEW delta \in Int
  PROVE  UnityAssertNumbersArrayWithin(mem, delta, p[1], p[2], num, style, "array") =
           /\ num > 0
           /\ \/ p[1] = p[2]
              \/ /\ NULL \notin {p[1], p[2]}
                 /\ \A i \in 0 .. num - 1 :
                      Distance(Meaning(Element(mem[1], i, style.length), style),
                               Meaning(Element(mem[2], i, style.length), style)) <= delta
  <1> DEFINE n == style.length
             Holds(i) == UnityAssertNumbersWithin(delta, WithinElement(mem[p[1]], i, style),
                                                 WithinElement(mem[p[2]], i, style), style)
             Close(i) == Distance(Meaning(Element(mem[1], i, n), style),
                                  Meaning(Element(mem[2], i, n), style)) <= delta
  <1>1. n \in Nat \ {0} /\ n <= WideBytes /\ WideBytes \in Nat \ {0}
    BY StyleIs
  <1>2. UnityAssertNumbersArrayWithin(mem, delta, p[1], p[2], num, style, "array") =
          /\ num > 0
          /\ \/ p[1] = p[2]
             \/ NULL \notin {p[1], p[2]} /\ \A i \in 0 .. num - 1 : Holds(i)
    BY Zenon DEF UnityAssertNumbersArrayWithin, ArraysHold, Walk
  <1>3. ASSUME NEW x \in 0 .. Size(n) - 1
        PROVE  /\ x \in Int
               /\ (IF IsInt(style) THEN Signed(x, n) ELSE Signed(x, WideBytes))
                    = OrderArgument(x, style)
    <2>1. Size(n) \in Nat
      BY <1>1, SizeType
    <2>2. x \in Int
      BY <2>1
    <2>3. Unsigned(x, n) = x
      BY <1>1, UnsignedSmall
    <2> QED BY <2>2, <2>3, Zenon DEF OrderArgument, n
  <1>4. ASSUME p[1] = 1, p[2] = 2, NEW i \in 0 .. num - 1
        PROVE  Holds(i) = Close(i)
    <2> DEFINE b == mem[1]
               c == mem[2]
               x == Element(b, i, n)
               y == Element(c, i, n)
    <2>1. b \in Arrays /\ c \in Arrays
      OBVIOUS
    <2> HIDE DEF b, c
    <2>2. AreBytes(b, i, n) /\ AreBytes(c, i, n)
      BY <1>1, <2>1, ArrayIs
    <2>3. x \in 0 .. Size(n) - 1 /\ y \in 0 .. Size(n) - 1
      BY <1>1, <2>2, ElementsAre
    <2> HIDE DEF x, y
    <2>4. x \in Int /\ y \in Int
      BY <1>3, <2>3
    <2>5. WithinElement(b, i, style) = OrderArgument(x, style)
          /\ WithinElement(c, i, style) = OrderArgument(y, style)
      BY <1>3, <2>3 DEF WithinElement, x, y
    <2>6. UnityAssertNumbersWithin(delta, OrderArgument(x, style), OrderArgument(y, style), style)
            = (Distance(Meaning(x, style), Meaning(y, style)) <= delta)
      BY <2>4, WithinNumbersIs
    <2> QED BY <1>4, <2>5, <2>6, Zenon DEF b, c, x, y
  <1> HIDE DEF Holds, Close
  <1>5. \/ p[1] = p[2] \/ NULL \in {p[1], p[2]}
        \/ \A i \in 0 .. num - 1 : Holds(i) = Close(i)
    BY <1>4, PointersAre, Zenon
  <1>6. UnityAssertNumbersArrayWithin(mem, delta, p[1], p[2], num, style, "array") =
          /\ num > 0
          /\ \/ p[1] = p[2]
             \/ NULL \notin {p[1], p[2]} /\ \A i \in 0 .. num - 1 : Close(i)
    BY <1>2, <1>5, Zenon
  <1> QED BY <1>6, Zenon DEF Close, n

LEMMA EachEqualIs ==
  ASSUME NEW array \in Arrays, NEW p \in {2, NULL}, NEW style \in Styles,
         NEW num \in Fits(style.length), NEW value \in Int, NEW q \in Quick,
         NEW type \in ArgumentTypes(style)
  PROVE  UnityAssertEqualIntArray(<<array, array,
             UnityNumToPtr(q, EqualArgument(value, type), style.length)>>,
             3, p, num, style, "value") =
           /\ num > 0
           /\ p # NULL
           /\ \A i \in 0 .. num - 1 :
                Element(array, i, style.length) = Unsigned(value, style.length)
  <1> DEFINE n == style.length
             x == EqualArgument(value, type)
             stored == UnityNumToPtr(q, x, n)
             mem == <<array, array, stored>>
             u == Unsigned(value, n)
             L == UnityAssertEqualIntArray(mem, 3, p, num, style, "value")
             Same(i) == EqualElement(stored, 0, style) = EqualElement(array, i, style)
             Is(i) == Element(array, i, n) = u
  <1>1. n \in Nat \ {0} /\ n <= WideBytes /\ WideBytes \in Nat \ {0}
    BY StyleIs
  <1>2. x \in Int /\ Unsigned(x, n) = u
    BY ArgumentBytes
  <1>3. Element(stored, 0, n) = u /\ stored \in Quick
    <2> HIDE DEF x, u, n
    <2> QED BY <1>1, <1>2, StoredIs
  <1> HIDE DEF x
  <1>4. mem[3] = stored /\ (p # NULL => mem[p] = array) /\ (p # NULL => p = 2)
    BY DEF NULL
  <1> HIDE DEF mem, stored
  <1>5. L \in BOOLEAN
    BY DEF UnityAssertEqualIntArray, ArraysHold
  <1>6. L <=> /\ num > 0
              /\ \/ 3 = p
                 \/ /\ NULL \notin {3, p}
                    /\ \A i \in 0 .. num - 1 :
                         EqualElement(mem[3], 0, style) = EqualElement(mem[p], i, style)
    BY DEF UnityAssertEqualIntArray, ArraysHold, Walk
  <1>7. ASSUME NEW i \in 0 .. num - 1
        PROVE  Same(i) <=> Is(i)
    <2>1. AreBytes(array, i, n)
      BY <1>1, ArrayIs
    <2>2. AreBytes(stored, 0, n)
      <3>1. \A k \in 1 .. n : 0 * n + k = k /\ k \in 1 .. WideBytes
        BY <1>1
      <3> QED BY <1>3, <3>1 DEF AreBytes, Quick
    <2>3. Same(i) <=> Element(stored, 0, n) = Element(array, i, n)
      BY <2>1, <2>2, EqualElementIs
    <2> HIDE DEF u, n, Same
    <2> QED BY <1>3, <2>3
  <1> HIDE DEF L
  <1>8. L <=> num > 0 /\ p # NULL /\ \A i \in 0 .. num - 1 : Same(i)
    <2>1. 3 # p /\ (NULL \notin {3, p} <=> p # NULL)
      BY DEF NULL
    <2> QED BY <1>4, <1>6, <2>1, Zenon
  <1> HIDE DEF Same, Is
  <1>9. L <=> num > 0 /\ p # NULL /\ \A i \in 0 .. num - 1 : Is(i)
    BY <1>7, <1>8, Zenon
  <1>10. L = (num > 0 /\ p # NULL /\ \A i \in 0 .. num - 1 : Is(i))
    BY <1>5, <1>9
  <1> QED BY <1>10, Zenon DEF L, mem, stored, x, Is, u, n

LEMMA ElementsAgreeStep ==
  ASSUME Next, QuickType
  PROVE  ElementsAgree'
  <1>1. CASE AssertEqualIntArray /\ call'.fn = "EqualIntArray"
    <2>1. PICK mem \in [1 .. 2 -> Arrays], p \in Pointers, style \in Styles :
          \E num \in Fits(style.length) : \E texts :
            Make([fn |-> "EqualIntArray", mem |-> mem, p |-> p, num |-> num, style |-> style],
                 UnityAssertEqualIntArray(mem, p[1], p[2], num, style, "array"), texts)
      BY <1>1, Zenon DEF AssertEqualIntArray
    <2>2. PICK num \in Fits(style.length) :
            /\ call' = [fn |-> "EqualIntArray", mem |-> mem, p |-> p, num |-> num,
                        style |-> style]
            /\ passed' = UnityAssertEqualIntArray(mem, p[1], p[2], num, style, "array")
      BY <2>1, Zenon DEF Make
    <2>3. passed' = UnityAssertEqualMemory(mem, p[1], p[2], style.length, num, "array")
      BY <2>2, EqualIntArrayIs, Zenon
    <2>4. /\ call'.mem = mem /\ call'.p = p /\ call'.num = num /\ call'.style = style
          /\ call'.fn # "EachEqual" /\ call'.fn # "ArrayWithin"
      BY <2>2
    <2> QED BY <2>3, <2>4, Zenon DEF ElementsAgree
  <1>2. CASE AssertEachEqual /\ call'.fn = "EachEqual"
    <2>1. PICK array \in Arrays, value \in EachValues, style \in Styles :
          \E type \in ArgumentTypes(style), num \in Fits(style.length), p \in {2, NULL} :
            /\ quick' = UnityNumToPtr(quick, EqualArgument(value, type), style.length)
            /\ call' = [fn |-> "EachEqual", array |-> array, value |-> value, p |-> p,
                        num |-> num, style |-> style]
            /\ passed' = UnityAssertEqualIntArray(<<array, array, quick'>>, 3, p, num, style,
                                                  "value")
      BY <1>2, ZenonT(40) DEF AssertEachEqual, Make
    <2>2. PICK type \in ArgumentTypes(style), num \in Fits(style.length), p \in {2, NULL} :
            /\ quick' = UnityNumToPtr(quick, EqualArgument(value, type), style.length)
            /\ call' = [fn |-> "EachEqual", array |-> array, value |-> value, p |-> p,
                        num |-> num, style |-> style]
            /\ passed' = UnityAssertEqualIntArray(<<array, array, quick'>>, 3, p, num, style,
                                                  "value")
      BY <2>1, Zenon
    <2>3. value \in Int /\ quick \in Quick
      BY NumbersAssumption DEF QuickType
    <2>4. passed' = /\ num > 0
                    /\ p # NULL
                    /\ \A i \in 0 .. num - 1 :
                         Element(array, i, style.length) = Unsigned(value, style.length)
      BY <2>3, <2>2, EachEqualIs, Zenon
    <2>5. /\ call'.array = array /\ call'.value = value /\ call'.p = p
          /\ call'.num = num /\ call'.style = style
          /\ call'.fn # "EqualIntArray" /\ call'.fn # "ArrayWithin"
      BY <2>2
    <2> QED BY <2>4, <2>5, Zenon DEF ElementsAgree
  <1>3. CASE AssertNumbersArrayWithin /\ call'.fn = "ArrayWithin"
    <2>1. PICK mem \in [1 .. 2 -> Arrays], p \in Pointers, delta \in Deltas, style \in Styles :
          \E type \in ArgumentTypes(style), num \in Fits(style.length) :
            /\ call' = [fn |-> "ArrayWithin", mem |-> mem, p |-> p, delta |-> delta,
                        num |-> num, style |-> style, type |-> type]
            /\ passed' = UnityAssertNumbersArrayWithin(mem, DeltaArgument(delta, type),
                                                       p[1], p[2], num, style, "array")
      BY <1>3, ZenonT(40) DEF AssertNumbersArrayWithin, Make
    <2>2. PICK type \in ArgumentTypes(style), num \in Fits(style.length) :
            /\ call' = [fn |-> "ArrayWithin", mem |-> mem, p |-> p, delta |-> delta,
                        num |-> num, style |-> style, type |-> type]
            /\ passed' = UnityAssertNumbersArrayWithin(mem, DeltaArgument(delta, type),
                                                       p[1], p[2], num, style, "array")
      BY <2>1, Zenon
    <2>3. DeltaArgument(delta, type) = Unsigned(delta, type.length)
          /\ DeltaArgument(delta, type) \in Int
      BY NumbersAssumption, UnsignedIs, TypeIs, StyleIs DEF DeltaArgument
    <2>4. passed' =
            /\ num > 0
            /\ \/ p[1] = p[2]
               \/ /\ NULL \notin {p[1], p[2]}
                  /\ \A i \in 0 .. num - 1 :
                       Distance(Meaning(Element(mem[1], i, style.length), style),
                                Meaning(Element(mem[2], i, style.length), style))
                         <= Unsigned(delta, type.length)
      BY <2>3, <2>2, ArrayWithinIs, Zenon
    <2>5. /\ call'.mem = mem /\ call'.p = p /\ call'.num = num /\ call'.style = style
          /\ call'.delta = delta /\ call'.type = type
          /\ call'.fn # "EqualIntArray" /\ call'.fn # "EachEqual"
      BY <2>2
    <2> QED BY <2>4, <2>5, Zenon DEF ElementsAgree, Elementwise
  <1>4. CASE call'.fn \notin {"EqualIntArray", "EachEqual", "ArrayWithin"}
    BY <1>4, Zenon DEF ElementsAgree
  <1> QED BY <1>1, <1>2, <1>3, <1>4, CallIs DEF NoCall

\* Arrays are equal exactly if their bytes are, within a tolerance exactly if
\* their numbers are, and all one value exactly if they are that value,
\* whatever the union held before and for every length of array and type:
\* ElementsAgree.
THEOREM ElementsAgreeHolds == Spec => []ElementsAgree
  <1>1. Init => ElementsAgree
    BY DEF Init, NoCall, ElementsAgree
  <1>2. ElementsAgree /\ QuickType /\ [Next]_vars => ElementsAgree'
    <2>1. ElementsAgree /\ UNCHANGED vars => ElementsAgree'
      <3> SUFFICES ASSUME ElementsAgree, UNCHANGED vars PROVE ElementsAgree'
        OBVIOUS
      <3>1. call' = call /\ passed' = passed
        BY DEF vars
      <3> DEFINE Agree(c, holds) ==
                   /\ c.fn = "EqualIntArray" =>
                        holds = UnityAssertEqualMemory(c.mem, c.p[1], c.p[2], c.style.length,
                                                       c.num, "array")
                   /\ c.fn = "EachEqual" =>
                        holds = /\ c.num > 0 /\ c.p # NULL
                                /\ \A i \in 0 .. c.num - 1 :
                                     Element(c.array, i, c.style.length)
                                       = Unsigned(c.value, c.style.length)
                   /\ c.fn = "ArrayWithin" =>
                        holds = /\ c.num > 0
                                /\ \/ c.p[1] = c.p[2]
                                   \/ /\ NULL \notin {c.p[1], c.p[2]}
                                      /\ \A i \in 0 .. c.num - 1 :
                                           Distance(Meaning(Element(c.mem[1], i, c.style.length),
                                                            c.style),
                                                    Meaning(Element(c.mem[2], i, c.style.length),
                                                            c.style))
                                             <= Unsigned(c.delta, c.type.length)
      <3>2. ElementsAgree = Agree(call, passed) /\ ElementsAgree' = Agree(call', passed')
        BY Zenon DEF ElementsAgree, Elementwise
      <3> HIDE DEF Agree
      <3> QED BY <3>1, <3>2, Zenon
    <2> QED BY <2>1, ElementsAgreeStep
  <1> QED BY <1>1, <1>2, QuickTypeHolds, PTL DEF Spec

-----------------------------------------------------------------------------
(***************************************************************************)
(* What a message shows.  Texts are sequences of characters; two of them   *)
(* are the same only for the same number, character or string.             *)
(***************************************************************************)

Digit(k) == <<Char.digit + k>>
Tenth(k) == k \div 10
Ones(k)  == Char.digit + (k % 10)

\* f[k] is k in decimal.
Decimal(m, f) ==
  /\ f \in [0 .. m -> Seq(Nat)]
  /\ \A k \in 0 .. m : /\ k <= 9 => f[k] = Digit(k)
                       /\ k > 9  => f[k] = Append(f[Tenth(k)], Ones(k))

LEMMA DigitIs ==
  ASSUME NEW k \in 0 .. 9
  PROVE  Digit(k) \in Seq(Nat) /\ Len(Digit(k)) = 1 /\ Digit(k)[1] = 48 + k
  <1>1. Char.digit = 48
    BY DEF Char
  <1>2. Digit(k) = <<48 + k>>
    BY <1>1 DEF Digit
  <1> QED BY <1>2

LEMMA TenthIs ==
  ASSUME NEW k \in Nat, k > 9
  PROVE  /\ Tenth(k) \in Nat /\ Tenth(k) < k
         /\ Ones(k) \in Nat
         /\ k = 10 * Tenth(k) + (Ones(k) - 48)
  <1>1. Char.digit = 48
    BY DEF Char
  <1>2. /\ k \div 10 \in Nat /\ k \div 10 < k /\ k % 10 \in 0 .. 9
        /\ k = 10 * (k \div 10) + (k % 10)
    OBVIOUS
  <1> QED BY <1>1, <1>2 DEF Tenth, Ones

LEMMA DecimalExists ==
  ASSUME NEW m \in Nat
  PROVE  \E f : Decimal(m, f)
  <1> DEFINE M == {n \in Nat : \E f : Decimal(n, f)}
  <1>1. 0 \in M
    <2> DEFINE f == [k \in 0 .. 0 |-> Digit(k)]
    <2>1. f \in [0 .. 0 -> Seq(Nat)] /\ f[0] = Digit(0)
      BY DigitIs
    <2> HIDE DEF f
    <2>2. Decimal(0, f)
      BY <2>1 DEF Decimal
    <2> QED BY <2>2
  <1>2. ASSUME NEW n \in M PROVE n + 1 \in M
    <2>1. PICK f : Decimal(n, f)
      OBVIOUS
    <2>2. n \in Nat
      OBVIOUS
    <2> DEFINE j == n + 1
               s == IF j <= 9 THEN Digit(j) ELSE Append(f[Tenth(j)], Ones(j))
               g == [k \in 0 .. j |-> IF k = j THEN s ELSE f[k]]
    <2> HIDE DEF M
    <2>3. s \in Seq(Nat)
      <3>1. CASE j <= 9
        <4>1. j \in 0 .. 9
          BY <2>2, <3>1
        <4>2. s = Digit(j)
          BY <3>1
        <4> HIDE DEF s, j
        <4> QED BY <4>1, <4>2, DigitIs
      <3>2. CASE j > 9
        <4>1. Tenth(j) \in 0 .. n /\ Ones(j) \in Nat
          BY <2>2, <3>2, TenthIs
        <4>2. f[Tenth(j)] \in Seq(Nat)
          BY <2>1, <4>1 DEF Decimal
        <4>3. Append(f[Tenth(j)], Ones(j)) \in Seq(Nat)
          BY <4>1, <4>2, AppendProperties
        <4> QED BY <2>2, <3>2, <4>3
      <3> QED BY <2>2, <3>1, <3>2
    <2> HIDE DEF s
    <2>4. g[j] = s /\ \A k \in 0 .. n : g[k] = f[k]
      BY <2>2
    <2>5. g \in [0 .. j -> Seq(Nat)]
      <3>1. \A k \in 0 .. j : k # j => k \in 0 .. n
        BY <2>2
      <3>2. \A k \in 0 .. n : f[k] \in Seq(Nat)
        BY <2>1 DEF Decimal
      <3> QED BY <2>3, <3>1, <3>2
    <2> HIDE DEF g
    <2>6. ASSUME NEW k \in 0 .. j
          PROVE  /\ k <= 9 => g[k] = Digit(k)
                 /\ k > 9  => g[k] = Append(g[Tenth(k)], Ones(k))
      <3>1. ASSUME k > 9 PROVE g[Tenth(k)] = f[Tenth(k)]
        <4>1. Tenth(k) \in 0 .. n
          BY <2>2, <3>1, TenthIs
        <4> QED BY <2>4, <4>1
      <3>2. CASE k = j
        <4>1. g[k] = s
          BY <2>4, <3>2
        <4>2. CASE k <= 9
          <5>1. s = Digit(k)
            BY <3>2, <4>2 DEF s
          <5>2. ~(k > 9)
            BY <2>2, <4>2
          <5> QED BY <4>1, <5>1, <5>2
        <4>3. CASE k > 9
          <5>1. ~(k <= 9)
            BY <2>2, <4>3
          <5>2. s = Append(f[Tenth(k)], Ones(k))
            BY <3>2, <5>1 DEF s
          <5> QED BY <3>1, <4>1, <4>3, <5>1, <5>2
        <4> QED BY <2>2, <4>2, <4>3
      <3>3. CASE k # j
        <4>1. k \in 0 .. n
          BY <2>2, <3>3
        <4> QED BY <2>1, <2>4, <3>1, <4>1 DEF Decimal
      <3> QED BY <3>2, <3>3
    <2>7. Decimal(j, g)
      BY <2>5, <2>6 DEF Decimal
    <2> QED BY <2>2, <2>7 DEF M
  <1>3. M = Nat
    <2>1. M \in SUBSET Nat
      OBVIOUS
    <2> HIDE DEF M
    <2> QED BY <1>1, <1>2, <2>1, Induction
  <1> QED BY <1>3

LEMMA DecimalIs ==
  ASSUME NEW m \in Nat
  PROVE  \E f : Decimal(m, f) /\ UnityPrintNumberUnsigned(m) = f[m]
  <1> DEFINE Step(f) == [k \in 0 .. m |-> IF k <= 9 THEN Digit(k)
                                         ELSE Append(f[Tenth(k)], Ones(k))]
             digits == CHOOSE digits : digits = Step(digits)
  <1>1. UnityPrintNumberUnsigned(m) = digits[m]
    BY Zenon DEF UnityPrintNumberUnsigned, Digit, Tenth, Ones
  <1>2. PICK f : Decimal(m, f)
    BY DecimalExists
  <1>3. f = Step(f)
    <2>1. f = [k \in 0 .. m |-> f[k]]
      BY <1>2 DEF Decimal
    <2>2. \A k \in 0 .. m : f[k] = IF k <= 9 THEN Digit(k) ELSE Append(f[Tenth(k)], Ones(k))
      BY <1>2 DEF Decimal
    <2> QED BY <2>1, <2>2
  <1>4. digits = Step(digits)
    <2> HIDE DEF Step
    <2> QED BY <1>3
  <1> HIDE DEF digits
  <1>5. \A k \in 0 .. m : /\ k <= 9 => digits[k] = Digit(k)
                          /\ k > 9  => digits[k] = Append(digits[Tenth(k)], Ones(k))
    <2>1. \A k \in 0 .. m : digits[k] = IF k <= 9 THEN Digit(k)
                                        ELSE Append(digits[Tenth(k)], Ones(k))
      BY <1>4, Zenon
    <2>2. \A k \in 0 .. m : k > 9 => ~(k <= 9)
      OBVIOUS
    <2> QED BY <2>1, <2>2
  <1>6. \A k \in 0 .. m : /\ k <= 9 => f[k] = Digit(k)
                          /\ k > 9  => f[k] = Append(f[Tenth(k)], Ones(k))
    BY <1>2 DEF Decimal
  <1> DEFINE M == {n \in Nat : \A k \in 0 .. m : k <= n => digits[k] = f[k]}
  <1>7. 0 \in M
    BY <1>5, <1>6
  <1>8. ASSUME NEW n \in M PROVE n + 1 \in M
    <2>1. n \in Nat /\ \A k \in 0 .. m : k <= n => digits[k] = f[k]
      OBVIOUS
    <2> SUFFICES ASSUME NEW k \in 0 .. m, k <= n + 1 PROVE digits[k] = f[k]
      BY <2>1
    <2> HIDE DEF M
    <2>2. CASE k > 9
      <3>1. Tenth(k) \in 0 .. m /\ Tenth(k) <= n
        BY <2>1, <2>2, TenthIs
      <3>2. digits[Tenth(k)] = f[Tenth(k)]
        BY <2>1, <3>1
      <3> QED BY <1>5, <1>6, <2>2, <3>2
    <2> QED BY <1>5, <1>6, <2>2
  <1>9. M = Nat
    <2>1. M \in SUBSET Nat
      OBVIOUS
    <2> HIDE DEF M
    <2> QED BY <1>7, <1>8, <2>1, Induction
  <1>10. digits[m] = f[m]
    <2>1. m \in M
      BY <1>9
    <2> QED BY <2>1
  <1> QED BY <1>1, <1>2, <1>10

\* The decimal text begins with a digit, and has more from ten on.
LEMMA DecimalBegins ==
  ASSUME NEW m \in Nat, NEW f, Decimal(m, f)
  PROVE  \A k \in 0 .. m : /\ f[k] \in Seq(Nat) /\ Len(f[k]) >= 1 /\ f[k][1] \in 48 .. 57
                           /\ k <= 9 <=> Len(f[k]) = 1
  <1> DEFINE Good(s) == s \in Seq(Nat) /\ Len(s) >= 1 /\ s[1] \in 48 .. 57
             M == {n \in Nat : \A k \in 0 .. m : k <= n => Good(f[k])}
  <1>1. \A k \in 0 .. m : /\ k <= 9 => f[k] = Digit(k)
                          /\ k > 9  => f[k] = Append(f[Tenth(k)], Ones(k))
    BY DEF Decimal
  <1>2. ASSUME NEW k \in 0 .. m, k <= 9
        PROVE  Good(f[k]) /\ Len(f[k]) = 1
    <2>1. f[k] = Digit(k) /\ k \in 0 .. 9
      BY <1>1, <1>2
    <2>2. Digit(k) \in Seq(Nat) /\ Len(Digit(k)) = 1 /\ Digit(k)[1] = 48 + k
      BY <2>1, DigitIs
    <2>3. 48 + k \in 48 .. 57
      BY <2>1
    <2>4. Good(Digit(k)) /\ Len(Digit(k)) = 1
      BY <2>2, <2>3
    <2> HIDE DEF Good
    <2> QED BY <2>1, <2>4
  <1>3. ASSUME NEW k \in 0 .. m, k > 9, Good(f[Tenth(k)])
        PROVE  Good(f[k]) /\ Len(f[k]) > 1
    <2> DEFINE s == f[Tenth(k)]
               e == Ones(k)
    <2>1. e \in Nat
      BY <1>3, TenthIs
    <2>2. f[k] = Append(s, e)
      BY <1>1, <1>3
    <2>3. Good(s)
      BY <1>3
    <2> HIDE DEF s, e
    <2>4. /\ Append(s, e) \in Seq(Nat) /\ Len(Append(s, e)) = Len(s) + 1
          /\ \A i \in 1 .. Len(s) : Append(s, e)[i] = s[i]
      BY <2>1, <2>3, AppendProperties
    <2>5. Append(s, e)[1] = s[1] /\ Len(s) \in Nat
      BY <2>3, <2>4
    <2>6. Good(Append(s, e)) /\ Len(Append(s, e)) > 1
      BY <2>3, <2>4, <2>5
    <2> HIDE DEF Good
    <2> QED BY <2>2, <2>6
  <1> HIDE DEF Good
  <1>4. 0 \in M
    BY <1>2
  <1>5. ASSUME NEW n \in M PROVE n + 1 \in M
    <2>1. n \in Nat /\ \A k \in 0 .. m : k <= n => Good(f[k])
      OBVIOUS
    <2> SUFFICES ASSUME NEW k \in 0 .. m, k <= n + 1 PROVE Good(f[k])
      BY <2>1
    <2> HIDE DEF M
    <2>2. CASE k > 9
      <3>1. Tenth(k) \in 0 .. m /\ Tenth(k) <= n
        BY <2>1, <2>2, TenthIs
      <3> QED BY <1>3, <2>1, <2>2, <3>1
    <2> QED BY <1>2, <2>2
  <1>6. M = Nat
    <2>1. M \in SUBSET Nat
      OBVIOUS
    <2> HIDE DEF M
    <2> QED BY <1>4, <1>5, <2>1, Induction
  <1>7. \A k \in 0 .. m : Good(f[k])
    <2>1. m \in M
      BY <1>6
    <2> QED BY <2>1
  <1> TAKE k \in 0 .. m
  <1>8. CASE k <= 9
    BY <1>2, <1>8 DEF Good
  <1>9. CASE k > 9
    <2>1. Tenth(k) \in 0 .. m
      BY <1>9, TenthIs
    <2>2. Good(f[k]) /\ Len(f[k]) > 1
      BY <1>3, <1>7, <1>9, <2>1
    <2>3. f[k] \in Seq(Nat) /\ Len(f[k]) >= 1 /\ f[k][1] \in 48 .. 57
      BY <2>2 DEF Good
    <2>4. ~(k <= 9)
      BY <1>9
    <2>5. Len(f[k]) # 1
      <3> DEFINE l == Len(f[k])
      <3>1. l \in Nat /\ l > 1
        BY <2>2, <2>3
      <3> HIDE DEF l
      <3>2. l # 1
        BY <3>1
      <3> QED BY <3>2 DEF l
    <2> QED BY <2>3, <2>4, <2>5
  <1> QED BY <1>8, <1>9

LEMMA DecimalTells ==
  ASSUME NEW a \in Nat, NEW b \in Nat,
         UnityPrintNumberUnsigned(a) = UnityPrintNumberUnsigned(b)
  PROVE  a = b
  <1>1. PICK f : Decimal(a, f) /\ UnityPrintNumberUnsigned(a) = f[a]
    BY DecimalIs
  <1>2. PICK g : Decimal(b, g) /\ UnityPrintNumberUnsigned(b) = g[b]
    BY DecimalIs
  <1>3. /\ \A x \in 0 .. a : f[x] \in Seq(Nat) /\ (x <= 9 <=> Len(f[x]) = 1)
        /\ \A y \in 0 .. b : g[y] \in Seq(Nat) /\ (y <= 9 <=> Len(g[y]) = 1)
    BY <1>1, <1>2, DecimalBegins
  <1>4. /\ \A x \in 0 .. a : x <= 9 => f[x] = Digit(x)
        /\ \A x \in 0 .. a : x > 9 => f[x] = Append(f[Tenth(x)], Ones(x))
        /\ \A y \in 0 .. b : y <= 9 => g[y] = Digit(y)
        /\ \A y \in 0 .. b : y > 9 => g[y] = Append(g[Tenth(y)], Ones(y))
    BY <1>1, <1>2 DEF Decimal
  <1> DEFINE Tells(n) == \A x \in 0 .. a, y \in 0 .. b : x <= n /\ f[x] = g[y] => x = y
             M == {n \in Nat : Tells(n)}
  <1>5. ASSUME NEW x \in 0 .. a, NEW y \in 0 .. b, x <= 9, f[x] = g[y]
        PROVE  x = y
    <2>1. y <= 9
      BY <1>3, <1>5
    <2>2. Digit(x) = Digit(y) /\ x \in 0 .. 9 /\ y \in 0 .. 9
      BY <1>4, <1>5, <2>1
    <2>3. Digit(x)[1] = 48 + x /\ Digit(y)[1] = 48 + y
      BY <2>2, DigitIs
    <2>4. 48 + x = 48 + y
      BY <2>2, <2>3
    <2> QED BY <2>4
  <1>6. ASSUME NEW n \in Nat, Tells(n), NEW x \in 0 .. a, NEW y \in 0 .. b, x <= n + 1, x > 9,
               f[x] = g[y]
        PROVE  x = y
    <2>1. y > 9
      BY <1>3, <1>6
    <2>2. /\ Tenth(x) \in 0 .. a /\ Tenth(x) <= n /\ Ones(x) \in Nat
          /\ x = 10 * Tenth(x) + (Ones(x) - 48)
      BY <1>6, TenthIs
    <2>3. /\ Tenth(y) \in 0 .. b /\ Ones(y) \in Nat
          /\ y = 10 * Tenth(y) + (Ones(y) - 48)
      BY <2>1, TenthIs
    <2> DEFINE s == f[Tenth(x)]
               t == g[Tenth(y)]
    <2>4. Append(s, Ones(x)) = Append(t, Ones(y)) /\ s \in Seq(Nat) /\ t \in Seq(Nat)
      BY <1>3, <1>4, <1>6, <2>1, <2>2, <2>3
    <2> HIDE DEF s, t
    <2> DEFINE c == Ones(x)
               d == Ones(y)
    <2>5. s = t /\ Ones(x) = Ones(y)
      <3>1. c \in Nat /\ d \in Nat /\ Append(s, c) = Append(t, d)
        BY <2>2, <2>3, <2>4
      <3> HIDE DEF c, d
      <3>2. s = t /\ c = d
        BY <2>4, <3>1, AppendInjective
      <3> QED BY <3>2 DEF c, d
    <2>6. Tenth(x) = Tenth(y)
      BY <1>6, <2>2, <2>3, <2>5 DEF s, t
    <2> QED BY <2>2, <2>3, <2>5, <2>6
  <1>7. 0 \in M
    BY <1>5
  <1>8. ASSUME NEW n \in M PROVE n + 1 \in M
    <2> HIDE DEF Tells
    <2>1. n \in Nat /\ Tells(n)
      OBVIOUS
    <2> HIDE DEF M
    <2>2. Tells(n + 1)
      BY <1>5, <1>6, <2>1 DEF Tells
    <2> QED BY <2>1, <2>2 DEF M
  <1>9. M = Nat
    <2>1. M \in SUBSET Nat
      OBVIOUS
    <2> HIDE DEF M
    <2> QED BY <1>7, <1>8, <2>1, Induction
  <1>10. Tells(a)
    <2> HIDE DEF Tells
    <2>1. a \in M
      BY <1>9
    <2> QED BY <2>1
  <1>11. a \in 0 .. a /\ b \in 0 .. b /\ a <= a
    OBVIOUS
  <1>12. f[a] = g[b]
    <2>1. UnityPrintNumberUnsigned(a) = UnityPrintNumberUnsigned(b)
      OBVIOUS
    <2> QED BY <1>1, <1>2, <2>1, Zenon
  <1> QED BY <1>10, <1>11, <1>12

-----------------------------------------------------------------------------
(* Hexadecimal, masks *)

LEMMA NibblesTell ==
  ASSUME NEW i \in 0 .. 15, NEW j \in 0 .. 15, HexDigit(i) = HexDigit(j)
  PROVE  i = j
  <1>1. Char.digit = 48
    BY DEF Char
  <1> QED BY <1>1 DEF HexDigit

Nibble(x, k) == (x \div 2^(4 * k)) % 16

LEMMA NibbleIs ==
  ASSUME NEW x \in Int, NEW k \in Nat
  PROVE  Nibble(x, k) \in 0 .. 15 /\ HexDigit(Nibble(x, k)) \in Nat
  <1> DEFINE p == 2^(4 * k)
  <1>1. p \in Nat \ {0}
    BY PowerType
  <1> HIDE DEF p
  <1>2. (x \div p) % 16 \in 0 .. 15
    BY <1>1
  <1>3. Char.digit = 48
    BY DEF Char
  <1>4. \A i \in 0 .. 15 : HexDigit(i) \in Nat
    BY <1>3 DEF HexDigit
  <1> QED BY <1>2, <1>4 DEF Nibble, p

\* A byte is two nibbles.
LEMMA ByteIs ==
  ASSUME NEW x \in Int, NEW k \in Nat
  PROVE  (x \div Size(k)) % 256 = Nibble(x, 2 * k) + 16 * Nibble(x, 2 * k + 1)
  <1> DEFINE s == Size(k)
             z == x \div s
  <1>1. 4 * (2 * k) = 8 * k /\ 4 * (2 * k + 1) = 8 * k + 4 /\ 8 * k \in Nat
    OBVIOUS
  <1>2. 2^(8 * k + 4) = 2^(8 * k) * 2^4 /\ 2^4 = 16
    <2> DEFINE a == 8 * k
               b == 4
    <2>1. a \in Nat /\ b \in Nat
      BY <1>1
    <2> HIDE DEF a, b
    <2>2. 2^(a + b) = 2^a * 2^b
      BY <2>1, PowerSum
    <2>3. 2^4 = 16
      OBVIOUS
    <2> QED BY <2>2, <2>3 DEF a, b
  <1>3. s \in Nat \ {0} /\ 2^(4 * (2 * k)) = s /\ 2^(4 * (2 * k + 1)) = s * 16
    BY <1>1, <1>2, SizeNext DEF Size
  <1> HIDE DEF s
  <1>4. x \div (s * 16) = (x \div s) \div 16
    <2> DEFINE t == 16
    <2>1. t \in Nat \ {0} /\ s \in Nat \ {0}
      BY <1>3
    <2> HIDE DEF t
    <2>2. x \div (s * t) = (x \div s) \div t
      BY <2>1, DivideTwice
    <2> QED BY <2>2 DEF t
  <1>5. z \in Int
    BY <1>3
  <1>6. Nibble(x, 2 * k) = z % 16 /\ Nibble(x, 2 * k + 1) = (z \div 16) % 16
    BY <1>3, <1>4 DEF Nibble
  <1> HIDE DEF z
  <1>7. z % 256 = (z % 16) + 16 * ((z \div 16) % 16)
    BY <1>5
  <1> QED BY <1>6, <1>7 DEF z, s

LEMMA HexIs ==
  ASSUME NEW x \in Int, NEW n \in Nat, n <= WideBytes
  PROVE  /\ UnityPrintNumberHex(x, 2 * n) \in Seq(Nat)
         /\ Len(UnityPrintNumberHex(x, 2 * n)) = 2 * n
         /\ \A d \in 1 .. 2 * n :
              UnityPrintNumberHex(x, 2 * n)[d] = HexDigit(Nibble(x, 2 * n - d))
  <1> DEFINE m == 2 * n
             h == [d \in 1 .. m |-> HexDigit(Nibble(x, m - d))]
  <1>1. WideBytes \in Nat
    BY BytesAssumption
  <1>2. m \in Nat /\ ~(m > 2 * WideBytes)
    BY <1>1
  <1> HIDE DEF m
  <1>3. UnityPrintNumberHex(x, m) = h
    BY <1>2 DEF UnityPrintNumberHex, Nibble
  <1>4. \A d \in 1 .. m : HexDigit(Nibble(x, m - d)) \in Nat
    <2> TAKE d \in 1 .. m
    <2> DEFINE k == m - d
    <2>1. k \in Nat
      BY <1>2
    <2> HIDE DEF k
    <2> QED BY <2>1, NibbleIs DEF k
  <1>5. h \in [1 .. m -> Nat] /\ \A d \in 1 .. m : h[d] = HexDigit(Nibble(x, m - d))
    BY <1>4
  <1> HIDE DEF h
  <1>6. h \in Seq(Nat) /\ Len(h) = m
    BY <1>2, <1>5
  <1> QED BY <1>3, <1>5, <1>6 DEF m

\* Two nibbles a byte tell numbers of that many bytes apart.
LEMMA HexTells ==
  ASSUME NEW x \in Int, NEW y \in Int, NEW n \in Nat \ {0}, n <= WideBytes,
         UnityPrintNumberHex(x, 2 * n) = UnityPrintNumberHex(y, 2 * n)
  PROVE  Unsigned(x, n) = Unsigned(y, n)
  <1>1. ASSUME NEW k \in 0 .. 2 * n - 1
        PROVE  Nibble(x, k) = Nibble(y, k)
    <2> DEFINE d == 2 * n - k
    <2>1. d \in 1 .. 2 * n /\ 2 * n - d = k /\ k \in Nat
      OBVIOUS
    <2> HIDE DEF d
    <2>2. HexDigit(Nibble(x, k)) = HexDigit(Nibble(y, k))
      <3>1. UnityPrintNumberHex(x, 2 * n)[d] = HexDigit(Nibble(x, 2 * n - d))
        BY <2>1, HexIs
      <3>2. UnityPrintNumberHex(y, 2 * n)[d] = HexDigit(Nibble(y, 2 * n - d))
        BY <2>1, HexIs
      <3> QED BY <2>1, <3>1, <3>2
    <2>3. Nibble(x, k) \in 0 .. 15 /\ Nibble(y, k) \in 0 .. 15
      BY <2>1, NibbleIs
    <2> QED BY <2>2, <2>3, NibblesTell
  <1> DEFINE u == [k \in 1 .. n |-> (x \div Size(k - 1)) % 256]
  <1>2. ASSUME NEW k \in 1 .. n
        PROVE  /\ (x \div Size(k - 1)) % 256 \in Byte
               /\ (x \div Size(k - 1)) % 256 = (y \div Size(k - 1)) % 256
    <2> DEFINE j == k - 1
    <2>1. j \in Nat /\ 2 * j \in 0 .. 2 * n - 1 /\ 2 * j + 1 \in 0 .. 2 * n - 1
      OBVIOUS
    <2> HIDE DEF j
    <2>2. Nibble(x, 2 * j) = Nibble(y, 2 * j)
      BY <1>1, <2>1
    <2>3. Nibble(x, 2 * j + 1) = Nibble(y, 2 * j + 1)
      BY <1>1, <2>1
    <2>4. /\ (x \div Size(j)) % 256 = Nibble(x, 2 * j) + 16 * Nibble(x, 2 * j + 1)
          /\ (y \div Size(j)) % 256 = Nibble(y, 2 * j) + 16 * Nibble(y, 2 * j + 1)
      <3>1. (x \div Size(j)) % 256 = Nibble(x, 2 * j) + 16 * Nibble(x, 2 * j + 1)
        BY <2>1, ByteIs, Zenon
      <3>2. (y \div Size(j)) % 256 = Nibble(y, 2 * j) + 16 * Nibble(y, 2 * j + 1)
        BY <2>1, ByteIs, Zenon
      <3> QED BY <3>1, <3>2, Zenon
    <2>5. Nibble(x, 2 * j) \in 0 .. 15 /\ Nibble(x, 2 * j + 1) \in 0 .. 15
      <3>1. 2 * j \in Nat /\ 2 * j + 1 \in Nat
        BY <2>1
      <3> QED BY <3>1, NibbleIs, Zenon
    <2>6. (x \div Size(j)) % 256 \in Byte
      BY <2>4, <2>5 DEF Byte
    <2> QED BY <2>2, <2>3, <2>4, <2>6 DEF j
  <1>3. /\ u \in [1 .. n -> Byte]
        /\ \A k \in 1 .. n : u[k] = (x \div Size(k - 1)) % 256
        /\ \A k \in 1 .. n : u[k] = (y \div Size(k - 1)) % 256
    BY <1>2
  <1> HIDE DEF u
  <1>4. PICK f : Digits(n, u, f)
    BY <1>3, DigitsExist
  <1>5. f[1] = x % Size(n)
    BY <1>3, <1>4, DigitsOf
  <1>6. f[1] = y % Size(n)
    BY <1>3, <1>4, DigitsOf
  <1> QED BY <1>5, <1>6 DEF Unsigned, Size

\* A mask shows every bit of an int it covers.
LEMMA MaskTells ==
  ASSUME NEW mask \in 0 .. Size(IntBytes) - 1, NEW e \in Int, NEW a \in Int,
         UnityPrintMask(mask, e) = UnityPrintMask(mask, a)
  PROVE  UnityAssertBits(mask, e, a)
  <1> DEFINE n == 8 * IntBytes
  <1>1. IntBytes \in Nat \ {0} /\ WideBytes \in Nat
    BY BytesAssumption
  <1>2. n \in Nat
    BY <1>1
  <1> SUFFICES ASSUME NEW k \in 0 .. 8 * WideBytes - 1, Bit(mask, k) = 1
               PROVE  Bit(e, k) = Bit(a, k)
    BY DEF UnityAssertBits
  <1>3. k \in Nat
    BY <1>1
  <1>4. CASE k < n
    <2> DEFINE d == n - k
    <2>1. d \in 1 .. n /\ n - d = k
      BY <1>2, <1>3, <1>4
    <2> HIDE DEF d
    <2> DEFINE Show(x) == [c \in 1 .. n |->
                            IF Bit(mask, n - c) = 1 THEN Char.digit + Bit(x, n - c) ELSE Char.X]
    <2>2. UnityPrintMask(mask, e) = Show(e) /\ UnityPrintMask(mask, a) = Show(a)
      BY DEF UnityPrintMask
    <2>3. Show(e)[d] = Char.digit + Bit(e, k) /\ Show(a)[d] = Char.digit + Bit(a, k)
      <3> HIDE DEF n
      <3> QED BY <2>1
    <2> HIDE DEF Show
    <2>4. Char.digit = 48
      BY DEF Char
    <2>5. Bit(e, k) \in Int /\ Bit(a, k) \in Int
      <3> DEFINE p == 2^k
      <3>1. p \in Nat \ {0}
        BY <1>3, PowerType
      <3> HIDE DEF p
      <3>2. (e \div p) % 2 \in Int /\ (a \div p) % 2 \in Int
        BY <3>1
      <3> QED BY <3>2 DEF Bit, p
    <2>6. 48 + Bit(e, k) = 48 + Bit(a, k)
      BY <2>2, <2>3, <2>4
    <2> DEFINE x == Bit(e, k)
               y == Bit(a, k)
    <2> HIDE DEF x, y
    <2>7. x = y
      BY <2>5, <2>6 DEF x, y
    <2> QED BY <2>7 DEF x, y
  <1>5. CASE k >= n
    <2> DEFINE j == k - n
               s == 2^n
               t == 2^j
    <2>1. j \in Nat /\ n + j = k
      BY <1>2, <1>3, <1>5
    <2>2. s \in Nat \ {0} /\ t \in Nat \ {0}
      BY <1>2, <2>1, PowerType
    <2>3. 2^k = s * t
      BY <1>2, <2>1, PowerSum
    <2>4. mask \in 0 .. s - 1
      BY DEF Size
    <2> HIDE DEF s, t
    <2>5. s * t >= s /\ s * t \in Nat \ {0}
      BY <2>2
    <2> DEFINE m == s * t
    <2> HIDE DEF m
    <2>6. mask \in Int /\ 0 \in Int /\ m \in Nat \ {0} /\ mask \in 0 .. m - 1 /\ mask = m * 0 + mask
      BY <2>2, <2>4, <2>5 DEF m
    <2>7. mask \div m = 0
      <3> DEFINE z == 0
      <3>1. z \in Int /\ mask = m * z + mask
        BY <2>6
      <3> HIDE DEF z
      <3>2. mask \div m = z
        BY <2>6, <3>1, RemainderIs
      <3> QED BY <3>2 DEF z
    <2>8. Bit(mask, k) = 0
      <3>1. Bit(mask, k) = (mask \div m) % 2
        BY <2>3, Zenon DEF Bit, m
      <3>2. 0 % 2 = 0
        OBVIOUS
      <3> QED BY <2>7, <3>1, <3>2
    <2> QED BY <2>8
  <1> QED BY <1>2, <1>3, <1>4, <1>5

-----------------------------------------------------------------------------
(* Characters and strings *)

LEMMA Cancel ==
  ASSUME NEW s \in Seq(Nat), NEW t \in Seq(Nat), NEW v \in Seq(Nat)
  PROVE  /\ v \o s = v \o t => s = t
         /\ s \o v = t \o v => s = t
  BY ConcatSimplifications, Zenon

LEMMA JoinIs ==
  ASSUME NEW s \in Seq(Nat), NEW t \in Seq(Nat)
  PROVE  /\ s \o t \in Seq(Nat) /\ Len(s \o t) = Len(s) + Len(t)
         /\ \A i \in 1 .. Len(s) : (s \o t)[i] = s[i]
  <1>1. Len(s) \in Nat /\ Len(t) \in Nat
    OBVIOUS
  <1>2. s \o t \in Seq(Nat)
    BY ConcatProperties, Zenon
  <1>3. Len(s \o t) = Len(s) + Len(t)
    BY ConcatProperties, Zenon
  <1>4. \A i \in 1 .. Len(s) + Len(t) : (s \o t)[i] = IF i <= Len(s) THEN s[i] ELSE t[i - Len(s)]
    BY ConcatProperties, Zenon
  <1>5. \A i \in 1 .. Len(s) : i \in 1 .. Len(s) + Len(t) /\ i <= Len(s)
    BY <1>1
  <1>6. \A i \in 1 .. Len(s) : (s \o t)[i] = s[i]
    BY <1>4, <1>5, Zenon
  <1> QED BY <1>2, <1>3, <1>6

\* What the text u of a character c is like.
IsCharText(c, u) ==
  /\ u \in Seq(Nat)
  /\ c \in 32 .. 126 => Len(u) = 1 /\ u[1] = c
  /\ c \notin 32 .. 126 => Len(u) >= 2 /\ u[1] = 92
  /\ c = 13 => u[2] = 114
  /\ c = 10 => u[2] = 110
  /\ c \notin 32 .. 126 \cup {10, 13} =>
       u[2] = 120 /\ u = <<92, 120>> \o UnityPrintNumberHex(c, 2)

LEMMA CharIs ==
  ASSUME NEW c \in -128 .. 127
  PROVE  IsCharText(c, UnityPrintChar(c))
  <1>1. Char.CR = 13 /\ Char.LF = 10 /\ Char.backslash = 92 /\ Char.r = 114
        /\ Char.n = 110 /\ Char.x = 120
    BY DEF Char
  <1>2. CASE c \in 32 .. 126
    <2>0. c # Char.CR /\ c # Char.LF /\ c \in Nat
      BY <1>1, <1>2
    <2>1. UnityPrintChar(c) = <<c>> /\ c \in Nat
      BY <1>2, <2>0, Zenon DEF UnityPrintChar
    <2>2. <<c>> \in Seq(Nat) /\ Len(<<c>>) = 1 /\ <<c>>[1] = c
      BY <2>1
    <2>3. c # 13 /\ c # 10
      BY <1>2
    <2> DEFINE u == UnityPrintChar(c)
    <2>4. u \in Seq(Nat) /\ Len(u) = 1 /\ u[1] = c
      BY <2>1, <2>2
    <2> HIDE DEF u
    <2>5. IsCharText(c, u)
      BY <1>2, <2>3, <2>4 DEF IsCharText
    <2> QED BY <2>5 DEF u
  <1>3. CASE c = 13
    <2>1. c = Char.CR /\ c # Char.LF /\ c \notin 32 .. 126
      BY <1>1, <1>3
    <2>2. UnityPrintChar(c) = <<Char.backslash, Char.r>>
      BY <2>1, Zenon DEF UnityPrintChar
    <2>3. UnityPrintChar(c) = <<92, 114>>
      BY <1>1, <2>2
    <2>4. <<92, 114>> \in Seq(Nat) /\ Len(<<92, 114>>) = 2 /\ <<92, 114>>[1] = 92 /\ <<92, 114>>[2] = 114
      OBVIOUS
    <2> DEFINE u == UnityPrintChar(c)
    <2>5. u \in Seq(Nat) /\ Len(u) = 2 /\ u[1] = 92 /\ u[2] = 114
      BY <2>3, <2>4
    <2> HIDE DEF u
    <2>6. IsCharText(c, u)
      BY <1>3, <2>5 DEF IsCharText
    <2> QED BY <2>6 DEF u
  <1>4. CASE c = 10
    <2>1. c = Char.LF /\ c # Char.CR /\ c \notin 32 .. 126
      BY <1>1, <1>4
    <2>2. UnityPrintChar(c) = <<Char.backslash, Char.n>>
      BY <2>1, Zenon DEF UnityPrintChar
    <2>3. UnityPrintChar(c) = <<92, 110>>
      BY <1>1, <2>2
    <2>4. <<92, 110>> \in Seq(Nat) /\ Len(<<92, 110>>) = 2 /\ <<92, 110>>[1] = 92 /\ <<92, 110>>[2] = 110
      OBVIOUS
    <2> DEFINE u == UnityPrintChar(c)
    <2>5. u \in Seq(Nat) /\ Len(u) = 2 /\ u[1] = 92 /\ u[2] = 110
      BY <2>3, <2>4
    <2> HIDE DEF u
    <2>6. IsCharText(c, u)
      BY <1>4, <2>5 DEF IsCharText
    <2> QED BY <2>6 DEF u
  <1>5. CASE c \notin 32 .. 126 \cup {10, 13}
    <2> DEFINE h == UnityPrintNumberHex(c, 2)
               b == <<92, 120>>
    <2>0. c # Char.CR /\ c # Char.LF /\ c \notin 32 .. 126
      BY <1>1, <1>5
    <2>1. UnityPrintChar(c) = b \o h
      <3>1. UnityPrintChar(c) = <<Char.backslash, Char.x>> \o h
        BY <2>0, Zenon DEF UnityPrintChar
      <3> QED BY <1>1, <3>1
    <2>2. h \in Seq(Nat)
      <3>1. 2 * 1 = 2 /\ 1 \in Nat /\ 1 <= WideBytes /\ c \in Int
        BY BytesAssumption
      <3>2. UnityPrintNumberHex(c, 2 * 1) \in Seq(Nat)
        BY <3>1, HexIs
      <3> QED BY <3>1, <3>2
    <2>3. b \in Seq(Nat) /\ Len(b) = 2 /\ b[1] = 92 /\ b[2] = 120
      OBVIOUS
    <2> HIDE DEF h, b
    <2>4. Len(h) \in Nat
      BY <2>2
    <2>5. /\ b \o h \in Seq(Nat) /\ Len(b \o h) = Len(b) + Len(h)
          /\ \A i \in 1 .. Len(b) : (b \o h)[i] = b[i]
      <3>1. b \in Seq(Nat)
        BY <2>3
      <3> QED BY <2>2, <3>1, JoinIs, ZenonT(30)
    <2>6. Len(b \o h) >= 2 /\ (b \o h)[1] = 92 /\ (b \o h)[2] = 120
      BY <2>3, <2>4, <2>5
    <2> DEFINE u == UnityPrintChar(c)
    <2>7. /\ u \in Seq(Nat) /\ Len(u) >= 2 /\ u[1] = 92 /\ u[2] = 120
          /\ u = <<92, 120>> \o UnityPrintNumberHex(c, 2)
      BY <2>1, <2>5, <2>6 DEF h, b
    <2> HIDE DEF u
    <2>8. IsCharText(c, u)
      BY <1>5, <2>7 DEF IsCharText
    <2> QED BY <2>8 DEF u
  <1> QED BY <1>2, <1>3, <1>4, <1>5

LEMMA ByteTells ==
  ASSUME NEW c \in -128 .. 127, NEW d \in -128 .. 127,
         UnityPrintNumberHex(c, 2) = UnityPrintNumberHex(d, 2)
  PROVE  c = d
  <1>1. 2 * 1 = 2 /\ 1 \in Nat \ {0} /\ 1 <= WideBytes /\ c \in Int /\ d \in Int
    BY BytesAssumption
  <1>2. Unsigned(c, 1) = Unsigned(d, 1)
    BY <1>1, HexTells
  <1>3. Size(1) = 256
    BY SizeNext
  <1>4. c % 256 = d % 256
    BY <1>2, <1>3 DEF Unsigned, Size
  <1> QED BY <1>4, SMTT(40)

\* Characters that are not escaped by the backslash they are: the text of one
\* is no beginning of the text of another.
LEMMA CharTells ==
  ASSUME NEW c \in -128 .. 127, NEW d \in -128 .. 127, c # 92, d # 92,
         NEW s \in Seq(Nat), NEW t \in Seq(Nat),
         UnityPrintChar(c) \o s = UnityPrintChar(d) \o t
  PROVE  c = d /\ s = t
  <1> DEFINE u == UnityPrintChar(c)
             v == UnityPrintChar(d)
  <1>0. IsCharText(c, u) /\ IsCharText(d, v)
    BY CharIs
  <1>4. u \o s = v \o t
    OBVIOUS
  <1> HIDE DEF u, v
  <1>1. /\ u \in Seq(Nat) /\ v \in Seq(Nat)
        /\ c \in 32 .. 126 => Len(u) = 1 /\ u[1] = c
        /\ c \notin 32 .. 126 => Len(u) >= 2 /\ u[1] = 92
        /\ d \in 32 .. 126 => Len(v) = 1 /\ v[1] = d
        /\ d \notin 32 .. 126 => Len(v) >= 2 /\ v[1] = 92
    BY <1>0, Zenon DEF IsCharText
  <1>2. /\ c = 13 => u[2] = 114
        /\ c = 10 => u[2] = 110
        /\ c \notin 32 .. 126 \cup {10, 13} =>
              u[2] = 120 /\ u = <<92, 120>> \o UnityPrintNumberHex(c, 2)
    BY <1>0, Zenon DEF IsCharText
  <1>3. /\ d = 13 => v[2] = 114
        /\ d = 10 => v[2] = 110
        /\ d \notin 32 .. 126 \cup {10, 13} =>
              v[2] = 120 /\ v = <<92, 120>> \o UnityPrintNumberHex(d, 2)
    BY <1>0, Zenon DEF IsCharText
  <1>5. Len(s) \in Nat /\ Len(t) \in Nat /\ Len(u) \in Nat /\ Len(v) \in Nat
    BY <1>1
  <1>6. /\ \A i \in 1 .. Len(u) : (u \o s)[i] = u[i]
        /\ \A i \in 1 .. Len(v) : (v \o t)[i] = v[i]
    <2>1. \A i \in 1 .. Len(u) : (u \o s)[i] = u[i]
      BY <1>1, JoinIs, Zenon
    <2>2. \A i \in 1 .. Len(v) : (v \o t)[i] = v[i]
      BY <1>1, JoinIs, Zenon
    <2> QED BY <2>1, <2>2
  <1>7. u[1] = v[1]
    <2>1. Len(u) >= 1 /\ Len(v) >= 1
      <3> DEFINE k == Len(u)
                 l == Len(v)
      <3>1. /\ k = 1 \/ k >= 2
            /\ l = 1 \/ l >= 2
        BY <1>1
      <3>2. k \in Nat /\ l \in Nat
        BY <1>5
      <3> HIDE DEF k, l
      <3>3. k >= 1 /\ l >= 1
        BY <3>1, <3>2
      <3> QED BY <3>3 DEF k, l
    <2>2. 1 \in 1 .. Len(u) /\ 1 \in 1 .. Len(v)
      BY <1>5, <2>1
    <2> QED BY <1>4, <1>6, <2>2, Zenon
  <1>8. c = d
    <2>1. CASE c \in 32 .. 126
      BY <1>1, <1>7, <2>1
    <2>2. CASE d \in 32 .. 126
      BY <1>1, <1>7, <2>2
    <2>3. CASE c \notin 32 .. 126 /\ d \notin 32 .. 126
      <3>1. u[2] = v[2]
        BY <1>1, <1>4, <1>5, <1>6, <2>3
      <3>2. CASE c \in {10, 13} \/ d \in {10, 13}
        BY <1>2, <1>3, <2>3, <3>1, <3>2, SMTT(40)
      <3>3. CASE c \notin {10, 13} /\ d \notin {10, 13}
        <4> DEFINE b == <<92, 120>>
                   g == UnityPrintNumberHex(c, 2)
                   h == UnityPrintNumberHex(d, 2)
        <4>1. u = b \o g /\ v = b \o h
          BY <1>2, <1>3, <2>3, <3>3
        <4>2. b \in Seq(Nat) /\ Len(b) = 2
          OBVIOUS
        <4>3. g \in Seq(Nat) /\ Len(g) = 2 /\ h \in Seq(Nat) /\ Len(h) = 2
          <5>1. 2 * 1 = 2 /\ 1 \in Nat /\ 1 <= WideBytes /\ c \in Int /\ d \in Int
            BY BytesAssumption
          <5>2. UnityPrintNumberHex(c, 2 * 1) \in Seq(Nat) /\ Len(UnityPrintNumberHex(c, 2 * 1)) = 2 * 1
            BY <5>1, HexIs
          <5>3. UnityPrintNumberHex(d, 2 * 1) \in Seq(Nat) /\ Len(UnityPrintNumberHex(d, 2 * 1)) = 2 * 1
            BY <5>1, HexIs
          <5> QED BY <5>1, <5>2, <5>3
        <4> HIDE DEF b, g, h
        <4>4. Len(b \o g) = 4 /\ Len(b \o h) = 4
          <5>1. Len(b \o g) = Len(b) + Len(g)
            BY <4>2, <4>3, JoinIs, Zenon
          <5>2. Len(b \o h) = Len(b) + Len(h)
            BY <4>2, <4>3, JoinIs, Zenon
          <5> QED BY <4>2, <4>3, <5>1, <5>2
        <4>5. u = v
          <5>1. Len(u) = 4 /\ Len(v) = 4
            BY <4>1, <4>4
          <5>2. \A i \in 1 .. 4 : u[i] = v[i]
            BY <1>4, <1>6, <5>1
          <5>3. Len(u) = Len(v) /\ \A i \in 1 .. Len(u) : u[i] = v[i]
            BY <5>1, <5>2, Zenon
          <5> QED BY <1>1, <5>3, SeqEqual, Zenon
        <4>6. g = h
          <5>1. b \o g = b \o h
            BY <4>1, <4>5
          <5> QED BY <4>2, <4>3, <5>1, Cancel
        <4> QED BY <4>6, ByteTells DEF g, h
      <3> QED BY <3>2, <3>3
    <2> QED BY <2>1, <2>2, <2>3
  <1>9. s = t
    <2>1. u = v
      BY <1>8 DEF u, v
    <2>2. u \o s = u \o t
      BY <1>4, <2>1
    <2> QED BY <1>1, <2>2, Cancel
  <1> QED BY <1>8, <1>9

LEMMA OneCharTells ==
  ASSUME NEW c \in -128 .. 127, NEW d \in -128 .. 127, UnityPrintChar(c) = UnityPrintChar(d)
  PROVE  c = d
  <1>1. CASE c # 92 /\ d # 92
    <2>1. <<>> \in Seq(Nat) /\ UnityPrintChar(c) \o <<>> = UnityPrintChar(d) \o <<>>
      OBVIOUS
    <2> DEFINE e == <<>>
    <2>2. e \in Seq(Nat) /\ UnityPrintChar(c) \o e = UnityPrintChar(d) \o e
      BY <2>1
    <2> HIDE DEF e
    <2> QED BY <1>1, <2>2, CharTells
  <1>2. CASE c = 92 \/ d = 92
    <2>1. c \in 32 .. 126 \/ d \in 32 .. 126
      BY <1>2
    <2>2. /\ c \in 32 .. 126 => Len(UnityPrintChar(c)) = 1 /\ UnityPrintChar(c)[1] = c
          /\ c \notin 32 .. 126 => Len(UnityPrintChar(c)) >= 2
      BY CharIs, Zenon DEF IsCharText
    <2>3. /\ d \in 32 .. 126 => Len(UnityPrintChar(d)) = 1 /\ UnityPrintChar(d)[1] = d
          /\ d \notin 32 .. 126 => Len(UnityPrintChar(d)) >= 2
      BY CharIs, Zenon DEF IsCharText
    <2> DEFINE m == Len(UnityPrintChar(c))
               n == Len(UnityPrintChar(d))
    <2>4. c \in 32 .. 126 /\ d \in 32 .. 126
      <3>1. /\ c \in 32 .. 126 => m = 1
            /\ c \notin 32 .. 126 => m >= 2
            /\ d \in 32 .. 126 => n = 1
            /\ d \notin 32 .. 126 => n >= 2
            /\ m = n
        BY <2>2, <2>3
      <3> HIDE DEF m, n
      <3> QED BY <2>1, <3>1
    <2> QED BY <2>2, <2>3, <2>4
  <1> QED BY <1>1, <1>2, SMTT(40)

\* r[k] is the text of the characters of s from k on, up to the nth.
Prints(s, n, r) ==
  /\ r \in [1 .. n + 1 -> Seq(Nat)] /\ r[n + 1] = <<>>
  /\ \A k \in 1 .. n : r[k] = UnityPrintChar(s[k]) \o r[k + 1]

ShownOf(s, length) == IF length < Len(s) THEN length ELSE Len(s)

LEMMA PrintLenIs ==
  ASSUME NEW s \in Seq(Character), NEW length \in Nat
  PROVE  /\ ShownOf(s, length) \in 0 .. Len(s)
         /\ \E r : Prints(s, ShownOf(s, length), r) /\ UnityPrintLen(s, length) = r[1]
  <1> DEFINE n == ShownOf(s, length)
             Step(r) == [k \in 1 .. n + 1 |->
                           IF k > n THEN <<>> ELSE UnityPrintChar(s[k]) \o r[k + 1]]
             rest == CHOOSE rest : rest = Step(rest)
             step == [p \in (1 .. n) \X Seq(Nat) |-> UnityPrintChar(s[p[1]]) \o p[2]]
  <1>1. n \in 0 .. Len(s) /\ n \in Nat
    <2>1. Len(s) \in Nat
      OBVIOUS
    <2> QED BY <2>1 DEF ShownOf
  <1>2. UnityPrintLen(s, length) = rest[1]
    BY Zenon DEF UnityPrintLen, ShownOf
  <1> HIDE DEF n
  <1>3. \A k \in 1 .. n : UnityPrintChar(s[k]) \in Seq(Nat)
    <2> TAKE k \in 1 .. n
    <2> DEFINE c == s[k]
    <2>1. k \in 1 .. Len(s)
      BY <1>1
    <2>2. c \in Character
      BY <2>1
    <2> HIDE DEF c
    <2>3. c \in -128 .. 127
      BY <2>2 DEF Character
    <2> QED BY <2>3, CharIs, Zenon DEF c, IsCharText
  <1>4. /\ step \in [(1 .. n) \X Seq(Nat) -> Seq(Nat)]
        /\ \A k \in 1 .. n, x \in Seq(Nat) : step[<<k, x>>] = UnityPrintChar(s[k]) \o x
    <2>1. \A k \in 1 .. n, x \in Seq(Nat) : UnityPrintChar(s[k]) \o x \in Seq(Nat)
      BY <1>3, ConcatProperties
    <2> QED BY <2>1
  <1> HIDE DEF step
  <1>5. PICK f : Runs(n, Seq(Nat), <<>>, step, f)
    <2> DEFINE e == <<>>
    <2>1. e \in Seq(Nat)
      OBVIOUS
    <2> HIDE DEF e
    <2>2. \E f : Runs(n, Seq(Nat), e, step, f)
      BY <1>1, <1>4, <2>1, Backward
    <2> QED BY <2>2 DEF e
  <1>6. Prints(s, n, f)
    <2>1. /\ f \in [1 .. n + 1 -> Seq(Nat)] /\ f[n + 1] = <<>>
          /\ \A k \in 1 .. n : f[k] = step[<<k, f[k + 1]>>]
      BY <1>5 DEF Runs
    <2>2. \A k \in 1 .. n : f[k + 1] \in Seq(Nat)
      BY <1>1, <2>1
    <2>3. \A k \in 1 .. n : f[k] = UnityPrintChar(s[k]) \o f[k + 1]
      BY <1>4, <2>1, <2>2, Zenon
    <2> QED BY <2>1, <2>3 DEF Prints
  <1>7. f = Step(f)
    <2>1. f = [k \in 1 .. n + 1 |-> f[k]]
      BY <1>6 DEF Prints
    <2>2. \A k \in 1 .. n + 1 :
            f[k] = IF k > n THEN <<>> ELSE UnityPrintChar(s[k]) \o f[k + 1]
      <3> TAKE k \in 1 .. n + 1
      <3>1. CASE k > n
        <4>1. k = n + 1
          BY <1>1, <3>1
        <4> QED BY <1>6, <3>1, <4>1 DEF Prints
      <3>2. CASE ~(k > n)
        <4>1. k \in 1 .. n
          BY <1>1, <3>2
        <4> QED BY <1>6, <3>2, <4>1 DEF Prints
      <3> QED BY <3>1, <3>2
    <2> QED BY <2>1, <2>2
  <1>8. rest = Step(rest)
    <2> HIDE DEF Step
    <2> QED BY <1>7
  <1> HIDE DEF rest
  <1>9. /\ \A k \in 1 .. n : rest[k] = UnityPrintChar(s[k]) \o rest[k + 1]
        /\ rest[n + 1] = <<>>
    <2>1. \A k \in 1 .. n + 1 :
            rest[k] = IF k > n THEN <<>> ELSE UnityPrintChar(s[k]) \o rest[k + 1]
      BY <1>8
    <2>2. n + 1 \in 1 .. n + 1 /\ n + 1 > n /\ \A k \in 1 .. n : k \in 1 .. n + 1 /\ ~(k > n)
      BY <1>1
    <2> QED BY <2>1, <2>2
  <1> DEFINE M == {m \in Nat : m <= n => rest[n + 1 - m] = f[n + 1 - m]}
  <1>10. 0 \in M
    BY <1>1, <1>6, <1>9 DEF Prints
  <1>11. ASSUME NEW m \in M PROVE m + 1 \in M
    <2> SUFFICES ASSUME m + 1 <= n PROVE rest[n - m] = f[n - m]
      BY <1>1
    <2>1. n - m \in 1 .. n /\ (n - m) + 1 = n + 1 - m
      BY <1>1
    <2>2. rest[n + 1 - m] = f[n + 1 - m]
      BY <1>1
    <2> QED BY <1>6, <1>9, <2>1, <2>2 DEF Prints
  <1>12. rest[1] = f[1]
    <2>1. M \in SUBSET Nat
      OBVIOUS
    <2> HIDE DEF M
    <2>2. n \in M
      BY <1>1, <1>10, <1>11, <2>1, Induction
    <2>3. n + 1 - n = 1
      BY <1>1
    <2> QED BY <1>1, <2>2, <2>3 DEF M
  <1> QED BY <1>1, <1>2, <1>6, <1>12 DEF n

Plain(s, n) == \A k \in 1 .. n : s[k] \in (-128 .. 127) \ {92}
SameTo(s, t, n) == \A k \in 1 .. n : s[k] = t[k]

\* Texts of strings without a backslash are the same only for the same
\* characters.
LEMMA PrintsTell ==
  ASSUME NEW s, NEW t, NEW m \in Nat, NEW n \in Nat, NEW r, NEW q,
         Prints(s, m, r), Prints(t, n, q), r[1] = q[1],
         Plain(s, m), Plain(t, n)
  PROVE  m = n /\ SameTo(s, t, m)
  <1>0. /\ \A k \in 1 .. m : s[k] \in (-128 .. 127) \ {92}
        /\ \A k \in 1 .. n : t[k] \in (-128 .. 127) \ {92}
    BY DEF Plain
  <1>1. /\ \A k \in 1 .. m : r[k] = UnityPrintChar(s[k]) \o r[k + 1]
        /\ \A k \in 1 .. m + 1 : r[k] \in Seq(Nat)
        /\ r[m + 1] = <<>>
    BY DEF Prints
  <1>2. /\ \A k \in 1 .. n : q[k] = UnityPrintChar(t[k]) \o q[k + 1]
        /\ \A k \in 1 .. n + 1 : q[k] \in Seq(Nat)
        /\ q[n + 1] = <<>>
    BY DEF Prints
  <1>3. ASSUME NEW c \in -128 .. 127, NEW x \in Seq(Nat)
        PROVE  UnityPrintChar(c) \o x # <<>>
    <2> DEFINE u == UnityPrintChar(c)
    <2>1. u \in Seq(Nat) /\ Len(u) >= 1
      <3>1. IsCharText(c, u)
        BY CharIs
      <3> HIDE DEF u
      <3>2. u \in Seq(Nat) /\ (Len(u) = 1 \/ Len(u) >= 2)
        BY <3>1, Zenon DEF IsCharText
      <3> DEFINE l == Len(u)
      <3>3. l \in Nat /\ (l = 1 \/ l >= 2)
        BY <3>2
      <3> HIDE DEF l
      <3>4. l >= 1
        BY <3>3
      <3> QED BY <3>2, <3>4 DEF l
    <2> HIDE DEF u
    <2>2. Len(u \o x) = Len(u) + Len(x) /\ Len(x) \in Nat /\ Len(u) \in Nat
      BY <2>1, JoinIs
    <2>3. Len(u \o x) # 0
      BY <2>1, <2>2
    <2> QED BY <2>3 DEF u
  <1> DEFINE Same(j) == j <= n /\ r[j + 1] = q[j + 1] /\ \A i \in 1 .. j : s[i] = t[i]
             M == {j \in Nat : j <= m => Same(j)}
  <1>4. 0 \in M
    OBVIOUS
  <1>5. ASSUME NEW j \in M PROVE j + 1 \in M
    <2> HIDE DEF Same
    <2> SUFFICES ASSUME j + 1 <= m PROVE Same(j + 1)
      OBVIOUS
    <2>1. j \in Nat /\ j <= m /\ Same(j)
      OBVIOUS
    <2> HIDE DEF M
    <2> DEFINE k == j + 1
    <2>2. k \in 1 .. m /\ k + 1 \in 1 .. m + 1 /\ k \in Nat
      BY <2>1
    <2>3. j <= n /\ r[k] = q[k]
      BY <2>1 DEF Same
    <2> HIDE DEF k
    <2>4. r[k] = UnityPrintChar(s[k]) \o r[k + 1] /\ r[k + 1] \in Seq(Nat)
          /\ s[k] \in -128 .. 127 /\ s[k] # 92
      BY <1>0, <1>1, <2>2
    <2>5. r[k] # <<>>
      <3> DEFINE c == s[k]
                 x == r[k + 1]
      <3>1. c \in -128 .. 127 /\ x \in Seq(Nat) /\ r[k] = UnityPrintChar(c) \o x
        BY <2>4
      <3> HIDE DEF c, x
      <3> QED BY <1>3, <3>1
    <2>6. k \in 1 .. n /\ k + 1 \in 1 .. n + 1
      <3>1. k # n + 1
        BY <1>2, <2>3, <2>5
      <3> QED BY <2>1, <2>2, <2>3, <3>1 DEF k
    <2>7. q[k] = UnityPrintChar(t[k]) \o q[k + 1] /\ q[k + 1] \in Seq(Nat)
          /\ t[k] \in -128 .. 127 /\ t[k] # 92
      BY <1>0, <1>2, <2>6
    <2>8. s[k] = t[k] /\ r[k + 1] = q[k + 1]
      <3> DEFINE c == s[k]
                 d == t[k]
                 x == r[k + 1]
                 y == q[k + 1]
      <3>1. /\ c \in -128 .. 127 /\ d \in -128 .. 127 /\ c # 92 /\ d # 92
            /\ x \in Seq(Nat) /\ y \in Seq(Nat)
            /\ UnityPrintChar(c) \o x = UnityPrintChar(d) \o y
        BY <2>3, <2>4, <2>7
      <3> HIDE DEF c, d, x, y
      <3>2. c = d
        BY <3>1, CharTells, ZenonT(40)
      <3> DEFINE v == UnityPrintChar(c)
      <3>4. v \in Seq(Nat) /\ v \o x = v \o y
        BY <3>1, <3>2, CharIs DEF IsCharText
      <3> HIDE DEF v
      <3>3. x = y
        BY <3>1, <3>4, Cancel
      <3> QED BY <3>2, <3>3 DEF c, d, x, y
    <2>9. \A i \in 1 .. k : i = k \/ i \in 1 .. j
      BY <2>1 DEF k
    <2>10. \A i \in 1 .. k : s[i] = t[i]
      BY <2>1, <2>8, <2>9 DEF Same
    <2>11. k <= n
      BY <2>6
    <2>12. Same(k)
      BY <2>8, <2>10, <2>11 DEF Same
    <2> QED BY <2>12 DEF k
  <1>6. Same(m)
    <2> HIDE DEF Same
    <2>1. M \in SUBSET Nat
      OBVIOUS
    <2> HIDE DEF M
    <2>2. m \in M
      BY <1>4, <1>5, <2>1, Induction
    <2> QED BY <2>2 DEF M
  <1>7. m = n
    <2> SUFFICES ASSUME m # n PROVE FALSE
      OBVIOUS
    <2> DEFINE k == m + 1
    <2>1. k \in 1 .. n /\ k + 1 \in 1 .. n + 1
      BY <1>6
    <2>2. q[k] = <<>>
      BY <1>1, <1>6
    <2> HIDE DEF k
    <2>3. q[k] = UnityPrintChar(t[k]) \o q[k + 1] /\ q[k + 1] \in Seq(Nat) /\ t[k] \in -128 .. 127
      BY <1>0, <1>2, <2>1
    <2> DEFINE c == t[k]
               x == q[k + 1]
    <2>4. c \in -128 .. 127 /\ x \in Seq(Nat) /\ q[k] = UnityPrintChar(c) \o x
      BY <2>3
    <2> HIDE DEF c, x
    <2> QED BY <1>3, <2>2, <2>4
  <1> QED BY <1>6, <1>7 DEF SameTo

NoEscape(s) == Char.backslash \notin Range(s)

SameShown(s, i, t, j) == IF NullString \in {s, t} THEN s = t
                         ELSE SubSeq(s, 1, ShownOf(s, i)) = SubSeq(t, 1, ShownOf(t, j))

\* A string or its beginning in quotes, and the text for no string.
LEMMA QuotedTells ==
  ASSUME NEW e \in Pointed, NEW a \in Pointed, NEW i \in Nat, NEW j \in Nat,
         NoEscape(e), NoEscape(a), Quoted(e, i) = Quoted(a, j)
  PROVE  SameShown(e, i, a, j)
  <1>1. Char.quote = 39 /\ Char.backslash = 92
    BY DEF Char
  <1> DEFINE q == <<39>>
             null == <<78, 85, 76, 76>>
  <1>2. q \in Seq(Nat) /\ Len(q) = 1 /\ q[1] = 39
    OBVIOUS
  <1>3. null[1] = 78
    OBVIOUS
  <1>4. ASSUME NEW s \in Pointed, NEW n \in Nat, s # NullString
        PROVE  /\ s \in Seq(Character) /\ UnityPrintLen(s, n) \in Seq(Nat)
               /\ Quoted(s, n) = (q \o UnityPrintLen(s, n)) \o q
               /\ Quoted(s, n)[1] = 39
    <2>1. s \in Seq(Character)
      BY <1>4 DEF Pointed
    <2> DEFINE u == UnityPrintLen(s, n)
               m == ShownOf(s, n)
    <2>2. PICK r : Prints(s, m, r) /\ u = r[1]
      BY <2>1, PrintLenIs
    <2>3. m \in Nat
      <3>1. m \in 0 .. Len(s) /\ Len(s) \in Nat
        BY <2>1, PrintLenIs, SMTT(40)
      <3> HIDE DEF m
      <3> QED BY <3>1
    <2> HIDE DEF m
    <2>4. u \in Seq(Nat)
      <3>1. r \in [1 .. m + 1 -> Seq(Nat)] /\ 1 \in 1 .. m + 1
        BY <2>2, <2>3 DEF Prints
      <3> QED BY <2>2, <3>1
    <2>5. Quoted(s, n) = (q \o u) \o q
      BY <1>1, <1>4 DEF Quoted
    <2> HIDE DEF u, q
    <2>6. q \o u \in Seq(Nat) /\ Len(q \o u) = Len(q) + Len(u) /\ (q \o u)[1] = q[1]
      <3>1. q \o u \in Seq(Nat) /\ Len(q \o u) = Len(q) + Len(u)
            /\ \A k \in 1 .. Len(q) : (q \o u)[k] = q[k]
        BY <1>2, <2>4, JoinIs, Zenon
      <3>2. 1 \in 1 .. Len(q)
        BY <1>2
      <3> QED BY <3>1, <3>2
    <2> DEFINE v == q \o u
    <2>7. v \in Seq(Nat) /\ Len(v) >= 1
      <3>1. Len(u) \in Nat
        BY <2>4
      <3> QED BY <1>2, <2>6, <3>1
    <2> HIDE DEF v
    <2>8. (v \o q)[1] = v[1]
      <3>1. \A k \in 1 .. Len(v) : (v \o q)[k] = v[k]
        BY <1>2, <2>7, JoinIs, Zenon
      <3>2. 1 \in 1 .. Len(v)
        BY <2>7
      <3> QED BY <3>1, <3>2
    <2> QED BY <1>2, <2>1, <2>4, <2>5, <2>6, <2>8 DEF u, v
  <1>5. ASSUME NEW n PROVE Quoted(NullString, n)[1] = 78
    BY <1>3 DEF Quoted
  <1> HIDE DEF q, null
  <1>6. CASE NullString \in {e, a}
    <2>1. CASE e = NullString /\ a # NullString
      <3>1. Quoted(e, i)[1] = 78
        BY <1>5, <2>1, Zenon
      <3>2. Quoted(a, j)[1] = 39
        BY <1>4, <2>1, Zenon
      <3> QED BY <3>1, <3>2
    <2>2. CASE a = NullString /\ e # NullString
      <3>1. Quoted(a, j)[1] = 78
        BY <1>5, <2>2, Zenon
      <3>2. Quoted(e, i)[1] = 39
        BY <1>4, <2>2, Zenon
      <3> QED BY <3>1, <3>2
    <2>3. CASE a = NullString /\ e = NullString
      BY <1>6, <2>3, Zenon DEF SameShown
    <2> QED BY <1>6, <2>1, <2>2, <2>3
  <1>7. CASE NullString \notin {e, a}
    <2> DEFINE u == UnityPrintLen(e, i)
               v == UnityPrintLen(a, j)
               m == ShownOf(e, i)
               n == ShownOf(a, j)
    <2>1. e \in Seq(Character) /\ a \in Seq(Character) /\ u \in Seq(Nat) /\ v \in Seq(Nat)
      BY <1>4, <1>7
    <2>2. (q \o u) \o q = (q \o v) \o q
      BY <1>4, <1>7
    <2>3. PICK r : Prints(e, m, r) /\ u = r[1]
      BY <2>1, PrintLenIs
    <2>4. PICK p : Prints(a, n, p) /\ v = p[1]
      BY <2>1, PrintLenIs
    <2>5. m \in 0 .. Len(e) /\ n \in 0 .. Len(a) /\ Len(e) \in Nat /\ Len(a) \in Nat
      <3>1. m \in 0 .. Len(e) /\ n \in 0 .. Len(a)
        BY <2>1, PrintLenIs, Zenon
      <3> HIDE DEF m, n
      <3> QED BY <2>1, <3>1
    <2> HIDE DEF u, v, m, n
    <2>6. u = v
      <3> DEFINE x == q \o u
                 y == q \o v
      <3>1. x \in Seq(Nat) /\ y \in Seq(Nat)
        BY <1>2, <2>1, JoinIs
      <3>2. x \o q = y \o q
        BY <2>2
      <3> HIDE DEF x, y
      <3>3. x = y
        BY <1>2, <3>1, <3>2, Cancel
      <3>4. q \o u = q \o v
        BY <3>3 DEF x, y
      <3> QED BY <1>2, <2>1, <3>4, Cancel
    <2>7. /\ \A k \in 1 .. m : e[k] \in (-128 .. 127) \ {92}
          /\ \A k \in 1 .. n : a[k] \in (-128 .. 127) \ {92}
      <3>1. 92 \notin Range(e) /\ 92 \notin Range(a)
        BY <1>1 DEF NoEscape
      <3>2. /\ \A k \in 1 .. Len(e) : e[k] \in Character /\ e[k] \in Range(e)
            /\ \A k \in 1 .. Len(a) : a[k] \in Character /\ a[k] \in Range(a)
        BY <2>1 DEF Range
      <3>3. /\ \A k \in 1 .. m : k \in 1 .. Len(e)
            /\ \A k \in 1 .. n : k \in 1 .. Len(a)
        BY <2>5
      <3>4. Character \subseteq -128 .. 127
        BY DEF Character
      <3>5. \A k \in 1 .. m : e[k] \in -128 .. 127 /\ e[k] # 92
        BY <3>1, <3>2, <3>3, <3>4
      <3>6. \A k \in 1 .. n : a[k] \in -128 .. 127 /\ a[k] # 92
        BY <3>1, <3>2, <3>3, <3>4
      <3> QED BY <3>5, <3>6
    <2>8. m = n /\ \A k \in 1 .. m : e[k] = a[k]
      <3>1. m \in Nat /\ n \in Nat /\ r[1] = p[1]
        BY <2>3, <2>4, <2>5, <2>6
      <3>2. Plain(e, m) /\ Plain(a, n)
        BY <2>7, Zenon DEF Plain
      <3>3. m = n /\ SameTo(e, a, m)
        BY <2>3, <2>4, <3>1, <3>2, PrintsTell, Zenon
      <3> QED BY <3>3, Zenon DEF SameTo
    <2> DEFINE E == SubSeq(e, 1, m)
               A == SubSeq(a, 1, n)
    <2>9. /\ E \in Seq(Character) /\ Len(E) = m /\ \A k \in 1 .. m : E[k] = e[k]
          /\ A \in Seq(Character) /\ Len(A) = n /\ \A k \in 1 .. n : A[k] = a[k]
      BY <2>1, <2>5
    <2> HIDE DEF E, A
    <2>10. Len(E) = Len(A) /\ \A k \in 1 .. Len(E) : E[k] = A[k]
      BY <2>8, <2>9
    <2>11. E = A
      BY <2>9, <2>10, SeqEqual
    <2> QED BY <1>7, <2>11 DEF E, A, m, n, SameShown
  <1> QED BY <1>6, <1>7

-----------------------------------------------------------------------------
(* Numbers in a style *)

LEMMA DecimalText ==
  ASSUME NEW n \in Nat
  PROVE  UnityPrintNumberUnsigned(n) \in Seq(Nat) /\ UnityPrintNumberUnsigned(n)[1] # 45
  <1>1. PICK f : Decimal(n, f) /\ UnityPrintNumberUnsigned(n) = f[n]
    BY DecimalIs
  <1>2. n \in 0 .. n
    OBVIOUS
  <1>3. f[n] \in Seq(Nat) /\ f[n][1] \in 48 .. 57
    BY <1>1, <1>2, DecimalBegins
  <1>4. \A c \in 48 .. 57 : c # 45
    OBVIOUS
  <1> QED BY <1>1, <1>3, <1>4

LEMMA NumberTells ==
  ASSUME NEW x \in -Half(WideBytes) .. Half(WideBytes) - 1,
         NEW y \in -Half(WideBytes) .. Half(WideBytes) - 1,
         UnityPrintNumber(x) = UnityPrintNumber(y)
  PROVE  x = y
  <1> DEFINE D(n) == UnityPrintNumberUnsigned(n)
             q == <<45>>
  <1>1. Char.minus = 45
    BY DEF Char
  <1>2. WideBytes \in Nat \ {0}
    BY BytesAssumption
  <1>3. Half(WideBytes) \in Nat \ {0} /\ Size(WideBytes) = 2 * Half(WideBytes)
    BY <1>2, SizeType
  <1>4. x \in Int /\ y \in Int
    BY <1>3
  <1>5. q \in Seq(Nat) /\ Len(q) = 1 /\ q[1] = 45
    OBVIOUS
  <1>6. ASSUME NEW z \in -Half(WideBytes) .. Half(WideBytes) - 1, z < 0
        PROVE  /\ -z \in Nat /\ D(-z) \in Seq(Nat)
               /\ UnityPrintNumber(z) = q \o D(-z)
               /\ UnityPrintNumber(z)[1] = 45
    <2> DEFINE w == -z
    <2>1. w \in Nat /\ w \in 0 .. Size(WideBytes) - 1
      BY <1>3, <1>6
    <2>2. UnityPrintNumber(z) = q \o D(Unsigned(w, WideBytes))
      BY <1>1, <1>6 DEF UnityPrintNumber
    <2> HIDE DEF w
    <2>3. Unsigned(w, WideBytes) = w
      BY <1>2, <2>1, UnsignedSmall
    <2>4. D(w) \in Seq(Nat)
      BY <2>1, DecimalText
    <2> HIDE DEF D, q
    <2>5. (q \o D(w))[1] = q[1]
      <3>1. \A k \in 1 .. Len(q) : (q \o D(w))[k] = q[k]
        BY <1>5, <2>4, JoinIs
      <3>2. 1 \in 1 .. Len(q)
        BY <1>5
      <3> QED BY <3>1, <3>2
    <2> QED BY <1>5, <2>1, <2>2, <2>3, <2>4, <2>5 DEF w
  <1>7. ASSUME NEW z \in -Half(WideBytes) .. Half(WideBytes) - 1, ~(z < 0)
        PROVE  z \in Nat /\ UnityPrintNumber(z) = D(z) /\ UnityPrintNumber(z)[1] # 45
    <2>1. z \in Nat
      BY <1>3, <1>7
    <2>2. UnityPrintNumber(z) = D(z)
      BY <1>7 DEF UnityPrintNumber
    <2> QED BY <2>1, <2>2, DecimalText
  <1> HIDE DEF q
  <1>8. CASE x < 0 /\ y < 0
    <2>1. q \o D(-x) = q \o D(-y)
      BY <1>6, <1>8
    <2>2. -x \in Nat /\ -y \in Nat /\ D(-x) \in Seq(Nat) /\ D(-y) \in Seq(Nat)
      BY <1>6, <1>8
    <2> DEFINE u == -x
               v == -y
    <2>3. u \in Nat /\ v \in Nat /\ D(u) \in Seq(Nat) /\ D(v) \in Seq(Nat) /\ q \o D(u) = q \o D(v)
      BY <2>1, <2>2
    <2> HIDE DEF u, v
    <2>4. D(u) = D(v)
      <3> DEFINE s == D(u)
                 t == D(v)
      <3>1. s \in Seq(Nat) /\ t \in Seq(Nat) /\ q \o s = q \o t
        BY <2>3
      <3> HIDE DEF s, t
      <3>2. s = t
        BY <1>5, <3>1, Cancel
      <3> QED BY <3>2 DEF s, t
    <2>5. u = v
      BY <2>3, <2>4, DecimalTells
    <2> QED BY <1>4, <2>5 DEF u, v
  <1>9. CASE ~(x < 0) /\ ~(y < 0)
    <2>1. x \in Nat /\ y \in Nat /\ D(x) = D(y)
      BY <1>7, <1>9
    <2> QED BY <2>1, DecimalTells
  <1>10. CASE x < 0 /\ ~(y < 0)
    BY <1>6, <1>7, <1>10
  <1>11. CASE ~(x < 0) /\ y < 0
    BY <1>6, <1>7, <1>11
  <1> QED BY <1>8, <1>9, <1>10, <1>11

\* Values of the type a style names have one text only if they are the same in
\* that type.
LEMMA StyleTells ==
  ASSUME NEW style \in Styles, NEW x \in Int, NEW y \in Int,
         IsInt(style) => /\ x \in -Half(style.length) .. Half(style.length) - 1
                         /\ y \in -Half(style.length) .. Half(style.length) - 1,
         UnityPrintNumberByStyle(x, style) = UnityPrintNumberByStyle(y, style)
  PROVE  Unsigned(x, style.length) = Unsigned(y, style.length)
  <1> DEFINE b == style.length
  <1>1. b \in Nat \ {0} /\ b <= WideBytes /\ WideBytes \in Nat \ {0}
    BY StyleIs
  <1>2. style.range \in {"int", "uint", "hex", "char"}
    BY StyleIs
  <1>3. CASE style.range = "int"
    <2>1. UnityPrintNumber(x) = UnityPrintNumber(y)
      <3>1. ~(style.range = "char")
        BY <1>3
      <3> QED BY <1>3, <3>1 DEF UnityPrintNumberByStyle
    <2>2. x \in -Half(b) .. Half(b) - 1 /\ y \in -Half(b) .. Half(b) - 1
      BY <1>3 DEF IsInt
    <2> HIDE DEF b
    <2>3. Half(b) \in Nat /\ Half(WideBytes) \in Nat /\ Half(b) <= Half(WideBytes)
      BY <1>1, SizeType, SizeGrows
    <2>4. /\ x \in -Half(WideBytes) .. Half(WideBytes) - 1
          /\ y \in -Half(WideBytes) .. Half(WideBytes) - 1
      BY <2>2, <2>3
    <2>5. x = y
      BY <2>1, <2>4, NumberTells
    <2> QED BY <2>5
  <1>4. CASE style.range = "uint"
    <2>1. UnityPrintNumberUnsigned(Unsigned(x, WideBytes))
            = UnityPrintNumberUnsigned(Unsigned(y, WideBytes))
      <3>1. ~(style.range = "char") /\ ~(style.range = "int")
        BY <1>4
      <3> QED BY <1>4, <3>1 DEF UnityPrintNumberByStyle
    <2> DEFINE u == Unsigned(x, WideBytes)
               v == Unsigned(y, WideBytes)
    <2>2. u \in Nat /\ v \in Nat
      BY <1>1, UnsignedIs, SizeType
    <2>3. u = v
      <3> HIDE DEF u, v
      <3>1. UnityPrintNumberUnsigned(u) = UnityPrintNumberUnsigned(v)
        BY <2>1 DEF u, v
      <3> QED BY <2>2, <3>1, DecimalTells
    <2>4. Unsigned(u, b) = Unsigned(x, b) /\ Unsigned(v, b) = Unsigned(y, b)
      BY <1>1, Narrow
    <2> QED BY <2>3, <2>4
  <1>5. CASE style.range = "hex"
    <2> DEFINE p == <<Char.digit, Char.x>>
               u == UnityPrintNumberHex(x, 2 * b)
               v == UnityPrintNumberHex(y, 2 * b)
    <2>1. p \o u = p \o v
      <3>1. ~(style.range = "char") /\ ~(style.range = "int") /\ ~(style.range = "uint")
        BY <1>5
      <3> QED BY <1>5, <3>1 DEF UnityPrintNumberByStyle
    <2>2. p \in Seq(Nat)
      <3>1. Char.digit = 48 /\ Char.x = 120
        BY DEF Char
      <3> QED BY <3>1
    <2>3. u \in Seq(Nat) /\ v \in Seq(Nat)
      <3> HIDE DEF b
      <3> QED BY <1>1, HexIs
    <2> HIDE DEF p, u, v
    <2>4. u = v
      BY <2>1, <2>2, <2>3, Cancel
    <2> HIDE DEF b
    <2>5. Unsigned(x, b) = Unsigned(y, b)
      BY <1>1, <2>4, HexTells DEF u, v
    <2> QED BY <2>5 DEF b
  <1>6. CASE style.range = "char"
    <2> DEFINE q == <<Char.quote>>
               u == UnityPrintChar(x)
               v == UnityPrintChar(y)
    <2>1. (q \o u) \o q = (q \o v) \o q
      BY <1>6 DEF UnityPrintNumberByStyle
    <2>2. style.length = 1
      BY <1>6 DEF Styles
    <2>3. Half(1) = 128
      <3>1. Size(1) = 256 * Size(0) /\ Size(0) = 1 /\ 0 + 1 = 1
        BY SizeNext
      <3>2. Size(1) = 2 * Half(1) /\ Half(1) \in Nat
        BY SizeType
      <3> QED BY <3>1, <3>2
    <2>4. x \in -128 .. 127 /\ y \in -128 .. 127
      BY <1>6, <2>2, <2>3, SMTT(40) DEF IsInt
    <2>5. u \in Seq(Nat) /\ v \in Seq(Nat)
      BY <2>4, CharIs DEF IsCharText
    <2>6. q \in Seq(Nat)
      <3>1. Char.quote = 39
        BY DEF Char
      <3> QED BY <3>1
    <2> HIDE DEF q, u, v
    <2> DEFINE s == q \o u
               t == q \o v
    <2>7. s \in Seq(Nat) /\ t \in Seq(Nat) /\ s \o q = t \o q
      BY <2>1, <2>5, <2>6, JoinIs
    <2> HIDE DEF s, t
    <2>8. s = t
      BY <2>6, <2>7, Cancel
    <2>9. u = v
      <3>1. q \o u = q \o v
        BY <2>8 DEF s, t
      <3> QED BY <2>5, <2>6, <3>1, Cancel
    <2>10. x = y
      BY <2>4, <2>9, OneCharTells DEF u, v
    <2> QED BY <2>10
  <1> QED BY <1>2, <1>3, <1>4, <1>5, <1>6

-----------------------------------------------------------------------------
(* The messages of assertions *)

\* What an assertion of equality prints is the element of an array in the bytes
\* compared, as it is its argument (ArgumentShown).
LEMMA ElementShown ==
  ASSUME NEW style \in Styles, NEW c, NEW i, AreBytes(c, i, style.length)
  PROVE  /\ EqualElement(c, i, style) \in Int
         /\ Unsigned(EqualElement(c, i, style), style.length) = Element(c, i, style.length)
         /\ IsInt(style) =>
              EqualElement(c, i, style) \in -Half(style.length) .. Half(style.length) - 1
  <1> DEFINE b == style.length
             x == Element(c, i, b)
  <1>1. b \in Nat \ {0}
    BY StyleIs
  <1>2. x \in 0 .. Size(b) - 1
    BY <1>1, ElementsAre
  <1>3. Size(b) \in Nat
    BY <1>1, SizeType
  <1>4. EqualElement(c, i, style)
          = (IF IsInt(style) \/ b = WideBytes THEN Signed(x, b) ELSE x)
    BY DEF EqualElement
  <1> HIDE DEF b, x
  <1>5. x \in Int /\ Unsigned(x, b) = x
    BY <1>1, <1>2, <1>3, UnsignedSmall
  <1>6. /\ Signed(x, b) \in Int /\ Unsigned(Signed(x, b), b) = x
        /\ Signed(x, b) \in -Half(b) .. Half(b) - 1
    BY <1>1, <1>5, SignedIs
  <1> QED BY <1>4, <1>5, <1>6 DEF b, x

\* A wider type than the style's is printed as the style is.
LEMMA PrintedTheSame ==
  ASSUME NEW style \in Styles, NEW type \in ArgumentTypes(style), NEW x
  PROVE  UnityPrintNumberByStyle(x, type) = UnityPrintNumberByStyle(x, style)
  <1>1. CASE type = style
    BY <1>1
  <1>2. CASE style.range \in {"int", "uint"}
    <2>1. type.range = style.range
      BY TypeIs
    <2> QED BY <1>2, <2>1, Zenon DEF UnityPrintNumberByStyle
  <1> QED BY <1>1, <1>2 DEF ArgumentTypes

LEMMA EqualNumberTells ==
  ASSUME NEW type \in Styles, NEW e \in Int, NEW a \in Int,
         UnityPrintNumberByStyle(EqualArgument(e, type), type)
           = UnityPrintNumberByStyle(EqualArgument(a, type), type)
  PROVE  EqualArgument(e, type) = EqualArgument(a, type)
  <1> DEFINE b == type.length
             x == EqualArgument(e, type)
             y == EqualArgument(a, type)
  <1>1. /\ x \in Int /\ Unsigned(x, b) = Unsigned(e, b)
        /\ IsInt(type) => x \in -Half(b) .. Half(b) - 1
    BY ArgumentShown
  <1>2. /\ y \in Int /\ Unsigned(y, b) = Unsigned(a, b)
        /\ IsInt(type) => y \in -Half(b) .. Half(b) - 1
    BY ArgumentShown
  <1>3. Unsigned(x, b) = Unsigned(y, b)
    <2> HIDE DEF x, y
    <2>1. UnityPrintNumberByStyle(x, type) = UnityPrintNumberByStyle(y, type)
      BY DEF x, y
    <2> QED BY <1>1, <1>2, <2>1, StyleTells
  <1>4. Meaning(e, type) = Meaning(a, type)
    BY <1>1, <1>2, <1>3, MeaningIs
  <1> QED BY <1>4, EqualArgumentIs

\* The first of some elements of an array is one of them.
LEMMA FirstIs ==
  ASSUME NEW n \in 0 .. 2, NEW S \in SUBSET (0 .. n - 1), S # {}
  PROVE  Min(S) \in S
  <1>1. \E x \in S : \A y \in S : x <= y
    <2>1. \A x \in S : x \in {0, 1}
      OBVIOUS
    <2>2. CASE 0 \in S
      BY <2>1, <2>2
    <2>3. CASE 0 \notin S
      <3>1. 1 \in S /\ \A y \in S : y = 1
        BY <2>1, <2>3
      <3> QED BY <3>1
    <2> QED BY <2>2, <2>3
  <1> QED BY <1>1, Zenon DEF Min

LEMMA EqualIntArrayTells ==
  ASSUME NEW mem \in [1 .. 2 -> Arrays], NEW p \in Pointers, NEW style \in Styles,
         NEW num \in Fits(style.length), num > 0, NULL \notin {p[1], p[2]},
         ~UnityAssertEqualIntArray(mem, p[1], p[2], num, style, "array"),
         NEW S, S = {i \in 0 .. num - 1 : EqualElement(mem[1], i, style)
                                            # EqualElement(mem[2], i, style)}
  PROVE  UnityPrintNumberByStyle(EqualElement(mem[1], Min(S), style), style)
           # UnityPrintNumberByStyle(EqualElement(mem[2], Min(S), style), style)
  <1> DEFINE n == style.length
             b == mem[1]
             c == mem[2]
             k == Min(S)
  <1>1. n \in Nat \ {0} /\ b \in Arrays /\ c \in Arrays /\ num \in 0 .. 2
    BY StyleIs DEF Fits
  <1>2. /\ p[1] # p[2]
        /\ \E i \in 0 .. num - 1 :
             EqualElement(mem[p[1]], i, style) # EqualElement(mem[p[2]], i, style)
    BY DEF UnityAssertEqualIntArray, ArraysHold, Walk
  <1>3. p[1] = 1 /\ p[2] = 2
    BY <1>2, PointersAre
  <1>4. S # {} /\ S \in SUBSET (0 .. num - 1)
    BY <1>2, <1>3
  <1>5. k \in S
    BY <1>1, <1>4, FirstIs
  <1>6. k \in 0 .. num - 1 /\ EqualElement(b, k, style) # EqualElement(c, k, style)
    BY <1>5
  <1> HIDE DEF b, c, k
  <1>7. AreBytes(b, k, n) /\ AreBytes(c, k, n)
    BY <1>1, <1>6, ArrayIs
  <1> DEFINE x == EqualElement(b, k, style)
             y == EqualElement(c, k, style)
  <1>8. /\ x \in Int /\ Unsigned(x, n) = Element(b, k, n)
        /\ IsInt(style) => x \in -Half(n) .. Half(n) - 1
    BY <1>7, ElementShown
  <1>9. /\ y \in Int /\ Unsigned(y, n) = Element(c, k, n)
        /\ IsInt(style) => y \in -Half(n) .. Half(n) - 1
    BY <1>7, ElementShown
  <1>10. x = y <=> Element(b, k, n) = Element(c, k, n)
    BY <1>7, EqualElementIs
  <1>11. ASSUME UnityPrintNumberByStyle(x, style) = UnityPrintNumberByStyle(y, style)
         PROVE  FALSE
    <2>1. x # y
      BY <1>6
    <2> HIDE DEF x, y
    <2>2. Unsigned(x, n) = Unsigned(y, n)
      BY <1>8, <1>9, <1>11, StyleTells
    <2> QED BY <1>8, <1>9, <1>10, <2>1, <2>2
  <1> QED BY <1>11 DEF b, c, k

\* Other assertions show nothing, or one text.
LEMMA OthersShowLess ==
  ASSUME Next, Len(message') = 2
  PROVE  AssertBits \/ AssertEqualNumber \/ AssertEqualIntArray \/ AssertEqualString
           \/ AssertEqualStringLen
  <1>1. Len(<<>>) # 2
    OBVIOUS
  <1>2. \A x : Len(<<x>>) # 2
    OBVIOUS
  <1>3. AssertOrder => message' = <<>>
    BY Zenon DEF AssertOrder, Make
  <1>4. AssertWithin => message' = <<>>
    BY Zenon DEF AssertWithin, Make
  <1>5. AssertEachEqual => message' = <<>>
    BY Zenon DEF AssertEachEqual, Make
  <1>6. AssertNumbersArrayWithin => message' = <<>>
    BY ZenonT(40) DEF AssertNumbersArrayWithin, Make
  <1>7. AssertEqualMemory => message' = <<>>
    BY Zenon DEF AssertEqualMemory, Make
  <1>8. AssertFloatsWithin => message' = <<>>
    BY Zenon DEF AssertFloatsWithin, Make
  <1>9. AssertEqualFloats => message' = <<>>
    BY Zenon DEF AssertEqualFloats, Make
  <1>10. AssertFloatArray => message' = <<>>
    BY Zenon DEF AssertFloatArray, Make
  <1>11. AssertFloatOrder => message' = <<>>
    BY Zenon DEF AssertFloatOrder, Make
  <1>12. AssertFloatSpecial => message' = <<>>
    BY Zenon DEF AssertFloatSpecial, Make
  <1>13. ShowFloat => message' = <<>> \/ \E x : message' = <<x>>
    BY Zenon DEF ShowFloat, Make
  <1>14. AssertEqualStringArray => message' = <<>>
    BY Zenon DEF AssertEqualStringArray, Make
  <1>15. Select => message' = <<>>
    BY Zenon DEF Select, Make
  <1>16. Continue => message' = <<>>
    BY Zenon DEF Continue
  <1> QED BY <1>1, <1>2, <1>3, <1>4, <1>5, <1>6, <1>7, <1>8, <1>9, <1>10, <1>11, <1>12, <1>13,
             <1>14, <1>15, <1>16, Zenon DEF Next, IntegerAssert, FloatAssert, StringAssert

LEMMA FailureTellsStep ==
  ASSUME Next
  PROVE  FailureTells'
  <1> SUFFICES ASSUME ~passed', Len(message') = 2,
                      call'.fn \in {"String", "StringLen"} =>
                        \A s \in {call'.expected, call'.actual} : Char.backslash \notin Range(s),
                      call'.fn = "Bits" => call'.mask \in 0 .. 2^(8 * IntBytes) - 1,
                      message'[1] = message'[2]
               PROVE  FALSE
    BY Zenon DEF FailureTells
  <1>1. CASE AssertBits
    <2>1. PICK mask \in Numbers, e \in Numbers, a \in Numbers :
            /\ call' = [fn |-> "Bits", mask |-> mask]
            /\ passed' = UnityAssertBits(mask, e, a)
            /\ ~passed' => message' = <<UnityPrintMask(mask, e), UnityPrintMask(mask, a)>>
      BY <1>1, Zenon DEF AssertBits, Make
    <2>2. mask \in 0 .. Size(IntBytes) - 1 /\ e \in Int /\ a \in Int
      BY <2>1, NumbersAssumption DEF Size
    <2>3. UnityPrintMask(mask, e) = UnityPrintMask(mask, a)
      BY <2>1
    <2>4. UnityAssertBits(mask, e, a)
      BY <2>2, <2>3, MaskTells
    <2> QED BY <2>1, <2>4
  <1>2. CASE AssertEqualNumber
    <2>1. PICK e \in Numbers, a \in Numbers, style \in Styles, type \in Styles :
            /\ type \in ArgumentTypes(style)
            /\ passed' = UnityAssertEqualNumber(EqualArgument(e, type), EqualArgument(a, type))
            /\ ~passed' => message' = Shown(EqualArgument(e, type), EqualArgument(a, type), style)
      BY <1>2, TypeIs, Zenon DEF AssertEqualNumber, Make
    <2>2. e \in Int /\ a \in Int
      BY NumbersAssumption
    <2>3. UnityPrintNumberByStyle(EqualArgument(e, type), type)
            = UnityPrintNumberByStyle(EqualArgument(a, type), type)
      <3>1. UnityPrintNumberByStyle(EqualArgument(e, type), style)
              = UnityPrintNumberByStyle(EqualArgument(a, type), style)
        BY <2>1 DEF Shown
      <3>2. type \in ArgumentTypes(style)
        BY <2>1
      <3>3. \A x : UnityPrintNumberByStyle(x, type) = UnityPrintNumberByStyle(x, style)
        BY <3>2, PrintedTheSame, Zenon
      <3> QED BY <3>1, <3>3, Zenon
    <2>4. EqualArgument(e, type) = EqualArgument(a, type)
      BY <2>2, <2>3, EqualNumberTells
    <2> QED BY <2>1, <2>4 DEF UnityAssertEqualNumber
  <1>3. CASE AssertEqualIntArray
    <2>1. PICK mem \in [1 .. 2 -> Arrays], p \in Pointers, style \in Styles :
          \E num \in Fits(style.length) :
            Make([fn |-> "EqualIntArray", mem |-> mem, p |-> p, num |-> num, style |-> style],
                 UnityAssertEqualIntArray(mem, p[1], p[2], num, style, "array"),
                 IF num > 0 /\ NULL \notin {p[1], p[2]}
                 THEN Shown(EqualElement(mem[1], Min({i \in 0 .. num - 1 :
                              EqualElement(mem[1], i, style) # EqualElement(mem[2], i, style)}),
                              style),
                            EqualElement(mem[2], Min({i \in 0 .. num - 1 :
                              EqualElement(mem[1], i, style) # EqualElement(mem[2], i, style)}),
                              style),
                            style)
                 ELSE <<>>)
      BY <1>3 DEF AssertEqualIntArray, Differing
    <2>2. PICK num \in Fits(style.length) :
            Make([fn |-> "EqualIntArray", mem |-> mem, p |-> p, num |-> num, style |-> style],
                 UnityAssertEqualIntArray(mem, p[1], p[2], num, style, "array"),
                 IF num > 0 /\ NULL \notin {p[1], p[2]}
                 THEN Shown(EqualElement(mem[1], Min({i \in 0 .. num - 1 :
                              EqualElement(mem[1], i, style) # EqualElement(mem[2], i, style)}),
                              style),
                            EqualElement(mem[2], Min({i \in 0 .. num - 1 :
                              EqualElement(mem[1], i, style) # EqualElement(mem[2], i, style)}),
                              style),
                            style)
                 ELSE <<>>)
      BY <2>1
    <2> DEFINE S == {i \in 0 .. num - 1 : EqualElement(mem[1], i, style)
                                            # EqualElement(mem[2], i, style)}
               x == EqualElement(mem[1], Min(S), style)
               y == EqualElement(mem[2], Min(S), style)
    <2>3. /\ passed' = UnityAssertEqualIntArray(mem, p[1], p[2], num, style, "array")
          /\ ~passed' => message' = IF num > 0 /\ NULL \notin {p[1], p[2]}
                                    THEN Shown(x, y, style) ELSE <<>>
      BY <2>2 DEF Make
    <2>4. num > 0 /\ NULL \notin {p[1], p[2]}
      <3>1. Len(<<>>) # 2
        OBVIOUS
      <3> HIDE DEF x, y
      <3> QED BY <2>3, <3>1
    <2>5. message' = Shown(x, y, style)
      BY <2>3, <2>4
    <2>6. UnityPrintNumberByStyle(x, style) # UnityPrintNumberByStyle(y, style)
      <3>1. ~UnityAssertEqualIntArray(mem, p[1], p[2], num, style, "array")
        BY <2>3
      <3> QED BY <2>4, <3>1, EqualIntArrayTells, Zenon
    <2> HIDE DEF x, y
    <2> QED BY <2>5, <2>6 DEF Shown
  <1>4. CASE AssertEqualString
    <2>1. PICK e \in Strings, a \in Strings :
            /\ call' = [fn |-> "String", expected |-> e, actual |-> a]
            /\ passed' = UnityAssertEqualString(e, a)
            /\ ~passed' => message' = <<Quoted(e, Len(e)), Quoted(a, Len(a))>>
      BY <1>4, Zenon DEF AssertEqualString, Make
    <2>2. e \in Pointed /\ a \in Pointed
      BY StringsAssumption DEF Pointed, Character
    <2>3. NoEscape(e) /\ NoEscape(a)
      BY <2>1 DEF NoEscape
    <2>4. Quoted(e, Len(e)) = Quoted(a, Len(a))
      BY <2>1
    <2>5. e # a
      BY <2>1, <2>2, EqualStringIs DEF Pointed
    <2>6. Len(e) \in Nat /\ Len(a) \in Nat
      BY <2>2 DEF Pointed, NullString
    <2>7. SameShown(e, Len(e), a, Len(a))
      BY <2>2, <2>3, <2>4, <2>6, QuotedTells, Zenon
    <2>8. IF NullString \in {e, a} THEN e = a
          ELSE SubSeq(e, 1, ShownOf(e, Len(e))) = SubSeq(a, 1, ShownOf(a, Len(a)))
      BY <2>7, Zenon DEF SameShown
    <2>9. NullString \notin {e, a}
      BY <2>5, <2>8, Zenon
    <2>10. e \in Seq(Character) /\ a \in Seq(Character)
      BY <2>2, <2>9 DEF Pointed
    <2>11. SubSeq(e, 1, Len(e)) = e /\ SubSeq(a, 1, Len(a)) = a
      BY <2>10, SubSeqFull
    <2>12. ShownOf(e, Len(e)) = Len(e) /\ ShownOf(a, Len(a)) = Len(a)
      BY DEF ShownOf
    <2> QED BY <2>5, <2>8, <2>9, <2>11, <2>12, Zenon
  <1>5. CASE AssertEqualStringLen
    <2>1. PICK e \in Strings, a \in Strings, length \in 0 .. 2 :
            /\ call' = [fn |-> "StringLen", expected |-> e, actual |-> a, length |-> length]
            /\ passed' = UnityAssertEqualStringLen(e, a, length)
            /\ ~passed' => message' = <<Quoted(e, length), Quoted(a, length)>>
      BY <1>5, Zenon DEF AssertEqualStringLen, Make
    <2>2. e \in Pointed /\ a \in Pointed /\ length \in Nat
      BY StringsAssumption DEF Pointed, Character
    <2>3. NoEscape(e) /\ NoEscape(a)
      BY <2>1 DEF NoEscape
    <2>4. Quoted(e, length) = Quoted(a, length)
      BY <2>1
    <2>5. SameShown(e, length, a, length)
      BY <2>2, <2>3, <2>4, QuotedTells, Zenon
    <2>6. IF NullString \in {e, a} THEN e = a
          ELSE SubSeq(e, 1, ShownOf(e, length)) = SubSeq(a, 1, ShownOf(a, length))
      BY <2>5, Zenon DEF SameShown
    <2>7. ASSUME NullString \notin {e, a}
          PROVE  /\ Min({length, Len(e)}) = ShownOf(e, length)
                 /\ Min({length, Len(a)}) = ShownOf(a, length)
      <3>1. e \in Seq(Character) /\ a \in Seq(Character)
        BY <2>2, <2>7 DEF Pointed
      <3>2. Len(e) \in Int /\ Len(a) \in Int /\ length \in Int
        BY <2>2, <3>1
      <3>3. /\ Min({length, Len(e)}) = IF length <= Len(e) THEN length ELSE Len(e)
            /\ Min({length, Len(a)}) = IF length <= Len(a) THEN length ELSE Len(a)
        BY <3>2, MaxIs, Zenon
      <3> QED BY <3>2, <3>3 DEF ShownOf
    <2>8. IF NullString \in {e, a} THEN e = a
          ELSE SubSeq(e, 1, Min({length, Len(e)})) = SubSeq(a, 1, Min({length, Len(a)}))
      BY <2>6, <2>7, Zenon
    <2>9. UnityAssertEqualStringLen(e, a, length)
      BY <2>2, <2>8, StringLenIs, Zenon
    <2> QED BY <2>1, <2>9
  <1> QED BY <1>1, <1>2, <1>3, <1>4, <1>5, OthersShowLess

\* A message shows two different texts, for all numbers in every style, all
\* masks of an int, all arrays, and all strings without a backslash, however
\* long: FailureTells.
THEOREM FailureTellsHolds == Spec => []FailureTells
  <1>1. Init => FailureTells
    BY DEF Init, FailureTells
  <1>2. FailureTells /\ [Next]_vars => FailureTells'
    <2>1. FailureTells /\ UNCHANGED vars => FailureTells'
      <3> SUFFICES ASSUME FailureTells, UNCHANGED vars PROVE FailureTells'
        OBVIOUS
      <3>1. call' = call /\ passed' = passed /\ message' = message
        BY DEF vars
      <3> QED BY <3>1, Zenon DEF FailureTells
    <2> QED BY <2>1, FailureTellsStep
  <1> QED BY <1>1, <1>2, PTL DEF Spec

-----------------------------------------------------------------------------
(* Powers of ten *)

Powers(n, f) ==
  /\ f \in [0 .. n -> Nat \ {0}] /\ f[0] = 1
  /\ \A k \in 1 .. n : f[k] = 10 * f[k - 1]

LEMMA PowersExist ==
  ASSUME NEW n \in Nat
  PROVE  \E f : Powers(n, f)
  <1> DEFINE M == {m \in Nat : \E f : Powers(m, f)}
  <1>1. 0 \in M
    <2> DEFINE f == [k \in 0 .. 0 |-> 1]
    <2>1. Powers(0, f)
      BY DEF Powers
    <2> QED BY <2>1
  <1>2. ASSUME NEW m \in M PROVE m + 1 \in M
    <2>1. m \in Nat
      OBVIOUS
    <2>2. PICK f : Powers(m, f)
      OBVIOUS
    <2> DEFINE g == [k \in 0 .. m + 1 |-> IF k = m + 1 THEN 10 * f[m] ELSE f[k]]
    <2>3. f[m] \in Nat \ {0} /\ 10 * f[m] \in Nat \ {0}
      BY <2>1, <2>2 DEF Powers
    <2>4. g \in [0 .. m + 1 -> Nat \ {0}]
      <3> SUFFICES ASSUME NEW k \in 0 .. m + 1, k # m + 1 PROVE f[k] \in Nat \ {0}
        BY <2>3
      <3>1. k \in 0 .. m
        BY <2>1
      <3> QED BY <2>2, <3>1 DEF Powers
    <2>5. \A k \in 0 .. m : g[k] = f[k]
      BY <2>1
    <2>6. g[m + 1] = 10 * f[m]
      BY <2>1
    <2> HIDE DEF g
    <2>7. g[0] = 1
      BY <2>1, <2>2, <2>5 DEF Powers
    <2>8. \A k \in 1 .. m + 1 : g[k] = 10 * g[k - 1]
      <3> SUFFICES ASSUME NEW k \in 1 .. m + 1 PROVE g[k] = 10 * g[k - 1]
        OBVIOUS
      <3>1. CASE k = m + 1
        <4>1. k - 1 = m /\ m \in 0 .. m
          BY <2>1, <3>1
        <4> QED BY <2>5, <2>6, <3>1, <4>1
      <3>2. CASE k # m + 1
        <4>1. k \in 1 .. m /\ k \in 0 .. m /\ k - 1 \in 0 .. m
          BY <2>1, <3>2
        <4> QED BY <2>2, <2>5, <4>1 DEF Powers
      <3> QED BY <3>1, <3>2
    <2>9. Powers(m + 1, g)
      BY <2>4, <2>7, <2>8 DEF Powers
    <2> QED BY <2>1, <2>9
  <1>3. M = Nat
    <2>1. M \in SUBSET Nat
      OBVIOUS
    <2> HIDE DEF M
    <2> QED BY <1>1, <1>2, <2>1, Induction
  <1> QED BY <1>3

LEMMA PowersSame ==
  ASSUME NEW n \in Nat, NEW f, Powers(n, f), NEW m \in Nat, NEW g, Powers(m, g)
  PROVE  \A k \in Nat : k <= n /\ k <= m => f[k] = g[k]
  <1> DEFINE M == {k \in Nat : k <= n /\ k <= m => f[k] = g[k]}
  <1>1. 0 \in M
    BY DEF Powers
  <1>2. ASSUME NEW k \in M PROVE k + 1 \in M
    <2>1. k \in Nat
      OBVIOUS
    <2> SUFFICES ASSUME k + 1 <= n, k + 1 <= m PROVE f[k + 1] = g[k + 1]
      BY <2>1
    <2>2. f[k] = g[k]
      BY <2>1
    <2>3. k + 1 \in 1 .. n /\ k + 1 \in 1 .. m /\ (k + 1) - 1 = k
      BY <2>1
    <2> QED BY <2>2, <2>3 DEF Powers
  <1>3. M = Nat
    <2>1. M \in SUBSET Nat
      OBVIOUS
    <2> HIDE DEF M
    <2> QED BY <1>1, <1>2, <2>1, Induction
  <1> QED BY <1>3

LEMMA TenNext ==
  /\ Ten[0] = 1
  /\ \A k \in Nat : Ten[k + 1] = 10 * Ten[k]
  <1> DEFINE Step(f) == [k \in Nat |-> IF k = 0 THEN 1 ELSE 10 * f[k - 1]]
             p(n) == CHOOSE f : Powers(n, f)
             g == [k \in Nat |-> p(k)[k]]
  <1>1. \A n \in Nat : Powers(n, p(n))
    BY PowersExist
  <1> HIDE DEF p
  <1>2. \A k \in Nat : g[k] = IF k = 0 THEN 1 ELSE 10 * g[k - 1]
    <2> SUFFICES ASSUME NEW k \in Nat PROVE g[k] = IF k = 0 THEN 1 ELSE 10 * g[k - 1]
      OBVIOUS
    <2>1. CASE k = 0
      BY <1>1, <2>1 DEF Powers
    <2>2. CASE k # 0
      <3>1. k - 1 \in Nat /\ k - 1 <= k /\ k - 1 <= k - 1 /\ k \in 1 .. k
        BY <2>2
      <3>2. p(k)[k - 1] = p(k - 1)[k - 1]
        BY <1>1, <3>1, PowersSame
      <3>3. p(k)[k] = 10 * p(k)[k - 1]
        BY <1>1, <3>1 DEF Powers
      <3> QED BY <2>2, <3>1, <3>2, <3>3
    <2> QED BY <2>1, <2>2
  <1>3. g = Step(g)
    <2>1. g = [k \in Nat |-> g[k]]
      OBVIOUS
    <2> HIDE DEF g
    <2>2. [k \in Nat |-> g[k]] = Step(g)
      BY <1>2
    <2> QED BY <2>1, <2>2
  <1> HIDE DEF g
  <1>4. Ten = CHOOSE f : f = Step(f)
    BY Zenon DEF Ten
  <1>5. Ten = Step(Ten)
    <2> HIDE DEF Step
    <2> QED BY <1>3, <1>4, Zenon
  <1>6. \A k \in Nat : Ten[k] = IF k = 0 THEN 1 ELSE 10 * Ten[k - 1]
    BY <1>5, Zenon
  <1>7. ASSUME NEW k \in Nat PROVE Ten[k + 1] = 10 * Ten[k]
    <2>1. k + 1 \in Nat /\ k + 1 # 0 /\ (k + 1) - 1 = k
      OBVIOUS
    <2> QED BY <1>6, <2>1
  <1>8. Ten[0] = 1
    BY <1>6
  <1> QED BY <1>7, <1>8

LEMMA TenType ==
  ASSUME NEW n \in Nat
  PROVE  Ten[n] \in Nat \ {0}
  <1> DEFINE M == {k \in Nat : Ten[k] \in Nat \ {0}}
  <1>1. 0 \in M
    BY TenNext
  <1>2. ASSUME NEW k \in M PROVE k + 1 \in M
    BY TenNext
  <1>3. M = Nat
    <2>1. M \in SUBSET Nat
      OBVIOUS
    <2> HIDE DEF M
    <2> QED BY <1>1, <1>2, <2>1, Induction
  <1> QED BY <1>3

LEMMA TenSum ==
  ASSUME NEW m \in Nat, NEW n \in Nat
  PROVE  Ten[m + n] = Ten[m] * Ten[n]
  <1> DEFINE M == {k \in Nat : Ten[m + k] = Ten[m] * Ten[k]}
  <1>1. 0 \in M
    BY TenNext, TenType
  <1>2. ASSUME NEW k \in M PROVE k + 1 \in M
    <2>1. k \in Nat /\ m + k \in Nat /\ m + (k + 1) = (m + k) + 1
      OBVIOUS
    <2> DEFINE x == Ten[m]
               y == Ten[k]
    <2>2. x \in Nat /\ y \in Nat
      BY <2>1, TenType
    <2>3. Ten[m + (k + 1)] = 10 * (x * y)
      BY <2>1, TenNext
    <2>4. Ten[k + 1] = 10 * y
      BY <2>1, TenNext
    <2> HIDE DEF x, y
    <2>5. 10 * (x * y) = x * (10 * y)
      BY <2>2
    <2>6. Ten[m + (k + 1)] = x * Ten[k + 1]
      BY <2>3, <2>4, <2>5
    <2> QED BY <2>1, <2>6 DEF x
  <1>3. M = Nat
    <2>1. M \in SUBSET Nat
      OBVIOUS
    <2> HIDE DEF M
    <2> QED BY <1>1, <1>2, <2>1, Induction
  <1> QED BY <1>3

LEMMA TenGrows ==
  ASSUME NEW m \in Nat, NEW n \in Nat, m <= n
  PROVE  Ten[m] <= Ten[n]
  <1>1. n - m \in Nat /\ m + (n - m) = n
    OBVIOUS
  <1> DEFINE x == Ten[m]
             y == Ten[n - m]
  <1>2. Ten[n] = x * y /\ x \in Nat \ {0} /\ y \in Nat \ {0}
    BY <1>1, TenSum, TenType, ZenonT(40)
  <1> HIDE DEF y
  <1>3. x <= x * y
    <2> HIDE DEF x
    <2> QED BY <1>2
  <1> QED BY <1>2, <1>3

-----------------------------------------------------------------------------
(* The scale of a number *)

Positive == [num : Nat \ {0}, den : Nat \ {0}]

LEMMA ScaleIs ==
  ASSUME NEW x \in [num : Int, den : Nat \ {0}], NEW j \in Nat
  PROVE  /\ Scale(x, j) = [num |-> x.num * Ten[j], den |-> x.den]
         /\ Scale(x, -j) = [num |-> x.num, den |-> x.den * Ten[j]]
  <1>1. x = [num |-> x.num, den |-> x.den] /\ x.num \in Int /\ x.den \in Nat \ {0}
    OBVIOUS
  <1>2. Scale(x, j) = [num |-> x.num * Ten[j], den |-> x.den]
    <2>1. Scale(x, j) = [x EXCEPT !.num = @ * Ten[j]]
      BY DEF Scale
    <2>2. [x EXCEPT !.num = @ * Ten[j]] = [num |-> x.num * Ten[j], den |-> x.den]
      BY <1>1
    <2> QED BY <2>1, <2>2
  <1>3. CASE j = 0
    <2>1. Ten[j] = 1
      BY <1>3, TenNext
    <2>2. x.num * 1 = x.num /\ x.den * 1 = x.den
      BY <1>1
    <2>3. -j = j
      <3>1. \A i \in Int : i <= 0 /\ i >= 0 => -i = i
        OBVIOUS
      <3>2. j \in Int /\ j <= 0 /\ j >= 0
        BY <1>3
      <3> QED BY <3>1, <3>2, Zenon
    <2> QED BY <1>2, <2>1, <2>2, <2>3
  <1>4. CASE j # 0
    <2>1. ~(-j >= 0) /\ -(-j) = j
      BY <1>4
    <2>2. Scale(x, -j) = [x EXCEPT !.den = @ * Ten[j]]
      BY <2>1 DEF Scale
    <2>3. [x EXCEPT !.den = @ * Ten[j]] = [num |-> x.num, den |-> x.den * Ten[j]]
      BY <1>1
    <2> QED BY <1>2, <2>2, <2>3
  <1> QED BY <1>3, <1>4

LEMMA CompareIs ==
  ASSUME NEW x \in Positive, NEW j \in Nat, NEW m \in Nat
  PROVE  /\ IsLess(Scale(x, j), m) <=> x.num * Ten[j] < m * x.den
         /\ IsLess(Scale(x, -j), m) <=> x.num < m * (x.den * Ten[j])
         /\ IsMore(Scale(x, -j), m) <=> x.num > m * (x.den * Ten[j])
  <1>1. x \in [num : Int, den : Nat \ {0}]
    BY DEF Positive
  <1>2. /\ Scale(x, j).num = x.num * Ten[j] /\ Scale(x, j).den = x.den
        /\ Scale(x, -j).num = x.num /\ Scale(x, -j).den = x.den * Ten[j]
    <2> DEFINE a == x.num * Ten[j]
               d == x.den * Ten[j]
    <2>1. Scale(x, j) = [num |-> a, den |-> x.den] /\ Scale(x, -j) = [num |-> x.num, den |-> d]
      BY <1>1, ScaleIs, Zenon
    <2> HIDE DEF a, d
    <2>2. /\ Scale(x, j).num = a /\ Scale(x, j).den = x.den
          /\ Scale(x, -j).num = x.num /\ Scale(x, -j).den = d
      BY <2>1
    <2> QED BY <2>2 DEF a, d
  <1> QED BY <1>2, Zenon DEF IsLess, IsMore

\* A loop has found the first of some numbers.
LEMMA FirstExists ==
  ASSUME NEW D, NEW n \in 0 .. MaxRounds, n \in D
  PROVE  \E k \in 0 .. MaxRounds : k \in D /\ \A i \in 0 .. k - 1 : i \notin D
  <1>1. MaxRounds \in Nat
    BY SigDigitsAssumption
  <1> DEFINE S == {k \in Nat : k <= MaxRounds /\ k \in D}
  <1>2. S \subseteq Nat /\ n \in S
    BY <1>1
  <1>3. PICK k \in S : \A m \in S : ~(<<m, k>> \in OpToRel(<, Nat))
    <2> HIDE DEF S
    <2> QED BY <1>2, NatLessThanWellFounded, WFMin
  <1>4. \A i \in 0 .. k - 1 : i \notin D
    <2> SUFFICES ASSUME NEW i \in 0 .. k - 1, i \in D PROVE FALSE
      OBVIOUS
    <2>1. i \in Nat /\ k \in Nat /\ i < k /\ i \in S
      BY <1>1
    <2>2. <<i, k>> \in OpToRel(<, Nat)
      BY <2>1 DEF OpToRel
    <2> QED BY <1>3, <2>1, <2>2, Zenon
  <1> QED BY <1>1, <1>4

\* The four loops.
UpRounds(x, m) == Rounds(LAMBDA j : ~IsLess(Scale(x, j), m))
DownRounds(x, m) == Rounds(LAMBDA j : ~IsMore(Scale(x, -j), m))
WholeRounds(w, m) == Rounds(LAMBDA j : w * Ten[j] >= m)
BelowRounds(x, m) == Rounds(LAMBDA j : IsLess(Scale(x, -j), m))

\* The three ways of Split, after the roundings: a loop up, a loop down, and the
\* whole w beside what is behind the point.
UpSplit(x) ==
  LET k == UpRounds(x, min_scaled)
  IN  [n_int |-> 0, rest |-> Scale(x, k), exponent |-> -k]

DownSplit(x) ==
  LET k == DownRounds(x, max_scaled)
  IN  [n_int |-> 0, rest |-> Scale(x, -k), exponent |-> k]

WholeSplit(w, part) ==
  LET k == WholeRounds(w, min_scaled)
  IN  [n_int |-> w * Ten[k], exponent |-> -k, rest |-> Scale(part, k)]

LEMMA UpTo ==
  ASSUME NEW x, NEW m, NEW k \in 0 .. MaxRounds, ~IsLess(Scale(x, k), m),
         \A i \in 0 .. k - 1 : IsLess(Scale(x, i), m)
  PROVE  UpRounds(x, m) = k
  <1>1. \A j \in 0 .. MaxRounds :
          ~IsLess(Scale(x, j), m) /\ (\A i \in 0 .. j - 1 : ~~IsLess(Scale(x, i), m)) => j = k
    BY SigDigitsAssumption
  <1> QED BY <1>1, Zenon DEF Rounds, UpRounds

LEMMA DownTo ==
  ASSUME NEW x, NEW m, NEW k \in 0 .. MaxRounds, ~IsMore(Scale(x, -k), m),
         \A i \in 0 .. k - 1 : IsMore(Scale(x, -i), m)
  PROVE  DownRounds(x, m) = k
  <1>1. \A j \in 0 .. MaxRounds :
          ~IsMore(Scale(x, -j), m) /\ (\A i \in 0 .. j - 1 : ~~IsMore(Scale(x, -i), m)) => j = k
    BY SigDigitsAssumption
  <1> QED BY <1>1, Zenon DEF Rounds, DownRounds

LEMMA WholeTo ==
  ASSUME NEW w, NEW m, NEW k \in 0 .. MaxRounds, w * Ten[k] >= m,
         \A i \in 0 .. k - 1 : ~(w * Ten[i] >= m)
  PROVE  WholeRounds(w, m) = k
  <1>1. \A j \in 0 .. MaxRounds :
          w * Ten[j] >= m /\ (\A i \in 0 .. j - 1 : ~(w * Ten[i] >= m)) => j = k
    BY SigDigitsAssumption
  <1> QED BY <1>1, Zenon DEF Rounds, WholeRounds

LEMMA Below ==
  ASSUME NEW x, NEW m, NEW k \in 0 .. MaxRounds, IsLess(Scale(x, -k), m),
         \A i \in 0 .. k - 1 : ~IsLess(Scale(x, -i), m)
  PROVE  BelowRounds(x, m) = k
  <1>1. \A j \in 0 .. MaxRounds :
          IsLess(Scale(x, -j), m) /\ (\A i \in 0 .. j - 1 : ~IsLess(Scale(x, -i), m)) => j = k
    BY SigDigitsAssumption
  <1> QED BY <1>1, Zenon DEF Rounds, BelowRounds

\* The least number of seven digits and the first of eight.
LEMMA ScaledIs ==
  /\ min_scaled \in Nat \ {0} /\ max_scaled \in Nat \ {0} /\ max_scaled = 10 * min_scaled
  /\ SigDigits \in Nat \ {0} /\ MaxRounds \in Nat /\ SigDigits - 1 \in 0 .. MaxRounds
  <1>1. SigDigits \in Nat \ {0} /\ MaxRounds \in Nat /\ SigDigits - 1 \in 0 .. MaxRounds
        /\ SigDigits - 1 \in Nat /\ SigDigits = (SigDigits - 1) + 1
    BY SigDigitsAssumption
  <1>2. Ten[SigDigits - 1] \in Nat \ {0} /\ Ten[SigDigits] = 10 * Ten[SigDigits - 1]
    <2>1. Ten[(SigDigits - 1) + 1] = 10 * Ten[SigDigits - 1]
      BY <1>1, TenNext
    <2> QED BY <1>1, <2>1, TenType
  <1> QED BY <1>1, <1>2 DEF min_scaled, max_scaled

WithinRounds(x) == x.num <= Ten[MaxRounds] /\ x.den * min_scaled <= Ten[MaxRounds]

DigitsAt(s) == s.n_int * s.rest.den + s.rest.num

\* s is x at the scale of its last digit, or the next power of ten.
IsScaled(x, s, unit) ==
  /\ s.exponent \in Int /\ s.n_int \in Nat /\ s.rest.num \in Nat /\ s.rest.den \in Nat \ {0}
  /\ Scale(x, -s.exponent) = [num |-> DigitsAt(s), den |-> s.rest.den]
  /\ \/ unit = s.exponent /\ DigitsAt(s) < max_scaled * s.rest.den
     \/ /\ unit = s.exponent + 1 /\ DigitsAt(s) = max_scaled * s.rest.den
        /\ Scale(x, -unit).den \in Nat \ {0}
        /\ Scale(x, -unit).num = min_scaled * Scale(x, -unit).den

LEMMA MinusZero ==
  ASSUME NEW j \in Int, j <= 0, j >= 0
  PROVE  -j = j
  OBVIOUS

LEMMA Multiply ==
  ASSUME NEW a \in Nat, NEW b \in Nat, NEW c \in Nat, a <= b
  PROVE  a * c <= b * c
  <1>1. b - a \in Nat /\ b = a + (b - a)
    OBVIOUS
  <1> DEFINE e == b - a
  <1> HIDE DEF e
  <1>2. e \in Nat /\ b = a + e
    BY <1>1 DEF e
  <1>3. b * c = a * c + e * c /\ e * c \in Nat /\ a * c \in Nat
    BY <1>2
  <1> QED BY <1>3

LEMMA MultiplyLess ==
  ASSUME NEW a \in Nat, NEW b \in Nat, NEW c \in Nat \ {0}, a * c < b * c
  PROVE  a < b
  <1> SUFFICES ASSUME b <= a PROVE FALSE
    OBVIOUS
  <1>1. b * c <= a * c
    BY Multiply
  <1>2. a * c \in Nat /\ b * c \in Nat
    OBVIOUS
  <1> QED BY <1>1, <1>2

\* A number below seven digits.
LEMMA SmallIs ==
  ASSUME NEW x \in Positive, WithinRounds(x), IsLess(x, min_scaled)
  PROVE  IsScaled(x, UpSplit(x), LastDigit(x))
  <1> DEFINE a == x.num
             d == x.den
             R == MaxRounds
             D == {j \in Nat : ~(a * Ten[j] < min_scaled * d)}
  <1>1. /\ a \in Nat \ {0} /\ d \in Nat \ {0}
        /\ a <= Ten[R] /\ d * min_scaled <= Ten[R]
    BY DEF Positive, WithinRounds
  <1>2. /\ min_scaled \in Nat \ {0} /\ max_scaled = 10 * min_scaled /\ R \in Nat
        /\ R \in 0 .. R /\ Ten[R] \in Nat \ {0}
    BY ScaledIs, TenType
  <1>3. a < min_scaled * d
    BY DEF IsLess
  <1>4. \A j \in Nat : IsLess(Scale(x, j), min_scaled) <=> a * Ten[j] < min_scaled * d
    BY <1>2, CompareIs
  <1>5. R \in D
    <2> DEFINE t == Ten[R]
               e == min_scaled * d
    <2>1. e <= t
      BY <1>1, <1>2
    <2>2. t <= a * t /\ a * t \in Nat
      <3>1. 1 <= a /\ 1 \in Nat /\ t \in Nat /\ a \in Nat
        BY <1>1, <1>2
      <3> HIDE DEF a, t
      <3> QED BY <3>1, Multiply
    <2>3. e \in Nat /\ t \in Nat
      BY <1>1, <1>2
    <2> DEFINE f == a * t
    <2> HIDE DEF e, t, f
    <2>4. ~(f < e)
      BY <2>1, <2>2, <2>3 DEF f
    <2> QED BY <1>2, <2>4 DEF e, t, f
  <1> HIDE DEF D
  <1>6. PICK k \in 0 .. R : k \in D /\ \A i \in 0 .. k - 1 : i \notin D
    BY <1>2, <1>5, FirstExists
  <1>7. k \in Nat /\ \A i \in 0 .. k - 1 : i \in Nat
    BY <1>2
  <1>8. /\ ~IsLess(Scale(x, k), min_scaled)
        /\ \A i \in 0 .. k - 1 : IsLess(Scale(x, i), min_scaled)
    BY <1>4, <1>6, <1>7 DEF D
  <1>9. UpRounds(x, min_scaled) = k
    BY <1>6, <1>8, UpTo
  <1>10. LastDigit(x) = -k
    <2>1. IsLess(x, min_scaled)
      BY <1>3 DEF IsLess
    <2> QED BY <1>9, <2>1, Zenon DEF LastDigit, UpRounds, BelowRounds
  <1>11. UpSplit(x) = [n_int |-> 0, rest |-> Scale(x, k), exponent |-> -k]
    BY <1>9, Zenon DEF UpSplit
  <1>12. x \in [num : Int, den : Nat \ {0}]
    BY DEF Positive
  <1> DEFINE y == a * Ten[k]
  <1>13. Scale(x, k) = [num |-> y, den |-> d]
    BY <1>7, <1>12, ScaleIs
  <1>14. y \in Nat /\ y < max_scaled * d
    <2>1. a * Ten[k] \in Nat
      BY <1>1, <1>7, TenType
    <2>2. k # 0
      <3> SUFFICES ASSUME k = 0 PROVE FALSE
        OBVIOUS
      <3>1. a * Ten[k] = a
        <4>1. Ten[k] = 1
          BY TenNext
        <4> QED BY <1>1, <4>1
      <3> QED BY <1>3, <1>6, <3>1 DEF D
    <2>3. k - 1 \in Nat /\ k - 1 \in 0 .. k - 1 /\ (k - 1) + 1 = k
      BY <1>7, <2>2
    <2>4. a * Ten[k - 1] < min_scaled * d
      BY <1>4, <1>8, <2>3
    <2>5. Ten[k] = 10 * Ten[k - 1] /\ Ten[k - 1] \in Nat
      <3>1. Ten[(k - 1) + 1] = 10 * Ten[k - 1]
        BY <2>3, TenNext
      <3> QED BY <2>3, <3>1, TenType
    <2> DEFINE t == Ten[k - 1]
               m == min_scaled
    <2>6. a \in Nat /\ d \in Nat /\ t \in Nat /\ m \in Nat /\ a * t < m * d
      BY <1>1, <1>2, <2>4, <2>5
    <2> HIDE DEF a, d, t, m
    <2>7. a * (10 * t) < (10 * m) * d
      <3>1. a * (10 * t) = 10 * (a * t) /\ (10 * m) * d = 10 * (m * d)
        BY <2>6
      <3>2. a * t \in Nat /\ m * d \in Nat
        BY <2>6
      <3> QED BY <2>6, <3>1, <3>2
    <2> QED BY <1>2, <2>1, <2>5, <2>7 DEF t, m
  <1> DEFINE s == UpSplit(x)
             n == -k
  <1>15. n \in Int /\ -n = k
    BY <1>7
  <1> HIDE DEF y, a, d, n
  <1>16. s.n_int = 0 /\ s.exponent = n /\ s.rest.num = y /\ s.rest.den = d
    BY <1>11, <1>13 DEF n
  <1> HIDE DEF s
  <1>17. DigitsAt(s) = y
    BY <1>1, <1>14, <1>16 DEF DigitsAt
  <1>18. Scale(x, -s.exponent) = [num |-> DigitsAt(s), den |-> s.rest.den]
    BY <1>13, <1>15, <1>16, <1>17
  <1>19. LastDigit(x) = s.exponent /\ DigitsAt(s) < max_scaled * s.rest.den
    BY <1>10, <1>14, <1>16, <1>17 DEF n
  <1>20. s.exponent \in Int /\ s.n_int \in Nat /\ s.rest.num \in Nat /\ s.rest.den \in Nat \ {0}
    BY <1>1, <1>14, <1>15, <1>16
  <1>21. IsScaled(x, s, LastDigit(x))
    BY <1>18, <1>19, <1>20, Zenon DEF IsScaled
  <1> QED BY <1>21 DEF s

\* What unit is for a number that is not below the least of seven digits.
LEMMA UnitAbove ==
  ASSUME NEW x \in Positive, ~IsLess(x, min_scaled), NEW k \in 0 .. MaxRounds,
         x.num < max_scaled * (x.den * Ten[k]),
         \A i \in 0 .. k - 1 : ~(x.num < max_scaled * (x.den * Ten[i]))
  PROVE  LastDigit(x) = k
  <1>1. MaxRounds \in Nat /\ max_scaled \in Nat
    BY ScaledIs
  <1>2. k \in Nat /\ \A i \in 0 .. k - 1 : i \in Nat
    BY <1>1
  <1>3. \A j \in Nat : IsLess(Scale(x, -j), max_scaled) <=> x.num < max_scaled * (x.den * Ten[j])
    BY <1>1, CompareIs
  <1>4. IsLess(Scale(x, -k), max_scaled) /\ \A i \in 0 .. k - 1 : ~IsLess(Scale(x, -i), max_scaled)
    BY <1>2, <1>3, Zenon
  <1>5. BelowRounds(x, max_scaled) = k
    BY <1>4, Below
  <1> QED BY <1>5, Zenon DEF LastDigit, UpRounds, BelowRounds

\* A number that is the next power of ten at its scale.
LEMMA UnitNext ==
  ASSUME NEW x \in Positive, WithinRounds(x), ~IsLess(x, min_scaled), NEW k \in 0 .. MaxRounds,
         x.num = max_scaled * (x.den * Ten[k])
  PROVE  /\ k + 1 \in 0 .. MaxRounds
         /\ x.num < max_scaled * (x.den * Ten[k + 1])
         /\ Scale(x, -(k + 1)).den \in Nat \ {0}
         /\ Scale(x, -(k + 1)).num = min_scaled * Scale(x, -(k + 1)).den
  <1> DEFINE a == x.num
             d == x.den
             t == Ten[k]
             m == min_scaled
             M == max_scaled
  <1>1. a \in Nat \ {0} /\ d \in Nat \ {0} /\ a <= Ten[MaxRounds]
    BY DEF Positive, WithinRounds
  <1>2. m \in Nat \ {0} /\ M = 10 * m /\ MaxRounds \in Nat
    BY ScaledIs
  <1>3. k \in Nat /\ k + 1 \in Nat
    BY <1>2
  <1>4. t \in Nat \ {0} /\ Ten[k + 1] = 10 * t
    BY <1>3, TenNext, TenType
  <1>5. a = M * (d * t)
    OBVIOUS
  <1>6. k # MaxRounds
    <2> SUFFICES ASSUME k = MaxRounds PROVE FALSE
      OBVIOUS
    <2>1. a <= t
      BY <1>1
    <2> HIDE DEF a, d, t, m, M
    <2>2. M * d \in Nat /\ M * d >= 2
      <3>1. m * d \in Nat \ {0}
        BY <1>1, <1>2
      <3>2. M * d = 10 * (m * d)
        BY <1>1, <1>2
      <3> QED BY <3>1, <3>2
    <2> DEFINE p == M * d
    <2>3. a = p * t
      BY <1>1, <1>2, <1>4, <1>5
    <2>4. p \in Nat /\ p >= 2
      BY <2>2
    <2> HIDE DEF p
    <2>5. p * t >= 2 * t
      BY <1>4, <2>4, Multiply
    <2> QED BY <1>1, <1>4, <2>1, <2>3, <2>5
  <1>7. k + 1 \in 0 .. MaxRounds
    BY <1>2, <1>6
  <1> DEFINE e == d * Ten[k + 1]
  <1>8. e \in Nat \ {0} /\ a = m * e /\ a < M * e
    <2>1. e = d * (10 * t)
      BY <1>4
    <2> HIDE DEF a, d, t, m, M, e
    <2>2. e \in Nat \ {0} /\ e = 10 * (d * t)
      BY <1>1, <1>4, <2>1
    <2>3. a = m * e
      <3> DEFINE q == d * t
      <3>1. q \in Nat
        BY <1>1, <1>4
      <3> HIDE DEF q
      <3>2. (10 * m) * q = m * (10 * q)
        BY <1>2, <3>1
      <3>3. a = (10 * m) * q /\ e = 10 * q
        BY <1>2, <1>5, <2>2 DEF q
      <3> QED BY <3>2, <3>3
    <2>4. M * e = 10 * (m * e)
      BY <1>2, <2>2
    <2> QED BY <1>1, <2>2, <2>3, <2>4
  <1>9. x \in [num : Int, den : Nat \ {0}]
    BY DEF Positive
  <1>10. Scale(x, -(k + 1)) = [num |-> a, den |-> e]
    BY <1>3, <1>9, ScaleIs
  <1> HIDE DEF a, e
  <1>11. Scale(x, -(k + 1)).num = a /\ Scale(x, -(k + 1)).den = e
    BY <1>10
  <1> QED BY <1>7, <1>8, <1>11 DEF a, e

\* A number of seven digits or more.
LEMMA LargeIs ==
  ASSUME NEW x \in Positive, WithinRounds(x), ~IsLess(x, min_scaled)
  PROVE  IsScaled(x, DownSplit(x), LastDigit(x))
  <1> DEFINE a == x.num
             d == x.den
             R == MaxRounds
             M == max_scaled
             D == {j \in Nat : ~(a > M * (d * Ten[j]))}
  <1>1. /\ a \in Nat \ {0} /\ d \in Nat \ {0} /\ a <= Ten[R]
    BY DEF Positive, WithinRounds
  <1>2. /\ min_scaled \in Nat \ {0} /\ M = 10 * min_scaled /\ M \in Nat \ {0} /\ R \in Nat
        /\ R \in 0 .. R /\ Ten[R] \in Nat \ {0}
    BY ScaledIs, TenType
  <1>3. ~IsLess(x, min_scaled)
    OBVIOUS
  <1>4. \A j \in Nat : IsMore(Scale(x, -j), M) <=> a > M * (d * Ten[j])
    BY <1>2, CompareIs
  <1>5. R \in D
    <2> DEFINE t == Ten[R]
               p == M * d
    <2>1. t \in Nat /\ a <= t /\ M \in Nat \ {0}
      BY <1>1, <1>2
    <2> HIDE DEF M, a, d, t
    <2>2. p \in Nat /\ 1 <= p /\ p * t = M * (d * t) /\ M * (d * t) \in Nat
      BY <1>1, <2>1
    <2>3. 1 * t <= p * t
      <3> HIDE DEF p
      <3> QED BY <2>1, <2>2, Multiply
    <2> DEFINE e == M * (d * t)
    <2>4. t <= e /\ e \in Nat
      BY <2>1, <2>2, <2>3
    <2> HIDE DEF e
    <2>5. ~(a > e)
      BY <1>1, <2>1, <2>4
    <2> QED BY <1>2, <2>5 DEF e, t
  <1> HIDE DEF D
  <1>6. PICK k \in 0 .. R : k \in D /\ \A i \in 0 .. k - 1 : i \notin D
    BY <1>2, <1>5, FirstExists
  <1>7. k \in Nat /\ \A i \in 0 .. k - 1 : i \in Nat
    BY <1>2
  <1>8. /\ ~IsMore(Scale(x, -k), M)
        /\ \A i \in 0 .. k - 1 : IsMore(Scale(x, -i), M)
    BY <1>4, <1>6, <1>7 DEF D
  <1>9. DownRounds(x, max_scaled) = k
    BY <1>6, <1>8, DownTo
  <1>10. DownSplit(x) = [n_int |-> 0, rest |-> Scale(x, -k), exponent |-> k]
    BY <1>9, Zenon DEF DownSplit
  <1>11. x \in [num : Int, den : Nat \ {0}]
    BY DEF Positive
  <1> DEFINE e == d * Ten[k]
             s == DownSplit(x)
  <1>12. Scale(x, -k) = [num |-> a, den |-> e]
    BY <1>7, <1>11, ScaleIs
  <1>13. e \in Nat \ {0}
    <2>1. Ten[k] \in Nat \ {0}
      BY <1>7, TenType
    <2> DEFINE t == Ten[k]
    <2> HIDE DEF d, t
    <2> QED BY <1>1, <2>1 DEF t
  <1>14. a = M * e \/ a < M * e
    <2>1. ~(a > M * e)
      BY <1>6, <1>7 DEF D
    <2>2. M * e \in Nat
      <3> HIDE DEF M, e
      <3> QED BY <1>2, <1>13
    <2> DEFINE f == M * e
    <2> HIDE DEF f, a
    <2> QED BY <1>1, <2>1, <2>2 DEF f
  <1>15. \A i \in 0 .. k - 1 : ~(a < M * (d * Ten[i]))
    <2> SUFFICES ASSUME NEW i \in 0 .. k - 1 PROVE ~(a < M * (d * Ten[i]))
      OBVIOUS
    <2> DEFINE f == M * (d * Ten[i])
    <2>1. a > f
      BY <1>4, <1>7, <1>8
    <2>2. f \in Nat
      <3>1. Ten[i] \in Nat
        BY <1>7, TenType
      <3> DEFINE t == Ten[i]
      <3> HIDE DEF M, d, t
      <3> QED BY <1>1, <1>2, <3>1 DEF t
    <2> HIDE DEF f, a
    <2>3. ~(a < f)
      BY <1>1, <2>1, <2>2
    <2> QED BY <2>3 DEF f
  <1> HIDE DEF s
  <1>16. s.n_int = 0 /\ s.exponent = k /\ s.rest.num = a /\ s.rest.den = e
    <2> HIDE DEF e, a
    <2> QED BY <1>10, <1>12 DEF s
  <1>17. DigitsAt(s) = a
    <2> HIDE DEF e, a
    <2> QED BY <1>1, <1>13, <1>16 DEF DigitsAt
  <1>18. Scale(x, -s.exponent) = [num |-> DigitsAt(s), den |-> s.rest.den]
    <2> HIDE DEF e, a
    <2> QED BY <1>12, <1>16, <1>17
  <1>19. s.exponent \in Int /\ s.n_int \in Nat /\ s.rest.num \in Nat /\ s.rest.den \in Nat \ {0}
    <2> HIDE DEF e, a
    <2> QED BY <1>1, <1>7, <1>13, <1>16
  <1>20. CASE a < M * e
    <2>1. LastDigit(x) = k
      BY <1>3, <1>6, <1>15, <1>20, UnitAbove
    <2>2. LastDigit(x) = s.exponent /\ DigitsAt(s) < max_scaled * s.rest.den
      <3> HIDE DEF e, a
      <3> QED BY <1>16, <1>17, <1>20, <2>1
    <2>3. IsScaled(x, s, LastDigit(x))
      BY <1>18, <1>19, <2>2, Zenon DEF IsScaled
    <2> QED BY <2>3 DEF s
  <1>21. CASE a = M * e
    <2>1. /\ k + 1 \in 0 .. R /\ a < M * (d * Ten[k + 1])
          /\ Scale(x, -(k + 1)).den \in Nat \ {0}
          /\ Scale(x, -(k + 1)).num = min_scaled * Scale(x, -(k + 1)).den
      BY <1>3, <1>6, <1>21, UnitNext
    <2>2. \A i \in 0 .. (k + 1) - 1 : ~(a < M * (d * Ten[i]))
      <3> SUFFICES ASSUME NEW i \in 0 .. (k + 1) - 1 PROVE ~(a < M * (d * Ten[i]))
        OBVIOUS
      <3>1. i \in 0 .. k - 1 \/ i = k
        BY <1>7
      <3>2. ASSUME i = k PROVE ~(a < M * (d * Ten[i]))
        <4>1. a = M * (d * Ten[i])
          BY <1>21, <3>2
        <4> DEFINE f == M * (d * Ten[i])
        <4> HIDE DEF f, a
        <4>2. a = f
          BY <4>1 DEF f
        <4>3. ~(a < f)
          BY <1>1, <4>2
        <4> QED BY <4>3 DEF f
      <3> QED BY <1>15, <3>1, <3>2
    <2>3. LastDigit(x) = k + 1
      BY <1>3, <2>1, <2>2, UnitAbove
    <2>4. LastDigit(x) = s.exponent + 1 /\ DigitsAt(s) = max_scaled * s.rest.den
      <3> HIDE DEF e, a
      <3> QED BY <1>16, <1>17, <1>21, <2>3
    <2>5. IsScaled(x, s, LastDigit(x))
      <3>1. /\ Scale(x, -LastDigit(x)).den \in Nat \ {0}
            /\ Scale(x, -LastDigit(x)).num = min_scaled * Scale(x, -LastDigit(x)).den
        BY <2>1, <2>3, Zenon
      <3> QED BY <1>18, <1>19, <2>4, <3>1, Zenon DEF IsScaled
    <2> QED BY <2>5 DEF s
  <1> QED BY <1>14, <1>20, <1>21

\* A number has as many digits before the point as its whole part.
LEMMA WholeIs ==
  ASSUME NEW a \in Nat, NEW d \in Nat \ {0}, NEW w \in Nat \ {0},
         w * d <= a, a < (w + 1) * d
  PROVE  \A j \in Nat : w * Ten[j] >= min_scaled <=> ~(a * Ten[j] < min_scaled * d)
  <1>1. w \in Nat /\ w * d <= a /\ a < (w + 1) * d /\ w * d \in Nat
    OBVIOUS
  <1>2. w # 0
    OBVIOUS
  <1>3. ASSUME NEW j \in Nat, w * Ten[j] >= min_scaled
        PROVE  ~(a * Ten[j] < min_scaled * d)
    <2> DEFINE t == Ten[j]
               m == min_scaled
    <2>1. t \in Nat \ {0} /\ m \in Nat /\ m <= w * t
      BY <1>1, <1>3, ScaledIs, TenType
    <2> HIDE DEF t, m
    <2>2. (w * d) * t <= a * t
      BY <1>1, <2>1, Multiply
    <2> DEFINE p == w * t
    <2>3. p \in Nat /\ m <= p /\ (w * d) * t = p * d
      BY <1>1, <2>1
    <2> HIDE DEF p
    <2>4. m * d <= p * d /\ m * d \in Nat /\ p * d \in Nat
      BY <2>1, <2>3, Multiply
    <2>5. a * t \in Nat
      BY <2>1
    <2>6. ~(a * t < m * d)
      BY <2>2, <2>3, <2>4, <2>5
    <2> QED BY <2>6 DEF t, m
  <1>4. ASSUME NEW j \in Nat, ~(w * Ten[j] >= min_scaled)
        PROVE  a * Ten[j] < min_scaled * d
    <2> DEFINE t == Ten[j]
               m == min_scaled
               n == SigDigits - 1
    <2>1. t \in Nat \ {0} /\ m \in Nat /\ w * t < m /\ n \in Nat /\ m = Ten[n]
      <3>1. n \in Nat /\ m \in Nat /\ t \in Nat \ {0} /\ m = Ten[n]
        BY ScaledIs, TenType DEF min_scaled
      <3>2. w * t \in Nat
        BY <1>1, <3>1
      <3> QED BY <1>4, <3>1, <3>2
    <2>2. j <= n
      <3> SUFFICES ASSUME n <= j PROVE FALSE
        BY <2>1
      <3>1. m <= t
        BY <2>1, TenGrows
      <3> HIDE DEF t, m, n
      <3>2. 1 * t <= w * t
        <4>1. 1 \in Nat /\ 1 <= w
          BY <1>1, <1>2
        <4> QED BY <1>1, <2>1, <4>1, Multiply
      <3>3. w * t \in Nat
        BY <1>1, <2>1
      <3> QED BY <2>1, <3>1, <3>2, <3>3
    <2>3. n - j \in Nat /\ (n - j) + j = n
      BY <2>1, <2>2
    <2> DEFINE q == Ten[n - j]
    <2>4. q \in Nat /\ m = q * t
      BY <2>1, <2>3, TenSum, TenType
    <2> HIDE DEF t, m, n, q
    <2>5. w < q
      <3>1. w * t < q * t
        BY <2>1, <2>4
      <3> QED BY <1>1, <2>1, <2>4, <3>1, MultiplyLess
    <2>6. (w + 1) * d <= q * d
      <3>1. w + 1 <= q /\ w + 1 \in Nat
        BY <1>1, <2>4, <2>5
      <3> QED BY <2>4, <3>1, Multiply
    <2>7. a < q * d /\ q * d \in Nat
      <3>1. (w + 1) * d \in Nat /\ q * d \in Nat
        BY <1>1, <2>4
      <3> QED BY <1>1, <2>6, <3>1
    <2>8. a * t < (q * d) * t
      <3> DEFINE p == q * d
      <3>1. p \in Nat /\ a < p
        BY <2>7
      <3> HIDE DEF p
      <3>2. a + 1 <= p /\ a + 1 \in Nat
        BY <3>1
      <3>3. (a + 1) * t <= p * t
        BY <2>1, <3>1, <3>2, Multiply
      <3>4. (a + 1) * t = a * t + t /\ a * t \in Nat /\ p * t \in Nat
        BY <2>1, <3>1
      <3>5. a * t < p * t
        BY <2>1, <3>3, <3>4
      <3> QED BY <3>5 DEF p
    <2>9. (q * d) * t = m * d
      <3>1. (q * d) * t = (q * t) * d
        BY <2>1, <2>4
      <3> QED BY <2>4, <3>1
    <2>10. a * t < m * d
      BY <2>8, <2>9
    <2> QED BY <2>10 DEF t, m
  <1> QED BY <1>3, <1>4

\* A number in between.
LEMMA MiddleIs ==
  ASSUME NEW w \in Nat \ {0}, NEW part \in [num : Nat, den : Nat \ {0}],
         part.num < part.den, NEW x,
         x = [num |-> w * part.den + part.num, den |-> part.den],
         ~IsMore(x, max_scaled), x.num = max_scaled * x.den => WithinRounds(x)
  PROVE  x \in Positive /\ IsScaled(x, WholeSplit(w, part), LastDigit(x))
  <1> DEFINE a == x.num
             c == part.num
             d == x.den
             R == MaxRounds
             m == min_scaled
             M == max_scaled
             D == {j \in Nat : w * Ten[j] >= m}
  <1>1. /\ a \in Nat \ {0} /\ d \in Nat \ {0} /\ c \in Nat /\ c < d /\ a = w * d + c
        /\ w * d \in Nat \ {0} /\ ~(a > M * d) /\ part = [num |-> c, den |-> d]
    <2> DEFINE e == part.den
               b == w * e + c
    <2>1. c \in Nat /\ e \in Nat \ {0} /\ c < e /\ part = [num |-> c, den |-> e]
      OBVIOUS
    <2> HIDE DEF c, e
    <2>2. w * e \in Nat \ {0} /\ b \in Nat \ {0}
      BY <2>1
    <2>3. x = [num |-> b, den |-> e]
      BY DEF c, e
    <2>4. a = b /\ d = e
      <3> HIDE DEF b
      <3> QED BY <2>3
    <2>5. ~(a > M * d)
      BY Zenon DEF IsMore
    <2> HIDE DEF a, d, M
    <2> QED BY <2>1, <2>2, <2>4, <2>5
  <1>2. /\ m \in Nat \ {0} /\ M = 10 * m /\ M \in Nat \ {0} /\ R \in Nat
        /\ SigDigits - 1 \in 0 .. R /\ SigDigits - 1 \in Nat
    BY ScaledIs
  <1> x \in Positive
    <2>1. x = [num |-> a, den |-> d]
      OBVIOUS
    <2> QED BY <1>1, <2>1 DEF Positive
  <1>3. a <= M * d /\ M * d \in Nat
    <2> DEFINE f == M * d
    <2>1. f \in Nat
      <3> HIDE DEF M, d
      <3> QED BY <1>1, <1>2
    <2> HIDE DEF a, d, f
    <2>2. a <= f
      BY <1>1, <2>1 DEF f
    <2> QED BY <2>1, <2>2 DEF f
  <1>4. \A j \in Nat : w * Ten[j] >= m <=> ~(a * Ten[j] < m * d)
    <2> HIDE DEF a, d
    <2>1. w * d <= a /\ a < (w + 1) * d /\ a \in Nat
      <3>1. (w + 1) * d = w * d + d
        BY <1>1
      <3> QED BY <1>1, <3>1
    <2> QED BY <1>1, <2>1, WholeIs
  <1>5. SigDigits - 1 \in D
    <2> DEFINE t == Ten[SigDigits - 1]
    <2>1. m = t
      BY DEF min_scaled
    <2>2. 1 * t <= w * t
      <3>1. t \in Nat /\ 1 \in Nat /\ 1 <= w /\ w \in Nat
        BY <1>2, <2>1
      <3> HIDE DEF t
      <3> QED BY <3>1, Multiply
    <2>3. w * t >= m
      <3>1. w * t \in Nat
        <4> HIDE DEF t, m
        <4> QED BY <1>2, <2>1
      <3> DEFINE p == w * t
      <3> HIDE DEF p, t, m
      <3>2. p >= m
        BY <1>2, <2>1, <2>2, <3>1 DEF p
      <3> QED BY <3>2 DEF p
    <2> QED BY <1>2, <2>3
  <1> HIDE DEF D
  <1>6. PICK k \in 0 .. R : k \in D /\ \A i \in 0 .. k - 1 : i \notin D
    BY <1>2, <1>5, FirstExists
  <1>7. k \in Nat /\ \A i \in 0 .. k - 1 : i \in Nat
    BY <1>2
  <1>8. w * Ten[k] >= m /\ \A i \in 0 .. k - 1 : ~(w * Ten[i] >= m)
    BY <1>6, <1>7 DEF D
  <1>9. WholeRounds(w, min_scaled) = k
    BY <1>6, <1>8, WholeTo
  <1> DEFINE t == Ten[k]
             z == part
             s == WholeSplit(w, part)
             n == -k
  <1>10. WholeSplit(w, part) = [n_int |-> w * t, exponent |-> n, rest |-> Scale(z, k)]
    BY <1>9, Zenon DEF WholeSplit
  <1>11. c \in Nat /\ a = w * d + c
    BY <1>1
  <1>12. t \in Nat \ {0}
    BY <1>7, TenType
  <1>13. Scale(z, k) = [num |-> c * t, den |-> d]
    <2>1. z = [num |-> c, den |-> d]
      BY <1>1
    <2> HIDE DEF z, c, d
    <2>2. z \in [num : Int, den : Nat \ {0}] /\ z.num = c /\ z.den = d
      BY <1>1, <1>11, <2>1
    <2> QED BY <1>7, <2>2, ScaleIs
  <1>14. Scale(x, k) = [num |-> a * t, den |-> d]
    <2>1. x \in [num : Int, den : Nat \ {0}]
      BY DEF Positive
    <2> QED BY <1>7, <2>1, ScaleIs
  <1>15. n \in Int /\ -n = k
    BY <1>7
  <1> HIDE DEF s, n, z, c, t, a, d
  <1>16. s.n_int = w * t /\ s.exponent = n /\ s.rest.num = c * t /\ s.rest.den = d
    <2> DEFINE p == w * t
               r == c * t
    <2> HIDE DEF p, r
    <2>1. s = [n_int |-> p, exponent |-> n, rest |-> [num |-> r, den |-> d]]
      BY <1>10, <1>13 DEF p, r, s
    <2>2. s.n_int = p /\ s.exponent = n /\ s.rest.num = r /\ s.rest.den = d
      BY <2>1
    <2> QED BY <2>2 DEF p, r
  <1>17. /\ s.exponent \in Int /\ s.n_int \in Nat /\ s.rest.num \in Nat
         /\ s.rest.den \in Nat \ {0} /\ a * t \in Nat
    <2>1. w * t \in Nat /\ c * t \in Nat /\ a * t \in Nat
      BY <1>1, <1>11, <1>12
    <2> QED BY <1>1, <1>15, <1>16, <2>1
  <1>18. DigitsAt(s) = a * t
    <2>1. DigitsAt(s) = (w * t) * d + c * t
      BY <1>16 DEF DigitsAt
    <2>2. (w * t) * d + c * t = (w * d + c) * t
      BY <1>1, <1>11, <1>12
    <2> QED BY <1>11, <2>1, <2>2
  <1>19. Scale(x, -s.exponent) = [num |-> DigitsAt(s), den |-> s.rest.den]
    <2>1. -s.exponent = k
      BY <1>15, <1>16
    <2> QED BY <1>14, <1>16, <1>18, <2>1
  <1>20. CASE IsLess(x, min_scaled)
    <2>1. /\ ~IsLess(Scale(x, k), min_scaled)
          /\ \A i \in 0 .. k - 1 : IsLess(Scale(x, i), min_scaled)
      <3>1. \A j \in Nat : IsLess(Scale(x, j), min_scaled) <=> a * Ten[j] < m * d
        BY <1>2, CompareIs DEF a, d
      <3> QED BY <1>4, <1>7, <1>8, <3>1, Zenon
    <2>2. UpRounds(x, min_scaled) = k
      BY <1>6, <2>1, UpTo
    <2>3. LastDigit(x) = n
      BY <1>20, <2>2, Zenon DEF LastDigit, UpRounds, BelowRounds, n
    <2>4. k # 0
      <3> SUFFICES ASSUME k = 0 PROVE FALSE
        OBVIOUS
      <3>1. t = 1
        BY TenNext DEF t
      <3>2. ~(a * t < m * d)
        BY <1>4, <1>7, <1>8 DEF t
      <3>3. a < m * d
        BY <1>20 DEF IsLess, a, d
      <3>4. a * t = a
        BY <1>1, <3>1
      <3> QED BY <3>2, <3>3, <3>4
    <2>5. k - 1 \in Nat /\ k - 1 \in 0 .. k - 1 /\ (k - 1) + 1 = k
      BY <1>7, <2>4
    <2> DEFINE u == Ten[k - 1]
    <2>6. u \in Nat /\ t = 10 * u
      <3>1. Ten[(k - 1) + 1] = 10 * Ten[k - 1]
        BY <2>5, TenNext
      <3> QED BY <2>5, <3>1, TenType DEF t
    <2>7. a * u < m * d
      BY <1>4, <1>8, <2>5
    <2> HIDE DEF u, m, M
    <2>8. a * t < M * d
      <3>1. a * t = 10 * (a * u) /\ M * d = 10 * (m * d)
        BY <1>1, <1>2, <2>6
      <3>2. a * u \in Nat /\ m * d \in Nat
        BY <1>1, <1>2, <2>6
      <3> QED BY <2>7, <3>1, <3>2
    <2>9. LastDigit(x) = s.exponent /\ DigitsAt(s) < max_scaled * s.rest.den
      BY <1>16, <1>18, <2>3, <2>8 DEF M
    <2>10. IsScaled(x, s, LastDigit(x))
      BY <1>17, <1>19, <2>9, Zenon DEF IsScaled
    <2> QED BY <2>10 DEF s
  <1>21. CASE ~IsLess(x, min_scaled)
    <2>1. k = 0
      <3>1. ~(a < m * d)
        BY <1>21 DEF IsLess, a, d
      <3>2. Ten[0] = 1 /\ a * 1 = a
        BY <1>1, TenNext
      <3>3. w * Ten[0] >= m
        BY <1>4, <3>1, <3>2
      <3> SUFFICES ASSUME k # 0 PROVE FALSE
        OBVIOUS
      <3>4. 0 \in 0 .. k - 1
        BY <1>7
      <3> QED BY <1>8, <3>3, <3>4
    <2>2. t = 1
      BY <2>1, TenNext DEF t
    <2>3. n = 0
      <3>1. k \in Int /\ k <= 0 /\ k >= 0
        BY <2>1
      <3>2. -k = k
        BY <3>1, MinusZero, Zenon
      <3> QED BY <2>1, <3>2 DEF n
    <2>4. a * t = a /\ d * t = d
      BY <1>1, <2>2
    <2>5. CASE a < M * d
      <3>1. x.num < max_scaled * (x.den * Ten[k])
        BY <2>4, <2>5 DEF a, d, t
      <3>2. \A i \in 0 .. k - 1 : ~(x.num < max_scaled * (x.den * Ten[i]))
        BY <2>1
      <3>3. LastDigit(x) = k
        BY <1>6, <1>21, <3>1, <3>2, UnitAbove
      <3>4. LastDigit(x) = s.exponent /\ DigitsAt(s) < max_scaled * s.rest.den
        BY <1>16, <1>18, <2>1, <2>3, <2>4, <2>5, <3>3
      <3>5. IsScaled(x, s, LastDigit(x))
        BY <1>17, <1>19, <3>4, Zenon DEF IsScaled
      <3> QED BY <3>5 DEF s
    <2>6. CASE a = M * d
      <3>1. x.num = max_scaled * (x.den * Ten[k])
        BY <2>4, <2>6 DEF a, d, t
      <3>2. /\ k + 1 \in 0 .. MaxRounds /\ x.num < max_scaled * (x.den * Ten[k + 1])
            /\ Scale(x, -(k + 1)).den \in Nat \ {0}
            /\ Scale(x, -(k + 1)).num = min_scaled * Scale(x, -(k + 1)).den
        <4>1. WithinRounds(x)
          BY <2>4, <2>6 DEF a, d, M
        <4> QED BY <1>6, <1>21, <3>1, <4>1, UnitNext
      <3>3. \A i \in 0 .. (k + 1) - 1 : ~(x.num < max_scaled * (x.den * Ten[i]))
        <4>1. ~(a < M * d)
          BY <1>1, <2>6
        <4>2. ~(x.num < max_scaled * (x.den * Ten[k]))
          BY <2>4, <4>1 DEF a, d, t
        <4>3. \A i \in 0 .. (k + 1) - 1 : i = k
          BY <2>1
        <4> QED BY <4>2, <4>3
      <3>4. LastDigit(x) = k + 1
        BY <1>21, <3>2, <3>3, UnitAbove
      <3>5. LastDigit(x) = s.exponent + 1 /\ DigitsAt(s) = max_scaled * s.rest.den
        BY <1>16, <1>18, <2>1, <2>3, <2>4, <2>6, <3>4
      <3>6. /\ Scale(x, -LastDigit(x)).den \in Nat \ {0}
            /\ Scale(x, -LastDigit(x)).num = min_scaled * Scale(x, -LastDigit(x)).den
        BY <3>2, <3>4, Zenon
      <3>7. IsScaled(x, s, LastDigit(x))
        BY <1>17, <1>19, <3>5, <3>6, Zenon DEF IsScaled
      <3> QED BY <3>7 DEF s
    <2>7. a < M * d \/ a = M * d
      BY <1>1, <1>3
    <2> QED BY <2>5, <2>6, <2>7
  <1> QED BY <1>20, <1>21

\* What a rounding leaves of a positive number.
LEMMA OffIs ==
  ASSUME NEW x \in Positive, NEW r \in Roundings
  PROVE  /\ Off(x, r) \in Positive
         /\ Off(x, r).num = x.num * r.num /\ Off(x, r).den = x.den * r.den
         /\ r.num \in Nat \ {0} /\ r.den \in Nat \ {0}
         /\ r.num <= 2 * r.den /\ r.den <= 2 * r.num
  <1>1. /\ r.num \in Nat \ {0} /\ r.den \in Nat \ {0}
        /\ r.num <= 2 * r.den /\ r.den <= 2 * r.num
    BY RoundingsAssumption
  <1>2. x.num \in Nat \ {0} /\ x.den \in Nat \ {0}
    BY DEF Positive
  <1> DEFINE p == x.num * r.num
             q == x.den * r.den
  <1>3. p \in Nat \ {0} /\ q \in Nat \ {0}
    BY <1>1, <1>2
  <1>4. Off(x, r) = [num |-> p, den |-> q]
    BY <1>2, Zenon DEF Off
  <1> HIDE DEF p, q
  <1>5. Off(x, r) \in Positive /\ Off(x, r).num = p /\ Off(x, r).den = q
    BY <1>3, <1>4 DEF Positive
  <1> QED BY <1>1, <1>5 DEF p, q

\* A number below one stays below seven digits.
LEMMA OffBelow ==
  ASSUME NEW x \in Positive, NEW r \in Roundings, IsLess(x, 1)
  PROVE  IsLess(Off(x, r), min_scaled)
  <1> DEFINE a == x.num
             d == x.den
             u == r.num
             v == r.den
             m == min_scaled
  <1>1. /\ a \in Nat \ {0} /\ d \in Nat \ {0} /\ u \in Nat \ {0} /\ v \in Nat \ {0}
        /\ u <= 2 * v /\ Off(x, r).num = a * u /\ Off(x, r).den = d * v
    BY OffIs DEF Positive
  <1>2. a <= d
    BY <1>1 DEF IsLess
  <1>3. m \in Nat /\ 10 <= m
    <2>1. SigDigits - 1 \in Nat /\ 1 <= SigDigits - 1
      BY SigDigitsAssumption
    <2>2. Ten[1] <= Ten[SigDigits - 1]
      BY <2>1, TenGrows
    <2>3. Ten[0 + 1] = 10 * Ten[0] /\ Ten[0] = 1
      BY TenNext
    <2> QED BY <2>2, <2>3, ScaledIs DEF min_scaled
  <1> HIDE DEF a, d, u, v, m
  <1>4. a * u <= d * u
    BY <1>1, <1>2, Multiply
  <1> DEFINE e == d * v
  <1>5. d * u <= 2 * e
    <2>1. u * d <= (2 * v) * d
      BY <1>1, Multiply
    <2>2. u * d = d * u /\ (2 * v) * d = 2 * (d * v)
      BY <1>1
    <2> QED BY <2>1, <2>2
  <1>6. e \in Nat \ {0} /\ a * u \in Nat /\ d * u \in Nat
    BY <1>1
  <1>7. 10 * e <= m * e /\ m * e \in Nat
    <2> HIDE DEF e
    <2> QED BY <1>3, <1>6, Multiply
  <1>8. a * u < m * e
    <2> DEFINE f == m * e
               b == a * u
               c == d * u
    <2>1. b <= c /\ c <= 2 * e /\ 10 * e <= f /\ b \in Nat /\ c \in Nat /\ f \in Nat
      BY <1>4, <1>5, <1>6, <1>7
    <2> HIDE DEF b, c, e, f
    <2>2. b < f
      BY <1>6, <2>1
    <2> QED BY <2>2 DEF b, f
  <1> QED BY <1>1, <1>8 DEF IsLess, m

\* A number of more than seven digits stays one of seven or more.
LEMMA OffAbove ==
  ASSUME NEW x \in Positive, NEW r \in Roundings, IsMore(x, max_scaled)
  PROVE  ~IsLess(Off(x, r), min_scaled)
  <1> DEFINE a == x.num
             d == x.den
             u == r.num
             v == r.den
             m == min_scaled
             M == max_scaled
  <1>1. /\ a \in Nat \ {0} /\ d \in Nat \ {0} /\ u \in Nat \ {0} /\ v \in Nat \ {0}
        /\ v <= 2 * u /\ Off(x, r).num = a * u /\ Off(x, r).den = d * v
    BY OffIs DEF Positive
  <1>2. a > M * d /\ m \in Nat \ {0} /\ M = 10 * m
    BY ScaledIs DEF IsMore
  <1> HIDE DEF a, d, u, v, m, M
  <1> DEFINE e == m * (d * v)
             b == a * u
             c == m * (d * u)
  <1>3. 10 * c <= b
    <2> DEFINE f == M * d
    <2>1. f \in Nat /\ f <= a
      BY <1>1, <1>2
    <2>2. f * u <= a * u
      <3> HIDE DEF f
      <3> QED BY <1>1, <2>1, Multiply
    <2>3. f * u = 10 * (m * (d * u))
      BY <1>1, <1>2
    <2> QED BY <2>2, <2>3
  <1>4. e <= 2 * c
    <2> DEFINE g == m * d
    <2>1. g \in Nat /\ v * g <= (2 * u) * g
      BY <1>1, <1>2, Multiply
    <2>2. v * g = m * (d * v)
      BY <1>1, <1>2
    <2>3. (2 * u) * g = 2 * (m * (d * u))
      BY <1>1, <1>2
    <2> HIDE DEF g
    <2> QED BY <2>1, <2>2, <2>3
  <1>5. b \in Nat /\ c \in Nat /\ e \in Nat
    BY <1>1, <1>2
  <1>6. ~(b < e)
    <2> HIDE DEF b, c, e
    <2> QED BY <1>3, <1>4, <1>5
  <1> HIDE DEF b, c
  <1>7. ~(Off(x, r).num < m * Off(x, r).den)
    <2>1. Off(x, r).num = b /\ m * Off(x, r).den = e
      BY <1>1 DEF b
    <2> QED BY <1>6, <2>1
  <1> QED BY <1>7 DEF IsLess, m

\* What is behind the point stays below one.
LEMMA FractionIs ==
  ASSUME NEW x \in Positive, NEW r \in Roundings
  PROVE  /\ Fraction(x, r) \in [num : Nat, den : Nat \ {0}]
         /\ Fraction(x, r).num < Fraction(x, r).den
         /\ x.num = (x.num \div x.den) * x.den => Fraction(x, r) = [num |-> 0, den |-> x.den]
  <1> DEFINE a == x.num
             d == x.den
             w == a \div d
             c == a - w * d
             part == [num |-> c, den |-> d]
             off == Off(part, r)
  <1>1. a \in Nat \ {0} /\ d \in Nat \ {0}
    BY DEF Positive
  <1>2. c \in Nat /\ c < d
    <2> HIDE DEF a, d
    <2>1. w \in Int /\ d * w <= a /\ a < d * (w + 1)
      BY <1>1
    <2> HIDE DEF w
    <2>2. d * (w + 1) = w * d + d /\ d * w = w * d /\ w * d \in Int
      BY <1>1, <2>1
    <2> QED BY <1>1, <2>1, <2>2
  <1>3. Fraction(x, r) = IF IsLess(off, 1) THEN off ELSE part
    <2>1. [x EXCEPT !.num = @ - (@ \div x.den) * x.den] = part
      BY DEF Positive
    <2> HIDE DEF part
    <2> QED BY <2>1, Zenon DEF Fraction
  <1> HIDE DEF c, d
  <1>4. part \in [num : Nat, den : Nat \ {0}] /\ part.num = c /\ part.den = d
    BY <1>1, <1>2
  <1>5. CASE c = 0
    <2>1. off = part
      BY <1>4, <1>5, Zenon DEF Off
    <2>2. Fraction(x, r) = part
      BY <1>3, <2>1
    <2> QED BY <1>2, <1>4, <1>5, <2>2 DEF d
  <1>6. CASE c # 0
    <2>1. part \in Positive
      BY <1>1, <1>2, <1>6 DEF Positive
    <2>2. off \in Positive
      <3> HIDE DEF part
      <3> QED BY <2>1, OffIs
    <2>3. ~(a = w * d)
      <3> SUFFICES ASSUME a = w * d PROVE FALSE
        OBVIOUS
      <3>1. w * d \in Int
        BY <1>1
      <3> HIDE DEF w
      <3> QED BY <1>6, <3>1 DEF c
    <2> HIDE DEF part, off
    <2>4. IsLess(off, 1) => off.num < off.den
      BY <2>2 DEF IsLess, Positive
    <2>5. off \in [num : Nat, den : Nat \ {0}]
      BY <2>2 DEF Positive
    <2> QED BY <1>2, <1>3, <1>4, <2>3, <2>4, <2>5 DEF d
  <1> QED BY <1>5, <1>6

\* A number that is split is what the roundings of the scaling leave of it, at
\* the scale of its last digit; a whole one of seven digits keeps its value.
LEMMA SplitIs ==
  ASSUME NEW x \in Positive, NEW r \in Roundings,
         x.num * r.num <= Ten[MaxRounds], x.den * r.den * min_scaled <= Ten[MaxRounds],
         NEW y, y = AfterScaling(x, r)
  PROVE  /\ y \in Positive /\ IsScaled(y, Split(x, r), LastDigit(y))
         /\ x.num % x.den = 0 /\ ~IsMore(x, max_scaled) => y = x
  <1>1. x.num \in Nat \ {0} /\ x.den \in Nat \ {0} /\ x \in [num : Nat, den : Nat]
    BY DEF Positive
  <1>2. /\ Off(x, r) \in Positive /\ WithinRounds(Off(x, r))
        /\ r.num \in Nat \ {0} /\ r.den \in Nat \ {0}
    BY OffIs DEF WithinRounds
  <1>3. /\ min_scaled \in Nat \ {0} /\ max_scaled = 10 * min_scaled /\ max_scaled \in Nat \ {0}
        /\ Ten[MaxRounds] \in Nat
    BY ScaledIs, TenType
  <1>4. IsLess(x, 1) => ~IsMore(x, max_scaled)
    <2> DEFINE a == x.num
               d == x.den
               M == max_scaled
    <2>1. 1 * d <= M * d /\ M * d \in Nat
      <3>1. 1 <= M /\ M \in Nat /\ d \in Nat
        BY <1>1, <1>3
      <3> HIDE DEF d, M
      <3> QED BY <3>1, Multiply
    <2>2. a < 1 * d => ~(a > M * d)
      <3> DEFINE f == M * d
      <3>1. f \in Nat /\ d <= f
        BY <1>1, <2>1
      <3> HIDE DEF a, d, f
      <3>2. a < 1 * d => ~(a > f)
        BY <1>1, <3>1 DEF a, d
      <3> QED BY <3>2 DEF f
    <2> QED BY <2>2, Zenon DEF IsLess, IsMore
  <1>5. CASE IsLess(x, 1)
    <2>1. y = Off(x, r)
      BY <1>5 DEF AfterScaling
    <2>2. Split(x, r) = UpSplit(y)
      <3>1. Split(x, r) = UpSplit(Off(x, r))
        BY <1>4, <1>5, Zenon DEF Split, UpSplit, UpRounds
      <3> QED BY <2>1, <3>1, Zenon
    <2>3. IsLess(y, min_scaled)
      BY <1>5, <2>1, OffBelow
    <2>4. ~(x.num % x.den = 0)
      <3>1. x.num < x.den
        BY <1>1, <1>5 DEF IsLess
      <3>2. x.num % x.den = x.num
        <4> DEFINE a == x.num
                   d == x.den
        <4>1. a \in Nat /\ d \in Nat \ {0} /\ a < d
          BY <1>1, <3>1
        <4> HIDE DEF a, d
        <4>2. a % d = a
          BY <4>1
        <4> QED BY <4>2 DEF a, d
      <3> QED BY <1>1, <3>2
    <2> QED BY <1>2, <2>1, <2>2, <2>3, <2>4, SmallIs
  <1>6. CASE IsMore(x, max_scaled)
    <2>1. y = Off(x, r)
      BY <1>6 DEF AfterScaling
    <2>2. Split(x, r) = DownSplit(y)
      <3>1. Split(x, r) = DownSplit(Off(x, r))
        BY <1>4, <1>6, Zenon DEF Split, DownSplit, DownRounds
      <3> QED BY <2>1, <3>1, Zenon
    <2>3. ~IsLess(y, min_scaled)
      BY <1>6, <2>1, OffAbove
    <2> QED BY <1>2, <1>6, <2>1, <2>2, <2>3, LargeIs
  <1>7. CASE ~IsLess(x, 1) /\ ~IsMore(x, max_scaled)
    <2> DEFINE a == x.num
               d == x.den
               w == x.num \div x.den
               part == Fraction(x, r)
               M == max_scaled
    <2>1. y = [num |-> w * part.den + part.num, den |-> part.den]
      BY <1>7, Zenon DEF AfterScaling
    <2>2. Split(x, r) = WholeSplit(w, part)
      BY <1>7, Zenon DEF Split, WholeSplit, WholeRounds
    <2>3. /\ part \in [num : Nat, den : Nat \ {0}] /\ part.num < part.den
          /\ a = w * d => part = [num |-> 0, den |-> d]
      BY FractionIs
    <2>4. /\ a \in Nat \ {0} /\ d \in Nat \ {0} /\ ~(a < 1 * d) /\ ~(a > M * d)
          /\ x = [num |-> a, den |-> d]
      BY <1>1, <1>7 DEF IsLess, IsMore
    <2>5. w \in Int /\ w * d <= a /\ a < (w + 1) * d
      <3>1. w = a \div d
        OBVIOUS
      <3> HIDE DEF a, d
      <3>2. a \div d \in Int /\ d * (a \div d) <= a /\ a < d * (a \div d + 1)
        BY <2>4
      <3> HIDE DEF w
      <3>3. w \in Int /\ d * w <= a /\ a < d * (w + 1)
        BY <3>1, <3>2
      <3>4. d * w = w * d /\ d * (w + 1) = (w + 1) * d
        BY <2>4, <3>3
      <3> QED BY <3>3, <3>4
    <2> HIDE DEF a, d, w, part, M
    <2>6. w \in Nat \ {0}
      <3> SUFFICES ASSUME w + 1 <= 1 PROVE FALSE
        BY <2>5
      <3>1. (w + 1) * d <= 1 * d
        <4> DEFINE v == w + 1
        <4>1. v \in Int /\ v <= 1
          BY <2>5
        <4> HIDE DEF v
        <4>2. v * d <= 1 * d
          BY <2>4, <4>1
        <4> QED BY <4>2 DEF v
      <3> QED BY <2>4, <2>5, <3>1
    <2>7. M \in Nat \ {0} /\ M * d \in Nat /\ a <= M * d
      <3>1. M \in Nat \ {0}
        BY <1>3 DEF M
      <3>2. M * d \in Nat
        BY <2>4, <3>1
      <3> QED BY <2>4, <3>1, <3>2
    <2>8. w <= M
      <3> SUFFICES ASSUME M + 1 <= w PROVE FALSE
        BY <2>6, <2>7
      <3>1. (M + 1) * d <= w * d
        BY <2>4, <2>6, <2>7, Multiply
      <3>2. (M + 1) * d = M * d + d /\ w * d \in Nat
        BY <2>4, <2>6, <2>7
      <3> QED BY <2>4, <2>5, <2>7, <3>1, <3>2
    <2>9. w = M => a = w * d
      <3> SUFFICES ASSUME w = M PROVE a = w * d
        OBVIOUS
      <3>1. w * d <= a /\ a <= w * d /\ w * d \in Nat
        BY <2>5, <2>7
      <3> QED BY <2>4, <3>1
    <2>10. a = w * d => y = x
      <3> SUFFICES ASSUME a = w * d PROVE y = x
        OBVIOUS
      <3>1. part = [num |-> 0, den |-> d]
        BY <2>3
      <3>2. part.num = 0 /\ part.den = d
        BY <3>1
      <3>3. w * part.den + part.num = a
        BY <2>4, <3>2
      <3> QED BY <2>1, <2>4, <3>2, <3>3
    <2>11. WithinRounds(x)
      <3> DEFINE t == Ten[MaxRounds]
      <3>1. a <= a * r.num /\ a * r.num \in Nat /\ a * r.num <= t
        <4>1. a * r.num <= t
          BY DEF a
        <4> HIDE DEF t
        <4> DEFINE u == r.num
        <4>2. u \in Nat \ {0}
          BY <1>2
        <4> HIDE DEF u
        <4>3. a <= a * u /\ a * u \in Nat
          BY <2>4, <4>2
        <4> QED BY <4>1, <4>3 DEF u
      <3>2. d * min_scaled <= t
        <4> DEFINE u == r.den
                   m == min_scaled
                   f == d * m
                   g == d * u * m
        <4>1. u \in Nat \ {0} /\ m \in Nat /\ g <= t
          BY <1>2, <1>3 DEF d
        <4> HIDE DEF u, m, t
        <4>2. f \in Nat /\ g = f * u
          BY <2>4, <4>1
        <4>3. f <= f * u /\ f * u \in Nat
          <5> HIDE DEF f
          <5> QED BY <4>1, <4>2
        <4>4. t \in Nat
          BY <1>3 DEF t
        <4> HIDE DEF f, g
        <4>5. f <= t
          BY <4>1, <4>2, <4>3, <4>4
        <4> QED BY <4>5 DEF f, m
      <3>3. a <= t
        <4>1. t \in Nat
          BY <1>3
        <4> HIDE DEF t
        <4> QED BY <2>4, <3>1, <4>1
      <3> QED BY <3>2, <3>3 DEF WithinRounds, a, d
    <2> DEFINE c == part.num
               e == part.den
    <2>12. c \in Nat /\ e \in Nat \ {0} /\ c < e
      BY <2>3
    <2>13. y.num = w * e + c /\ y.den = e
      <3> DEFINE b == w * e + c
      <3> HIDE DEF b, e
      <3>1. y = [num |-> b, den |-> e]
        BY <2>1 DEF b, e
      <3> QED BY <3>1 DEF b
    <2> HIDE DEF c, e
    <2>14. CASE w = M
      <3>1. y = x
        BY <2>9, <2>10, <2>14
      <3> QED BY <1>7, <2>1, <2>2, <2>3, <2>6, <2>11, <2>10, <3>1, MiddleIs
    <2>15. CASE w + 1 <= M
      <3>1. (w + 1) * e <= M * e /\ (w + 1) * e = w * e + e /\ w * e \in Nat /\ M * e \in Nat
        BY <2>6, <2>7, <2>12, <2>15, Multiply
      <3> DEFINE f == M * e
                 g == w * e
      <3>2. g + c < f /\ g + c \in Nat /\ f \in Nat
        <4>1. g + e <= f /\ f \in Nat /\ g \in Nat
          BY <3>1
        <4> HIDE DEF f, g
        <4> QED BY <2>12, <4>1
      <3> HIDE DEF f, g
      <3>3. ~(g + c > f) /\ ~(g + c = f)
        BY <3>2
      <3>4. ~(y.num > M * y.den) /\ ~(y.num = M * y.den)
        BY <2>13, <3>3 DEF f, g
      <3>5. ~IsMore(y, max_scaled) /\ ~(y.num = max_scaled * y.den)
        BY <3>4, Zenon DEF IsMore, M
      <3>6. y \in Positive /\ IsScaled(y, WholeSplit(w, part), LastDigit(y))
        BY <2>1, <2>3, <2>6, <3>5, MiddleIs
      <3>7. x.num % x.den = 0 => a = w * d
        <4>1. a % d = 0 => a = (a \div d) * d
          <5>1. a = d * (a \div d) + (a % d) /\ a \div d \in Int
            BY <2>4, DivideIs
          <5> DEFINE v == a \div d
                     h == a % d
          <5> HIDE DEF v, h
          <5>2. a = d * v + h /\ v \in Int
            BY <5>1 DEF v, h
          <5>3. h = 0 => a = v * d
            BY <2>4, <5>2
          <5> QED BY <5>3 DEF v, h
        <4> QED BY <4>1 DEF a, d, w
      <3> QED BY <2>2, <2>10, <3>6, <3>7
    <2>16. w = M \/ w + 1 <= M
      BY <2>6, <2>7, <2>8
    <2> QED BY <2>14, <2>15, <2>16
  <1> QED BY <1>5, <1>6, <1>7

-----------------------------------------------------------------------------
(* The text of a float *)

\* Half a unit is the most that rounding changes.
LEMMA NearestIs ==
  ASSUME NEW r, r.num \in Nat, r.den \in Nat \ {0}
  PROVE  /\ Nearest(r) \in Nat
         /\ 2 * (Nearest(r) * r.den - r.num) <= r.den
         /\ 2 * (r.num - Nearest(r) * r.den) <= r.den
  <1> DEFINE a == r.num
             d == r.den
             q == (2 * a) \div d
             n == (q + 1) \div 2
  <1>1. a \in Nat /\ d \in Nat \ {0}
    OBVIOUS
  <1>2. Nearest(r) = IF n % 2 = 1 /\ 2 * (n * d - a) = d THEN n - 1 ELSE n
    BY DEF Nearest
  <1> HIDE DEF a, d
  <1>3. q \in Nat /\ q * d <= 2 * a /\ 2 * a < (q + 1) * d
    <2> DEFINE b == 2 * a
    <2>1. b \in Nat
      BY <1>1
    <2> HIDE DEF b
    <2>2. b \div d \in Nat /\ d * (b \div d) <= b /\ b < d * (b \div d + 1)
      <3>1. b \div d \in Int /\ d * (b \div d) <= b /\ b < d * (b \div d + 1)
        BY <1>1, <2>1
      <3>2. b \div d \in Nat
        BY <1>1, <2>1
      <3> QED BY <3>1, <3>2
    <2> DEFINE p == b \div d
    <2> HIDE DEF p
    <2>3. p \in Nat /\ p * d <= b /\ b < (p + 1) * d
      <3>1. p \in Nat /\ d * p <= b /\ b < d * (p + 1)
        BY <2>2 DEF p
      <3>2. d * p = p * d /\ d * (p + 1) = (p + 1) * d
        BY <1>1, <3>1
      <3> QED BY <3>1, <3>2
    <2> QED BY <2>3 DEF p, b
  <1> HIDE DEF q
  <1>4. n \in Nat /\ 2 * n <= q + 1 /\ q <= 2 * n
    BY <1>3
  <1> HIDE DEF n
  <1>5. q * d \in Nat /\ n * d \in Nat /\ (q + 1) * d = q * d + d
    BY <1>1, <1>3, <1>4
  <1>6. (2 * n) * d <= (q + 1) * d /\ q * d <= (2 * n) * d /\ (2 * n) * d = 2 * (n * d)
    <2>1. 2 * n \in Nat /\ q + 1 \in Nat /\ d \in Nat
      BY <1>1, <1>3, <1>4
    <2>2. (2 * n) * d <= (q + 1) * d
      BY <1>4, <2>1, Multiply
    <2>3. q * d <= (2 * n) * d
      BY <1>3, <1>4, <2>1, Multiply
    <2>4. (2 * n) * d = 2 * (n * d)
      BY <1>1, <1>4
    <2> QED BY <2>2, <2>3, <2>4
  <1> DEFINE e == q * d
             f == n * d
  <1>7. e \in Nat /\ f \in Nat /\ 2 * f <= e + d /\ e <= 2 * f /\ e <= 2 * a /\ 2 * a < e + d
    BY <1>3, <1>5, <1>6
  <1>8. CASE n % 2 = 1 /\ 2 * (n * d - a) = d
    <2>1. Nearest(r) = n - 1 /\ n - 1 \in Nat
      BY <1>2, <1>4, <1>8
    <2>2. (n - 1) * d = f - d /\ 2 * (f - a) = d
      BY <1>1, <1>4, <1>8
    <2> HIDE DEF e, f
    <2>3. 2 * ((f - d) - a) <= d /\ 2 * (a - (f - d)) <= d
      BY <1>1, <1>7, <2>2
    <2>4. 2 * ((n - 1) * d - a) <= d /\ 2 * (a - (n - 1) * d) <= d
      BY <2>2, <2>3
    <2> QED BY <2>1, <2>4 DEF a, d
  <1>9. CASE ~(n % 2 = 1 /\ 2 * (n * d - a) = d)
    <2>1. Nearest(r) = n
      BY <1>2, <1>9
    <2> HIDE DEF e, f
    <2>2. 2 * (f - a) <= d /\ 2 * (a - f) <= d
      BY <1>1, <1>7
    <2> QED BY <1>4, <2>1, <2>2 DEF a, d, f
  <1> QED BY <1>8, <1>9

LEMMA MaxExists ==
  ASSUME NEW m \in Nat, NEW S \in SUBSET (0 .. m), S # {}
  PROVE  Max(S) \in S
  <1> DEFINE B == {j \in Nat : \A z \in S : z <= j}
  <1>1. B \subseteq Nat /\ m \in B
    OBVIOUS
  <1>2. PICK k \in B : \A j \in B : ~(<<j, k>> \in OpToRel(<, Nat))
    <2> HIDE DEF B
    <2> QED BY <1>1, NatLessThanWellFounded, WFMin
  <1>3. k \in Nat /\ \A z \in S : z <= k
    BY <1>2
  <1>4. k \in S
    <2> SUFFICES ASSUME k \notin S PROVE FALSE
      OBVIOUS
    <2>1. \A z \in S : z \in Nat /\ z < k
      BY <1>3
    <2>2. k - 1 \in Nat /\ k - 1 < k /\ \A z \in S : z <= k - 1
      <3> PICK y \in S : TRUE
        OBVIOUS
      <3>1. y \in Nat /\ y < k
        BY <2>1
      <3>2. k - 1 \in Nat /\ k - 1 < k
        BY <1>3, <3>1
      <3>3. ASSUME NEW z \in S PROVE z <= k - 1
        BY <1>3, <2>1
      <3> QED BY <3>2, <3>3
    <2>3. k - 1 \in B
      BY <2>2
    <2>4. <<k - 1, k>> \in OpToRel(<, Nat)
      BY <1>3, <2>2 DEF OpToRel
    <2> QED BY <1>2, <2>3, <2>4, Zenon
  <1>5. \A z \in S : k >= z
    BY <1>3
  <1> QED BY <1>4, <1>5, Zenon DEF Max

\* Zeroes that are left out take nothing from a number.
LEMMA ZeroesAre ==
  ASSUME NEW n \in Nat, NEW m \in Nat, NEW z, z = Max({i \in 0 .. m : n % Ten[i] = 0})
  PROVE  /\ z \in 0 .. m /\ n \div Ten[z] \in Nat
         /\ n = (n \div Ten[z]) * Ten[z] /\ n \div Ten[z] <= n
  <1> DEFINE S == {i \in 0 .. m : n % Ten[i] = 0}
  <1>1. 0 \in S
    <2>1. Ten[0] = 1 /\ 0 \in 0 .. m
      BY TenNext
    <2>2. n % 1 = 0
      OBVIOUS
    <2> QED BY <2>1, <2>2
  <1>2. Max(S) \in S
    <2>1. S \in SUBSET (0 .. m)
      OBVIOUS
    <2> HIDE DEF S
    <2> QED BY <1>1, <2>1, MaxExists
  <1>3. z \in 0 .. m /\ n % Ten[z] = 0
    BY <1>2
  <1> DEFINE t == Ten[z]
  <1>4. t \in Nat \ {0} /\ n % t = 0
    BY <1>3, TenType
  <1> HIDE DEF t
  <1>5. n \div t \in Nat /\ n = (n \div t) * t + (n % t)
    <2>1. n = t * (n \div t) + (n % t) /\ n \div t \in Nat
      <3>1. n = t * (n \div t) + (n % t) /\ n \div t \in Int
        BY <1>4, DivideIs
      <3>2. n \div t \in Nat
        BY <1>4
      <3> QED BY <3>1, <3>2
    <2> DEFINE p == n \div t
    <2> HIDE DEF p
    <2>2. p \in Nat /\ n = t * p + (n % t)
      BY <2>1 DEF p
    <2>3. t * p = p * t
      BY <1>4, <2>2
    <2> QED BY <2>2, <2>3 DEF p
  <1> DEFINE p == n \div t
  <1>6. p \in Nat /\ n = p * t
    <2> HIDE DEF p
    <2>1. p \in Nat /\ p * t \in Nat
      <3>1. p \in Nat
        BY <1>5 DEF p
      <3> QED BY <1>4, <3>1
    <2>2. n = p * t + 0
      BY <1>4, <1>5 DEF p
    <2> QED BY <2>1, <2>2
  <1> HIDE DEF p
  <1>7. p <= p * t
    BY <1>4, <1>6
  <1>8. p <= n
    BY <1>6, <1>7
  <1> QED BY <1>3, <1>6, <1>8 DEF p, t

\* The magnitude of a number.
Magnitude(number) == [number EXCEPT !.num = IF number.num < 0 THEN -@ ELSE @]

\* The text is that of n at exponent e.
Shows(text, n, e) ==
  /\ text.n \in Nat /\ text.n < max_scaled
  /\ \E z \in Nat : text.n * Ten[z] = n /\ text.exponent - text.decimals = e + z

LEMMA TextIs ==
  ASSUME NEW number \in [num : Int, den : Nat \ {0}], number.num # 0,
         NEW rounding, NEW s, s = Split(Magnitude(number), rounding), s.exponent \in Int,
         NEW r \in Nat, r = Nearest(s.rest) + s.n_int,
         NEW text, text = UnityPrintFloat(number, rounding)
  PROVE  /\ text.minus = (number.num < 0)
         /\ IF r >= max_scaled THEN Shows(text, min_scaled, s.exponent + 1)
            ELSE Shows(text, r, s.exponent)
  <1> DEFINE carry == r >= max_scaled
             n == IF carry THEN min_scaled ELSE r
             e == IF carry THEN s.exponent + 1 ELSE s.exponent
             p == IF e \in -(SigDigits + 3) .. 0 THEN -e ELSE SigDigits - 1
             z == Max({i \in 0 .. p : n % Ten[i] = 0})
  <1>1. text = [minus |-> number.num < 0, n |-> n \div Ten[z], decimals |-> p - z,
                exponent |-> e + p]
    BY Zenon DEF UnityPrintFloat, Magnitude
  <1>2. /\ min_scaled \in Nat \ {0} /\ max_scaled = 10 * min_scaled
        /\ SigDigits \in Nat \ {0}
    BY ScaledIs
  <1>3. n \in Nat /\ n < max_scaled /\ e \in Int
    BY <1>2
  <1> HIDE DEF n, e
  <1>4. p \in Nat
    <2>1. CASE e \in -(SigDigits + 3) .. 0
      <3>1. -e \in Nat
        BY <1>2, <1>3, <2>1
      <3> QED BY <2>1, <3>1
    <2>2. CASE ~(e \in -(SigDigits + 3) .. 0)
      <3>1. SigDigits - 1 \in Nat
        BY <1>2
      <3> QED BY <2>2, <3>1
    <2> QED BY <2>1, <2>2
  <1> HIDE DEF p
  <1> DEFINE u == n \div Ten[z]
  <1>5. z \in 0 .. p /\ u \in Nat /\ n = u * Ten[z] /\ u <= n
    BY <1>3, <1>4, ZeroesAre
  <1> HIDE DEF z, u
  <1>6. text.minus = (number.num < 0) /\ text.n = u /\ text.decimals = p - z /\ text.exponent = e + p
    <2>1. text = [minus |-> number.num < 0, n |-> u, decimals |-> p - z, exponent |-> e + p]
      BY <1>1 DEF u
    <2> DEFINE i == p - z
               j == e + p
               b == number.num < 0
    <2> HIDE DEF i, j, b
    <2>2. text = [minus |-> b, n |-> u, decimals |-> i, exponent |-> j]
      BY <2>1 DEF i, j, b
    <2>3. text.minus = b /\ text.n = u /\ text.decimals = i /\ text.exponent = j
      BY <2>2
    <2> QED BY <2>3, Zenon DEF i, j, b
  <1>7. Shows(text, n, e)
    <2>1. u < max_scaled
      BY <1>2, <1>3, <1>5
    <2>2. z \in Nat /\ (e + p) - (p - z) = e + z
      BY <1>3, <1>4, <1>5
    <2>3. text.exponent - text.decimals = e + z
      BY <1>6, <2>2
    <2> QED BY <1>5, <1>6, <2>1, <2>2, <2>3, Zenon DEF Shows
  <1>8. CASE carry
    <2>1. n = min_scaled /\ e = s.exponent + 1
      BY <1>8 DEF n, e
    <2> QED BY <1>6, <1>7, <1>8, <2>1, Zenon
  <1>9. CASE ~carry
    <2>1. n = r /\ e = s.exponent
      BY <1>9 DEF n, e
    <2> QED BY <1>6, <1>7, <1>9, <2>1, Zenon
  <1> QED BY <1>8, <1>9

\* Twice the error of a text at an exponent is at most the unit.
Precise(text, x, unit) ==
  \E z \in Nat :
    /\ text.exponent - text.decimals - unit = z
    /\ 2 * (text.n * Ten[z] * Scale(x, -unit).den - Scale(x, -unit).num) <= Scale(x, -unit).den
    /\ 2 * (Scale(x, -unit).num - text.n * Ten[z] * Scale(x, -unit).den) <= Scale(x, -unit).den

LEMMA TextPrecise ==
  ASSUME NEW number \in [num : Int, den : Nat \ {0}], number.num # 0,
         NEW rounding, NEW s, s = Split(Magnitude(number), rounding),
         NEW x, x \in Positive, IsScaled(x, s, LastDigit(x)),
         NEW text, text = UnityPrintFloat(number, rounding)
  PROVE  /\ text.minus = (number.num < 0)
         /\ text.n \in Nat /\ text.n < max_scaled
         /\ Precise(text, x, LastDigit(x))
         /\ Scale(x, -LastDigit(x)).num \in Nat /\ Scale(x, -LastDigit(x)).den \in Nat \ {0}
  <1> DEFINE unit == LastDigit(x)
             r == Nearest(s.rest) + s.n_int
             d == s.rest.den
             a == s.rest.num
             w == s.n_int
             m == min_scaled
             M == max_scaled
  <1>1. IsScaled(x, s, unit)
    OBVIOUS
  <1> HIDE DEF unit
  <1>2. /\ s.exponent \in Int /\ w \in Nat /\ a \in Nat /\ d \in Nat \ {0}
        /\ Scale(x, -s.exponent) = [num |-> w * d + a, den |-> d]
        /\ \/ unit = s.exponent /\ w * d + a < M * d
           \/ /\ unit = s.exponent + 1 /\ w * d + a = M * d
              /\ Scale(x, -unit).den \in Nat \ {0}
              /\ Scale(x, -unit).num = m * Scale(x, -unit).den
    BY <1>1, Zenon DEF IsScaled, DigitsAt
  <1> DEFINE k == Nearest(s.rest)
  <1>3. k \in Nat /\ 2 * (k * d - a) <= d /\ 2 * (a - k * d) <= d
    BY <1>2, NearestIs
  <1> HIDE DEF d, a, w, k
  <1>4. r = k + w /\ r \in Nat
    BY <1>2, <1>3 DEF k, w
  <1> HIDE DEF r
  <1>5. m \in Nat \ {0} /\ M = 10 * m /\ M \in Nat
    BY ScaledIs
  <1>6. /\ text.minus = (number.num < 0)
        /\ IF r >= M THEN Shows(text, m, s.exponent + 1) ELSE Shows(text, r, s.exponent)
    <2>1. r = Nearest(s.rest) + s.n_int
      BY DEF r
    <2> QED BY <1>2, <1>4, <2>1, TextIs
  <1> DEFINE y == w * d + a
  <1>7. /\ y \in Nat /\ r * d \in Nat
        /\ 2 * (r * d - y) <= d /\ 2 * (y - r * d) <= d
    <2>1. r * d = k * d + w * d /\ w * d \in Nat /\ k * d \in Nat
      BY <1>2, <1>3, <1>4
    <2> DEFINE b == k * d
               c == w * d
    <2> HIDE DEF b, c
    <2>2. b \in Nat /\ c \in Nat /\ r * d = b + c /\ 2 * (b - a) <= d /\ 2 * (a - b) <= d
      BY <1>3, <2>1 DEF b, c
    <2>3. /\ c + a \in Nat /\ 2 * ((b + c) - (c + a)) <= d /\ 2 * ((c + a) - (b + c)) <= d
          /\ b + c \in Nat
      BY <1>2, <2>2
    <2> QED BY <2>2, <2>3 DEF c
  <1> HIDE DEF y
  <1>8. text.n \in Nat /\ text.n < M
    BY <1>6 DEF Shows
  <1> HIDE DEF m, M
  <1>9. M * d \in Nat /\ r <= M
    <2>1. M * d \in Nat
      BY <1>2, <1>5
    <2>2. y <= M * d
      BY <1>2, <1>7, <2>1 DEF y
    <2>3. ASSUME M + 1 <= r PROVE FALSE
      <3>1. (M + 1) * d <= r * d
        BY <1>2, <1>4, <1>5, <2>3, Multiply
      <3>2. (M + 1) * d = M * d + d
        BY <1>2, <1>5
      <3> DEFINE f == M * d
                 g == r * d
      <3> HIDE DEF f, g
      <3>3. f \in Nat /\ g \in Nat /\ f + d <= g /\ y <= f /\ 2 * (g - y) <= d
        BY <1>7, <2>1, <2>2, <3>1, <3>2 DEF f, g
      <3> QED BY <1>2, <1>7, <3>3
    <2> QED BY <1>4, <1>5, <2>1, <2>3
  <1>10. CASE unit = s.exponent /\ y < M * d
    <2>1. Scale(x, -unit).num = y /\ Scale(x, -unit).den = d
      <3>1. Scale(x, -unit) = [num |-> y, den |-> d]
        BY <1>2, <1>10 DEF y
      <3> QED BY <3>1
    <2>2. \E z \in Nat : text.n * Ten[z] = r /\ text.exponent - text.decimals - unit = z
      <3>1. CASE r >= M
        <4>1. r = M
          BY <1>4, <1>5, <1>9, <3>1
        <4>2. PICK z \in Nat : /\ text.n * Ten[z] = m
                               /\ text.exponent - text.decimals = (s.exponent + 1) + z
          BY <1>6, <3>1 DEF Shows
        <4>3. Ten[z + 1] = 10 * Ten[z] /\ Ten[z] \in Nat /\ z + 1 \in Nat
          BY TenNext, TenType
        <4>4. text.n * Ten[z + 1] = r
          <5> DEFINE t == Ten[z]
          <5> HIDE DEF t
          <5>1. text.n * (10 * t) = 10 * (text.n * t)
            BY <1>8, <4>3 DEF t
          <5> QED BY <1>5, <4>1, <4>2, <4>3, <5>1 DEF t
        <4>5. text.exponent - text.decimals - unit = z + 1
          BY <1>2, <1>10, <4>2
        <4> QED BY <4>3, <4>4, <4>5
      <3>2. CASE ~(r >= M)
        <4>1. PICK z \in Nat : /\ text.n * Ten[z] = r
                               /\ text.exponent - text.decimals = s.exponent + z
          BY <1>6, <3>2 DEF Shows
        <4>2. text.exponent - text.decimals - unit = z
          BY <1>2, <1>10, <4>1
        <4> QED BY <4>1, <4>2
      <3> QED BY <3>1, <3>2
    <2>3. Precise(text, x, unit)
      BY <1>7, <2>1, <2>2, Zenon DEF Precise
    <2> QED BY <1>2, <1>6, <1>7, <1>8, <2>1, <2>3 DEF unit, M
  <1>11. CASE /\ unit = s.exponent + 1 /\ y = M * d
              /\ Scale(x, -unit).den \in Nat \ {0}
              /\ Scale(x, -unit).num = m * Scale(x, -unit).den
    <2>1. r = M
      <3> SUFFICES ASSUME r + 1 <= M PROVE FALSE
        BY <1>4, <1>5, <1>9
      <3>1. (r + 1) * d <= M * d /\ (r + 1) * d = r * d + d
        BY <1>2, <1>4, <1>5, Multiply
      <3> DEFINE f == M * d
                 g == r * d
      <3> HIDE DEF f, g
      <3>2. f \in Nat /\ g \in Nat /\ g + d <= f /\ y = f /\ 2 * (y - g) <= d
        BY <1>7, <1>9, <1>11, <3>1 DEF f, g
      <3> QED BY <1>2, <3>2
    <2>2. PICK z \in Nat : /\ text.n * Ten[z] = m
                           /\ text.exponent - text.decimals = (s.exponent + 1) + z
      <3>1. r >= M
        BY <1>5, <2>1
      <3> QED BY <1>6, <3>1 DEF Shows
    <2>3. text.exponent - text.decimals - unit = z
      BY <1>2, <1>11, <2>2
    <2> DEFINE p == Scale(x, -unit).num
               q == Scale(x, -unit).den
    <2>4. p = m * q /\ q \in Nat \ {0}
      BY <1>11
    <2>5. text.n * Ten[z] * q = p
      BY <2>2, <2>4
    <2> HIDE DEF p, q
    <2>6. p \in Nat
      BY <1>5, <2>4
    <2> DEFINE h == text.n * Ten[z] * q
    <2> HIDE DEF h
    <2>7. 2 * (h - p) <= q /\ 2 * (p - h) <= q
      <3>1. h = p
        BY <2>5 DEF h
      <3> QED BY <2>4, <2>6, <3>1
    <2>8. Precise(text, x, unit)
      BY <2>3, <2>7, Zenon DEF Precise, h, p, q
    <2> QED BY <1>6, <1>8, <2>4, <2>6, <2>8 DEF p, q, unit, M
  <1> QED BY <1>2, <1>10, <1>11 DEF y

LEMMA FloatTextIs ==
  ASSUME NEW number \in ShownFloats, NEW rounding \in Roundings,
         NEW x, x = [number EXCEPT !.num = Distance(0, @)],
         NEW text, text = UnityPrintFloat(number, rounding)
  PROVE  /\ x.num # 0 => ToHalfUnit(text, AfterScaling(x, rounding))
         /\ x.num # 0 /\ x.num % x.den = 0 /\ ~IsMore(x, max_scaled) => ToHalfUnit(text, x)
         /\ text.n < max_scaled
         /\ text.minus = (number.num < 0)
  <1>1. /\ number \in [num : Int, den : Nat \ {0}]
        /\ number.num * rounding.num \in -Ten[MaxRounds] .. Ten[MaxRounds]
        /\ number.den * rounding.den * min_scaled <= Ten[MaxRounds]
    BY ShownFloatsAssumption
  <1>2. number.num \in Int /\ number.den \in Nat \ {0}
    BY <1>1
  <1>3. Distance(0, number.num) = IF number.num < 0 THEN -number.num ELSE number.num
    BY <1>2 DEF Distance
  <1>4. x = Magnitude(number)
    <2>1. x = [number EXCEPT !.num = Distance(0, number.num)]
      OBVIOUS
    <2>2. Magnitude(number) = [number EXCEPT !.num = IF number.num < 0 THEN -number.num
                                                     ELSE number.num]
      BY DEF Magnitude
    <2> QED BY <1>3, <2>1, <2>2, Zenon
  <1>5. x.num = Distance(0, number.num) /\ x.den = number.den
    <2> DEFINE n == Distance(0, number.num)
    <2>1. x = [number EXCEPT !.num = n]
      OBVIOUS
    <2> HIDE DEF n
    <2>2. x.num = n /\ x.den = number.den
      BY <1>1, <2>1
    <2> QED BY <2>2 DEF n
  <1>6. CASE number.num = 0
    <2>1. text = [minus |-> FALSE, n |-> 0, decimals |-> 0, exponent |-> 0]
      BY <1>6, Zenon DEF UnityPrintFloat
    <2>2. text.minus = FALSE /\ text.n = 0
      BY <2>1
    <2>3. x.num = 0
      BY <1>3, <1>5, <1>6
    <2>4. 0 < max_scaled
      BY ScaledIs
    <2>5. (number.num < 0) = FALSE
      BY <1>6
    <2> QED BY <2>2, <2>3, <2>4, <2>5
  <1>7. CASE number.num # 0
    <2>1. Ten[MaxRounds] \in Nat
      BY ScaledIs, TenType
    <2>2. x.num \in Nat \ {0} /\ x.num * rounding.num <= Ten[MaxRounds]
      <3> DEFINE u == rounding.num
                 n == number.num
                 t == Ten[MaxRounds]
      <3>1. u \in Nat /\ n \in Int \ {0} /\ t \in Nat /\ n * u \in -t .. t
            /\ x.num = IF n < 0 THEN -n ELSE n
        BY <1>1, <1>2, <1>3, <1>5, <1>7, <2>1, RoundingsAssumption
      <3> HIDE DEF u, n, t
      <3>2. (-n) * u = -(n * u) /\ n * u \in Int
        BY <3>1
      <3>3. x.num \in Nat \ {0} /\ x.num * u <= t
        BY <3>1, <3>2
      <3> QED BY <3>3 DEF u, t
    <2>3. x \in Positive
      <3>1. x \in [num : Int, den : Nat \ {0}]
        BY <1>1, <1>2, <1>3
      <3> QED BY <2>2, <3>1 DEF Positive
    <2> DEFINE y == AfterScaling(x, rounding)
    <2>4. /\ y \in Positive /\ IsScaled(y, Split(x, rounding), LastDigit(y))
          /\ x.num % x.den = 0 /\ ~IsMore(x, max_scaled) => y = x
      BY <1>1, <1>5, <2>2, <2>3, SplitIs
    <2> HIDE DEF y
    <2> DEFINE k == LastDigit(y)
               p == Scale(y, -k).num
               q == Scale(y, -k).den
    <2>6. /\ text.minus = (number.num < 0) /\ text.n \in Nat /\ text.n < max_scaled
          /\ Precise(text, y, k) /\ p \in Nat /\ q \in Nat \ {0}
      BY <1>1, <1>4, <1>7, <2>4, TextPrecise
    <2> HIDE DEF k
    <2>7. PICK z \in Nat :
            /\ text.exponent - text.decimals - k = z
            /\ 2 * (text.n * Ten[z] * q - p) <= q
            /\ 2 * (p - text.n * Ten[z] * q) <= q
      BY <2>6, Zenon DEF Precise
    <2> DEFINE at == text.exponent - text.decimals - k
               h == text.n * Ten[z] * q
    <2>8. h \in Nat /\ 2 * (h - p) <= q /\ 2 * (p - h) <= q
      <3>1. Ten[z] \in Nat
        BY TenType
      <3> DEFINE t == Ten[z]
      <3>2. t \in Nat
        BY <3>1
      <3> HIDE DEF t, p, q
      <3>3. text.n * t * q \in Nat
        BY <2>6, <3>2
      <3> QED BY <2>7, <3>3 DEF t
    <2>9. at = z /\ at >= 0
      BY <2>7
    <2>10. TextError(text, y, k) = [num |-> 2 * Distance(h, p * 1), den |-> q * 1]
      <3> HIDE DEF at
      <3>1. TextError(text, y, k)
              = LET v == IF at >= 0 THEN text.n * Ten[at] ELSE text.n
                    u == IF at >= 0 THEN 1 ELSE Ten[-at]
                IN  [num |-> 2 * Distance(v * q, p * u), den |-> q * u]
        BY Zenon DEF TextError, at
      <3> HIDE DEF p, q
      <3> QED BY <2>9, <3>1, Zenon
    <2> HIDE DEF h, p, q, at
    <2>11. p * 1 = p /\ q * 1 = q
      BY <2>6
    <2>12. 2 * Distance(h, p) <= q /\ Distance(h, p) \in Int
      <3>1. Distance(h, p) = IF h < p THEN p - h ELSE h - p
        BY DEF Distance
      <3> QED BY <2>6, <2>8, <3>1
    <2> DEFINE e == 2 * Distance(h, p)
    <2>13. TextError(text, y, k).num = e /\ TextError(text, y, k).den = q
      <3> HIDE DEF e
      <3>1. TextError(text, y, k) = [num |-> e, den |-> q]
        BY <2>10, <2>11 DEF e
      <3> QED BY <3>1
    <2>14. ~IsMore(TextError(text, y, k), 1)
      <3>1. e <= q /\ e \in Int
        BY <2>12
      <3> HIDE DEF e
      <3>2. ~(e > 1 * q)
        BY <2>6, <3>1
      <3> QED BY <2>13, <3>2 DEF IsMore
    <2>15. ToHalfUnit(text, y)
      BY <2>14, Zenon DEF ToHalfUnit, k
    <2> QED BY <2>4, <2>6, <2>15 DEF y
  <1> QED BY <1>6, <1>7

LEMMA FloatTextRightStep ==
  ASSUME Next
  PROVE  FloatTextRight'
  <1> SUFFICES ASSUME call'.fn = "ShowFloat"
               PROVE  LET text == message'[1]
                          x    == [call'.number EXCEPT !.num = Distance(0, @)]
                      IN  /\ x.num # 0 => ToHalfUnit(text, AfterScaling(x, call'.rounding))
                          /\ x.num # 0 /\ x.num % x.den = 0 /\ ~IsMore(x, max_scaled)
                               => ToHalfUnit(text, x)
                          /\ text.n < max_scaled
                          /\ text.minus = (call'.number.num < 0)
    BY Zenon DEF FloatTextRight
  <1>1. ShowFloat
    BY CallIs DEF NoCall
  <1>2. PICK number \in ShownFloats, rounding \in Roundings :
          /\ call' = [fn |-> "ShowFloat", number |-> number, rounding |-> rounding]
          /\ message' = <<UnityPrintFloat(number, rounding)>>
    BY <1>1, Zenon DEF ShowFloat, Make
  <1>3. /\ call'.number = number /\ call'.rounding = rounding
        /\ message'[1] = UnityPrintFloat(number, rounding)
    <2> DEFINE text == UnityPrintFloat(number, rounding)
    <2> HIDE DEF text
    <2>1. /\ call' = [fn |-> "ShowFloat", number |-> number, rounding |-> rounding]
          /\ message' = <<text>>
      BY <1>2 DEF text
    <2>2. call'.number = number /\ call'.rounding = rounding /\ message'[1] = text
      BY <2>1
    <2> QED BY <2>2 DEF text
  <1> DEFINE x == [number EXCEPT !.num = Distance(0, @)]
             text == UnityPrintFloat(number, rounding)
  <1>4. /\ x.num # 0 => ToHalfUnit(text, AfterScaling(x, rounding))
        /\ x.num # 0 /\ x.num % x.den = 0 /\ ~IsMore(x, max_scaled) => ToHalfUnit(text, x)
        /\ text.n < max_scaled
        /\ text.minus = (number.num < 0)
    <2>1. x = [number EXCEPT !.num = Distance(0, @)] /\ text = UnityPrintFloat(number, rounding)
      OBVIOUS
    <2> HIDE DEF x, text
    <2> QED BY <2>1, FloatTextIs
  <1> QED BY <1>3, <1>4, Zenon

\* The text of a float is right to half a unit of its last significant digit
\* for what the roundings of the scaling leave of the number, and for a whole
\* number that is not scaled: for any number of digits, all roundings between
\* half and double and all fractions whose exponents are within those of the
\* type: FloatTextRight.
THEOREM FloatTextRightHolds == Spec => []FloatTextRight
  <1>1. Init => FloatTextRight
    BY DEF Init, NoCall, FloatTextRight
  <1>2. FloatTextRight /\ [Next]_vars => FloatTextRight'
    <2>1. FloatTextRight /\ UNCHANGED vars => FloatTextRight'
      <3> SUFFICES ASSUME FloatTextRight, UNCHANGED vars PROVE FloatTextRight'
        OBVIOUS
      <3>1. call' = call /\ message' = message
        BY DEF vars
      <3> QED BY <3>1, Zenon DEF FloatTextRight
    <2> QED BY <2>1, FloatTextRightStep
  <1> QED BY <1>1, <1>2, PTL DEF Spec

-----------------------------------------------------------------------------
(***************************************************************************)
(* Patterns.  How a pattern reads is an assumption on the settings: the    *)
(* text is made of its parts.  The code takes the parts one after the      *)
(* other (ScanIs, WordIs), each selects what it says, and the loop over    *)
(* them is followed from the last one back to the first.                   *)
(***************************************************************************)

Stops == {Star, Comma, Colon} \cup Quotes

FoundIn(long, part) ==
  \E k \in 0 .. Len(long) - Len(part) : SubSeq(long, k + 1, k + Len(part)) = part

\* What a pattern compares ends where it says.
LEMMA StemIs ==
  ASSUME NEW short \in Seq(Int), NEW m \in 1 .. Len(short),
         \A j \in 2 .. m : short[j] \notin Stops,
         m < Len(short) => short[m + 1] \in Stops
  PROVE  Stem(short) = m
  <1> DEFINE S == {k \in 1 .. Len(short) : \A j \in 2 .. k : short[j] \notin Stops}
  <1>1. m \in S
    OBVIOUS
  <1>2. Len(short) \in Nat /\ m \in Int /\ m >= 1
    OBVIOUS
  <1>3. ASSUME NEW k \in S PROVE m >= k
    <2> SUFFICES ASSUME k >= m + 1 PROVE FALSE
      BY <1>2
    <2>1. m < Len(short) /\ m + 1 \in 2 .. k
      BY <1>2
    <2> QED BY <2>1
  <1>4. \A n \in S : (\A k \in S : n >= k) => n = m
    <2> SUFFICES ASSUME NEW n \in S, \A k \in S : n >= k PROVE n = m
      OBVIOUS
    <2>1. n >= m /\ m >= n /\ n \in Int
      BY <1>1, <1>2, <1>3
    <2> QED BY <1>2, <2>1
  <1>5. Stem(short) = Max(S)
    BY Zenon DEF Stem, Stops
  <1> HIDE DEF S
  <1>6. Max(S) = m
    BY <1>1, <1>3, <1>4, Zenon DEF Max
  <1> QED BY <1>5, <1>6

\* A string is searched for up to there.
LEMMA BiggerIs ==
  ASSUME NEW long \in Seq(Int), NEW short \in Seq(Int), NEW m \in 1 .. Len(short),
         short[1] # Star, \A j \in 2 .. m : short[j] \notin Stops,
         m < Len(short) => short[m + 1] \in Stops,
         NEW part \in Seq(Int), Len(part) = m, \A j \in 1 .. m : part[j] = short[j]
  PROVE  IsStringInBiggerString(long, short)
           = IF FoundIn(long, part)
             THEN IF m < Len(short) /\ short[m + 1] = Colon THEN 2 ELSE 1
             ELSE 0
  <1>1. m \in Nat /\ m >= 1 /\ Len(short) \in Nat /\ Len(long) \in Nat
    OBVIOUS
  <1>2. Stem(short) = m
    BY StemIs
  <1> DEFINE There == \E l \in 0 .. Len(long) - m : \A j \in 1 .. m : long[l + j] = short[j]
  <1>3. ASSUME NEW l \in 0 .. Len(long) - m
        PROVE  SubSeq(long, l + 1, l + m) = part <=> \A j \in 1 .. m : long[l + j] = short[j]
    <2> DEFINE s == SubSeq(long, l + 1, l + m)
    <2>1. s \in Seq(Int) /\ Len(s) = m /\ \A j \in 1 .. m : s[j] = long[l + j]
      <3>1. l \in Nat /\ l + m <= Len(long)
        BY <1>1
      <3>2. s \in Seq(Int) /\ Len(s) = m /\ \A j \in 1 .. m : s[j] = long[(l + 1) + j - 1]
        <4> DEFINE p == l + 1
                   q == l + m
        <4>1. p \in Nat /\ q \in Nat /\ p >= 1 /\ q <= Len(long) /\ q - p + 1 = m
          BY <1>1, <3>1
        <4> HIDE DEF p, q
        <4>2. /\ SubSeq(long, p, q) \in Seq(Int) /\ Len(SubSeq(long, p, q)) = q - p + 1
              /\ \A j \in 1 .. q - p + 1 : SubSeq(long, p, q)[j] = long[p + j - 1]
          BY <1>1, <4>1, SMTT(40)
        <4> QED BY <4>1, <4>2 DEF p, q
      <3>3. \A j \in 1 .. m : (l + 1) + j - 1 = l + j
        BY <3>1
      <3> HIDE DEF s
      <3> QED BY <3>2, <3>3
    <2> HIDE DEF s
    <2>2. ASSUME \A j \in 1 .. m : long[l + j] = short[j] PROVE s = part
      <3>1. Len(s) = Len(part) /\ \A j \in 1 .. Len(s) : s[j] = part[j]
        BY <2>1, <2>2
      <3> QED BY <2>1, <3>1, SeqEqual
    <2> QED BY <2>1, <2>2 DEF s
  <1>4. FoundIn(long, part) <=> There
    BY <1>3 DEF FoundIn
  <1>5. short # <<>>
    BY <1>1
  <1>6. IsStringInBiggerString(long, short)
          = IF There THEN IF At(short, m + 1) = Colon THEN 2 ELSE 1 ELSE 0
    BY <1>2, <1>5, Zenon DEF IsStringInBiggerString
  <1>7. At(short, m + 1) = Colon <=> (m < Len(short) /\ short[m + 1] = Colon)
    <2>1. m + 1 <= Len(short) <=> m < Len(short)
      BY <1>1
    <2> QED BY <2>1 DEF At, Colon
  <1> HIDE DEF There
  <1> QED BY <1>4, <1>6, <1>7, Zenon

\* The rest of a text, from some place on.
LEMMA FromIs ==
  ASSUME NEW s \in Seq(Int), NEW k \in 1 .. Len(s)
  PROVE  /\ From(s, k) \in Seq(Int) /\ Len(From(s, k)) = Len(s) - k + 1
         /\ \A j \in 1 .. Len(s) - k + 1 : From(s, k)[j] = s[k + j - 1]
  <1>1. Len(s) \in Nat /\ k \in Nat /\ k >= 1 /\ k <= Len(s)
    OBVIOUS
  <1>2. From(s, k) = SubSeq(s, k, Len(s))
    BY DEF From
  <1>3. /\ SubSeq(s, k, Len(s)) \in Seq(Int)
        /\ Len(SubSeq(s, k, Len(s))) = Len(s) - k + 1
        /\ \A j \in 1 .. Len(s) - k + 1 : SubSeq(s, k, Len(s))[j] = s[k + j - 1]
    BY <1>1
  <1> QED BY <1>2, <1>3

\* Characters are numbers.
LEMMA WiderSeq ==
  ASSUME NEW T \in SUBSET Int, NEW s \in Seq(T)
  PROVE  s \in Seq(Int)
  <1>1. Len(s) \in Nat /\ s \in [1 .. Len(s) -> T]
    OBVIOUS
  <1>2. s \in [1 .. Len(s) -> Int]
    BY <1>1
  <1> QED BY <1>1, <1>2

LEMMA NameIs ==
  ASSUME NEW s \in Name
  PROVE  /\ s \in Seq(Int)
         /\ \A j \in 1 .. Len(s) : s[j] \notin Stops /\ s[j] \notin Separators \cup {Star, Colon, 0}
  <1>1. s \in Seq((-128 .. 127) \ ({0, Star, Colon} \cup Separators))
    BY DEF Name
  <1>2. \A j \in 1 .. Len(s) : s[j] \in (-128 .. 127) \ ({0, Star, Colon} \cup Separators)
    BY <1>1
  <1>3. s \in Seq(Int)
    <2>1. (-128 .. 127) \ ({0, Star, Colon} \cup Separators) \in SUBSET Int
      OBVIOUS
    <2> QED BY <1>1, <2>1, WiderSeq, Zenon
  <1> QED BY <1>2, <1>3, Zenon DEF Stops, Separators

\* s lies in str at k.
Lies(s, str, k) ==
  /\ s \in Seq(Int) /\ k \in 1 .. Len(str) + 1 /\ k + Len(s) <= Len(str) + 1
  /\ \A j \in 1 .. Len(s) : str[k + j - 1] = s[j]

\* What is compared at a place of a pattern is a name there, up to a stop.
LEMMA PlaceIs ==
  ASSUME NEW part, NEW str, NEW k, Lies(part, str, k), part \in Name, part # <<>>,
         str \in Seq(Int), NEW e, e = k + Len(part), e <= Len(str) => str[e] \in Stops,
         NEW long \in Seq(Int)
  PROVE  IsStringInBiggerString(long, From(str, k))
           = IF FoundIn(long, part) THEN IF e <= Len(str) /\ str[e] = Colon THEN 2 ELSE 1
             ELSE 0
  <1>1. part \in Seq(Int) /\ \A j \in 1 .. Len(part) : part[j] \notin Stops
    BY NameIs
  <1>2. Len(part) \in Nat /\ Len(part) >= 1 /\ Len(str) \in Nat
    BY <1>1
  <1>3. k \in 1 .. Len(str) /\ e <= Len(str) + 1
    BY <1>2 DEF Lies
  <1>4. \A j \in 1 .. Len(part) : part[j] \notin Stops /\ str[k + j - 1] = part[j]
    BY <1>1 DEF Lies
  <1> DEFINE s == From(str, k)
             m == Len(part)
             n == Len(str) - k + 1
  <1>5. Len(str) \in Nat /\ m \in Nat /\ m >= 1 /\ k \in Nat /\ k >= 1 /\ k <= Len(str)
    BY <1>2, <1>3
  <1>6. s \in Seq(Int) /\ Len(s) = n /\ \A j \in 1 .. n : s[j] = str[k + j - 1]
    BY <1>3, FromIs
  <1> HIDE DEF s, m
  <1>7. m \in 1 .. Len(s) /\ n \in Nat
    BY <1>3, <1>5, <1>6 DEF m
  <1>8. \A j \in 1 .. m : s[j] = part[j] /\ s[j] \notin Stops
    <2> SUFFICES ASSUME NEW j \in 1 .. m PROVE s[j] = part[j] /\ s[j] \notin Stops
      OBVIOUS
    <2>1. j \in 1 .. Len(part) /\ j \in 1 .. n
      BY <1>5, <1>6, <1>7 DEF m
    <2> QED BY <1>4, <1>6, <2>1
  <1>9. s[1] # Star /\ \A j \in 2 .. m : s[j] \notin Stops
    <2>1. 1 \in 1 .. m /\ \A j \in 2 .. m : j \in 1 .. m
      BY <1>5
    <2> QED BY <1>8, <2>1 DEF Stops
  <1>10. /\ m < Len(s) <=> e <= Len(str)
         /\ m < Len(s) => s[m + 1] = str[e]
    <2>1. m < n <=> e <= Len(str)
      BY <1>3, <1>5 DEF m
    <2>2. m < n => m + 1 \in 1 .. n /\ k + (m + 1) - 1 = e
      BY <1>3, <1>5 DEF m
    <2> QED BY <1>6, <2>1, <2>2
  <1>11. IsStringInBiggerString(long, s)
          = IF FoundIn(long, part) THEN IF m < Len(s) /\ s[m + 1] = Colon THEN 2 ELSE 1 ELSE 0
    <2>1. Len(part) = m /\ \A j \in 1 .. m : part[j] = s[j]
      BY <1>1, <1>8 DEF m
    <2>2. m < Len(s) => s[m + 1] \in Stops
      BY <1>10
    <2>3. part \in Seq(Int) /\ s \in Seq(Int)
      BY <1>1, <1>6
    <2> QED BY <1>7, <1>9, <2>1, <2>2, <2>3, BiggerIs, Zenon
  <1>12. From(str, k) = s
    BY DEF s
  <1>13. m < Len(s) /\ s[m + 1] = Colon <=> e <= Len(str) /\ str[e] = Colon
    BY <1>10
  <1> QED BY <1>11, <1>12, <1>13, Zenon

\* The least and the greatest.
LEMMA LeastIs ==
  ASSUME NEW S \in SUBSET Int, NEW m \in S, \A k \in S : m <= k
  PROVE  Min(S) = m
  <1>1. \A n \in S : (\A k \in S : n <= k) => n = m
    BY SMT
  <1> QED BY <1>1, Zenon DEF Min

\* How one part of a pattern is taken from the text: it lies from k to after,
\* and the next one begins at next.
Scan(str, start, k, after, next) ==
  /\ str \in Seq(Int) /\ start \in 1 .. Len(str) /\ k \in 1 .. Len(str)
  /\ k = IF str[start] \in Quotes THEN start + 1 ELSE start
  /\ after \in k + 1 .. Len(str) + 1 /\ next \in after .. Len(str) + 1
  /\ \A j \in k + 1 .. after - 1 : str[j] \notin Separators
  /\ after <= Len(str) => str[after] \in Separators
  /\ \A j \in after .. next - 1 : str[j] \in Separators
  /\ next <= Len(str) => str[next] \notin Separators \cup {Colon}

Colons(str, k, after) == {j \in k + 1 .. after - 1 : str[j] = Colon /\ j < Len(str)}

Hits(str, k, after, file, name) ==
  LET f == IsStringInBiggerString(file, From(str, k))
  IN  \/ f = 1
      \/ /\ f = 2 /\ Colons(str, k, after) # {}
         /\ IsStringInBiggerString(name, From(str, Max(Colons(str, k, after)) + 1)) # 0
      \/ IsStringInBiggerString(name, From(str, k)) = 1

LEMMA ScanIs ==
  ASSUME NEW str, NEW start, NEW k, NEW after, NEW next, Scan(str, start, k, after, next),
         NEW file, NEW name
  PROVE  /\ Pattern(str, start, file, name).next = next
         /\ Pattern(str, start, file, name).found = Hits(str, k, after, file, name)
  <1>7. /\ str \in Seq(Int) /\ start \in 1 .. Len(str) /\ k \in 1 .. Len(str)
        /\ k = IF str[start] \in Quotes THEN start + 1 ELSE start
        /\ after \in k + 1 .. Len(str) + 1 /\ next \in after .. Len(str) + 1
        /\ \A j \in k + 1 .. after - 1 : str[j] \notin Separators
        /\ after <= Len(str) => str[after] \in Separators
        /\ \A j \in after .. next - 1 : str[j] \in Separators
        /\ next <= Len(str) => str[next] \notin Separators \cup {Colon}
    BY DEF Scan
  <1> DEFINE n == Len(str)
             ends == {j \in k + 1 .. n : str[j] \in {Comma} \cup Quotes}
             rest == {j \in after .. n : str[j] \notin {Comma, Colon} \cup Quotes}
  <1>1. n \in Nat /\ k \in Nat /\ after \in Nat /\ next \in Nat /\ k + 1 <= after
        /\ after <= next /\ next <= n + 1
    BY <1>7
  <1>2. Min(ends \cup {n + 1}) = after
    <2> DEFINE S == ends \cup {n + 1}
    <2>1. after \in S
      BY <1>1, <1>7 DEF Separators
    <2>2. ASSUME NEW j \in S PROVE after <= j
      <3> SUFFICES ASSUME j < after PROVE FALSE
        BY <1>1
      <3>1. j \in k + 1 .. after - 1
        BY <1>1
      <3>2. j \in ends
        BY <1>1
      <3> QED BY <1>7, <3>1, <3>2 DEF Separators
    <2>3. S \in SUBSET Int
      BY <1>1
    <2> HIDE DEF S
    <2>4. Min(S) = after
      BY <2>1, <2>2, <2>3, LeastIs
    <2> QED BY <2>4 DEF S
  <1>3. Min(rest \cup {n + 1}) = next
    <2> DEFINE S == rest \cup {n + 1}
    <2>1. next \in S
      <3>1. next \in after .. n \/ next = n + 1
        BY <1>1
      <3>2. next <= n => str[next] \notin {Comma, Colon} \cup Quotes
        BY <1>7 DEF Separators
      <3> QED BY <1>1, <3>1, <3>2
    <2>2. ASSUME NEW j \in S PROVE next <= j
      <3> SUFFICES ASSUME j < next PROVE FALSE
        BY <1>1
      <3>1. j \in after .. next - 1
        BY <1>1
      <3>2. j \in rest
        BY <1>1
      <3> QED BY <1>7, <3>1, <3>2 DEF Separators
    <2>3. S \in SUBSET Int
      BY <1>1
    <2> HIDE DEF S
    <2>4. Min(S) = next
      BY <2>1, <2>2, <2>3, LeastIs
    <2> QED BY <2>4 DEF S
  <1> DEFINE found == Hits(str, k, after, file, name)
  <1>4. Pattern(str, start, file, name) = [next |-> next, found |-> found]
    BY <1>2, <1>3, <1>7, Zenon DEF Pattern, Hits, Colons
  <1> HIDE DEF found
  <1>5. Pattern(str, start, file, name).next = next /\ Pattern(str, start, file, name).found = found
    BY <1>4
  <1> QED BY <1>5 DEF found

LEMMA LiesIs ==
  ASSUME NEW str \in Seq(Int), NEW s \in Seq(Int), NEW k \in 1 .. Len(str),
         k + Len(s) <= Len(str) + 1, SubSeq(str, k, k + Len(s) - 1) = s
  PROVE  Lies(s, str, k)
  <1> DEFINE q == k + Len(s) - 1
  <1>1. k \in Nat /\ k >= 1 /\ q \in Int /\ q <= Len(str) /\ q - k + 1 = Len(s) /\ Len(s) \in Nat
        /\ Len(str) \in Nat
    OBVIOUS
  <1>2. \A j \in 1 .. Len(s) : s[j] = str[k + j - 1]
    <2> HIDE DEF q
    <2>1. \A j \in 1 .. q - k + 1 : SubSeq(str, k, q)[j] = str[k + j - 1]
      BY <1>1
    <2> QED BY <1>1, <2>1 DEF q
  <1>3. k \in 1 .. Len(str) + 1
    BY <1>1
  <1> QED BY <1>2, <1>3, SMTT(40) DEF Lies

\* The same of two names with a character between them.
JoinLies(f, c, n, str, k) ==
  /\ Lies(f, str, k) /\ str[k + Len(f)] = c /\ Lies(n, str, k + Len(f) + 1)

Joined(f, c, n, w) == w = f \o <<c>> \o n

LEMMA LiesJoin ==
  ASSUME NEW head, NEW mid, NEW tail, NEW w, Joined(head, mid, tail, w),
         NEW str, NEW k, Lies(w, str, k),
         str \in Seq(Int), head \in Seq(Int), mid \in Int, tail \in Seq(Int)
  PROVE  JoinLies(head, mid, tail, str, k) /\ Len(w) = Len(head) + 1 + Len(tail)
  <1> DEFINE a == Len(head)
             b == Len(tail)
  <1>1. a \in Nat /\ b \in Nat /\ Len(str) \in Nat
    OBVIOUS
  <1>2. /\ w \in Seq(Int) /\ Len(w) = a + 1 + b /\ \A j \in 1 .. a : w[j] = head[j]
        /\ w[a + 1] = mid /\ \A j \in 1 .. b : w[(a + 1) + j] = tail[j]
    <2> DEFINE v == head \o <<mid>>
    <2>1. /\ v \in Seq(Int) /\ Len(v) = a + 1 /\ \A j \in 1 .. a : v[j] = head[j]
          /\ v[a + 1] = mid
      OBVIOUS
    <2> HIDE DEF v, a, b
    <2>2. /\ v \o tail \in Seq(Int) /\ Len(v \o tail) = Len(v) + b
          /\ \A j \in 1 .. Len(v) : (v \o tail)[j] = v[j]
          /\ \A j \in 1 .. b : (v \o tail)[Len(v) + j] = tail[j]
      <3>1. v \o tail \in Seq(Int) /\ Len(v \o tail) = Len(v) + Len(tail)
        BY <2>1, ConcatProperties, Zenon
      <3>2. \A j \in 1 .. Len(v) + Len(tail) :
              (v \o tail)[j] = IF j <= Len(v) THEN v[j] ELSE tail[j - Len(v)]
        BY <2>1, ConcatProperties, Zenon
      <3>3. Len(v) \in Nat /\ Len(tail) \in Nat /\ b = Len(tail)
        BY <2>1 DEF b
      <3>4. ASSUME NEW j \in 1 .. Len(v) PROVE (v \o tail)[j] = v[j]
        <4>1. j \in 1 .. Len(v) + Len(tail) /\ j <= Len(v)
          BY <3>3
        <4> QED BY <3>2, <4>1, Zenon
      <3>5. ASSUME NEW j \in 1 .. b PROVE (v \o tail)[Len(v) + j] = tail[j]
        <4>1. /\ Len(v) + j \in 1 .. Len(v) + Len(tail) /\ ~(Len(v) + j <= Len(v))
              /\ (Len(v) + j) - Len(v) = j
          BY <3>3
        <4> QED BY <3>2, <4>1, Zenon
      <3> QED BY <3>1, <3>3, <3>4, <3>5
    <2>3. 1 .. a \subseteq 1 .. Len(v) /\ a + 1 \in 1 .. Len(v)
      BY <1>1, <2>1
    <2> QED BY <1>1, <2>1, <2>2, <2>3 DEF v, Joined
  <1> HIDE DEF a, b
  <1>3. /\ k \in 1 .. Len(str) + 1 /\ k + (a + 1 + b) <= Len(str) + 1
        /\ \A j \in 1 .. a + 1 + b : str[k + j - 1] = w[j]
    BY <1>2 DEF Lies
  <1>4. Lies(head, str, k)
    <2>1. k + a <= Len(str) + 1
      BY <1>1, <1>3
    <2>2. \A j \in 1 .. a : j \in 1 .. a + 1 + b
      BY <1>1
    <2> QED BY <1>2, <1>3, <2>1, <2>2 DEF Lies, a
  <1>5. str[k + a] = mid
    <2>1. a + 1 \in 1 .. a + 1 + b /\ k + (a + 1) - 1 = k + a
      BY <1>1, <1>3
    <2> QED BY <1>2, <1>3, <2>1
  <1>6. Lies(tail, str, k + a + 1)
    <2>1. k + a + 1 \in 1 .. Len(str) + 1 /\ (k + a + 1) + b <= Len(str) + 1
      BY <1>1, <1>3
    <2>2. ASSUME NEW j \in 1 .. b PROVE str[(k + a + 1) + j - 1] = tail[j]
      <3>1. (a + 1) + j \in 1 .. a + 1 + b /\ k + ((a + 1) + j) - 1 = (k + a + 1) + j - 1
        BY <1>1, <1>3
      <3> QED BY <1>2, <1>3, <3>1
    <2> QED BY <2>1, <2>2 DEF Lies, b
  <1> QED BY <1>2, <1>4, <1>5, <1>6 DEF a, b, JoinLies

\* A part is spelled without separators, and has no colon to begin with.
LEMMA SpellIs ==
  ASSUME NEW part \in [file : Name, name : Name], part.name = <<>> => part.file = <<>>
  PROVE  /\ Spell(part) \in Seq(Int) /\ Len(Spell(part)) >= 1
         /\ \A j \in 1 .. Len(Spell(part)) : Spell(part)[j] \notin Separators
         /\ Spell(part)[1] \notin Separators \cup {Colon, 0}
  <1> DEFINE f == part.file
             n == part.name
  <1>1. f \in Name /\ n \in Name
    OBVIOUS
  <1> HIDE DEF f, n
  <1>2. /\ f \in Seq(Int) /\ n \in Seq(Int)
        /\ \A j \in 1 .. Len(f) : f[j] \notin Separators \cup {Star, Colon, 0}
        /\ \A j \in 1 .. Len(n) : n[j] \notin Separators \cup {Star, Colon, 0}
    BY <1>1, NameIs
  <1>3. /\ Star \notin Separators \cup {Colon, 0} /\ Star \in Int
        /\ Colon \notin Separators /\ Colon \in Int
    BY DEF Star, Colon, Separators, Comma, Quotes
  <1>4. CASE n = <<>>
    <2>1. Spell(part) = <<Star>>
      BY <1>4 DEF Spell, n
    <2>2. <<Star>> \in Seq(Int) /\ Len(<<Star>>) = 1 /\ <<Star>>[1] = Star
      BY <1>3
    <2> QED BY <1>3, <2>1, <2>2
  <1>5. CASE n # <<>> /\ f = <<>>
    <2>1. Spell(part) = n
      BY <1>5 DEF Spell, n, f
    <2>2. Len(n) >= 1 /\ 1 \in 1 .. Len(n)
      BY <1>2, <1>5
    <2> QED BY <1>2, <2>1, <2>2
  <1>6. CASE n # <<>> /\ f # <<>>
    <2> DEFINE w == f \o <<Colon>> \o n
    <2>1. Spell(part) = w
      BY <1>6 DEF Spell, n, f
    <2>2. Len(f) \in Nat /\ Len(f) >= 1 /\ Len(n) \in Nat /\ Len(n) >= 1
      BY <1>2, <1>6
    <2>3. w \in Seq(Int)
      BY <1>2, <1>3
    <2> HIDE DEF w
    <2>4. Lies(w, w, 1)
      BY <2>3 DEF Lies
    <2>5. /\ Lies(f, w, 1) /\ w[1 + Len(f)] = Colon /\ Lies(n, w, 1 + Len(f) + 1)
          /\ Len(w) = Len(f) + 1 + Len(n)
      <3>1. Joined(f, Colon, n, w)
        BY DEF w, Joined
      <3>2. f \in Seq(Int) /\ n \in Seq(Int) /\ Colon \in Int /\ 1 \in Int
        BY <1>2, <1>3
      <3>3. JoinLies(f, Colon, n, w, 1) /\ Len(w) = Len(f) + 1 + Len(n)
        BY <2>3, <2>4, <3>1, <3>2, LiesJoin, Zenon
      <3> QED BY <3>3 DEF JoinLies
    <2>6. ASSUME NEW j \in 1 .. Len(w) PROVE w[j] \notin Separators
      <3>1. CASE j <= Len(f)
        <4>1. j \in 1 .. Len(f) /\ 1 + j - 1 = j
          BY <2>2, <3>1
        <4>2. w[1 + j - 1] = f[j]
          BY <2>5, <4>1 DEF Lies
        <4> QED BY <1>2, <4>1, <4>2
      <3>2. CASE j = 1 + Len(f)
        BY <1>3, <2>5, <3>2
      <3>3. CASE j > 1 + Len(f)
        <4> DEFINE i == j - Len(f) - 1
        <4>1. i \in 1 .. Len(n) /\ (1 + Len(f) + 1) + i - 1 = j
          BY <2>2, <2>5, <3>3
        <4> HIDE DEF i
        <4>2. w[(1 + Len(f) + 1) + i - 1] = n[i]
          BY <2>5, <4>1 DEF Lies
        <4> QED BY <1>2, <4>1, <4>2
      <3> QED BY <2>2, <3>1, <3>2, <3>3
    <2>7. w[1] \notin Separators \cup {Colon, 0}
      <3>1. 1 \in 1 .. Len(f) /\ 1 + 1 - 1 = 1
        BY <2>2
      <3>2. w[1 + 1 - 1] = f[1]
        BY <2>5, <3>1 DEF Lies
      <3> QED BY <1>2, <3>1, <3>2
    <2>8. Len(w) >= 1
      BY <2>2, <2>5
    <2> QED BY <2>1, <2>3, <2>6, <2>7, <2>8
  <1> QED BY <1>4, <1>5, <1>6

\* What a part of a pattern selects.
Picks(part, file, name) ==
  IF part.file = <<>> THEN FoundIn(file, part.name) \/ FoundIn(name, part.name)
  ELSE FoundIn(file, part.file) /\ FoundIn(name, part.name)

LEMMA NothingIsFound ==
  ASSUME NEW long \in Seq(Int)
  PROVE  FoundIn(long, <<>>)
  <1>1. Len(long) \in Nat /\ Len(<<>>) = 0
    OBVIOUS
  <1>2. SubSeq(long, 1, 0) = <<>>
    OBVIOUS
  <1>3. 0 \in 0 .. Len(long) - Len(<<>>) /\ 0 + 1 = 1 /\ 0 + Len(<<>>) = 0
    BY <1>1
  <1> QED BY <1>2, <1>3 DEF FoundIn

LEMMA GreatestIs ==
  ASSUME NEW m \in Int
  PROVE  Max({m}) = m
  <1>1. m >= m
    OBVIOUS
  <1> QED BY <1>1, Zenon DEF Max

\* A part of a pattern that lies in the text from k to e, perhaps with an
\* asterisk behind it; the next one begins at next.
WordAt(str, start, k, part, e, after, next) ==
  /\ str \in Seq(Int) /\ start \in 1 .. Len(str) /\ k \in 1 .. Len(str)
  /\ k = IF str[start] \in Quotes THEN start + 1 ELSE start
  /\ part \in [file : Name, name : Name]
  /\ part.name = <<>> => part.file = <<>>
  /\ Lies(Spell(part), str, k) /\ e = k + Len(Spell(part))
  /\ after = IF e <= Len(str) /\ str[e] = Star THEN e + 1 ELSE e
  /\ next \in after .. Len(str) + 1
  /\ after <= Len(str) => str[after] \in Separators
  /\ \A j \in after .. next - 1 : str[j] \in Separators
  /\ next <= Len(str) => str[next] \notin Separators \cup {Colon}

LEMMA WordScans ==
  ASSUME NEW str, NEW start, NEW k, NEW part, NEW e, NEW after, NEW next,
         WordAt(str, start, k, part, e, after, next)
  PROVE  /\ Scan(str, start, k, after, next) /\ after \in Nat /\ e \in Nat /\ e > k
         /\ e <= after /\ e <= Len(str) + 1
         /\ e <= Len(str) => str[e] \in Stops /\ str[e] # Colon
         /\ \A j \in e .. after - 1 : str[j] = Star
  <1> DEFINE w == Spell(part)
             l == Len(str)
             star == e <= l /\ str[e] = Star
  <1>1. /\ w \in Seq(Int) /\ Len(w) >= 1 /\ \A j \in 1 .. Len(w) : w[j] \notin Separators
    <2>2. /\ part \in [file : Name, name : Name]
          /\ part.name = <<>> => part.file = <<>>
      BY DEF WordAt
    <2> QED BY <2>2, SpellIs
  <1>2. /\ l \in Nat /\ Len(w) \in Nat /\ k \in Nat /\ k >= 1 /\ k <= l /\ e \in Nat
        /\ e = k + Len(w) /\ e <= l + 1 /\ \A j \in 1 .. Len(w) : str[k + j - 1] = w[j]
    <2>1. l \in Nat /\ Len(w) \in Nat
      BY <1>1 DEF WordAt
    <2>2. /\ k \in 1 .. l /\ Lies(w, str, k) /\ e = k + Len(w)
      BY DEF WordAt
    <2> QED BY <2>1, <2>2 DEF Lies
  <1>3. after = IF star THEN e + 1 ELSE e
    BY DEF WordAt
  <1>4. e <= l => str[e] \in Stops /\ str[e] # Colon
    <2>1. CASE star
      BY <2>1 DEF Stops, Star, Colon
    <2>2. CASE ~star /\ e <= l
      <3>1. str[e] \in Separators
        <4>1. after = e
          BY <1>3, <2>2
        <4> QED BY <2>2, <4>1 DEF WordAt
      <3> QED BY <3>1 DEF Stops, Colon, Separators, Comma, Quotes
    <2> QED BY <2>1, <2>2
  <1>5. star => e <= l /\ str[e] = Star
    OBVIOUS
  <1> HIDE DEF w, l, star
  <1>6. after \in Nat /\ e <= after /\ after <= l + 1 /\ after \in k + 1 .. l + 1
    BY <1>1, <1>2, <1>3, <1>5
  <1>7. \A j \in e .. after - 1 : str[j] = Star
    <2>1. \A j \in e .. after - 1 : j = e /\ star
      BY <1>2, <1>3
    <2> QED BY <1>5, <2>1
  <1>8. ASSUME NEW j \in k + 1 .. after - 1 PROVE str[j] \notin Separators
    <2>1. CASE j < e
      <3> DEFINE i == j - k + 1
      <3>1. i \in 1 .. Len(w) /\ k + i - 1 = j
        BY <1>2, <2>1
      <3> HIDE DEF i
      <3>2. str[j] = w[i]
        BY <1>2, <3>1
      <3> QED BY <1>1, <3>1, <3>2
    <2>2. CASE j >= e
      <3>1. j \in e .. after - 1
        BY <1>2, <1>6, <2>2
      <3>2. Star \notin Separators
        BY DEF Separators, Star, Comma, Quotes
      <3> QED BY <1>7, <3>1, <3>2
    <2> QED BY <1>2, <2>1, <2>2
  <1>9. Scan(str, start, k, after, next)
    <2>1. after \in k + 1 .. Len(str) + 1
      BY <1>6 DEF l
    <2> QED BY <1>8, <2>1 DEF Scan, WordAt
  <1>10. e > k /\ e <= Len(str) + 1
    BY <1>1, <1>2 DEF l
  <1> QED BY <1>2, <1>4, <1>6, <1>7, <1>9, <1>10 DEF l

\* A part of a pattern selects what it says.
LEMMA WordIs ==
  ASSUME NEW str, NEW start, NEW k, NEW part, NEW e, NEW after, NEW next,
         WordAt(str, start, k, part, e, after, next),
         NEW file \in Seq(Int), NEW name \in Seq(Int)
  PROVE  /\ Pattern(str, start, file, name).next = next
         /\ Pattern(str, start, file, name).found <=> Picks(part, file, name)
  <1>1. /\ Scan(str, start, k, after, next) /\ after \in Nat /\ e \in Nat /\ e > k
        /\ e <= after /\ e <= Len(str) + 1
        /\ e <= Len(str) => str[e] \in Stops /\ str[e] # Colon
        /\ \A j \in e .. after - 1 : str[j] = Star
    BY WordScans
  <1>2. /\ Pattern(str, start, file, name).next = next
        /\ Pattern(str, start, file, name).found = Hits(str, k, after, file, name)
    <2>1. Scan(str, start, k, after, next)
      BY <1>1
    <2> QED BY <2>1, ScanIs
  <1> DEFINE f == IsStringInBiggerString(file, From(str, k))
             n == IsStringInBiggerString(name, From(str, k))
             colon == Colons(str, k, after)
             second == IsStringInBiggerString(name, From(str, Max(colon) + 1))
             hits == f = 1 \/ (f = 2 /\ colon # {} /\ second # 0) \/ n = 1
             a == part.file
             b == part.name
  <1>3. Hits(str, k, after, file, name) <=> hits
    BY Zenon DEF Hits
  <1>4. /\ str \in Seq(Int) /\ k \in 1 .. Len(str) /\ e = k + Len(Spell(part))
        /\ Lies(Spell(part), str, k) /\ a \in Name /\ b \in Name
        /\ b = <<>> => a = <<>>
    BY DEF WordAt
  <1> HIDE DEF f, n, second, colon, a, b
  <1>5. CASE b = <<>>
    <2>1. a = <<>> /\ Picks(part, file, name)
      BY <1>4, <1>5, NothingIsFound DEF Picks, a, b
    <2>2. Lies(<<Star>>, str, k)
      BY <1>4, <1>5 DEF Spell, b
    <2>3. str[k] = Star
      <3>1. 1 \in 1 .. Len(<<Star>>) /\ <<Star>>[1] = Star /\ k + 1 - 1 = k
        BY <1>4
      <3> QED BY <2>2, <3>1 DEF Lies
    <2>4. From(str, k) # <<>> /\ From(str, k)[1] = Star
      <3>1. /\ From(str, k) \in Seq(Int) /\ Len(From(str, k)) = Len(str) - k + 1
            /\ \A j \in 1 .. Len(str) - k + 1 : From(str, k)[j] = str[k + j - 1]
        BY <1>4, FromIs
      <3>2. 1 \in 1 .. Len(str) - k + 1 /\ k + 1 - 1 = k /\ Len(str) - k + 1 # 0
        BY <1>4
      <3> HIDE DEF From
      <3> QED BY <2>3, <3>1, <3>2
    <2>5. f = 1
      BY <2>4, Zenon DEF f, IsStringInBiggerString
    <2> QED BY <1>2, <1>3, <2>1, <2>5
  <1>6. CASE b # <<>> /\ a = <<>>
    <2>1. Picks(part, file, name) <=> FoundIn(file, b) \/ FoundIn(name, b)
      BY <1>6 DEF Picks, a, b
    <2>2. Lies(b, str, k) /\ e = k + Len(b)
      BY <1>4, <1>6 DEF Spell, a, b
    <2>3. ~(e <= Len(str) /\ str[e] = Colon) /\ (e <= Len(str) => str[e] \in Stops)
      BY <1>1
    <2>4. f = IF FoundIn(file, b) THEN 1 ELSE 0
      BY <1>4, <1>6, <2>2, <2>3, PlaceIs, Zenon DEF f
    <2>5. n = IF FoundIn(name, b) THEN 1 ELSE 0
      BY <1>4, <1>6, <2>2, <2>3, PlaceIs, Zenon DEF n
    <2> QED BY <1>2, <1>3, <2>1, <2>4, <2>5
  <1>7. CASE b # <<>> /\ a # <<>>
    <2> DEFINE p == k + Len(a)
    <2>1. Picks(part, file, name) <=> FoundIn(file, a) /\ FoundIn(name, b)
      BY <1>7 DEF Picks, a, b
    <2>2. Joined(a, Colon, b, Spell(part))
      BY <1>7 DEF Spell, a, b, Joined
    <2>3. JoinLies(a, Colon, b, str, k) /\ Len(Spell(part)) = Len(a) + 1 + Len(b)
      <3>1. a \in Seq(Int) /\ b \in Seq(Int) /\ Colon \in Int
        BY <1>4, NameIs DEF Colon
      <3>2. str \in Seq(Int) /\ Lies(Spell(part), str, k)
        BY <1>4
      <3> QED BY <2>2, <3>1, <3>2, LiesJoin
    <2>4. /\ Lies(a, str, k) /\ str[p] = Colon /\ Lies(b, str, p + 1)
          /\ Len(a) \in Nat /\ Len(b) \in Nat /\ Len(a) >= 1 /\ Len(b) >= 1
          /\ e = (p + 1) + Len(b) /\ p \in Nat /\ k \in Nat /\ Len(str) \in Nat
      <3>1. a \in Seq(Int) /\ b \in Seq(Int)
        BY <1>4, NameIs
      <3>2. Len(a) \in Nat /\ Len(b) \in Nat /\ Len(a) >= 1 /\ Len(b) >= 1
        BY <1>7, <3>1
      <3>3. k \in Nat /\ Len(str) \in Nat
        BY <1>4
      <3> QED BY <1>4, <2>3, <3>2, <3>3 DEF JoinLies
    <2>5. Colon \in Stops
      BY DEF Stops
    <2> HIDE DEF p
    <2>6. p <= Len(str) /\ p + 1 \in Nat
      BY <1>1, <2>4
    <2>7. f = IF FoundIn(file, a) THEN 2 ELSE 0
      <3>1. p = k + Len(a)
        BY DEF p
      <3> QED BY <1>4, <1>7, <2>4, <2>5, <2>6, <3>1, PlaceIs, Zenon DEF f
    <2>8. n # 1
      <3>1. p = k + Len(a)
        BY DEF p
      <3>2. n = IF FoundIn(name, a) THEN 2 ELSE 0
        BY <1>4, <1>7, <2>4, <2>5, <2>6, <3>1, PlaceIs, Zenon DEF n
      <3> QED BY <3>2
    <2>9. colon = {p}
      <3>1. k + 1 <= p /\ p <= after - 1 /\ p < Len(str) /\ p + 1 <= Len(str)
        BY <1>1, <2>4 DEF p
      <3>2. p \in colon
        BY <1>1, <2>4, <3>1 DEF colon, Colons
      <3>3. ASSUME NEW j \in colon PROVE j = p
        <4>1. j \in Int /\ k + 1 <= j /\ j <= after - 1 /\ str[j] = Colon
          BY <1>1, <2>4 DEF colon, Colons
        <4>2. CASE j < p
          <5> DEFINE i == j - k + 1
          <5>1. i \in 1 .. Len(a) /\ k + i - 1 = j
            BY <2>4, <4>1, <4>2 DEF p
          <5> HIDE DEF i
          <5>2. str[j] = a[i]
            BY <2>4, <5>1 DEF Lies
          <5>3. a[i] # Colon
            BY <1>4, <5>1, NameIs
          <5> QED BY <4>1, <5>2, <5>3
        <4>3. CASE p < j /\ j < e
          <5> DEFINE i == j - p
          <5>1. i \in 1 .. Len(b) /\ (p + 1) + i - 1 = j
            BY <2>4, <4>1, <4>3
          <5> HIDE DEF i
          <5>2. str[j] = b[i]
            BY <2>4, <5>1 DEF Lies
          <5>3. b[i] # Colon
            BY <1>4, <5>1, NameIs
          <5> QED BY <4>1, <5>2, <5>3
        <4>4. CASE j >= e
          <5>1. j \in e .. after - 1
            BY <1>1, <4>1, <4>4
          <5>2. str[j] = Star
            BY <1>1, <5>1
          <5> QED BY <4>1, <5>2 DEF Star, Colon
        <4> QED BY <1>1, <2>4, <4>1, <4>2, <4>3, <4>4
      <3> QED BY <3>2, <3>3
    <2>10. second = IF FoundIn(name, b) THEN 1 ELSE 0
      <3>1. Max(colon) = p
        BY <2>4, <2>9, GreatestIs
      <3>2. ~(e <= Len(str) /\ str[e] = Colon) /\ (e <= Len(str) => str[e] \in Stops)
        BY <1>1
      <3>3. IsStringInBiggerString(name, From(str, p + 1)) = IF FoundIn(name, b) THEN 1 ELSE 0
        BY <1>4, <1>7, <2>4, <3>2, PlaceIs, Zenon
      <3> QED BY <3>1, <3>3 DEF second
    <2> QED BY <1>2, <1>3, <2>1, <2>7, <2>8, <2>9, <2>10
  <1> QED BY <1>5, <1>6, <1>7

LEMMA MinIs ==
  ASSUME NEW S \in SUBSET Nat, S # {}
  PROVE  Min(S) \in S /\ \A k \in S : Min(S) <= k
  <1>1. PICK m \in S : \A k \in S : ~(<<k, m>> \in OpToRel(<, Nat))
    BY NatLessThanWellFounded, WFMin
  <1>2. \A k \in S : m <= k
    <2> SUFFICES ASSUME NEW k \in S, ~(m <= k) PROVE FALSE
      OBVIOUS
    <2>1. m \in Nat /\ k \in Nat /\ k < m
      OBVIOUS
    <2>2. <<k, m>> \in OpToRel(<, Nat)
      BY <2>1 DEF OpToRel
    <2> QED BY <1>1, <2>2
  <1>3. Min(S) = m
    BY <1>2, LeastIs
  <1> QED BY <1>2, <1>3

\* A pattern is read forwards.
LEMMA NextIs ==
  ASSUME NEW str \in Seq(Int), NEW start \in 1 .. Len(str), NEW file, NEW name
  PROVE  /\ Pattern(str, start, file, name).next \in start + 1 .. Len(str) + 1
         /\ Pattern(str, start, file, name).found \in BOOLEAN
  <1> DEFINE n == Len(str)
             ptr1 == IF str[start] \in Quotes THEN start + 1 ELSE start
             ends == {k \in ptr1 + 1 .. n : str[k] \in {Comma} \cup Quotes} \cup {n + 1}
             ptr2 == Min(ends)
             rest == {k \in ptr2 .. n : str[k] \notin {Comma, Colon} \cup Quotes} \cup {n + 1}
  <1>1. n \in Nat /\ start \in Nat /\ start <= n
    OBVIOUS
  <1>2. ptr1 \in {start, start + 1}
    OBVIOUS
  <1> HIDE DEF ptr1
  <1>3. ptr1 \in Nat /\ start <= ptr1
    BY <1>1, <1>2
  <1>4. ptr2 \in start + 1 .. n + 1
    <2>1. \A k \in ends : k \in start + 1 .. n + 1
      BY <1>1, <1>3
    <2>2. ends \in SUBSET Nat /\ ends # {}
      BY <1>1, <1>3
    <2> HIDE DEF ends
    <2> QED BY <2>1, <2>2, MinIs, Zenon
  <1> HIDE DEF ptr2
  <1>5. Min(rest) \in start + 1 .. n + 1
    <2>1. \A k \in rest : k \in start + 1 .. n + 1
      BY <1>1, <1>4
    <2>2. rest \in SUBSET Nat /\ rest # {}
      BY <1>1, <1>4
    <2> HIDE DEF rest
    <2> QED BY <2>1, <2>2, MinIs, Zenon
  <1> DEFINE colon == {k \in ptr1 + 1 .. ptr2 - 1 : str[k] = Colon /\ k < n}
             f == IsStringInBiggerString(file, From(str, ptr1))
             found == \/ f = 1
                      \/ /\ f = 2 /\ colon # {}
                         /\ IsStringInBiggerString(name, From(str, Max(colon) + 1)) # 0
                      \/ IsStringInBiggerString(name, From(str, ptr1)) = 1
  <1>6. Pattern(str, start, file, name) = [next |-> Min(rest), found |-> found]
    BY Zenon DEF Pattern, ptr1, ptr2
  <1>7. found \in BOOLEAN
    BY Zenon
  <1> HIDE DEF found, rest
  <1> QED BY <1>5, <1>6, <1>7

\* f tells, from lo on, whether a pattern of the text is found.
Found(str, file, name, s) == Pattern(str, s, file, name).found
Behind(str, file, name, s) == Pattern(str, s, file, name).next

Matching(str, file, name, lo, f) ==
  /\ f \in [lo .. Len(str) + 1 -> BOOLEAN] /\ f[Len(str) + 1] = FALSE
  /\ \A s \in lo .. Len(str) :
       f[s] = (Found(str, file, name, s) \/ f[Behind(str, file, name, s)])

\* The loop over the text is a recursive function; there is one.
LEMMA MatchingExists ==
  ASSUME NEW str \in Seq(Int), NEW file, NEW name
  PROVE  \E f : Matching(str, file, name, 1, f)
  <1> DEFINE n == Len(str)
             There(lo) == \E f : Matching(str, file, name, lo, f)
             M == {d \in Nat : d <= n => There(n + 1 - d)}
  <1>0. n \in Nat
    OBVIOUS
  <1>1. 0 \in M
    <2> DEFINE f == [s \in n + 1 .. n + 1 |-> FALSE]
    <2>1. f \in [n + 1 .. n + 1 -> BOOLEAN] /\ f[n + 1] = FALSE
      BY <1>0
    <2> HIDE DEF f
    <2>2. \A s \in n + 1 .. n : FALSE
      BY <1>0
    <2>3. Matching(str, file, name, n + 1, f)
      BY <2>1, <2>2, Zenon DEF Matching
    <2>4. n + 1 - 0 = n + 1
      BY <1>0
    <2> QED BY <2>3, <2>4
  <1>2. ASSUME NEW d \in M PROVE d + 1 \in M
    <2>0. d \in Nat
      OBVIOUS
    <2>1. CASE ~(d + 1 <= n)
      BY <2>0, <2>1
    <2>2. CASE d + 1 <= n
      <3> DEFINE lo == n + 1 - (d + 1)
      <3>1. lo \in 1 .. n /\ lo + 1 = n + 1 - d /\ d <= n
        BY <1>0, <2>0, <2>2
      <3>2. There(lo + 1)
        BY <3>1
      <3> HIDE DEF M, lo
      <3>3. PICK f : Matching(str, file, name, lo + 1, f)
        BY <3>2
      <3> DEFINE v == Found(str, file, name, lo) \/ f[Behind(str, file, name, lo)]
                 g == [s \in lo .. n + 1 |-> IF s = lo THEN v ELSE f[s]]
      <3>4. f \in [lo + 1 .. n + 1 -> BOOLEAN] /\ f[n + 1] = FALSE
        BY <3>3 DEF Matching
      <3>5. v \in BOOLEAN
        BY Zenon
      <3> HIDE DEF v
      <3>6. g[lo] = v /\ \A s \in lo + 1 .. n + 1 : g[s] = f[s]
        <4>1. lo \in lo .. n + 1 /\ \A s \in lo + 1 .. n + 1 : s \in lo .. n + 1 /\ s # lo
          BY <1>0, <3>1
        <4> QED BY <4>1, Zenon
      <3>7. g \in [lo .. n + 1 -> BOOLEAN]
        <4>1. \A s \in lo .. n + 1 : s # lo => s \in lo + 1 .. n + 1
          BY <1>0, <3>1
        <4> QED BY <3>4, <3>5, <4>1, Zenon
      <3> HIDE DEF g
      <3>8. g[n + 1] = FALSE
        <4>1. n + 1 \in lo + 1 .. n + 1
          BY <1>0, <3>1
        <4> QED BY <3>4, <3>6, <4>1, Zenon
      <3>9. ASSUME NEW s \in lo .. n
            PROVE  g[s] = (Found(str, file, name, s) \/ g[Behind(str, file, name, s)])
        <4>1. Behind(str, file, name, s) \in s + 1 .. n + 1
          <5>1. s \in 1 .. Len(str)
            BY <1>0, <3>1
          <5> QED BY <5>1, NextIs DEF Behind
        <4>2. Behind(str, file, name, s) \in lo + 1 .. n + 1
          BY <1>0, <3>1, <4>1
        <4>3. g[Behind(str, file, name, s)] = f[Behind(str, file, name, s)]
          BY <3>6, <4>2, Zenon
        <4>4. CASE s = lo
          BY <3>6, <4>3, <4>4, Zenon DEF v
        <4>5. CASE s # lo
          <5>1. s \in lo + 1 .. n /\ s \in lo + 1 .. n + 1
            BY <1>0, <3>1, <4>5
          <5>2. f[s] = (Found(str, file, name, s) \/ f[Behind(str, file, name, s)])
            BY <3>3, <5>1, Zenon DEF Matching
          <5> QED BY <3>6, <4>3, <5>1, <5>2, Zenon
        <4> QED BY <4>4, <4>5
      <3>10. Matching(str, file, name, lo, g)
        BY <3>7, <3>8, <3>9, Zenon DEF Matching
      <3>11. There(lo)
        BY <3>10
      <3> QED BY <2>0, <3>11 DEF M, lo
    <2> QED BY <2>1, <2>2
  <1>3. M = Nat
    <2>1. M \in SUBSET Nat
      OBVIOUS
    <2> HIDE DEF M
    <2> QED BY <1>1, <1>2, <2>1, Induction
  <1>4. n \in M /\ n + 1 - n = 1 /\ n <= n
    BY <1>0, <1>3
  <1>5. There(1)
    BY <1>4
  <1> QED BY <1>5

LEMMA MatchesIs ==
  ASSUME NEW str \in Seq(Int), NEW file, NEW name
  PROVE  \E f : /\ Matching(str, file, name, 1, f)
                /\ UnityStringArgumentMatches(str, file, name) = f[1]
  <1> DEFINE n == Len(str)
             Step(f) == [s \in 1 .. n + 1 |->
                           IF s > n THEN FALSE
                           ELSE Found(str, file, name, s) \/ f[Behind(str, file, name, s)]]
             m == CHOOSE m : m = Step(m)
  <1>0. n \in Nat
    OBVIOUS
  <1>1. UnityStringArgumentMatches(str, file, name) = m[1]
    BY Zenon DEF UnityStringArgumentMatches, Found, Behind
  <1>2. PICK f : Matching(str, file, name, 1, f)
    BY MatchingExists
  <1>3. f = Step(f)
    <2>1. f = [s \in 1 .. n + 1 |-> f[s]]
      BY <1>2, Zenon DEF Matching
    <2>2. ASSUME NEW s \in 1 .. n + 1
          PROVE  f[s] = IF s > n THEN FALSE
                        ELSE Found(str, file, name, s) \/ f[Behind(str, file, name, s)]
      <3>1. CASE s > n
        <4>1. s = n + 1
          BY <1>0, <3>1
        <4> QED BY <1>2, <3>1, <4>1, Zenon DEF Matching
      <3>2. CASE ~(s > n)
        <4>1. s \in 1 .. n
          BY <1>0, <3>2
        <4> QED BY <1>2, <3>2, <4>1, Zenon DEF Matching
      <3> QED BY <3>1, <3>2
    <2> QED BY <2>1, <2>2, Zenon
  <1>4. m = Step(m)
    <2> HIDE DEF Step
    <2> QED BY <1>3
  <1> HIDE DEF m
  <1>5. \A s \in 1 .. n + 1 :
          m[s] = IF s > n THEN FALSE
                 ELSE Found(str, file, name, s) \/ m[Behind(str, file, name, s)]
    BY <1>4, Zenon
  <1>6. n + 1 \in 1 .. n + 1 /\ n + 1 > n /\ \A s \in 1 .. n : s \in 1 .. n + 1 /\ ~(s > n)
    BY <1>0
  <1>7. m \in [1 .. n + 1 -> BOOLEAN]
    <2>1. m = [s \in 1 .. n + 1 |-> IF s > n THEN FALSE
                           ELSE Found(str, file, name, s) \/ m[Behind(str, file, name, s)]]
      BY <1>4, Zenon
    <2>2. \A s \in 1 .. n + 1 : (IF s > n THEN FALSE
             ELSE Found(str, file, name, s) \/ m[Behind(str, file, name, s)]) \in BOOLEAN
      BY Zenon
    <2> QED BY <2>1, <2>2, Zenon
  <1>8. Matching(str, file, name, 1, m)
    BY <1>5, <1>6, <1>7, Zenon DEF Matching
  <1> QED BY <1>1, <1>8

\* What Reads says of its parts, one by one: where a part ends, with an asterisk
\* behind it, and where the next one begins.
EndOf(text, part, start, i) == start[i] + Len(Spell(part[i]))
AfterOf(text, part, start, i) ==
  IF EndOf(text, part, start, i) <= Len(text) /\ text[EndOf(text, part, start, i)] = Star
  THEN EndOf(text, part, start, i) + 1 ELSE EndOf(text, part, start, i)
NextOf(text, n, start, i) == IF i = n THEN Len(text) + 1 ELSE start[i + 1]

IsRead(text, n, part, start, i) ==
  LET end   == EndOf(text, part, start, i)
      after == AfterOf(text, part, start, i)
      next  == NextOf(text, n, start, i)
  IN  /\ end <= Len(text) + 1 /\ SubSeq(text, start[i], end - 1) = Spell(part[i])
      /\ after <= next /\ (i < n => after < next)
      /\ \A k \in after .. next - 1 : text[k] \in Separators

LEMMA ReadsIs ==
  ASSUME NEW text, NEW parts, Reads(text, parts)
  PROVE  \E n \in 1 .. Len(text) :
         \E part \in [1 .. n -> parts], start \in [1 .. n -> 1 .. Len(text)] :
           /\ parts = {part[i] : i \in 1 .. n}
           /\ start[1] = IF text[1] \in Quotes THEN 2 ELSE 1
           /\ \A i \in 1 .. n : IsRead(text, n, part, start, i)
  BY Zenon DEF Reads, IsRead, EndOf, AfterOf, NextOf

\* A pattern selects by its parts.
LEMMA PatternIs ==
  ASSUME NEW text \in Seq(Int), NEW parts \in SUBSET [file : Name, name : Name],
         \A p \in parts : p.name = <<>> => p.file = <<>>, Reads(text, parts),
         NEW file \in Seq(Int), NEW name \in Seq(Int)
  PROVE  UnityStringArgumentMatches(text, file, name)
           <=> \E p \in parts : Picks(p, file, name)
  <1>0. PICK n \in 1 .. Len(text) :
         \E part \in [1 .. n -> parts], start \in [1 .. n -> 1 .. Len(text)] :
           /\ parts = {part[i] : i \in 1 .. n}
           /\ start[1] = IF text[1] \in Quotes THEN 2 ELSE 1
           /\ \A i \in 1 .. n : IsRead(text, n, part, start, i)
    BY ReadsIs
  <1>1. PICK part \in [1 .. n -> parts], start \in [1 .. n -> 1 .. Len(text)] :
           /\ parts = {part[i] : i \in 1 .. n}
           /\ start[1] = IF text[1] \in Quotes THEN 2 ELSE 1
           /\ \A i \in 1 .. n : IsRead(text, n, part, start, i)
    BY <1>0
  <1>2. n \in Nat /\ 1 <= n /\ n <= Len(text) /\ Len(text) \in Nat /\ 1 \in 1 .. Len(text)
    OBVIOUS
  <1> DEFINE l == Len(text)
             from == [i \in 1 .. n |-> IF i = 1 THEN 1 ELSE start[i]]
             next(i) == NextOf(text, n, start, i)
             after(i) == AfterOf(text, part, start, i)
             end(i) == EndOf(text, part, start, i)
  <1>3. ASSUME NEW i \in 1 .. n
        PROVE  /\ part[i] \in [file : Name, name : Name] /\ start[i] \in 1 .. l
               /\ part[i].name = <<>> => part[i].file = <<>>
               /\ Spell(part[i]) \in Seq(Int) /\ Len(Spell(part[i])) \in Nat
               /\ end(i) = start[i] + Len(Spell(part[i])) /\ end(i) \in Nat
               /\ Lies(Spell(part[i]), text, start[i])
               /\ text[start[i]] \notin Separators \cup {Colon}
    <2>1. part[i] \in parts /\ start[i] \in 1 .. l
      BY <1>1
    <2>2. /\ part[i] \in [file : Name, name : Name]
          /\ part[i].name = <<>> => part[i].file = <<>>
      BY <2>1
    <2> DEFINE w == Spell(part[i])
    <2>3. /\ w \in Seq(Int) /\ Len(w) >= 1 /\ w[1] \notin Separators \cup {Colon}
      BY <2>2, SpellIs
    <2>4. end(i) = start[i] + Len(w)
      BY DEF EndOf
    <2>5. end(i) <= Len(text) + 1 /\ SubSeq(text, start[i], end(i) - 1) = w
      BY <1>1, Zenon DEF IsRead
    <2> HIDE DEF w, end
    <2>6. Lies(w, text, start[i])
      <3> DEFINE Spelled(e) == e <= Len(text) + 1 /\ SubSeq(text, start[i], e - 1) = w
      <3>1. Spelled(end(i))
        BY <2>5
      <3> HIDE DEF Spelled
      <3>2. Spelled(start[i] + Len(w))
        BY <2>4, <3>1, ZenonT(30)
      <3>3. start[i] + Len(w) <= Len(text) + 1 /\ SubSeq(text, start[i], start[i] + Len(w) - 1) = w
        BY <3>2, SMTT(60) DEF Spelled
      <3> QED BY <2>1, <2>3, <3>3, LiesIs
    <2>7. text[start[i]] = w[1]
      <3>1. Len(w) \in Nat /\ 1 \in 1 .. Len(w) /\ start[i] + 1 - 1 = start[i]
        BY <2>1, <2>3
      <3> QED BY <2>6, <3>1 DEF Lies
    <2>8. Len(w) \in Nat /\ end(i) \in Nat
      BY <2>1, <2>3, <2>4, SMTT(40)
    <2> QED BY <2>1, <2>2, <2>3, <2>4, <2>6, <2>7, <2>8 DEF w
  <1>4. ASSUME NEW i \in 1 .. n
        PROVE  /\ from[i] \in 1 .. l
               /\ start[i] = IF text[from[i]] \in Quotes THEN from[i] + 1 ELSE from[i]
    <2>1. CASE i = 1
      <3>1. from[i] = 1
        BY <2>1
      <3> QED BY <1>1, <1>2, <2>1, <3>1
    <2>2. CASE i # 1
      <3>1. from[i] = start[i]
        BY <2>2
      <3>2. text[start[i]] \notin Quotes
        BY <1>3 DEF Separators
      <3> QED BY <1>3, <3>1, <3>2
    <2> QED BY <2>1, <2>2
  <1>5. ASSUME NEW i \in 1 .. n
        PROVE  /\ next(i) = IF i = n THEN l + 1 ELSE from[i + 1]
               /\ next(i) \in 1 .. l + 1
               /\ next(i) <= l => text[next(i)] \notin Separators \cup {Colon}
    <2>1. CASE i = n
      <3>1. next(i) = l + 1
        BY <2>1 DEF NextOf
      <3> QED BY <1>2, <2>1, <3>1
    <2>2. CASE i # n
      <3>1. next(i) = start[i + 1]
        BY <2>2 DEF NextOf
      <3>2. i + 1 \in 1 .. n /\ i + 1 # 1
        BY <1>2, <2>2
      <3>3. from[i + 1] = start[i + 1]
        BY <3>2
      <3>4. start[i + 1] \in 1 .. l /\ text[start[i + 1]] \notin Separators \cup {Colon}
        BY <1>3, <3>2
      <3> HIDE DEF next, from
      <3> QED BY <1>2, <2>2, <3>1, <3>3, <3>4
    <2> QED BY <2>1, <2>2
  <1>6. ASSUME NEW i \in 1 .. n
        PROVE  WordAt(text, from[i], start[i], part[i], end(i), after(i), next(i))
    <2>1. /\ after(i) <= next(i) /\ (i < n => after(i) < next(i))
          /\ \A k \in after(i) .. next(i) - 1 : text[k] \in Separators
      BY <1>1, Zenon DEF IsRead
    <2>2. after(i) = IF end(i) <= Len(text) /\ text[end(i)] = Star THEN end(i) + 1 ELSE end(i)
      BY DEF AfterOf
    <2> HIDE DEF end
    <2>3. after(i) \in Nat
      <3>0. end(i) \in Nat /\ end(i) + 1 \in Nat
        <4>1. end(i) \in Nat
          BY <1>3, Zenon
        <4> QED BY <4>1
      <3>1. after(i) = end(i) + 1 \/ after(i) = end(i)
        BY <2>2, Zenon
      <3> HIDE DEF after
      <3> QED BY <3>0, <3>1, Zenon
    <2> HIDE DEF after, from
    <2>4. next(i) \in after(i) .. l + 1
      BY <1>2, <1>5, <2>1, <2>3
    <2>5. i = n => next(i) = l + 1
      BY <1>5
    <2> HIDE DEF next
    <2>6. ASSUME after(i) <= Len(text) PROVE text[after(i)] \in Separators
      <3>1. after(i) < next(i)
        <4>1. CASE i = n
          <5>1. next(i) = Len(text) + 1
            BY <2>5, <4>1
          <5> QED BY <1>2, <2>3, <2>6, <5>1
        <4>2. CASE i # n
          <5>1. i < n
            BY <1>2, <4>2
          <5> QED BY <2>1, <5>1, Zenon
        <4> QED BY <4>1, <4>2
      <3>2. after(i) \in after(i) .. next(i) - 1
        BY <2>3, <2>4, <3>1, SMTT(40)
      <3> QED BY <2>1, <3>2
    <2>7. start[i] \in 1 .. Len(text) /\ from[i] \in 1 .. Len(text)
      BY <1>3, <1>4
    <2> QED BY <1>3, <1>4, <1>5, <2>1, <2>2, <2>4, <2>6, <2>7, Zenon DEF WordAt
  <1>7. PICK f : /\ Matching(text, file, name, 1, f)
                 /\ UnityStringArgumentMatches(text, file, name) = f[1]
    BY MatchesIs, SMTT(40)
  <1>8. ASSUME NEW i \in 1 .. n
        PROVE  f[from[i]] <=> (Picks(part[i], file, name) \/ (i # n /\ f[from[i + 1]]))
    <2> HIDE DEF end, after, from
    <2>1. /\ Behind(text, file, name, from[i]) = next(i)
          /\ Found(text, file, name, from[i]) <=> Picks(part[i], file, name)
      BY <1>6, WordIs DEF Behind, Found
    <2>2. f[from[i]] = (Found(text, file, name, from[i]) \/ f[Behind(text, file, name, from[i])])
      BY <1>4, <1>7, Zenon DEF Matching
    <2>3. f[l + 1] = FALSE
      BY <1>7, Zenon DEF Matching
    <2> HIDE DEF next
    <2>4. CASE i = n
      <3>1. next(i) = l + 1
        BY <1>5, <2>4
      <3> QED BY <2>1, <2>2, <2>3, <2>4, <3>1, Zenon
    <2>5. CASE i # n
      <3>1. next(i) = from[i + 1]
        BY <1>5, <2>5
      <3> QED BY <2>1, <2>2, <2>5, <3>1, Zenon
    <2> QED BY <2>4, <2>5
  <1> DEFINE Some(i) == \E j \in i .. n : Picks(part[j], file, name)
             M == {d \in Nat : d < n => (f[from[n - d]] <=> Some(n - d))}
  <1> HIDE DEF from
  <1>9. M = Nat
    <2>1. 0 \in M
      <3>1. n \in 1 .. n /\ n - 0 = n /\ \A j \in n .. n : j = n
        BY <1>2
      <3>2. f[from[n]] <=> Picks(part[n], file, name)
        BY <1>8, <3>1, Zenon
      <3>3. n \in n .. n
        BY <1>2
      <3>4. f[from[n]] <=> Some(n)
        BY <3>1, <3>2, <3>3, Zenon
      <3> QED BY <3>1, <3>4
    <2>2. ASSUME NEW d \in M PROVE d + 1 \in M
      <3>1. d \in Nat /\ (d < n => (f[from[n - d]] <=> Some(n - d)))
        OBVIOUS
      <3>2. ASSUME d + 1 < n PROVE f[from[n - (d + 1)]] <=> Some(n - (d + 1))
        <4> DEFINE i == n - (d + 1)
        <4>1. i \in 1 .. n /\ i # n /\ i + 1 = n - d /\ d < n
          BY <1>2, <3>1, <3>2
        <4>2. /\ i \in i .. n /\ \A j \in i .. n : j = i \/ j \in i + 1 .. n
              /\ \A j \in i + 1 .. n : j \in i .. n
          BY <1>2, <4>1, SMTT(40)
        <4> HIDE DEF i, M
        <4>3. f[from[i]] <=> Picks(part[i], file, name) \/ f[from[i + 1]]
          BY <1>8, <4>1, Zenon
        <4>4. f[from[i + 1]] <=> Some(i + 1)
          BY <3>1, <4>1, Zenon
        <4>5. f[from[i]] <=> Some(i)
          BY <4>2, <4>3, <4>4, Zenon
        <4> QED BY <4>5, Zenon DEF i
      <3>3. d + 1 \in Nat
        BY <3>1
      <3> QED BY <3>2, <3>3, Zenon
    <2>3. M \in SUBSET Nat
      OBVIOUS
    <2> HIDE DEF M
    <2> QED BY <2>1, <2>2, <2>3, Induction
  <1>10. f[from[1]] <=> Some(1)
    <2> DEFINE d == n - 1
    <2>1. d \in Nat /\ d < n /\ n - d = 1
      BY <1>2
    <2> HIDE DEF d
    <2>2. d \in M
      BY <1>9, <2>1, Zenon
    <2> QED BY <2>1, <2>2, Zenon
  <1>11. from[1] = 1
    BY <1>2 DEF from
  <1>12. Some(1) <=> \E p \in parts : Picks(p, file, name)
    BY <1>1, Zenon
  <1> QED BY <1>7, <1>10, <1>11, <1>12, Zenon

\* No pattern is taken for one that is not given.
LEMMA PatternIsGiven ==
  ASSUME NEW text \in Seq(Int), NEW parts \in SUBSET [file : Name, name : Name],
         \A p \in parts : p.name = <<>> => p.file = <<>>, Reads(text, parts)
  PROVE  text # NullString
  <1> SUFFICES ASSUME text = NullString PROVE FALSE
    OBVIOUS
  <1>0. text = <<0>>
    BY DEF NullString
  <1>1. PICK n \in 1 .. Len(text) :
         \E part \in [1 .. n -> parts], start \in [1 .. n -> 1 .. Len(text)] :
           /\ parts = {part[i] : i \in 1 .. n}
           /\ start[1] = IF text[1] \in Quotes THEN 2 ELSE 1
           /\ \A i \in 1 .. n : IsRead(text, n, part, start, i)
    BY ReadsIs
  <1>2. PICK part \in [1 .. n -> parts], start \in [1 .. n -> 1 .. Len(text)] :
           /\ parts = {part[i] : i \in 1 .. n}
           /\ start[1] = IF text[1] \in Quotes THEN 2 ELSE 1
           /\ \A i \in 1 .. n : IsRead(text, n, part, start, i)
    BY <1>1
  <1>3. Len(text) = 1 /\ text[1] = 0 /\ 1 \in 1 .. n
    BY <1>0
  <1>4. start[1] = 1
    BY <1>2, <1>3 DEF Quotes
  <1> DEFINE w == Spell(part[1])
  <1>5. w \in Seq(Int) /\ Len(w) >= 1 /\ w[1] \notin Separators \cup {Colon, 0}
    <2>1. part[1] \in parts
      BY <1>3
    <2>2. /\ part[1] \in [file : Name, name : Name]
          /\ part[1].name = <<>> => part[1].file = <<>>
      BY <2>1
    <2> QED BY <2>2, SpellIs
  <1>6. 1 + Len(w) <= 1 + 1 /\ SubSeq(text, 1, 1 + Len(w) - 1) = w
    <2>1. IsRead(text, n, part, start, 1) /\ EndOf(text, part, start, 1) = 1 + Len(w)
      BY <1>2, <1>3, <1>4 DEF EndOf
    <2>2. 1 + Len(w) <= Len(text) + 1 /\ SubSeq(text, 1, (1 + Len(w)) - 1) = w
      BY <1>4, <2>1, Zenon DEF IsRead
    <2> QED BY <1>3, <2>2
  <1> HIDE DEF w
  <1>7. Len(w) = 1 /\ SubSeq(text, 1, 1) = w
    BY <1>5, <1>6
  <1>8. SubSeq(text, 1, 1)[1] = text[1]
    BY <1>3
  <1> QED BY <1>3, <1>5, <1>7, <1>8

-----------------------------------------------------------------------------
(* Options *)

OptionsType == [ret : Int, UnityOptionIncludeNamed : Seq(Int),
                UnityOptionExcludeNamed : Seq(Int), UnityVerbosity : Int, awaits : Int]

\* What an argument is taken for.
Means(o, arg, option, string, named) ==
  /\ option = IF o.awaits = 0 THEN arg.option ELSE o.awaits
  /\ string = IF o.awaits = 0 THEN arg.value ELSE arg.text
  /\ named \in BOOLEAN /\ (named <=> (o.awaits # 0 \/ arg.value # NullString))

Parses(o, arg, option, string, named) ==
  /\ option \in {Opt.n, Opt.f, Opt.x} /\ ~named =>
       ParseArgument(o, arg) = [o EXCEPT !.awaits = option]
  /\ option \in {Opt.n, Opt.f} /\ named =>
       ParseArgument(o, arg) = [o EXCEPT !.awaits = 0, !.UnityOptionIncludeNamed = string]
  /\ option = Opt.x /\ named =>
       ParseArgument(o, arg) = [o EXCEPT !.awaits = 0, !.UnityOptionExcludeNamed = string]
  /\ option = Opt.l => ParseArgument(o, arg) = [o EXCEPT !.ret = -1]
  /\ option = Opt.q => ParseArgument(o, arg) = [o EXCEPT !.UnityVerbosity = 0]
  /\ option = Opt.v => ParseArgument(o, arg) = [o EXCEPT !.UnityVerbosity = 2]

LEMMA ParseIs ==
  ASSUME NEW o, NEW arg, NEW option, NEW string, NEW named,
         Means(o, arg, option, string, named), o \in OptionsType, o.ret = 0
  PROVE  Parses(o, arg, option, string, named)
  <1>1. /\ Opt.word = 0 /\ Opt.f = 102 /\ Opt.l = 108 /\ Opt.n = 110 /\ Opt.q = 113
        /\ Opt.v = 118 /\ Opt.x = 120
    BY DEF Opt
  <1> DEFINE A1 == [o EXCEPT !.awaits = option]
             A2 == [o EXCEPT !.awaits = 0, !.UnityOptionIncludeNamed = string]
             A3 == [o EXCEPT !.awaits = 0, !.UnityOptionExcludeNamed = string]
             A4 == [o EXCEPT !.ret = -1]
             A5 == [o EXCEPT !.UnityVerbosity = 0]
             A6 == [o EXCEPT !.UnityVerbosity = 2]
             A8 == [o EXCEPT !.ret = 1]
             P1 == o.ret = 0 /\ option \in {Opt.n, Opt.f, Opt.x} /\ ~named
             P2 == o.ret = 0 /\ option \in {Opt.n, Opt.f} /\ named
             P3 == o.ret = 0 /\ option = Opt.x /\ named
             P4 == o.ret = 0 /\ option = Opt.l
             P5 == o.ret = 0 /\ option = Opt.q
             P6 == o.ret = 0 /\ option = Opt.v
             P7 == o.ret = 0 /\ option = Opt.word
             R == CASE o.ret # 0 -> o [] P1 -> A1 [] P2 -> A2 [] P3 -> A3 [] P4 -> A4
                    [] P5 -> A5 [] P6 -> A6 [] P7 -> o [] OTHER -> A8
  <1>2. ParseArgument(o, arg) = R
    <2>1. /\ option = IF o.awaits = 0 THEN arg.option ELSE o.awaits
          /\ string = IF o.awaits = 0 THEN arg.value ELSE arg.text
          /\ named \in BOOLEAN /\ (named <=> (o.awaits # 0 \/ arg.value # NullString))
      BY DEF Means
    <2> DEFINE g == o.awaits # 0 \/ arg.value # NullString
    <2>2. named = g
      BY <2>1, Zenon
    <2> QED BY <2>1, <2>2, Zenon DEF ParseArgument
  <1>3. /\ P1 <=> option \in {110, 102, 120} /\ ~named
        /\ P2 <=> option \in {110, 102} /\ named
        /\ P3 <=> option = 120 /\ named
        /\ P4 <=> option = 108
        /\ P5 <=> option = 113
        /\ P6 <=> option = 118
        /\ P7 <=> option = 0
    BY <1>1
  <1> HIDE DEF A1, A2, A3, A4, A5, A6, A8, P1, P2, P3, P4, P5, P6, P7
  <1>4. /\ P1 => ~P2 /\ ~P3 /\ ~P4 /\ ~P5 /\ ~P6 /\ ~P7
        /\ P2 => ~P3 /\ ~P4 /\ ~P5 /\ ~P6 /\ ~P7
        /\ P3 => ~P4 /\ ~P5 /\ ~P6 /\ ~P7
        /\ P4 => ~P5 /\ ~P6 /\ ~P7
        /\ P5 => ~P6 /\ ~P7
        /\ P6 => ~P7
    BY <1>3
  <1>5. /\ P1 => R = A1
        /\ P2 => R = A2
        /\ P3 => R = A3
        /\ P4 => R = A4
        /\ P5 => R = A5
        /\ P6 => R = A6
    BY <1>4, Zenon
  <1> HIDE DEF R
  <1> QED BY <1>2, <1>5, Zenon DEF A1, A2, A3, A4, A5, A6, P1, P2, P3, P4, P5, P6, Parses

LEMMA ParseOption ==
  ASSUME NEW o \in OptionsType, o.ret = 0, o.awaits = 0, NEW arg
  PROVE  /\ arg.option \in {Opt.n, Opt.f, Opt.x} /\ arg.value = NullString =>
              ParseArgument(o, arg) = [o EXCEPT !.awaits = arg.option]
         /\ arg.option \in {Opt.n, Opt.f} /\ arg.value # NullString =>
              ParseArgument(o, arg) = [o EXCEPT !.awaits = 0,
                                                !.UnityOptionIncludeNamed = arg.value]
         /\ arg.option = Opt.x /\ arg.value # NullString =>
              ParseArgument(o, arg) = [o EXCEPT !.awaits = 0,
                                                !.UnityOptionExcludeNamed = arg.value]
         /\ arg.option = Opt.l => ParseArgument(o, arg) = [o EXCEPT !.ret = -1]
         /\ arg.option = Opt.q => ParseArgument(o, arg) = [o EXCEPT !.UnityVerbosity = 0]
         /\ arg.option = Opt.v => ParseArgument(o, arg) = [o EXCEPT !.UnityVerbosity = 2]
  <1> DEFINE named == arg.value # NullString
             option == arg.option
             string == arg.value
  <1>1. Means(o, arg, option, string, named)
    BY Zenon DEF Means
  <1>2. ~named <=> arg.value = NullString
    OBVIOUS
  <1> HIDE DEF named
  <1>3. Parses(o, arg, option, string, named)
    BY <1>1, ParseIs, Zenon
  <1> QED BY <1>2, <1>3, Zenon DEF Parses

LEMMA ParseString ==
  ASSUME NEW o \in OptionsType, o.ret = 0, o.awaits # 0, NEW arg
  PROVE  /\ o.awaits \in {Opt.n, Opt.f} =>
              ParseArgument(o, arg) = [o EXCEPT !.awaits = 0,
                                                !.UnityOptionIncludeNamed = arg.text]
         /\ o.awaits = Opt.x =>
              ParseArgument(o, arg) = [o EXCEPT !.awaits = 0,
                                                !.UnityOptionExcludeNamed = arg.text]
  <1> DEFINE option == o.awaits
             string == arg.text
  <1>1. Means(o, arg, option, string, TRUE)
    BY Zenon DEF Means
  <1>2. Parses(o, arg, option, string, TRUE)
    BY <1>1, ParseIs, Zenon
  <1> QED BY <1>2, Zenon DEF Parses

\* What a setting does to the options before it.
Includes(s) == s.form # "bare" /\ s.option \in {Opt.n, Opt.f}
Excludes(s) == s.form # "bare" /\ s.option \in {Opt.x}

Applied(o, s) ==
  [o EXCEPT !.UnityOptionIncludeNamed = IF Includes(s) THEN s.pattern.text ELSE @,
            !.UnityOptionExcludeNamed = IF Excludes(s) THEN s.pattern.text ELSE @]

\* The options after the arguments of s.
After(o, s) ==
  IF s.form = "separate"
  THEN ParseArgument(ParseArgument(o, Arguments(s)[1]), Arguments(s)[2])
  ELSE ParseArgument(o, Arguments(s)[1])

\* What is assumed of a setting.
LEMMA SettingIs ==
  ASSUME NEW s \in Settings
  PROVE  /\ s.form \in {"attached", "separate", "bare"}
         /\ s.form = "bare" => s.option \in {Opt.n, Opt.f, Opt.x, Opt.l, Opt.q, Opt.v}
         /\ s.form # "bare" => s.option \in {Opt.n, Opt.f, Opt.x}
         /\ s.pattern.text \in Seq(Int) /\ s.pattern.text # NullString
         /\ s.pattern.parts \in SUBSET [file : Name, name : Name]
         /\ \A p \in s.pattern.parts : p.name = <<>> => p.file = <<>>
         /\ Reads(s.pattern.text, s.pattern.parts)
  <1>1. /\ s.form \in {"attached", "separate", "bare"}
        /\ s.option \in {Opt.n, Opt.f, Opt.x} \cup IF s.form = "bare" THEN {Opt.l, Opt.q, Opt.v}
                                                  ELSE {}
        /\ s.pattern.parts \subseteq [file : Name, name : Name]
        /\ \A part \in s.pattern.parts : part.name = <<>> => part.file = <<>>
        /\ s.pattern.text \in Seq(-128 .. 127)
        /\ Reads(s.pattern.text, s.pattern.parts)
    BY SettingsAssumption, Zenon
  <1>2. /\ s.form = "bare" => s.option \in {Opt.n, Opt.f, Opt.x, Opt.l, Opt.q, Opt.v}
        /\ s.form # "bare" => s.option \in {Opt.n, Opt.f, Opt.x}
    BY <1>1, Zenon
  <1> DEFINE t == s.pattern.text
  <1>3. t \in Seq(Int)
    <2>1. -128 .. 127 \in SUBSET Int
      OBVIOUS
    <2> QED BY <1>1, <2>1, WiderSeq, Zenon
  <1>4. s.pattern.parts \in SUBSET [file : Name, name : Name]
    BY <1>1, Zenon
  <1> HIDE DEF t
  <1>5. t # NullString
    <2>1. Reads(t, s.pattern.parts)
      BY <1>1 DEF t
    <2> QED BY <1>1, <1>3, <1>4, <2>1, PatternIsGiven, Zenon
  <1> QED BY <1>1, <1>2, <1>3, <1>4, <1>5, Zenon DEF t

\* An option with its string, whether it is in one argument or in two.
LEMMA AppliedIs ==
  ASSUME NEW o \in OptionsType, o.ret = 0, o.awaits = 0, NEW s \in Settings, s.form # "bare"
  PROVE  After(o, s) = Applied(o, s) /\ Applied(o, s) \in OptionsType
  <1> DEFINE t == s.pattern.text
             c == s.option
  <1>1. /\ s.form \in {"attached", "separate"} /\ c \in {Opt.n, Opt.f, Opt.x}
        /\ t \in Seq(Int) /\ t # NullString
    BY SettingIs
  <1>2. /\ Opt.f = 102 /\ Opt.n = 110 /\ Opt.x = 120
    BY DEF Opt
  <1>3. Includes(s) <=> c \in {Opt.n, Opt.f}
    BY DEF Includes
  <1>4. Excludes(s) <=> c = Opt.x
    BY DEF Excludes
  <1> HIDE DEF t, c
  <1> DEFINE r == IF c = Opt.x THEN [o EXCEPT !.awaits = 0, !.UnityOptionExcludeNamed = t]
                  ELSE [o EXCEPT !.awaits = 0, !.UnityOptionIncludeNamed = t]
  <1>5. r = Applied(o, s) /\ r \in OptionsType
    <2>1. CASE c = Opt.x
      <3>1. ~Includes(s) /\ Excludes(s)
        BY <1>2, <1>3, <1>4, <2>1
      <3> QED BY <1>1, <2>1, <3>1 DEF Applied, OptionsType, t
    <2>2. CASE c # Opt.x
      <3>1. Includes(s) /\ ~Excludes(s)
        BY <1>1, <1>3, <1>4, <2>2
      <3> QED BY <1>1, <2>2, <3>1 DEF Applied, OptionsType, t
    <2> QED BY <2>1, <2>2
  <1>6. CASE s.form = "attached"
    <2> DEFINE arg == Option(c, t)
    <2>1. After(o, s) = ParseArgument(o, arg)
      BY <1>6 DEF After, Arguments, c, t
    <2>2. arg.option = c /\ arg.value = t
      BY DEF Option
    <2> HIDE DEF arg
    <2>3. ParseArgument(o, arg) = r
      <3>1. CASE c = Opt.x
        <4>1. ParseArgument(o, arg) = [o EXCEPT !.awaits = 0, !.UnityOptionExcludeNamed = t]
          BY <1>1, <2>2, <3>1, ParseOption, ZenonT(40)
        <4> QED BY <3>1, <4>1, Zenon
      <3>2. CASE c # Opt.x
        <4>1. c \in {Opt.n, Opt.f}
          BY <1>1, <3>2
        <4>2. ParseArgument(o, arg) = [o EXCEPT !.awaits = 0, !.UnityOptionIncludeNamed = t]
          BY <1>1, <2>2, <4>1, ParseOption, Zenon
        <4> QED BY <3>2, <4>2, Zenon
      <3> QED BY <3>1, <3>2
    <2> QED BY <1>5, <2>1, <2>3
  <1>7. CASE s.form = "separate"
    <2> DEFINE arg == Option(c, NullString)
               word == Word(t)
               p == [o EXCEPT !.awaits = c]
    <2>1. After(o, s) = ParseArgument(ParseArgument(o, arg), word)
      BY <1>7 DEF After, Arguments, c, t
    <2>2. arg.option = c /\ arg.value = NullString /\ word.text = t
      BY DEF Option, Word
    <2> HIDE DEF arg, word
    <2>3. ParseArgument(o, arg) = p
      BY <1>1, <2>2, ParseOption, Zenon
    <2>4. ParseArgument(p, word) = r
      <3>0. p \in OptionsType /\ p.ret = 0 /\ p.awaits = c /\ p.awaits # 0
        <4>1. c \in Int /\ c # 0
          BY <1>1, <1>2
        <4> QED BY <4>1 DEF OptionsType
      <3>1. CASE c = Opt.x
        <4>1. ParseArgument(p, word) = [p EXCEPT !.awaits = 0, !.UnityOptionExcludeNamed = t]
          <5> HIDE DEF p
          <5> QED BY <2>2, <3>0, <3>1, ParseString, ZenonT(40)
        <4>2. [p EXCEPT !.awaits = 0, !.UnityOptionExcludeNamed = t]
                = [o EXCEPT !.awaits = 0, !.UnityOptionExcludeNamed = t]
          BY DEF OptionsType
        <4> QED BY <3>1, <4>1, <4>2, Zenon
      <3>2. CASE c # Opt.x
        <4>1. c \in {Opt.n, Opt.f}
          BY <1>1, <3>2
        <4>2. ParseArgument(p, word) = [p EXCEPT !.awaits = 0, !.UnityOptionIncludeNamed = t]
          <5> HIDE DEF p
          <5>1. p.awaits \in {Opt.n, Opt.f}
            BY <3>0, <4>1
          <5> QED BY <2>2, <3>0, <5>1, ParseString, Zenon
        <4>3. [p EXCEPT !.awaits = 0, !.UnityOptionIncludeNamed = t]
                = [o EXCEPT !.awaits = 0, !.UnityOptionIncludeNamed = t]
          BY DEF OptionsType
        <4> QED BY <3>2, <4>2, <4>3, Zenon
      <3> QED BY <3>1, <3>2
    <2> QED BY <1>5, <2>1, <2>3, <2>4
  <1> QED BY <1>1, <1>6, <1>7

\* An option without its string, or one of the others.
LEMMA BareIs ==
  ASSUME NEW o \in OptionsType, o.ret = 0, o.awaits = 0, NEW s \in Settings, s.form = "bare"
  PROVE  /\ s.option \in {Opt.q, Opt.v} =>
              /\ After(o, s) \in OptionsType /\ After(o, s).ret = 0 /\ After(o, s).awaits = 0
              /\ After(o, s).UnityOptionIncludeNamed = o.UnityOptionIncludeNamed
              /\ After(o, s).UnityOptionExcludeNamed = o.UnityOptionExcludeNamed
         /\ s.option \notin {Opt.q, Opt.v} =>
              After(o, s) \in OptionsType /\ (After(o, s).awaits # 0 \/ After(o, s).ret # 0)
  <1> DEFINE c == s.option
             arg == Option(c, NullString)
  <1>1. c \in {Opt.n, Opt.f, Opt.x, Opt.l, Opt.q, Opt.v}
    BY SettingIs
  <1>2. After(o, s) = ParseArgument(o, arg)
    BY DEF After, Arguments
  <1>3. arg.option = c /\ arg.value = NullString
    BY DEF Option
  <1>4. /\ Opt.f = 102 /\ Opt.l = 108 /\ Opt.n = 110 /\ Opt.q = 113 /\ Opt.v = 118
        /\ Opt.x = 120
    BY DEF Opt
  <1> HIDE DEF c, arg
  <1>5. /\ c \in {Opt.n, Opt.f, Opt.x} => ParseArgument(o, arg) = [o EXCEPT !.awaits = c]
        /\ c = Opt.l => ParseArgument(o, arg) = [o EXCEPT !.ret = -1]
        /\ c = Opt.q => ParseArgument(o, arg) = [o EXCEPT !.UnityVerbosity = 0]
        /\ c = Opt.v => ParseArgument(o, arg) = [o EXCEPT !.UnityVerbosity = 2]
    BY <1>3, ParseOption, Zenon
  <1>6. CASE c \in {Opt.n, Opt.f, Opt.x}
    <2>1. After(o, s) \in OptionsType /\ After(o, s).awaits = c
      <3>1. c \in Int
        BY <1>4, <1>6
      <3> QED BY <1>2, <1>5, <1>6, <3>1 DEF OptionsType
    <2>2. c # 0 /\ c \notin {Opt.q, Opt.v}
      BY <1>4, <1>6
    <2> QED BY <2>1, <2>2 DEF c
  <1>7. CASE c = Opt.l
    <2>1. After(o, s) \in OptionsType /\ After(o, s).ret = -1
      BY <1>2, <1>5, <1>7 DEF OptionsType
    <2>2. c \notin {Opt.q, Opt.v}
      BY <1>4, <1>7
    <2> QED BY <2>1, <2>2 DEF c
  <1>8. CASE c \in {Opt.q, Opt.v}
    <2>1. PICK v \in {0, 2} : After(o, s) = [o EXCEPT !.UnityVerbosity = v]
      BY <1>2, <1>5, <1>8
    <2> DEFINE w == [o EXCEPT !.UnityVerbosity = v]
    <2>2. /\ w \in OptionsType /\ w.ret = 0 /\ w.awaits = 0
          /\ w.UnityOptionIncludeNamed = o.UnityOptionIncludeNamed
          /\ w.UnityOptionExcludeNamed = o.UnityOptionExcludeNamed
      <3>1. v \in Int
        OBVIOUS
      <3> QED BY <3>1 DEF OptionsType
    <2>3. After(o, s) = w
      BY <2>1
    <2> HIDE DEF w
    <2> QED BY <1>8, <2>2, <2>3, Zenon DEF c
  <1> QED BY <1>1, <1>6, <1>7, <1>8

\* The options after each argument.
Folding(argv, n, f) ==
  /\ f = [i \in 0 .. n |-> f[i]] /\ f[0] = NoOptions
  /\ \A i \in 1 .. n : f[i] = ParseArgument(f[i - 1], argv[i])

\* The loop over the arguments, likewise.
LEMMA FoldingExists ==
  ASSUME NEW argv, NEW n \in Nat
  PROVE  \E f : Folding(argv, n, f)
  <1> DEFINE M == {m \in Nat : \E f : Folding(argv, m, f)}
  <1>1. 0 \in M
    <2> DEFINE f == [i \in 0 .. 0 |-> NoOptions]
    <2>1. f = [i \in 0 .. 0 |-> f[i]] /\ f[0] = NoOptions
      <3>1. 0 \in 0 .. 0
        OBVIOUS
      <3> QED BY <3>1, Zenon
    <2> HIDE DEF f
    <2>2. \A i \in 1 .. 0 : FALSE
      OBVIOUS
    <2>3. Folding(argv, 0, f)
      BY <2>1, <2>2, Zenon DEF Folding
    <2> QED BY <2>3
  <1>2. ASSUME NEW m \in M PROVE m + 1 \in M
    <2>1. m \in Nat
      OBVIOUS
    <2>2. PICK f : Folding(argv, m, f)
      OBVIOUS
    <2> HIDE DEF M
    <2> DEFINE v == ParseArgument(f[m], argv[m + 1])
               g == [i \in 0 .. m + 1 |-> IF i = m + 1 THEN v ELSE f[i]]
    <2> HIDE DEF v
    <2>3. g[m + 1] = v /\ \A i \in 0 .. m : g[i] = f[i]
      <3>1. m + 1 \in 0 .. m + 1 /\ \A i \in 0 .. m : i \in 0 .. m + 1 /\ i # m + 1
        BY <2>1
      <3> QED BY <3>1, Zenon
    <2>4. g = [i \in 0 .. m + 1 |-> g[i]]
      BY Zenon
    <2> HIDE DEF g
    <2>5. 0 \in 0 .. m /\ m \in 0 .. m /\ (m + 1) - 1 = m
      BY <2>1
    <2>6. ASSUME NEW i \in 1 .. m + 1 PROVE g[i] = ParseArgument(g[i - 1], argv[i])
      <3>1. CASE i = m + 1
        BY <2>3, <2>5, <3>1, Zenon DEF v
      <3>2. CASE i # m + 1
        <4>1. i \in 1 .. m /\ i \in 0 .. m /\ i - 1 \in 0 .. m
          BY <2>1, <3>2
        <4>2. f[i] = ParseArgument(f[i - 1], argv[i])
          BY <2>2, <4>1, Zenon DEF Folding
        <4> QED BY <2>3, <4>1, <4>2, Zenon
      <3> QED BY <3>1, <3>2
    <2>7. g[0] = NoOptions
      BY <2>2, <2>3, <2>5, Zenon DEF Folding
    <2>8. Folding(argv, m + 1, g)
      BY <2>4, <2>6, <2>7, Zenon DEF Folding
    <2> QED BY <2>1, <2>8 DEF M
  <1>3. M = Nat
    <2>1. M \in SUBSET Nat
      OBVIOUS
    <2> HIDE DEF M
    <2> QED BY <1>1, <1>2, <2>1, Induction
  <1> QED BY <1>3

\* An option still without its string is an error.
Finish(o) == IF o.awaits # 0 THEN [o EXCEPT !.ret = 1] ELSE o

LEMMA OptionsAre ==
  ASSUME NEW argv, Len(argv) \in Nat
  PROVE  \E f : Folding(argv, Len(argv), f) /\ UnityParseOptions(argv) = Finish(f[Len(argv)])
  <1> DEFINE n == Len(argv)
             Step(f) == [i \in 0 .. n |-> IF i = 0 THEN NoOptions
                                          ELSE ParseArgument(f[i - 1], argv[i])]
             after == CHOOSE after : after = Step(after)
  <1>1. UnityParseOptions(argv) = Finish(after[n])
    BY Zenon DEF UnityParseOptions, Finish
  <1> HIDE DEF n
  <1>2. n \in Nat
    BY DEF n
  <1>3. PICK f : Folding(argv, n, f)
    BY <1>2, FoldingExists
  <1>4. f = Step(f)
    <2>1. f = [i \in 0 .. n |-> f[i]]
      BY <1>3, Zenon DEF Folding
    <2>2. ASSUME NEW i \in 0 .. n
          PROVE  f[i] = IF i = 0 THEN NoOptions ELSE ParseArgument(f[i - 1], argv[i])
      <3>1. CASE i = 0
        BY <1>3, <3>1, Zenon DEF Folding
      <3>2. CASE i # 0
        <4>1. i \in 1 .. n
          BY <1>2, <3>2
        <4> QED BY <1>3, <3>2, <4>1, Zenon DEF Folding
      <3> QED BY <3>1, <3>2
    <2> QED BY <2>1, <2>2, Zenon
  <1>5. after = Step(after)
    <2> HIDE DEF Step
    <2> QED BY <1>4
  <1> HIDE DEF after
  <1>6. \A i \in 0 .. n : after[i] = IF i = 0 THEN NoOptions
                                     ELSE ParseArgument(after[i - 1], argv[i])
    BY <1>5, Zenon
  <1>7. after = [i \in 0 .. n |-> after[i]]
    BY <1>5, Zenon
  <1>8. 0 \in 0 .. n /\ \A i \in 1 .. n : i \in 0 .. n /\ i # 0
    BY <1>2
  <1>9. Folding(argv, n, after)
    BY <1>6, <1>7, <1>8, Zenon DEF Folding
  <1> QED BY <1>1, <1>9 DEF n

\* The options of a command line are those after both of its settings.
LEMMA LineIs ==
  ASSUME NEW first \in Settings, NEW second \in Settings
  PROVE  UnityParseOptions(Arguments(first) \o Arguments(second))
           = Finish(After(After(NoOptions, first), second))
  <1> DEFINE A == Arguments(first)
             B == Arguments(second)
             S == {A[1], A[2], B[1], B[2]}
             Words(s) == IF s.form = "separate" THEN 2 ELSE 1
             a == Words(first)
             b == Words(second)
  <1>1. A \in Seq(S) /\ Len(A) = a
    <2>1. first.form \in {"attached", "separate", "bare"}
      BY SettingIs
    <2>2. CASE first.form = "separate"
      <3>1. A = <<Option(first.option, NullString), Word(first.pattern.text)>>
        BY <2>2 DEF Arguments
      <3> HIDE DEF B
      <3> QED BY <2>2, <3>1
    <2>3. CASE first.form # "separate"
      <3>1. PICK x : A = <<x>>
        BY <2>1, <2>3 DEF Arguments
      <3> HIDE DEF A, B
      <3> QED BY <2>3, <3>1
    <2> QED BY <2>2, <2>3
  <1>2. B \in Seq(S) /\ Len(B) = b
    <2>1. second.form \in {"attached", "separate", "bare"}
      BY SettingIs
    <2>2. CASE second.form = "separate"
      <3>1. B = <<Option(second.option, NullString), Word(second.pattern.text)>>
        BY <2>2 DEF Arguments
      <3> HIDE DEF A
      <3> QED BY <2>2, <3>1
    <2>3. CASE second.form # "separate"
      <3>1. PICK x : B = <<x>>
        BY <2>1, <2>3 DEF Arguments
      <3> HIDE DEF A, B
      <3> QED BY <2>3, <3>1
    <2> QED BY <2>2, <2>3
  <1>3. a \in {1, 2} /\ b \in {1, 2}
    OBVIOUS
  <1> HIDE DEF A, B, S, a, b
  <1> DEFINE v == A \o B
  <1>4. /\ Len(v) = a + b
        /\ \A i \in 1 .. a + b : v[i] = IF i <= a THEN A[i] ELSE B[i - a]
    <2>1. Len(v) = Len(A) + Len(B)
      BY <1>1, <1>2, ConcatProperties, Zenon
    <2>2. \A i \in 1 .. Len(A) + Len(B) : v[i] = IF i <= Len(A) THEN A[i] ELSE B[i - Len(A)]
      BY <1>1, <1>2, ConcatProperties, Zenon
    <2> QED BY <1>1, <1>2, <2>1, <2>2, Zenon
  <1> HIDE DEF v
  <1>5. PICK f : Folding(v, a + b, f) /\ UnityParseOptions(v) = Finish(f[a + b])
    <2>1. Len(v) \in Nat
      BY <1>3, <1>4
    <2> QED BY <1>4, <2>1, OptionsAre, Zenon
  <1>6. ASSUME NEW i \in 1 .. a + b PROVE f[i] = ParseArgument(f[i - 1], v[i])
    BY <1>5, Zenon DEF Folding
  <1>7. f[a] = After(NoOptions, first)
    <2>1. f[0] = NoOptions
      BY <1>5, Zenon DEF Folding
    <2>2. 1 \in 1 .. a + b /\ 1 <= a /\ 1 - 1 = 0
      BY <1>3
    <2>3. f[1] = ParseArgument(NoOptions, A[1])
      BY <1>4, <1>6, <2>1, <2>2, Zenon
    <2>4. CASE first.form = "separate"
      <3>1. a = 2
        BY <2>4 DEF a
      <3>2. 2 \in 1 .. a + b /\ 2 <= a /\ 2 - 1 = 1
        BY <1>3, <3>1
      <3>3. f[2] = ParseArgument(f[1], A[2])
        BY <1>4, <1>6, <3>2, Zenon
      <3> QED BY <2>3, <2>4, <3>1, <3>3, Zenon DEF After, A
    <2>5. CASE first.form # "separate"
      <3>1. a = 1
        BY <2>5 DEF a
      <3> QED BY <2>3, <2>5, <3>1, Zenon DEF After, A
    <2> QED BY <2>4, <2>5
  <1>8. f[a + b] = After(f[a], second)
    <2>1. /\ a + 1 \in 1 .. a + b /\ ~(a + 1 <= a) /\ (a + 1) - 1 = a /\ (a + 1) - a = 1
      BY <1>3
    <2>2. f[a + 1] = ParseArgument(f[a], B[1])
      BY <1>4, <1>6, <2>1, Zenon
    <2>3. CASE second.form = "separate"
      <3>1. b = 2
        BY <2>3 DEF b
      <3>2. /\ a + 2 \in 1 .. a + b /\ ~(a + 2 <= a) /\ (a + 2) - 1 = a + 1
            /\ (a + 2) - a = 2
        BY <1>3, <3>1
      <3>3. f[a + 2] = ParseArgument(f[a + 1], B[2])
        BY <1>4, <1>6, <3>2, Zenon
      <3> QED BY <2>2, <2>3, <3>1, <3>3, Zenon DEF After, B
    <2>4. CASE second.form # "separate"
      <3>1. b = 1
        BY <2>4 DEF b
      <3> QED BY <2>2, <2>4, <3>1, Zenon DEF After, B
    <2> QED BY <2>3, <2>4
  <1> QED BY <1>5, <1>7, <1>8, Zenon DEF v, A, B

\* What two settings leave behind: the last pattern of each kind.
LEMMA OptionsOfLine ==
  ASSUME NEW first \in Settings, NEW second \in Settings,
         first.form = "bare" => first.option \in {Opt.q, Opt.v},
         NEW o, o = UnityParseOptions(Arguments(first) \o Arguments(second))
  PROVE  /\ o.ret = 0 <=> (second.form = "bare" => second.option \in {Opt.q, Opt.v})
         /\ o.ret = 0 =>
              /\ o.UnityOptionIncludeNamed
                   = IF Includes(second) THEN second.pattern.text
                     ELSE IF Includes(first) THEN first.pattern.text ELSE NullString
              /\ o.UnityOptionExcludeNamed
                   = IF Excludes(second) THEN second.pattern.text
                     ELSE IF Excludes(first) THEN first.pattern.text ELSE NullString
  <1> DEFINE p == After(NoOptions, first)
             q == After(p, second)
             Kept(r, s) == /\ r.ret = 0 /\ r.awaits = 0 /\ r \in OptionsType
                           /\ r.UnityOptionIncludeNamed
                                = IF Includes(s) THEN s.pattern.text ELSE NullString
                           /\ r.UnityOptionExcludeNamed
                                = IF Excludes(s) THEN s.pattern.text ELSE NullString
  <1>1. NoOptions \in OptionsType /\ NoOptions.ret = 0 /\ NoOptions.awaits = 0
        /\ NoOptions.UnityOptionIncludeNamed = NullString
        /\ NoOptions.UnityOptionExcludeNamed = NullString
    <2>1. NullString \in Seq(Int)
      BY DEF NullString
    <2> QED BY <2>1 DEF NoOptions, OptionsType
  <1>2. /\ p \in OptionsType /\ p.ret = 0 /\ p.awaits = 0
        /\ p.UnityOptionIncludeNamed = IF Includes(first) THEN first.pattern.text ELSE NullString
        /\ p.UnityOptionExcludeNamed = IF Excludes(first) THEN first.pattern.text ELSE NullString
    <2>1. CASE first.form = "bare"
      <3>1. ~Includes(first) /\ ~Excludes(first)
        BY <2>1 DEF Includes, Excludes
      <3> QED BY <1>1, <2>1, <3>1, BareIs
    <2>2. CASE first.form # "bare"
      <3>1. p = Applied(NoOptions, first) /\ p \in OptionsType
        BY <1>1, <2>2, AppliedIs
      <3> HIDE DEF p
      <3> QED BY <1>1, <3>1 DEF Applied, OptionsType
    <2> QED BY <2>1, <2>2
  <1>3. o = Finish(q)
    BY LineIs
  <1> HIDE DEF p
  <1>4. CASE second.form = "bare"
    <2>1. ~Includes(second) /\ ~Excludes(second)
      BY <1>4 DEF Includes, Excludes
    <2>2. CASE second.option \in {Opt.q, Opt.v}
      <3>1. /\ q.ret = 0 /\ q.awaits = 0
            /\ q.UnityOptionIncludeNamed = p.UnityOptionIncludeNamed
            /\ q.UnityOptionExcludeNamed = p.UnityOptionExcludeNamed
        BY <1>2, <1>4, <2>2, BareIs
      <3> HIDE DEF q
      <3>2. o = q
        BY <1>3, <3>1 DEF Finish
      <3> QED BY <1>2, <2>1, <2>2, <3>1, <3>2
    <2>3. CASE second.option \notin {Opt.q, Opt.v}
      <3>1. q \in OptionsType /\ (q.awaits # 0 \/ q.ret # 0)
        BY <1>2, <1>4, <2>3, BareIs
      <3> HIDE DEF q
      <3>2. CASE q.awaits # 0
        <4>1. o = [q EXCEPT !.ret = 1]
          BY <1>3, <3>2 DEF Finish
        <4>2. o.ret = 1
          BY <3>1, <4>1 DEF OptionsType
        <4> QED BY <1>4, <2>3, <4>2
      <3>3. CASE q.awaits = 0
        <4>1. o = q
          BY <1>3, <3>3 DEF Finish
        <4> QED BY <1>4, <2>3, <3>1, <3>3, <4>1
      <3> QED BY <3>2, <3>3
    <2> QED BY <2>2, <2>3
  <1>5. CASE second.form # "bare"
    <2>1. q = Applied(p, second)
      BY <1>2, <1>5, AppliedIs
    <2> HIDE DEF q
    <2>2. /\ q.ret = 0 /\ q.awaits = 0
          /\ q.UnityOptionIncludeNamed
               = IF Includes(second) THEN second.pattern.text ELSE p.UnityOptionIncludeNamed
          /\ q.UnityOptionExcludeNamed
               = IF Excludes(second) THEN second.pattern.text ELSE p.UnityOptionExcludeNamed
      BY <1>2, <2>1 DEF Applied, OptionsType
    <2>3. o = q
      BY <1>3, <2>2 DEF Finish
    <2> QED BY <1>2, <1>5, <2>2, <2>3
  <1> QED BY <1>4, <1>5

\* What the property says of a pattern, of the last one, and of the test.
Selects(pattern, test) == \E part \in pattern.parts : Picks(part, test.file, test.name)

Given(first, second, options) ==
  {k \in 1 .. 2 : /\ <<first, second>>[k].option \in options
                  /\ <<first, second>>[k].form # "bare"}

Latest(first, second, options) == <<first, second>>[Max(Given(first, second, options))].pattern

Selected(first, second, test) ==
  /\ second.form = "bare" => second.option \in {Opt.q, Opt.v}
  /\ Given(first, second, {Opt.n, Opt.f}) # {} =>
       Selects(Latest(first, second, {Opt.n, Opt.f}), test)
  /\ Given(first, second, {Opt.x}) # {} => ~Selects(Latest(first, second, {Opt.x}), test)

LEMMA SelectionIs ==
  /\ SelectionRight
       <=> (call.fn = "Select" => passed = Selected(call.first, call.second, call.test))
  /\ SelectionRight'
       <=> (call'.fn = "Select" => passed' = Selected(call'.first, call'.second, call'.test))
  BY Zenon DEF SelectionRight, Selected, Selects, Given, Latest, Picks, FoundIn

Gives(s, options) == s.option \in options /\ s.form # "bare"

\* The last of two settings that gives a pattern.
LEMMA LatestIs ==
  ASSUME NEW first, NEW second, NEW options
  PROVE  /\ Given(first, second, options) # {} <=> Gives(first, options) \/ Gives(second, options)
         /\ Gives(second, options) => Latest(first, second, options) = second.pattern
         /\ Gives(first, options) /\ ~Gives(second, options) =>
              Latest(first, second, options) = first.pattern
  <1> DEFINE S == Given(first, second, options)
  <1>1. /\ S \subseteq {1, 2} /\ (1 \in S <=> Gives(first, options))
        /\ 2 \in S <=> Gives(second, options)
    <2>1. \A k \in 1 .. 2 : k = 1 \/ k = 2
      OBVIOUS
    <2>2. /\ <<first, second>>[1] = first /\ <<first, second>>[2] = second
          /\ 1 \in 1 .. 2 /\ 2 \in 1 .. 2
      OBVIOUS
    <2> QED BY <2>1, <2>2, Zenon DEF Given, Gives
  <1>2. Latest(first, second, options) = <<first, second>>[Max(S)].pattern
    BY Zenon DEF Latest
  <1> HIDE DEF S
  <1>3. 2 \in S => Max(S) = 2
    <2> SUFFICES ASSUME 2 \in S PROVE Max(S) = 2
      OBVIOUS
    <2>1. \A k \in S : 2 >= k
      BY <1>1
    <2>2. \A m \in S : (\A k \in S : m >= k) => m = 2
      BY <1>1
    <2> QED BY <2>1, <2>2, Zenon DEF Max
  <1>4. 1 \in S /\ 2 \notin S => Max(S) = 1
    <2> SUFFICES ASSUME 1 \in S, 2 \notin S PROVE Max(S) = 1
      OBVIOUS
    <2>1. S = {1}
      BY <1>1
    <2> QED BY <2>1, GreatestIs
  <1>5. S # {} <=> (1 \in S \/ 2 \in S)
    BY <1>1
  <1>6. Gives(second, options) => Latest(first, second, options) = second.pattern
    BY <1>1, <1>2, <1>3
  <1>7. Gives(first, options) /\ ~Gives(second, options) =>
          Latest(first, second, options) = first.pattern
    BY <1>1, <1>2, <1>4
  <1> QED BY <1>1, <1>5, <1>6, <1>7 DEF S

\* The code decides as the property says.
LEMMA SelectedIs ==
  ASSUME NEW first \in Settings, NEW second \in Settings, NEW test \in Tests,
         first.form = "bare" => first.option \in {Opt.q, Opt.v},
         NEW o, o = UnityParseOptions(Arguments(first) \o Arguments(second))
  PROVE  (o.ret = 0 /\ UnityTestMatches(o, test.file, test.name))
           <=> Selected(first, second, test)
  <1> DEFINE bare == second.form = "bare" => second.option \in {Opt.q, Opt.v}
             matches(str) == UnityStringArgumentMatches(str, test.file, test.name)
             in == o.UnityOptionIncludeNamed
             ex == o.UnityOptionExcludeNamed
             Incl == {Opt.n, Opt.f}
             Excl == {Opt.x}
  <1>1. /\ o.ret = 0 <=> bare
        /\ bare => /\ in = IF Includes(second) THEN second.pattern.text
                           ELSE IF Includes(first) THEN first.pattern.text ELSE NullString
                   /\ ex = IF Excludes(second) THEN second.pattern.text
                           ELSE IF Excludes(first) THEN first.pattern.text ELSE NullString
    BY OptionsOfLine
  <1>2. ASSUME NEW s \in Settings
        PROVE  s.pattern.text # NullString /\ (matches(s.pattern.text) <=> Selects(s.pattern, test))
    <2>1. /\ s.pattern.text \in Seq(Int) /\ s.pattern.text # NullString
          /\ s.pattern.parts \in SUBSET [file : Name, name : Name]
          /\ \A p \in s.pattern.parts : p.name = <<>> => p.file = <<>>
          /\ Reads(s.pattern.text, s.pattern.parts)
      BY SettingIs, Zenon
    <2>2. test.file \in Seq(Int) /\ test.name \in Seq(Int)
      <3>1. test.file \in Seq(-128 .. 127) /\ test.name \in Seq(-128 .. 127)
        BY TestsAssumption
      <3>2. -128 .. 127 \in SUBSET Int
        OBVIOUS
      <3> QED BY <3>1, <3>2, WiderSeq, Zenon
    <2> QED BY <2>1, <2>2, PatternIs, Zenon DEF Selects
  <1>3. UnityTestMatches(o, test.file, test.name)
          <=> (in # NullString => matches(in)) /\ (ex # NullString => ~matches(ex))
    BY Zenon DEF UnityTestMatches
  <1>4. Includes(first) <=> Gives(first, Incl)
    BY Zenon DEF Includes, Gives
  <1>5. Includes(second) <=> Gives(second, Incl)
    BY Zenon DEF Includes, Gives
  <1>6. Excludes(first) <=> Gives(first, Excl)
    BY Zenon DEF Excludes, Gives
  <1>7. Excludes(second) <=> Gives(second, Excl)
    BY Zenon DEF Excludes, Gives
  <1> HIDE DEF bare, matches, in, ex, Incl, Excl
  <1>8. ASSUME bare
        PROVE  (in # NullString => matches(in))
                 <=> (Given(first, second, Incl) # {} => Selects(Latest(first, second, Incl), test))
    <2>1. /\ Given(first, second, Incl) # {} <=> (Includes(first) \/ Includes(second))
          /\ Includes(second) => Latest(first, second, Incl) = second.pattern
          /\ Includes(first) /\ ~Includes(second) => Latest(first, second, Incl) = first.pattern
      BY <1>4, <1>5, LatestIs, Zenon
    <2>2. CASE Includes(second)
      BY <1>1, <1>2, <1>8, <2>1, <2>2, Zenon
    <2>3. CASE ~Includes(second) /\ Includes(first)
      BY <1>1, <1>2, <1>8, <2>1, <2>3, Zenon
    <2>4. CASE ~Includes(second) /\ ~Includes(first)
      BY <1>1, <1>8, <2>1, <2>4, Zenon
    <2> QED BY <2>2, <2>3, <2>4
  <1>9. ASSUME bare
        PROVE  (ex # NullString => ~matches(ex))
                 <=> (Given(first, second, Excl) # {} =>
                        ~Selects(Latest(first, second, Excl), test))
    <2>1. /\ Given(first, second, Excl) # {} <=> (Excludes(first) \/ Excludes(second))
          /\ Excludes(second) => Latest(first, second, Excl) = second.pattern
          /\ Excludes(first) /\ ~Excludes(second) => Latest(first, second, Excl) = first.pattern
      BY <1>6, <1>7, LatestIs, Zenon
    <2>2. CASE Excludes(second)
      BY <1>1, <1>2, <1>9, <2>1, <2>2, Zenon
    <2>3. CASE ~Excludes(second) /\ Excludes(first)
      BY <1>1, <1>2, <1>9, <2>1, <2>3, Zenon
    <2>4. CASE ~Excludes(second) /\ ~Excludes(first)
      BY <1>1, <1>9, <2>1, <2>4, Zenon
    <2> QED BY <2>2, <2>3, <2>4
  <1>10. Selected(first, second, test)
           <=> /\ bare
               /\ Given(first, second, Incl) # {} => Selects(Latest(first, second, Incl), test)
               /\ Given(first, second, Excl) # {} => ~Selects(Latest(first, second, Excl), test)
    BY Zenon DEF Selected, bare, Incl, Excl
  <1> QED BY <1>1, <1>3, <1>8, <1>9, <1>10, Zenon

LEMMA SelectionRightStep ==
  ASSUME Next
  PROVE  SelectionRight'
  <1> SUFFICES ASSUME call'.fn = "Select"
               PROVE  passed' = Selected(call'.first, call'.second, call'.test)
    BY SelectionIs
  <1>1. Select
    BY CallIs DEF NoCall
  <1>2. PICK first \in Settings, second \in Settings, test \in Tests :
          /\ first.form = "bare" => first.option \in {Opt.q, Opt.v}
          /\ LET o == UnityParseOptions(Arguments(first) \o Arguments(second))
             IN  /\ call' = [fn |-> "Select", first |-> first, second |-> second, test |-> test]
                 /\ passed' = (o.ret = 0 /\ UnityTestMatches(o, test.file, test.name))
    BY <1>1, Zenon DEF Select, Make
  <1>3. call'.first = first /\ call'.second = second /\ call'.test = test
    BY <1>2
  <1> DEFINE o == UnityParseOptions(Arguments(first) \o Arguments(second))
             holds == o.ret = 0 /\ UnityTestMatches(o, test.file, test.name)
  <1>4. passed' = holds
    BY <1>2, Zenon
  <1>5. holds <=> Selected(first, second, test)
    BY <1>2, SelectedIs, Zenon
  <1>6. holds \in BOOLEAN /\ Selected(first, second, test) \in BOOLEAN
    BY Zenon DEF Selected
  <1> HIDE DEF holds
  <1>7. holds = Selected(first, second, test)
    BY <1>5, <1>6
  <1> QED BY <1>3, <1>4, <1>7, Zenon

\* A test runs exactly if the last pattern to include has a part that is found
\* in the name of its file or of itself, or one for each, and the last pattern
\* to exclude has none, for all patterns and names: SelectionRight.
THEOREM SelectionRightHolds == Spec => []SelectionRight
  <1>1. Init => SelectionRight
    BY DEF Init, NoCall, SelectionRight
  <1>2. SelectionRight /\ [Next]_vars => SelectionRight'
    <2>1. SelectionRight /\ UNCHANGED vars => SelectionRight'
      <3> SUFFICES ASSUME SelectionRight, UNCHANGED vars PROVE SelectionRight'
        OBVIOUS
      <3>1. call' = call /\ passed' = passed
        BY DEF vars
      <3> QED BY <3>1, SelectionIs, Zenon
    <2> QED BY <2>1, SelectionRightStep
  <1> QED BY <1>1, <1>2, PTL DEF Spec
=============================================================================
