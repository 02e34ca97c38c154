---------------------------- MODULE UnityFloats -----------------------------
(***************************************************************************)
(* The float assertions of Unity, src/unity.c; those of doubles are the    *)
(* same but for the type.  A float is NaN, an infinity or an integer that  *)
(* counts some unit; a difference beyond FloatMax is infinite, and what is *)
(* added to an infinity, FloatMax at most, does not bring it back.  The    *)
(* values asserted about are multiples of Precision units, so that the     *)
(* product with UNITY_FLOAT_PRECISION = 1 / Precision is exact: rounding   *)
(* is not modelled.                                                        *)
(***************************************************************************)
EXTENDS UnityNumbers

CONSTANTS
  Precision, FloatMax,
  Inf, NaN              \* stand for an infinity and for no number

ASSUME FloatAssumption == /\ Precision \in Nat \ {0} /\ FloatMax \in Nat \ {0}
                          /\ Inf \in Nat /\ 2 * FloatMax < Inf
                          /\ NaN \in Nat /\ Inf < NaN

isnan(x) == x = NaN
isinf(x) == x \in {Inf, -Inf}

Less(x, y) == ~isnan(x) /\ ~isnan(y) /\ x < y
Rounded(x) == IF x > FloatMax THEN Inf ELSE IF x < -FloatMax THEN -Inf ELSE x
Plus(x, y) == IF isnan(x) \/ isnan(y) \/ (isinf(x) /\ y = -x) THEN NaN
              ELSE Rounded(x + y)
Neg(x) == IF isnan(x) THEN NaN ELSE -x
Abs(x) == IF Less(x, 0) THEN -x ELSE x
TimesPrecision(x) == IF isnan(x) \/ isinf(x) THEN x ELSE x \div Precision

-----------------------------------------------------------------------------

\* Mutant: two infinities count as equal whatever their signs.
UnityFloatsWithin_Infinite(delta, expected, actual) ==
  LET diff == Abs(Plus(actual, Neg(expected)))
  IN  \/ isinf(expected) /\ isinf(actual)
      \/ isnan(expected) /\ isnan(actual)
      \/ ~(isnan(diff) \/ isinf(diff) \/ Less(Abs(delta), diff))

\* UNITY_FLOAT_OR_DOUBLE_WITHIN.  A NaN for delta holds whatever is finite.
UnityFloatsWithin(delta, expected, actual) ==
  LET diff == Abs(Plus(actual, Neg(expected)))
  IN  \/ isinf(expected) /\ isinf(actual) /\ (expected < 0) = (actual < 0)
      \/ isnan(expected) /\ isnan(actual)
      \/ ~(isnan(diff) \/ isinf(diff) \/ Less(Abs(delta), diff))

UnityAssertFloatsWithin(delta, expected, actual) ==
  UnityFloatsWithin(delta, expected, actual)

UnityAssertFloatsNotWithin(delta, expected, actual) ==
  ~UnityFloatsWithin(delta, expected, actual)

AssertEqualFloat(expected, actual) ==
  UnityAssertFloatsWithin(TimesPrecision(expected), expected, actual)

AssertNotEqualFloat(expected, actual) ==
  UnityAssertFloatsNotWithin(TimesPrecision(expected), expected, actual)

\* The tolerance grows with the element, whatever delta says.
UnityAssertWithinFloatArray(mem, delta, expected, actual, num_elements, flags) ==
  /\ num_elements > 0
  /\ ~isnan(delta)
  /\ \/ isinf(delta)
     \/ ArraysHold(expected, actual, num_elements,
          LAMBDA i : LET e == mem[expected][Walk(i, flags) + 1]
                     IN  UnityFloatsWithin(Plus(Abs(delta), Abs(TimesPrecision(e))),
                                           e, mem[actual][i + 1]))

\* The comparison has to succeed, which with NaN it does not.
UnityAssertGreaterOrLessFloat(threshold, actual, compare) ==
  \/ /\ "smaller" \in compare => Less(actual, threshold)
     /\ "greater" \in compare => Less(threshold, actual)
  \/ /\ "equal" \in compare
     /\ UnityFloatsWithin(TimesPrecision(threshold), threshold, actual)

Traits == {"inf", "neg_inf", "nan", "det"}

\* UNITY_FLOAT_TRAIT_T is a trait and whether it is asked for or its opposite.
UnityAssertFloatSpecial(actual, trait, should_be_trait) ==
  LET is_trait == CASE trait = "inf"     -> isinf(actual) /\ actual > 0
                    [] trait = "neg_inf" -> isinf(actual) /\ actual < 0
                    [] trait = "nan"     -> isnan(actual)
                    [] trait = "det"     -> ~isinf(actual) /\ ~isnan(actual)
  IN  is_trait = should_be_trait
=============================================================================
