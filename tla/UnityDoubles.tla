---------------------------- MODULE UnityDoubles ----------------------------
(***************************************************************************)
(* The double assertions of Unity (UNITY_INCLUDE_DOUBLE): the code of the  *)
(* float ones once more, for another precision and range.                  *)
(***************************************************************************)
EXTENDS UnityFloats

CONSTANTS DoublePrecision, DoubleMax

ASSUME DoubleAssumption == /\ DoublePrecision \in Nat \ {0} /\ DoubleMax \in Nat \ {0}
                           /\ 2 * DoubleMax < Inf

Double == INSTANCE UnityFloats WITH Precision <- DoublePrecision, FloatMax <- DoubleMax

UnityDoublesWithin(delta, expected, actual) ==
  Double!UnityFloatsWithin(delta, expected, actual)

UnityAssertDoublesWithin(delta, expected, actual) ==
  UnityDoublesWithin(delta, expected, actual)

UnityAssertDoublesNotWithin(delta, expected, actual) ==
  ~UnityDoublesWithin(delta, expected, actual)

UnityAssertWithinDoubleArray(mem, delta, expected, actual, num_elements, flags) ==
  Double!UnityAssertWithinFloatArray(mem, delta, expected, actual, num_elements, flags)

UnityAssertGreaterOrLessDouble(threshold, actual, compare) ==
  Double!UnityAssertGreaterOrLessFloat(threshold, actual, compare)

UnityAssertDoubleSpecial(actual, trait, should_be_trait) ==
  Double!UnityAssertFloatSpecial(actual, trait, should_be_trait)

AssertEqualDouble(expected, actual) == Double!AssertEqualFloat(expected, actual)

AssertNotEqualDouble(expected, actual) == Double!AssertNotEqualFloat(expected, actual)
=============================================================================
