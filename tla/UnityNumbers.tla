---------------------------- MODULE UnityNumbers ----------------------------
(***************************************************************************)
(* The integer assertions of Unity, src/unity.c, with the conversions the  *)
(* macros of unity_internals.h make of their arguments.  An assertion is   *)
(* an operator that tells whether it holds.  Memory is a function from     *)
(* pointers to sequences of bytes; the loops over arrays stop at the first *)
(* element that differs.                                                   *)
(***************************************************************************)
EXTENDS UnityText, FiniteSetsExt

NULL == 0

\* The type a macro converts its arguments to, written as the style that names
\* it: the style the assertion is made in, but for the macros INT and UINT,
\* which have the style of an int and convert to UNITY_INT and nothing else.
ArgumentTypes(style) ==
  {type \in Styles :
     \/ type = style
     \/ /\ style.range \in {"int", "uint"} /\ style.length = IntBytes
        /\ type = [style EXCEPT !.length = WideBytes]}

\* The arguments of the EQUAL macros: signed unless the style is unsigned.
EqualArgument(n, type) ==
  IF type.range = "uint" THEN Signed(Unsigned(n, type.length), WideBytes)
  ELSE Signed(n, type.length)

\* Those of NOT_EQUAL, the comparisons and WITHIN, where HEX is unsigned too.
OrderArgument(n, type) ==
  IF IsInt(type) THEN Signed(n, type.length)
  ELSE Signed(Unsigned(n, type.length), WideBytes)

\* INT and UINT do not convert delta: it becomes the UNITY_UINT of the function.
DeltaArgument(n, type) == Unsigned(n, type.length)

-----------------------------------------------------------------------------

UnityAssertBits(mask, expected, actual) ==
  \A k \in 0 .. 8 * WideBytes - 1 : Bit(mask, k) = 1 => Bit(expected, k) = Bit(actual, k)

UnityAssertEqualNumber(expected, actual) == expected = actual

\* UNITY_COMPARISON_T is the set of its bits; UNITY_NOT_EQUAL has none.
Comparisons == {{}, {"greater"}, {"smaller"}, {"greater", "equal"}, {"smaller", "equal"}}

\* How the two compare as numbers of the style.
AsStyle(n, style) == IF IsInt(style) THEN n ELSE Unsigned(n, WideBytes)

\* Mutant: unsigned numbers are compared as signed ones.
UnityAssertGreaterOrLessOrEqualNumber_Signed(threshold, actual, compare, style) ==
  IF threshold = actual THEN "equal" \in compare
  ELSE /\ actual > threshold => "smaller" \notin compare
       /\ actual < threshold => "greater" \notin compare

UnityAssertGreaterOrLessOrEqualNumber(threshold, actual, compare, style) ==
  LET t == AsStyle(threshold, style)
      a == AsStyle(actual, style)
  IN  IF threshold = actual THEN "equal" \in compare
      ELSE /\ a > t => "smaller" \notin compare
           /\ a < t => "greater" \notin compare

\* The difference is taken as UNITY_UINT, whatever the style.
UnityAssertNumbersWithin(delta, expected, actual, style) ==
  LET e == AsStyle(expected, style)
      a == AsStyle(actual, style)
  IN  (IF a > e THEN Unsigned(actual - expected, WideBytes)
       ELSE Unsigned(expected - actual, WideBytes)) <= delta

-----------------------------------------------------------------------------
(* Arrays *)

\* The number in the bytes of element i, the least byte first.
Element(bytes, i, length) ==
  LET number[k \in 1 .. length + 1] ==
        IF k > length THEN 0 ELSE bytes[i * length + k] + 256 * number[k + 1]
  IN  number[1]

\* What the array assertions start with: no element is a failure, the same
\* pointer twice is not, one NULL pointer is (UnityIsOneArrayNull).
ArraysHold(expected, actual, num_elements, Holds(_)) ==
  /\ num_elements > 0
  /\ \/ expected = actual
     \/ /\ NULL \notin {expected, actual}
        /\ \A i \in 0 .. num_elements - 1 : Holds(i)

\* flags: expected is an array as well (UNITY_ARRAY_TO_ARRAY), or one value
\* all elements are compared with (UNITY_ARRAY_TO_VAL).
Walk(i, flags) == IF flags = "array" THEN i ELSE 0

\* What is read of an element.
EqualElement(bytes, i, style) ==
  IF IsInt(style) \/ style.length = WideBytes
  THEN Signed(Element(bytes, i, style.length), style.length)
  ELSE Element(bytes, i, style.length)

UnityAssertEqualIntArray(mem, expected, actual, num_elements, style, flags) ==
  ArraysHold(expected, actual, num_elements,
             LAMBDA i : EqualElement(mem[expected], Walk(i, flags), style)
                          = EqualElement(mem[actual], i, style))

WithinElement(bytes, i, style) ==
  IF IsInt(style) THEN Signed(Element(bytes, i, style.length), style.length)
  ELSE Signed(Element(bytes, i, style.length), WideBytes)

UnityAssertNumbersArrayWithin(mem, delta, expected, actual, num_elements, style, flags) ==
  ArraysHold(expected, actual, num_elements,
             LAMBDA i : UnityAssertNumbersWithin(delta,
                          WithinElement(mem[expected], Walk(i, flags), style),
                          WithinElement(mem[actual], i, style), style))

\* A zero length is a failure as well.
UnityAssertEqualMemory(mem, expected, actual, length, num_elements, flags) ==
  /\ length > 0
  /\ ArraysHold(expected, actual, num_elements,
                LAMBDA i : \A k \in 1 .. length :
                             mem[expected][Walk(i, flags) * length + k]
                               = mem[actual][i * length + k])

\* Mutant: every number is stored as if it were one byte wide.
UnityNumToPtr_Byte(quick, num, size) == [quick EXCEPT ![1] = Unsigned(num, 1)]

\* UnityNumToPtr writes the value of an EACH_EQUAL assertion to a union that
\* all of them share; the bytes behind the value stay.
UnityNumToPtr(quick, num, size) ==
  [k \in DOMAIN quick |->
     IF k <= size THEN (Unsigned(num, WideBytes) \div 2^(8 * (k - 1))) % 256 ELSE quick[k]]
=============================================================================
