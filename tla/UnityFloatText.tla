--------------------------- MODULE UnityFloatText ---------------------------
(***************************************************************************)
(* UnityPrintFloat of src/unity.c.  A number is a fraction num / den; the  *)
(* decimal digits kept are SigDigits instead of seven, or nine with        *)
(* UNITY_INCLUDE_DOUBLE.  The multiplications and divisions by powers of   *)
(* ten are rounded: together they change a number by a factor, rounding,   *)
(* that is near one.  Where one ends on a power of ten a loop may end a    *)
(* round later in the code than here, and the text is that power all the   *)
(* same.  What is printed is a record: n with a point before its last      *)
(* decimals digits, and the exponent unless it is zero.  Infinities and    *)
(* NaN are words.                                                          *)
(***************************************************************************)
EXTENDS Integers, FiniteSetsExt

CONSTANTS
  SigDigits,   \* sig_digits
  MaxRounds,   \* rounds of a loop that looks for a scale
  Roundings    \* by what factors the roundings may change a number

ASSUME SigDigitsAssumption == SigDigits \in 2 .. MaxRounds + 1 /\ MaxRounds \in Nat

ASSUME RoundingsAssumption ==
  /\ Roundings \subseteq [num : Nat \ {0}, den : Nat \ {0}]
  /\ \A r \in Roundings : r.num <= 2 * r.den /\ r.den <= 2 * r.num

\* factor and divisor are powers of ten.
Ten[k \in Nat] == IF k = 0 THEN 1 ELSE 10 * Ten[k - 1]

min_scaled == Ten[SigDigits - 1]
max_scaled == Ten[SigDigits]

\* number * 10^k
Scale(number, k) ==
  IF k >= 0 THEN [number EXCEPT !.num = @ * Ten[k]]
  ELSE [number EXCEPT !.den = @ * Ten[-k]]

\* Its sign against that of m.
IsLess(number, m) == number.num < m * number.den
IsMore(number, m) == number.num > m * number.den

\* The number of rounds after which a loop is done.
Rounds(Done(_)) ==
  CHOOSE j \in 0 .. MaxRounds : Done(j) /\ \A i \in 0 .. j - 1 : ~Done(i)

\* A number after the roundings; zero stays zero.
Off(number, rounding) ==
  IF number.num = 0 THEN number
  ELSE [num |-> number.num * rounding.num, den |-> number.den * rounding.den]

\* What a number has behind the point, split off exactly and then rounded.  It
\* is further below one than a rounding goes, as the number is no less than one.
Fraction(number, rounding) ==
  LET part == [number EXCEPT !.num = @ - (@ \div number.den) * number.den]
      off  == Off(part, rounding)
  IN  IF IsLess(off, 1) THEN off ELSE part

\* A positive number as an integer of SigDigits digits, a fraction to be added
\* to it, and the exponent of both.
Split(number, rounding) ==
  LET off == Off(number, rounding)
  IN  CASE IsLess(number, 1) ->
             LET k == Rounds(LAMBDA j : ~IsLess(Scale(off, j), min_scaled))
             IN  [n_int |-> 0, rest |-> Scale(off, k), exponent |-> -k]
        [] IsMore(number, max_scaled) ->
             LET k == Rounds(LAMBDA j : ~IsMore(Scale(off, -j), max_scaled))
             IN  [n_int |-> 0, rest |-> Scale(off, -k), exponent |-> k]
        [] OTHER ->
             LET whole == number.num \div number.den
                 k     == Rounds(LAMBDA j : whole * Ten[j] >= min_scaled)
             IN  [n_int |-> whole * Ten[k], exponent |-> -k,
                  rest  |-> Scale(Fraction(number, rounding), k)]

\* Mutant: digits are cut off.
Nearest_Down(x) == x.num \div x.den

\* To the nearest integer, and to the even one of two, as if there was no n_int.
Nearest(x) ==
  LET n == ((2 * x.num) \div x.den + 1) \div 2
  IN  IF n % 2 = 1 /\ 2 * (n * x.den - x.num) = x.den THEN n - 1 ELSE n

UnityPrintFloat(number, rounding) ==
  LET minus     == number.num < 0
      s         == Split([number EXCEPT !.num = IF minus THEN -@ ELSE @], rounding)
      rounded   == Nearest(s.rest) + s.n_int
      carry     == rounded >= max_scaled
      n         == IF carry THEN min_scaled ELSE rounded
      exponent  == IF carry THEN s.exponent + 1 ELSE s.exponent
      decimals  == IF exponent \in -(SigDigits + 3) .. 0 THEN -exponent
                   ELSE SigDigits - 1
      zeroes    == Max({z \in 0 .. decimals : n % Ten[z] = 0})
  IN  IF number.num = 0 THEN [minus |-> FALSE, n |-> 0, decimals |-> 0, exponent |-> 0]
      ELSE [minus    |-> minus,
            n        |-> n \div Ten[zeroes],
            decimals |-> decimals - zeroes,
            exponent |-> exponent + decimals]
=============================================================================
