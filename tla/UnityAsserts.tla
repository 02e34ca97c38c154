---------------------------- MODULE UnityAsserts ----------------------------
(***************************************************************************)
(* The assertions a test program of Unity makes, one after the other, and  *)
(* its choice of tests: an action per function of src/unity.c, for the     *)
(* arguments of given sets.  The assertions share nothing but quick, the   *)
(* union the EACH_EQUAL ones take their value from; what an assertion that *)
(* fails does to the test is in UnityCore.                                 *)
(***************************************************************************)
EXTENDS UnityDoubles, UnityFloatText, UnityStrings

CONSTANTS
  Numbers, Deltas,          \* integers asserted about, and tolerances
  Arrays,                   \* contents of arrays of integers
  EachValues,               \* values of EACH_EQUAL assertions
  Floats, FloatDeltas, FloatArrays,
  ShownFloats,              \* fractions printed
  Strings, StringArrays,
  Settings,                 \* what a command line may ask for
  Tests                     \* file and name of the tests

\* All arrays of integers have one length, those of floats two elements.  The
\* floats are values of both types.
ASSUME NumbersAssumption == Numbers \cup Deltas \cup EachValues \subseteq Int

ASSUME ArraysAssumption ==
  \A b, c \in Arrays : b \in Seq(0 .. 255) /\ Len(b) = Len(c)

ASSUME FloatsAssumption ==
  LET Values == {NaN, Inf, -Inf} \cup ((-FloatMax .. FloatMax) \cap (-DoubleMax .. DoubleMax))
  IN  Floats \cup FloatDeltas \subseteq Values /\ FloatArrays \subseteq [1 .. 2 -> Values]

\* The exponents of the fractions printed are within those of the type.
ASSUME ShownFloatsAssumption ==
  /\ ShownFloats \subseteq [num : Int, den : Nat \ {0}]
  /\ \A x \in ShownFloats, r \in Roundings :
       /\ x.num * r.num \in -Ten[MaxRounds] .. Ten[MaxRounds]
       /\ x.den * r.den * min_scaled <= Ten[MaxRounds]

\* A character is a signed char, and not the terminator.
ASSUME StringsAssumption ==
  LET Pointed == Seq((-128 .. 127) \ {0}) \cup {NullString}
  IN  Strings \subseteq Pointed /\ StringArrays \subseteq [1 .. 2 -> Pointed]

\* A pattern selects by its parts: a name, or a file and a name; neither stands
\* for every test.  A part begins where separators end, perhaps with an asterisk
\* behind it.
Separators == {Comma} \cup Quotes
Name == Seq((-128 .. 127) \ ({0, Star, Colon} \cup Separators))

Spell(part) == IF part.name = <<>> THEN <<Star>>
               ELSE IF part.file = <<>> THEN part.name
               ELSE part.file \o <<Colon>> \o part.name

Reads(text, parts) ==
  \E n \in 1 .. Len(text) :
  \E part \in [1 .. n -> parts], start \in [1 .. n -> 1 .. Len(text)] :
    /\ parts = {part[i] : i \in 1 .. n}
    /\ start[1] = IF text[1] \in Quotes THEN 2 ELSE 1
    /\ \A i \in 1 .. n :
         LET end   == start[i] + Len(Spell(part[i]))
             after == IF end <= Len(text) /\ text[end] = Star THEN end + 1 ELSE end
             next  == IF i = n THEN Len(text) + 1 ELSE start[i + 1]
         IN  /\ end <= Len(text) + 1 /\ SubSeq(text, start[i], end - 1) = Spell(part[i])
             /\ after <= next /\ (i < n => after < next)
             /\ \A k \in after .. next - 1 : text[k] \in Separators

ASSUME SettingsAssumption ==
  \A s \in Settings :
    /\ s.form \in {"attached", "separate", "bare"}
    /\ s.option \in {Opt.n, Opt.f, Opt.x} \cup IF s.form = "bare" THEN {Opt.l, Opt.q, Opt.v}
                                              ELSE {}
    /\ s.pattern.parts \subseteq [file : Name, name : Name]
    /\ \A part \in s.pattern.parts : part.name = <<>> => part.file = <<>>
    /\ s.pattern.text \in Seq(-128 .. 127) /\ Reads(s.pattern.text, s.pattern.parts)

ASSUME TestsAssumption == Tests \subseteq [file : Seq(-128 .. 127), name : Seq(-128 .. 127)]

VARIABLES
  call,     \* the assertion made last
  passed,   \* whether it held
  message,  \* the texts of its message for expected and actual, if not
  quick     \* UnityQuickCompare, byte by byte

vars == <<call, passed, message, quick>>

NoCall == [fn |-> "none"]

Init ==
  /\ call = NoCall /\ passed = TRUE /\ message = <<>>
  /\ quick = [k \in 1 .. WideBytes |-> 0]

Idle == call = NoCall

Make(c, holds, texts) ==
  /\ call' = c
  /\ passed' = holds
  /\ message' = IF holds THEN <<>> ELSE texts

-----------------------------------------------------------------------------
(* Integers.  The same two pointers, to different arrays or to one, serve  *)
(* all array assertions.                                                   *)

Shown(e, a, style) == <<UnityPrintNumberByStyle(e, style), UnityPrintNumberByStyle(a, style)>>

AssertBits ==
  /\ Idle
  /\ \E mask, e, a \in Numbers :
       Make([fn |-> "Bits", mask |-> mask],
              UnityAssertBits(mask, e, a),
              <<UnityPrintMask(mask, e), UnityPrintMask(mask, a)>>)
  /\ UNCHANGED quick

AssertEqualNumber ==
  /\ Idle
  /\ \E e, a \in Numbers, style \in Styles : \E type \in ArgumentTypes(style) :
       LET expected == EqualArgument(e, type)
           actual   == EqualArgument(a, type)
       IN  Make([fn |-> "EqualNumber", expected |-> e, actual |-> a, type |-> type],
                  UnityAssertEqualNumber(expected, actual),
                  Shown(expected, actual, style))
  /\ UNCHANGED quick

AssertOrder ==
  /\ Idle
  /\ \E t, a \in Numbers, compare \in Comparisons, style \in Styles :
     \E type \in ArgumentTypes(style) :
       Make([fn |-> "Order", threshold |-> t, actual |-> a, compare |-> compare,
               type |-> type],
              UnityAssertGreaterOrLessOrEqualNumber(OrderArgument(t, type),
                OrderArgument(a, type), compare, style),
              <<>>)
  /\ UNCHANGED quick

AssertWithin ==
  /\ Idle
  /\ \E delta \in Deltas, e, a \in Numbers, style \in Styles :
     \E type \in ArgumentTypes(style) :
       Make([fn |-> "Within", delta |-> delta, expected |-> e, actual |-> a,
               type |-> type],
              UnityAssertNumbersWithin(DeltaArgument(delta, type),
                OrderArgument(e, type), OrderArgument(a, type), style),
              <<>>)
  /\ UNCHANGED quick

Pointers == {<<1, 2>>, <<1, 1>>, <<NULL, 2>>, <<1, NULL>>, <<NULL, NULL>>}
Fits(length) == {n \in 0 .. 2 : n * length <= Len(CHOOSE b \in Arrays : TRUE)}

\* The first element at which two arrays differ in what Value reads.
Differing(num, Value(_, _)) == Min({i \in 0 .. num - 1 : Value(1, i) # Value(2, i)})

AssertEqualIntArray ==
  /\ Idle
  /\ \E mem \in [1 .. 2 -> Arrays], p \in Pointers, style \in Styles :
     \E num \in Fits(style.length) :
       LET Value(k, i) == EqualElement(mem[k], i, style)
           i == Differing(num, Value)
       IN  Make([fn |-> "EqualIntArray", mem |-> mem, p |-> p, num |-> num, style |-> style],
                  UnityAssertEqualIntArray(mem, p[1], p[2], num, style, "array"),
                  IF num > 0 /\ NULL \notin {p[1], p[2]}
                  THEN Shown(Value(1, i), Value(2, i), style) ELSE <<>>)
  /\ UNCHANGED quick

\* The EACH_EQUAL assertions; pointer 3 is to quick.
AssertEachEqual ==
  /\ Idle
  /\ \E array \in Arrays, value \in EachValues, style \in Styles :
     \E type \in ArgumentTypes(style), num \in Fits(style.length), p \in {2, NULL} :
       /\ quick' = UnityNumToPtr(quick, EqualArgument(value, type), style.length)
       /\ Make([fn |-> "EachEqual", array |-> array, value |-> value, p |-> p,
                num |-> num, style |-> style],
               UnityAssertEqualIntArray(<<array, array, quick'>>, 3, p, num, style, "value"),
               <<>>)

AssertNumbersArrayWithin ==
  /\ Idle
  /\ \E mem \in [1 .. 2 -> Arrays], p \in Pointers, delta \in Deltas, style \in Styles :
     \E type \in ArgumentTypes(style), num \in Fits(style.length) :
       Make([fn |-> "ArrayWithin", mem |-> mem, p |-> p, delta |-> delta, num |-> num,
               style |-> style, type |-> type],
              UnityAssertNumbersArrayWithin(mem, DeltaArgument(delta, type),
                p[1], p[2], num, style, "array"),
              <<>>)
  /\ UNCHANGED quick

AssertEqualMemory ==
  /\ Idle
  /\ \E mem \in [1 .. 2 -> Arrays], p \in Pointers, length \in 0 .. 2,
        flags \in {"array", "value"} :
     \E num \in Fits(length) :
       Make([fn |-> "Memory", mem |-> mem, p |-> p, length |-> length, num |-> num,
               flags |-> flags],
              UnityAssertEqualMemory(mem, p[1], p[2], length, num, flags),
              <<>>)
  /\ UNCHANGED quick

IntegerAssert ==
  \/ AssertBits \/ AssertEqualNumber \/ AssertOrder \/ AssertWithin
  \/ AssertEqualIntArray \/ AssertEachEqual \/ AssertNumbersArrayWithin
  \/ AssertEqualMemory

-----------------------------------------------------------------------------
(* Floats and doubles *)

Types == {"float", "double"}

Within(type, delta, e, a) ==
  IF type = "float" THEN UnityAssertFloatsWithin(delta, e, a)
  ELSE UnityAssertDoublesWithin(delta, e, a)

NotWithin(type, delta, e, a) ==
  IF type = "float" THEN UnityAssertFloatsNotWithin(delta, e, a)
  ELSE UnityAssertDoublesNotWithin(delta, e, a)

Equal(type, e, a) ==
  IF type = "float" THEN AssertEqualFloat(e, a) ELSE AssertEqualDouble(e, a)

NotEqual(type, e, a) ==
  IF type = "float" THEN AssertNotEqualFloat(e, a) ELSE AssertNotEqualDouble(e, a)

WithinArray(type, mem, delta, e, a, num, flags) ==
  IF type = "float" THEN UnityAssertWithinFloatArray(mem, delta, e, a, num, flags)
  ELSE UnityAssertWithinDoubleArray(mem, delta, e, a, num, flags)

InOrder(type, t, a, compare) ==
  IF type = "float" THEN UnityAssertGreaterOrLessFloat(t, a, compare)
  ELSE UnityAssertGreaterOrLessDouble(t, a, compare)

Special(type, a, trait, should) ==
  IF type = "float" THEN UnityAssertFloatSpecial(a, trait, should)
  ELSE UnityAssertDoubleSpecial(a, trait, should)

AssertFloatsWithin ==
  /\ Idle
  /\ \E type \in Types, delta \in FloatDeltas, e, a \in Floats :
       \/ Make([fn |-> "FloatsWithin", type |-> type, delta |-> delta, expected |-> e,
                actual |-> a], Within(type, delta, e, a), <<>>)
       \/ Make([fn |-> "FloatsNotWithin", type |-> type, delta |-> delta, expected |-> e,
                actual |-> a], NotWithin(type, delta, e, a), <<>>)
  /\ UNCHANGED quick

AssertEqualFloats ==
  /\ Idle
  /\ \E type \in Types, e, a \in Floats :
       \/ Make([fn |-> "EqualFloat", type |-> type, expected |-> e, actual |-> a],
               Equal(type, e, a), <<>>)
       \/ Make([fn |-> "NotEqualFloat", type |-> type, expected |-> e, actual |-> a],
               NotEqual(type, e, a), <<>>)
  /\ UNCHANGED quick

AssertFloatArray ==
  /\ Idle
  /\ \E type \in Types, mem \in [1 .. 2 -> FloatArrays], p \in Pointers,
        delta \in FloatDeltas, num \in 0 .. 2, flags \in {"array", "value"} :
       Make([fn |-> "FloatArray", type |-> type, mem |-> mem, p |-> p, delta |-> delta,
             num |-> num, flags |-> flags],
            WithinArray(type, mem, delta, p[1], p[2], num, flags), <<>>)
  /\ UNCHANGED quick

AssertFloatOrder ==
  /\ Idle
  /\ \E type \in Types, t, a \in Floats, compare \in Comparisons \ {{}} :
       Make([fn |-> "FloatOrder", type |-> type, threshold |-> t, actual |-> a,
             compare |-> compare], InOrder(type, t, a, compare), <<>>)
  /\ UNCHANGED quick

AssertFloatSpecial ==
  /\ Idle
  /\ \E type \in Types, a \in Floats, trait \in Traits, should \in BOOLEAN :
       Make([fn |-> "FloatSpecial", type |-> type, actual |-> a, trait |-> trait,
             should |-> should], Special(type, a, trait, should), <<>>)
  /\ UNCHANGED quick

\* The text of a float in the message of one that fails.
ShowFloat ==
  /\ Idle
  /\ \E number \in ShownFloats, rounding \in Roundings :
       Make([fn |-> "ShowFloat", number |-> number, rounding |-> rounding], FALSE,
            <<UnityPrintFloat(number, rounding)>>)
  /\ UNCHANGED quick

FloatAssert ==
  \/ AssertFloatsWithin \/ AssertEqualFloats \/ AssertFloatArray
  \/ AssertFloatOrder \/ AssertFloatSpecial \/ ShowFloat

-----------------------------------------------------------------------------
(* Strings and the choice of tests *)

\* UnityPrintExpectedAndActualStrings
Quoted(string, length) ==
  IF string = NullString THEN <<78, 85, 76, 76>>
  ELSE <<Char.quote>> \o UnityPrintLen(string, length) \o <<Char.quote>>

AssertEqualString ==
  /\ Idle
  /\ \E e, a \in Strings :
       Make([fn |-> "String", expected |-> e, actual |-> a],
              UnityAssertEqualString(e, a), <<Quoted(e, Len(e)), Quoted(a, Len(a))>>)
  /\ UNCHANGED quick

AssertEqualStringLen ==
  /\ Idle
  /\ \E e, a \in Strings, length \in 0 .. 2 :
       Make([fn |-> "StringLen", expected |-> e, actual |-> a, length |-> length],
              UnityAssertEqualStringLen(e, a, length),
              <<Quoted(e, length), Quoted(a, length)>>)
  /\ UNCHANGED quick

AssertEqualStringArray ==
  /\ Idle
  /\ \E a \in StringArrays, p \in Pointers, num \in 0 .. 2, flags \in {"array", "value"} :
     \E e \in IF flags = "array" THEN StringArrays ELSE Strings \ {NullString} :
       /\ flags = "value" => p # <<1, 1>>
       /\ Make([fn |-> "StringArray", mem |-> <<e, a>>, p |-> p, num |-> num,
                flags |-> flags],
               UnityAssertEqualStringArray(<<e, a>>, p[1], p[2], num, flags), <<>>)
  /\ UNCHANGED quick

\* A command line: for each setting its option with the string behind an
\* equals sign, or the option and the string, or the option alone.
Option(letter, string) ==
  [option |-> letter, value |-> string,
   text   |-> <<Char.minus, letter>> \o IF string = NullString THEN <<>> ELSE <<61>> \o string]

Word(string) == [option |-> 0, value |-> NullString, text |-> string]

Arguments(s) ==
  CASE s.form = "attached" -> <<Option(s.option, s.pattern.text)>>
    [] s.form = "separate" -> <<Option(s.option, NullString), Word(s.pattern.text)>>
    [] s.form = "bare"     -> <<Option(s.option, NullString)>>

\* UnityParseOptions, and UnityTestMatches for one test.
Select ==
  /\ Idle
  /\ \E first, second \in Settings, test \in Tests :
       /\ first.form = "bare" => first.option \in {Opt.q, Opt.v}
       /\ LET o == UnityParseOptions(Arguments(first) \o Arguments(second))
          IN  Make([fn |-> "Select", first |-> first, second |-> second, test |-> test],
                   o.ret = 0 /\ UnityTestMatches(o, test.file, test.name), <<>>)
  /\ UNCHANGED quick

StringAssert ==
  \/ AssertEqualString \/ AssertEqualStringLen \/ AssertEqualStringArray \/ Select

\* The test goes on to the next assertion, or the next test begins.
Continue ==
  /\ ~Idle
  /\ call' = NoCall /\ passed' = TRUE /\ message' = <<>>
  /\ UNCHANGED quick

Next == IntegerAssert \/ FloatAssert \/ StringAssert \/ Continue

Spec == Init /\ [][Next]_vars

-----------------------------------------------------------------------------

\* The number an argument is in a type.
Meaning(n, style) == IF IsInt(style) THEN Signed(n, style.length)
                     ELSE Unsigned(n, style.length)

Distance(x, y) == IF x < y THEN y - x ELSE x - y

\* The assertions about two integers hold exactly if what they say is true of
\* the numbers in the type they name, through the conversion to UNITY_INT and
\* at both ends of each type.  INT and UINT speak of a UNITY_INT or UNITY_UINT
\* instead, not of an int: two numbers with the same lower bytes differ in them
\* (UnityAssertEqualNumber, UnityAssertGreaterOrLessOrEqualNumber, UnityAssert
\* NumbersWithin and their macros).
NumbersRight ==
  /\ call.fn = "EqualNumber" =>
       passed = (Meaning(call.expected, call.type) = Meaning(call.actual, call.type))
  /\ call.fn = "Order" =>
       LET t == Meaning(call.threshold, call.type)
           a == Meaning(call.actual, call.type)
       IN  passed = CASE call.compare = {} -> a # t
                      [] call.compare = {"greater"} -> a > t
                      [] call.compare = {"smaller"} -> a < t
                      [] call.compare = {"greater", "equal"} -> a >= t
                      [] call.compare = {"smaller", "equal"} -> a <= t
  /\ call.fn = "Within" =>
       passed = (Distance(Meaning(call.expected, call.type), Meaning(call.actual, call.type))
                   <= Unsigned(call.delta, call.type.length))

\* What an array assertion comes to: there are elements, and the arrays are
\* one, or two of which it holds.
Elementwise(all) ==
  /\ call.num > 0
  /\ \/ call.p[1] = call.p[2]
     \/ NULL \notin {call.p[1], call.p[2]} /\ all

\* The assertions about arrays agree with those about their elements and with
\* each other: arrays are equal, in any style, exactly if their bytes are;
\* within delta exactly if every pair of numbers is; and each element equals a
\* value exactly if its bytes are the lower ones of the value, whatever assertion
\* has used the union before (UnityAssertEqualIntArray, UnityAssertNumbersArray
\* Within, UnityAssertEqualMemory, UnityNumToPtr).
ElementsAgree ==
  /\ call.fn = "EqualIntArray" =>
       passed = UnityAssertEqualMemory(call.mem, call.p[1], call.p[2], call.style.length,
                                       call.num, "array")
  /\ call.fn = "EachEqual" =>
       passed = /\ call.num > 0 /\ call.p # NULL
                /\ \A i \in 0 .. call.num - 1 :
                     Element(call.array, i, call.style.length)
                       = Unsigned(call.value, call.style.length)
  /\ call.fn = "ArrayWithin" =>
       passed = Elementwise(\A i \in 0 .. call.num - 1 :
                  Distance(Meaning(Element(call.mem[1], i, call.style.length), call.style),
                           Meaning(Element(call.mem[2], i, call.style.length), call.style))
                    <= Unsigned(call.delta, call.type.length))

\* The float assertions make sense together: what is asserted equal has the
\* same traits; at least and at most is equal; an array equals another exactly
\* if its elements do; and between numbers a tolerance is one of the distance,
\* unless that overflows (UnityFloatsWithin and its callers).
FloatsAgree ==
  /\ call.fn = "EqualFloat" /\ passed =>
       \A trait \in Traits :
         Special(call.type, call.expected, trait, TRUE)
           = Special(call.type, call.actual, trait, TRUE)
  /\ call.fn = "EqualFloat" =>
       passed = \A side \in {"smaller", "greater"} :
                  InOrder(call.type, call.expected, call.actual, {side, "equal"})
  /\ call.fn = "FloatArray" /\ call.delta = 0 /\ call.flags = "array" =>
       passed = Elementwise(\A i \in 1 .. call.num :
                              Equal(call.type, call.mem[1][i], call.mem[2][i]))
  /\ /\ call.fn = "FloatsWithin"
     /\ {call.delta, call.expected, call.actual} \cap {NaN, Inf, -Inf} = {}
     => passed = LET d   == Distance(call.expected, call.actual)
                     max == IF call.type = "float" THEN FloatMax ELSE DoubleMax
                 IN  d <= Distance(0, call.delta) /\ d <= max

\* The exponent of the last significant digit of a positive number.
LastDigit(x) ==
  IF IsLess(x, min_scaled) THEN -Rounds(LAMBDA k : ~IsLess(Scale(x, k), min_scaled))
  ELSE Rounds(LAMBDA k : IsLess(Scale(x, -k), max_scaled))

\* Twice the error of the text of x, as a multiple of 10^k.
TextError(text, x, k) ==
  LET at == text.exponent - text.decimals - k
      v  == IF at >= 0 THEN text.n * Ten[at] ELSE text.n
      u  == IF at >= 0 THEN 1 ELSE Ten[-at]
      y  == Scale(x, -k)
  IN  [num |-> 2 * Distance(v * y.den, y.num * u), den |-> y.den * u]

\* What the roundings of the scaling leave of x: between one and max_scaled only
\* what is behind the point may be off.
AfterScaling(x, rounding) ==
  IF IsLess(x, 1) \/ IsMore(x, max_scaled) THEN Off(x, rounding)
  ELSE LET part == Fraction(x, rounding)
       IN  [num |-> (x.num \div x.den) * part.den + part.num, den |-> part.den]

\* A text is right to half a unit of the last significant digit of x.
ToHalfUnit(text, x) == ~IsMore(TextError(text, x, LastDigit(x)), 1)

\* The last significant digit of the text of a float is not "always totally
\* correct", says the comment on UnityPrintFloat, but only the scaling is to
\* blame: the text is right to half a unit of that digit for what the scaling
\* has left of the number, wherever its digits carry over, its exponent begins
\* or its trailing zeroes are left out.  A whole number up to max_scaled is shown
\* right in spite of the scaling.  The text has no more digits than are
\* significant (UnityPrintFloat).
FloatTextRight ==
  call.fn = "ShowFloat" =>
    LET text == message[1]
        x    == [call.number EXCEPT !.num = Distance(0, @)]
    IN  /\ x.num # 0 => ToHalfUnit(text, AfterScaling(x, call.rounding))
        /\ x.num # 0 /\ x.num % x.den = 0 /\ ~IsMore(x, max_scaled) => ToHalfUnit(text, x)
        /\ text.n < max_scaled
        /\ text.minus = (call.number.num < 0)

\* String assertions hold exactly if the strings, or their beginnings, are
\* equal; no string equals only no string (UnityAssertEqualString,
\* UnityAssertEqualStringLen, UnityAssertEqualStringArray).
StringsRight ==
  LET Begin(string, n) == SubSeq(string, 1, Min({n, Len(string)}))
  IN  /\ call.fn = "String" => passed = (call.expected = call.actual)
      /\ call.fn = "StringLen" =>
           passed = IF NullString \in {call.expected, call.actual}
                    THEN call.expected = call.actual
                    ELSE Begin(call.expected, call.length) = Begin(call.actual, call.length)
      /\ call.fn = "StringArray" =>
           passed = Elementwise(\A j \in 1 .. call.num :
                      (IF call.flags = "array" THEN call.mem[1][j] ELSE call.mem[1])
                        = call.mem[2][j])

\* A failed assertion of equality shows the reader two different texts: the
\* value is not printed in fewer digits than it was compared in.  Not so for
\* strings with a backslash, which is not escaped, and for bits above those
\* of an int, which are compared but not printed (UnityPrintNumberByStyle,
\* UnityPrintMask, UnityPrintLen).
FailureTells ==
  /\ ~passed
  /\ Len(message) = 2
  /\ call.fn \in {"String", "StringLen"} =>
       \A s \in {call.expected, call.actual} : Char.backslash \notin Range(s)
  /\ call.fn = "Bits" => call.mask \in 0 .. 2^(8 * IntBytes) - 1
  => message[1] # message[2]

\* A test runs exactly if the last pattern to include has a part that is found
\* in the name of its file or of itself, or one for each, and the last pattern
\* to exclude has none; nothing runs if an option lacks its pattern
\* (UnityParseOptions, UnityStringArgumentMatches).
SelectionRight ==
  LET Found(long, part) ==
        \E k \in 0 .. Len(long) - Len(part) : SubSeq(long, k + 1, k + Len(part)) = part
      Selects(pattern) ==
        \E part \in pattern.parts :
          IF part.file = <<>>
          THEN Found(call.test.file, part.name) \/ Found(call.test.name, part.name)
          ELSE Found(call.test.file, part.file) /\ Found(call.test.name, part.name)
      Given(options) == {k \in 1 .. 2 : <<call.first, call.second>>[k].option \in options
                                        /\ <<call.first, call.second>>[k].form # "bare"}
      Latest(options) == <<call.first, call.second>>[Max(Given(options))].pattern
      Included == {Opt.n, Opt.f}
      Excluded == {Opt.x}
  IN  call.fn = "Select" =>
        passed = /\ call.second.form = "bare" => call.second.option \in {Opt.q, Opt.v}
                 /\ Given(Included) # {} => Selects(Latest(Included))
                 /\ Given(Excluded) # {} => ~Selects(Latest(Excluded))
=============================================================================
