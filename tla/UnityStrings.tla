---------------------------- MODULE UnityStrings ----------------------------
(***************************************************************************)
(* The string assertions of Unity and the choice of the tests to run by    *)
(* the patterns of the command line (UNITY_USE_COMMAND_LINE_ARGS), both in *)
(* src/unity.c.  A string is a sequence of character codes without its     *)
(* terminator; a pointer to one may be NULL.                               *)
(***************************************************************************)
EXTENDS UnityNumbers, SequencesExt

NullString == <<0>>   \* no string: a terminator is not part of one

\* expected[i], the terminator included.
At(string, i) == IF i <= Len(string) THEN string[i] ELSE 0

UnityAssertEqualString(expected, actual) ==
  IF NullString \notin {expected, actual}
  THEN \A i \in 1 .. Max({Len(expected), Len(actual)}) : At(expected, i) = At(actual, i)
  ELSE expected = actual

\* Mutant: the comparison ends with the expected string.
UnityAssertEqualStringLen_Prefix(expected, actual, length) ==
  IF NullString \notin {expected, actual}
  THEN \A i \in 1 .. Min({length, Len(expected)}) : At(expected, i) = At(actual, i)
  ELSE expected = actual

UnityAssertEqualStringLen(expected, actual, length) ==
  IF NullString \notin {expected, actual}
  THEN \A i \in 1 .. Min({length, Max({Len(expected), Len(actual)})}) :
         At(expected, i) = At(actual, i)
  ELSE expected = actual

\* The elements are pointers to strings; with UNITY_ARRAY_TO_VAL expected is
\* itself a string.
UnityAssertEqualStringArray(mem, expected, actual, num_elements, flags) ==
  ArraysHold(expected, actual, num_elements,
             LAMBDA j : UnityAssertEqualString(
                          IF flags = "array" THEN mem[expected][j + 1] ELSE mem[expected],
                          mem[actual][j + 1]))

-----------------------------------------------------------------------------
(* Which tests run *)

Star == 42
Comma == 44
Colon == 58
Quotes == {34, 39}

\* The length of what a pattern compares: up to a character that ends it, but
\* the first one is compared whatever it is.
Stem(short) ==
  Max({k \in 1 .. Len(short) :
         \A j \in 2 .. k : short[j] \notin {Star, Comma, Colon} \cup Quotes})

\* 2 when a colon ends what was found, 1 when anything else does.
IsStringInBiggerString(long, short) ==
  IF short = <<>> THEN 0
  ELSE IF short[1] = Star THEN 1
  ELSE LET k == Stem(short)
       IN  IF \E l \in 0 .. Len(long) - k :
                \A j \in 1 .. k : long[l + j] = short[j]
           THEN IF At(short, k + 1) = Colon THEN 2 ELSE 1
           ELSE 0

From(string, k) == SubSeq(string, k, Len(string))

\* One pattern of the argument, at ptr1: whether it selects the test, and
\* where the next one begins.  ptr2 ends the pattern, ptrf is what follows its
\* last colon.
Pattern(str, start, TestFile, CurrentTestName) ==
  LET ptr1  == IF str[start] \in Quotes THEN start + 1 ELSE start
      ends  == {k \in ptr1 + 1 .. Len(str) : str[k] \in {Comma} \cup Quotes}
      ptr2  == Min(ends \cup {Len(str) + 1})
      colon == {k \in ptr1 + 1 .. ptr2 - 1 : str[k] = Colon /\ k < Len(str)}
      rest  == {k \in ptr2 .. Len(str) : str[k] \notin {Comma, Colon} \cup Quotes}
      file  == IsStringInBiggerString(TestFile, From(str, ptr1))
  IN  [next  |-> Min(rest \cup {Len(str) + 1}),
       found |->
         \/ file = 1
         \/ /\ file = 2 /\ colon # {}
            /\ IsStringInBiggerString(CurrentTestName, From(str, Max(colon) + 1)) # 0
         \/ IsStringInBiggerString(CurrentTestName, From(str, ptr1)) = 1]

UnityStringArgumentMatches(str, TestFile, CurrentTestName) ==
  LET matches[start \in 1 .. Len(str) + 1] ==
        IF start > Len(str) THEN FALSE
        ELSE LET p == Pattern(str, start, TestFile, CurrentTestName)
             IN  p.found \/ matches[p.next]
  IN  matches[1]

\* What the options leave behind; ret is what UnityParseOptions returns,
\* awaits the option whose string is the next argument.
NoOptions == [ret |-> 0, UnityOptionIncludeNamed |-> NullString,
              UnityOptionExcludeNamed |-> NullString, UnityVerbosity |-> 1,
              awaits |-> 0]

\* Options by their letters.
Opt == [word |-> 0, f |-> 102, l |-> 108, n |-> 110, q |-> 113, v |-> 118, x |-> 120]

\* option is the letter of an argument that is one, value what follows an
\* equals sign, text the whole argument.
ParseArgument(o, arg) ==
  LET string == IF o.awaits = 0 THEN arg.value ELSE arg.text
      option == IF o.awaits = 0 THEN arg.option ELSE o.awaits
      named  == o.awaits # 0 \/ arg.value # NullString
  IN  CASE o.ret # 0 -> o
        [] o.ret = 0 /\ option \in {Opt.n, Opt.f, Opt.x} /\ ~named ->
             [o EXCEPT !.awaits = option]
        [] o.ret = 0 /\ option \in {Opt.n, Opt.f} /\ named ->
             [o EXCEPT !.awaits = 0, !.UnityOptionIncludeNamed = string]
        [] o.ret = 0 /\ option = Opt.x /\ named ->
             [o EXCEPT !.awaits = 0, !.UnityOptionExcludeNamed = string]
        [] o.ret = 0 /\ option = Opt.l -> [o EXCEPT !.ret = -1]
        [] o.ret = 0 /\ option = Opt.q -> [o EXCEPT !.UnityVerbosity = 0]
        [] o.ret = 0 /\ option = Opt.v -> [o EXCEPT !.UnityVerbosity = 2]
        [] o.ret = 0 /\ option = Opt.word -> o
        [] OTHER -> [o EXCEPT !.ret = 1]

\* An option still without its string is an error.
UnityParseOptions(argv) ==
  LET after[i \in 0 .. Len(argv)] == IF i = 0 THEN NoOptions
                                     ELSE ParseArgument(after[i - 1], argv[i])
      o == after[Len(argv)]
  IN  IF o.awaits # 0 THEN [o EXCEPT !.ret = 1] ELSE o

\* Mutant: what is excluded runs nevertheless once it is included.
UnityTestMatches_Included(o, TestFile, CurrentTestName) ==
  LET selects(str) == UnityStringArgumentMatches(str, TestFile, CurrentTestName)
  IN  \/ o.UnityOptionIncludeNamed # NullString /\ selects(o.UnityOptionIncludeNamed)
      \/ /\ o.UnityOptionIncludeNamed = NullString
         /\ o.UnityOptionExcludeNamed # NullString => ~selects(o.UnityOptionExcludeNamed)

UnityTestMatches(o, TestFile, CurrentTestName) ==
  LET selects(str) == UnityStringArgumentMatches(str, TestFile, CurrentTestName)
  IN  /\ o.UnityOptionIncludeNamed # NullString => selects(o.UnityOptionIncludeNamed)
      /\ o.UnityOptionExcludeNamed # NullString => ~selects(o.UnityOptionExcludeNamed)
=============================================================================
