--------------------------- MODULE MCUnityAsserts ---------------------------
(* An instance of UnityAsserts for TLC, see MCUnityAsserts.cfg. *)
EXTENDS UnityAsserts

\* Up to three units of the last of two digits.
MCRoundings == {[num |-> 1, den |-> 1], [num |-> 33, den |-> 32], [num |-> 31, den |-> 32]}

\* The ends of the types of one, two and three bytes, and their neighbours.
MCNumbers == {0, 1, 127, 128, 255, 256, 32768, 65535, 65536, 8388607,
              -1, -128, -129, -32768, -8388608}
MCDeltas == {0, 1, 128, 255, 65535, 8388608}

MCArrays == [1 .. 3 -> {0, 255}] \cup {<<128, 0, 127>>, <<0, 128, 1>>, <<127, 127, 128>>}
MCEachValues == {-1, 255}

MCFloats == {NaN, Inf, -Inf, 0, 4, 8, 20, -4, -8, -20, 16}
MCFloatDeltas == {NaN, Inf, 0, 1, -3, 24}
MCFloatArrays == [1 .. 2 -> {NaN, Inf, 0, 8, -4}]

\* Two significant digits: numbers of up to six, with halves and finer parts.
MCShownFloats ==
  [num : -230 .. 2300, den : {1, 2, 16}]
    \cup [num : {0, 1, 5, 49, 50, 51, 994, 995, 996}, den : {100, 2000, 10000}]
    \cup [num : {9949, 9950, 9951, 10000, 99499, 99500, 104999, 105000, 995000, 999999},
          den : {1, 2}]
    \cup [num : {1, 9, 95, 96}, den : {100000}]

\* "a", "ab", CR, LF, a byte above 127 and a backslash.
MCStrings == {NullString, <<>>, <<97>>, <<97, 98>>, <<97, 99>>, <<98>>, <<13>>, <<10>>,
              <<-56>>, <<97, -56>>, <<92>>, <<92, 110>>}
MCStringArrays == [1 .. 2 -> {NullString, <<>>, <<97>>, <<97, 98>>}]

-----------------------------------------------------------------------------

Part(file, name) == [file |-> file, name |-> name]
MCParts == {Part(<<>>, <<97>>), Part(<<>>, <<98, 97>>), Part(<<97>>, <<98>>), Part(<<99>>, <<97>>)}

\* A part in a pattern, with an asterisk behind it or in quotes, perhaps.
Spellings(part) == {Spell(part), Spell(part) \o <<Star>>, <<34>> \o Spell(part) \o <<34>>}

MCPatterns ==
  {[text |-> <<Star>>, parts |-> {Part(<<>>, <<>>)}]}
    \cup UNION {{[text |-> t, parts |-> {p}] : t \in Spellings(p)} : p \in MCParts}
    \cup UNION {{[text |-> Spell(p) \o <<Comma>> \o t, parts |-> {p, q}] : t \in Spellings(q)} :
              p \in {Part(<<>>, <<99, 99>>), Part(<<98>>, <<99>>)}, q \in MCParts}

MCSettings ==
  [option : {Opt.n, Opt.x}, form : {"attached", "separate"}, pattern : MCPatterns]
    \cup [option : {Opt.n, Opt.x, Opt.f, Opt.q, Opt.v, Opt.l}, form : {"bare"},
          pattern : {[text |-> <<Star>>, parts |-> {Part(<<>>, <<>>)}]}]

MCTests == [file : {<<97, 98>>, <<99>>}, name : {<<98, 97>>, <<97, 99>>}]
=============================================================================
