\* An int of two bytes and a UNITY_INT of three, floats between -20 and 20.
CONSTANTS
  IntBytes = 2
  WideBytes = 3
  Precision = 4
  FloatMax = 30
  DoublePrecision = 2
  DoubleMax = 35
  Inf = 1000
  NaN = 10000
  SigDigits = 2
  MaxRounds = 8
  Roundings <- MCRoundings
  ShownFloats <- MCShownFloats
  Numbers <- MCNumbers
  Deltas <- MCDeltas
  Arrays <- MCArrays
  EachValues <- MCEachValues
  Floats <- MCFloats
  FloatDeltas <- MCFloatDeltas
  FloatArrays <- MCFloatArrays
  Strings <- MCStrings
  StringArrays <- MCStringArrays
  Settings <- MCSettings
  Tests <- MCTests
SPECIFICATION Spec
INVARIANT NumbersRight
INVARIANT ElementsAgree
INVARIANT FloatsAgree
INVARIANT FloatTextRight
INVARIANT StringsRight
INVARIANT FailureTells
INVARIANT SelectionRight
