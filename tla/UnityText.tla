----------------------------- MODULE UnityText ------------------------------
(***************************************************************************)
(* The integers of Unity and how its messages show them, src/unity.c.      *)
(* Bytes and characters are those of C.  A UNITY_INT (64 bits) has only    *)
(* WideBytes bytes here, an int IntBytes; a style is the display style of  *)
(* an assertion: a range and the number of bytes of the type it names.     *)
(* A text is a sequence of character codes.                                *)
(***************************************************************************)
EXTENDS Integers, Sequences

CONSTANTS IntBytes, WideBytes

ASSUME BytesAssumption == /\ IntBytes \in Nat \ {0, 1}
                          /\ WideBytes \in Nat /\ IntBytes < WideBytes

Unsigned(n, bytes) == n % 2^(8 * bytes)

Signed(n, bytes) ==
  LET u == Unsigned(n, bytes)
  IN  IF u < 2^(8 * bytes - 1) THEN u ELSE u - 2^(8 * bytes)

Bit(n, k) == (n \div 2^k) % 2

\* UNITY_DISPLAY_STYLE_T.
Styles == [range : {"int", "uint", "hex"}, length : {1, IntBytes, WideBytes}]
            \cup {[range |-> "char", length |-> 1]}

\* style & UNITY_DISPLAY_RANGE_INT
IsInt(style) == style.range \in {"int", "char"}

-----------------------------------------------------------------------------

\* The characters that matter.
Char == [LF |-> 10, CR |-> 13, minus |-> 45, quote |-> 39, digit |-> 48,
         X |-> 88, backslash |-> 92, n |-> 110, r |-> 114, x |-> 120]

\* A digit for each power of ten up to the number, or one for zero.
UnityPrintNumberUnsigned(number) ==
  LET digits[n \in 0 .. number] ==
        IF n <= 9 THEN <<Char.digit + n>>
        ELSE Append(digits[n \div 10], Char.digit + (n % 10))
  IN  digits[number]

UnityPrintNumber(number) ==
  IF number < 0
  THEN <<Char.minus>> \o UnityPrintNumberUnsigned(Unsigned(-number, WideBytes))
  ELSE UnityPrintNumberUnsigned(number)

HexDigit(nibble) == IF nibble <= 9 THEN Char.digit + nibble ELSE 55 + nibble

UnityPrintNumberHex(number, nibbles_to_print) ==
  LET nibbles == IF nibbles_to_print > 2 * WideBytes THEN 2 * WideBytes
                 ELSE nibbles_to_print
  IN  [d \in 1 .. nibbles |-> HexDigit((number \div 2^(4 * (nibbles - d))) % 16)]

UnityPrintMask(mask, number) ==
  [d \in 1 .. 8 * IntBytes |->
     LET bit == 8 * IntBytes - d
     IN  IF Bit(mask, bit) = 1 THEN Char.digit + Bit(number, bit) ELSE Char.X]

UnityPrintChar(c) ==
  CASE c \in 32 .. 126 -> <<c>>
    [] c = Char.CR          -> <<Char.backslash, Char.r>>
    [] c = Char.LF          -> <<Char.backslash, Char.n>>
    [] OTHER           -> <<Char.backslash, Char.x>> \o UnityPrintNumberHex(c, 2)

\* Mutant: hexadecimal shows one digit a byte.
UnityPrintNumberByStyle_Short(number, style) ==
  CASE style.range = "char" -> <<Char.quote>> \o UnityPrintChar(number) \o <<Char.quote>>
    [] style.range = "int"  -> UnityPrintNumber(number)
    [] style.range = "uint" -> UnityPrintNumberUnsigned(Unsigned(number, WideBytes))
    [] style.range = "hex"  -> <<Char.digit, Char.x>>
                                 \o UnityPrintNumberHex(number, style.length)

UnityPrintNumberByStyle(number, style) ==
  CASE style.range = "char" -> <<Char.quote>> \o UnityPrintChar(number) \o <<Char.quote>>
    [] style.range = "int"  -> UnityPrintNumber(number)
    [] style.range = "uint" -> UnityPrintNumberUnsigned(Unsigned(number, WideBytes))
    [] style.range = "hex"  -> <<Char.digit, Char.x>>
                                 \o UnityPrintNumberHex(number, 2 * style.length)

\* UnityPrintLen; UnityPrint prints a string to its end.
UnityPrintLen(string, length) ==
  LET shown == IF length < Len(string) THEN length ELSE Len(string)
      rest[k \in 1 .. shown + 1] ==
        IF k > shown THEN <<>> ELSE UnityPrintChar(string[k]) \o rest[k + 1]
  IN  rest[1]

UnityPrint(string) == UnityPrintLen(string, Len(string))
=============================================================================
