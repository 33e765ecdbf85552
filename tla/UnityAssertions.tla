---------------------------- MODULE UnityAssertions ----------------------------
(***************************************************************************)
(* The assertions of the test framework that the unit tests stand on: what *)
(* they compare and what they print.  Floats, the detail stack and         *)
(* UnityPrintF are not modelled.                                           *)
(*                                                                         *)
(* Numbers have one to WideBytes bytes, the size of UNITY_INT (8 in the    *)
(* build); an int has IntBytes (4 in the build).  A text is the sequence   *)
(* of its character codes.  Every array is a sequence of elements, and an  *)
(* element a sequence: one number, the bytes of a block, or the characters *)
(* of a string and its 0.                                                  *)
(***************************************************************************)
EXTENDS Integers, Sequences

CONSTANTS IntBytes, WideBytes

ASSUME UnitySizes == WideBytes \in Nat /\ IntBytes \in 1..(WideBytes - 1)

Null == <<>>

\* The powers of two, and those of ten; 256^b < 1000^b.
Power[i \in 0..(8 * WideBytes)] == IF i = 0 THEN 1 ELSE 2 * Power[i - 1]
Ten[i \in 0..(3 * WideBytes)] == IF i = 0 THEN 1 ELSE 10 * Ten[i - 1]
Space(bytes) == Power[8 * bytes]

ToUnsigned(v, bytes) == v % Space(bytes)
ToSigned(v, bytes) ==
    LET u == ToUnsigned(v, bytes) IN IF 2 * u < Space(bytes) THEN u ELSE u - Space(bytes)
Bit(v, i) == (ToUnsigned(v, WideBytes) \div Power[i]) % 2
Least(S) == CHOOSE i \in S : \A j \in S : i <= j

\* The styles: how a number is shown, its size in memory, and the size a macro casts to;
\* the macros for int and unsigned int cast to the widest type.
Style(range, bytes, cast) == [range |-> range, bytes |-> bytes, cast |-> cast]
Styles ==
    {Style(r, b, b) : r \in {"int", "uint", "hex"}, b \in 1..WideBytes}
      \union {Style(r, IntBytes, WideBytes) : r \in {"int", "uint"}}
      \union {Style("char", 1, 1)}
Signed(style) == style.range \in {"int", "char"}

--------------------------------------------------------------------------------
(* The printers. *)

HexDigit(d) == IF d <= 9 THEN 48 + d ELSE 55 + d

\* UnityPrintNumberUnsigned: the divisor is the first power of ten that leaves a digit.
PrintUnsigned(number) ==
    LET k == Least({i \in 1..(3 * WideBytes) : number \div Ten[i - 1] <= 9})
    IN  [i \in 1..k |-> 48 + ((number \div Ten[k - i]) % 10)]

\* Mutant: the magnitude of a negative number is taken in the type of an int.
PrintNarrow(v) ==
    IF v < 0 THEN <<45>> \o PrintUnsigned(ToUnsigned(-v, IntBytes)) ELSE PrintUnsigned(v)

\* UnityPrintNumber: ~number + 1 of the unsigned number, so that MIN has a magnitude.
PrintNumber(v) ==
    IF v < 0 THEN <<45>> \o PrintUnsigned(ToUnsigned(-v, WideBytes)) ELSE PrintUnsigned(v)

PrintHex(number, nibbles) ==
    LET k == IF nibbles > 2 * WideBytes THEN 2 * WideBytes ELSE nibbles
    IN  [i \in 1..k |-> HexDigit((number \div Power[4 * (k - i)]) % 16)]

\* UnityPrintMask goes over the bits of an int.
PrintMask(mask, number) ==
    LET top == 8 * IntBytes
    IN  [i \in 1..top |->
            IF Bit(mask, top - i) = 1 THEN 48 + Bit(number, top - i) ELSE 88]

\* UnityPrintChar: CR, LF and what cannot be printed are escaped.
PrintChar(ch) ==
    IF ch \in 32..126 THEN <<ch>>
    ELSE IF ch = 13 THEN <<92, 114>>
    ELSE IF ch = 10 THEN <<92, 110>>
    ELSE <<92, 120>> \o PrintHex(ToUnsigned(ch, WideBytes) % 256, 2)

\* UnityPrint and UnityPrintLen: up to the 0, and up to length characters.
Stop(string, length) == Least({i \in 1..Len(string) : string[i] = 0} \union {length + 1})
PrintText(string, length) ==
    LET n == Stop(string, length) - 1
        text[i \in 0..n] == IF i = 0 THEN <<>> ELSE text[i - 1] \o PrintChar(string[i])
    IN  text[n]

PrintIntByStyle(v, style) ==
    IF style.range = "char" THEN <<39>> \o PrintChar(v) \o <<39>>
    ELSE IF style.range = "int" THEN PrintNumber(v)
    ELSE IF style.range = "uint" THEN PrintUnsigned(ToUnsigned(v, WideBytes))
    ELSE <<48, 120>> \o PrintHex(ToUnsigned(v, WideBytes), 2 * style.bytes)

PrintUintByStyle(v, style) ==
    IF style.range = "uint" THEN PrintUnsigned(v)
                            ELSE <<48, 120>> \o PrintHex(v, 2 * style.bytes)

\* UnityAssertIntNumbersWithin and its like print a scalar as signed or unsigned.
PrintScalar(v, style) ==
    IF Signed(style) THEN PrintIntByStyle(v, style) ELSE PrintUintByStyle(v, style)

\* UnityPrintExpectedAndActualStrings, and Len.
PrintString(string, length) ==
    IF string = Null THEN <<78, 85, 76, 76>> ELSE <<39>> \o PrintText(string, length) \o <<39>>

--------------------------------------------------------------------------------
(* The macros: a call of an assertion with its arguments cast. *)

Cast(style, v) == IF Signed(style) THEN ToSigned(v, style.cast) ELSE ToUnsigned(v, style.cast)

\* arg is a comparison's, a delta, a mask, or a length; each: one value for all elements.
Call(op, style, x, y, n, arg, each) ==
    [op |-> op, style |-> style, x |-> x, y |-> y, n |-> n, arg |-> arg, each |-> each]
Scalar(op, style, e, a, arg) ==
    Call(op, style, <<<<Cast(style, e)>>>>, <<<<Cast(style, a)>>>>, 1, arg, FALSE)

WidestStyle == Style("hex", WideBytes, WideBytes)

\* UNITY_COMPARISON_T: the bits 1, 2 and 4 are equal, greater and smaller.
Comparisons == {8, 1 + 2, 2, 1 + 4, 4}

AssertEqual(style, e, a)         == Scalar("equal", style, e, a, 0)
AssertOrder(style, cmp, t, a)    == Scalar("order", style, t, a, cmp)
AssertWithin(style, delta, e, a) ==
    Scalar("within", style, e, a, ToUnsigned(delta, style.cast))
AssertBits(mask, e, a)           == Scalar("bits", WidestStyle, e, a, mask)
AssertArray(style, x, y, n)      == Call("array", style, x, y, n, 0, FALSE)
AssertEach(style, e, y, n)       == Call("array", style, <<<<Cast(style, e)>>>>, y, n, 0, TRUE)
AssertArrayWithin(style, delta, x, y, n) ==
    Call("array_within", style, x, y, n, ToUnsigned(delta, style.cast), FALSE)
AssertStrings(x, y, n, length)   == Call("string", WidestStyle, x, y, n, length, FALSE)
AssertMemory(x, y, n, length, each) == Call("memory", WidestStyle, x, y, n, length, each)
TestFail   == Call("fail", WidestStyle, Null, Null, 0, 0, FALSE)
TestIgnore == Call("ignore", WidestStyle, Null, Null, 0, 0, FALSE)

--------------------------------------------------------------------------------
(* The assertions: whether they fail, and what they print then. *)

\* An element of an array, read as the style says.
Load(style, v) ==
    IF Signed(style) \/ style.bytes = WideBytes THEN ToSigned(v, style.bytes)
                                                ELSE ToUnsigned(v, style.bytes)

OrderFails(threshold, actual, compare) ==
    \/ threshold = actual /\ compare % 2 = 0
    \/ actual > threshold /\ (compare \div 4) % 2 = 1
    \/ actual < threshold /\ (compare \div 2) % 2 = 1

BitsFail(mask, e, a) ==
    \E i \in 0..(8 * WideBytes - 1) : Bit(mask, i) = 1 /\ Bit(e, i) # Bit(a, i)

WithinFails(e, a, delta) ==
    (IF a > e THEN ToUnsigned(a - e, WideBytes) ELSE ToUnsigned(e - a, WideBytes)) > delta

ArrayWithinFails(style, e, a, delta) ==
    LET asRead(v) == IF Signed(style) THEN Load(style, v) ELSE ToUnsigned(v, style.bytes)
    IN  WithinFails(asRead(e), asRead(a), delta)

\* The strings are compared up to the first difference, a common 0, or length.
StringFails(e, a, length) ==
    IF e = Null \/ a = Null THEN e # a
    ELSE \E i \in 1..length :
            /\ \A j \in 1..(i - 1) : e[j] = a[j] /\ e[j] # 0
            /\ e[i] # a[i]

MemoryFails(e, a, length) == \E i \in 1..length : e[i] # a[i]

ElementFails(c, e, a) ==
    CASE c.op = "array"        -> Load(c.style, e[1]) # Load(c.style, a[1])
      [] c.op = "array_within" -> ArrayWithinFails(c.style, e[1], a[1], c.arg)
      [] c.op = "string"       -> StringFails(e, a, c.arg)
      [] c.op = "memory"       -> MemoryFails(e, a, c.arg)

Arrays == {"array", "array_within", "string", "memory"}

\* Comparing nothing is pointless, and UnityIsOneArrayNull.  The only pointers that are
\* the same are two NULLs.
NothingToCompare(c) == c.n = 0 \/ (c.op = "memory" /\ c.arg = 0)
OneArrayNull(c)     == (c.x = Null) # (c.y = Null)

Expected(c, k) == IF c.each THEN c.x[1] ELSE c.x[k]
Faults(c) == IF Null \in {c.x, c.y} THEN {} ELSE {k \in 1..c.n : ElementFails(c, Expected(c, k), c.y[k])}

\* The outcome of a call that is made with neither flag set.
Fails(c) ==
    CASE c.op = "fail"   -> TRUE
      [] c.op = "ignore" -> FALSE
      [] c.op = "equal"  -> c.x # c.y
      [] c.op = "order"  -> OrderFails(c.x[1][1], c.y[1][1], c.arg)
      [] c.op = "within" -> WithinFails(c.x[1][1], c.y[1][1], c.arg)
      [] c.op = "bits"   -> BitsFail(c.arg, c.x[1][1], c.y[1][1])
      [] c.op \in Arrays -> NothingToCompare(c) \/ OneArrayNull(c) \/ Faults(c) # {}

ByteStyle == Style("hex", 1, 1)

\* The two texts of the message of a call that failed on two values.
Message(c) ==
    LET k == Least(Faults(c))
        e == Expected(c, k)
        a == c.y[k]
        i == Least({j \in 1..c.arg : e[j] # a[j]})
    IN  CASE c.op \in {"equal", "order", "within"} ->
               <<PrintScalar(c.x[1][1], c.style), PrintScalar(c.y[1][1], c.style)>>
          [] c.op = "bits" -> <<PrintMask(c.arg, c.x[1][1]), PrintMask(c.arg, c.y[1][1])>>
          [] c.op \in {"array", "array_within"} ->
               <<PrintIntByStyle(Load(c.style, e[1]), c.style),
                 PrintIntByStyle(Load(c.style, a[1]), c.style)>>
          [] c.op = "string" -> <<PrintString(e, c.arg), PrintString(a, c.arg)>>
          [] c.op = "memory" -> <<PrintIntByStyle(e[i], ByteStyle), PrintIntByStyle(a[i], ByteStyle)>>
================================================================================
