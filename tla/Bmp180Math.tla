------------------------------ MODULE Bmp180Math ------------------------------
(***************************************************************************)
(* The arithmetic of a temperature, from the sensor's words to the log of  *)
(* the coordinator: the compensation (bmp180_math.c, and the copy of it in *)
(* light_switch/src/bmp_180.c), the cast to a ZCL S16 and the "%d.%d" that *)
(* prints it.  C divides towards zero, and its 32-bit product wraps on the *)
(* Cortex-M4 (MUL keeps the low word).                                     *)
(***************************************************************************)
EXTENDS Integers

Magnitude(a) == IF a < 0 THEN -a ELSE a

\* C's a / b and a % b, b # 0.
Quot(a, b) ==
    LET q == Magnitude(a) \div Magnitude(b) IN IF (a < 0) = (b < 0) THEN q ELSE -q
Rem(a, b) == a - b * Quot(a, b)

\* The conversion to int16_t.
Int16(v) == ((v + 32768) % 65536) - 32768

\* The product d * ac5 as 256 * h + l with l in 0..255, so that no number here needs
\* more than 32 bits; it fits an int32_t when h fits 24.
ProductHigh(d, ac5) == d * (ac5 \div 256) + (d * (ac5 % 256)) \div 256
ProductLow(d, ac5)  == (d * (ac5 % 256)) % 256

Fits(d, ac5) == -8388608 <= ProductHigh(d, ac5) /\ ProductHigh(d, ac5) <= 8388607

\* d * ac5 / (1 << 15), the product wrapped to 32 bits and divided towards zero.
Scaled(d, ac5) ==
    LET h == ((ProductHigh(d, ac5) + 8388608) % 16777216) - 8388608
    IN  IF h >= 0 \/ (h % 128 = 0 /\ ProductLow(d, ac5) = 0)
          THEN h \div 128
          ELSE h \div 128 + 1

Failed(err) == [err |-> err, temp |-> 0]
Ok(t)       == [err |-> "ok", temp |-> t]

\* Mutant: the rounding term is left out.
ComputeUnrounded(UT, cal) ==
    LET X1 == Scaled(UT - cal.ac6, cal.ac5)
        divisor == X1 + cal.md
    IN  IF divisor = 0 THEN Failed("EDOM")
        ELSE Ok(Quot(X1 + Quot(cal.mc * 2048, divisor), 16))

\* bmp180_compute_temperature; the result is in tenths of a degree.
ComputeTemperature(UT, cal) ==
    LET X1 == Scaled(UT - cal.ac6, cal.ac5)
        divisor == X1 + cal.md
    IN  IF divisor = 0 THEN Failed("EDOM")
        ELSE Ok(Quot(X1 + Quot(cal.mc * 2048, divisor) + 8, 16))

\* The copy in the light switch's driver, with the same check.
SwitchTemperature(UT, cal) ==
    LET X1 == Scaled(UT - cal.ac6, cal.ac5)
        divisor == X1 + cal.md
        X2 == Quot(cal.mc * 2048, divisor)
    IN  IF divisor = 0 THEN Failed("EDOM") ELSE Ok(Quot(X1 + X2 + 8, 16))

\* Mutant: the remainder is printed as it is, as the drivers print it.
PrintSigned(t) == [whole |-> Quot(t, 10), tenth |-> Rem(t, 10)]

\* "%d.%d" of the coordinator, which prints the magnitude of the remainder.
LogTemperature(t) == [whole |-> Quot(t, 10), tenth |-> Magnitude(Rem(t, 10))]

\* The numbers a reader may take a printed pair for; -1.-5 is none.
ReadBack(p) ==
    IF p.tenth < 0 THEN {}
    ELSE IF p.whole < 0 THEN {10 * p.whole - p.tenth} ELSE {10 * p.whole + p.tenth}
================================================================================
