---------------------------- MODULE TelemetryProofs ----------------------------
(***************************************************************************)
(* Proofs about what the coordinator logs of a temperature: the printed    *)
(* number, for every temperature, and that it is the one measured.         *)
(***************************************************************************)
EXTENDS Telemetry, TLAPS

Limits == {t \in Int : -32768 <= t /\ t <= 32767}

--------------------------------------------------------------------------------
(* The arithmetic. *)

LEMMA LimitsAreIntegers == \A t \in Limits : t \in Int
  BY DEF Limits

LEMMA Int16IsIdentity ==
    ASSUME NEW t \in Limits
    PROVE  Int16(t) = t
<1>1. t \in Int /\ 0 <= t + 32768 /\ t + 32768 < 65536
  BY DEF Limits
<1>2. (t + 32768) % 65536 = t + 32768
  BY <1>1
<1> QED
  BY <1>1, <1>2 DEF Int16

LEMMA Tenths ==
    ASSUME NEW m \in Nat
    PROVE  /\ m \div 10 \in Nat /\ m - 10 * (m \div 10) \in 0..9
           /\ (m \div 10 = 0) = (m \in 0..9)
  OBVIOUS

\* "%d.%d" of the coordinator prints a number that reads as the temperature, for every
\* temperature but -0.9 to -0.1 degrees, which lose their sign.
THEOREM PrintReadsBack ==
    ASSUME NEW t \in Int
    PROVE  ReadBack(LogTemperature(t)) = {IF t \in -9..-1 THEN -t ELSE t}
<1>1. CASE t >= 0
  <2>1. Magnitude(t) = t /\ Magnitude(10) = 10 /\ ~(t < 0) /\ ~(10 < 0)
    BY <1>1 DEF Magnitude
  <2>2. Quot(t, 10) = t \div 10
    BY <2>1 DEF Quot
  <2>3. t \in Nat /\ t \div 10 \in Nat /\ t - 10 * (t \div 10) \in 0..9
    BY <1>1, Tenths
  <2>4. Rem(t, 10) = t - 10 * (t \div 10)
    BY <2>2 DEF Rem
  <2>5. Magnitude(Rem(t, 10)) = t - 10 * (t \div 10)
    BY <2>3, <2>4 DEF Magnitude
  <2>6. LogTemperature(t) = [whole |-> t \div 10, tenth |-> t - 10 * (t \div 10)]
    BY <2>2, <2>5 DEF LogTemperature
  <2> QED
    BY <1>1, <2>3, <2>6 DEF ReadBack
<1>2. CASE t < 0
  <2> DEFINE m == -t
  <2>1. m \in Nat \ {0} /\ t = -m
    BY <1>2
  <2>2. m \div 10 \in Nat /\ m - 10 * (m \div 10) \in 0..9 /\ (m \div 10 = 0) = (m \in 0..9)
    BY <2>1, Tenths
  <2>3. Magnitude(t) = m /\ Magnitude(10) = 10 /\ t < 0 /\ ~(10 < 0)
    BY <1>2 DEF Magnitude
  <2>4. Quot(t, 10) = -(m \div 10)
    BY <2>3 DEF Quot
  <2> HIDE DEF m
  <2>5. Rem(t, 10) = -(m - 10 * (m \div 10))
    BY <2>1, <2>2, <2>4 DEF Rem
  <2>6. Magnitude(Rem(t, 10)) = m - 10 * (m \div 10)
    BY <2>2, <2>5 DEF Magnitude
  <2>7. LogTemperature(t) = [whole |-> -(m \div 10), tenth |-> m - 10 * (m \div 10)]
    BY <2>4, <2>6 DEF LogTemperature
  <2>8. ReadBack(LogTemperature(t)) = {IF m \in 0..9 THEN m ELSE -m}
    BY <2>1, <2>2, <2>7 DEF ReadBack
  <2>9. m \in 0..9 <=> t \in -9..-1
    BY <2>1
  <2> QED
    BY <2>1, <2>8, <2>9
<1> QED
  BY <1>1, <1>2

--------------------------------------------------------------------------------
(* The frames in the air say what was measured. *)

LEMMA MeasuredFits == \A raw \in Raws : Measured(raw) \in Limits
  BY TelAssumption DEF Limits

Honest(f) == f.cluster = "temp" => f.raw \in Raws /\ f.value = Measured(f.raw)
TelInv ==
    /\ \A f \in air : Honest(f)
    /\ logged.raw # 0 =>
         logged.raw \in Raws /\ logged.print = LogTemperature(Measured(logged.raw))

\* The light switch's copy of the compensation is the same function.
LEMMA CopiesAgree ==
    ASSUME NEW raw \in Raws
    PROVE  SwitchTemperature(raw, Calib) = ComputeTemperature(raw, Calib)
  BY DEF SwitchTemperature, ComputeTemperature

LEMMA TelInitInv == TelInit => TelInv
  BY DEF TelInit, NothingLogged, TelInv

LEMMA SentHonest ==
    ASSUME TelInv, NEW f, Send(f), Honest(f)
    PROVE  TelInv'
<1>1. air' = air \union {f} /\ UNCHANGED logged
  BY DEF Send
<1>2. \A g \in air' : Honest(g)
  BY <1>1 DEF TelInv
<1> QED
  BY <1>1, <1>2 DEF TelInv, Honest, Measured

LEMMA TelStep ==
    ASSUME TelInv, [TelNext]_telVars
    PROVE  TelInv'
<1>1. ASSUME NEW from, NEW raw \in Raws, NEW r, r = ComputeTemperature(raw, Calib),
             Report(from, r, raw)
      PROVE  TelInv'
  <2> DEFINE f == Frame(from, 10, "temp", "value:S16", Int16(r.temp), raw)
  <2>1. Int16(r.temp) = Measured(raw)
    BY <1>1, MeasuredFits, Int16IsIdentity DEF Measured
  <2>2. f.raw = raw /\ f.value = Measured(raw)
    BY <2>1 DEF Frame
  <2>3. Honest(f) /\ Send(f)
    BY <1>1, <2>2 DEF Honest, Report
  <2> HIDE DEF f
  <2> QED
    BY <2>3, SentHonest
<1>2. CASE SensorReports
  BY <1>1, <1>2 DEF SensorReports
<1>3. CASE SwitchReports
  BY <1>1, <1>3, CopiesAgree DEF SwitchReports
<1>4. CASE SwitchCommands
  <2>1. PICK f : Send(f) /\ f.cluster # "temp"
    BY <1>4 DEF SwitchCommands, Frame
  <2> QED
    BY <2>1, SentHonest DEF Honest
<1>5. CASE LocationWritten
  <2>1. PICK f : Send(f) /\ f.cluster # "temp"
    BY <1>5 DEF LocationWritten, Frame
  <2> QED
    BY <2>1, SentHonest DEF Honest
<1>6. CASE Arrives
  <2>1. PICK f \in air : /\ TempArrives(f) \/ LocationArrives(f) \/ OnOffArrives(f)
                         /\ air' \in {air, air \ {f}}
    BY <1>6 DEF Arrives
  <2>2. \A g \in air' : Honest(g)
    BY <2>1 DEF TelInv
  <2>3. CASE TempArrives(f)
    <3>1. logged' = [print |-> LogTemperature(f.value), raw |-> f.raw] /\ Honest(f)
          /\ f.cluster = "temp"
      BY <2>1, <2>3 DEF TempArrives, TelInv
    <3> QED
      BY <2>2, <3>1 DEF TelInv, Honest, Measured
  <2>4. CASE UNCHANGED logged
    BY <2>2, <2>4 DEF TelInv, Honest, Measured
  <2> QED
    BY <2>1, <2>3, <2>4 DEF LocationArrives, OnOffArrives
<1>7. CASE Dropped
  BY <1>7 DEF Dropped, TelInv, Honest, Measured
<1>8. CASE CoordinatorRestarts
  BY <1>8 DEF CoordinatorRestarts, NothingLogged, TelInv, Honest, Measured
<1>9. CASE UNCHANGED telVars
  BY <1>9 DEF telVars, TelInv, Honest, Measured
<1> QED
  BY <1>2, <1>3, <1>4, <1>5, <1>6, <1>7, <1>8, <1>9 DEF TelNext

\* Whatever frames are lost, repeated or overtaken, and whichever device sent them, the
\* last temperature in the coordinator's log is the one that was measured, if the
\* compensated readings fit the 16 bits of the attribute.
THEOREM LogIsMeasured == TelSpec => []LoggedIsMeasured
<1>1. TelInv /\ [TelNext]_telVars => TelInv'
  BY TelStep
<1>2. TelInv => LoggedIsMeasured
  <2> SUFFICES ASSUME TelInv, logged.raw # 0
               PROVE  ReadBack(logged.print) =
                          {IF Measured(logged.raw) \in -9..-1 THEN -Measured(logged.raw)
                                                              ELSE Measured(logged.raw)}
    BY DEF LoggedIsMeasured
  <2>1. logged.print = LogTemperature(Measured(logged.raw)) /\ Measured(logged.raw) \in Limits
    BY MeasuredFits DEF TelInv
  <2>2. Measured(logged.raw) \in Int
    BY <2>1, LimitsAreIntegers
  <2> QED
    BY <2>1, <2>2, PrintReadsBack
<1> QED
  BY TelInitInv, <1>1, <1>2, PTL DEF TelSpec
--------------------------------------------------------------------------------
(* One scale: a warmer reading compensates to no less. *)

\* A product that fits an int32_t is divided towards zero, however it is split in words.
LEMMA ScaledIsQuot ==
    ASSUME NEW d \in Int, NEW ac5 \in Nat,
           Fits(d, ac5)
    PROVE  /\ Scaled(d, ac5) = IF d * ac5 >= 0 THEN (d * ac5) \div 32768
                                               ELSE -((-(d * ac5)) \div 32768)
           /\ Scaled(d, ac5) \in Int
<1> DEFINE p == d * (ac5 \div 256)
           q == d * (ac5 % 256)
           P == d * ac5
           h == p + (q \div 256)
           l == q % 256
<1>1. p \in Int /\ q \in Int /\ P \in Int
  OBVIOUS
<1>2. P = 256 * p + q
  <2> DEFINE a == ac5 \div 256
             b == ac5 % 256
  <2>1. a \in Int /\ b \in Int /\ ac5 = 256 * a + b
    OBVIOUS
  <2> HIDE DEF a, b
  <2>2. d * (256 * a + b) = 256 * (d * a) + d * b
    BY <2>1
  <2> QED
    BY <2>1, <2>2 DEF a, b
<1>3. h = ProductHigh(d, ac5) /\ l = ProductLow(d, ac5)
  BY DEF ProductHigh, ProductLow
<1> HIDE DEF p, q, P
<1>5. h \in Int /\ l \in 0..255 /\ P = 256 * h + l
  BY <1>1, <1>2
<1> HIDE DEF h, l
<1>6. -8388608 <= h /\ h < 8388608
  BY <1>3, <1>5 DEF Fits
<1>7. ((h + 8388608) % 16777216) - 8388608 = h
  BY <1>5, <1>6
<1>8. Scaled(d, ac5) = IF h >= 0 \/ (h % 128 = 0 /\ l = 0) THEN h \div 128 ELSE (h \div 128) + 1
  BY <1>3, <1>7 DEF Scaled
<1>9. P >= 0 => h >= 0 /\ h \div 128 = P \div 32768
  BY <1>1, <1>5
<1>10. P < 0 /\ h % 128 = 0 /\ l = 0 => h \div 128 = -((-P) \div 32768)
  BY <1>1, <1>5
<1>11. P < 0 /\ ~(h % 128 = 0 /\ l = 0) => h < 0 /\ (h \div 128) + 1 = -((-P) \div 32768)
  BY <1>1, <1>5
<1> QED
  BY <1>1, <1>5, <1>8, <1>9, <1>10, <1>11 DEF P

LEMMA ScaledMonotone ==
    ASSUME NEW d \in Int, NEW e \in Int, NEW ac5 \in Nat, d <= e,
           Fits(d, ac5), Fits(e, ac5)
    PROVE  Scaled(d, ac5) <= Scaled(e, ac5)
<1> DEFINE P == d * ac5
           R == e * ac5
<1>1. P \in Int /\ R \in Int /\ P <= R
  OBVIOUS
<1>2. Scaled(d, ac5) = IF P >= 0 THEN P \div 32768 ELSE -((-P) \div 32768)
  BY ScaledIsQuot
<1>3. Scaled(e, ac5) = IF R >= 0 THEN R \div 32768 ELSE -((-R) \div 32768)
  BY ScaledIsQuot
<1> HIDE DEF P, R
<1> QED
  BY <1>1, <1>2, <1>3

LEMMA DivAntitone ==
    ASSUME NEW m \in Nat, NEW a \in Nat \ {0}, NEW b \in Nat \ {0}, a <= b
    PROVE  m \div b <= m \div a /\ m \div a \in Nat /\ m \div b \in Nat
<1> DEFINE s == m \div a
           t == m \div b
<1>1. s \in Nat /\ t \in Nat /\ a * s <= m /\ m < a * (s + 1) /\ b * t <= m
  OBVIOUS
<1> HIDE DEF s, t
<1>2. ASSUME t >= s + 1 PROVE FALSE
  <2>1. a * (s + 1) <= a * t
    BY <1>1, <1>2
  <2>2. a * t <= b * t
    BY <1>1
  <2> QED
    BY <1>1, <2>1, <2>2
<1> QED
  BY <1>1, <1>2 DEF s, t

LEMMA QuotMonotone ==
    ASSUME NEW v \in Int, NEW w \in Int, v <= w, NEW k \in {10, 16}
    PROVE  Quot(v, k) \in Int /\ Quot(v, k) <= Quot(w, k)
<1>1. /\ Quot(v, 10) = IF v < 0 THEN -((-v) \div 10) ELSE v \div 10
      /\ Quot(w, 10) = IF w < 0 THEN -((-w) \div 10) ELSE w \div 10
  BY DEF Quot, Magnitude
<1>2. /\ Quot(v, 16) = IF v < 0 THEN -((-v) \div 16) ELSE v \div 16
      /\ Quot(w, 16) = IF w < 0 THEN -((-w) \div 16) ELSE w \div 16
  BY DEF Quot, Magnitude
<1> QED
  BY <1>1, <1>2

\* A quotient of a number that is not positive grows with its divisor.
LEMMA QuotByMore ==
    ASSUME NEW n \in Int, n <= 0, NEW a \in Nat \ {0}, NEW b \in Nat \ {0}, a <= b
    PROVE  Quot(n, a) \in Int /\ Quot(n, b) \in Int /\ Quot(n, a) <= Quot(n, b)
<1> DEFINE m == -n
<1>1. m \in Nat /\ n = -m /\ (m = 0 => n = 0)
  OBVIOUS
<1> HIDE DEF m
<1>2. m \div b <= m \div a /\ m \div a \in Nat /\ m \div b \in Nat
  BY <1>1, DivAntitone
<1>3. \A c \in Nat \ {0} : m = 0 => m \div c = 0
  BY <1>1
<1>4. ASSUME NEW c \in {a, b} PROVE Quot(n, c) = -(m \div c)
  <2>1. CASE m > 0
    <3>1. Magnitude(n) = m /\ Magnitude(c) = c /\ n < 0 /\ ~(c < 0)
      BY <1>1, <2>1 DEF Magnitude
    <3> QED
      BY <3>1 DEF Quot
  <2>2. CASE m = 0
    <3>1. n = 0 /\ c \in Nat /\ m = 0
      BY <1>1, <2>2
    <3>2. Quot(n, c) = m \div c
      BY <3>1 DEF Quot, Magnitude
    <3> QED
      BY <1>3, <2>2, <3>2
  <2> QED
    BY <1>1, <2>1, <2>2
<1> QED
  BY <1>2, <1>4

LEMMA Compensation ==
    ASSUME NEW UT, NEW cal, Scaled(UT - cal.ac6, cal.ac5) + cal.md # 0
    PROVE  ComputeTemperature(UT, cal).temp =
             Quot(Scaled(UT - cal.ac6, cal.ac5)
                    + Quot(cal.mc * 2048, Scaled(UT - cal.ac6, cal.ac5) + cal.md) + 8, 16)
<1> DEFINE X1 == Scaled(UT - cal.ac6, cal.ac5)
           divisor == X1 + cal.md
           t == Quot(X1 + Quot(cal.mc * 2048, divisor) + 8, 16)
<1>1. ComputeTemperature(UT, cal) = IF divisor = 0 THEN Failed("EDOM") ELSE Ok(t)
  BY DEF ComputeTemperature
<1>2. divisor # 0
  OBVIOUS
<1> HIDE DEF t
<1>3. ComputeTemperature(UT, cal).temp = t
  BY <1>1, <1>2 DEF Ok
<1> QED
  BY <1>3 DEF t

\* The compensation never falls when the reading rises.
LEMMA CompensationMonotone ==
    ASSUME NEW r \in Raws, NEW s \in Raws, r <= s
    PROVE  Measured(r) <= Measured(s)
<1> DEFINE d == r - Calib.ac6
           e == s - Calib.ac6
           X == Scaled(d, Calib.ac5)
           Y == Scaled(e, Calib.ac5)
           n == Calib.mc * 2048
<1>1. /\ d \in Int /\ e \in Int /\ d <= e /\ Calib.ac5 \in Nat
      /\ Fits(d, Calib.ac5) /\ Fits(e, Calib.ac5)
      /\ X + Calib.md > 0 /\ Y + Calib.md > 0 /\ Calib.md \in Int
  BY TelAssumption
<1>2. n \in Int /\ n <= 0
  BY TelAssumption
<1>3. X + Calib.md # 0 => Measured(r) = Quot(X + Quot(n, X + Calib.md) + 8, 16)
  BY Compensation DEF Measured
<1>4. Y + Calib.md # 0 => Measured(s) = Quot(Y + Quot(n, Y + Calib.md) + 8, 16)
  BY Compensation DEF Measured
<1> HIDE DEF d, e, n
<1>5. X \in Int /\ Y \in Int /\ X <= Y
  BY <1>1, ScaledIsQuot, ScaledMonotone
<1> HIDE DEF X, Y
<1>6. /\ X + Calib.md \in Nat \ {0} /\ Y + Calib.md \in Nat \ {0}
      /\ X + Calib.md <= Y + Calib.md
  BY <1>1, <1>5
<1>7. /\ Quot(n, X + Calib.md) \in Int /\ Quot(n, Y + Calib.md) \in Int
      /\ Quot(n, X + Calib.md) <= Quot(n, Y + Calib.md)
  BY <1>2, <1>6, QuotByMore
<1> DEFINE v == X + Quot(n, X + Calib.md) + 8
           w == Y + Quot(n, Y + Calib.md) + 8
<1>8. v \in Int /\ w \in Int /\ v <= w
  BY <1>5, <1>7
<1>9. Measured(r) = Quot(v, 16) /\ Measured(s) = Quot(w, 16)
  BY <1>3, <1>4, <1>6
<1> HIDE DEF v, w
<1> QED
  BY <1>8, <1>9, QuotMonotone

\* Of two reports in the air, from either device and in whatever order they were sent,
\* the one of the warmer reading carries no lower value, for every sensor at work.
THEOREM ReportsOnOneScale == TelSpec => []OneScale
<1>1. TelInv /\ [TelNext]_telVars => TelInv'
  BY TelStep
<1>2. TelInv => OneScale
  BY CompensationMonotone DEF TelInv, Honest, OneScale, Reports
<1> QED
  BY TelInitInv, <1>1, <1>2, PTL DEF TelSpec

--------------------------------------------------------------------------------
(* Every report, and every On or Off, is one that the coordinator's endpoint     *)
(* takes.                                                                        *)

Declared(f) ==
    /\ f.cluster = "temp" =>
         f.from \in {"sensor", "switch"} /\ f.ep = 10 /\ f.attribute = "value:S16"
    /\ f.cluster = "on_off" => f.from = "switch" /\ f.ep = 10 /\ f.attribute = "command"
DeclaredInv == \A f \in air : Declared(f)

LEMMA SentDeclared ==
    ASSUME DeclaredInv, NEW f, Send(f), Declared(f)
    PROVE  DeclaredInv'
  BY DEF Send, DeclaredInv, Declared

LEMMA DeclaredStep ==
    ASSUME DeclaredInv, [TelNext]_telVars
    PROVE  DeclaredInv'
<1>1. ASSUME NEW from \in {"sensor", "switch"}, NEW raw \in Raws, NEW r, Report(from, r, raw)
      PROVE  DeclaredInv'
  <2> DEFINE f == Frame(from, 10, "temp", "value:S16", Int16(r.temp), raw)
  <2>1. Declared(f) /\ Send(f)
    BY <1>1 DEF Declared, Frame, Report
  <2> HIDE DEF f
  <2> QED
    BY <2>1, SentDeclared
<1>2. CASE SensorReports
  BY <1>1, <1>2 DEF SensorReports
<1>3. CASE SwitchReports
  BY <1>1, <1>3 DEF SwitchReports
<1>4. CASE SwitchCommands \/ LocationWritten
  <2>1. \A value, raw :
          /\ Declared(Frame("switch", 10, "on_off", "command", value, raw))
          /\ Declared(Frame("switch", 10, "level", "command", value, raw))
          /\ Declared(Frame("sensor", 10, "basic", "location:string", value, raw))
    BY DEF Declared, Frame
  <2>2. PICK f : Send(f) /\ Declared(f)
    BY <1>4, <2>1 DEF SwitchCommands, LocationWritten
  <2> QED
    BY <2>2, SentDeclared
<1>5. CASE Arrives \/ Dropped \/ CoordinatorRestarts \/ UNCHANGED telVars
  <2>1. \A g \in air' : g \in air
    BY <1>5 DEF Arrives, Dropped, CoordinatorRestarts, telVars
  <2> QED
    BY <2>1 DEF DeclaredInv, Declared
<1> QED
  BY <1>2, <1>3, <1>4, <1>5 DEF TelNext

\* Every report in the air, and every On or Off, goes to a cluster, and a write with a
\* type, that the coordinator's endpoint takes, from a declared client of it.
THEOREM ReportsAreAccepted == TelSpec => []ReportsAccepted
<1>1. TelInit => DeclaredInv
  BY DEF TelInit, DeclaredInv
<1>2. DeclaredInv /\ [TelNext]_telVars => DeclaredInv'
  BY DeclaredStep
<1>3. DeclaredInv => ReportsAccepted
  <2> SUFFICES ASSUME DeclaredInv, NEW f \in air, f.cluster \in {"temp", "on_off"}
               PROVE  Accepts(f) /\ f.cluster \in Endpoint[f.from].client
    BY DEF ReportsAccepted
  <2>1. Declared(f)
    BY DEF DeclaredInv
  <2>2. Accepts(f)
    BY <2>1 DEF Accepts, Declared, Endpoint, CoordinatorEndpoint, Writable
  <2>3. f.cluster \in Endpoint[f.from].client
    BY <2>1 DEF Declared, Endpoint, SensorEndpoint, SwitchEndpoint
  <2> QED
    BY <2>2, <2>3
<1> QED
  BY <1>1, <1>2, <1>3, PTL DEF TelSpec
================================================================================
