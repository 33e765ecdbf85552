---------------------------- MODULE UnitTestProofs ----------------------------
(***************************************************************************)
(* Proofs about the payload parser, for every payload, about the assertions*)
(* of the test framework, for all their arguments, and about its runner,   *)
(* for every set of tests.                                                 *)
(***************************************************************************)
EXTENDS UnitTest, WellFoundedInduction, FiniteSetTheorems, TLAPS

--------------------------------------------------------------------------------
(* The payload. *)

LEMMA RangeOfS16 ==
    ASSUME NEW t \in S16
    PROVE  t \in Int /\ -32768 <= t /\ t <= 32767
<1>1. QED
  BY DEF S16

\* The two bytes of a 16-bit number, put together again, are the number modulo 2^16.
LEMMA BytesOfS16 ==
    ASSUME NEW t \in S16
    PROVE  /\ (t \div 256) % 256 \in Byte /\ t % 256 \in Byte
           /\ 256 * ((t \div 256) % 256) + (t % 256) = IF t < 0 THEN t + 65536 ELSE t
<1>1. t \in Int /\ -32768 <= t /\ t <= 32767
  BY RangeOfS16
<1>2. PICK h, l \in Int : h = t \div 256 /\ l = t % 256
  BY <1>1
<1>3. t = 256 * h + l /\ l \in 0..255
  BY <1>1, <1>2
<1>4. h \in -128..127
  BY <1>1, <1>2, <1>3
<1>5. h % 256 = IF h < 0 THEN h + 256 ELSE h
  <2>1. CASE h \in -128..-1
    BY <2>1
  <2>2. CASE h \in 0..127
    BY <2>2
  <2>3. QED
    BY <1>4, <2>1, <2>2
<1>6. h % 256 \in 0..255
  BY <1>2
<1>7. 256 * (h % 256) + l = IF t < 0 THEN t + 65536 ELSE t
  BY <1>1, <1>3, <1>4, <1>5
<1>8. QED
  BY <1>2, <1>3, <1>6, <1>7 DEF Byte

\* What payload_deserialize reads from what payload_serialize wrote is the payload, for
\* every node, every 16-bit temperature, the negative ones too, and every battery level;
\* and each of the four is a byte.
THEOREM PayloadRoundTrip ==
    ASSUME NEW p \in SensorPayload
    PROVE  /\ Serialize(p) \in [1..4 -> Byte]
           /\ Deserialize(Serialize(p)) = p
<1>1. p.node_id \in Byte /\ p.temperature \in S16 /\ p.battery_level \in Byte
  BY DEF SensorPayload
<1>2. Serialize(p) \in [1..4 -> Byte]
  BY <1>1, BytesOfS16 DEF Serialize
<1>3. Deserialize(Serialize(p)).temperature = p.temperature
  <2> DEFINE word == 256 * ((p.temperature \div 256) % 256) + (p.temperature % 256)
  <2>1. Deserialize(Serialize(p)).temperature = ToS16(word)
    BY DEF Deserialize, Serialize
  <2>2. word = IF p.temperature < 0 THEN p.temperature + 65536 ELSE p.temperature
    BY <1>1, BytesOfS16
  <2>3. p.temperature \in Int /\ -32768 <= p.temperature /\ p.temperature <= 32767
    BY <1>1, RangeOfS16
  <2> HIDE DEF word
  <2>4. ToS16(word) = p.temperature
    <3>1. ToS16(IF p.temperature < 0 THEN p.temperature + 65536 ELSE p.temperature)
              = p.temperature
      BY <2>3 DEF ToS16
    <3>2. QED
      BY ONLY <2>2, <3>1
  <2>5. QED
    BY <2>1, <2>4
<1>4. Deserialize(Serialize(p)) =
          [node_id |-> p.node_id, temperature |-> p.temperature,
           battery_level |-> p.battery_level]
  BY <1>3 DEF Deserialize, Serialize
<1>5. QED
  BY <1>2, <1>4 DEF SensorPayload

--------------------------------------------------------------------------------
(* Least numbers, and remainders. *)

LEMMA LeastExists ==
    ASSUME NEW T \in SUBSET Nat, T # {}
    PROVE  \E x \in T : \A y \in T : x <= y
<1> DEFINE R == OpToRel(<, Nat)
<1>1. IsWellFoundedOn(R, Nat)
  BY NatLessThanWellFounded, Zenon
<1>2. \A x, y \in Nat : <<y, x>> \in R <=> y < x
  BY DEF OpToRel
<1> HIDE DEF R
<1>3. PICK x \in T : \A y \in T : ~(<<y, x>> \in R)
  BY <1>1, WFMin, Zenon
<1>4. \A y \in T : ~(y < x)
  BY <1>2, <1>3, Zenon
<1>5. x \in Nat
  OBVIOUS
<1>6. \A y \in T : x <= y
  BY <1>4, <1>5
<1> QED
  BY <1>6

\* What holds at 0, and at each number after one at which it holds, holds up to n.
LEMMA UpTo ==
    ASSUME NEW n \in Nat, NEW Good, 0 \in Good,
           \A i \in 1..n : i - 1 \in Good => i \in Good
    PROVE  \A i \in 0..n : i \in Good
<1> DEFINE Bad == {i \in 0..n : i \notin Good}
<1>1. Bad \in SUBSET Nat
  OBVIOUS
<1>2. ASSUME Bad # {} PROVE FALSE
  <2>1. PICK i \in Bad : \A j \in Bad : i <= j
    BY <1>1, <1>2, LeastExists
  <2>2. i \in 1..n /\ i - 1 \in 0..n /\ ~(i <= i - 1)
    BY <2>1
  <2>3. i - 1 \in Good
    BY <2>1, <2>2
  <2> QED
    BY <2>1, <2>2, <2>3
<1> QED
  BY <1>2

\* From an element of S, the n steps of a loop lead to one element after another.
LoopOver(S, n, start, step) == n \in Nat /\ start \in S /\ step \in [1..n -> [S -> S]]
Runs(f, S, n, start, step) ==
    /\ f \in [0..n -> S]
    /\ f = [i \in 0..n |-> IF i = 0 THEN start ELSE step[i][f[i - 1]]]

LEMMA Loop ==
    ASSUME NEW S, NEW n, NEW start, NEW step, LoopOver(S, n, start, step)
    PROVE  \E f : Runs(f, S, n, start, step)
<1> DEFINE Starts(f, m) == /\ f \in [0..m -> S] /\ f[0] = start
                         /\ \A i \in 1..m : f[i] = step[i][f[i - 1]]
           Good == {m \in 0..n : \E f : Starts(f, m)}
<1> n \in Nat /\ start \in S /\ step \in [1..n -> [S -> S]]
  BY DEF LoopOver
<1>1. 0 \in Good
  <2> DEFINE g == [i \in 0..0 |-> start]
  <2>1. Starts(g, 0)
    OBVIOUS
  <2> HIDE DEF g, Starts
  <2> QED
    BY <2>1
<1>2. ASSUME NEW m \in 1..n, m - 1 \in Good PROVE m \in Good
  <2>1. PICK f : Starts(f, m - 1)
    BY <1>2
  <2> DEFINE g == [i \in 0..m |-> IF i = m THEN step[m][f[m - 1]] ELSE f[i]]
  <2>2. m - 1 \in 0..(m - 1) /\ \A i \in 0..m : i = m \/ i \in 0..(m - 1)
    OBVIOUS
  <2>3. f[m - 1] \in S /\ step[m][f[m - 1]] \in S
    BY <2>1, <2>2
  <2>4. g \in [0..m -> S]
    BY <2>1, <2>2, <2>3
  <2>5. g[0] = start
    BY <2>1
  <2>6. ASSUME NEW i \in 1..m PROVE g[i] = step[i][g[i - 1]]
    <3>1. CASE i = m
      BY <3>1
    <3>2. CASE i # m
      BY <2>1, <3>2
    <3> QED
      BY <3>1, <3>2
  <2>7. Starts(g, m)
    BY <2>4, <2>5, <2>6
  <2> HIDE DEF g, Starts
  <2> QED
    BY <2>7
<1>3. n \in Good
  <2> HIDE DEF Good
  <2>1. \A i \in 0..n : i \in Good
    BY <1>1, <1>2, UpTo
  <2>2. n \in 0..n
    OBVIOUS
  <2> QED
    BY <2>1, <2>2
<1>4. PICK f : Starts(f, n)
  BY <1>3
<1>5. f = [i \in 0..n |-> IF i = 0 THEN start ELSE step[i][f[i - 1]]]
  BY <1>4
<1> QED
  BY <1>4, <1>5 DEF Runs

\* p is the sequence of the first powers of b.
PowersOf(p, b, n) ==
    /\ p[0] = 1 /\ \A i \in 1..n : p[i] = b * p[i - 1]
    /\ \A i \in 0..n : p[i] \in Nat /\ p[i] > 0

\* What is defined as the powers of two or ten is.
LEMMA PowersExist ==
    ASSUME NEW n \in Nat, NEW b \in {2, 10}
    PROVE  PowersOf(CHOOSE f : f = [i \in 0..n |-> IF i = 0 THEN 1 ELSE b * f[i - 1]], b, n)
<1> DEFINE Is(f) == f = [i \in 0..n |-> IF i = 0 THEN 1 ELSE b * f[i - 1]]
           p == CHOOSE f : Is(f)
           one == 1
           step == [i \in 1..n |-> [v \in Nat |-> b * v]]
           S == Nat
<1>1. LoopOver(S, n, one, step)
  BY DEF LoopOver
<1>2. \A i \in 1..n : \A v \in Nat : step[i][v] = b * v
  OBVIOUS
<1> HIDE DEF step, one, S
<1>3. PICK f : Runs(f, S, n, one, step)
  BY <1>1, Loop, Zenon
<1>4. Is(f)
  <2>1. ASSUME NEW i \in 0..n, i # 0 PROVE step[i][f[i - 1]] = b * f[i - 1]
    <3>1. i \in 1..n /\ i - 1 \in 0..n
      BY <2>1
    <3>2. f[i - 1] \in Nat
      BY <1>3, <3>1, Zenon DEF S, Runs
    <3> QED
      BY <1>2, <3>1, <3>2, Zenon
  <2>2. f = [i \in 0..n |-> IF i = 0 THEN one ELSE b * f[i - 1]]
    BY <1>3, <2>1, Zenon DEF Runs
  <2> QED
    BY <2>2, Zenon DEF one
<1>5. Is(p)
  BY <1>4, Zenon
<1> HIDE DEF p
<1>6. p[0] = 1 /\ \A i \in 1..n : p[i] = b * p[i - 1]
  BY <1>5
<1> DEFINE Good == {i \in 0..n : p[i] \in Nat /\ p[i] > 0}
<1>7. 0 \in Good
  BY <1>6
<1>8. ASSUME NEW i \in 1..n, i - 1 \in Good PROVE i \in Good
  <2>1. p[i - 1] \in Nat /\ p[i - 1] > 0 /\ p[i] = b * p[i - 1]
    BY <1>6, <1>8
  <2> QED
    BY <2>1
<1>9. \A i \in 0..n : i \in Good
  <2> HIDE DEF Good
  <2> QED
    BY <1>7, <1>8, UpTo
<1>10. PowersOf(p, b, n)
  BY <1>6, <1>9 DEF PowersOf
<1> QED
  BY <1>10 DEF p

LEMMA PowerSteps == PowersOf(Power, 2, 8 * WideBytes)
<1>1. 8 * WideBytes \in Nat /\ 2 \in {2, 10}
  BY UnitySizes
<1> QED
  BY <1>1, PowersExist, Zenon DEF Power

LEMMA TenSteps == PowersOf(Ten, 10, 3 * WideBytes)
<1>1. 3 * WideBytes \in Nat /\ 10 \in {2, 10}
  BY UnitySizes
<1> QED
  BY <1>1, PowersExist, Zenon DEF Ten

\* No power of two is greater than a later one.
LEMMA PowersGrow ==
    ASSUME NEW k \in 0..(8 * WideBytes), NEW m \in k..(8 * WideBytes)
    PROVE  Power[k] <= Power[m]
<1> DEFINE Good == {i \in 0..(m - k) : Power[k] <= Power[k + i]}
<1>1. 0 \in Good
  <2>1. Power[k] \in Nat /\ k + 0 = k
    BY PowerSteps, UnitySizes DEF PowersOf
  <2> QED
    BY <2>1, UnitySizes
<1>2. ASSUME NEW i \in 1..(m - k), i - 1 \in Good PROVE i \in Good
  <2>1. /\ k \in 0..(8 * WideBytes) /\ k + i \in 1..(8 * WideBytes)
        /\ k + (i - 1) \in 0..(8 * WideBytes) /\ (k + i) - 1 = k + (i - 1)
    BY UnitySizes
  <2>2. /\ Power[k] \in Nat /\ Power[k + (i - 1)] \in Nat
        /\ Power[k + i] = 2 * Power[k + (i - 1)]
    BY <2>1, PowerSteps DEF PowersOf
  <2> QED
    BY <1>2, <2>2
<1>3. m - k \in Good
  <2> HIDE DEF Good
  <2>1. m - k \in Nat /\ m - k \in 0..(m - k)
    BY UnitySizes
  <2>2. \A i \in 0..(m - k) : i \in Good
    BY <1>1, <1>2, <2>1, UpTo
  <2> QED
    BY <2>1, <2>2
<1>4. k + (m - k) = m
  BY UnitySizes
<1> QED
  BY <1>3, <1>4

\* The remainder of a division, and the quotient, are the only numbers of their kind.
LEMMA Remainder ==
    ASSUME NEW w \in Nat, w > 0, NEW v \in Int
    PROVE  /\ v % w \in Int /\ 0 <= v % w /\ v % w < w
           /\ v \div w \in Int /\ v = w * (v \div w) + (v % w)
  OBVIOUS

LEMMA RemainderIs ==
    ASSUME NEW w \in Nat, w > 0, NEW q \in Int, NEW r \in Int, 0 <= r, r < w
    PROVE  (w * q + r) % w = r
<1> DEFINE v == w * q + r
           p == v \div w
           s == v % w
<1>1. v \in Int
  OBVIOUS
<1>2. p \in Int /\ s \in Int /\ 0 <= s /\ s < w /\ v = w * p + s
  BY <1>1, Remainder
<1>3. w * (q - p) = s - r
  BY <1>2
<1> HIDE DEF v, p, s
<1>4. q - p = 0
  <2>1. CASE q - p >= 1
    <3>1. w * (q - p) >= w
      BY <1>2, <2>1
    <3> QED
      BY <1>2, <1>3, <3>1
  <2>2. CASE q - p <= -1
    <3>1. w * (q - p) <= -w
      BY <1>2, <2>2
    <3> QED
      BY <1>2, <1>3, <3>1
  <2> QED
    BY <1>2, <2>1, <2>2
<1>5. w * (q - p) = 0
  BY <1>4
<1>6. s = r
  BY <1>2, <1>3, <1>5
<1> QED
  BY <1>6 DEF s, v

LEMMA Congruent ==
    ASSUME NEW w \in Nat, w > 0, NEW u \in Int, NEW v \in Int
    PROVE  u % w = v % w <=> (u - v) % w = 0
<1>1. PICK p \in Int, r \in Int : u = w * p + r /\ 0 <= r /\ r < w /\ u % w = r
  BY Remainder
<1>2. PICK q \in Int, s \in Int : v = w * q + s /\ 0 <= s /\ s < w /\ v % w = s
  BY Remainder
<1>3. CASE r = s
  <2>1. u - v = w * (p - q) + 0 /\ p - q \in Int
    BY <1>1, <1>2, <1>3
  <2>2. (w * (p - q) + 0) % w = 0
    BY <2>1, RemainderIs
  <2> QED
    BY ONLY <1>1, <1>2, <1>3, <2>1, <2>2
<1>4. CASE (u - v) % w = 0
  <2>1. PICK d \in Int : u - v = w * d
    BY <1>4, Remainder
  <2>2. u = w * (d + q) + s /\ d + q \in Int
    BY <1>2, <2>1
  <2>3. (w * (d + q) + s) % w = s
    BY <1>2, <2>2, RemainderIs
  <2> QED
    BY ONLY <1>1, <1>2, <2>2, <2>3, <1>4
<1> QED
  BY <1>1, <1>2, <1>3, <1>4

LEMMA RemainderOfSmall ==
    ASSUME NEW w \in Nat, w > 0, NEW d \in Int
    PROVE  /\ 0 <= d /\ d < w => d % w = d
           /\ -w < d /\ d < w => (d % w = 0 <=> d = 0)
<1>1. ASSUME 0 <= d, d < w PROVE d % w = d
  <2>1. d = w * 0 + d
    OBVIOUS
  <2> QED
    BY <1>1, <2>1, RemainderIs
<1>2. ASSUME -w < d, d < 0 PROVE d % w = d + w
  <2>1. d = w * (-1) + (d + w)
    OBVIOUS
  <2> QED
    BY <1>2, <2>1, RemainderIs
<1> QED
  BY <1>1, <1>2

LEMMA LeastIsLeast ==
    ASSUME NEW T \in SUBSET Nat, T # {}
    PROVE  Least(T) \in T /\ \A y \in T : Least(T) <= y
<1>1. \E x \in T : \A y \in T : x <= y
  BY LeastExists
<1> QED
  BY <1>1 DEF Least

LEMMA LeastIs ==
    ASSUME NEW T \in SUBSET Nat, NEW m \in T, \A y \in T : m <= y
    PROVE  Least(T) = m
<1>1. Least(T) \in T /\ \A y \in T : Least(T) <= y
  BY LeastIsLeast
<1>2. Least(T) \in Nat /\ m \in Nat /\ Least(T) <= m /\ m <= Least(T)
  BY <1>1
<1> QED
  BY <1>2

--------------------------------------------------------------------------------
(* What an assertion decides. *)

Decides(c) == Fails(c) \in BOOLEAN /\ (Fails(c) <=> ~Holds(c))

LEMMA StyleSizes ==
    ASSUME NEW style \in Styles
    PROVE  style.bytes \in 1..WideBytes /\ style.cast \in 1..WideBytes
  BY UnitySizes DEF Styles, Style

LEMMA SpaceSizes ==
    ASSUME NEW b \in 1..WideBytes
    PROVE  Space(b) \in Nat /\ Space(b) > 0 /\ Space(b) <= Space(WideBytes)
<1>1. /\ 8 * b \in 0..(8 * WideBytes)
      /\ 8 * WideBytes \in (8 * b)..(8 * WideBytes)
  BY UnitySizes
<1> QED
  BY <1>1, PowerSteps, PowersGrow DEF Space, PowersOf

LEMMA Conversions ==
    ASSUME NEW b \in 1..WideBytes, NEW v \in Int
    PROVE  /\ ToUnsigned(v, b) \in Int /\ 0 <= ToUnsigned(v, b) /\ ToUnsigned(v, b) < Space(b)
           /\ ToSigned(v, b) \in Int
           /\ -Space(b) <= 2 * ToSigned(v, b) /\ 2 * ToSigned(v, b) < Space(b)
<1>1. Space(b) \in Nat /\ Space(b) > 0
  BY SpaceSizes
<1>2. ToUnsigned(v, b) \in Int /\ 0 <= ToUnsigned(v, b) /\ ToUnsigned(v, b) < Space(b)
  BY <1>1, Remainder DEF ToUnsigned
<1> QED
  BY <1>1, <1>2 DEF ToSigned

\* Two numbers of one type differ by less than the range of UNITY_INT.
LEMMA Differences ==
    ASSUME NEW b \in 1..WideBytes, NEW u \in Int, NEW v \in Int
    PROVE  /\ ToUnsigned(u, b) - ToUnsigned(v, b) < Space(WideBytes)
           /\ ToSigned(u, b) - ToSigned(v, b) < Space(WideBytes)
<1>1. Space(b) \in Nat /\ Space(WideBytes) \in Int /\ Space(b) <= Space(WideBytes)
  BY SpaceSizes, UnitySizes
<1> QED
  BY <1>1, Conversions

\* Two numbers are the same in a type if they differ by a multiple of its range.
LEMMA SameConverted ==
    ASSUME NEW b \in 1..WideBytes, NEW u \in Int, NEW v \in Int
    PROVE  /\ ToUnsigned(u, b) = ToUnsigned(v, b) <=> Same(u, v, b)
           /\ ToSigned(u, b) = ToSigned(v, b) <=> Same(u, v, b)
<1>1. Space(b) \in Nat /\ Space(b) > 0
  BY SpaceSizes
<1>2. ToUnsigned(u, b) = ToUnsigned(v, b) <=> Same(u, v, b)
  BY <1>1, Congruent DEF ToUnsigned, Same
<1>3. ToSigned(u, b) = ToSigned(v, b) <=> ToUnsigned(u, b) = ToUnsigned(v, b)
  <2> DEFINE m == ToUnsigned(u, b)
             n == ToUnsigned(v, b)
             w == Space(b)
  <2>1. m \in Int /\ n \in Int /\ w \in Int /\ 0 <= m /\ m < w /\ 0 <= n /\ n < w
    BY <1>1, Conversions
  <2>2. /\ ToSigned(u, b) = IF 2 * m < w THEN m ELSE m - w
        /\ ToSigned(v, b) = IF 2 * n < w THEN n ELSE n - w
    BY DEF ToSigned
  <2> HIDE DEF m, n, w
  <2> QED
    BY <2>1, <2>2 DEF m, n
<1> QED
  BY <1>2, <1>3

LEMMA CastSizes ==
    ASSUME NEW style \in Styles, NEW u \in Int, NEW v \in Int
    PROVE  /\ Cast(style, u) \in Int /\ Cast(style, v) \in Int
           /\ Cast(style, u) - Cast(style, v) < Space(WideBytes)
           /\ Cast(style, v) - Cast(style, u) < Space(WideBytes)
<1>1. style.cast \in 1..WideBytes
  BY StyleSizes
<1> QED
  BY <1>1, Conversions, Differences DEF Cast

LEMMA WideSpace == WideBytes \in 1..WideBytes /\ Space(WideBytes) \in Nat /\ Space(WideBytes) > 0
  BY UnitySizes, SpaceSizes

--------------------------------------------------------------------------------

LEMMA ScalarParts ==
    ASSUME NEW op, NEW style, NEW e, NEW a, NEW arg
    PROVE  /\ Scalar(op, style, e, a, arg).op = op
           /\ Scalar(op, style, e, a, arg).arg = arg
           /\ Scalar(op, style, e, a, arg).x = <<<<Cast(style, e)>>>>
           /\ Scalar(op, style, e, a, arg).y = <<<<Cast(style, a)>>>>
           /\ Scalar(op, style, e, a, arg).x[1][1] = Cast(style, e)
           /\ Scalar(op, style, e, a, arg).y[1][1] = Cast(style, a)
  BY DEF Scalar, Call

LEMMA EqualDecides ==
    ASSUME NEW style \in Styles, NEW e \in Int, NEW a \in Int
    PROVE  Decides(AssertEqual(style, e, a))
<1> DEFINE c == AssertEqual(style, e, a)
           x == Cast(style, e)
           y == Cast(style, a)
<1>1. c.op = "equal" /\ c.x = <<<<x>>>> /\ c.y = <<<<y>>>> /\ c.x[1][1] = x /\ c.y[1][1] = y
  BY ScalarParts DEF AssertEqual
<1>2. x \in Int /\ y \in Int /\ x - y < Space(WideBytes) /\ y - x < Space(WideBytes)
  BY CastSizes
<1> HIDE DEF c, x, y
<1>3. Fails(c) = (c.x # c.y)
  BY <1>1 DEF Fails, Arrays
<1>4. Holds(c) = Same(x, y, WideBytes)
  BY <1>1 DEF Holds, Arrays
<1>5. c.x = c.y <=> x = y
  BY <1>1
<1>6. Same(x, y, WideBytes) <=> x = y
  BY <1>2, WideSpace, RemainderOfSmall DEF Same
<1>7. Decides(c)
  BY <1>3, <1>4, <1>5, <1>6 DEF Decides
<1> QED
  BY <1>7 DEF c

LEMMA OrderDecides ==
    ASSUME NEW style \in Styles, NEW cmp \in Comparisons, NEW t \in Int, NEW a \in Int
    PROVE  Decides(AssertOrder(style, cmp, t, a))
<1> DEFINE c == AssertOrder(style, cmp, t, a)
           x == Cast(style, t)
           y == Cast(style, a)
<1>1. c.op = "order" /\ c.arg = cmp /\ c.x[1][1] = x /\ c.y[1][1] = y
  BY ScalarParts DEF AssertOrder
<1>2. x \in Int /\ y \in Int
  BY CastSizes
<1> HIDE DEF c, x, y
<1>3. Fails(c) = OrderFails(x, y, cmp)
  BY <1>1 DEF Fails, Arrays
<1>4. Holds(c) = (\/ cmp = 8 /\ y # x
                  \/ cmp = 3 /\ y >= x
                  \/ cmp = 2 /\ y > x
                  \/ cmp = 5 /\ y <= x
                  \/ cmp = 4 /\ y < x)
  BY <1>1 DEF Holds, Arrays
<1>5. Decides(c)
  BY <1>2, <1>3, <1>4 DEF Decides, OrderFails, Comparisons
<1> QED
  BY <1>5 DEF c

LEMMA WithinFailsIff ==
    ASSUME NEW e \in Int, NEW a \in Int, NEW delta \in Int,
           e - a < Space(WideBytes), a - e < Space(WideBytes)
    PROVE  WithinFails(e, a, delta) = (Distance(e, a) > delta)
<1>1. \A d \in Int : 0 <= d /\ d < Space(WideBytes) => ToUnsigned(d, WideBytes) = d
  BY WideSpace, RemainderOfSmall DEF ToUnsigned
<1> QED
  BY <1>1 DEF WithinFails, Distance

LEMMA WithinDecides ==
    ASSUME NEW style \in Styles, NEW delta \in Int, NEW e \in Int, NEW a \in Int
    PROVE  Decides(AssertWithin(style, delta, e, a))
<1> DEFINE c == AssertWithin(style, delta, e, a)
           x == Cast(style, e)
           y == Cast(style, a)
           d == ToUnsigned(delta, style.cast)
<1>1. c.op = "within" /\ c.arg = d /\ c.x[1][1] = x /\ c.y[1][1] = y
  BY ScalarParts DEF AssertWithin
<1>2. /\ x \in Int /\ y \in Int /\ x - y < Space(WideBytes) /\ y - x < Space(WideBytes)
      /\ d \in Int
  BY CastSizes, StyleSizes, Conversions
<1> HIDE DEF c, x, y, d
<1>3. Fails(c) = WithinFails(x, y, d)
  BY <1>1 DEF Fails, Arrays
<1>4. Holds(c) = (Distance(x, y) <= d)
  BY <1>1 DEF Holds, Arrays
<1>5. Distance(x, y) \in Int
  BY <1>2 DEF Distance
<1>6. WithinFails(x, y, d) = (Distance(x, y) > d)
  BY <1>2, WithinFailsIff
<1>7. (Distance(x, y) > d) \in BOOLEAN /\ ((Distance(x, y) > d) <=> ~(Distance(x, y) <= d))
  BY <1>2, <1>5
<1>8. Decides(c)
  BY <1>3, <1>4, <1>6, <1>7, Zenon DEF Decides
<1> QED
  BY <1>8 DEF c

LEMMA BitIsBit ==
    ASSUME NEW v \in Int, NEW i \in 0..(8 * WideBytes - 1)
    PROVE  Bit(v, i) \in {0, 1}
<1>1. ToUnsigned(v, WideBytes) \in Int
  BY WideSpace, Conversions
<1>2. Power[i] \in Nat /\ Power[i] > 0
  BY PowerSteps, UnitySizes DEF PowersOf
<1>3. ToUnsigned(v, WideBytes) \div Power[i] \in Int
  BY <1>1, <1>2
<1> QED
  BY <1>3 DEF Bit

LEMMA BitsDecide ==
    ASSUME NEW mask \in Int, NEW e \in Int, NEW a \in Int
    PROVE  Decides(AssertBits(mask, e, a))
<1> DEFINE c == AssertBits(mask, e, a)
           x == Cast(WidestStyle, e)
           y == Cast(WidestStyle, a)
<1>1. c.op = "bits" /\ c.arg = mask /\ c.x[1][1] = x /\ c.y[1][1] = y
  BY ScalarParts DEF AssertBits
<1>2. WidestStyle \in Styles
  BY WideSpace DEF WidestStyle, Styles
<1>3. x \in Int /\ y \in Int
  BY <1>2, CastSizes
<1> HIDE DEF c, x, y
<1>4. Fails(c) = BitsFail(mask, x, y)
  BY <1>1 DEF Fails, Arrays
<1>5. Holds(c) = (\A i \in 0..(8 * WideBytes - 1) : Bit(mask, i) * (Bit(x, i) - Bit(y, i)) = 0)
  BY <1>1 DEF Holds, Arrays
<1>6. ASSUME NEW i \in 0..(8 * WideBytes - 1)
      PROVE  (Bit(mask, i) = 1 /\ Bit(x, i) # Bit(y, i))
                 <=> Bit(mask, i) * (Bit(x, i) - Bit(y, i)) # 0
  BY <1>3, BitIsBit
<1>7. Decides(c)
  BY <1>4, <1>5, <1>6 DEF Decides, BitsFail
<1> QED
  BY <1>7 DEF c

--------------------------------------------------------------------------------

\* At least n elements of S, or no array.
ArraysOf(S, n) == {Null} \union {x \in Seq(S) : Len(x) >= n}
ElementCount(n, each) == IF each THEN 1 ELSE n

Numbers == {<<v>> : v \in Int}
Blocks(length) == {b \in Seq(Byte) : Len(b) >= length}
Strings(length) ==
    {Null} \union {s \in Seq(Byte) : Len(s) >= length \/ \E i \in 1..Len(s) : s[i] = 0}

LEMMA ElementOfArray ==
    ASSUME NEW S, NEW n \in Nat, NEW x \in ArraysOf(S, n), x # Null, NEW k \in 1..n
    PROVE  x[k] \in S
<1>1. x \in Seq(S) /\ Len(x) >= n
  BY DEF ArraysOf
<1> QED
  BY <1>1

LEMMA ExpectedElement ==
    ASSUME NEW S, NEW c, NEW each \in BOOLEAN, c.each = each, c.n \in Nat,
           c.x \in ArraysOf(S, ElementCount(c.n, each)), c.x # Null, NEW k \in 1..c.n
    PROVE  Expected(c, k) \in S
<1>1. CASE each
  <2>1. c.x[1] \in S
    BY <1>1, ElementOfArray DEF ElementCount
  <2> QED
    BY <1>1, <2>1 DEF Expected
<1>2. CASE ~each
  <2>1. c.x[k] \in S
    BY <1>2, ElementOfArray DEF ElementCount
  <2> QED
    BY <1>2, <2>1 DEF Expected
<1> QED
  BY <1>1, <1>2

\* An assertion on arrays decides if it decides on each element.
LEMMA ArraysDecide ==
    ASSUME NEW c, c.op \in Arrays, c.n \in Nat, c.op = "memory" => c.arg \in Nat,
           c.x # Null /\ c.y # Null =>
               \A k \in 1..c.n : ElementFails(c, Expected(c, k), c.y[k])
                                     <=> ~ElementHolds(c, Expected(c, k), c.y[k])
    PROVE  Decides(c)
<1>1. Fails(c) = (NothingToCompare(c) \/ OneArrayNull(c) \/ Faults(c) # {})
  BY DEF Fails, Arrays
<1>2. Holds(c) = (/\ c.n > 0 /\ (c.op = "memory" => c.arg > 0)
                  /\ (c.x = Null) = (c.y = Null)
                  /\ c.x # Null => \A k \in 1..c.n : ElementHolds(c, Expected(c, k), c.y[k]))
  BY DEF Holds, Arrays
<1>3. NothingToCompare(c) <=> ~(c.n > 0 /\ (c.op = "memory" => c.arg > 0))
  BY DEF NothingToCompare
<1>4. OneArrayNull(c) <=> ~((c.x = Null) = (c.y = Null))
  BY DEF OneArrayNull
<1>5. CASE c.x = Null \/ c.y = Null
  <2>1. Faults(c) = {}
    BY <1>5 DEF Faults
  <2> QED
    BY <1>1, <1>2, <1>3, <1>4, <1>5, <2>1 DEF Decides
<1>6. CASE c.x # Null /\ c.y # Null
  <2>1. Faults(c) = {k \in 1..c.n : ElementFails(c, Expected(c, k), c.y[k])}
    BY <1>6 DEF Faults
  <2>2. Faults(c) # {} <=> ~(\A k \in 1..c.n : ElementHolds(c, Expected(c, k), c.y[k]))
    BY <1>6, <2>1
  <2> QED
    BY <1>1, <1>2, <1>3, <1>4, <1>6, <2>2 DEF Decides
<1> QED
  BY <1>5, <1>6

LEMMA CallParts ==
    ASSUME NEW op, NEW style, NEW x, NEW y, NEW n, NEW arg, NEW each
    PROVE  LET c == Call(op, style, x, y, n, arg, each)
           IN  /\ c.op = op /\ c.style = style /\ c.x = x /\ c.y = y
               /\ c.n = n /\ c.arg = arg /\ c.each = each
  BY DEF Call

LEMMA LoadSame ==
    ASSUME NEW style \in Styles, NEW u \in Int, NEW v \in Int
    PROVE  Load(style, u) = Load(style, v) <=> Same(u, v, style.bytes)
  BY StyleSizes, SameConverted DEF Load

LEMMA ArrayDecides ==
    ASSUME NEW style \in Styles, NEW n \in Nat, NEW each \in BOOLEAN,
           NEW x \in ArraysOf(Numbers, ElementCount(n, each)), NEW y \in ArraysOf(Numbers, n)
    PROVE  Decides(Call("array", style, x, y, n, 0, each))
<1> DEFINE c == Call("array", style, x, y, n, 0, each)
<1>1. /\ c.op = "array" /\ c.style = style /\ c.x = x /\ c.y = y
      /\ c.n = n /\ c.each = each
  BY CallParts
<1> HIDE DEF c
<1>2. ASSUME x # Null, y # Null, NEW k \in 1..n
      PROVE  ElementFails(c, Expected(c, k), c.y[k]) <=> ~ElementHolds(c, Expected(c, k), c.y[k])
  <2> DEFINE e == Expected(c, k)
             a == y[k]
  <2>1. e \in Numbers /\ a \in Numbers
    BY <1>1, <1>2, ExpectedElement, ElementOfArray
  <2>2. e[1] \in Int /\ a[1] \in Int
    BY <2>1 DEF Numbers
  <2> HIDE DEF e, a
  <2>3. ElementFails(c, e, a) = (Load(style, e[1]) # Load(style, a[1]))
    BY <1>1 DEF ElementFails
  <2>4. ElementHolds(c, e, a) = Same(e[1], a[1], style.bytes)
    BY <1>1 DEF ElementHolds
  <2>5. ElementFails(c, e, a) <=> ~ElementHolds(c, e, a)
    BY <2>2, <2>3, <2>4, LoadSame
  <2> QED
    BY <1>1, <2>5 DEF e, a
<1>3. Decides(c)
  BY <1>1, <1>2, ArraysDecide DEF Arrays
<1> QED
  BY <1>3 DEF c

LEMMA ArrayWithinDecides ==
    ASSUME NEW style \in Styles, NEW delta \in Int, NEW n \in Nat,
           NEW x \in ArraysOf(Numbers, n), NEW y \in ArraysOf(Numbers, n)
    PROVE  Decides(AssertArrayWithin(style, delta, x, y, n))
<1> DEFINE c == AssertArrayWithin(style, delta, x, y, n)
           d == ToUnsigned(delta, style.cast)
<1>1. /\ c.op = "array_within" /\ c.style = style /\ c.x = x /\ c.y = y
      /\ c.n = n /\ c.arg = d /\ c.each = FALSE
  BY DEF AssertArrayWithin, Call
<1>2. d \in Int
  BY StyleSizes, Conversions
<1> HIDE DEF c, d
<1>3. ASSUME x # Null, y # Null, NEW k \in 1..n
      PROVE  ElementFails(c, Expected(c, k), c.y[k]) <=> ~ElementHolds(c, Expected(c, k), c.y[k])
  <2> DEFINE e == Expected(c, k)
             a == y[k]
             asRead(v) == IF Signed(style) THEN ToSigned(v, style.bytes)
                                           ELSE ToUnsigned(v, style.bytes)
             p == asRead(e[1])
             q == asRead(a[1])
  <2>1. e \in Numbers /\ a \in Numbers
    BY <1>1, <1>3, ExpectedElement, ElementOfArray DEF ElementCount
  <2>2. e[1] \in Int /\ a[1] \in Int
    BY <2>1 DEF Numbers
  <2>3. /\ p \in Int /\ q \in Int
        /\ p - q < Space(WideBytes) /\ q - p < Space(WideBytes)
    BY <2>2, StyleSizes, Conversions, Differences
  <2> HIDE DEF e, a
  <2>4. ElementFails(c, e, a) = WithinFails(p, q, d)
    BY <1>1 DEF ElementFails, ArrayWithinFails, Load
  <2>5. ElementHolds(c, e, a) = (Distance(p, q) <= d)
    BY <1>1 DEF ElementHolds
  <2> HIDE DEF p, q
  <2>6. WithinFails(p, q, d) = (Distance(p, q) > d)
    BY <1>2, <2>3, WithinFailsIff
  <2>7. (Distance(p, q) > d) <=> ~(Distance(p, q) <= d)
    BY <1>2, <2>3 DEF Distance
  <2>8. ElementFails(c, e, a) <=> ~ElementHolds(c, e, a)
    BY <2>4, <2>5, <2>6, <2>7, Zenon
  <2> QED
    BY <1>1, <2>8 DEF e, a
<1>4. Decides(c)
  BY <1>1, <1>3, ArraysDecide DEF Arrays
<1> QED
  BY <1>4 DEF c

LEMMA MemoryDecides ==
    ASSUME NEW n \in Nat, NEW length \in Nat, NEW each \in BOOLEAN,
           NEW x \in ArraysOf(Blocks(length), ElementCount(n, each)),
           NEW y \in ArraysOf(Blocks(length), n)
    PROVE  Decides(AssertMemory(x, y, n, length, each))
<1> DEFINE c == AssertMemory(x, y, n, length, each)
<1>1. /\ c.op = "memory" /\ c.x = x /\ c.y = y /\ c.n = n /\ c.arg = length /\ c.each = each
  BY CallParts DEF AssertMemory
<1> HIDE DEF c
<1>2. ASSUME x # Null, y # Null, NEW k \in 1..n
      PROVE  ElementFails(c, Expected(c, k), c.y[k]) <=> ~ElementHolds(c, Expected(c, k), c.y[k])
  <2> DEFINE e == Expected(c, k)
             a == y[k]
  <2>1. e \in Blocks(length) /\ a \in Blocks(length)
    BY <1>1, <1>2, ExpectedElement, ElementOfArray
  <2> HIDE DEF e, a
  <2>2. ElementFails(c, e, a) = MemoryFails(e, a, length)
    BY <1>1 DEF ElementFails
  <2>3. ElementHolds(c, e, a) = (SubSeq(e, 1, length) = SubSeq(a, 1, length))
    BY <1>1 DEF ElementHolds
  <2>4. /\ SubSeq(e, 1, length) = [i \in 1..length |-> e[i]]
        /\ SubSeq(a, 1, length) = [i \in 1..length |-> a[i]]
    BY <2>1 DEF Blocks
  <2>5. SubSeq(e, 1, length) = SubSeq(a, 1, length) <=> \A i \in 1..length : e[i] = a[i]
    BY <2>4
  <2>6. MemoryFails(e, a, length) <=> ~(\A i \in 1..length : e[i] = a[i])
    BY DEF MemoryFails
  <2>7. ElementFails(c, e, a) <=> ~ElementHolds(c, e, a)
    BY <2>2, <2>3, <2>5, <2>6, Zenon
  <2> QED
    BY <1>1, <2>7 DEF e, a
<1>3. Decides(c)
  BY <1>1, <1>2, ArraysDecide DEF Arrays
<1> QED
  BY <1>3 DEF c

--------------------------------------------------------------------------------

\* Where a text ends: before its 0, or after length characters.
LEMMA TextStops ==
    ASSUME NEW length \in Nat, NEW s \in Strings(length), s # Null
    PROVE  \E m \in 1..(length + 1) :
               /\ m = Stop(s, length)
               /\ m - 1 <= Len(s) /\ Text(s, length) = [i \in 1..(m - 1) |-> s[i]]
               /\ \A j \in 1..(m - 1) : s[j] # 0
               /\ m <= length => s[m] = 0
<1> DEFINE zeros == {i \in 1..Len(s) : s[i] = 0}
           T == zeros \union {length + 1}
           m == Least(T)
<1>1. s \in Seq(Byte) /\ (Len(s) >= length \/ zeros # {})
  BY DEF Strings
<1>2. T \in SUBSET Nat /\ T # {} /\ length + 1 \in T
  BY <1>1
<1>3. m \in T /\ \A y \in T : m <= y
  BY <1>2, LeastIsLeast
<1>4. m = Stop(s, length) /\ Text(s, length) = SubSeq(s, 1, m - 1)
  BY DEF Text, Stop
<1> HIDE DEF m
<1>5. m \in 1..(length + 1)
  BY <1>1, <1>2, <1>3
<1>6. m - 1 <= Len(s)
  <2>1. CASE zeros = {}
    BY <1>1, <1>5, <2>1
  <2>2. CASE zeros # {}
    <3>1. PICK i \in 1..Len(s) : i \in T
      BY <2>2
    <3> QED
      BY <1>1, <1>3, <1>5, <3>1
  <2> QED
    BY <2>1, <2>2
<1>7. ASSUME NEW j \in 1..(m - 1) PROVE s[j] # 0
  <2>1. j \in 1..Len(s) /\ ~(m <= j)
    BY <1>1, <1>5, <1>6
  <2>2. j \notin T
    BY <1>3, <2>1
  <2> QED
    BY <2>1, <2>2
<1>8. m <= length => s[m] = 0
  BY <1>3, <1>5
<1>9. SubSeq(s, 1, m - 1) = [i \in 1..(m - 1) |-> s[i]]
  BY <1>1, <1>5, <1>6
<1> QED
  BY <1>4, <1>5, <1>6, <1>7, <1>8, <1>9

\* The comparison of two strings, character by character, compares their texts.
LEMMA StringFailsIff ==
    ASSUME NEW length \in Nat, NEW e \in Strings(length), NEW a \in Strings(length),
           e # Null, a # Null
    PROVE  StringFails(e, a, length) <=> Text(e, length) # Text(a, length)
<1>1. PICK m \in 1..(length + 1) :
               /\ Text(e, length) = [i \in 1..(m - 1) |-> e[i]]
               /\ \A j \in 1..(m - 1) : e[j] # 0
               /\ m <= length => e[m] = 0
  BY TextStops
<1>2. PICK n \in 1..(length + 1) :
               /\ Text(a, length) = [i \in 1..(n - 1) |-> a[i]]
               /\ \A j \in 1..(n - 1) : a[j] # 0
               /\ n <= length => a[n] = 0
  BY TextStops
<1> DEFINE differs == {i \in 1..length : e[i] # a[i]}
<1>3. StringFails(e, a, length) <=>
          \E i \in differs : \A j \in 1..(i - 1) : e[j] = a[j] /\ e[j] # 0
  BY DEF StringFails
<1>4. ASSUME NEW i \in differs, \A j \in 1..(i - 1) : e[j] = a[j] /\ e[j] # 0
      PROVE  Text(e, length) # Text(a, length)
  <2>1. m >= i /\ n >= i
    BY <1>1, <1>2, <1>4
  <2>2. CASE m = n
    <3>1. i \in 1..(m - 1)
      BY <1>1, <1>2, <2>1, <2>2
    <3>2. Text(e, length)[i] = e[i] /\ Text(a, length)[i] = a[i]
      BY <1>1, <1>2, <2>2, <3>1
    <3> QED
      BY <3>2
  <2>3. CASE m # n
    <3>1. 1..(m - 1) # 1..(n - 1)
      BY <2>3
    <3>2. DOMAIN Text(e, length) = 1..(m - 1) /\ DOMAIN Text(a, length) = 1..(n - 1)
      BY <1>1, <1>2
    <3> QED
      BY <3>1, <3>2
  <2> QED
    BY <2>2, <2>3
<1>5. ASSUME \A i \in differs : ~(\A j \in 1..(i - 1) : e[j] = a[j] /\ e[j] # 0)
      PROVE  Text(e, length) = Text(a, length)
  <2>1. ASSUME NEW k \in 1..length, \A i \in 1..(k - 1) : i \notin differs, m >= k, n >= k
        PROVE  k \notin differs
    BY <1>1, <1>2, <1>5, <2>1
  <2>2. \A i \in 1..(m - 1) : i < n => e[i] = a[i]
    <3> DEFINE bad == {i \in differs : i <= m /\ i <= n}
    <3>1. CASE bad = {}
      BY <3>1
    <3>2. CASE bad # {}
      <4>1. PICK k \in bad : \A i \in bad : k <= i
        <5>1. bad \in SUBSET Nat
          OBVIOUS
        <5> HIDE DEF bad
        <5> QED
          BY <3>2, <5>1, LeastExists
      <4>2. \A i \in 1..(k - 1) : i \notin differs
        BY <4>1
      <4> QED
        BY <2>1, <4>1, <4>2
    <3> QED
      BY <3>1, <3>2
  <2>3. m = n
    <3>1. CASE m < n
      <4>1. m \in 1..length /\ e[m] = 0 /\ a[m] # 0 /\ \A i \in 1..(m - 1) : i \notin differs
        BY <1>1, <1>2, <2>2, <3>1
      <4> QED
        BY <2>1, <3>1, <4>1
    <3>2. CASE n < m
      <4>1. n \in 1..length /\ a[n] = 0 /\ e[n] # 0 /\ \A i \in 1..(n - 1) : i \notin differs
        BY <1>1, <1>2, <2>2, <3>2
      <4> QED
        BY <2>1, <3>2, <4>1
    <3> QED
      BY <3>1, <3>2
  <2> QED
    BY <1>1, <1>2, <2>2, <2>3
<1> QED
  BY <1>3, <1>4, <1>5

LEMMA StringsDecide ==
    ASSUME NEW n \in Nat, NEW length \in Nat,
           NEW x \in ArraysOf(Strings(length), n), NEW y \in ArraysOf(Strings(length), n)
    PROVE  Decides(AssertStrings(x, y, n, length))
<1> DEFINE c == AssertStrings(x, y, n, length)
<1>1. /\ c.op = "string" /\ c.x = x /\ c.y = y /\ c.n = n /\ c.arg = length /\ c.each = FALSE
  BY DEF AssertStrings, Call
<1> HIDE DEF c
<1>2. ASSUME x # Null, y # Null, NEW k \in 1..n
      PROVE  ElementFails(c, Expected(c, k), c.y[k]) <=> ~ElementHolds(c, Expected(c, k), c.y[k])
  <2> DEFINE e == Expected(c, k)
             a == y[k]
  <2>1. e \in Strings(length) /\ a \in Strings(length)
    BY <1>1, <1>2, ExpectedElement, ElementOfArray DEF ElementCount
  <2> HIDE DEF e, a
  <2>2. ElementFails(c, e, a) = StringFails(e, a, length)
    BY <1>1 DEF ElementFails
  <2>3. ElementHolds(c, e, a) = IF Null \in {e, a} THEN e = a ELSE Text(e, length) = Text(a, length)
    BY <1>1 DEF ElementHolds
  <2>4. ElementFails(c, e, a) <=> ~ElementHolds(c, e, a)
    <3>1. CASE e = Null \/ a = Null
      BY <2>2, <2>3, <3>1 DEF StringFails
    <3>2. CASE e # Null /\ a # Null
      BY <2>1, <2>2, <2>3, <3>2, StringFailsIff, ZenonT(40)
    <3> QED
      BY <3>1, <3>2
  <2> QED
    BY <1>1, <2>4 DEF e, a
<1>3. Decides(c)
  BY <1>1, <1>2, ArraysDecide DEF Arrays
<1> QED
  BY <1>3 DEF c

--------------------------------------------------------------------------------

\* What the macros make of any arguments of their types.
Equals == {AssertEqual(s, e, a) : s \in Styles, e \in Int, a \in Int}
Orders == {AssertOrder(s, cmp, t, a) : s \in Styles, cmp \in Comparisons, t \in Int, a \in Int}
Withins == {AssertWithin(s, d, e, a) : s \in Styles, d \in Int, e \in Int, a \in Int}
BitTests == {AssertBits(m, e, a) : m \in Int, e \in Int, a \in Int}
ArrayTests ==
    UNION {{AssertArray(s, x, y, n) :
              s \in Styles, x \in ArraysOf(Numbers, n), y \in ArraysOf(Numbers, n)} : n \in Nat}
EachTests ==
    UNION {{AssertEach(s, e, y, n) :
              s \in Styles, e \in Int, y \in ArraysOf(Numbers, n)} : n \in Nat}
ArrayWithins ==
    UNION {{AssertArrayWithin(s, d, x, y, n) : s \in Styles, d \in Int,
              x \in ArraysOf(Numbers, n), y \in ArraysOf(Numbers, n)} : n \in Nat}
StringTests ==
    UNION {{AssertStrings(x, y, n, l) :
              x \in ArraysOf(Strings(l), n), y \in ArraysOf(Strings(l), n)} : n \in Nat, l \in Nat}
MemoryTests ==
    UNION {{AssertMemory(x, y, n, l, each) :
              x \in ArraysOf(Blocks(l), ElementCount(n, each)), y \in ArraysOf(Blocks(l), n)} :
            n \in Nat, l \in Nat, each \in BOOLEAN}
Assertions ==
    {TestFail, TestIgnore} \union Equals \union Orders \union Withins \union BitTests
      \union ArrayTests \union EachTests \union ArrayWithins \union StringTests \union MemoryTests

\* Every assertion fails when what it claims does not hold, and only then.
THEOREM AssertionsDecide ==
    ASSUME NEW c \in Assertions
    PROVE  Fails(c) \in BOOLEAN /\ (Fails(c) <=> ~Holds(c))
<1>1. Decides(TestFail)
  BY DEF Decides, TestFail, Call, Fails, Holds, Arrays
<1>2. Decides(TestIgnore)
  BY DEF Decides, TestIgnore, Call, Fails, Holds, Arrays
<1>3. ASSUME NEW s \in Styles, NEW n \in Nat,
             NEW x \in ArraysOf(Numbers, n), NEW y \in ArraysOf(Numbers, n)
      PROVE  Decides(AssertArray(s, x, y, n))
  <2>1. x \in ArraysOf(Numbers, ElementCount(n, FALSE))
    BY DEF ElementCount
  <2> QED
    BY <2>1, ArrayDecides DEF AssertArray
<1>4. ASSUME NEW s \in Styles, NEW n \in Nat, NEW e \in Int, NEW y \in ArraysOf(Numbers, n)
      PROVE  Decides(AssertEach(s, e, y, n))
  <2>1. <<<<Cast(s, e)>>>> \in ArraysOf(Numbers, ElementCount(n, TRUE))
    BY CastSizes DEF ArraysOf, Numbers, ElementCount
  <2> QED
    BY <2>1, ArrayDecides DEF AssertEach
<1>5. Decides(c)
  <2>1. CASE c \in {TestFail, TestIgnore}
    BY <1>1, <1>2, <2>1
  <2>2. CASE c \in Equals
    BY <2>2, EqualDecides DEF Equals
  <2>3. CASE c \in Orders
    BY <2>3, OrderDecides DEF Orders
  <2>4. CASE c \in Withins
    BY <2>4, WithinDecides DEF Withins
  <2>5. CASE c \in BitTests
    BY <2>5, BitsDecide DEF BitTests
  <2>6. CASE c \in ArrayTests
    BY <1>3, <2>6 DEF ArrayTests
  <2>7. CASE c \in EachTests
    BY <1>4, <2>7 DEF EachTests
  <2>8. CASE c \in ArrayWithins
    BY <2>8, ArrayWithinDecides DEF ArrayWithins
  <2>9. CASE c \in StringTests
    BY <2>9, StringsDecide DEF StringTests
  <2>10. CASE c \in MemoryTests
    BY <2>10, MemoryDecides DEF MemoryTests
  <2> QED
    BY <2>1, <2>2, <2>3, <2>4, <2>5, <2>6, <2>7, <2>8, <2>9, <2>10 DEF Assertions
<1> QED
  BY <1>5 DEF Decides

--------------------------------------------------------------------------------
(* The verdict. *)

EndsTest(c) == ~Holds(c) \/ c.op = "ignore"

LEMMA VerdictOfNothing == VerdictOf(<<>>) = "pass"
  BY DEF VerdictOf

\* The verdict of a run of calls, call by call.
LEMMA VerdictStep ==
    ASSUME NEW S, NEW calls \in Seq(S), calls # <<>>
    PROVE  VerdictOf(calls) = IF ~Holds(Head(calls)) THEN "fail"
                              ELSE IF Head(calls).op = "ignore" THEN "ignore"
                              ELSE VerdictOf(Tail(calls))
<1> DEFINE EndsOf(s) == {i \in DOMAIN s : ~Holds(s[i]) \/ s[i].op = "ignore"}
           h == Head(calls)
           t == Tail(calls)
<1>1. /\ Len(calls) \in Nat /\ Len(calls) > 0 /\ DOMAIN calls = 1..Len(calls) /\ calls[1] = h
      /\ t \in Seq(S) /\ Len(t) = Len(calls) - 1 /\ DOMAIN t = 1..(Len(calls) - 1)
      /\ \A i \in 1..(Len(calls) - 1) : t[i] = calls[i + 1]
  OBVIOUS
<1>2. \A s : VerdictOf(s) = IF EndsOf(s) = {} THEN "pass"
                            ELSE IF Holds(s[Least(EndsOf(s))]) THEN "ignore" ELSE "fail"
  BY DEF VerdictOf
<1>3. EndsOf(calls) \in SUBSET Nat /\ EndsOf(t) \in SUBSET Nat
  BY <1>1
<1>4. CASE EndsTest(h)
  <2>1. 1 \in EndsOf(calls) /\ \A y \in EndsOf(calls) : 1 <= y
    BY <1>1, <1>4 DEF EndsTest
  <2>2. Least(EndsOf(calls)) = 1
    <3> DEFINE E == EndsOf(calls)
    <3>1. E \in SUBSET Nat /\ 1 \in E /\ \A y \in E : 1 <= y
      BY <1>3, <2>1
    <3> HIDE DEF E
    <3>2. Least(E) = 1
      BY <3>1, LeastIs
    <3> QED
      BY <3>2 DEF E
  <2> QED
    BY <1>1, <1>2, <1>4, <2>1, <2>2 DEF EndsTest
<1>5. CASE ~EndsTest(h)
  <2> DEFINE E == EndsOf(calls)
             F == EndsOf(t)
  <2>1. \A i \in Nat : i \in F <=> i + 1 \in E
    <3>1. ASSUME NEW i \in Nat PROVE i \in F <=> i + 1 \in E
      <4>1. CASE i \in 1..(Len(calls) - 1)
        <5>1. t[i] = calls[i + 1] /\ i \in DOMAIN t /\ i + 1 \in DOMAIN calls
          BY <1>1, <4>1
        <5> QED
          BY <5>1
      <4>2. CASE i = 0
        BY <1>1, <1>5, <4>2 DEF EndsTest
      <4>3. CASE i > Len(calls) - 1
        BY <1>1, <4>3
      <4> QED
        BY <1>1, <4>1, <4>2, <4>3
    <3> QED
      BY <3>1
  <2>2. \A i \in E : i - 1 \in Nat
    BY <1>1
  <2>3. \A i \in F : t[i] = calls[i + 1]
    BY <1>1
  <2> HIDE DEF E, F
  <2>4. E \in SUBSET Nat /\ F \in SUBSET Nat
    BY <1>3 DEF E, F
  <2>5. E = {} <=> F = {}
    <3>1. ASSUME NEW i \in F PROVE i + 1 \in E
      BY <2>1, <2>4, <3>1
    <3>2. ASSUME NEW i \in E PROVE i - 1 \in F
      <4>1. i \in Nat /\ i - 1 \in Nat /\ (i - 1) + 1 = i
        BY <2>2, <2>4, <3>2
      <4> QED
        BY <2>1, <3>2, <4>1
    <3> QED
      BY <3>1, <3>2, Zenon
  <2>6. CASE F # {}
    <3>1. Least(E) \in E /\ \A y \in E : Least(E) <= y
      BY <2>4, <2>5, <2>6, LeastIsLeast
    <3>2. Least(F) \in F /\ \A y \in F : Least(F) <= y
      BY <2>4, <2>6, LeastIsLeast
    <3> DEFINE m == Least(E)
               n == Least(F)
    <3> HIDE DEF m, n
    <3>3. m \in E /\ (\A y \in E : m <= y) /\ n \in F /\ (\A y \in F : n <= y)
      BY <3>1, <3>2 DEF m, n
    <3>4. m = n + 1
      <4>1. n + 1 \in E /\ m - 1 \in F
        BY <2>1, <2>2, <2>4, <3>3
      <4> QED
        BY <2>4, <3>3, <4>1
    <3>5. calls[Least(E)] = t[Least(F)]
      BY <2>3, <3>3, <3>4 DEF m, n
    <3> QED
      BY <1>2, <1>5, <2>5, <2>6, <3>5 DEF EndsTest, E, F
  <2>7. CASE F = {}
    BY <1>2, <1>5, <2>5, <2>7 DEF EndsTest, E, F
  <2> QED
    BY <2>6, <2>7
<1> QED
  BY <1>4, <1>5

--------------------------------------------------------------------------------
(* The counts. *)

Verdicts == {"pass", "fail", "ignore"}

\* How many elements of a sequence are v.
Count(s, v) == Cardinality({i \in DOMAIN s : s[i] = v})

LEMMA CountOfNothing ==
    ASSUME NEW v
    PROVE  Count(<<>>, v) = 0
<1>1. {i \in DOMAIN <<>> : <<>>[i] = v} = {}
  OBVIOUS
<1> QED
  BY <1>1, FS_EmptySet DEF Count

LEMMA CountIsFinite ==
    ASSUME NEW S, NEW s \in Seq(S), NEW v
    PROVE  /\ IsFiniteSet({i \in DOMAIN s : s[i] = v}) /\ Count(s, v) \in Nat
           /\ Count(s, v) <= Len(s)
           /\ Count(s, v) = 0 <=> \A i \in DOMAIN s : s[i] # v
<1> DEFINE T == {i \in DOMAIN s : s[i] = v}
           n == Len(s)
<1>1. n \in Nat /\ DOMAIN s = 1..n /\ T \in SUBSET (1..n)
  OBVIOUS
<1>2. Count(s, v) = Cardinality(T) /\ (T = {} <=> \A i \in DOMAIN s : s[i] # v)
  BY DEF Count
<1> HIDE DEF T, n
<1>3. IsFiniteSet(1..n) /\ Cardinality(1..n) = n
  <2>1. 1 \in Int /\ n \in Int
    BY <1>1
  <2>2. IsFiniteSet(1..n) /\ Cardinality(1..n) = IF 1 > n THEN 0 ELSE n - 1 + 1
    BY <2>1, FS_Interval
  <2> QED
    BY <1>1, <2>2
<1>4. IsFiniteSet(T) /\ Cardinality(T) <= n
  <2>1. IsFiniteSet(T) /\ Cardinality(T) <= Cardinality(1..n)
    BY <1>1, <1>3, FS_Subset, Zenon
  <2> QED
    BY <1>3, <2>1
<1>5. Cardinality(T) \in Nat /\ (Cardinality(T) = 0 <=> T = {})
  BY <1>4, FS_CardinalityType, FS_EmptySet
<1>6. /\ IsFiniteSet(T) /\ Count(s, v) \in Nat /\ Count(s, v) <= n
      /\ Count(s, v) = 0 <=> \A i \in DOMAIN s : s[i] # v
  BY <1>2, <1>4, <1>5
<1> QED
  BY <1>6 DEF T, n

LEMMA CountOfAppend ==
    ASSUME NEW S, NEW s \in Seq(S), NEW x, NEW v
    PROVE  Count(Append(s, x), v) = Count(s, v) + (IF x = v THEN 1 ELSE 0)
<1> DEFINE r == Append(s, x)
           T == {i \in DOMAIN s : s[i] = v}
           U == {i \in DOMAIN r : r[i] = v}
           n == Len(s) + 1
<1>1. /\ Len(s) \in Nat /\ DOMAIN s = 1..Len(s) /\ DOMAIN r = 1..n
      /\ r[n] = x /\ \A i \in 1..Len(s) : r[i] = s[i]
  OBVIOUS
<1>2. n \notin T
  BY <1>1
<1>3. U = IF x = v THEN T \union {n} ELSE T
  <2>1. 1..n = (1..Len(s)) \union {n} /\ n \notin 1..Len(s)
    BY <1>1
  <2> HIDE DEF r, n
  <2> QED
    BY <1>1, <2>1
<1>4. IsFiniteSet(T) /\ Count(s, v) \in Nat
  BY CountIsFinite
<1>5. Count(s, v) = Cardinality(T) /\ Count(r, v) = Cardinality(U)
  BY DEF Count
<1> HIDE DEF r, T, U, n
<1>6. Cardinality(T \union {n}) = Cardinality(T) + 1
  BY <1>2, <1>4, FS_AddElement
<1>7. Count(r, v) = Count(s, v) + (IF x = v THEN 1 ELSE 0)
  BY <1>3, <1>4, <1>5, <1>6
<1> QED
  BY <1>7 DEF r

--------------------------------------------------------------------------------
(* The runner. *)

TornDownInv ==
    /\ "tests" \in DOMAIN Unity /\ Unity.tests \in Nat /\ tornDown \in Nat
    /\ phase = "begin" => Unity.tests = 0 /\ tornDown = 0
    /\ phase = "body" => Unity.tests = tornDown + 1
    /\ phase \in {"main", "teardown", "ended"} => Unity.tests = tornDown

LEMMA TornDownInit == UnityInit => TornDownInv
<1>1. QED
  BY DEF UnityInit, TornDownInv

LEMMA TornDownStep ==
    ASSUME TornDownInv, [UnityNext]_unityVars
    PROVE  TornDownInv'
<1>1. CASE UnityBegin
  BY <1>1 DEF UnityBegin, TornDownInv
<1>2. CASE UnityDefaultTestRun
  BY <1>2 DEF UnityDefaultTestRun, TornDownInv
<1>3. CASE Assert
  <2>1. UNCHANGED <<phase, tornDown>> /\ Unity'.tests = Unity.tests /\ "tests" \in DOMAIN Unity'
    BY <1>3 DEF Assert, TornDownInv
  <2>2. QED
    BY <2>1 DEF TornDownInv
<1>4. CASE TearDown
  BY <1>4 DEF TearDown, TornDownInv
<1>5. CASE UnityConcludeTest
  BY <1>5 DEF UnityConcludeTest, TornDownInv
<1>6. CASE UnityEnd
  BY <1>6 DEF UnityEnd, TornDownInv
<1>7. CASE UNCHANGED unityVars
  BY <1>7 DEF unityVars, TornDownInv
<1>8. QED
  BY <1>1, <1>2, <1>3, <1>4, <1>5, <1>6, <1>7 DEF UnityNext

\* Every test is torn down once before it counts (UnityDefaultTestRun), for any tests,
\* any assertions and any number of RUN_TESTs: no outcome of an assertion jumps past it.
THEOREM EveryTestIsTornDown == UnitySpec => []EveryTestTornDown
<1>1. TornDownInv => EveryTestTornDown
  BY DEF TornDownInv, EveryTestTornDown
<1>2. QED
  BY <1>1, TornDownInit, TornDownStep, PTL DEF UnitySpec

\* What the calls made and the calls still to be made come to.
Outlook == IF Unity.failed THEN "fail" ELSE IF Unity.ignored THEN "ignore" ELSE VerdictOf(todo)

UnityType ==
    /\ phase \in {"begin", "main", "body", "teardown", "ended"}
    /\ Unity \in [tests : Nat, failures : Nat, ignores : Nat, failed : BOOLEAN, ignored : BOOLEAN]
    /\ ~(Unity.failed /\ Unity.ignored)
    /\ ran \in Seq(Verdicts)

\* The counters are those of the tests that have ended; that of the running test follows
\* from its outlook, which no call changes.
VerdictInv ==
    /\ UnityType
    /\ Len(ran) = Unity.tests /\ Unity.tests <= MaxTests
    /\ phase = "begin" => ran = <<>>
    /\ phase \in {"begin", "main", "ended"} =>
           /\ ~Unity.failed /\ ~Unity.ignored
           /\ Unity.failures = Count(ran, "fail") /\ Unity.ignores = Count(ran, "ignore")
    /\ phase \in {"body", "teardown"} =>
           /\ test \in Tests /\ todo \in Seq(Assertions)
           /\ Count(ran, "fail") = Unity.failures + (IF Verdict(test) = "fail" THEN 1 ELSE 0)
           /\ Count(ran, "ignore") = Unity.ignores + (IF Verdict(test) = "ignore" THEN 1 ELSE 0)
    /\ phase = "body" => Outlook = VerdictOf(test.body)
    /\ phase = "teardown" => Outlook = Verdict(test)
    /\ phase = "ended" => exit = Unity.failures % 256

WrittenTests == Tests \subseteq [body : Seq(Assertions), teardown : Seq(Assertions)]

LEMMA VerdictType ==
    ASSUME NEW calls
    PROVE  VerdictOf(calls) \in Verdicts
  BY DEF VerdictOf, Verdicts

LEMMA NextCall ==
    ASSUME VerdictInv, Assert
    PROVE  /\ todo \in Seq(Assertions) /\ todo' \in Seq(Assertions)
           /\ Outlook' = Outlook
           /\ Unity' \in [tests : Nat, failures : Nat, ignores : Nat, failed : BOOLEAN,
                          ignored : BOOLEAN]
           /\ ~(Unity'.failed /\ Unity'.ignored)
           /\ UNCHANGED <<Unity.tests, Unity.failures, Unity.ignores>>
<1>1. todo \in Seq(Assertions) /\ todo # <<>>
  BY DEF Assert, VerdictInv
<1>2. /\ Unity \in [tests : Nat, failures : Nat, ignores : Nat, failed : BOOLEAN,
                     ignored : BOOLEAN]
      /\ ~(Unity.failed /\ Unity.ignored)
  BY DEF VerdictInv, UnityType
<1>3. CASE Unity.failed \/ Unity.ignored
  <2>1. todo' = <<>> /\ Unity' = Unity
    BY <1>3 DEF Assert
  <2> QED
    BY <1>1, <1>2, <1>3, <2>1 DEF Outlook
<1>4. CASE ~Unity.failed /\ ~Unity.ignored
  <2> DEFINE c == Head(todo)
  <2>1. c \in Assertions /\ Tail(todo) \in Seq(Assertions)
    BY <1>1
  <2>2. Fails(c) \in BOOLEAN /\ (Fails(c) <=> ~Holds(c))
    BY <2>1, AssertionsDecide
  <2>3. VerdictOf(todo) = IF ~Holds(c) THEN "fail" ELSE IF c.op = "ignore" THEN "ignore"
                          ELSE VerdictOf(Tail(todo))
    BY <1>1, VerdictStep
  <2>4. /\ Unity' = [Unity EXCEPT !.failed = Fails(c), !.ignored = (c.op = "ignore")]
        /\ todo' = IF Unity'.failed \/ Unity'.ignored THEN <<>> ELSE Tail(todo)
    BY <1>4 DEF Assert
  <2> HIDE DEF c
  <2>5. /\ Unity' \in [tests : Nat, failures : Nat, ignores : Nat, failed : BOOLEAN,
                       ignored : BOOLEAN]
        /\ UNCHANGED <<Unity.tests, Unity.failures, Unity.ignores>>
        /\ Unity'.failed = Fails(c) /\ Unity'.ignored = (c.op = "ignore")
    BY <1>2, <2>2, <2>4
  <2>6. todo' \in Seq(Assertions)
    BY <2>1, <2>4
  <2>7. Outlook' = Outlook
    BY <1>4, <2>2, <2>3, <2>4, <2>5 DEF Outlook
  <2>8. c.op = "ignore" => Fails(c) = FALSE
    BY DEF Fails, Arrays
  <2> QED
    BY <1>1, <2>5, <2>6, <2>7, <2>8
<1> QED
  BY <1>2, <1>3, <1>4

LEMMA VerdictNext ==
    ASSUME VerdictInv, WrittenTests, [UnityNext]_unityVars
    PROVE  VerdictInv'
<1>1. CASE UnityBegin
  <2>1. ran = <<>> /\ Len(ran) = 0 /\ Count(ran, "fail") = 0 /\ Count(ran, "ignore") = 0
    BY <1>1, CountOfNothing DEF UnityBegin, VerdictInv
  <2> QED
    BY <1>1, <2>1, UnityConstants DEF UnityBegin, VerdictInv, UnityType, Count
<1>2. CASE UnityDefaultTestRun
  <2>1. PICK t \in Tests :
             /\ phase' = "body" /\ test' = t /\ todo' = t.body
             /\ Unity' = [Unity EXCEPT !.tests = @ + 1] /\ ran' = Append(ran, Verdict(t))
    BY <1>2 DEF UnityDefaultTestRun
  <2>2. phase = "main" /\ Unity.tests < MaxTests
    BY <1>2 DEF UnityDefaultTestRun
  <2>3. t.body \in Seq(Assertions) /\ Verdict(t) \in Verdicts
    BY VerdictType DEF WrittenTests, Verdict
  <2>4. /\ ran' \in Seq(Verdicts) /\ Len(ran') = Len(ran) + 1
        /\ Count(ran', "fail") = Count(ran, "fail") + (IF Verdict(t) = "fail" THEN 1 ELSE 0)
        /\ Count(ran', "ignore") = Count(ran, "ignore") + (IF Verdict(t) = "ignore" THEN 1 ELSE 0)
    BY <2>1, <2>3, CountOfAppend DEF VerdictInv, UnityType
  <2>5. /\ Unity' \in [tests : Nat, failures : Nat, ignores : Nat, failed : BOOLEAN,
                       ignored : BOOLEAN]
        /\ Unity'.tests = Unity.tests + 1
        /\ UNCHANGED <<Unity.failures, Unity.ignores, Unity.failed, Unity.ignored>>
    BY <2>1 DEF VerdictInv, UnityType
  <2>6. ~Unity.failed /\ ~Unity.ignored /\ Len(ran) = Unity.tests
        /\ Unity.failures = Count(ran, "fail") /\ Unity.ignores = Count(ran, "ignore")
    BY <2>2 DEF VerdictInv
  <2>7. Outlook' = VerdictOf(t.body)
    BY <2>1, <2>5, <2>6 DEF Outlook
  <2> QED
    BY <2>1, <2>2, <2>3, <2>4, <2>5, <2>6, <2>7, UnityConstants DEF VerdictInv, UnityType, Verdict
<1>3. CASE Assert
  <2>1. UNCHANGED <<phase, test, exit, ran>> /\ phase \in {"body", "teardown"}
    BY <1>3 DEF Assert
  <2>2. UNCHANGED <<Count(ran, "fail"), Count(ran, "ignore"), Verdict(test), VerdictOf(test.body)>>
    BY <2>1 DEF Count, Verdict
  <2> QED
    BY <1>3, <2>1, <2>2, NextCall DEF VerdictInv, UnityType
<1>4. CASE TearDown
  <2>1. /\ phase = "body" /\ todo = <<>> /\ phase' = "teardown" /\ todo' = test.teardown
        /\ UNCHANGED <<Unity, test, exit, ran>>
    BY <1>4 DEF TearDown
  <2>2. test \in Tests /\ test.teardown \in Seq(Assertions)
    BY <2>1 DEF VerdictInv, WrittenTests
  <2>3. VerdictOf(test.body) = IF Unity.failed THEN "fail"
                               ELSE IF Unity.ignored THEN "ignore" ELSE "pass"
    BY <2>1, VerdictOfNothing DEF VerdictInv, Outlook
  <2>4. Outlook' = Verdict(test)
    BY <2>1, <2>3 DEF Outlook, Verdict
  <2>5. UNCHANGED <<Count(ran, "fail"), Count(ran, "ignore"), Verdict(test)>>
    BY <2>1 DEF Count, Verdict
  <2> QED
    BY <2>1, <2>2, <2>4, <2>5 DEF VerdictInv, UnityType
<1>5. CASE UnityConcludeTest
  <2>1. /\ phase = "teardown" /\ todo = <<>> /\ phase' = "main" /\ ran' = ran
        /\ Unity' = [Unity EXCEPT
                        !.ignores  = IF Unity.ignored THEN @ + 1 ELSE @,
                        !.failures = IF ~Unity.ignored /\ Unity.failed THEN @ + 1 ELSE @,
                        !.failed = FALSE, !.ignored = FALSE]
    BY <1>5 DEF UnityConcludeTest
  <2>2. Unity \in [tests : Nat, failures : Nat, ignores : Nat, failed : BOOLEAN, ignored : BOOLEAN]
    BY DEF VerdictInv, UnityType
  <2>3. Verdict(test) = IF Unity.failed THEN "fail" ELSE IF Unity.ignored THEN "ignore" ELSE "pass"
    BY <2>1, VerdictOfNothing DEF VerdictInv, Outlook
  <2> DEFINE ignores == IF Unity.ignored THEN Unity.ignores + 1 ELSE Unity.ignores
             failures == IF ~Unity.ignored /\ Unity.failed THEN Unity.failures + 1 ELSE Unity.failures
  <2>4. /\ ignores \in Nat /\ failures \in Nat
        /\ failures = Unity.failures + (IF Verdict(test) = "fail" THEN 1 ELSE 0)
        /\ ignores = Unity.ignores + (IF Verdict(test) = "ignore" THEN 1 ELSE 0)
    BY <2>2, <2>3 DEF VerdictInv, UnityType
  <2>5. Unity' = [Unity EXCEPT !.ignores = ignores, !.failures = failures,
                               !.failed = FALSE, !.ignored = FALSE]
    BY <2>1, <2>2
  <2> HIDE DEF ignores, failures
  <2>6. /\ Unity' \in [tests : Nat, failures : Nat, ignores : Nat, failed : BOOLEAN,
                       ignored : BOOLEAN]
        /\ ~Unity'.failed /\ ~Unity'.ignored /\ Unity'.tests = Unity.tests
        /\ Unity'.failures = failures /\ Unity'.ignores = ignores
    BY <2>2, <2>4, <2>5
  <2>7. Unity'.failures = Count(ran', "fail") /\ Unity'.ignores = Count(ran', "ignore")
    <3>1. /\ Count(ran, "fail") = Unity.failures + (IF Verdict(test) = "fail" THEN 1 ELSE 0)
          /\ Count(ran, "ignore") = Unity.ignores + (IF Verdict(test) = "ignore" THEN 1 ELSE 0)
      BY <2>1 DEF VerdictInv
    <3>2. Count(ran', "fail") = Count(ran, "fail") /\ Count(ran', "ignore") = Count(ran, "ignore")
      BY <2>1
    <3> QED
      BY <2>4, <2>6, <3>1, <3>2
  <2> QED
    BY <2>1, <2>6, <2>7 DEF VerdictInv, UnityType
<1>6. CASE UnityEnd
  <2>1. UNCHANGED <<Count(ran, "fail"), Count(ran, "ignore")>>
    BY <1>6 DEF UnityEnd, Count
  <2> QED
    BY <1>6, <2>1 DEF UnityEnd, VerdictInv, UnityType
<1>7. CASE UNCHANGED unityVars
  <2>1. UNCHANGED <<Count(ran, "fail"), Count(ran, "ignore"), Outlook, Verdict(test),
                    VerdictOf(test.body)>>
    BY <1>7 DEF unityVars, Count, Outlook, Verdict
  <2> QED
    BY <1>7, <2>1 DEF unityVars, VerdictInv, UnityType
<1> QED
  BY <1>1, <1>2, <1>3, <1>4, <1>5, <1>6, <1>7 DEF UnityNext

\* How the program ends says how the tests went, for any tests written with the assertions,
\* of any number of calls, setting flags and jumping out of the body or of tearDown as they
\* may, for every size of an int and of UNITY_INT, and up to as many tests as the byte that
\* the shell keeps of the exit status can count.
THEOREM VerdictsAreExact ==
    ASSUME WrittenTests, MaxTests < 256
    PROVE  UnitySpec => []VerdictExact
<1>1. UnityInit => VerdictInv
  BY CountOfNothing, UnityConstants DEF UnityInit, VerdictInv, UnityType, Verdicts
<1>2. VerdictInv /\ TornDownInv => VerdictExact
  <2> SUFFICES ASSUME VerdictInv, TornDownInv, phase \in {"main", "ended"}
               PROVE  /\ Unity.tests = Len(ran)
                      /\ Unity.failures = Ended("fail") /\ Unity.ignores = Ended("ignore")
                      /\ phase = "ended" => (exit = 0) = ("fail" \notin {ran[i] : i \in DOMAIN ran})
    BY DEF VerdictExact, TornDownInv, EveryTestTornDown
  <2>1. /\ Unity.tests = Len(ran) /\ Unity.tests <= MaxTests /\ ran \in Seq(Verdicts)
        /\ Unity.failures = Count(ran, "fail") /\ Unity.ignores = Count(ran, "ignore")
        /\ phase = "ended" => exit = Unity.failures % 256
    BY DEF VerdictInv, UnityType
  <2>2. Ended("fail") = Count(ran, "fail") /\ Ended("ignore") = Count(ran, "ignore")
    BY DEF Ended, Count
  <2>3. /\ Count(ran, "fail") \in Nat /\ Count(ran, "fail") <= Len(ran)
        /\ Count(ran, "fail") = 0 <=> \A i \in DOMAIN ran : ran[i] # "fail"
    BY <2>1, CountIsFinite
  <2>4. Unity.failures \in Nat /\ Unity.failures < 256
    BY <2>1, <2>3, UnityConstants
  <2>5. Unity.failures % 256 = Unity.failures
    BY <2>4
  <2> QED
    BY <2>1, <2>2, <2>3, <2>5
<1>3. VerdictInv /\ [UnityNext]_unityVars => VerdictInv'
  BY VerdictNext
<1> QED
  BY <1>1, <1>2, <1>3, TornDownInit, TornDownStep, PTL DEF UnitySpec

--------------------------------------------------------------------------------
(* Quotients and the digits they make. *)

\* The quotient is the only one with a remainder in range.
LEMMA QuotientIs ==
    ASSUME NEW w \in Nat, w > 0, NEW q \in Int, NEW r \in Int, 0 <= r, r < w
    PROVE  (w * q + r) \div w = q
<1> DEFINE v == w * q + r
           p == v \div w
           s == v % w
<1>1. v \in Int
  OBVIOUS
<1>2. p \in Int /\ s \in Int /\ 0 <= s /\ s < w /\ v = w * p + s
  BY <1>1, Remainder
<1>3. w * (q - p) = s - r
  BY <1>2
<1> HIDE DEF v, p, s
<1>4. q - p = 0
  <2>1. CASE q - p >= 1
    <3>1. w * (q - p) >= w
      BY <1>2, <2>1
    <3> QED
      BY <1>2, <1>3, <3>1
  <2>2. CASE q - p <= -1
    <3>1. w * (q - p) <= -w
      BY <1>2, <2>2
    <3> QED
      BY <1>2, <1>3, <3>1
  <2> QED
    BY <1>2, <2>1, <2>2
<1>5. p = q
  BY <1>2, <1>4
<1> QED
  BY <1>5 DEF p, v

\* Dividing by w and then by b is dividing by b * w.
LEMMA DivideTwice ==
    ASSUME NEW w \in Nat, w > 0, NEW b \in {10, 16}, NEW x \in Nat
    PROVE  /\ x \div w \in Nat /\ (x \div w) \div b \in Nat /\ (x \div w) % b \in 0..(b - 1)
           /\ (x \div w) \div b = x \div (b * w)
           /\ x \div w = b * (x \div (b * w)) + ((x \div w) % b)
<1> DEFINE q == x \div w
           r == x % w
           p == q \div b
           s == q % b
<1>1. q \in Int /\ r \in Int /\ 0 <= r /\ r < w /\ x = w * q + r
  BY Remainder
<1>2. q >= 0
  <2>1. CASE q <= -1
    <3>1. w * q <= -w
      BY <1>1, <2>1
    <3> QED
      BY <1>1, <3>1
  <2> QED
    BY <1>1, <2>1
<1> HIDE DEF q, r
<1>3. p \in Nat /\ s \in 0..(b - 1) /\ q = b * p + s
  BY <1>1, <1>2
<1> HIDE DEF p, s
<1>4. b * w \in Nat /\ b * w > 0
  OBVIOUS
<1>5. x = (b * w) * p + (w * s + r)
  <2>1. w * q = (b * w) * p + w * s
    <3>1. CASE b = 10
      BY <1>1, <1>3, <3>1
    <3>2. CASE b = 16
      BY <1>1, <1>3, <3>2
    <3> QED
      BY <3>1, <3>2
  <2>2. w * s \in Int /\ (b * w) * p \in Int /\ w * q \in Int
    BY <1>1, <1>3
  <2> QED
    BY <1>1, <2>1, <2>2
<1>6. w * s + r \in Int /\ 0 <= w * s + r /\ w * s + r < b * w
  <2>1. 0 <= w * s /\ w * s <= w * (b - 1)
    BY <1>3
  <2>2. w * (b - 1) = b * w - w
    OBVIOUS
  <2> QED
    BY <1>1, <1>3, <2>1, <2>2
<1>7. x \div (b * w) = p
  BY <1>3, <1>4, <1>5, <1>6, QuotientIs
<1> QED
  BY <1>1, <1>2, <1>3, <1>7 DEF q, p, s

\* Two numbers with the same digits to base b are the same.
LEMMA DigitsTell ==
    ASSUME NEW b \in {10, 16}, NEW n \in Nat, NEW w, PowersOf(w, b, n),
           NEW x \in Nat, NEW y \in Nat, NEW k \in 0..n, x \div w[k] = y \div w[k],
           \A j \in 0..(k - 1) : (x \div w[j]) % b = (y \div w[j]) % b
    PROVE  x = y
<1> DEFINE Good == {i \in 0..k : x \div w[k - i] = y \div w[k - i]}
<1>1. 0 \in Good
  OBVIOUS
<1>2. ASSUME NEW i \in 1..k, i - 1 \in Good PROVE i \in Good
  <2> DEFINE j == k - i
             v == w[j]
  <2>1. j \in 0..(k - 1) /\ j \in 0..n /\ j + 1 \in 1..n /\ (j + 1) - 1 = j /\ k - (i - 1) = j + 1
    OBVIOUS
  <2>2. v \in Nat /\ v > 0 /\ w[j + 1] = b * v
    BY <2>1 DEF PowersOf
  <2>3. x \div w[j + 1] = y \div w[j + 1]
    BY <1>2, <2>1
  <2>4. (x \div v) % b = (y \div v) % b
    BY <2>1
  <2> HIDE DEF v
  <2>5. x \div v = b * (x \div (b * v)) + ((x \div v) % b)
    BY <2>2, DivideTwice, ZenonT(40)
  <2>6. y \div v = b * (y \div (b * v)) + ((y \div v) % b)
    BY <2>2, DivideTwice, ZenonT(40)
  <2>7. x \div v = y \div v
    <3>1. x \div (b * v) = y \div (b * v)
      BY <2>2, <2>3
    <3> QED
      BY <2>4, <2>5, <2>6, <3>1, Zenon
  <2> QED
    BY <2>7 DEF v
<1>3. k \in Good
  <2> HIDE DEF Good
  <2>1. \A i \in 0..k : i \in Good
    BY <1>1, <1>2, UpTo
  <2> QED
    BY <2>1
<1>4. x \div w[0] = y \div w[0] /\ w[0] = 1
  <2>1. k - k = 0
    OBVIOUS
  <2> QED
    BY <1>3, <2>1 DEF PowersOf
<1>5. x \div 1 = x /\ y \div 1 = y
  OBVIOUS
<1> QED
  BY <1>4, <1>5

--------------------------------------------------------------------------------
(* The digits that are printed. *)

\* Four binary digits are a hexadecimal one.
LEMMA HexPowers == PowersOf([i \in 0..(2 * WideBytes) |-> Power[4 * i]], 16, 2 * WideBytes)
<1> DEFINE w == [i \in 0..(2 * WideBytes) |-> Power[4 * i]]
<1>1. ASSUME NEW i \in 0..(2 * WideBytes)
      PROVE  w[i] \in Nat /\ w[i] > 0
  <2>1. 4 * i \in 0..(8 * WideBytes)
    BY UnitySizes
  <2> QED
    BY <2>1, PowerSteps DEF PowersOf
<1>2. w[0] = 1
  BY PowerSteps, UnitySizes DEF PowersOf
<1>3. ASSUME NEW i \in 1..(2 * WideBytes)
      PROVE  w[i] = 16 * w[i - 1]
  <2> DEFINE m == 4 * (i - 1)
  <2>1. /\ 4 * i = m + 4 /\ i - 1 \in 0..(2 * WideBytes) /\ m \in Nat
        /\ m + 1 \in 1..(8 * WideBytes) /\ (m + 1) - 1 = m
        /\ m + 2 \in 1..(8 * WideBytes) /\ (m + 2) - 1 = m + 1
        /\ m + 3 \in 1..(8 * WideBytes) /\ (m + 3) - 1 = m + 2
        /\ m + 4 \in 1..(8 * WideBytes) /\ (m + 4) - 1 = m + 3
    BY UnitySizes
  <2>2. w[i] = Power[m + 4] /\ w[i - 1] = Power[m]
    BY <2>1
  <2>3. w[i - 1] \in Nat
    BY <1>1, <2>1
  <2> HIDE DEF m, w
  <2>4. /\ Power[m + 1] = 2 * Power[m] /\ Power[m + 2] = 2 * Power[m + 1]
        /\ Power[m + 3] = 2 * Power[m + 2] /\ Power[m + 4] = 2 * Power[m + 3]
    BY <2>1, PowerSteps DEF PowersOf
  <2> QED
    BY <2>2, <2>3, <2>4
<1> QED
  BY <1>1, <1>2, <1>3 DEF PowersOf

LEMMA HexDigits ==
    ASSUME NEW d \in 0..15, NEW e \in 0..15, HexDigit(d) = HexDigit(e)
    PROVE  d = e
  BY DEF HexDigit

\* UnityPrintNumberHex tells numbers apart that have no more than its digits.
LEMMA HexTells ==
    ASSUME NEW k \in 1..(2 * WideBytes), NEW x \in Nat, NEW y \in Nat,
           x < Power[4 * k], y < Power[4 * k], PrintHex(x, k) = PrintHex(y, k)
    PROVE  x = y
<1> DEFINE w == [i \in 0..(2 * WideBytes) |-> Power[4 * i]]
           n == 2 * WideBytes
<1>1. PowersOf(w, 16, n)
  BY HexPowers
<1>2. n \in Nat /\ k \in 0..n /\ 16 \in {10, 16} /\ \A i \in 0..n : w[i] = Power[4 * i]
  BY UnitySizes
<1>3. ~(k > 2 * WideBytes)
  BY UnitySizes
<1>4. /\ PrintHex(x, k) = [i \in 1..k |-> HexDigit((x \div Power[4 * (k - i)]) % 16)]
      /\ PrintHex(y, k) = [i \in 1..k |-> HexDigit((y \div Power[4 * (k - i)]) % 16)]
  BY <1>3 DEF PrintHex
<1>5. w[k] \in Nat /\ w[k] > 0 /\ x < w[k] /\ y < w[k]
  BY <1>1, <1>2 DEF PowersOf
<1> HIDE DEF w, n
<1>6. x \div w[k] = 0 /\ y \div w[k] = 0
  BY <1>5
<1>7. ASSUME NEW j \in 0..(k - 1) PROVE (x \div w[j]) % 16 = (y \div w[j]) % 16
  <2>1. k - j \in 1..k /\ k - (k - j) = j /\ j \in 0..n
    BY <1>2
  <2>2. w[j] \in Nat /\ w[j] > 0 /\ w[j] = Power[4 * j]
    BY <1>1, <1>2, <2>1 DEF PowersOf
  <2>3. PrintHex(x, k)[k - j] = HexDigit((x \div w[j]) % 16)
    BY <1>4, <2>1, <2>2
  <2>4. PrintHex(y, k)[k - j] = HexDigit((y \div w[j]) % 16)
    BY <1>4, <2>1, <2>2
  <2>5. (x \div w[j]) % 16 \in 0..(16 - 1) /\ (y \div w[j]) % 16 \in 0..(16 - 1)
    BY <1>2, <2>2, DivideTwice
  <2> QED
    BY <2>3, <2>4, <2>5, HexDigits
<1> QED
  BY <1>1, <1>2, <1>6, <1>7, DigitsTell

\* Eight doublings are a byte.
LEMMA ByteOfPowers ==
    ASSUME NEW m \in Nat, m + 8 <= 8 * WideBytes
    PROVE  Power[m] \in Nat /\ Power[m] > 0 /\ Power[m + 8] = 256 * Power[m]
<1>1. ASSUME NEW d \in 0..7
      PROVE  m + d \in 0..(8 * WideBytes) /\ m + (d + 1) \in 1..(8 * WideBytes) /\ (m + (d + 1)) - 1 = m + d
  BY UnitySizes
<1>2. ASSUME NEW d \in 0..7
      PROVE  Power[m + d] \in Nat /\ Power[m + d] > 0 /\ Power[m + (d + 1)] = 2 * Power[m + d]
  BY <1>1, PowerSteps DEF PowersOf
<1>3. m + 0 = m
  OBVIOUS
<1> DEFINE p(d) == Power[m + d]
<1>4. /\ p(0) \in Nat /\ p(0) > 0
      /\ p(1) = 2 * p(0) /\ p(2) = 2 * p(1) /\ p(3) = 2 * p(2) /\ p(4) = 2 * p(3)
  BY <1>2
<1>5. p(5) = 2 * p(4) /\ p(6) = 2 * p(5) /\ p(7) = 2 * p(6) /\ p(8) = 2 * p(7)
  BY <1>2
<1> HIDE DEF p
<1>6. p(0) \in Nat /\ p(0) > 0 /\ p(8) = 256 * p(0)
  BY <1>4, <1>5
<1> QED
  BY <1>3, <1>6 DEF p

\* 256^b <= 1000^b.
LEMMA SpaceBelowTen == Space(WideBytes) <= Ten[3 * WideBytes]
<1> DEFINE Good == {b \in 0..WideBytes : Power[8 * b] <= Ten[3 * b]}
<1>1. 0 \in Good
  BY PowerSteps, TenSteps, UnitySizes DEF PowersOf
<1>2. ASSUME NEW b \in 1..WideBytes, b - 1 \in Good PROVE b \in Good
  <2> DEFINE m == 8 * (b - 1)
             n == 3 * (b - 1)
  <2>1. 8 * b = m + 8 /\ m \in Nat /\ m + 8 <= 8 * WideBytes
    BY UnitySizes
  <2>2. /\ 3 * b = n + 3 /\ n \in Nat /\ n \in 0..(3 * WideBytes)
        /\ n + 1 \in 1..(3 * WideBytes) /\ (n + 1) - 1 = n
        /\ n + 2 \in 1..(3 * WideBytes) /\ (n + 2) - 1 = n + 1
        /\ n + 3 \in 1..(3 * WideBytes) /\ (n + 3) - 1 = n + 2
    BY UnitySizes
  <2>3. Power[m] <= Ten[n]
    BY <1>2
  <2> HIDE DEF m, n, Good
  <2>4. Power[m] \in Nat /\ Power[m + 8] = 256 * Power[m]
    BY <2>1, ByteOfPowers
  <2>6. /\ Ten[n] \in Nat /\ Ten[n + 1] = 10 * Ten[n]
        /\ Ten[n + 2] = 10 * Ten[n + 1] /\ Ten[n + 3] = 10 * Ten[n + 2]
    BY <2>2, TenSteps DEF PowersOf
  <2>7. Power[m + 8] <= Ten[n + 3]
    BY <2>3, <2>4, <2>6
  <2> QED
    BY <2>1, <2>2, <2>7 DEF Good
<1>3. WideBytes \in Good
  <2> HIDE DEF Good
  <2>1. WideBytes \in Nat /\ WideBytes \in 0..WideBytes
    BY UnitySizes
  <2>2. \A b \in 0..WideBytes : b \in Good
    BY <1>1, <1>2, <2>1, UpTo
  <2> QED
    BY <2>1, <2>2
<1> QED
  BY <1>3 DEF Space

LEMMA QuotientOfSmall ==
    ASSUME NEW w \in Nat, w > 0, NEW x \in Nat
    PROVE  /\ x < w => x \div w = 0
           /\ x < 10 * w => x \div w <= 9
<1>1. ASSUME x < w PROVE x \div w = 0
  <2>1. x = w * 0 + x
    OBVIOUS
  <2> QED
    BY <1>1, <2>1, QuotientIs
<1>2. ASSUME x < 10 * w PROVE x \div w <= 9
  <2> DEFINE q == x \div w
  <2>1. PICK r \in Int : q \in Int /\ 0 <= r /\ r < w /\ x = w * q + r
    BY Remainder
  <2> HIDE DEF q
  <2>2. CASE q >= 10
    <3>1. w * q >= w * 10
      BY <2>1, <2>2
    <3> QED
      BY <1>2, <2>1, <3>1
  <2> QED
    BY <2>1, <2>2 DEF q
<1> QED
  BY <1>1, <1>2

\* The digits UnityPrintNumberUnsigned prints are all that the number has.
LEMMA UnsignedText ==
    ASSUME NEW x \in Nat, x < Space(WideBytes)
    PROVE  \E k \in 1..(3 * WideBytes) :
               /\ x \div Ten[k] = 0
               /\ PrintUnsigned(x) = [i \in 1..k |-> 48 + ((x \div Ten[k - i]) % 10)]
<1> DEFINE n == 3 * WideBytes
           T == {i \in 1..n : x \div Ten[i - 1] <= 9}
           k == Least(T)
<1>1. n \in Nat /\ n \in 1..n /\ n - 1 \in 0..n
  BY UnitySizes
<1>2. n \in T
  <2>1. Ten[n - 1] \in Nat /\ Ten[n - 1] > 0 /\ Ten[n] = 10 * Ten[n - 1]
    BY <1>1, TenSteps DEF PowersOf
  <2>2. x < 10 * Ten[n - 1]
    <3>1. Space(WideBytes) \in Nat /\ Ten[n] \in Nat /\ Space(WideBytes) <= Ten[n]
      BY <1>1, WideSpace, TenSteps, SpaceBelowTen DEF PowersOf
    <3> QED
      BY <2>1, <3>1
  <2>3. x \div Ten[n - 1] <= 9
    BY <2>1, <2>2, QuotientOfSmall
  <2> QED
    BY <1>1, <2>3
<1>3. T \in SUBSET Nat /\ T # {}
  BY <1>2
<1>4. k \in T
  BY <1>3, LeastIsLeast
<1>5. PrintUnsigned(x) = [i \in 1..k |-> 48 + ((x \div Ten[k - i]) % 10)]
  BY DEF PrintUnsigned
<1> HIDE DEF k, n
<1>6. k \in 1..n /\ x \div Ten[k - 1] <= 9 /\ k - 1 \in 0..n
  BY <1>1, <1>4
<1>7. Ten[k - 1] \in Nat /\ Ten[k - 1] > 0 /\ Ten[k] = 10 * Ten[k - 1]
  BY <1>6, TenSteps DEF PowersOf, n
<1>8. x \div Ten[k] = 0
  <2> DEFINE q == x \div Ten[k - 1]
  <2>1. q \in Nat /\ q \div 10 = x \div Ten[k]
    BY <1>7, DivideTwice
  <2>2. q <= 9
    BY <1>6
  <2> HIDE DEF q
  <2>3. q \div 10 = 0
    BY <2>1, <2>2
  <2> QED
    BY <2>1, <2>3
<1> QED
  BY <1>5, <1>6, <1>8 DEF n

LEMMA UnsignedTells ==
    ASSUME NEW x \in Nat, NEW y \in Nat, x < Space(WideBytes), y < Space(WideBytes),
           PrintUnsigned(x) = PrintUnsigned(y)
    PROVE  x = y
<1> DEFINE n == 3 * WideBytes
           digit(v, j) == (v \div Ten[j]) % 10
<1>0. n \in Nat /\ PowersOf(Ten, 10, n) /\ 10 \in {10, 16}
  BY TenSteps, UnitySizes
<1>1. PICK k \in 1..n : /\ x \div Ten[k] = 0
                        /\ PrintUnsigned(x) = [i \in 1..k |-> 48 + digit(x, k - i)]
  BY UnsignedText
<1>2. PICK m \in 1..n : /\ y \div Ten[m] = 0
                        /\ PrintUnsigned(y) = [i \in 1..m |-> 48 + digit(y, m - i)]
  BY UnsignedText
<1>3. k = m
  <2>1. DOMAIN PrintUnsigned(x) = 1..k /\ DOMAIN PrintUnsigned(y) = 1..m
    BY <1>1, <1>2
  <2>2. 1..k = 1..m
    BY <2>1
  <2>3. k \in Nat /\ m \in Nat /\ k \in 1..k /\ m \in 1..m
    BY <1>0
  <2> QED
    BY <2>2, <2>3
<1>4. ASSUME NEW j \in 0..(k - 1) PROVE digit(x, j) = digit(y, j)
  <2>1. k - j \in 1..k /\ k - (k - j) = j /\ j \in 0..n
    BY <1>0
  <2>2. Ten[j] \in Nat /\ Ten[j] > 0
    BY <1>0, <2>1 DEF PowersOf
  <2>3. digit(x, j) \in 0..(10 - 1) /\ digit(y, j) \in 0..(10 - 1)
    BY <1>0, <2>2, DivideTwice
  <2> HIDE DEF digit
  <2>4. PrintUnsigned(x)[k - j] = 48 + digit(x, j) /\ PrintUnsigned(y)[k - j] = 48 + digit(y, j)
    BY <1>1, <1>2, <1>3, <2>1
  <2> QED
    BY <2>3, <2>4
<1>5. k \in 0..n /\ x \div Ten[k] = y \div Ten[k]
  BY <1>0, <1>1, <1>2, <1>3
<1> QED
  BY <1>0, <1>4, <1>5, DigitsTell

\* A number begins with a digit, or with the sign.
LEMMA UnsignedIsText ==
    ASSUME NEW x \in Nat, x < Space(WideBytes)
    PROVE  /\ PrintUnsigned(x) \in Seq(Int) /\ PrintUnsigned(x)[1] # 45
           /\ Len(PrintUnsigned(x)) >= 1
<1>1. PICK k \in 1..(3 * WideBytes) :
               PrintUnsigned(x) = [i \in 1..k |-> 48 + ((x \div Ten[k - i]) % 10)]
  BY UnsignedText
<1>2. ASSUME NEW i \in 1..k PROVE (x \div Ten[k - i]) % 10 \in 0..(10 - 1)
  <2>1. k - i \in 0..(3 * WideBytes)
    BY UnitySizes
  <2>2. Ten[k - i] \in Nat /\ Ten[k - i] > 0
    BY <2>1, TenSteps DEF PowersOf
  <2> QED
    BY <2>2, DivideTwice
<1>3. k \in Nat /\ 1 \in 1..k
  BY UnitySizes
<1> DEFINE t == [i \in 1..k |-> 48 + ((x \div Ten[k - i]) % 10)]
<1>4. \A i \in 1..k : t[i] \in Int /\ t[i] # 45
  BY <1>2
<1>5. t = [i \in 1..k |-> t[i]]
  OBVIOUS
<1> HIDE DEF t
<1>6. t \in Seq(Int) /\ Len(t) = k
  BY <1>3, <1>4, <1>5
<1>7. PrintUnsigned(x) = t
  BY <1>1 DEF t
<1> QED
  BY <1>3, <1>4, <1>6, <1>7

LEMMA SameSequence ==
    ASSUME NEW s \in Seq(Int), NEW t \in Seq(Int), Len(s) = Len(t),
           \A i \in 1..Len(s) : s[i] = t[i]
    PROVE  s = t
<1>1. s = [i \in 1..Len(s) |-> s[i]] /\ t = [i \in 1..Len(t) |-> t[i]]
  OBVIOUS
<1> QED
  BY <1>1

LEMMA Joined ==
    ASSUME NEW s \in Seq(Int), NEW t \in Seq(Int)
    PROVE  /\ s \o t \in Seq(Int) /\ Len(s \o t) = Len(s) + Len(t)
           /\ \A i \in 1..(Len(s) + Len(t)) :
                  (s \o t)[i] = IF i <= Len(s) THEN s[i] ELSE t[i - Len(s)]
  OBVIOUS

LEMMA Wrapped ==
    ASSUME NEW p \in Seq(Int), NEW q \in Seq(Int), NEW s \in Seq(Int), NEW t \in Seq(Int),
           p \o s \o q = p \o t \o q
    PROVE  s = t
<1> DEFINE u == p \o s
           v == p \o t
<1>1. u \in Seq(Int) /\ Len(u) = Len(p) + Len(s) /\ v \in Seq(Int) /\ Len(v) = Len(p) + Len(t)
  BY Joined
<1>2. Len(p) \in Nat /\ Len(q) \in Nat /\ Len(s) \in Nat /\ Len(t) \in Nat
  OBVIOUS
<1>3. ASSUME NEW i \in Nat, 0 < i, i <= Len(s) \/ i <= Len(t)
      PROVE  /\ i <= Len(s) => u[Len(p) + i] = s[i]
             /\ i <= Len(t) => v[Len(p) + i] = t[i]
  <2>1. ~(Len(p) + i <= Len(p)) /\ (Len(p) + i) - Len(p) = i
    BY <1>2, <1>3
  <2>2. /\ i <= Len(s) => Len(p) + i \in 1..(Len(p) + Len(s))
        /\ i <= Len(t) => Len(p) + i \in 1..(Len(p) + Len(t))
    BY <1>2, <1>3
  <2> QED
    BY <2>1, <2>2, Joined
<1> HIDE DEF u, v
<1>4. u \o q = v \o q
  BY DEF u, v
<1>5. Len(u) = Len(v)
  <2>1. Len(u \o q) = Len(u) + Len(q) /\ Len(v \o q) = Len(v) + Len(q)
    BY <1>1, Joined
  <2>2. Len(u) + Len(q) = Len(v) + Len(q)
    BY <1>4, <2>1, Zenon
  <2>3. Len(u) \in Nat /\ Len(v) \in Nat
    BY <1>1
  <2> QED
    BY ONLY <1>2, <2>2, <2>3
<1>6. ASSUME NEW i \in 1..Len(s) PROVE s[i] = t[i]
  <2>1. Len(p) + i \in 1..(Len(u) + Len(q)) /\ Len(p) + i <= Len(u)
    <3>1. i \in Nat /\ 0 < i /\ i <= Len(s)
      BY <1>2
    <3> QED
      BY ONLY <1>1, <1>2, <3>1
  <2>2. (u \o q)[Len(p) + i] = u[Len(p) + i] /\ (v \o q)[Len(p) + i] = v[Len(p) + i]
    BY <1>1, <1>5, <2>1, Joined
  <2>3. i \in Nat /\ 0 < i /\ i <= Len(s) /\ i <= Len(t)
    BY <1>1, <1>2, <1>5
  <2> QED
    BY <1>3, <1>4, <2>2, <2>3
<1>7. Len(s) = Len(t)
  BY <1>1, <1>2, <1>5
<1> QED
  BY <1>6, <1>7, SameSequence

LEMMA NumberTells ==
    ASSUME NEW u \in Int, NEW v \in Int,
           -Space(WideBytes) <= 2 * u, 2 * u < Space(WideBytes),
           -Space(WideBytes) <= 2 * v, 2 * v < Space(WideBytes),
           PrintNumber(u) = PrintNumber(v)
    PROVE  u = v
<1> DEFINE Magnitude(i) == IF i < 0 THEN -i ELSE i
<1>1. ASSUME NEW i \in Int, -Space(WideBytes) <= 2 * i, 2 * i < Space(WideBytes)
      PROVE  /\ Magnitude(i) \in Nat /\ Magnitude(i) < Space(WideBytes)
             /\ PrintNumber(i) = IF i < 0 THEN <<45>> \o PrintUnsigned(Magnitude(i))
                                          ELSE PrintUnsigned(Magnitude(i))
  <2>1. Magnitude(i) \in Nat /\ Magnitude(i) < Space(WideBytes)
    BY <1>1, WideSpace
  <2>2. i < 0 => ToUnsigned(-i, WideBytes) = -i
    BY <2>1, WideSpace, RemainderOfSmall DEF ToUnsigned
  <2> QED
    BY <2>1, <2>2 DEF PrintNumber
<1> DEFINE m == Magnitude(u)
           n == Magnitude(v)
<1>2. m \in Nat /\ m < Space(WideBytes) /\ n \in Nat /\ n < Space(WideBytes)
  BY <1>1
<1>3. /\ PrintNumber(u) = IF u < 0 THEN <<45>> \o PrintUnsigned(m) ELSE PrintUnsigned(m)
      /\ PrintNumber(v) = IF v < 0 THEN <<45>> \o PrintUnsigned(n) ELSE PrintUnsigned(n)
  BY <1>1
<1> DEFINE s == PrintUnsigned(m)
           t == PrintUnsigned(n)
<1>4. /\ s \in Seq(Int) /\ s[1] # 45 /\ Len(s) >= 1
      /\ t \in Seq(Int) /\ t[1] # 45 /\ Len(t) >= 1
  BY <1>2, UnsignedIsText
<1>5. s = t => m = n
  BY <1>2, UnsignedTells
<1>6. (u < 0 <=> v < 0) /\ m = n
  <2> HIDE DEF s, t, m, n
  <2>1. (<<45>> \o s)[1] = 45 /\ (<<45>> \o t)[1] = 45
    BY <1>4
  <2>2. (u < 0) <=> (v < 0)
    BY <1>3, <1>4, <2>1, ZenonT(40) DEF s, t
  <2>3. CASE u < 0
    <3>1. <<45>> \o s = <<45>> \o t
      BY <1>3, <2>2, <2>3 DEF s, t
    <3>2. <<45>> \o s \o <<>> = <<45>> \o t \o <<>>
      BY <1>4, <3>1
    <3>3. <<45>> \in Seq(Int) /\ <<>> \in Seq(Int)
      OBVIOUS
    <3>4. s = t
      BY <1>4, <3>2, <3>3, Wrapped
    <3> QED
      BY <1>5, <2>2, <3>4
  <2>4. CASE ~(u < 0)
    BY <1>3, <1>5, <2>2, <2>4 DEF s, t
  <2> QED
    BY <2>3, <2>4
<1> QED
  BY <1>6

--------------------------------------------------------------------------------
(* Hexadecimal digits and characters. *)

LEMMA HexIsText ==
    ASSUME NEW x \in Nat, NEW k \in 1..(2 * WideBytes)
    PROVE  PrintHex(x, k) \in Seq(Int) /\ Len(PrintHex(x, k)) = k
<1> DEFINE h(i) == HexDigit((x \div Power[4 * (k - i)]) % 16)
           t == [i \in 1..k |-> h(i)]
<1>1. PrintHex(x, k) = t
  BY UnitySizes DEF PrintHex
<1>2. ASSUME NEW i \in 1..k PROVE h(i) \in Int
  <2> DEFINE w == Power[4 * (k - i)]
  <2>1. 4 * (k - i) \in 0..(8 * WideBytes)
    BY UnitySizes
  <2>2. 16 \in {10, 16} /\ w \in Nat /\ w > 0
    BY <2>1, PowerSteps DEF PowersOf
  <2> HIDE DEF w
  <2>3. (x \div w) % 16 \in 0..(16 - 1)
    BY <2>2, DivideTwice
  <2> QED
    BY <2>3 DEF HexDigit, w
<1>3. k \in Nat
  BY UnitySizes
<1> HIDE DEF h
<1>4. t \in [1..k -> Int]
  BY <1>2
<1> HIDE DEF t
<1>5. t \in Seq(Int) /\ Len(t) = k
  BY <1>3, <1>4
<1> QED
  BY <1>1, <1>5

LEMMA TwoHexDigits ==
    ASSUME NEW x \in 0..255
    PROVE  /\ PrintHex(x, 2) \in Seq(Int) /\ Len(PrintHex(x, 2)) = 2
           /\ \A y \in 0..255 : PrintHex(x, 2) = PrintHex(y, 2) => x = y
<1>1. 2 \in 1..(2 * WideBytes) /\ ~(2 > 2 * WideBytes)
  BY UnitySizes
<1>2. Power[4 * 2] = 256
  <2>1. 0 \in Nat /\ 0 + 8 <= 8 * WideBytes /\ 0 + 8 = 4 * 2
    BY UnitySizes
  <2>2. Power[0] = 1
    BY PowerSteps DEF PowersOf
  <2> QED
    BY <2>1, <2>2, ByteOfPowers
<1>3. \A y \in 0..255 : PrintHex(x, 2) = PrintHex(y, 2) => x = y
  BY <1>1, <1>2, HexTells
<1>4. PrintHex(x, 2) \in Seq(Int) /\ Len(PrintHex(x, 2)) = 2
  <2>1. x \in Nat
    OBVIOUS
  <2> QED
    BY <1>1, <2>1, HexIsText
<1> QED
  BY <1>3, <1>4

\* The number UnityPrintChar shows of a character that cannot be printed.
Code(ch) == ToUnsigned(ch, WideBytes) % 256

LEMMA CodeOfChar ==
    ASSUME NEW ch \in -128..255
    PROVE  Code(ch) \in 0..255 /\ (ch >= 0 => Code(ch) = ch) /\ (ch < 0 => Code(ch) = ch + 256)
<1> DEFINE w == Space(WideBytes)
<1>1. PICK d \in Nat : d > 0 /\ w = 256 * d
  <2> DEFINE m == 8 * WideBytes - 8
  <2>1. 8 * WideBytes = m + 8 /\ m \in Nat /\ m + 8 <= 8 * WideBytes
    BY UnitySizes
  <2> HIDE DEF m
  <2>2. Power[m] \in Nat /\ Power[m] > 0 /\ Power[m + 8] = 256 * Power[m]
    BY <2>1, ByteOfPowers
  <2> QED
    BY <2>1, <2>2 DEF Space
<1> HIDE DEF w
<1>2. w \in Nat /\ w > 255
  BY <1>1
<1>3. CASE ch >= 0
  <2>1. ch % w = ch
    BY <1>2, <1>3, RemainderOfSmall
  <2>2. ch % 256 = ch
    BY <1>3
  <2> QED
    BY <1>3, <2>1, <2>2 DEF Code, ToUnsigned, w
<1>4. CASE ch < 0
  <2>1. w * (-1) + (ch + w) = ch /\ 0 <= ch + w /\ ch + w < w /\ ch + w \in Int
    BY <1>2, <1>4
  <2>2. (w * (-1) + (ch + w)) % w = ch + w
    BY <1>2, <2>1, RemainderIs
  <2>3. ch + w = 256 * (d - 1) + (ch + 256) /\ 0 <= ch + 256 /\ ch + 256 < 256
    BY <1>1, <1>4
  <2>4. (256 * (d - 1) + (ch + 256)) % 256 = ch + 256
    BY <1>1, <2>3, RemainderIs
  <2> QED
    BY <1>4, <2>1, <2>2, <2>3, <2>4 DEF Code, ToUnsigned, w
<1> QED
  BY <1>3, <1>4

\* A character is itself, or an escape.
Plain(ch)  == ch \in 32..126
Width(ch)  == IF Plain(ch) THEN 1 ELSE IF ch \in {10, 13} THEN 2 ELSE 4
Letter(ch) == IF ch = 13 THEN 114 ELSE IF ch = 10 THEN 110 ELSE 120

LEMMA Pair ==
    ASSUME NEW a \in Int, NEW b \in Int
    PROVE  <<a, b>> \in Seq(Int) /\ Len(<<a, b>>) = 2 /\ <<a, b>>[1] = a /\ <<a, b>>[2] = b
  OBVIOUS

LEMMA CharText ==
    ASSUME NEW ch \in -128..255
    PROVE  /\ PrintChar(ch) \in Seq(Int) /\ Len(PrintChar(ch)) = Width(ch)
           /\ PrintChar(ch)[1] = IF Plain(ch) THEN ch ELSE 92
           /\ ~Plain(ch) => PrintChar(ch)[2] = Letter(ch)
           /\ Width(ch) = 4 => /\ PrintChar(ch)[3] = PrintHex(Code(ch), 2)[1]
                              /\ PrintChar(ch)[4] = PrintHex(Code(ch), 2)[2]
<1>1. CASE Plain(ch)
  <2>1. PrintChar(ch) = <<ch>>
    BY <1>1 DEF PrintChar, Plain
  <2> QED
    BY <1>1, <2>1 DEF Width
<1>2. CASE ch \in {10, 13}
  <2>1. ~Plain(ch) /\ PrintChar(ch) = <<92, Letter(ch)>> /\ Letter(ch) \in Int
    BY <1>2 DEF PrintChar, Plain, Letter
  <2> QED
    BY <1>2, <2>1, Pair DEF Width
<1>3. CASE ~Plain(ch) /\ ch \notin {10, 13}
  <2> DEFINE h == PrintHex(Code(ch), 2)
             x == <<92, 120>>
  <2>1. h \in Seq(Int) /\ Len(h) = 2
    BY CodeOfChar, TwoHexDigits
  <2>2. x \in Seq(Int) /\ Len(x) = 2 /\ x[1] = 92 /\ x[2] = 120
    BY Pair
  <2> DEFINE z == x \o h
  <2>3. PrintChar(ch) = z
    BY <1>3 DEF PrintChar, Plain, Code
  <2> HIDE DEF h, x
  <2> HIDE DEF z
  <2>4. /\ z \in Seq(Int) /\ Len(z) = Len(x) + Len(h)
        /\ \A i \in 1..(Len(x) + Len(h)) : z[i] = IF i <= Len(x) THEN x[i] ELSE h[i - Len(x)]
    <3>1. /\ x \o h \in Seq(Int) /\ Len(x \o h) = Len(x) + Len(h)
          /\ \A i \in 1..(Len(x) + Len(h)) :
                (x \o h)[i] = IF i <= Len(x) THEN x[i] ELSE h[i - Len(x)]
      BY ONLY <2>1, <2>2, Joined, ZenonT(40)
    <3> QED
      BY <3>1, Zenon DEF z
  <2>5. Len(z) = 4 /\ \A i \in 1..4 : z[i] = IF i <= 2 THEN x[i] ELSE h[i - 2]
    BY <2>1, <2>2, <2>4
  <2>6. z[1] = x[1]
    BY <2>5
  <2>7. z[2] = x[2]
    BY <2>5
  <2>8. z[3] = h[1]
    BY <2>5
  <2>9. z[4] = h[2]
    BY <2>5
  <2>10. Letter(ch) = 120 /\ Width(ch) = 4
    BY <1>3 DEF Letter, Width
  <2> QED
    BY <1>3, <2>2, <2>3, <2>4, <2>5, <2>6, <2>7, <2>8, <2>9, <2>10, ZenonT(40) DEF h
<1> QED
  BY <1>1, <1>2, <1>3

\* Two characters with the same digits are the same.
LEMMA DigitsOfChars ==
    ASSUME NEW c \in -128..255, NEW d \in -128..255, Width(c) = 4, Width(d) = 4,
           PrintChar(c)[3] = PrintChar(d)[3], PrintChar(c)[4] = PrintChar(d)[4]
    PROVE  Code(c) = Code(d)
<1> DEFINE g == PrintHex(Code(c), 2)
           h == PrintHex(Code(d), 2)
<1>1. Code(c) \in 0..255 /\ Code(d) \in 0..255
  BY CodeOfChar, ZenonT(40)
<1>2. g \in Seq(Int) /\ Len(g) = 2 /\ h \in Seq(Int) /\ Len(h) = 2
  BY <1>1, TwoHexDigits, ZenonT(40)
<1>3. g[1] = h[1] /\ g[2] = h[2]
  BY CharText
<1>4. g = h
  <2> HIDE DEF g, h
  <2>1. \A i \in 1..Len(g) : g[i] = h[i]
    BY <1>2, <1>3
  <2> QED
    BY <1>2, <2>1, SameSequence
<1> QED
  BY <1>1, <1>4, TwoHexDigits

LEMMA CharTells ==
    ASSUME NEW c \in -128..127, NEW d \in -128..127, PrintChar(c) = PrintChar(d)
    PROVE  c = d
<1>1. c \in -128..255 /\ d \in -128..255
  OBVIOUS
<1>2. Width(c) = Width(d)
  BY <1>1, CharText
<1>3. PrintChar(c)[1] = PrintChar(d)[1] /\ PrintChar(c)[2] = PrintChar(d)[2]
  OBVIOUS
<1>4. CASE Width(c) = 1
  <2>1. Plain(c) /\ Plain(d)
    BY <1>2, <1>4 DEF Width
  <2> QED
    BY <1>1, <1>3, <2>1, CharText
<1>5. CASE Width(c) = 2
  <2>1. ~Plain(c) /\ ~Plain(d) /\ c \in {10, 13} /\ d \in {10, 13}
    BY <1>2, <1>5 DEF Width
  <2>2. PrintChar(c)[2] = Letter(c)
    BY <1>1, <2>1, CharText
  <2>3. PrintChar(d)[2] = Letter(d)
    BY <1>1, <2>1, CharText
  <2> QED
    BY <1>3, <2>1, <2>2, <2>3 DEF Letter
<1>6. CASE Width(c) = 4
  <2>1. Code(c) = Code(d)
    BY <1>1, <1>2, <1>6, DigitsOfChars
  <2>2. (c >= 0 => Code(c) = c) /\ (c < 0 => Code(c) = c + 256)
    BY <1>1, CodeOfChar
  <2>3. (d >= 0 => Code(d) = d) /\ (d < 0 => Code(d) = d + 256)
    BY <1>1, CodeOfChar
  <2> QED
    BY <2>1, <2>2, <2>3
<1> QED
  BY <1>4, <1>5, <1>6 DEF Width

\* Two characters but for the backslash differ while both are printed.
LEMMA CharsPart ==
    ASSUME NEW c \in Byte, NEW d \in Byte, c # d, c # 92, d # 92
    PROVE  \E i \in 1..Width(c) : i <= Width(d) /\ PrintChar(c)[i] # PrintChar(d)[i]
<1>1. c \in -128..255 /\ d \in -128..255 /\ Width(c) \in {1, 2, 4} /\ Width(d) \in {1, 2, 4}
  BY DEF Byte, Width
<1>2. CASE Plain(c) \/ Plain(d)
  <2>1. PrintChar(c)[1] = IF Plain(c) THEN c ELSE 92
    BY <1>1, CharText
  <2>2. PrintChar(d)[1] = IF Plain(d) THEN d ELSE 92
    BY <1>1, CharText
  <2>3. PrintChar(c)[1] # PrintChar(d)[1]
    BY <1>2, <2>1, <2>2
  <2> QED
    BY <1>1, <2>3
<1>3. CASE ~Plain(c) /\ ~Plain(d) /\ (c \in {10, 13} \/ d \in {10, 13})
  <2>1. Letter(c) # Letter(d)
    BY <1>3 DEF Letter
  <2>4. PrintChar(c)[2] = Letter(c)
    BY <1>1, <1>3, CharText
  <2>5. PrintChar(d)[2] = Letter(d)
    BY <1>1, <1>3, CharText
  <2>2. PrintChar(c)[2] # PrintChar(d)[2]
    BY <2>1, <2>4, <2>5
  <2>3. Width(c) \in {2, 4} /\ Width(d) \in {2, 4}
    BY <1>3 DEF Width
  <2> QED
    BY <2>2, <2>3
<1>4. CASE ~Plain(c) /\ ~Plain(d) /\ c \notin {10, 13} /\ d \notin {10, 13}
  <2>1. Width(c) = 4 /\ Width(d) = 4
    BY <1>4 DEF Width
  <2>4. c >= 0 /\ d >= 0
    BY DEF Byte
  <2>5. Code(c) = c
    BY <1>1, <2>4, CodeOfChar
  <2>6. Code(d) = d
    BY <1>1, <2>4, CodeOfChar
  <2>2. Code(c) # Code(d)
    BY <2>5, <2>6
  <2>3. PrintChar(c)[3] # PrintChar(d)[3] \/ PrintChar(c)[4] # PrintChar(d)[4]
    BY <1>1, <2>1, <2>2, DigitsOfChars
  <2> QED
    BY <2>1, <2>3
<1> QED
  BY <1>2, <1>3, <1>4

--------------------------------------------------------------------------------
(* Numbers as they are loaded, and masks. *)

LEMMA StyleRanges ==
    ASSUME NEW style \in Styles
    PROVE  /\ style.range \in {"int", "uint", "hex", "char"}
           /\ style.range = "hex" => style.cast = style.bytes
           /\ style.range = "char" => style.cast = 1 /\ style.bytes = 1
  BY DEF Styles, Style

LEMMA SpaceOfByte == Space(1) = 256
<1>1. 0 \in Nat /\ 0 + 8 <= 8 * WideBytes /\ 0 + 8 = 8 * 1
  BY UnitySizes
<1>2. Power[0] = 1
  BY PowerSteps DEF PowersOf
<1> QED
  BY <1>1, <1>2, ByteOfPowers DEF Space

LEMMA SignedTells ==
    ASSUME NEW style \in Styles, Signed(style), NEW u \in Int, NEW v \in Int,
           NEW b \in 1..WideBytes, style.range = "char" => b = 1,
           ToSigned(u, b) # ToSigned(v, b)
    PROVE  PrintIntByStyle(ToSigned(u, b), style) # PrintIntByStyle(ToSigned(v, b), style)
<1> DEFINE x == ToSigned(u, b)
           y == ToSigned(v, b)
<1>1. /\ x \in Int /\ -Space(b) <= 2 * x /\ 2 * x < Space(b)
      /\ y \in Int /\ -Space(b) <= 2 * y /\ 2 * y < Space(b)
  BY Conversions
<1>2. x # y
  OBVIOUS
<1> HIDE DEF x, y
<1>3. CASE style.range = "char"
  <2>1. x \in -128..127 /\ y \in -128..127
    BY <1>1, <1>3, SpaceOfByte
  <2> DEFINE s == PrintChar(x)
             t == PrintChar(y)
             q == <<39>>
  <2>2. x \in -128..255 /\ y \in -128..255
    BY <2>1
  <2>3. s \in Seq(Int) /\ t \in Seq(Int) /\ s # t /\ q \in Seq(Int)
    <3>1. s \in Seq(Int)
      BY <2>2, CharText
    <3>2. t \in Seq(Int)
      BY <2>2, CharText
    <3>3. s # t
      BY <1>2, <2>1, CharTells
    <3> QED
      BY <3>1, <3>2, <3>3
  <2>4. PrintIntByStyle(x, style) = q \o s \o q /\ PrintIntByStyle(y, style) = q \o t \o q
    BY <1>3 DEF PrintIntByStyle
  <2> HIDE DEF s, t, q
  <2>5. PrintIntByStyle(x, style) # PrintIntByStyle(y, style)
    BY <2>3, <2>4, Wrapped
  <2> QED
    BY <2>5 DEF x, y
<1>4. CASE style.range = "int"
  <2>1. PrintIntByStyle(x, style) = PrintNumber(x) /\ PrintIntByStyle(y, style) = PrintNumber(y)
    BY <1>4 DEF PrintIntByStyle
  <2>2. Space(b) \in Nat /\ Space(WideBytes) \in Nat /\ Space(b) <= Space(WideBytes)
    BY SpaceSizes, WideSpace
  <2>3. /\ -Space(WideBytes) <= 2 * x /\ 2 * x < Space(WideBytes)
        /\ -Space(WideBytes) <= 2 * y /\ 2 * y < Space(WideBytes)
    BY <1>1, <2>2
  <2>4. PrintNumber(x) # PrintNumber(y)
    BY <1>1, <1>2, <2>3, NumberTells
  <2> QED
    BY <2>1, <2>4 DEF x, y
<1> QED
  BY <1>3, <1>4 DEF Signed

LEMMA UnsignedStyleTells ==
    ASSUME NEW style \in Styles, ~Signed(style), NEW u \in Int, NEW v \in Int,
           NEW b \in 1..WideBytes, style.range = "hex" => b = style.bytes,
           ToUnsigned(u, b) # ToUnsigned(v, b)
    PROVE  PrintUintByStyle(ToUnsigned(u, b), style) # PrintUintByStyle(ToUnsigned(v, b), style)
<1> DEFINE x == ToUnsigned(u, b)
           y == ToUnsigned(v, b)
<1>1. x \in Nat /\ x < Space(b) /\ y \in Nat /\ y < Space(b)
  BY Conversions
<1>2. x # y
  OBVIOUS
<1> HIDE DEF x, y
<1>3. CASE style.range = "uint"
  <2>1. PrintUintByStyle(x, style) = PrintUnsigned(x) /\ PrintUintByStyle(y, style) = PrintUnsigned(y)
    BY <1>3 DEF PrintUintByStyle
  <2>2. Space(b) \in Nat /\ Space(WideBytes) \in Nat /\ Space(b) <= Space(WideBytes)
    BY SpaceSizes, WideSpace
  <2>3. x < Space(WideBytes) /\ y < Space(WideBytes)
    BY <1>1, <2>2
  <2> QED
    BY <1>1, <1>2, <2>1, <2>3, UnsignedTells DEF x, y
<1>4. CASE style.range = "hex"
  <2> DEFINE k == 2 * b
             s == PrintHex(x, k)
             t == PrintHex(y, k)
             p == <<48, 120>>
  <2>1. PrintUintByStyle(x, style) = p \o s /\ PrintUintByStyle(y, style) = p \o t
    BY <1>4 DEF PrintUintByStyle
  <2>2. k \in 1..(2 * WideBytes) /\ Space(b) = Power[4 * k]
    <3>1. 4 * (2 * b) = 8 * b
      OBVIOUS
    <3> QED
      BY <3>1, UnitySizes DEF Space
  <2>3. s # t
    BY <1>1, <1>2, <2>2, HexTells
  <2>4. s \in Seq(Int) /\ t \in Seq(Int)
    BY <1>1, <2>2, HexIsText
  <2>5. p \in Seq(Int) /\ <<>> \in Seq(Int)
    BY Pair
  <2> HIDE DEF s, t, p
  <2>6. p \o s \o <<>> = p \o s /\ p \o t \o <<>> = p \o t
    BY <2>4, <2>5
  <2>7. p \o s # p \o t
    BY <2>3, <2>4, <2>5, <2>6, Wrapped
  <2> QED
    BY <2>1, <2>7 DEF x, y
<1> QED
  BY <1>3, <1>4, StyleRanges DEF Signed

\* A scalar assertion whose numbers differ shows that they do.
LEMMA ScalarTells ==
    ASSUME NEW style \in Styles, NEW u \in Int, NEW v \in Int, Cast(style, u) # Cast(style, v)
    PROVE  PrintScalar(Cast(style, u), style) # PrintScalar(Cast(style, v), style)
<1>1. style.cast \in 1..WideBytes
  BY StyleSizes
<1>2. CASE Signed(style)
  <2>1. style.range = "char" => style.cast = 1
    BY StyleRanges
  <2> QED
    BY <1>1, <1>2, <2>1, SignedTells DEF Cast, PrintScalar
<1>3. CASE ~Signed(style)
  <2>1. style.range = "hex" => style.cast = style.bytes
    BY StyleRanges
  <2> QED
    BY <1>1, <1>3, <2>1, UnsignedStyleTells DEF Cast, PrintScalar
<1> QED
  BY <1>2, <1>3

\* An unsigned number that was loaded as a signed one is printed unsigned.
LEMMA LoadedUnsigned ==
    ASSUME NEW style \in Styles, ~Signed(style), NEW v \in Int
    PROVE  ToUnsigned(Load(style, v), WideBytes) = ToUnsigned(v, style.bytes)
<1>1. style.bytes \in 1..WideBytes /\ WideBytes \in 1..WideBytes
  BY StyleSizes, WideSpace
<1>2. CASE style.bytes = WideBytes
  <2> DEFINE w == Space(WideBytes)
             u == ToUnsigned(v, WideBytes)
  <2>1. w \in Nat /\ w > 0 /\ u \in Int /\ 0 <= u /\ u < w
    BY WideSpace, Conversions
  <2>2. Load(style, v) = IF 2 * u < w THEN u ELSE u - w
    BY <1>2 DEF Load, ToSigned
  <2> HIDE DEF w, u
  <2>3. u % w = u
    BY <2>1, RemainderOfSmall
  <2>4. (u - w) % w = u
    <3>1. u - w = w * (-1) + u
      BY <2>1
    <3> QED
      BY <2>1, <3>1, RemainderIs
  <2>5. Load(style, v) % w = u
    BY <2>2, <2>3, <2>4
  <2> QED
    BY <1>2, <2>5 DEF ToUnsigned, w, u
<1>3. CASE style.bytes # WideBytes
  <2> DEFINE u == ToUnsigned(v, style.bytes)
  <2>1. Load(style, v) = u
    BY <1>3 DEF Load
  <2>2. /\ u \in Int /\ 0 <= u /\ u < Space(style.bytes) /\ Space(style.bytes) \in Nat
        /\ Space(WideBytes) \in Nat /\ Space(style.bytes) <= Space(WideBytes) /\ Space(WideBytes) > 0
    BY <1>1, Conversions, SpaceSizes, WideSpace
  <2> HIDE DEF u
  <2>3. u < Space(WideBytes)
    BY <2>2
  <2>4. u % Space(WideBytes) = u
    BY <2>2, <2>3, RemainderOfSmall
  <2> QED
    BY <2>1, <2>4 DEF ToUnsigned, u
<1> QED
  BY <1>2, <1>3

\* Two elements that are not the same as the style reads them are not printed alike.
LEMMA LoadTells ==
    ASSUME NEW style \in Styles, NEW u \in Int, NEW v \in Int, Load(style, u) # Load(style, v)
    PROVE  PrintIntByStyle(Load(style, u), style) # PrintIntByStyle(Load(style, v), style)
<1>1. style.bytes \in 1..WideBytes
  BY StyleSizes
<1>2. CASE Signed(style)
  <2>1. style.range = "char" => style.bytes = 1
    BY StyleRanges
  <2> QED
    BY <1>1, <1>2, <2>1, SignedTells DEF Load
<1>3. CASE ~Signed(style)
  <2> DEFINE b == style.bytes
  <2>1. ToUnsigned(u, b) # ToUnsigned(v, b)
    BY <1>1, LoadSame, SameConverted
  <2>2. PrintUintByStyle(ToUnsigned(u, b), style) # PrintUintByStyle(ToUnsigned(v, b), style)
    BY <1>1, <1>3, <2>1, UnsignedStyleTells
  <2>3. ASSUME NEW x \in Int
        PROVE  PrintIntByStyle(Load(style, x), style) = PrintUintByStyle(ToUnsigned(x, b), style)
    <3>1. ToUnsigned(Load(style, x), WideBytes) = ToUnsigned(x, b)
      BY <1>3, LoadedUnsigned
    <3>2. style.range \in {"uint", "hex"}
      BY <1>3, StyleRanges DEF Signed
    <3> QED
      BY <3>1, <3>2 DEF PrintIntByStyle, PrintUintByStyle
  <2> QED
    BY <2>2, <2>3
<1> QED
  BY <1>2, <1>3

\* A byte is loaded as it is.
LEMMA BytesTell ==
    ASSUME NEW u \in Byte, NEW v \in Byte, u # v
    PROVE  PrintIntByStyle(u, ByteStyle) # PrintIntByStyle(v, ByteStyle)
<1>1. ByteStyle \in Styles /\ ByteStyle.bytes = 1 /\ ~Signed(ByteStyle) /\ WideBytes # 1
  BY UnitySizes DEF ByteStyle, Styles, Style, Signed
<1>2. ASSUME NEW x \in Byte PROVE Load(ByteStyle, x) = x
  <2>1. x \in 0..255
    BY DEF Byte
  <2>2. x % 256 = x
    BY <2>1
  <2> QED
    BY <1>1, <2>2, SpaceOfByte DEF Load, ToUnsigned
<1>3. u \in Int /\ v \in Int /\ Load(ByteStyle, u) = u /\ Load(ByteStyle, v) = v
  BY <1>2 DEF Byte
<1> QED
  BY <1>1, <1>3, LoadTells

\* A mask within the bits of an int shows every bit that is compared.
LEMMA MaskTells ==
    ASSUME NEW mask \in Int, NEW e \in Int, NEW a \in Int, BitsFail(mask, e, a),
           ToUnsigned(mask, WideBytes) < Space(IntBytes)
    PROVE  PrintMask(mask, e) # PrintMask(mask, a)
<1> DEFINE top == 8 * IntBytes
           m == ToUnsigned(mask, WideBytes)
<1>1. PICK i \in 0..(8 * WideBytes - 1) : Bit(mask, i) = 1 /\ Bit(e, i) # Bit(a, i)
  BY DEF BitsFail
<1>2. m \in Nat /\ m < Power[top]
  BY WideSpace, Conversions DEF Space
<1>3. i < top
  <2> SUFFICES ASSUME i >= top PROVE FALSE
    BY UnitySizes
  <2>1. top \in 0..(8 * WideBytes) /\ i \in top..(8 * WideBytes) /\ i \in 0..(8 * WideBytes)
    BY UnitySizes
  <2>2. Power[top] <= Power[i] /\ Power[top] \in Nat /\ Power[i] \in Nat /\ Power[i] > 0
    BY <2>1, PowersGrow, PowerSteps DEF PowersOf
  <2> HIDE DEF m, top
  <2>3. m < Power[i]
    BY <1>2, <2>2
  <2>4. m \div Power[i] = 0
    BY <1>2, <2>2, <2>3, QuotientOfSmall
  <2>5. Bit(mask, i) = 0
    BY <2>4 DEF Bit, m
  <2> QED
    BY <1>1, <2>5
<1> DEFINE j == top - i
<1>4. j \in 1..top /\ top - j = i
  BY <1>3, UnitySizes
<1>5. /\ PrintMask(mask, e) = [k \in 1..top |-> IF Bit(mask, top - k) = 1 THEN 48 + Bit(e, top - k) ELSE 88]
      /\ PrintMask(mask, a) = [k \in 1..top |-> IF Bit(mask, top - k) = 1 THEN 48 + Bit(a, top - k) ELSE 88]
  BY DEF PrintMask
<1> HIDE DEF j, top
<1>6. PrintMask(mask, e)[j] = 48 + Bit(e, i) /\ PrintMask(mask, a)[j] = 48 + Bit(a, i)
  BY <1>1, <1>4, <1>5
<1>7. Bit(e, i) \in {0, 1} /\ Bit(a, i) \in {0, 1}
  BY BitIsBit
<1> QED
  BY <1>1, <1>6, <1>7

--------------------------------------------------------------------------------
(* Strings. *)

\* t is what has been printed of s, character by character.
TextOf(t, s, n) ==
    /\ t \in [0..n -> Seq(Int)] /\ t[0] = <<>>
    /\ \A i \in 1..n : t[i] = t[i - 1] \o PrintChar(s[i])

TextFor(s, n) == CHOOSE f : f = [i \in 0..n |-> IF i = 0 THEN <<>> ELSE f[i - 1] \o PrintChar(s[i])]

LEMMA TextExists ==
    ASSUME NEW n \in Nat, NEW s, \A i \in 1..n : s[i] \in Byte
    PROVE  TextOf(TextFor(s, n), s, n)
<1> DEFINE Is(f) == f = [i \in 0..n |-> IF i = 0 THEN <<>> ELSE f[i - 1] \o PrintChar(s[i])]
           t == CHOOSE f : Is(f)
           step == [i \in 1..n |-> [v \in Seq(Int) |-> v \o PrintChar(s[i])]]
           S == Seq(Int)
           none == <<>>
<1>1. LoopOver(S, n, none, step)
  <2>1. ASSUME NEW i \in 1..n PROVE [v \in Seq(Int) |-> v \o PrintChar(s[i])] \in [S -> S]
    <3>1. s[i] \in -128..255
      BY DEF Byte
    <3>2. PrintChar(s[i]) \in Seq(Int)
      BY <3>1, CharText
    <3> QED
      BY <3>2
  <2>2. none \in S
    OBVIOUS
  <2> QED
    BY <2>1, <2>2 DEF LoopOver
<1>2. \A i \in 1..n : \A v \in Seq(Int) : step[i][v] = v \o PrintChar(s[i])
  OBVIOUS
<1> HIDE DEF step, S, none
<1>3. PICK f : Runs(f, S, n, none, step)
  BY <1>1, Loop, Zenon
<1>4. Is(f)
  <2>1. ASSUME NEW i \in 0..n, i # 0 PROVE step[i][f[i - 1]] = f[i - 1] \o PrintChar(s[i])
    <3>1. i \in 1..n /\ i - 1 \in 0..n
      BY <2>1
    <3>2. f[i - 1] \in Seq(Int)
      BY <1>3, <3>1, Zenon DEF S, Runs
    <3> QED
      BY <1>2, <3>1, <3>2, Zenon
  <2>2. f = [i \in 0..n |-> IF i = 0 THEN none ELSE f[i - 1] \o PrintChar(s[i])]
    BY <1>3, <2>1, Zenon DEF Runs
  <2> QED
    BY <2>2, Zenon DEF none
<1>5. Is(t)
  BY <1>4, Zenon
<1> HIDE DEF t
<1>6. t[0] = <<>> /\ \A i \in 1..n : t[i] = t[i - 1] \o PrintChar(s[i])
  BY <1>5
<1> DEFINE Good == {i \in 0..n : t[i] \in Seq(Int)}
<1>7. 0 \in Good
  <2>1. t[0] \in Seq(Int)
    <3>1. <<>> \in Seq(Int)
      OBVIOUS
    <3> QED
      BY <1>6, <3>1, Zenon
  <2> QED
    BY <2>1
<1>8. ASSUME NEW i \in 1..n, i - 1 \in Good PROVE i \in Good
  <2>1. s[i] \in -128..255
    BY DEF Byte
  <2>2. PrintChar(s[i]) \in Seq(Int) /\ t[i - 1] \in Seq(Int) /\ t[i] = t[i - 1] \o PrintChar(s[i])
    BY <1>6, <1>8, <2>1, CharText
  <2>3. t[i] \in Seq(Int)
    <3> DEFINE p == t[i - 1]
               c == PrintChar(s[i])
    <3> HIDE DEF p, c
    <3>1. p \in Seq(Int) /\ c \in Seq(Int)
      BY <2>2 DEF p, c
    <3>2. p \o c \in Seq(Int)
      BY <3>1
    <3> QED
      BY <2>2, <3>2, Zenon DEF p, c
  <2> QED
    BY <2>3
<1>9. \A i \in 0..n : i \in Good
  <2> HIDE DEF Good
  <2> QED
    BY <1>7, <1>8, UpTo
<1>10. t \in [0..n -> Seq(Int)]
  <2>1. t = [i \in 0..n |-> t[i]]
    BY <1>5
  <2> QED
    BY <1>9, <2>1
<1>11. TextOf(t, s, n)
  BY <1>6, <1>10 DEF TextOf
<1> QED
  BY <1>11 DEF t, TextFor

LEMMA TextPrinted ==
    ASSUME NEW length \in Nat, NEW s \in Strings(length), s # Null
    PROVE  \E n \in 0..Len(s) : \E t :
               /\ n = Stop(s, length) - 1 /\ Text(s, length) = [i \in 1..n |-> s[i]]
               /\ \A i \in 1..n : i \in DOMAIN s /\ s[i] \in Byte
               /\ TextOf(t, s, n) /\ PrintText(s, length) = t[n]
<1>1. s \in Seq(Byte)
  BY DEF Strings
<1>2. PICK m \in 1..(length + 1) :
          m = Stop(s, length) /\ m - 1 <= Len(s) /\ Text(s, length) = [i \in 1..(m - 1) |-> s[i]]
  BY TextStops
<1> DEFINE n == m - 1
           t == TextFor(s, n)
<1>3. n \in Nat /\ n \in 0..Len(s) /\ \A i \in 1..n : i \in DOMAIN s /\ s[i] \in Byte
  BY <1>1, <1>2
<1>4. PrintText(s, length) = t[n]
  BY <1>2, Zenon DEF PrintText, TextFor
<1> HIDE DEF n
<1>5. TextOf(t, s, n)
  BY <1>3, TextExists
<1> HIDE DEF t
<1>6. n = Stop(s, length) - 1 /\ Text(s, length) = [i \in 1..n |-> s[i]]
  BY <1>2 DEF n
<1> QED
  BY <1>3, <1>4, <1>5, <1>6

\* q begins with p.
Begins(q, p) == \A x \in 1..Len(p) : q[x] = p[x]

\* What has been printed stays, and each character adds to it.
LEMMA TextGrows ==
    ASSUME NEW n \in Nat, NEW s, NEW t, \A i \in 1..n : s[i] \in Byte, TextOf(t, s, n),
           NEW i \in 0..n, NEW j \in i..n
    PROVE  /\ t[i] \in Seq(Int) /\ t[j] \in Seq(Int) /\ Len(t[i]) + (j - i) <= Len(t[j])
           /\ Begins(t[j], t[i])
<1> DEFINE Grown(d) == /\ Len(t[i]) + d <= Len(t[i + d])
                       /\ \A x \in 1..Len(t[i]) : t[i + d][x] = t[i][x]
           Good == {d \in 0..(j - i) : Grown(d)}
<1>1. \A k \in 0..n : t[k] \in Seq(Int) /\ Len(t[k]) \in Nat
  BY DEF TextOf
<1>2. 0 \in Good
  <2>1. i + 0 = i /\ Len(t[i]) \in Nat
    BY <1>1
  <2> QED
    BY <2>1
<1>3. ASSUME NEW d \in 1..(j - i), d - 1 \in Good PROVE d \in Good
  <2> DEFINE k == i + (d - 1)
             p == t[k]
             c == PrintChar(s[k + 1])
  <2>1. k \in 0..n /\ k + 1 \in 1..n /\ (k + 1) - 1 = k /\ i + d = k + 1
    OBVIOUS
  <2>2. s[k + 1] \in -128..255
    BY <2>1 DEF Byte
  <2>3. c \in Seq(Int) /\ Len(c) \in {1, 2, 4}
    BY <2>2, CharText DEF Width
  <2>4. p \in Seq(Int) /\ Len(p) \in Nat /\ t[k + 1] = p \o c
    BY <1>1, <2>1 DEF TextOf
  <2>5. Len(t[i]) \in Nat /\ Len(t[i]) + (d - 1) <= Len(p) /\ \A x \in 1..Len(t[i]) : p[x] = t[i][x]
    BY <1>1, <1>3
  <2> HIDE DEF p, c
  <2>6. /\ Len(p \o c) = Len(p) + Len(c)
        /\ \A x \in 1..(Len(p) + Len(c)) : (p \o c)[x] = IF x <= Len(p) THEN p[x] ELSE c[x - Len(p)]
    BY <2>3, <2>4, Joined
  <2> DEFINE z == t[k + 1]
  <2>7. /\ Len(z) = Len(p) + Len(c)
        /\ \A x \in 1..(Len(p) + Len(c)) : z[x] = IF x <= Len(p) THEN p[x] ELSE c[x - Len(p)]
    BY <2>4, <2>6
  <2> HIDE DEF z
  <2>8. Len(t[i]) + d <= Len(z)
    <3> DEFINE k1 == Len(t[i])
               k2 == Len(p)
               k3 == Len(c)
    <3>1. k1 \in Nat /\ k2 \in Nat /\ k3 \in {1, 2, 4} /\ d \in Nat /\ k1 + (d - 1) <= k2
      BY <2>3, <2>4, <2>5
    <3> HIDE DEF k1, k2, k3
    <3>2. k1 + d <= k2 + k3
      BY <3>1
    <3> QED
      BY <2>7, <3>2 DEF k1, k2, k3
  <2>9. ASSUME NEW x \in 1..Len(t[i]) PROVE z[x] = t[i][x]
    <3>1. x \in 1..(Len(p) + Len(c)) /\ x <= Len(p)
      BY <2>3, <2>4, <2>5
    <3> QED
      BY <2>5, <2>7, <3>1
  <2> QED
    BY <2>1, <2>8, <2>9 DEF z
<1>4. j - i \in Good
  <2> HIDE DEF Good
  <2>1. j - i \in Nat /\ j - i \in 0..(j - i)
    OBVIOUS
  <2>2. \A d \in 0..(j - i) : d \in Good
    BY <1>2, <1>3, <2>1, UpTo
  <2> QED
    BY <2>1, <2>2
<1>5. i + (j - i) = j /\ j \in 0..n
  OBVIOUS
<1> QED
  BY <1>1, <1>4, <1>5 DEF Begins

LEMMA TextStays ==
    ASSUME NEW n \in Nat, NEW s, NEW t, \A i \in 1..n : s[i] \in Byte, TextOf(t, s, n),
           NEW i \in 0..n
    PROVE  Begins(t[n], t[i])
<1>1. n \in i..n
  OBVIOUS
<1> QED
  BY <1>1, TextGrows, Zenon

\* Strings that begin alike are printed alike so far.
LEMMA SameStart ==
    ASSUME NEW m \in Nat, NEW n \in Nat, NEW e, NEW a, NEW t, NEW u,
           TextOf(t, e, m), TextOf(u, a, n), NEW k \in Nat, k <= m, k <= n,
           \A i \in 1..k : e[i] = a[i]
    PROVE  t[k] = u[k]
<1> DEFINE Good == {i \in 0..k : t[i] = u[i]}
<1>1. 0 \in Good
  BY DEF TextOf
<1>2. ASSUME NEW i \in 1..k, i - 1 \in Good PROVE i \in Good
  <2>1. i \in 1..m /\ i \in 1..n
    OBVIOUS
  <2>2. t[i] = t[i - 1] \o PrintChar(e[i]) /\ u[i] = u[i - 1] \o PrintChar(a[i])
    BY <2>1 DEF TextOf
  <2>3. t[i - 1] = u[i - 1] /\ e[i] = a[i]
    BY <1>2
  <2>4. t[i] = u[i]
    BY <2>2, <2>3, Zenon
  <2> QED
    BY <2>4
<1>3. k \in Good
  <2> HIDE DEF Good
  <2>1. \A i \in 0..k : i \in Good
    BY <1>1, <1>2, UpTo
  <2> QED
    BY <2>1
<1> QED
  BY <1>3

\* A string that goes on where another ends is printed longer.
LEMMA LongerTells ==
    ASSUME NEW m \in Nat, NEW n \in Nat, NEW e, NEW a, NEW t, NEW u,
           TextOf(t, e, m), TextOf(u, a, n), \A i \in 1..n : a[i] \in Byte,
           m < n, \A i \in 1..m : e[i] = a[i]
    PROVE  t[m] # u[n]
<1>1. t[m] = u[m]
  BY SameStart
<1>2. m \in 0..n /\ n \in m..n
  OBVIOUS
<1>3. u[m] \in Seq(Int) /\ u[n] \in Seq(Int) /\ Len(u[m]) + (n - m) <= Len(u[n])
  BY <1>2, TextGrows
<1>4. Len(u[m]) < Len(u[n])
  BY <1>3
<1> QED
  BY <1>1, <1>3, <1>4

LEMMA DifferenceTells ==
    ASSUME NEW m \in Nat, NEW n \in Nat, NEW e, NEW a, NEW t, NEW u,
           TextOf(t, e, m), TextOf(u, a, n),
           \A i \in 1..m : e[i] \in Byte, \A i \in 1..n : a[i] \in Byte,
           NEW i \in 1..m, i <= n, e[i] # a[i], e[i] # 92, a[i] # 92,
           \A j \in 1..(i - 1) : e[j] = a[j]
    PROVE  t[m] # u[n]
<1> DEFINE p == t[i - 1]
           c == PrintChar(e[i])
           d == PrintChar(a[i])
<1>1. i - 1 \in Nat /\ i - 1 \in 0..m /\ i \in 0..m /\ m \in i..m /\ i \in 1..n /\ i \in 0..n /\ n \in i..n
  OBVIOUS
<1>2. p = u[i - 1]
  BY <1>1, SameStart
<1>3. t[i] = p \o c /\ u[i] = p \o d /\ p \in Seq(Int)
  BY <1>1, <1>2 DEF TextOf
<1>4. e[i] \in Byte /\ a[i] \in Byte
  BY <1>1
<1>5. PICK x \in 1..Width(e[i]) : x <= Width(a[i]) /\ c[x] # d[x]
  BY <1>4, CharsPart
<1>6. c \in Seq(Int) /\ Len(c) = Width(e[i]) /\ d \in Seq(Int) /\ Len(d) = Width(a[i])
  <2>1. e[i] \in -128..255 /\ a[i] \in -128..255
    BY <1>4 DEF Byte
  <2> QED
    BY <2>1, CharText
<1>7. Width(e[i]) \in {1, 2, 4} /\ Width(a[i]) \in {1, 2, 4}
  BY DEF Width
<1> DEFINE y == Len(p) + x
           v == t[i]
           w == u[i]
<1>8. /\ Len(v) = Len(p) + Len(c)
      /\ \A z \in 1..(Len(p) + Len(c)) : v[z] = IF z <= Len(p) THEN p[z] ELSE c[z - Len(p)]
  <2> HIDE DEF p, c, v
  <2>1. /\ Len(p \o c) = Len(p) + Len(c)
        /\ \A z \in 1..(Len(p) + Len(c)) : (p \o c)[z] = IF z <= Len(p) THEN p[z] ELSE c[z - Len(p)]
    BY <1>3, <1>6, Joined
  <2>2. v = p \o c
    BY <1>3, Zenon DEF v
  <2> QED
    BY <2>1, <2>2, Zenon
<1>9. /\ Len(w) = Len(p) + Len(d)
      /\ \A z \in 1..(Len(p) + Len(d)) : w[z] = IF z <= Len(p) THEN p[z] ELSE d[z - Len(p)]
  <2> HIDE DEF p, d, w
  <2>1. /\ Len(p \o d) = Len(p) + Len(d)
        /\ \A z \in 1..(Len(p) + Len(d)) : (p \o d)[z] = IF z <= Len(p) THEN p[z] ELSE d[z - Len(p)]
    BY <1>3, <1>6, Joined
  <2>2. w = p \o d
    BY <1>3, Zenon DEF w
  <2> QED
    BY <2>1, <2>2, Zenon
<1>10. Len(p) \in Nat
  BY <1>3
<1> HIDE DEF p, c, d, v, w
<1>11. /\ y \in 1..(Len(p) + Len(c)) /\ y \in 1..(Len(p) + Len(d))
       /\ ~(y <= Len(p)) /\ y - Len(p) = x
  BY <1>5, <1>6, <1>7, <1>10
<1>12. v[y] = c[x] /\ w[y] = d[x] /\ y \in 1..Len(v) /\ y \in 1..Len(w)
  BY <1>8, <1>9, <1>11
<1>13. \A z \in 1..Len(v) : t[m][z] = v[z]
  BY <1>1, TextStays DEF v, Begins
<1>14. \A z \in 1..Len(w) : u[n][z] = w[z]
  BY <1>1, TextStays DEF w, Begins
<1> QED
  BY <1>5, <1>12, <1>13, <1>14

NoBackslash(s) == \A i \in DOMAIN s : s[i] # 92

LEMMA TextsTell ==
    ASSUME NEW length \in Nat, NEW e \in Strings(length), NEW a \in Strings(length),
           e # Null, a # Null, NoBackslash(e), NoBackslash(a), Text(e, length) # Text(a, length)
    PROVE  /\ PrintText(e, length) \in Seq(Int) /\ PrintText(a, length) \in Seq(Int)
           /\ PrintText(e, length) # PrintText(a, length)
<1>1. PICK m \in 0..Len(e) : \E t :
               /\ Text(e, length) = [i \in 1..m |-> e[i]]
               /\ \A i \in 1..m : i \in DOMAIN e /\ e[i] \in Byte
               /\ TextOf(t, e, m) /\ PrintText(e, length) = t[m]
  BY TextPrinted
<1>2. PICK n \in 0..Len(a) : \E u :
               /\ Text(a, length) = [i \in 1..n |-> a[i]]
               /\ \A i \in 1..n : i \in DOMAIN a /\ a[i] \in Byte
               /\ TextOf(u, a, n) /\ PrintText(a, length) = u[n]
  BY TextPrinted
<1>3. PICK t : TextOf(t, e, m) /\ PrintText(e, length) = t[m]
  BY <1>1
<1>4. PICK u : TextOf(u, a, n) /\ PrintText(a, length) = u[n]
  BY <1>2
<1>5. /\ m \in Nat /\ n \in Nat
      /\ \A i \in 1..m : e[i] \in Byte /\ e[i] # 92
      /\ \A i \in 1..n : a[i] \in Byte /\ a[i] # 92
  <2>1. Len(e) \in Nat /\ Len(a) \in Nat
    BY DEF Strings
  <2> QED
    BY <1>1, <1>2, <2>1 DEF NoBackslash
<1>6. t[m] \in Seq(Int) /\ u[n] \in Seq(Int)
  BY <1>3, <1>4, <1>5 DEF TextOf
<1> DEFINE D == {i \in 1..m : i <= n /\ e[i] # a[i]}
<1>7. CASE D # {}
  <2>1. D \in SUBSET Nat
    BY <1>5
  <2>2. PICK i \in D : \A j \in D : i <= j
    <3> HIDE DEF D
    <3> QED
      BY <1>7, <2>1, LeastExists
  <2>3. \A j \in 1..(i - 1) : e[j] = a[j]
    BY <1>5, <2>2
  <2>4. i \in 1..m /\ i <= n /\ e[i] # a[i] /\ e[i] # 92 /\ a[i] # 92
    BY <1>5, <2>2
  <2>5. t[m] # u[n]
    BY <1>3, <1>4, <1>5, <2>3, <2>4, DifferenceTells
  <2> QED
    BY <1>3, <1>4, <1>6, <2>5
<1>8. CASE D = {}
  <2>1. \A i \in 1..m : i <= n => e[i] = a[i]
    BY <1>8
  <2>2. m # n
    <3> SUFFICES ASSUME m = n PROVE FALSE
      OBVIOUS
    <3>1. \A i \in 1..m : e[i] = a[i]
      BY <1>5, <2>1
    <3> QED
      BY <1>1, <1>2, <3>1
  <2>3. CASE m < n
    <3>1. \A i \in 1..m : e[i] = a[i]
      BY <1>5, <2>1, <2>3
    <3>2. t[m] # u[n]
      BY <1>3, <1>4, <1>5, <2>3, <3>1, LongerTells
    <3> QED
      BY <1>3, <1>4, <1>6, <3>2
  <2>4. CASE n < m
    <3>1. \A i \in 1..n : a[i] = e[i]
      BY <1>5, <2>1, <2>4
    <3>2. u[n] # t[m]
      BY <1>3, <1>4, <1>5, <2>4, <3>1, LongerTells
    <3> QED
      BY <1>3, <1>4, <1>6, <3>2
  <2> QED
    BY <1>5, <2>2, <2>3, <2>4
<1> QED
  BY <1>7, <1>8

\* Two strings without a backslash that a string assertion fails on are not printed alike.
LEMMA StringsTell ==
    ASSUME NEW length \in Nat, NEW e \in Strings(length), NEW a \in Strings(length),
           NoBackslash(e), NoBackslash(a), StringFails(e, a, length)
    PROVE  PrintString(e, length) # PrintString(a, length)
<1> DEFINE q == <<39>>
<1>1. CASE e # Null /\ a # Null
  <2> DEFINE s == PrintText(e, length)
             t == PrintText(a, length)
  <2>1. s \in Seq(Int) /\ t \in Seq(Int) /\ s # t
    BY <1>1, StringFailsIff, TextsTell
  <2>2. PrintString(e, length) = q \o s \o q /\ PrintString(a, length) = q \o t \o q /\ q \in Seq(Int)
    BY <1>1 DEF PrintString
  <2> HIDE DEF s, t, q
  <2> QED
    BY <2>1, <2>2, Wrapped
<1>2. ASSUME NEW s \in Strings(length), s # Null PROVE PrintString(s, length)[1] = 39
  <2> DEFINE t == PrintText(s, length)
  <2>1. t \in Seq(Int)
    <3>1. PICK n \in 0..Len(s) : \E v : TextOf(v, s, n) /\ t = v[n]
      BY <1>2, TextPrinted
    <3>2. n \in 0..n
      BY <1>2 DEF Strings
    <3> QED
      BY <3>1, <3>2 DEF TextOf
  <2>2. PrintString(s, length) = q \o t \o q
    BY <1>2 DEF PrintString
  <2> HIDE DEF t
  <2>3. (q \o t \o q)[1] = 39
    BY <2>1
  <2> QED
    BY <2>2, <2>3
<1>3. PrintString(Null, length)[1] = 78
  BY DEF PrintString
<1>4. CASE e = Null \/ a = Null
  <2>1. e # a
    BY <1>4 DEF StringFails
  <2> QED
    BY <1>2, <1>3, <1>4, <2>1
<1> QED
  BY <1>1, <1>4

--------------------------------------------------------------------------------
(* The message. *)

\* What the message of a call shows, when the call fails on two values.
Apart(c) == Fails(c) /\ HasTwoTexts(c) => TellsApart(c)

LEMMA ScalarMessage ==
    ASSUME NEW op \in {"equal", "order", "within"}, NEW style \in Styles, NEW e \in Int,
           NEW a \in Int, NEW arg, Cast(style, e) # Cast(style, a)
    PROVE  TellsApart(Scalar(op, style, e, a, arg))
<1> DEFINE c == Scalar(op, style, e, a, arg)
           x == Cast(style, e)
           y == Cast(style, a)
<1>1. c.op = op /\ c.style = style /\ c.x[1][1] = x /\ c.y[1][1] = y
  BY ScalarParts DEF Scalar, Call
<1> HIDE DEF c, x, y
<1>2. Message(c) = <<PrintScalar(x, style), PrintScalar(y, style)>>
  BY <1>1 DEF Message
<1>3. PrintScalar(x, style) # PrintScalar(y, style)
  BY ScalarTells DEF x, y
<1>4. TellsApart(c)
  BY <1>2, <1>3 DEF TellsApart
<1> QED
  BY <1>4 DEF c

LEMMA EqualApart ==
    ASSUME NEW style \in Styles, NEW e \in Int, NEW a \in Int
    PROVE  Apart(AssertEqual(style, e, a))
<1> DEFINE c == AssertEqual(style, e, a)
<1>1. c.op = "equal" /\ c.x = <<<<Cast(style, e)>>>> /\ c.y = <<<<Cast(style, a)>>>>
  BY ScalarParts DEF AssertEqual
<1>2. Fails(c) => c.x # c.y
  BY <1>1 DEF Fails, Arrays
<1>3. Fails(c) => Cast(style, e) # Cast(style, a)
  BY <1>1, <1>2
<1> QED
  BY <1>3, ScalarMessage DEF Apart, AssertEqual

LEMMA OrderApart ==
    ASSUME NEW style \in Styles, NEW cmp \in Comparisons, NEW t \in Int, NEW a \in Int
    PROVE  Apart(AssertOrder(style, cmp, t, a))
<1> DEFINE c == AssertOrder(style, cmp, t, a)
<1>1. c.op = "order" /\ c.x = <<<<Cast(style, t)>>>> /\ c.y = <<<<Cast(style, a)>>>>
  BY ScalarParts DEF AssertOrder
<1>2. CASE Cast(style, t) = Cast(style, a)
  <2>1. c.x = c.y
    BY <1>1, <1>2
  <2> QED
    BY <1>1, <2>1 DEF Apart, TellsApart
<1>3. CASE Cast(style, t) # Cast(style, a)
  BY <1>3, ScalarMessage DEF Apart, AssertOrder
<1> QED
  BY <1>2, <1>3

\* What is within no distance of itself has a negative delta.
LEMMA WithinItself ==
    ASSUME NEW x \in Int, NEW delta \in Nat
    PROVE  ~WithinFails(x, x, delta)
<1>1. x - x = 0 /\ ~(x > x)
  OBVIOUS
<1>2. ToUnsigned(0, WideBytes) = 0
  BY WideSpace, RemainderOfSmall DEF ToUnsigned
<1>3. ~(0 > delta)
  OBVIOUS
<1> QED
  BY <1>1, <1>2, <1>3 DEF WithinFails

LEMMA WithinApart ==
    ASSUME NEW style \in Styles, NEW delta \in Int, NEW e \in Int, NEW a \in Int
    PROVE  Apart(AssertWithin(style, delta, e, a))
<1> DEFINE c == AssertWithin(style, delta, e, a)
           x == Cast(style, e)
           y == Cast(style, a)
           d == ToUnsigned(delta, style.cast)
<1>1. c.op = "within" /\ c.arg = d /\ c.x[1][1] = x /\ c.y[1][1] = y
  BY ScalarParts DEF AssertWithin
<1>2. x \in Int /\ d \in Nat
  <2>1. x \in Int
    BY CastSizes
  <2>2. d \in Nat
    BY StyleSizes, Conversions
  <2> QED
    BY <2>1, <2>2
<1>3. Fails(c) = WithinFails(x, y, d)
  <2> HIDE DEF c, x, y, d
  <2> QED
    BY <1>1 DEF Fails, Arrays
<1>4. Fails(c) => x # y
  <2> HIDE DEF c, x, y, d
  <2> QED
    BY <1>2, <1>3, WithinItself
<1> QED
  BY <1>4, ScalarMessage DEF Apart, AssertWithin

LEMMA BitsApart ==
    ASSUME NEW mask \in Int, NEW e \in Int, NEW a \in Int
    PROVE  Apart(AssertBits(mask, e, a))
<1> DEFINE c == AssertBits(mask, e, a)
           x == Cast(WidestStyle, e)
           y == Cast(WidestStyle, a)
<1>1. c.op = "bits" /\ c.arg = mask /\ c.x[1][1] = x /\ c.y[1][1] = y
  BY ScalarParts DEF AssertBits
<1>2. WidestStyle \in Styles
  BY WideSpace DEF WidestStyle, Styles
<1>3. x \in Int /\ y \in Int
  BY <1>2, CastSizes
<1> HIDE DEF c, x, y
<1>4. Fails(c) = BitsFail(mask, x, y)
  BY <1>1 DEF Fails, Arrays
<1>5. Message(c) = <<PrintMask(mask, x), PrintMask(mask, y)>>
  BY <1>1 DEF Message
<1>6. ToUnsigned(mask, WideBytes) \in Int /\ Space(IntBytes) \in Int
  BY WideSpace, Conversions, SpaceSizes, UnitySizes
<1>7. CASE ToUnsigned(mask, WideBytes) >= Space(IntBytes)
  BY <1>1, <1>7 DEF Apart, TellsApart, c
<1>8. CASE ToUnsigned(mask, WideBytes) < Space(IntBytes)
  <2>1. Fails(c) => PrintMask(mask, x) # PrintMask(mask, y)
    BY <1>3, <1>4, <1>8, MaskTells
  <2>2. Apart(c)
    BY <1>5, <2>1 DEF Apart, TellsApart
  <2> QED
    BY <2>2 DEF c
<1> QED
  BY <1>6, <1>7, <1>8

--------------------------------------------------------------------------------

\* An assertion on arrays shows the first two elements that it fails on.
LEMMA FirstFault ==
    ASSUME NEW c, c.op \in Arrays, c.n \in Nat, Fails(c), HasTwoTexts(c)
    PROVE  /\ c.x # Null /\ c.y # Null
           /\ Least(Faults(c)) \in 1..c.n
           /\ ElementFails(c, Expected(c, Least(Faults(c))), c.y[Least(Faults(c))])
<1>1. ~NothingToCompare(c) /\ ~OneArrayNull(c)
  BY DEF HasTwoTexts, Arrays
<1>2. Faults(c) # {}
  BY <1>1 DEF Fails, Arrays
<1>3. c.x # Null /\ c.y # Null /\ Faults(c) = {k \in 1..c.n : ElementFails(c, Expected(c, k), c.y[k])}
  BY <1>2 DEF Faults
<1>4. Faults(c) \in SUBSET Nat
  BY <1>3
<1>5. Least(Faults(c)) \in Faults(c)
  BY <1>2, <1>4, LeastIsLeast
<1> QED
  BY <1>3, <1>5

LEMMA LoadedMessage ==
    ASSUME NEW c, c.op \in {"array", "array_within"}, c.style \in Styles,
           NEW e, NEW a, e = Expected(c, Least(Faults(c))), a = c.y[Least(Faults(c))],
           e[1] \in Int, a[1] \in Int, Load(c.style, e[1]) # Load(c.style, a[1])
    PROVE  TellsApart(c)
<1>1. Message(c) = <<PrintIntByStyle(Load(c.style, e[1]), c.style),
                     PrintIntByStyle(Load(c.style, a[1]), c.style)>>
  BY DEF Message
<1>2. PrintIntByStyle(Load(c.style, e[1]), c.style) # PrintIntByStyle(Load(c.style, a[1]), c.style)
  BY LoadTells
<1> QED
  BY <1>1, <1>2 DEF TellsApart

LEMMA ArrayApart ==
    ASSUME NEW style \in Styles, NEW n \in Nat, NEW each \in BOOLEAN,
           NEW x \in ArraysOf(Numbers, ElementCount(n, each)), NEW y \in ArraysOf(Numbers, n)
    PROVE  Apart(Call("array", style, x, y, n, 0, each))
<1> DEFINE c == Call("array", style, x, y, n, 0, each)
<1>1. /\ c.op = "array" /\ c.style = style /\ c.x = x /\ c.y = y
      /\ c.n = n /\ c.each = each
  BY CallParts
<1> HIDE DEF c
<1>2. ASSUME Fails(c), HasTwoTexts(c) PROVE TellsApart(c)
  <2> DEFINE k == Least(Faults(c))
             e == Expected(c, k)
             a == y[k]
  <2>1. x # Null /\ y # Null /\ k \in 1..n /\ ElementFails(c, e, a)
    BY <1>1, <1>2, FirstFault DEF Arrays
  <2>2. e \in Numbers /\ a \in Numbers
    BY <1>1, <2>1, ExpectedElement, ElementOfArray
  <2>3. e[1] \in Int /\ a[1] \in Int
    BY <2>2 DEF Numbers
  <2>4. Load(style, e[1]) # Load(style, a[1])
    <3> HIDE DEF e, a
    <3> QED
      BY <1>1, <2>1 DEF ElementFails
  <2> QED
    BY <1>1, <2>3, <2>4, LoadedMessage
<1>3. Apart(c)
  BY <1>2 DEF Apart
<1> QED
  BY <1>3 DEF c

LEMMA ArrayWithinApart ==
    ASSUME NEW style \in Styles, NEW delta \in Int, NEW n \in Nat,
           NEW x \in ArraysOf(Numbers, n), NEW y \in ArraysOf(Numbers, n)
    PROVE  Apart(AssertArrayWithin(style, delta, x, y, n))
<1> DEFINE c == AssertArrayWithin(style, delta, x, y, n)
           d == ToUnsigned(delta, style.cast)
<1>1. /\ c.op = "array_within" /\ c.style = style /\ c.x = x /\ c.y = y
      /\ c.n = n /\ c.arg = d /\ c.each = FALSE
  BY DEF AssertArrayWithin, Call
<1>2. d \in Nat
  BY StyleSizes, Conversions
<1> HIDE DEF c, d
<1>3. ASSUME Fails(c), HasTwoTexts(c) PROVE TellsApart(c)
  <2> DEFINE k == Least(Faults(c))
             e == Expected(c, k)
             a == y[k]
  <2>1. x # Null /\ y # Null /\ k \in 1..n /\ ElementFails(c, e, a)
    BY <1>1, <1>3, FirstFault DEF Arrays
  <2>2. e \in Numbers /\ a \in Numbers
    BY <1>1, <2>1, ExpectedElement, ElementOfArray DEF ElementCount
  <2>3. e[1] \in Int /\ a[1] \in Int
    BY <2>2 DEF Numbers
  <2>4. Load(style, e[1]) # Load(style, a[1])
    <3> DEFINE u == e[1]
               v == a[1]
               asRead(z) == IF Signed(style) THEN Load(style, z) ELSE ToUnsigned(z, style.bytes)
    <3>1. ArrayWithinFails(style, u, v, d)
      <4> HIDE DEF e, a
      <4> QED
        BY <1>1, <2>1 DEF ElementFails
    <3>2. u \in Int /\ v \in Int
      BY <2>3
    <3> HIDE DEF u, v
    <3>3. WithinFails(asRead(u), asRead(v), d)
      BY <3>1 DEF ArrayWithinFails
    <3>4. style.bytes \in 1..WideBytes
      BY StyleSizes
    <3>5. Load(style, u) = Load(style, v) => asRead(u) = asRead(v)
      BY <3>2, <3>4, LoadSame, SameConverted
    <3>6. asRead(u) \in Int
      BY <3>2, <3>4, Conversions DEF Load
    <3>7. asRead(u) # asRead(v)
      <4> HIDE DEF asRead
      <4> QED
        BY <1>2, <3>3, <3>6, WithinItself
    <3> QED
      BY <3>5, <3>7 DEF u, v
  <2> QED
    BY <1>1, <2>3, <2>4, LoadedMessage
<1>4. Apart(c)
  BY <1>3 DEF Apart
<1> QED
  BY <1>4 DEF c

LEMMA NoBackslashes ==
    ASSUME NEW S, NEW x \in Seq(S), NEW y \in Seq(S), ~HasBackslash(x \o y),
           NEW k \in Nat, k > 0, k <= Len(x), k <= Len(y)
    PROVE  NoBackslash(x[k]) /\ NoBackslash(y[k])
<1> DEFINE z == x \o y
<1>1. Len(x) \in Nat /\ Len(y) \in Nat
  OBVIOUS
<1>2. /\ z \in Seq(S) /\ Len(z) = Len(x) + Len(y)
      /\ \A i \in 1..(Len(x) + Len(y)) : z[i] = IF i <= Len(x) THEN x[i] ELSE y[i - Len(x)]
  OBVIOUS
<1>3. \A i \in DOMAIN z : NoBackslash(z[i])
  BY DEF HasBackslash, NoBackslash
<1> HIDE DEF z
<1>4. k \in 1..(Len(x) + Len(y)) /\ z[k] = x[k]
  BY <1>1, <1>2
<1> DEFINE j == Len(x) + k
<1>5. j \in 1..(Len(x) + Len(y)) /\ ~(j <= Len(x)) /\ j - Len(x) = k
  BY <1>1
<1> HIDE DEF j
<1>6. z[j] = y[k]
  BY <1>2, <1>5
<1>7. DOMAIN z = 1..(Len(x) + Len(y))
  BY <1>2
<1> QED
  BY <1>3, <1>4, <1>5, <1>6, <1>7

LEMMA StringsApart ==
    ASSUME NEW n \in Nat, NEW length \in Nat,
           NEW x \in ArraysOf(Strings(length), n), NEW y \in ArraysOf(Strings(length), n)
    PROVE  Apart(AssertStrings(x, y, n, length))
<1> DEFINE c == AssertStrings(x, y, n, length)
<1>1. /\ c.op = "string" /\ c.x = x /\ c.y = y /\ c.n = n /\ c.arg = length /\ c.each = FALSE
  BY DEF AssertStrings, Call
<1> HIDE DEF c
<1>2. ASSUME Fails(c), HasTwoTexts(c), ~HasBackslash(x \o y) PROVE TellsApart(c)
  <2> DEFINE k == Least(Faults(c))
             e == Expected(c, k)
             a == y[k]
  <2>1. x # Null /\ y # Null /\ k \in 1..n /\ ElementFails(c, e, a)
    BY <1>1, <1>2, FirstFault DEF Arrays
  <2>2. e \in Strings(length) /\ a \in Strings(length)
    BY <1>1, <2>1, ExpectedElement, ElementOfArray DEF ElementCount
  <2>3. NoBackslash(e) /\ NoBackslash(a)
    <3> DEFINE S == Strings(length)
    <3>1. x \in Seq(S) /\ Len(x) >= n /\ y \in Seq(S) /\ Len(y) >= n
      BY <2>1 DEF ArraysOf
    <3>2. Len(x) \in Nat /\ Len(y) \in Nat
      BY <3>1
    <3>3. k \in Nat /\ k > 0 /\ k <= Len(x) /\ k <= Len(y) /\ e = x[k]
      BY <1>1, <2>1, <3>1, <3>2 DEF Expected
    <3> HIDE DEF S, k, e
    <3> QED
      BY <1>2, <3>1, <3>3, NoBackslashes
  <2>4. StringFails(e, a, length)
    <3> HIDE DEF e, a
    <3> QED
      BY <1>1, <2>1 DEF ElementFails
  <2>5. Message(c) = <<PrintString(e, length), PrintString(a, length)>>
    BY <1>1 DEF Message
  <2>6. PrintString(e, length) # PrintString(a, length)
    <3> HIDE DEF e, a
    <3> QED
      BY <2>2, <2>3, <2>4, StringsTell
  <2> QED
    BY <2>5, <2>6 DEF TellsApart
<1>3. HasBackslash(x \o y) => TellsApart(c)
  BY <1>1 DEF TellsApart
<1>4. Apart(c)
  BY <1>2, <1>3 DEF Apart
<1> QED
  BY <1>4 DEF c

LEMMA MemoryApart ==
    ASSUME NEW n \in Nat, NEW length \in Nat, NEW each \in BOOLEAN,
           NEW x \in ArraysOf(Blocks(length), ElementCount(n, each)),
           NEW y \in ArraysOf(Blocks(length), n)
    PROVE  Apart(AssertMemory(x, y, n, length, each))
<1> DEFINE c == AssertMemory(x, y, n, length, each)
<1>1. /\ c.op = "memory" /\ c.x = x /\ c.y = y /\ c.n = n /\ c.arg = length /\ c.each = each
  BY CallParts DEF AssertMemory
<1> HIDE DEF c
<1>2. ASSUME Fails(c), HasTwoTexts(c) PROVE TellsApart(c)
  <2> DEFINE k == Least(Faults(c))
             e == Expected(c, k)
             a == y[k]
             D == {j \in 1..length : e[j] # a[j]}
             i == Least(D)
  <2>1. x # Null /\ y # Null /\ k \in 1..n /\ ElementFails(c, e, a)
    BY <1>1, <1>2, FirstFault DEF Arrays
  <2>2. e \in Blocks(length) /\ a \in Blocks(length)
    BY <1>1, <2>1, ExpectedElement, ElementOfArray
  <2>3. Message(c) = <<PrintIntByStyle(e[i], ByteStyle), PrintIntByStyle(a[i], ByteStyle)>>
    BY <1>1 DEF Message
  <2>4. MemoryFails(e, a, length)
    <3> HIDE DEF e, a
    <3> QED
      BY <1>1, <2>1 DEF ElementFails
  <2> HIDE DEF e, a, k
  <2>5. D \in SUBSET Nat /\ D # {}
    BY <2>4 DEF MemoryFails
  <2>6. i \in D
    <3> HIDE DEF D
    <3> QED
      BY <2>5, LeastIsLeast
  <2>7. e[i] # a[i] /\ e[i] \in Byte /\ a[i] \in Byte
    <3> HIDE DEF i
    <3>1. i \in 1..length /\ e[i] # a[i]
      BY <2>6
    <3>2. e \in Seq(Byte) /\ Len(e) >= length /\ a \in Seq(Byte) /\ Len(a) >= length
      BY <2>2 DEF Blocks
    <3>3. i \in 1..Len(e) /\ i \in 1..Len(a)
      BY <3>1, <3>2
    <3> QED
      BY <3>1, <3>2, <3>3
  <2> HIDE DEF i
  <2> QED
    BY <2>3, <2>7, BytesTell DEF TellsApart
<1>3. Apart(c)
  BY <1>2 DEF Apart
<1> QED
  BY <1>3 DEF c

LEMMA EveryMessage ==
    ASSUME NEW c \in Assertions
    PROVE  Apart(c)
<1>1. Apart(TestFail) /\ Apart(TestIgnore)
  BY DEF Apart, HasTwoTexts, Arrays, TestFail, TestIgnore, Call
<1>2. ASSUME NEW s \in Styles, NEW n \in Nat,
             NEW x \in ArraysOf(Numbers, n), NEW y \in ArraysOf(Numbers, n)
      PROVE  Apart(AssertArray(s, x, y, n))
  <2>1. x \in ArraysOf(Numbers, ElementCount(n, FALSE))
    BY DEF ElementCount
  <2> QED
    BY <2>1, ArrayApart DEF AssertArray
<1>3. ASSUME NEW s \in Styles, NEW n \in Nat, NEW e \in Int, NEW y \in ArraysOf(Numbers, n)
      PROVE  Apart(AssertEach(s, e, y, n))
  <2>1. <<<<Cast(s, e)>>>> \in ArraysOf(Numbers, ElementCount(n, TRUE))
    BY CastSizes DEF ArraysOf, Numbers, ElementCount
  <2> QED
    BY <2>1, ArrayApart DEF AssertEach
<1>4. CASE c \in {TestFail, TestIgnore}
  BY <1>1, <1>4
<1>5. CASE c \in Equals
  BY <1>5, EqualApart DEF Equals
<1>6. CASE c \in Orders
  BY <1>6, OrderApart DEF Orders
<1>7. CASE c \in Withins
  BY <1>7, WithinApart DEF Withins
<1>8. CASE c \in BitTests
  BY <1>8, BitsApart DEF BitTests
<1>9. CASE c \in ArrayTests
  BY <1>2, <1>9 DEF ArrayTests
<1>10. CASE c \in EachTests
  BY <1>3, <1>10 DEF EachTests
<1>11. CASE c \in ArrayWithins
  BY <1>11, ArrayWithinApart DEF ArrayWithins
<1>12. CASE c \in StringTests
  BY <1>12, StringsApart DEF StringTests
<1>13. CASE c \in MemoryTests
  BY <1>13, MemoryApart DEF MemoryTests
<1> QED
  BY <1>4, <1>5, <1>6, <1>7, <1>8, <1>9, <1>10, <1>11, <1>12, <1>13 DEF Assertions

--------------------------------------------------------------------------------

\* What is reported is a call that failed.
ReportInv == failing = TestIgnore \/ (failing \in Assertions /\ Fails(failing))

LEMMA ReportNext ==
    ASSUME VerdictInv, ReportInv, [UnityNext]_unityVars
    PROVE  ReportInv'
<1>1. CASE Assert
  <2>1. CASE Unity.failed \/ Unity.ignored
    BY <1>1, <2>1 DEF Assert, ReportInv
  <2>2. CASE ~(Unity.failed \/ Unity.ignored)
    <3> DEFINE c == Head(todo)
    <3>1. todo \in Seq(Assertions) /\ todo # <<>>
      BY <1>1 DEF Assert, VerdictInv
    <3>2. c \in Assertions
      BY <3>1
    <3>3. failing' = IF Fails(c) THEN c ELSE failing
      BY <1>1, <2>2 DEF Assert
    <3> HIDE DEF c
    <3> QED
      BY <3>2, <3>3 DEF ReportInv
  <2> QED
    BY <2>1, <2>2
<1>2. CASE failing' = failing
  BY <1>2 DEF ReportInv
<1>3. CASE failing' = TestIgnore
  BY <1>3 DEF ReportInv
<1> QED
  BY <1>1, <1>2, <1>3 DEF UnityNext, unityVars, UnityBegin, UnityDefaultTestRun, TearDown,
                          UnityConcludeTest, UnityEnd

\* What a failure prints is told apart, for any tests written with the assertions, for every
\* number of every size and style, array, string and block, but for the equal numbers of an
\* order, bits past those of an int, and backslashes in strings.
THEOREM MessagesTellApart ==
    ASSUME WrittenTests
    PROVE  UnitySpec => []MessageTellsApart
<1>1. UnityInit => VerdictInv /\ ReportInv
  <2>1. UnityInit => VerdictInv
    BY CountOfNothing, UnityConstants DEF UnityInit, VerdictInv, UnityType, Verdicts
  <2>2. UnityInit => ReportInv
    BY DEF UnityInit, ReportInv
  <2> QED
    BY <2>1, <2>2
<1>2. VerdictInv /\ ReportInv /\ [UnityNext]_unityVars => VerdictInv' /\ ReportInv'
  BY VerdictNext, ReportNext
<1>3. ReportInv => MessageTellsApart
  <2> SUFFICES ASSUME ReportInv, HasTwoTexts(failing) PROVE TellsApart(failing)
    BY DEF MessageTellsApart
  <2>1. failing # TestIgnore
    BY DEF HasTwoTexts, Arrays, TestIgnore, Call
  <2> QED
    BY <2>1, EveryMessage DEF ReportInv, Apart
<1> QED
  BY <1>1, <1>2, <1>3, PTL DEF UnitySpec

--------------------------------------------------------------------------------
(* The payload's test. *)

\* The calls the test makes for a payload.
CallsOf(p) == {AssertEqual(Uint8Style, p.node_id, p.node_id),
               AssertEqual(Int16Style, p.temperature, p.temperature),
               AssertEqual(Uint8Style, p.battery_level, p.battery_level)}

\* While the test of a payload runs no flag is set, and what it has still to call is among
\* its calls; between two tests no flag is set, whatever the one before did.
PayloadInv ==
    /\ {"failed", "ignored"} \subseteq DOMAIN Unity
    /\ phase \in {"begin", "main"} => ~Unity.failed /\ ~Unity.ignored
    /\ phase \in {"body", "teardown"} =>
           \A p \in Payloads : test = SerializationTest(p) =>
               ~Unity.failed /\ ~Unity.ignored /\ todo \in Seq(CallsOf(p))

LEMMA EqualPasses ==
    ASSUME NEW style, NEW v
    PROVE  ~Fails(AssertEqual(style, v, v)) /\ AssertEqual(style, v, v).op = "equal"
<1> DEFINE c == AssertEqual(style, v, v)
<1>1. c.op = "equal" /\ c.x = c.y
  BY DEF AssertEqual, Scalar, Call
<1> HIDE DEF c
<1>2. ~Fails(c)
  BY <1>1 DEF Fails, Arrays
<1>3. QED
  BY <1>1, <1>2 DEF c

LEMMA CallsPass ==
    ASSUME NEW p, NEW c \in CallsOf(p)
    PROVE  ~Fails(c) /\ c.op # "ignore"
<1>1. QED
  BY EqualPasses DEF CallsOf

LEMMA TestCalls ==
    ASSUME NEW p \in Payloads
    PROVE  /\ SerializationTest(p).body \in Seq(CallsOf(p))
           /\ SerializationTest(p).teardown = <<>>
<1>1. p \in SensorPayload
  BY UnitTestConstants
<1>2. SerializationTest(p) =
          [body |-> <<AssertEqual(Uint8Style, p.node_id, p.node_id),
                      AssertEqual(Int16Style, p.temperature, p.temperature),
                      AssertEqual(Uint8Style, p.battery_level, p.battery_level)>>,
           teardown |-> <<>>]
  BY <1>1, PayloadRoundTrip DEF SerializationTest
<1>3. QED
  BY <1>2 DEF CallsOf

\* The payload's test is written with the assertions, as VerdictsAreExact asks.
LEMMA PayloadTestIsWritten ==
    ASSUME NEW p \in Payloads
    PROVE  SerializationTest(p) \in [body : Seq(Assertions), teardown : Seq(Assertions)]
<1>1. Uint8Style \in Styles /\ Int16Style \in Styles
  BY UnitySizes DEF Uint8Style, Int16Style, Styles
<1>2. p \in SensorPayload
  BY UnitTestConstants
<1>3. Deserialize(Serialize(p)) = p
  BY <1>2, PayloadRoundTrip
<1>4. p.node_id \in Int /\ p.temperature \in Int /\ p.battery_level \in Int
  BY <1>2 DEF SensorPayload, Byte, S16
<1>5. CallsOf(p) \subseteq Assertions
  BY <1>1, <1>4 DEF CallsOf, Equals, Assertions
<1>6. SerializationTest(p).body \in Seq(Assertions)
  BY <1>5, TestCalls
<1> QED
  BY <1>6 DEF SerializationTest

LEMMA PayloadInit == UnityInit => PayloadInv
<1>1. QED
  BY DEF UnityInit, PayloadInv

LEMMA AssertStep ==
    ASSUME PayloadInv, Assert
    PROVE  PayloadInv'
<1>1. phase \in {"body", "teardown"} /\ todo # <<>> /\ UNCHANGED <<phase, test>>
  BY DEF Assert
<1>2. {"failed", "ignored"} \subseteq DOMAIN Unity'
  BY DEF Assert, PayloadInv
<1>3. ASSUME NEW p \in Payloads, test' = SerializationTest(p)
      PROVE  ~Unity'.failed /\ ~Unity'.ignored /\ todo' \in Seq(CallsOf(p))
  <2>1. ~Unity.failed /\ ~Unity.ignored /\ todo \in Seq(CallsOf(p))
    BY <1>1, <1>3 DEF PayloadInv
  <2>2. Head(todo) \in CallsOf(p) /\ Tail(todo) \in Seq(CallsOf(p))
    BY <1>1, <2>1
  <2>3. ~Fails(Head(todo)) /\ Head(todo).op # "ignore"
    BY <2>2, CallsPass
  <2>4. Unity' = [Unity EXCEPT !.failed = Fails(Head(todo)),
                               !.ignored = (Head(todo).op = "ignore")]
    BY <2>1 DEF Assert
  <2>5. ~Unity'.failed /\ ~Unity'.ignored
    BY <2>3, <2>4 DEF PayloadInv
  <2>6. todo' \in Seq(CallsOf(p))
    BY <2>1, <2>2, <2>5 DEF Assert
  <2>7. QED
    BY <2>5, <2>6
<1>4. QED
  BY <1>1, <1>2, <1>3 DEF PayloadInv

LEMMA PayloadStep ==
    ASSUME PayloadInv, [UnityNext]_unityVars
    PROVE  PayloadInv'
<1>1. CASE UnityBegin
  BY <1>1 DEF UnityBegin, PayloadInv
<1>2. CASE UnityDefaultTestRun
  <2>1. /\ UNCHANGED <<Unity.failed, Unity.ignored>> /\ ~Unity.failed /\ ~Unity.ignored
        /\ {"failed", "ignored"} \subseteq DOMAIN Unity'
        /\ phase' = "body" /\ todo' = test'.body
    BY <1>2 DEF UnityDefaultTestRun, PayloadInv
  <2>2. QED
    BY <2>1, TestCalls DEF PayloadInv
<1>3. CASE Assert
  BY <1>3, AssertStep
<1>4. CASE TearDown
  <2>1. phase = "body" /\ phase' = "teardown" /\ todo' = test.teardown /\ UNCHANGED <<Unity, test>>
    BY <1>4 DEF TearDown
  <2>2. ASSUME NEW p \in Payloads, test' = SerializationTest(p)
        PROVE  ~Unity'.failed /\ ~Unity'.ignored /\ todo' \in Seq(CallsOf(p))
    <3>1. todo' = <<>>
      BY <2>1, <2>2, TestCalls
    <3>2. ~Unity.failed /\ ~Unity.ignored
      BY <2>1, <2>2 DEF PayloadInv
    <3>3. QED
      BY <2>1, <3>1, <3>2
  <2>3. QED
    BY <2>1, <2>2 DEF PayloadInv
<1>5. CASE UnityConcludeTest
  BY <1>5 DEF UnityConcludeTest, PayloadInv
<1>6. CASE UnityEnd
  BY <1>6 DEF UnityEnd, PayloadInv
<1>7. CASE UNCHANGED unityVars
  BY <1>7 DEF unityVars, PayloadInv
<1>8. QED
  BY <1>1, <1>2, <1>3, <1>4, <1>5, <1>6, <1>7 DEF UnityNext

\* The payload's test passes for every payload there is, wherever it stands among other
\* tests, those that fail or are ignored too, and for every size of an int.
THEOREM PayloadTestPasses == UnitySpec => []PayloadComesBack
<1>1. PayloadInv => PayloadComesBack
  BY DEF PayloadInv, PayloadComesBack
<1>2. QED
  BY <1>1, PayloadInit, PayloadStep, PTL DEF UnitySpec
================================================================================
