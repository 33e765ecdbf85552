--------------------------- MODULE InstallCodeProofs ---------------------------
(***************************************************************************)
(* Proofs about an Install Code on its way from the sensor to both stacks: *)
(* what the checksum catches, what the printed lines stand for, and what   *)
(* the stacks hold when the operator copies well and when he slips.        *)
(***************************************************************************)
EXTENDS InstallCode, SequenceTheorems, WellFoundedInduction, TLAPS

--------------------------------------------------------------------------------
(* Arrays of a given length. *)

\* An array is a function on its indices.
LEMMA StringIsFunction ==
    ASSUME NEW S, NEW n \in Nat
    PROVE  Strings(S, n) = [1..n -> S]
<1>1. ASSUME NEW s \in Strings(S, n) PROVE s \in [1..n -> S]
  BY DEF Strings
<1>2. ASSUME NEW s \in [1..n -> S] PROVE s \in Strings(S, n)
  BY DEF Strings
<1> QED
  BY <1>1, <1>2

\* The elements of an array.
LEMMA StringAt ==
    ASSUME NEW S, NEW n \in Nat, NEW s \in Strings(S, n)
    PROVE  s \in [1..n -> S] /\ \A i \in 1..n : s[i] \in S
  BY StringIsFunction

\* An array of elements of S is one of elements of any larger set.
LEMMA StringMonotone ==
    ASSUME NEW S, NEW T, S \subseteq T, NEW n \in Nat
    PROVE  Strings(S, n) \subseteq Strings(T, n)
  BY StringIsFunction

\* Two arrays with the same elements are the same.
LEMMA StringEqual ==
    ASSUME NEW S, NEW n \in Nat, NEW s \in Strings(S, n), NEW t \in Strings(S, n),
           \A i \in 1..n : s[i] = t[i]
    PROVE  s = t
  BY StringIsFunction

\* One array of bytes after another.
LEMMA Joined ==
    ASSUME NEW m \in Nat, NEW n \in Nat,
           NEW s \in Strings(Byte, m), NEW t \in Strings(Byte, n)
    PROVE  /\ s \o t \in Strings(Byte, m + n)
           /\ \A i \in 1..m : (s \o t)[i] = s[i]
           /\ \A i \in 1..n : (s \o t)[m + i] = t[i]
<1>1. s \in Seq(Byte) /\ Len(s) = m /\ t \in Seq(Byte) /\ Len(t) = n
  BY DEF Strings
<1>2. s \o t \in Seq(Byte) /\ Len(s \o t) = m + n
  BY <1>1
<1>3. ASSUME NEW i \in 1..m PROVE (s \o t)[i] = s[i]
  BY <1>1
<1>4. ASSUME NEW i \in 1..n PROVE (s \o t)[m + i] = t[i]
  BY <1>1
<1> QED
  BY <1>2, <1>3, <1>4 DEF Strings

--------------------------------------------------------------------------------
(* Words of bits, and their shifts. *)

\* A bit of an exclusive or.
LEMMA XorBit ==
    ASSUME NEW v \in Word, NEW w \in Word
    PROVE  /\ SymDiff(v, w) \in Word
           /\ \A b : b \in SymDiff(v, w) <=> (b \in v <=> b \notin w)
  BY DEF SymDiff, Word

\* Two words with the same bits are the same.
LEMMA SameBits ==
    ASSUME NEW v \in Word, NEW w \in Word, \A b \in 0..15 : b \in v <=> b \in w
    PROVE  v = w
  BY DEF Word

\* The bits of a word after a shift.
LEMMA ShiftBit ==
    ASSUME NEW w \in Word
    PROVE  /\ Shift(w) \in Word
           /\ \A b \in 0..15 :
                b \in Shift(w) <=> (b + 1 \in w <=> ~(0 \in w /\ b \in {3, 10, 15}))
<1> DEFINE r == Right(w, 1)
<1>1. r \in Word /\ \A b \in 0..15 : b \in r <=> b + 1 \in w
  <2>1. \A b \in r : b \in 0..15
    BY DEF Right, Word
  <2>2. ASSUME NEW b \in 0..15 PROVE b \in r <=> b + 1 \in w
    BY DEF Right, Word
  <2> QED
    BY <2>1, <2>2 DEF Word
<1> HIDE DEF r
<1>2. {3, 10, 15} \in Word
  BY DEF Word
<1>3. CASE 0 \in w
  <2>1. Shift(w) = SymDiff(r, {3, 10, 15})
    BY <1>3 DEF Shift, r
  <2> QED
    BY <1>1, <1>2, <1>3, <2>1, XorBit
<1>4. CASE 0 \notin w
  <2>1. Shift(w) = r
    BY <1>4 DEF Shift, r
  <2> QED
    BY <1>1, <1>4, <2>1
<1> QED
  BY <1>3, <1>4

\* No two words are shifted to the same: bit 15 says whether 0x8408 was added.
LEMMA ShiftInjective ==
    ASSUME NEW v \in Word, NEW w \in Word, Shift(v) = Shift(w)
    PROVE  v = w
<1>1. 0 \in v <=> 0 \in w
  <2>1. 16 \notin v /\ 16 \notin w
    BY DEF Word
  <2>2. 15 \in Shift(v) <=> (16 \in v <=> ~(0 \in v))
    BY ShiftBit
  <2>3. 15 \in Shift(w) <=> (16 \in w <=> ~(0 \in w))
    BY ShiftBit
  <2> QED
    BY <2>1, <2>2, <2>3
<1>2. ASSUME NEW b \in 1..15 PROVE b \in v <=> b \in w
  <2>1. b - 1 \in 0..15 /\ (b - 1) + 1 = b
    OBVIOUS
  <2>2. b - 1 \in Shift(v) <=> (b \in v <=> ~(0 \in v /\ b - 1 \in {3, 10, 15}))
    BY <2>1, ShiftBit
  <2>3. b - 1 \in Shift(w) <=> (b \in w <=> ~(0 \in w /\ b - 1 \in {3, 10, 15}))
    BY <2>1, ShiftBit
  <2> QED
    BY <1>1, <2>2, <2>3
<1>3. \A b \in 0..15 : b \in v <=> b \in w
  BY <1>1, <1>2
<1> QED
  BY <1>3, SameBits

\* A shift is linear.
LEMMA ShiftLinear ==
    ASSUME NEW v \in Word, NEW w \in Word
    PROVE  Shift(SymDiff(v, w)) = SymDiff(Shift(v), Shift(w))
<1> DEFINE x == SymDiff(v, w)
           y == SymDiff(Shift(v), Shift(w))
<1>1. x \in Word /\ \A b : b \in x <=> (b \in v <=> b \notin w)
  BY XorBit
<1>2. Shift(v) \in Word /\ Shift(w) \in Word
  BY ShiftBit
<1>3. y \in Word /\ \A b : b \in y <=> (b \in Shift(v) <=> b \notin Shift(w))
  BY <1>2, XorBit
<1> HIDE DEF x, y
<1>4. ASSUME NEW b \in 0..15 PROVE b \in Shift(x) <=> b \in y
  <2>1. b \in Shift(v) <=> (b + 1 \in v <=> ~(0 \in v /\ b \in {3, 10, 15}))
    BY ShiftBit
  <2>2. b \in Shift(w) <=> (b + 1 \in w <=> ~(0 \in w /\ b \in {3, 10, 15}))
    BY ShiftBit
  <2>3. b \in Shift(x) <=> (b + 1 \in x <=> ~(0 \in x /\ b \in {3, 10, 15}))
    BY <1>1, ShiftBit
  <2> QED
    BY <1>1, <1>3, <2>1, <2>2, <2>3
<1>5. Shift(x) = y
  BY <1>1, <1>3, <1>4, ShiftBit, SameBits
<1> QED
  BY <1>5 DEF x, y

\* Eight zeros are shifted out of a high byte one by one.
LEMMA ShiftLeftByte ==
    ASSUME NEW d \in Byte, NEW n \in 1..8
    PROVE  Left(d, n) \in Word /\ Shift(Left(d, n)) = Left(d, n - 1)
<1>1. Left(d, n) \in Word /\ 0 \notin Left(d, n)
  BY DEF Left, Word, Byte
<1>2. Right(Left(d, n), 1) = Left(d, n - 1)
  <2>1. \A b \in Left(d, n) : b >= 1
    BY DEF Left, Byte
  <2>2. Right(Left(d, n), 1) = {b - 1 : b \in Left(d, n)}
    BY <2>1 DEF Right
  <2>3. ASSUME NEW b PROVE b \in {c - 1 : c \in Left(d, n)} <=> b \in Left(d, n - 1)
    <3>1. ASSUME NEW c \in d PROVE (c + n) - 1 = c + (n - 1)
      BY DEF Byte
    <3> QED
      BY <3>1 DEF Left
  <2> QED
    BY <2>2, <2>3
<1> QED
  BY <1>1, <1>2 DEF Shift

--------------------------------------------------------------------------------
(* Loops: the least number principle makes up for an induction. *)

\* A set of numbers that is not empty has a least one: < is well founded.
LEMMA LeastExists ==
    ASSUME NEW T \in SUBSET Nat, T # {}
    PROVE  \E x \in T : \A y \in T : x <= y
<1> DEFINE R == OpToRel(<, Nat)
<1>1. IsWellFoundedOn(R, Nat)
  BY NatLessThanWellFounded, Zenon
<1>2. \A x, y \in Nat : <<y, x>> \in R <=> y < x
  BY DEF OpToRel
<1> HIDE DEF R
<1>3. PICK x \in T : \A y \in T : ~(<<y, x>> \in R)
  BY <1>1, WFMin, Zenon
<1>4. \A y \in T : ~(y < x)
  BY <1>2, <1>3, Zenon
<1>5. x \in Nat
  OBVIOUS
<1>6. \A y \in T : x <= y
  BY <1>4, <1>5
<1> QED
  BY <1>6

\* What holds at 0, and at each number after one at which it holds, holds up to n.
LEMMA UpTo ==
    ASSUME NEW n \in Nat, NEW Good, 0 \in Good,
           \A i \in 1..n : i - 1 \in Good => i \in Good
    PROVE  \A i \in 0..n : i \in Good
<1> DEFINE Bad == {i \in 0..n : i \notin Good}
<1>1. Bad \in SUBSET Nat
  OBVIOUS
<1>2. ASSUME Bad # {} PROVE FALSE
  <2>1. PICK i \in Bad : \A j \in Bad : i <= j
    BY <1>1, <1>2, LeastExists
  <2>2. i \in 1..n /\ i - 1 \in 0..n /\ ~(i <= i - 1)
    BY <2>1
  <2>3. i - 1 \in Good
    BY <2>1, <2>2
  <2> QED
    BY <2>1, <2>2, <2>3
<1> QED
  BY <1>2

\* From a word, the steps of a loop lead to one word after another.
LEMMA Loop ==
    ASSUME NEW n \in Nat, NEW start \in Word, NEW step \in [1..n -> [Word -> Word]]
    PROVE  \E f \in [0..n -> Word] :
              f = [i \in 0..n |-> IF i = 0 THEN start ELSE step[i][f[i - 1]]]
<1> DEFINE Runs(f, m) == /\ f \in [0..m -> Word] /\ f[0] = start
                         /\ \A i \in 1..m : f[i] = step[i][f[i - 1]]
           Good == {m \in 0..n : \E f : Runs(f, m)}
<1>1. 0 \in Good
  <2> DEFINE g == [i \in 0..0 |-> start]
  <2>1. Runs(g, 0)
    OBVIOUS
  <2> HIDE DEF g, Runs
  <2> QED
    BY <2>1
<1>2. ASSUME NEW m \in 1..n, m - 1 \in Good PROVE m \in Good
  <2>1. PICK f : Runs(f, m - 1)
    BY <1>2
  <2> DEFINE g == [i \in 0..m |-> IF i = m THEN step[m][f[m - 1]] ELSE f[i]]
  <2>2. m - 1 \in 0..(m - 1) /\ \A i \in 0..m : i = m \/ i \in 0..(m - 1)
    OBVIOUS
  <2>3. f[m - 1] \in Word /\ step[m][f[m - 1]] \in Word
    BY <2>1, <2>2
  <2>4. g \in [0..m -> Word]
    BY <2>1, <2>2, <2>3
  <2>5. g[0] = start
    BY <2>1
  <2>6. ASSUME NEW i \in 1..m PROVE g[i] = step[i][g[i - 1]]
    <3>1. CASE i = m
      BY <3>1
    <3>2. CASE i # m
      BY <2>1, <3>2
    <3> QED
      BY <3>1, <3>2
  <2>7. Runs(g, m)
    BY <2>4, <2>5, <2>6
  <2> HIDE DEF g, Runs
  <2> QED
    BY <2>7
<1>3. n \in Good
  <2> HIDE DEF Good
  <2>1. \A i \in 0..n : i \in Good
    BY <1>1, <1>2, UpTo
  <2>2. n \in 0..n
    OBVIOUS
  <2> QED
    BY <2>1, <2>2
<1>4. PICK f : Runs(f, n)
  BY <1>3
<1>5. f = [i \in 0..n |-> IF i = 0 THEN start ELSE step[i][f[i - 1]]]
  BY <1>4
<1> QED
  BY <1>4, <1>5

\* Eight shifts.
LEMMA ShiftedSteps ==
    ASSUME NEW w \in Word
    PROVE  \E f \in [0..8 -> Word] :
              /\ f[0] = w /\ f[8] = Shifted[w]
              /\ \A b \in 1..8 : f[b] = Shift(f[b - 1])
<1> DEFINE step == [b \in 1..8 |-> [v \in Word |-> Shift(v)]]
           Is(f) == f = [b \in 0..8 |-> IF b = 0 THEN w ELSE Shift(f[b - 1])]
           s == CHOOSE f : Is(f)
<1>1. 8 \in Nat /\ step \in [1..8 -> [Word -> Word]]
  BY ShiftBit
<1>2. \A b \in 1..8 : \A v \in Word : step[b][v] = Shift(v)
  OBVIOUS
<1> HIDE DEF step
<1>3. PICK f \in [0..8 -> Word] : f = [b \in 0..8 |-> IF b = 0 THEN w ELSE step[b][f[b - 1]]]
  BY <1>1, Loop, Zenon
<1>4. Is(f)
  BY <1>2, <1>3
<1>5. Is(s)
  BY <1>4, Zenon
<1>6. Shifted[w] = s[8]
  BY Zenon DEF Shifted
<1> HIDE DEF s
<1>7. s[0] = w /\ \A b \in 1..8 : s[b] = Shift(s[b - 1])
  BY <1>5
<1>8. \A b \in 0..8 : s[b] \in Word
  <2> DEFINE Good == {b \in 0..8 : s[b] \in Word}
  <2>1. 0 \in Good /\ \A b \in 1..8 : b - 1 \in Good => b \in Good
    BY <1>7, ShiftBit
  <2>2. \A b \in 0..8 : b \in Good
    <3> HIDE DEF Good
    <3> QED
      BY <1>1, <2>1, UpTo
  <2> QED
    BY <2>2
<1>9. s \in [0..8 -> Word]
  BY <1>5, <1>8
<1> QED
  BY <1>6, <1>7, <1>9

\* Eight shifts of a word are a word.
LEMMA ShiftedWord ==
    ASSUME NEW w \in Word
    PROVE  Shifted[w] \in Word
  BY ShiftedSteps

\* No two words are shifted eight times to the same.
LEMMA ShiftedInjective ==
    ASSUME NEW v \in Word, NEW w \in Word, Shifted[v] = Shifted[w]
    PROVE  v = w
<1>1. PICK f \in [0..8 -> Word] :
         f[0] = v /\ f[8] = Shifted[v] /\ \A b \in 1..8 : f[b] = Shift(f[b - 1])
  BY ShiftedSteps
<1>2. PICK g \in [0..8 -> Word] :
         g[0] = w /\ g[8] = Shifted[w] /\ \A b \in 1..8 : g[b] = Shift(g[b - 1])
  BY ShiftedSteps
<1> DEFINE Good == {b \in 0..8 : f[8 - b] = g[8 - b]}
<1>3. 0 \in Good
  BY <1>1, <1>2
<1>4. ASSUME NEW b \in 1..8, b - 1 \in Good PROVE b \in Good
  <2>1. /\ 8 - (b - 1) \in 1..8 /\ (8 - (b - 1)) - 1 = 8 - b
        /\ 8 - b \in 0..8
    OBVIOUS
  <2>2. f[8 - (b - 1)] = Shift(f[8 - b]) /\ g[8 - (b - 1)] = Shift(g[8 - b])
    BY <1>1, <1>2, <2>1
  <2>3. f[8 - (b - 1)] = g[8 - (b - 1)]
    BY <1>4
  <2>4. f[8 - b] \in Word /\ g[8 - b] \in Word
    BY <2>1
  <2>5. f[8 - b] = g[8 - b]
    BY <2>2, <2>3, <2>4, ShiftInjective
  <2> QED
    BY <2>5
<1>5. 8 \in Good
  <2> HIDE DEF Good
  <2>1. \A b \in 0..8 : b \in Good
    BY <1>3, <1>4, UpTo
  <2> QED
    BY <2>1
<1> QED
  BY <1>1, <1>2, <1>5

\* Eight shifts are linear.
LEMMA ShiftedLinear ==
    ASSUME NEW v \in Word, NEW w \in Word
    PROVE  Shifted[SymDiff(v, w)] = SymDiff(Shifted[v], Shifted[w])
<1> DEFINE x == SymDiff(v, w)
<1>0. x \in Word
  BY XorBit
<1>1. PICK f \in [0..8 -> Word] :
         f[0] = v /\ f[8] = Shifted[v] /\ \A b \in 1..8 : f[b] = Shift(f[b - 1])
  BY ShiftedSteps
<1>2. PICK g \in [0..8 -> Word] :
         g[0] = w /\ g[8] = Shifted[w] /\ \A b \in 1..8 : g[b] = Shift(g[b - 1])
  BY ShiftedSteps
<1>3. PICK h \in [0..8 -> Word] :
         h[0] = x /\ h[8] = Shifted[x] /\ \A b \in 1..8 : h[b] = Shift(h[b - 1])
  BY <1>0, ShiftedSteps
<1> DEFINE Good == {b \in 0..8 : h[b] = SymDiff(f[b], g[b])}
<1>4. 0 \in Good
  BY <1>1, <1>2, <1>3
<1>5. ASSUME NEW b \in 1..8, b - 1 \in Good PROVE b \in Good
  <2>1. b - 1 \in 0..8 /\ h[b - 1] = SymDiff(f[b - 1], g[b - 1])
    BY <1>5
  <2>2. Shift(h[b - 1]) = SymDiff(Shift(f[b - 1]), Shift(g[b - 1]))
    BY <2>1, ShiftLinear
  <2>3. h[b] = SymDiff(f[b], g[b])
    BY <1>1, <1>2, <1>3, <2>2
  <2> QED
    BY <2>3
<1>6. 8 \in Good
  <2> HIDE DEF Good
  <2>1. \A b \in 0..8 : b \in Good
    BY <1>4, <1>5, UpTo
  <2> QED
    BY <2>1
<1> QED
  BY <1>1, <1>2, <1>3, <1>6

\* Eight shifts of a high byte are the byte.
LEMMA ShiftedLeft ==
    ASSUME NEW d \in Byte
    PROVE  Left(d, 8) \in Word /\ Shifted[Left(d, 8)] = d
<1>0. Left(d, 8) \in Word
  BY ShiftLeftByte
<1>1. PICK f \in [0..8 -> Word] :
         /\ f[0] = Left(d, 8) /\ f[8] = Shifted[Left(d, 8)]
         /\ \A b \in 1..8 : f[b] = Shift(f[b - 1])
  BY <1>0, ShiftedSteps
<1> DEFINE Good == {b \in 0..8 : f[b] = Left(d, 8 - b)}
<1>2. 0 \in Good
  BY <1>1
<1>3. ASSUME NEW b \in 1..8, b - 1 \in Good PROVE b \in Good
  <2>1. 8 - (b - 1) \in 1..8 /\ (8 - (b - 1)) - 1 = 8 - b /\ f[b - 1] = Left(d, 8 - (b - 1))
    BY <1>3
  <2>2. Shift(Left(d, 8 - (b - 1))) = Left(d, (8 - (b - 1)) - 1)
    BY <2>1, ShiftLeftByte
  <2>3. f[b] = Left(d, 8 - b)
    BY <1>1, <2>1, <2>2
  <2> QED
    BY <2>3
<1>4. 8 \in Good
  <2> HIDE DEF Good
  <2>1. \A b \in 0..8 : b \in Good
    BY <1>2, <1>3, UpTo
  <2> QED
    BY <2>1
<1>5. Left(d, 0) = d
  <2>1. \A b \in d : b + 0 = b
    BY DEF Byte
  <2> QED
    BY <2>1 DEF Left
<1> QED
  BY <1>0, <1>1, <1>4, <1>5

--------------------------------------------------------------------------------
(* The checksum of an array of bytes, and what it catches. *)

\* The states of ic_crc16_x25 on the first n bytes of data.
Steps(f, data, n) ==
    /\ f \in [0..n -> Word] /\ f[0] = 0..15
    /\ \A i \in 1..n : f[i] = Shifted[SymDiff(f[i - 1], data[i])]

\* A byte is a word, and so is 0xFFFF.
LEMMA BytesAreWords == Byte \subseteq Word /\ 0..15 \in Word
  BY DEF Byte, Word

\* A step of the checksum leads from a word to a word.
LEMMA StepWord ==
    ASSUME NEW w \in Word, NEW d \in Byte
    PROVE  SymDiff(w, d) \in Word /\ Shifted[SymDiff(w, d)] \in Word
  BY BytesAreWords, XorBit, ShiftedWord

\* The checksum is where the steps on all bytes lead, inverted.
LEMMA CrcSteps ==
    ASSUME NEW n \in Nat, NEW data \in Strings(Byte, n)
    PROVE  \E f : Steps(f, data, n) /\ Crc16(data) = SymDiff(f[n], 0..15)
<1> DEFINE ones == 0..15
           step == [i \in 1..n |-> [v \in Word |-> Shifted[SymDiff(v, data[i])]]]
           Is(f) == f = [i \in 0..n |-> IF i = 0 THEN ones
                                                 ELSE Shifted[SymDiff(f[i - 1], data[i])]]
           c == CHOOSE f : Is(f)
<1>0. ones \in Word
  BY BytesAreWords
<1> HIDE DEF ones
<1>1. Len(data) = n /\ \A i \in 1..n : data[i] \in Byte
  BY DEF Strings
<1>2. step \in [1..n -> [Word -> Word]]
  BY <1>1, StepWord
<1>3. \A i \in 1..n : \A v \in Word : step[i][v] = Shifted[SymDiff(v, data[i])]
  OBVIOUS
<1> HIDE DEF step
<1>4. PICK f \in [0..n -> Word] : f = [i \in 0..n |-> IF i = 0 THEN ones ELSE step[i][f[i - 1]]]
  BY <1>0, <1>2, Loop, Zenon
<1>5. Is(f)
  <2>1. ASSUME NEW i \in 0..n, i # 0 PROVE step[i][f[i - 1]] = Shifted[SymDiff(f[i - 1], data[i])]
    <3>1. i \in 1..n /\ i - 1 \in 0..n
      BY <2>1
    <3>2. f[i - 1] \in Word
      BY <3>1
    <3> QED
      BY <1>3, <3>1, <3>2, Zenon
  <2> QED
    BY <1>4, <2>1, Zenon
<1>6. Is(c)
  BY <1>5, Zenon
<1>7. Crc16(data) = SymDiff(c[n], 0..15)
  BY <1>1, Zenon DEF Crc16, ones
<1> HIDE DEF c
<1>8. c[0] = ones /\ \A i \in 1..n : c[i] = Shifted[SymDiff(c[i - 1], data[i])]
  BY <1>6
<1>9. \A i \in 0..n : c[i] \in Word
  <2> DEFINE Good == {i \in 0..n : c[i] \in Word}
  <2>1. 0 \in Good
    BY <1>0, <1>8
  <2>2. ASSUME NEW i \in 1..n, i - 1 \in Good PROVE i \in Good
    <3>1. c[i - 1] \in Word /\ data[i] \in Byte
      BY <1>1, <2>2
    <3>2. Shifted[SymDiff(c[i - 1], data[i])] \in Word
      BY <3>1, StepWord
    <3>3. c[i] \in Word
      BY <1>8, <3>2
    <3> QED
      BY <3>3
  <2>3. \A i \in 0..n : i \in Good
    <3> HIDE DEF Good
    <3> QED
      BY <2>1, <2>2, UpTo
  <2> QED
    BY <2>3
<1>10. Steps(c, data, n)
  BY <1>6, <1>8, <1>9 DEF Steps, ones
<1> QED
  BY <1>7, <1>10

\* The two bytes of a burst cannot make up for each other.
LEMMA TwoBytes ==
    ASSUME NEW w \in Word, NEW a \in Byte, NEW b \in Byte, NEW c \in Byte, NEW d \in Byte,
           Shifted[SymDiff(Shifted[SymDiff(w, a)], b)] = Shifted[SymDiff(Shifted[SymDiff(w, c)], d)]
    PROVE  a = c /\ b = d
<1> DEFINE v == SymDiff(w, a)
           x == SymDiff(w, c)
           e == SymDiff(a, c)
           h == SymDiff(b, d)
<1>1. v \in Word /\ x \in Word /\ Shifted[v] \in Word /\ Shifted[x] \in Word
  BY StepWord
<1>2. e \in Byte /\ h \in Byte /\ e \in Word /\ h \in Word /\ b \in Word /\ d \in Word
  BY BytesAreWords DEF SymDiff, Byte
<1>3. SymDiff(v, x) = e
  BY DEF SymDiff
<1>4. Shifted[e] = SymDiff(Shifted[v], Shifted[x])
  BY <1>1, <1>3, ShiftedLinear
<1>5. SymDiff(Shifted[v], b) = SymDiff(Shifted[x], d)
  <2>1. SymDiff(Shifted[v], b) \in Word /\ SymDiff(Shifted[x], d) \in Word
    BY <1>1, StepWord
  <2> QED
    BY <2>1, ShiftedInjective
<1> HIDE DEF v, x
<1>6. SymDiff(Shifted[v], Shifted[x]) = h
  BY <1>5 DEF SymDiff
<1>7. e = Left(h, 8)
  <2>1. Left(h, 8) \in Word /\ Shifted[Left(h, 8)] = h
    BY <1>2, ShiftedLeft
  <2> QED
    BY <1>2, <1>4, <1>6, <2>1, ShiftedInjective
<1>8. e = {} /\ h = {}
  <2>1. \A i \in h : i + 8 \in e /\ i + 8 \notin 0..7
    BY <1>2, <1>7 DEF Left, Byte
  <2>2. h = {}
    BY <1>2, <2>1 DEF Byte
  <2> QED
    BY <1>7, <2>2 DEF Left
<1> QED
  BY <1>8 DEF SymDiff

\* On the same bytes from the same state, forwards and backwards, the states are the same.
LEMMA SameStart ==
    ASSUME NEW n \in Nat, NEW m \in 0..n, NEW s, NEW t, NEW f, NEW g,
           Steps(f, s, n), Steps(g, t, n), \A i \in 1..m : s[i] = t[i]
    PROVE  f[m] = g[m]
<1> DEFINE Good == {i \in 0..m : f[i] = g[i]}
<1>1. 0 \in Good
  <2>1. f[0] = g[0]
    BY Zenon DEF Steps
  <2> QED
    BY <2>1
<1>2. ASSUME NEW i \in 1..m, i - 1 \in Good PROVE i \in Good
  BY <1>2 DEF Steps
<1>3. \A i \in 0..m : i \in Good
  <2> HIDE DEF Good
  <2> QED
    BY <1>1, <1>2, UpTo
<1> QED
  BY <1>3

LEMMA SameEnd ==
    ASSUME NEW n \in Nat, NEW m \in 0..n,
           NEW s \in Strings(Byte, n), NEW t \in Strings(Byte, n), NEW f, NEW g,
           Steps(f, s, n), Steps(g, t, n), \A i \in (m + 1)..n : s[i] = t[i], f[n] = g[n]
    PROVE  f[m] = g[m]
<1> DEFINE k == n - m
           Good == {i \in 0..k : f[n - i] = g[n - i]}
<1>1. 0 \in Good /\ k \in Nat
  OBVIOUS
<1>2. ASSUME NEW i \in 1..k, i - 1 \in Good PROVE i \in Good
  <2> DEFINE j == n - (i - 1)
  <2>1. j \in 1..n /\ j \in (m + 1)..n /\ j - 1 = n - i /\ j - 1 \in 0..n /\ f[j] = g[j]
    BY <1>2
  <2> HIDE DEF j
  <2>2. /\ f[j - 1] \in Word /\ g[j - 1] \in Word /\ s[j] = t[j] /\ s[j] \in Byte
        /\ f[j] = Shifted[SymDiff(f[j - 1], s[j])] /\ g[j] = Shifted[SymDiff(g[j - 1], t[j])]
    BY <2>1 DEF Steps, Strings
  <2>3. SymDiff(f[j - 1], s[j]) = SymDiff(g[j - 1], s[j])
    <3>1. /\ SymDiff(f[j - 1], s[j]) \in Word /\ SymDiff(g[j - 1], s[j]) \in Word
          /\ Shifted[SymDiff(f[j - 1], s[j])] = Shifted[SymDiff(g[j - 1], s[j])]
      BY <2>1, <2>2, StepWord, Zenon
    <3> QED
      BY <3>1, ShiftedInjective, Zenon
  <2>4. f[j - 1] = g[j - 1]
    BY <2>3 DEF SymDiff
  <2> QED
    BY <2>1, <2>4
<1>3. k \in Good
  <2> HIDE DEF Good, k
  <2>1. \A i \in 0..k : i \in Good
    BY <1>1, <1>2, UpTo
  <2> QED
    BY <1>1, <2>1
<1> QED
  BY <1>3

SameOutside(s, t, n, j) == \A i \in 1..n : i \notin {j, j + 1} => s[i] = t[i]

\* A change of one byte, or of two neighbours, changes the checksum.
LEMMA BurstIsCaught ==
    ASSUME NEW n \in Nat, NEW s \in Strings(Byte, n), NEW t \in Strings(Byte, n), NEW f, NEW g,
           Steps(f, s, n), Steps(g, t, n), f[n] = g[n],
           NEW j \in 1..(n - 1), SameOutside(s, t, n, j)
    PROVE  s = t
<1>0. \A i \in 1..n : i \notin {j, j + 1} => s[i] = t[i]
  BY DEF SameOutside
<1>1. /\ j - 1 \in 0..n /\ j + 1 \in 0..n /\ j \in 1..n /\ j + 1 \in 1..n
      /\ (j + 1) - 1 = j
  OBVIOUS
<1>2. f[j - 1] = g[j - 1]
  <2>1. \A i \in 1..(j - 1) : s[i] = t[i]
    BY <1>0
  <2> QED
    BY <1>1, <2>1, SameStart
<1>3. f[j + 1] = g[j + 1]
  <2>1. \A i \in ((j + 1) + 1)..n : s[i] = t[i]
    BY <1>0
  <2> QED
    BY <1>1, <2>1, SameEnd
<1>4. /\ s[j] \in Byte /\ t[j] \in Byte /\ s[j + 1] \in Byte /\ t[j + 1] \in Byte
      /\ f[j - 1] \in Word
  BY <1>1 DEF Strings, Steps
<1>5. /\ f[j + 1] = Shifted[SymDiff(Shifted[SymDiff(f[j - 1], s[j])], s[j + 1])]
      /\ g[j + 1] = Shifted[SymDiff(Shifted[SymDiff(g[j - 1], t[j])], t[j + 1])]
  <2>1. /\ f[j] = Shifted[SymDiff(f[j - 1], s[j])]
        /\ g[j] = Shifted[SymDiff(g[j - 1], t[j])]
    BY <1>1 DEF Steps
  <2>2. /\ f[j + 1] = Shifted[SymDiff(f[j], s[j + 1])]
        /\ g[j + 1] = Shifted[SymDiff(g[j], t[j + 1])]
    BY <1>1 DEF Steps
  <2> QED
    BY <2>1, <2>2
<1>6. s[j] = t[j] /\ s[j + 1] = t[j + 1]
  <2>1. Shifted[SymDiff(Shifted[SymDiff(f[j - 1], s[j])], s[j + 1])]
          = Shifted[SymDiff(Shifted[SymDiff(f[j - 1], t[j])], t[j + 1])]
    BY <1>2, <1>3, <1>5, Zenon
  <2> DEFINE w == f[j - 1]
             a == s[j]
             b == s[j + 1]
             c == t[j]
             d == t[j + 1]
  <2>2. /\ w \in Word /\ a \in Byte /\ b \in Byte /\ c \in Byte /\ d \in Byte
        /\ Shifted[SymDiff(Shifted[SymDiff(w, a)], b)] = Shifted[SymDiff(Shifted[SymDiff(w, c)], d)]
    BY <1>4, <2>1, Zenon
  <2> HIDE DEF w, a, b, c, d
  <2>3. a = c /\ b = d
    BY <2>2, TwoBytes
  <2> QED
    BY <2>3 DEF a, b, c, d
<1>7. \A i \in 1..n : s[i] = t[i]
  BY <1>0, <1>6
<1> QED
  BY <1>7 DEF Strings

\* The residue: what a code with the right checksum leaves.
Residue == Shifted[Shifted[0..15]]

\* ic_crc16_x25 catches every error of one byte or of two neighbours, in arrays of any length.
THEOREM ChecksumCatchesBursts ==
    ASSUME NEW n \in Nat, NEW s \in Strings(Byte, n), NEW t \in Strings(Byte, n),
           NEW j \in 1..(n - 1), SameOutside(s, t, n, j), Crc16(s) = Crc16(t)
    PROVE  s = t
<1>1. PICK f : Steps(f, s, n) /\ Crc16(s) = SymDiff(f[n], 0..15)
  BY CrcSteps
<1>2. PICK g : Steps(g, t, n) /\ Crc16(t) = SymDiff(g[n], 0..15)
  BY CrcSteps
<1>3. f[n] = g[n]
  BY <1>1, <1>2 DEF SymDiff
<1> QED
  BY <1>1, <1>2, <1>3, BurstIsCaught

\* The state after a code with the right checksum does not depend on the code.
LEMMA ValidLeavesResidue ==
    ASSUME NEW ic \in Strings(Byte, 18), Valid(ic)
    PROVE  \E f : Steps(f, ic, 18) /\ f[18] = Residue
<1> DEFINE key == SubSeq(ic, 1, 16)
           ones == 0..15
<1>2. /\ ic[17] \in Byte /\ ic[18] \in Byte /\ \A i \in 1..18 : ic[i] \in Byte
  <2>1. 18 \in Nat /\ 17 \in 1..18 /\ 18 \in 1..18
    OBVIOUS
  <2>2. ic \in [1..18 -> Byte]
    BY <2>1, StringIsFunction
  <2> QED
    BY <2>1, <2>2
<1>3. 16 \in Nat
  OBVIOUS
<1>1. key \in Strings(Byte, 16) /\ \A i \in 1..16 : key[i] = ic[i]
  <2>1. key = [i \in 1..16 |-> ic[i]]
    BY DEF Strings
  <2>2. \A i \in 1..16 : ic[i] \in Byte
    BY <1>2
  <2> HIDE DEF key
  <2>3. key \in [1..16 -> Byte] /\ \A i \in 1..16 : key[i] = ic[i]
    BY <2>1, <2>2
  <2> QED
    BY <1>3, <2>3, StringIsFunction
<1> HIDE DEF key
<1>4. PICK c : Steps(c, key, 16) /\ Crc16(key) = SymDiff(c[16], ones)
  BY <1>1, <1>3, CrcSteps
<1>5. c[16] \in Word /\ ones \in Word
  BY <1>4, BytesAreWords DEF Steps
<1> DEFINE low == ic[17]
           high == ic[18]
           v == Shifted[SymDiff(c[16], low)]
           w == Shifted[SymDiff(v, high)]
<1>6. v \in Word /\ w \in Word
  BY <1>2, <1>5, StepWord
<1>7. w = Residue
  <2>1. low \union Left(high, 8) = SymDiff(c[16], ones)
    BY <1>4, Zenon DEF Valid, key
  <2>2. Left(high, 8) \in Word /\ Shifted[Left(high, 8)] = high /\ low \in Word
    BY <1>2, ShiftedLeft, BytesAreWords
  <2>3. low \union Left(high, 8) = SymDiff(low, Left(high, 8))
    <3>1. \A i \in Left(high, 8) : i \notin 0..7
      BY <1>2 DEF Left, Byte
    <3> QED
      BY <1>2, <3>1 DEF SymDiff, Byte
  <2>4. SymDiff(SymDiff(c[16], low), Left(high, 8)) = ones
    <3> HIDE DEF ones, low, high
    <3> QED
      BY <2>1, <2>3 DEF SymDiff
  <2>5. SymDiff(c[16], low) \in Word
    BY <1>2, <1>5, StepWord
  <2>6. SymDiff(v, high) = Shifted[ones]
    BY <2>2, <2>4, <2>5, ShiftedLinear
  <2> QED
    BY <2>6 DEF Residue
<1> DEFINE f == [i \in 0..18 |-> IF i <= 16 THEN c[i] ELSE IF i = 17 THEN v ELSE w]
<1>8. Steps(f, ic, 18)
  <2>0. c \in [0..16 -> Word] /\ c[0] = 0..15
        /\ \A i \in 1..16 : c[i] = Shifted[SymDiff(c[i - 1], ic[i])]
    BY <1>1, <1>4 DEF Steps
  <2>1. f \in [0..18 -> Word]
    <3>1. \A i \in 0..18 : i <= 16 => c[i] \in Word
      BY <2>0
    <3> HIDE DEF v, w
    <3> QED
      BY <1>6, <3>1
  <2>2. f[0] = 0..15
    BY <2>0
  <2>3. ASSUME NEW i \in 1..18 PROVE f[i] = Shifted[SymDiff(f[i - 1], ic[i])]
    <3>1. CASE i <= 16
      BY <2>0, <3>1
    <3>2. CASE i = 17
      BY <3>2
    <3>3. CASE i = 18
      BY <3>3
    <3> QED
      BY <3>1, <3>2, <3>3
  <2> QED
    BY <2>1, <2>2, <2>3 DEF Steps
<1>9. f[18] = w
  OBVIOUS
<1> HIDE DEF f, w
<1> QED
  BY <1>7, <1>8, <1>9

--------------------------------------------------------------------------------
(* The characters of bytes, and bytes again. *)

\* The lengths in a line, by name.
AddressDigits == 16
OneSpace == 1
CodeDigits == 36
KeyBytes == 16
ChecksumBytes == 2

\* The sizes of a line and a code.
LEMMA Numbers ==
    /\ 1 \in Nat /\ 2 \in Nat /\ 8 \in Nat /\ 16 \in Nat /\ 17 \in Nat /\ 18 \in Nat /\ 36 \in Nat
    /\ 53 \in Nat
    /\ 16 + 1 = 17 /\ 17 + 36 = 53 /\ 2 * 8 = 16 /\ 2 * 18 = 36 /\ 16 + 2 = 18
  OBVIOUS

\* A byte is its two digits put together.
LEMMA Nibbles ==
    \A b \in Byte : /\ Right(b, 4) \in Digit /\ b \intersect 0..3 \in Digit
                    /\ Left(Right(b, 4), 4) \union (b \intersect 0..3) = b
<1> TAKE b \in Byte
<1>1. Right(b, 4) \in Digit /\ b \intersect 0..3 \in Digit
  BY DEF Right, Byte, Digit
<1>2. Left(Right(b, 4), 4) = {i \in b : i >= 4}
  <2>1. \A i \in b : i >= 4 => (i - 4) + 4 = i
    BY DEF Byte
  <2> QED
    BY <2>1 DEF Left, Right
<1>3. {i \in b : i >= 4} \union (b \intersect 0..3) = b
  <2>1. \A i \in b : i >= 4 \/ i \in 0..3
    BY DEF Byte
  <2> QED
    BY <2>1, Zenon
<1> QED
  BY <1>1, <1>2, <1>3

\* The digits h are the bytes r, two for each.
DigitsOf(h, r, n) == \A i \in 1..n : Left(h[2 * i - 1], 4) \union h[2 * i] = r[i]

\* Two digits for each byte, in order.
LEMMA HexOfBytes ==
    ASSUME NEW n \in Nat, NEW bytes \in Strings(Byte, n)
    PROVE  Hex(bytes) \in Strings(Digit, 2 * n) /\ DigitsOf(Hex(bytes), bytes, n)
<1>1. bytes \in [1..n -> Byte] /\ Len(bytes) = n
  BY StringIsFunction DEF Strings
<1>2. Hex(bytes) = [i \in 1..(2 * n) |->
                      IF i % 2 = 1 THEN Right(bytes[(i + 1) \div 2], 4) ELSE bytes[i \div 2] \intersect 0..3]
  BY <1>1, Zenon DEF Hex
<1>3. ASSUME NEW i \in 1..(2 * n) PROVE Hex(bytes)[i] \in Digit
  <2>1. CASE i % 2 = 1
    <3>1. (i + 1) \div 2 \in 1..n
      BY <2>1
    <3>2. bytes[(i + 1) \div 2] \in Byte
      BY <1>1, <3>1
    <3> QED
      BY <1>2, <2>1, <3>2, Nibbles
  <2>2. CASE i % 2 # 1
    <3>1. i \div 2 \in 1..n
      BY <2>2
    <3>2. bytes[i \div 2] \in Byte
      BY <1>1, <3>1
    <3> QED
      BY <1>2, <2>2, <3>2, Nibbles
  <2> QED
    BY <2>1, <2>2
<1>4. Hex(bytes) \in [1..(2 * n) -> Digit]
  BY <1>2, <1>3
<1>5. 2 * n \in Nat
  OBVIOUS
<1>6. Hex(bytes) \in Strings(Digit, 2 * n)
  BY <1>4, <1>5, StringIsFunction
<1>7. ASSUME NEW i \in 1..n
      PROVE  Left(Hex(bytes)[2 * i - 1], 4) \union Hex(bytes)[2 * i] = bytes[i]
  <2>1. /\ 2 * i - 1 \in 1..(2 * n) /\ (2 * i - 1) % 2 = 1 /\ ((2 * i - 1) + 1) \div 2 = i
        /\ 2 * i \in 1..(2 * n) /\ (2 * i) % 2 # 1 /\ (2 * i) \div 2 = i
    OBVIOUS
  <2>2. Hex(bytes)[2 * i - 1] = Right(bytes[i], 4) /\ Hex(bytes)[2 * i] = bytes[i] \intersect 0..3
    BY <1>2, <2>1
  <2>3. bytes[i] \in Byte
    BY <1>1
  <2> QED
    BY <2>2, <2>3, Nibbles
<1> QED
  BY <1>6, <1>7 DEF DigitsOf

\* An array turned round has the same bytes, the last one first.
LEMMA ReverseOfBytes ==
    ASSUME NEW n \in Nat, NEW s \in Strings(Byte, n)
    PROVE  /\ Reverse(s) \in Strings(Byte, n)
           /\ \A i \in 1..n : Reverse(s)[i] = s[(n - i) + 1]
<1>1. s \in [1..n -> Byte] /\ Len(s) = n
  BY StringIsFunction DEF Strings
<1>2. Reverse(s) = [i \in 1..n |-> s[(n - i) + 1]]
  BY <1>1, Zenon DEF Reverse
<1>3. \A i \in 1..n : (n - i) + 1 \in 1..n
  OBVIOUS
<1>4. Reverse(s) \in [1..n -> Byte]
  BY <1>1, <1>2, <1>3
<1> QED
  BY <1>2, <1>4, StringIsFunction

\* Turned round twice an array is itself.
LEMMA ReverseTwice ==
    ASSUME NEW n \in Nat, NEW s \in Strings(Byte, n)
    PROVE  Reverse(Reverse(s)) = s
<1> DEFINE r == Reverse(s)
<1>1. r \in Strings(Byte, n) /\ \A i \in 1..n : r[i] = s[(n - i) + 1]
  BY ReverseOfBytes
<1> HIDE DEF r
<1>2. Reverse(r) \in Strings(Byte, n) /\ \A i \in 1..n : Reverse(r)[i] = r[(n - i) + 1]
  BY <1>1, ReverseOfBytes
<1>3. \A i \in 1..n : (n - i) + 1 \in 1..n /\ (n - ((n - i) + 1)) + 1 = i
  OBVIOUS
<1>4. \A i \in 1..n : Reverse(r)[i] = s[i]
  BY <1>1, <1>2, <1>3
<1>5. Reverse(r) = s
  BY <1>2, <1>4, StringEqual
<1> QED
  BY <1>5 DEF r

--------------------------------------------------------------------------------
(* The line that the sensor prints, and what the parsers take from it. *)

\* The address, the space and the code fill the line.
LEMMA LineLengths ==
    /\ AddressDigits \in Nat /\ OneSpace \in Nat /\ CodeDigits \in Nat
    /\ AddressDigits + OneSpace = 17 /\ AddressDigits + OneSpace + CodeDigits = 53
    /\ 1 \in 1..OneSpace /\ AddressDigits + 1 = 17
  BY DEF AddressDigits, OneSpace, CodeDigits

\* Three arrays one after another.
LEMMA ThreeParts ==
    ASSUME NEW h \in Strings(Byte, AddressDigits), NEW s \in Strings(Byte, OneSpace),
           NEW k \in Strings(Byte, CodeDigits)
    PROVE  /\ h \o s \o k \in Strings(Byte, AddressDigits + OneSpace + CodeDigits)
           /\ \A i \in 1..AddressDigits : (h \o s \o k)[i] = h[i]
           /\ \A i \in 1..OneSpace : (h \o s \o k)[AddressDigits + i] = s[i]
           /\ \A i \in 1..CodeDigits :
                (h \o s \o k)[AddressDigits + OneSpace + i] = k[i]
<1> DEFINE m == AddressDigits
           n == OneSpace
           o == CodeDigits
           u == h \o s
           w == u \o k
<1>1. /\ m \in Nat /\ n \in Nat /\ o \in Nat
      /\ h \in Strings(Byte, m) /\ s \in Strings(Byte, n)
      /\ k \in Strings(Byte, o)
  BY LineLengths
<1>2. m + n \in Nat /\ (\A i \in 1..m : i \in 1..(m + n)) /\ (\A i \in 1..n : m + i \in 1..(m + n))
  BY LineLengths
<1> HIDE DEF m, n, o
<1>3. /\ u \in Strings(Byte, m + n)
      /\ \A i \in 1..m : u[i] = h[i]
      /\ \A i \in 1..n : u[m + i] = s[i]
  BY <1>1, Joined, Zenon
<1> HIDE DEF u
<1>4. /\ w \in Strings(Byte, m + n + o)
      /\ \A i \in 1..(m + n) : w[i] = u[i]
      /\ \A i \in 1..o : w[(m + n) + i] = k[i]
  BY <1>1, <1>2, <1>3, Joined, Zenon
<1> HIDE DEF w
<1>5. /\ w \in Strings(Byte, m + n + o)
      /\ \A i \in 1..m : w[i] = h[i]
      /\ \A i \in 1..n : w[m + i] = s[i]
      /\ \A i \in 1..o : w[m + n + i] = k[i]
  BY <1>2, <1>3, <1>4, Zenon
<1> QED
  BY <1>5, Zenon DEF w, u, m, n, o

\* The three parts of a line.
LEMMA LineParts ==
    ASSUME NEW h \in Strings(Digit, AddressDigits), NEW k \in Strings(Digit, CodeDigits)
    PROVE  /\ h \o <<Space>> \o k \in Strings(Byte, 53)
           /\ \A i \in 1..AddressDigits : (h \o <<Space>> \o k)[i] = h[i]
           /\ (h \o <<Space>> \o k)[17] = Space
           /\ \A i \in 1..CodeDigits : (h \o <<Space>> \o k)[17 + i] = k[i]
<1> DEFINE s == <<Space>>
           args == h \o s \o k
<1>1. Digit \subseteq Byte /\ Space \in Byte
  BY DEF Digit, Byte, Space
<1>2. h \in Strings(Byte, AddressDigits) /\ k \in Strings(Byte, CodeDigits)
  BY <1>1, LineLengths, StringMonotone
<1>3. s \in Strings(Byte, OneSpace) /\ s[1] = Space
  BY <1>1 DEF Strings, OneSpace
<1> HIDE DEF s
<1>4. /\ args \in Strings(Byte, AddressDigits + OneSpace + CodeDigits)
      /\ \A i \in 1..AddressDigits : args[i] = h[i]
      /\ \A i \in 1..OneSpace : args[AddressDigits + i] = s[i]
      /\ \A i \in 1..CodeDigits : args[AddressDigits + OneSpace + i] = k[i]
  BY <1>2, <1>3, ThreeParts, Zenon
<1> HIDE DEF args
<1>5. args[17] = Space
  <2>1. args[AddressDigits + 1] = s[1]
    BY <1>4, LineLengths, Zenon
  <2> QED
    BY <1>3, <2>1, LineLengths, Zenon
<1>6. /\ args \in Strings(Byte, 53)
      /\ \A i \in 1..CodeDigits : args[17 + i] = k[i]
  BY <1>4, LineLengths, Zenon
<1> QED
  BY <1>4, <1>5, <1>6, Zenon DEF args, s

\* The parts of the printed line.
LEMMA ArgumentsParts ==
    ASSUME NEW addr, NEW ic, Hex(Reverse(addr)) \in Strings(Digit, AddressDigits),
           Hex(ic) \in Strings(Digit, CodeDigits)
    PROVE  /\ Arguments(addr, ic) \in Strings(Byte, 53)
           /\ \A i \in 1..AddressDigits : Arguments(addr, ic)[i] = Hex(Reverse(addr))[i]
           /\ Arguments(addr, ic)[17] = Space
           /\ \A i \in 1..CodeDigits : Arguments(addr, ic)[17 + i] = Hex(ic)[i]
  BY LineParts, Zenon DEF Arguments

\* The characters of the code are those from the 18th to the 53rd.
LEMMA CodeCharacters ==
    ASSUME NEW args \in Strings(Byte, 53), NEW k \in [1..36 -> Digit],
           \A i \in 1..36 : args[17 + i] = k[i]
    PROVE  SubSeq(args, 18, 53) = k
<1>1. SubSeq(args, 18, 53) = [i \in 1..36 |-> args[17 + i]]
  BY DEF Strings
<1> QED
  BY <1>1

\* Two digits of a line are the byte they stand for.
LEMMA PairOfDigits ==
    ASSUME NEW args, NEW i, args[i] \in Digit, args[i + 1] \in Digit
    PROVE  HexPairToByte(args, i) = Left(args[i], 4) \union args[i + 1]
  BY Zenon DEF HexPairToByte, HexCharToVal

\* A printed line is well formed, and both parsers take it apart into what it stands for.
LEMMA LineParses ==
    ASSUME NEW addr \in Strings(Byte, 8), NEW ic \in Strings(Byte, 18),
           NEW args, args = Arguments(addr, ic)
    PROVE  /\ args \in Strings(Byte, 53) /\ ~Malformed(args)
           /\ Parse(args) = [addr |-> addr, ic |-> ic]
           /\ SubSeq(args, 18, 53) = Hex(ic)
<1> DEFINE r == Reverse(addr)
           h == Hex(r)
           k == Hex(ic)
<1>1. r \in Strings(Byte, 8) /\ Reverse(r) = addr
  BY Numbers, ReverseOfBytes, ReverseTwice, Zenon
<1>2. /\ h \in Strings(Digit, AddressDigits) /\ k \in Strings(Digit, CodeDigits)
      => /\ args \in Strings(Byte, 53) /\ args[17] = Space
         /\ \A i \in 1..AddressDigits : args[i] = h[i]
         /\ \A i \in 1..CodeDigits : args[17 + i] = k[i]
  BY ArgumentsParts
<1> HIDE DEF r
<1>3. h \in Strings(Digit, 16) /\ DigitsOf(h, r, 8)
  <2>1. h \in Strings(Digit, 2 * 8) /\ DigitsOf(h, r, 8)
    BY <1>1, HexOfBytes, Numbers
  <2> QED
    BY <2>1, Numbers
<1>4. k \in Strings(Digit, 36) /\ DigitsOf(k, ic, 18)
  <2>1. k \in Strings(Digit, 2 * 18) /\ DigitsOf(k, ic, 18)
    BY HexOfBytes, Numbers
  <2> QED
    BY <2>1, Numbers
<1> HIDE DEF h, k
<1>5. /\ args \in Strings(Byte, 53) /\ args[17] = Space
      /\ \A i \in 1..16 : args[i] = h[i]
      /\ \A i \in 1..36 : args[17 + i] = k[i]
  <2>1. h \in Strings(Digit, AddressDigits) /\ k \in Strings(Digit, CodeDigits)
    BY <1>3, <1>4 DEF AddressDigits, CodeDigits
  <2>2. /\ args \in Strings(Byte, 53) /\ args[17] = Space
        /\ \A i \in 1..AddressDigits : args[i] = h[i]
        /\ \A i \in 1..CodeDigits : args[17 + i] = k[i]
    BY <1>2, <2>1, Zenon
  <2> QED
    BY <2>2 DEF AddressDigits, CodeDigits
<1>6. ~Malformed(args)
  <2>1. Len(args) = 53
    BY <1>5 DEF Strings
  <2>2. ~(53 < 53)
    OBVIOUS
  <2> QED
    BY <1>5, <2>1, <2>2, Zenon DEF Malformed
<1>7. h \in [1..16 -> Digit] /\ k \in [1..36 -> Digit] /\ r \in [1..8 -> Byte]
      /\ ic \in [1..18 -> Byte]
  BY <1>1, <1>3, <1>4, StringIsFunction, Numbers, Zenon
<1>8. ASSUME NEW i \in 1..8 PROVE HexPairToByte(args, 2 * i - 1) = r[i]
  <2>1. 2 * i - 1 \in 1..16 /\ 2 * i \in 1..16 /\ (2 * i - 1) + 1 = 2 * i
    OBVIOUS
  <2>2. h[2 * i - 1] \in Digit /\ h[2 * i] \in Digit
    BY <1>7, <2>1
  <2>3. args[2 * i - 1] = h[2 * i - 1] /\ args[(2 * i - 1) + 1] = h[2 * i]
    BY <1>5, <2>1
  <2>4. HexPairToByte(args, 2 * i - 1) = Left(h[2 * i - 1], 4) \union h[2 * i]
    BY <2>2, <2>3, PairOfDigits
  <2> QED
    BY <1>3, <2>4 DEF DigitsOf
<1>9. ASSUME NEW i \in 1..18 PROVE HexPairToByte(args, 16 + 2 * i) = ic[i]
  <2>1. /\ 2 * i - 1 \in 1..36 /\ 2 * i \in 1..36
        /\ 16 + 2 * i = 17 + (2 * i - 1) /\ (16 + 2 * i) + 1 = 17 + 2 * i
    OBVIOUS
  <2>2. k[2 * i - 1] \in Digit /\ k[2 * i] \in Digit
    BY <1>7, <2>1
  <2>3. args[16 + 2 * i] = k[2 * i - 1] /\ args[(16 + 2 * i) + 1] = k[2 * i]
    BY <1>5, <2>1
  <2>4. HexPairToByte(args, 16 + 2 * i) = Left(k[2 * i - 1], 4) \union k[2 * i]
    BY <2>2, <2>3, PairOfDigits
  <2> QED
    BY <1>4, <2>4 DEF DigitsOf
<1>10. [i \in 1..8 |-> HexPairToByte(args, 2 * i - 1)] = r
  BY <1>7, <1>8
<1>11. [i \in 1..18 |-> HexPairToByte(args, 16 + 2 * i)] = ic
  BY <1>7, <1>9
<1>12. Parse(args) = [addr |-> addr, ic |-> ic]
  BY <1>1, <1>10, <1>11, Zenon DEF Parse
<1>13. SubSeq(args, 18, 53) = k
  BY <1>5, <1>7, CodeCharacters
<1> QED
  BY <1>5, <1>6, <1>12, <1>13 DEF k

\* The code of a key carries its checksum.
LEMMA CodeParts ==
    ASSUME NEW key, key \in Strings(Byte, KeyBytes),
           LowByte(Crc16(key)) \in Byte, HighByte(Crc16(key)) \in Byte
    PROVE  /\ CodeOf(key) \in Strings(Byte, KeyBytes + ChecksumBytes)
           /\ \A i \in 1..KeyBytes : CodeOf(key)[i] = key[i]
           /\ CodeOf(key)[KeyBytes + 1] = LowByte(Crc16(key))
           /\ CodeOf(key)[KeyBytes + 2] = HighByte(Crc16(key))
<1> DEFINE t == <<LowByte(Crc16(key)), HighByte(Crc16(key))>>
           code == key \o t
<1>1. KeyBytes \in Nat /\ ChecksumBytes \in Nat /\ 1 \in 1..ChecksumBytes /\ 2 \in 1..ChecksumBytes
  BY DEF KeyBytes, ChecksumBytes
<1>2. /\ t \in Strings(Byte, ChecksumBytes)
      /\ t[1] = LowByte(Crc16(key)) /\ t[2] = HighByte(Crc16(key))
  BY DEF Strings, ChecksumBytes
<1>3. CodeOf(key) = code
  BY DEF CodeOf
<1> HIDE DEF t
<1>4. /\ code \in Strings(Byte, KeyBytes + ChecksumBytes)
      /\ \A i \in 1..KeyBytes : code[i] = key[i]
      /\ \A i \in 1..ChecksumBytes : code[KeyBytes + i] = t[i]
  <2>1. /\ KeyBytes \in Nat /\ ChecksumBytes \in Nat
        /\ key \in Strings(Byte, KeyBytes) /\ t \in Strings(Byte, ChecksumBytes)
    BY <1>1, <1>2
  <2> QED
    BY <2>1, Joined, ZenonT(60)
<1> HIDE DEF code
<1>5. code[KeyBytes + 1] = t[1] /\ code[KeyBytes + 2] = t[2]
  BY <1>1, <1>4, Zenon
<1> QED
  BY <1>2, <1>3, <1>4, <1>5, Zenon

\* A key is a function on 16 indices.
LEMMA SixteenBytes ==
    ASSUME NEW s \in Strings(Byte, 16)
    PROVE  s \in [1..16 -> Byte]
<1>1. 16 \in Nat
  OBVIOUS
<1> QED
  BY <1>1, StringAt, Zenon

\* The first 16 bytes of a code are its key.
LEMMA KeyOfCode ==
    ASSUME NEW code \in Strings(Byte, 18), NEW key \in [1..16 -> Byte],
           \A i \in 1..16 : code[i] = key[i]
    PROVE  SubSeq(code, 1, 16) = key
<1>1. SubSeq(code, 1, 16) = [i \in 1..16 |-> code[i]]
  BY DEF Strings
<1> QED
  BY <1>1

\* The checksum of a key is a word.
LEMMA CrcIsWord ==
    ASSUME NEW key \in Strings(Byte, 16)
    PROVE  Crc16(key) \in Word
<1>1. 16 \in Nat
  OBVIOUS
<1>2. PICK f : Steps(f, key, 16) /\ Crc16(key) = SymDiff(f[16], 0..15)
  BY <1>1, CrcSteps
<1>3. f[16] \in Word
  BY <1>2 DEF Steps
<1> QED
  BY <1>2, <1>3, XorBit, BytesAreWords

\* A word is its two bytes put together.
LEMMA TwoBytesOfWord ==
    ASSUME NEW w \in Word
    PROVE  /\ LowByte(w) \in Byte /\ HighByte(w) \in Byte
           /\ LowByte(w) \union Left(HighByte(w), 8) = w
<1>1. LowByte(w) \in Byte /\ HighByte(w) \in Byte
  BY DEF LowByte, HighByte, Right, Byte, Word
<1>2. Left(HighByte(w), 8) = {i \in w : i >= 8}
  <2>1. \A i \in w : i >= 8 => (i - 8) + 8 = i
    BY DEF Word
  <2> QED
    BY <2>1 DEF Left, HighByte, Right
<1>3. (w \intersect 0..7) \union {i \in w : i >= 8} = w
  <2>1. \A i \in w : i >= 8 \/ i \in 0..7
    BY DEF Word
  <2> QED
    BY <2>1, Zenon
<1> QED
  BY <1>1, <1>2, <1>3 DEF LowByte

\* The stack takes the code of any key.
LEMMA CodesAreValid ==
    ASSUME NEW key \in Keys
    PROVE  CodeOf(key) \in Strings(Byte, 18) /\ Valid(CodeOf(key))
<1> DEFINE c == Crc16(key)
           code == CodeOf(key)
<1>1. key \in Strings(Byte, 16) /\ c \in Word
  <2>1. key \in Strings(Byte, 16)
    BY IcAssumption
  <2> QED
    BY <2>1, CrcIsWord
<1> HIDE DEF c
<1>2. LowByte(c) \in Byte /\ HighByte(c) \in Byte /\ LowByte(c) \union Left(HighByte(c), 8) = c
  BY <1>1, TwoBytesOfWord
<1>3. /\ code \in Strings(Byte, KeyBytes + ChecksumBytes)
      /\ \A i \in 1..KeyBytes : code[i] = key[i]
      /\ code[KeyBytes + 1] = LowByte(c) /\ code[KeyBytes + 2] = HighByte(c)
  <2>1. key \in Strings(Byte, KeyBytes)
    BY <1>1 DEF KeyBytes
  <2> QED
    BY <1>2, <2>1, CodeParts, Zenon DEF c
<1> HIDE DEF code
<1>4. KeyBytes + ChecksumBytes = 18 /\ KeyBytes + 1 = 17 /\ KeyBytes + 2 = 18
  BY DEF KeyBytes, ChecksumBytes
<1>5. code \in Strings(Byte, 18) /\ code[17] = LowByte(c) /\ code[18] = HighByte(c)
  BY <1>3, <1>4, Zenon
<1>6. key \in [1..16 -> Byte] /\ \A i \in 1..16 : code[i] = key[i]
  <2>1. key \in [1..16 -> Byte]
    BY <1>1, SixteenBytes
  <2> QED
    BY <1>3, <2>1, Zenon DEF KeyBytes
<1>7. SubSeq(code, 1, 16) = key
  BY <1>5, <1>6, KeyOfCode
<1>8. Valid(code)
  BY <1>2, <1>5, <1>7, Zenon DEF Valid, c
<1> QED
  BY <1>5, <1>8, Zenon DEF code

--------------------------------------------------------------------------------
(* The two lines. *)

Pair(key) == [addr |-> Self, ic |-> CodeOf(key)]

\* A line of 53 characters is not empty.
LEMMA LineIsNotEmpty ==
    ASSUME NEW s \in Strings(Byte, 53)
    PROVE  s # <<>>
<1>1. Len(s) = 53
  BY DEF Strings
<1> QED
  BY <1>1

\* What the printed line of a key parses to, and what both stacks think of it.
LEMMA PrintedLine ==
    ASSUME NEW key \in Keys, NEW args, args = Arguments(Self, CodeOf(key))
    PROVE  /\ args # <<>> /\ ~Malformed(args)
           /\ Parse(args) = Pair(key) /\ Valid(Pair(key).ic)
<1> DEFINE code == CodeOf(key)
<1>1. Self \in Strings(Byte, 8)
  BY IcAssumption
<1>2. code \in Strings(Byte, 18) /\ Valid(code)
  BY CodesAreValid
<1>3. Pair(key) = [addr |-> Self, ic |-> code] /\ Pair(key).ic = code
  BY DEF Pair
<1> HIDE DEF code
<1>4. args = Arguments(Self, code)
  BY DEF code
<1>5. /\ args \in Strings(Byte, 53) /\ ~Malformed(args)
      /\ Parse(args) = [addr |-> Self, ic |-> code]
  BY <1>1, <1>2, <1>4, LineParses, Zenon
<1>6. args # <<>>
  BY <1>5, LineIsNotEmpty, Zenon
<1> QED
  BY <1>2, <1>3, <1>5, <1>6, Zenon

\* A program whose last line was as printed has parsed it into its parameters; once its
\* callback has run the stack holds them, and the sensor has said so.
Copied(p) ==
    /\ copied[p] \in printed
    /\ params[p] = Parse(copied[p])
    /\ p \notin called => /\ held[p] = Parse(copied[p])
                          /\ p = "sensor" => said[p] = "ic_set_success"

\* Every line printed carries the code of a key.
PrintedLines == \A line \in printed : \E key \in Keys : line = Arguments(Self, CodeOf(key))

IcInv ==
    /\ params = [p \in Programs |-> params[p]]
    /\ held = [p \in Programs |-> held[p]]
    /\ said = [p \in Programs |-> said[p]]
    /\ copied = [p \in Programs |-> copied[p]]
    /\ PrintedLines
    /\ \A p \in Programs : copied[p] # <<>> => Copied(p)

\* What a line as printed parses to.
LEMMA LineOfPrint ==
    ASSUME PrintedLines, NEW line \in printed
    PROVE  /\ line # <<>> /\ ~Malformed(line)
           /\ Parse(line).addr = Self /\ Valid(Parse(line).ic)
<1>1. PICK key \in Keys : line = Arguments(Self, CodeOf(key))
  BY DEF PrintedLines
<1>2. line # <<>> /\ ~Malformed(line) /\ Parse(line) = Pair(key) /\ Valid(Pair(key).ic)
  BY <1>1, PrintedLine
<1> QED
  BY <1>2 DEF Pair

\* A first start prints one more line, and clears what the sensor was told.
LEMMA PrintInv ==
    ASSUME IcInv, PrintProductionPairingCommands
    PROVE  IcInv'
<1>1. PICK key \in Keys : printed' = printed \union {Arguments(Self, CodeOf(key))}
  BY DEF PrintProductionPairingCommands
<1>2. PrintedLines'
  BY <1>1 DEF IcInv, PrintedLines
<1>3. PICK kept \in {held["sensor"], NoPair} : held' = [held EXCEPT !["sensor"] = kept]
  BY DEF PrintProductionPairingCommands
<1>4. /\ params' = [params EXCEPT !["sensor"] = NoPair]
      /\ called' = called \ {"sensor"}
      /\ said' = [said EXCEPT !["sensor"] = "nothing"]
      /\ copied' = [copied EXCEPT !["sensor"] = <<>>]
  BY DEF PrintProductionPairingCommands
<1>5. /\ params' = [p \in Programs |-> params'[p]]
      /\ held' = [p \in Programs |-> held'[p]]
      /\ said' = [p \in Programs |-> said'[p]]
      /\ copied' = [p \in Programs |-> copied'[p]]
  BY <1>3, <1>4 DEF IcInv
<1>6. ASSUME NEW p \in Programs, copied'[p] # <<>> PROVE Copied(p)'
  <2>1. p = "coordinator"
    BY <1>4, <1>6 DEF IcInv, Programs
  <2>2. /\ params'[p] = params[p] /\ held'[p] = held[p] /\ said'[p] = said[p]
        /\ copied'[p] = copied[p] /\ (p \in called' <=> p \in called)
    BY <1>3, <1>4, <2>1 DEF IcInv
  <2>3. Copied(p)
    BY <1>6, <2>2 DEF IcInv
  <2> QED
    BY <1>1, <2>2, <2>3 DEF Copied
<1> QED
  BY <1>2, <1>5, <1>6 DEF IcInv

\* A line typed, whatever it is, keeps the invariant.
LEMMA TypedInv ==
    ASSUME IcInv, NEW p \in Programs, NEW args, LineTyped(p, args)
    PROVE  IcInv'
<1>1. /\ copied' = [copied EXCEPT ![p] = IF args \in printed THEN args ELSE <<>>]
      /\ printed' = printed /\ held' = held
      /\ \/ /\ Malformed(args) /\ said' = [said EXCEPT ![p] = "invalid format"]
            /\ UNCHANGED <<params, called>>
         \/ /\ ~Malformed(args) /\ params' = [params EXCEPT ![p] = Parse(args)]
            /\ called' = called \union {p} /\ UNCHANGED said
  BY Zenon DEF LineTyped
<1>2. /\ params' = [q \in Programs |-> params'[q]]
      /\ held' = [q \in Programs |-> held'[q]]
      /\ said' = [q \in Programs |-> said'[q]]
      /\ copied' = [q \in Programs |-> copied'[q]]
  BY <1>1 DEF IcInv
<1>3. ASSUME NEW q \in Programs, copied'[q] # <<>> PROVE Copied(q)'
  <2>1. CASE q = p
    <3>1. args \in printed /\ copied'[p] = args
      BY <1>1, <1>3, <2>1 DEF IcInv
    <3>2. ~Malformed(args)
      BY <3>1, LineOfPrint DEF IcInv
    <3>3. params' = [params EXCEPT ![p] = Parse(args)] /\ p \in called'
      BY <1>1, <3>2
    <3>4. params'[p] = Parse(args)
      BY <3>3 DEF IcInv
    <3>5. printed' = printed
      BY <1>1
    <3>6. copied'[q] \in printed' /\ params'[q] = Parse(copied'[q]) /\ q \in called'
      BY <2>1, <3>1, <3>3, <3>4, <3>5
    <3> QED
      BY <3>6, Zenon DEF Copied
  <2>2. CASE q # p
    <3>1. /\ params'[q] = params[q] /\ said'[q] = said[q] /\ copied'[q] = copied[q]
          /\ (q \in called' <=> q \in called)
      BY <1>1, <2>2 DEF IcInv
    <3>2. Copied(q)
      BY <1>3, <3>1 DEF IcInv
    <3>3. printed' = printed /\ held'[q] = held[q]
      BY <1>1
    <3> QED
      BY <3>1, <3>2, <3>3, Zenon DEF Copied
  <2> QED
    BY <2>1, <2>2
<1>4. PrintedLines'
  BY <1>1 DEF IcInv, PrintedLines
<1> QED
  BY <1>2, <1>3, <1>4 DEF IcInv

\* So does every step.
LEMMA NextIcInv ==
    ASSUME IcInv, [IcNext]_icVars
    PROVE  IcInv'
<1>1. CASE PrintProductionPairingCommands
  BY <1>1, PrintInv
<1>2. CASE OperatorTypes
  <2>1. PICK p \in Programs : \E args : LineTyped(p, args)
    BY <1>2 DEF OperatorTypes
  <2> QED
    BY <2>1, TypedInv
<1>3. CASE IcAddCallback
  <2>1. ASSUME NEW p \in Programs, copied[p] # <<>>, Copied(p) PROVE Copied(p)'
    <3>1. Valid(Parse(copied[p]).ic)
      BY <2>1, LineOfPrint DEF IcInv, Copied
    <3>2. /\ UNCHANGED <<printed, params, copied>> /\ called' = called \ {"coordinator"}
          /\ Valid(params["coordinator"].ic) =>
                /\ held' = [held EXCEPT !["coordinator"] = params["coordinator"]]
                /\ said' = [said EXCEPT !["coordinator"] = "ic_add_success"]
          /\ \A q \in Programs : q # "coordinator" => held'[q] = held[q] /\ said'[q] = said[q]
      BY <1>3 DEF IcAddCallback, IcInv
    <3>3. CASE p = "coordinator"
      <4>1. params[p] = Parse(copied[p]) /\ Valid(params[p].ic)
        BY <2>1, <3>1 DEF Copied
      <4>2. held'[p] = params[p] /\ said'[p] = "ic_add_success"
        BY <3>2, <3>3, <4>1 DEF IcInv
      <4> QED
        BY <2>1, <3>2, <3>3, <4>1, <4>2 DEF Copied
    <3>4. CASE p # "coordinator"
      BY <2>1, <3>2, <3>4 DEF Copied
    <3> QED
      BY <3>3, <3>4
  <2>2. PrintedLines'
    BY <1>3 DEF IcAddCallback, IcInv, PrintedLines
  <2> QED
    BY <1>3, <2>1, <2>2 DEF IcAddCallback, IcInv
<1>4. CASE IcSetCallback
  <2>1. ASSUME NEW p \in Programs, copied[p] # <<>>, Copied(p) PROVE Copied(p)'
    <3>1. Valid(Parse(copied[p]).ic)
      BY <2>1, LineOfPrint DEF IcInv, Copied
    <3>2. /\ UNCHANGED <<printed, params, copied>> /\ called' = called \ {"sensor"}
          /\ Valid(params["sensor"].ic) =>
                /\ held' = [held EXCEPT !["sensor"] = params["sensor"]]
                /\ said' = [said EXCEPT !["sensor"] = "ic_set_success"]
          /\ \A q \in Programs : q # "sensor" => held'[q] = held[q] /\ said'[q] = said[q]
      BY <1>4 DEF IcSetCallback, IcInv
    <3>3. CASE p = "sensor"
      <4>1. params[p] = Parse(copied[p]) /\ Valid(params[p].ic)
        BY <2>1, <3>1 DEF Copied
      <4>2. held'[p] = params[p] /\ said'[p] = "ic_set_success"
        BY <3>2, <3>3, <4>1 DEF IcInv
      <4> QED
        BY <2>1, <3>2, <3>3, <4>1, <4>2 DEF Copied
    <3>4. CASE p # "sensor"
      BY <2>1, <3>2, <3>4 DEF Copied
    <3> QED
      BY <3>3, <3>4
  <2>2. PrintedLines'
    BY <1>4 DEF IcSetCallback, IcInv, PrintedLines
  <2> QED
    BY <1>4, <2>1, <2>2 DEF IcSetCallback, IcInv
<1>5. CASE UNCHANGED icVars
  BY <1>5 DEF icVars, IcInv, PrintedLines, Copied
<1> QED
  BY <1>1, <1>2, <1>3, <1>4, <1>5 DEF IcNext

\* Whatever was typed before, and however often the sensor started, two lines of one print
\* copied as they were pair the two devices.
THEOREM CopiedLinesPairDevices == IcSpec => []CopiedLinesPair
<1>1. IcInit => IcInv
  BY DEF IcInit, IcInv, PrintedLines
<1>2. IcInv => CopiedLinesPair
  <2> SUFFICES ASSUME IcInv, copied["sensor"] # <<>>,
                      copied["coordinator"] = copied["sensor"], called = {}
               PROVE  /\ held["coordinator"].addr = Self
                      /\ held["coordinator"].ic = held["sensor"].ic
                      /\ said["sensor"] = "ic_set_success"
    BY DEF CopiedLinesPair
  <2>1. \A p \in Programs : Copied(p)
    BY DEF IcInv, Programs
  <2>2. /\ copied["sensor"] \in printed /\ said["sensor"] = "ic_set_success"
        /\ held["sensor"] = Parse(copied["sensor"])
        /\ held["coordinator"] = Parse(copied["sensor"])
    BY <2>1 DEF Copied, Programs
  <2>3. Parse(copied["sensor"]).addr = Self
    BY <2>2, LineOfPrint DEF IcInv
  <2> QED
    BY <2>2, <2>3
<1>3. IcInv /\ [IcNext]_icVars => IcInv'
  BY NextIcInv
<1> QED
  BY <1>1, <1>2, <1>3, PTL DEF IcSpec

--------------------------------------------------------------------------------
(* One slip.  A character typed wrong, or two neighbours swapped, changes one byte *)
(* of the code or two neighbours, which the checksum catches; one left out makes   *)
(* the line too short for the parsers.  A doubled character moves all that follow  *)
(* it, which a 16-bit checksum cannot catch for every key.                         *)

\* What a parser makes of any characters is bytes.
LEMMA ParsedCode ==
    ASSUME NEW args
    PROVE  /\ Parse(args).ic \in Strings(Byte, 18)
           /\ \A i \in 1..18 : Parse(args).ic[i] = HexPairToByte(args, 16 + 2 * i)
<1> DEFINE ic == [i \in 1..18 |-> HexPairToByte(args, 16 + 2 * i)]
<1>1. Parse(args).ic = ic
  BY DEF Parse
<1>2. \A c : HexCharToVal(c) \in Digit
  BY DEF HexCharToVal, Digit
<1>3. ASSUME NEW c \in Digit, NEW d \in Digit PROVE Left(c, 4) \union d \in Byte
  <2>1. \A b \in c : b + 4 \in 0..7
    BY DEF Digit
  <2>2. \A b \in d : b \in 0..7
    BY DEF Digit
  <2>3. \A b \in Left(c, 4) : b \in 0..7
    BY <2>1, Zenon DEF Left
  <2> QED
    BY <2>2, <2>3, Zenon DEF Byte
<1>4. \A i \in 1..18 : HexPairToByte(args, 16 + 2 * i) \in Byte
  BY <1>2, <1>3, Zenon DEF HexPairToByte
<1>5. ic \in [1..18 -> Byte] /\ \A i \in 1..18 : ic[i] = HexPairToByte(args, 16 + 2 * i)
  BY <1>4
<1> HIDE DEF ic
<1>6. ic \in Strings(Byte, 18)
  BY <1>5, Numbers, StringIsFunction
<1> QED
  BY <1>1, <1>5, <1>6

\* The bytes that two neighbouring characters belong to.
LEMMA BytesOfCharacters ==
    ASSUME NEW q \in 1..53
    PROVE  \E j \in 1..17 : \A i \in 1..18 :
              i \notin {j, j + 1} => 16 + 2 * i \notin {q, q + 1} /\ (16 + 2 * i) + 1 \notin {q, q + 1}
<1>1. CASE q < 18
  <2>1. \A i \in 1..18 : i \notin {1, 1 + 1} =>
           16 + 2 * i \notin {q, q + 1} /\ (16 + 2 * i) + 1 \notin {q, q + 1}
    BY <1>1
  <2> QED
    BY <2>1
<1>2. CASE q >= 52
  <2>1. \A i \in 1..18 : i \notin {17, 17 + 1} =>
           16 + 2 * i \notin {q, q + 1} /\ (16 + 2 * i) + 1 \notin {q, q + 1}
    BY <1>2
  <2> QED
    BY <2>1
<1>3. CASE 18 <= q /\ q < 52
  <2> DEFINE j == (q - 16) \div 2
  <2>1. j \in 1..17 /\ (q = 16 + 2 * j \/ q = (16 + 2 * j) + 1)
    BY <1>3
  <2> HIDE DEF j
  <2>2. \A i \in 1..18 : i \notin {j, j + 1} =>
           16 + 2 * i \notin {q, q + 1} /\ (16 + 2 * i) + 1 \notin {q, q + 1}
    BY <2>1
  <2> QED
    BY <2>1, <2>2
<1> QED
  BY <1>1, <1>2, <1>3

\* Two lines that differ in one character or two neighbours and both carry their
\* checksum carry the same code.
LEMMA NearbyCodes ==
    ASSUME NEW args, NEW typed, NEW q \in 1..53,
           \A i \in 1..53 : i \notin {q, q + 1} => typed[i] = args[i],
           Valid(Parse(args).ic), Valid(Parse(typed).ic)
    PROVE  Parse(typed).ic = Parse(args).ic
<1> DEFINE s == Parse(args).ic
           t == Parse(typed).ic
<1>1. PICK j \in 1..17 : \A i \in 1..18 :
         i \notin {j, j + 1} => 16 + 2 * i \notin {q, q + 1} /\ (16 + 2 * i) + 1 \notin {q, q + 1}
  BY BytesOfCharacters
<1>2. /\ s \in Strings(Byte, 18) /\ \A i \in 1..18 : s[i] = HexPairToByte(args, 16 + 2 * i)
      /\ t \in Strings(Byte, 18) /\ \A i \in 1..18 : t[i] = HexPairToByte(typed, 16 + 2 * i)
  BY ParsedCode
<1> HIDE DEF s, t
<1>3. ASSUME NEW i \in 1..18, i \notin {j, j + 1} PROVE s[i] = t[i]
  <2>1. 16 + 2 * i \in 1..53 /\ (16 + 2 * i) + 1 \in 1..53
    OBVIOUS
  <2>2. /\ typed[16 + 2 * i] = args[16 + 2 * i]
        /\ typed[(16 + 2 * i) + 1] = args[(16 + 2 * i) + 1]
    BY <1>1, <1>3, <2>1, Zenon
  <2>3. HexPairToByte(args, 16 + 2 * i) = HexPairToByte(typed, 16 + 2 * i)
    BY <2>2, Zenon DEF HexPairToByte
  <2> QED
    BY <1>2, <2>3
<1>4. PICK f : Steps(f, s, 18) /\ f[18] = Residue
  BY <1>2, ValidLeavesResidue DEF s
<1>5. PICK g : Steps(g, t, 18) /\ g[18] = Residue
  BY <1>2, ValidLeavesResidue DEF t
<1> DEFINE n == 18
<1>6. /\ n \in Nat /\ j \in 1..(n - 1) /\ s \in Strings(Byte, n) /\ t \in Strings(Byte, n)
      /\ Steps(f, s, n) /\ Steps(g, t, n) /\ f[n] = g[n]
      /\ SameOutside(s, t, n, j)
  BY <1>2, <1>3, <1>4, <1>5 DEF SameOutside
<1> HIDE DEF n
<1>7. s = t
  BY <1>6, BurstIsCaught, Zenon
<1> QED
  BY <1>7 DEF s, t

\* A line with a character left out is malformed.
LEMMA TooShort ==
    ASSUME NEW args \in Strings(Byte, 53), NEW i \in 1..53
    PROVE  Malformed(RemoveAt(args, i))
<1>0. \A k \in 1..53 : args[k] \in Byte
  BY Numbers, StringAt, Zenon
<1>1. Len(args) = 53
  BY DEF Strings
<1> DEFINE u == SubSeq(args, 1, i - 1)
           v == SubSeq(args, i + 1, 53)
<1>2. u \in Seq(Byte) /\ Len(u) = i - 1
  <2>1. 1 \in Int /\ i - 1 \in Int /\ \A k \in 1..(i - 1) : args[k] \in Byte
    BY <1>0
  <2>2. u \in Seq(Byte) /\ Len(u) = IF 1 <= i - 1 THEN ((i - 1) - 1) + 1 ELSE 0
    BY <2>1, SubSeqProperties
  <2> HIDE DEF u
  <2> QED
    BY <2>2
<1>3. v \in Seq(Byte) /\ Len(v) = 53 - i
  <2>1. i + 1 \in Int /\ 53 \in Int /\ \A k \in (i + 1)..53 : args[k] \in Byte
    BY <1>0
  <2>2. v \in Seq(Byte) /\ Len(v) = IF i + 1 <= 53 THEN (53 - (i + 1)) + 1 ELSE 0
    BY <2>1, SubSeqProperties
  <2> HIDE DEF v
  <2> QED
    BY <2>2
<1>4. RemoveAt(args, i) = u \o v
  BY <1>1 DEF RemoveAt
<1> HIDE DEF u, v
<1>5. Len(u \o v) = 52
  BY <1>2, <1>3
<1> QED
  BY <1>4, <1>5 DEF Malformed

\* A slip that doubles no character leaves a malformed line, or a nearby one.
LEMMA SlipIsNearby ==
    ASSUME "doubled" \notin Kinds, NEW args \in Strings(Byte, 53), NEW typed \in Slips(args)
    PROVE  \/ Malformed(typed)
           \/ \E q \in 1..53 : \A i \in 1..53 : i \notin {q, q + 1} => typed[i] = args[i]
<1>1. args \in [1..53 -> Byte] /\ Len(args) = 53
  BY Numbers, StringIsFunction DEF Strings
<1>2. PICK kind \in Kinds : typed \in Slip(args)[kind]
  BY DEF Slips
<1>3. kind \in {"another", "left_out", "swapped"}
  BY IcAssumption DEF SlipKinds
<1>4. CASE kind = "another"
  <2>1. PICK q \in 1..53, c \in Typos : typed = [args EXCEPT ![q] = c]
    BY <1>1, <1>2, <1>4 DEF Slip, ReplaceAt
  <2>2. \A i \in 1..53 : i \notin {q, q + 1} => typed[i] = args[i]
    BY <1>1, <2>1
  <2> QED
    BY <2>2
<1>5. CASE kind = "left_out"
  <2>1. PICK i \in 1..53 : typed = RemoveAt(args, i)
    BY <1>1, <1>2, <1>5 DEF Slip
  <2> QED
    BY <2>1, TooShort
<1>6. CASE kind = "swapped"
  <2>1. PICK q \in 1..52 : typed = [args EXCEPT ![q] = args[q + 1], ![q + 1] = args[q]]
    BY <1>1, <1>2, <1>6 DEF Slip
  <2>2. \A i \in 1..53 : i \notin {q, q + 1} => typed[i] = args[i]
    BY <1>1, <2>1
  <2>3. q \in 1..53
    OBVIOUS
  <2> QED
    BY <2>2, <2>3
<1> QED
  BY <1>3, <1>4, <1>5, <1>6

\* A code is one of those printed.
OfPrint(ic) == \E line \in printed : Hex(ic) = SubSeq(line, 18, 53)

\* A code that the stack takes is one of those printed.
Harmless(ic) == Valid(ic) => OfPrint(ic)

Kept(p) ==
    /\ p \in called => Harmless(params[p].ic)
    /\ held[p] # NoPair => OfPrint(held[p].ic)

SlipInv ==
    /\ params = [p \in Programs |-> params[p]]
    /\ held = [p \in Programs |-> held[p]]
    /\ PrintedLines
    /\ \A p \in Programs : Kept(p)

\* Whatever is typed, a printed line whole or with one slip, parses to something harmless.
LEMMA TypedHarmless ==
    ASSUME "doubled" \notin Kinds, PrintedLines, NEW line \in printed,
           NEW args \in {line} \union Slips(line), ~Malformed(args)
    PROVE  Harmless(Parse(args).ic)
<1>0. PICK key \in Keys : line = Arguments(Self, CodeOf(key))
  BY DEF PrintedLines
<1> DEFINE code == CodeOf(key)
<1>1. Self \in Strings(Byte, 8) /\ code \in Strings(Byte, 18) /\ Valid(code)
  BY IcAssumption, CodesAreValid
<1> HIDE DEF code
<1>2. line = Arguments(Self, code)
  BY <1>0 DEF code
<1>3. /\ line \in Strings(Byte, 53) /\ Parse(line) = [addr |-> Self, ic |-> code]
      /\ SubSeq(line, 18, 53) = Hex(code)
  BY <1>1, <1>2, LineParses, Zenon
<1>4. Parse(line).ic = code
  BY <1>3
<1>5. OfPrint(code)
  BY <1>3, Zenon DEF OfPrint
<1>6. CASE args = line
  BY <1>4, <1>5, <1>6, Zenon DEF Harmless
<1>7. CASE args \in Slips(line)
  <2> SUFFICES ASSUME Valid(Parse(args).ic) PROVE Parse(args).ic = code
    BY <1>5, Zenon DEF Harmless
  <2>1. PICK q \in 1..53 : \A i \in 1..53 : i \notin {q, q + 1} => args[i] = line[i]
    BY <1>3, <1>7, SlipIsNearby, Zenon
  <2>2. Valid(Parse(line).ic)
    BY <1>1, <1>4, Zenon
  <2> QED
    BY <1>4, <2>1, <2>2, NearbyCodes, Zenon
<1> QED
  BY <1>6, <1>7

\* Every step keeps what the stacks hold harmless.
LEMMA NextSlipInv ==
    ASSUME "doubled" \notin Kinds, SlipInv, [IcNext]_icVars
    PROVE  SlipInv'
<1>1. CASE PrintProductionPairingCommands
  <2>1. PICK key \in Keys : printed' = printed \union {Arguments(Self, CodeOf(key))}
    BY <1>1 DEF PrintProductionPairingCommands
  <2>2. PICK kept \in {held["sensor"], NoPair} : held' = [held EXCEPT !["sensor"] = kept]
    BY <1>1 DEF PrintProductionPairingCommands
  <2>3. /\ params' = [params EXCEPT !["sensor"] = NoPair]
        /\ called' = called \ {"sensor"}
    BY <1>1 DEF PrintProductionPairingCommands
  <2>4. PrintedLines'
    BY <2>1 DEF SlipInv, PrintedLines
  <2>5. \A ic : OfPrint(ic) => OfPrint(ic)'
    BY <2>1 DEF OfPrint
  <2>6. ASSUME NEW p \in Programs PROVE Kept(p)'
    <3>1. /\ p \in called' => p \in called /\ params'[p] = params[p]
          /\ held'[p] # NoPair => held'[p] = held[p]
      BY <2>2, <2>3 DEF SlipInv, Programs
    <3>2. Kept(p)
      BY DEF SlipInv
    <3>3. p \in called' => Harmless(params[p].ic)'
      BY <2>5, <3>1, <3>2, Zenon DEF Kept, Harmless
    <3> QED
      BY <2>5, <3>1, <3>2, Zenon DEF Kept, Harmless
  <2>7. /\ params' = [p \in Programs |-> params'[p]]
        /\ held' = [p \in Programs |-> held'[p]]
    BY <2>2, <2>3 DEF SlipInv
  <2> QED
    BY <2>4, <2>6, <2>7 DEF SlipInv
<1>2. CASE OperatorTypes
  <2>1. PICK p \in Programs, line \in printed :
           \E args \in {line} \union Slips(line) : LineTyped(p, args)
    BY <1>2 DEF OperatorTypes
  <2>2. PICK args \in {line} \union Slips(line) : LineTyped(p, args)
    BY <2>1
  <2>3. printed' = printed /\ held' = held
    BY <2>2 DEF LineTyped
  <2>4. PrintedLines' /\ \A ic : OfPrint(ic)' <=> OfPrint(ic)
    BY <2>3 DEF SlipInv, PrintedLines, OfPrint
  <2>5. CASE Malformed(args)
    <3>1. UNCHANGED <<params, called>>
      BY <2>2, <2>5 DEF LineTyped
    <3> QED
      BY <2>3, <2>4, <3>1 DEF SlipInv, Kept, Harmless, OfPrint, NoPair
  <2>6. CASE ~Malformed(args)
    <3>1. params' = [params EXCEPT ![p] = Parse(args)] /\ called' = called \union {p}
      BY <2>2, <2>6 DEF LineTyped
    <3>2. Harmless(Parse(args).ic)
      BY <2>2, <2>6, TypedHarmless, Zenon DEF SlipInv
    <3>3. ASSUME NEW q \in Programs PROVE Kept(q)'
      <4>0. Kept(q)
        BY DEF SlipInv
      <4>1. CASE q = p
        <5>1. params'[q] = Parse(args)
          BY <3>1, <4>1 DEF SlipInv
        <5> QED
          BY <2>3, <2>4, <3>2, <4>0, <5>1, Zenon DEF Kept, Harmless, NoPair
      <4>2. CASE q # p
        <5>1. params'[q] = params[q] /\ (q \in called' <=> q \in called)
          BY <3>1, <4>2 DEF SlipInv
        <5> QED
          BY <2>3, <2>4, <4>0, <5>1, Zenon DEF Kept, Harmless, NoPair
      <4> QED
        BY <4>1, <4>2
    <3>4. params' = [q \in Programs |-> params'[q]]
      BY <3>1 DEF SlipInv
    <3> QED
      BY <2>3, <2>4, <3>3, <3>4 DEF SlipInv
  <2> QED
    BY <2>5, <2>6
<1>3. CASE IcAddCallback
  <2>1. ASSUME NEW p \in Programs, Kept(p) PROVE Kept(p)'
    BY <1>3, <2>1 DEF IcAddCallback, SlipInv, Kept, Harmless, OfPrint, Programs, NoPair
  <2> QED
    BY <1>3, <2>1 DEF IcAddCallback, SlipInv, PrintedLines
<1>4. CASE IcSetCallback
  <2>1. ASSUME NEW p \in Programs, Kept(p) PROVE Kept(p)'
    BY <1>4, <2>1 DEF IcSetCallback, SlipInv, Kept, Harmless, OfPrint, Programs, NoPair
  <2> QED
    BY <1>4, <2>1 DEF IcSetCallback, SlipInv, PrintedLines
<1>5. CASE UNCHANGED icVars
  BY <1>5 DEF icVars, SlipInv, PrintedLines, Kept, Harmless, OfPrint, NoPair
<1> QED
  BY <1>1, <1>2, <1>3, <1>4, <1>5 DEF IcNext

\* An operator who doubles no character may slip anywhere in any line: a code that either
\* stack takes is one the sensor printed, whatever its keys.
THEOREM NoOtherKeyIsTaken ==
    ASSUME "doubled" \notin Kinds
    PROVE  IcSpec => []OnlyThePrintedKey
<1>1. IcInit => SlipInv
  BY DEF IcInit, SlipInv, PrintedLines, Kept, NoPair
<1>2. SlipInv => OnlyThePrintedKey
  BY DEF SlipInv, Kept, OfPrint, OnlyThePrintedKey
<1>3. SlipInv /\ [IcNext]_icVars => SlipInv'
  BY NextSlipInv
<1> QED
  BY <1>1, <1>2, <1>3, PTL DEF IcSpec
================================================================================
