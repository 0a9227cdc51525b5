---------------------------- MODULE ParserProofs -----------------------------
(***************************************************************************)
(* Proofs about the parts that read text: the numbers of util.cc, the      *)
(* options of both programs and the MPD parser.                            *)
(***************************************************************************)
EXTENDS MCPrograms, StreamProofs

-----------------------------------------------------------------------------
(* Util: what the recursive functions on digits compute.                     *)
LEMMA PushDigitTyped ==
  ASSUME NEW res \in 0 .. MaxUint \cup {Error}, NEW d \in 0 .. 9
  PROVE  /\ PushDigit(res, d) \in 0 .. MaxUint \cup {Error}
         /\ res = Error => PushDigit(res, d) = Error
         /\ res # Error => PushDigit(res, d) = IF 10 * res + d <= MaxUint THEN 10 * res + d ELSE Error
<1> USE UtilAssumption DEF Error
<1>1. CASE res = Error
  BY <1>1 DEF PushDigit
<1>2. CASE res # Error
  <2>1. res \in Nat /\ MaxUint - d \in Nat
    BY <1>2
  <2>2. res > (MaxUint - d) \div 10 <=> 10 * res + d > MaxUint
    BY <2>1
  <2>3. 10 * res + d <= MaxUint => Wrap(res * 10 + d) = 10 * res + d
    BY <2>1 DEF Wrap
  <2> QED BY <1>2, <2>1, <2>2, <2>3 DEF PushDigit
<1> QED BY <1>1, <1>2

\* The loop of parse_uint_internal and that of Number.
Pushed(digits, res) ==
  res = [i \in 0 .. Len(digits) |-> IF i = 0 THEN 0 ELSE PushDigit(res[i - 1], digits[i])]

Numbered(digits, value) ==
  value = [i \in 0 .. Len(digits) |-> IF i = 0 THEN 0 ELSE 10 * value[i - 1] + digits[i]]

LEMMA PushedExists ==
  ASSUME NEW digits \in Seq(0 .. 9)
  PROVE  \E res : Pushed(digits, res) /\ PushDigits(digits) = res[Len(digits)]
<1> DEFINE Upto(k, res) ==
      res = [i \in 0 .. k |-> IF i = 0 THEN 0 ELSE PushDigit(res[i - 1], digits[i])]
    T == {k \in Nat : \E res : Upto(k, res)}
<1>1. 0 \in T
  <2> DEFINE res == [i \in 0 .. 0 |-> 0]
  <2>1. Upto(0, res)
    OBVIOUS
  <2> QED BY <2>1
<1>2. ASSUME NEW k \in Nat, k \in T PROVE k + 1 \in T
  <2>1. PICK res : Upto(k, res)
    BY <1>2
  <2> DEFINE more == [i \in 0 .. k + 1 |-> IF i = k + 1 THEN PushDigit(res[k], digits[k + 1]) ELSE res[i]]
  <2>2. \A i \in 0 .. k + 1 : more[i] = IF i = 0 THEN 0 ELSE PushDigit(more[i - 1], digits[i])
    BY <2>1
  <2>3. more = [i \in 0 .. k + 1 |-> more[i]]
    OBVIOUS
  <2>4. Upto(k + 1, more)
    <3> HIDE DEF more
    <3> QED BY <2>2, <2>3
  <2>5. \E g : Upto(k + 1, g)
    <3> HIDE DEF Upto, more
    <3> QED BY <2>4
  <2> QED BY <2>5
<1>3. Len(digits) \in T
  <2> HIDE DEF T
  <2> QED BY <1>1, <1>2, NatSetInduction
<1>4. \E res : Pushed(digits, res)
  BY <1>3 DEF Pushed
<1>5. PushDigits(digits) = (CHOOSE res : Pushed(digits, res))[Len(digits)]
  BY DEF PushDigits, Pushed
<1> QED BY <1>4, <1>5

LEMMA NumberedExists ==
  ASSUME NEW digits \in Seq(0 .. 9)
  PROVE  \E value : Numbered(digits, value) /\ Number(digits) = value[Len(digits)]
<1> DEFINE Upto(k, value) ==
      value = [i \in 0 .. k |-> IF i = 0 THEN 0 ELSE 10 * value[i - 1] + digits[i]]
    T == {k \in Nat : \E value : Upto(k, value)}
<1>1. 0 \in T
  <2> DEFINE value == [i \in 0 .. 0 |-> 0]
  <2>1. Upto(0, value)
    OBVIOUS
  <2> QED BY <2>1
<1>2. ASSUME NEW k \in Nat, k \in T PROVE k + 1 \in T
  <2>1. PICK value : Upto(k, value)
    BY <1>2
  <2> DEFINE more == [i \in 0 .. k + 1 |-> IF i = k + 1 THEN 10 * value[k] + digits[k + 1] ELSE value[i]]
  <2>2. \A i \in 0 .. k + 1 : more[i] = IF i = 0 THEN 0 ELSE 10 * more[i - 1] + digits[i]
    BY <2>1
  <2>3. more = [i \in 0 .. k + 1 |-> more[i]]
    OBVIOUS
  <2>4. Upto(k + 1, more)
    <3> HIDE DEF more
    <3> QED BY <2>2, <2>3
  <2>5. \E g : Upto(k + 1, g)
    <3> HIDE DEF Upto, more
    <3> QED BY <2>4
  <2> QED BY <2>5
<1>3. Len(digits) \in T
  <2> HIDE DEF T
  <2> QED BY <1>1, <1>2, NatSetInduction
<1>4. \E value : Numbered(digits, value)
  BY <1>3 DEF Numbered
<1>5. Number(digits) = (CHOOSE value : Numbered(digits, value))[Len(digits)]
  BY DEF Number, Numbered
<1> QED BY <1>4, <1>5

LEMMA NumbersTyped ==
  ASSUME NEW digits \in Seq(0 .. 9), NEW value, Numbered(digits, value)
  PROVE  /\ value[0] = 0
         /\ \A i \in 0 .. Len(digits) : value[i] \in Nat
         /\ \A i \in 1 .. Len(digits) : value[i] = 10 * value[i - 1] + digits[i]
<1>1. Len(digits) \in Nat /\ \A i \in 1 .. Len(digits) : digits[i] \in Nat
  OBVIOUS
<1>2. value[0] = 0 /\ \A i \in 1 .. Len(digits) : value[i] = 10 * value[i - 1] + digits[i]
  BY <1>1 DEF Numbered
<1> DEFINE T == {i \in Nat : i <= Len(digits) => value[i] \in Nat}
<1>3. 0 \in T
  BY <1>2
<1>4. ASSUME NEW i \in Nat, i \in T PROVE i + 1 \in T
  <2> SUFFICES ASSUME i + 1 <= Len(digits) PROVE value[i + 1] \in Nat
    OBVIOUS
  <2>1. i + 1 \in 1 .. Len(digits) /\ (i + 1) - 1 = i /\ value[i] \in Nat
    BY <1>1, <1>4
  <2> QED BY <1>1, <1>2, <2>1
<1>5. \A i \in Nat : i \in T
  <2> HIDE DEF T
  <2> QED BY <1>3, <1>4, NatSetInduction
<1> QED BY <1>1, <1>2, <1>5

\* The loop has read what the digits say so far, or has found it too large.
LEMMA PushDigitsIs ==
  ASSUME NEW digits \in Seq(0 .. 9)
  PROVE  /\ Number(digits) \in Nat
         /\ PushDigits(digits) = IF Number(digits) <= MaxUint THEN Number(digits) ELSE Error
<1>1. PICK res : Pushed(digits, res) /\ PushDigits(digits) = res[Len(digits)]
  BY PushedExists
<1>2. PICK value : Numbered(digits, value) /\ Number(digits) = value[Len(digits)]
  BY NumberedExists
<1>3. /\ value[0] = 0
      /\ \A i \in 0 .. Len(digits) : value[i] \in Nat
      /\ \A i \in 1 .. Len(digits) : value[i] = 10 * value[i - 1] + digits[i]
  BY <1>2, NumbersTyped
<1>4. Len(digits) \in Nat /\ \A i \in 1 .. Len(digits) : digits[i] \in 0 .. 9
  OBVIOUS
<1>5. res[0] = 0 /\ \A i \in 1 .. Len(digits) : res[i] = PushDigit(res[i - 1], digits[i])
  BY <1>1, <1>4 DEF Pushed
<1> DEFINE ReadTo(i) == res[i] = IF value[i] <= MaxUint THEN value[i] ELSE Error
    T == {i \in Nat : i <= Len(digits) => ReadTo(i)}
<1>6. 0 \in T
  BY <1>3, <1>5, UtilAssumption
<1>7. ASSUME NEW i \in Nat, i \in T PROVE i + 1 \in T
  <2> SUFFICES ASSUME i + 1 <= Len(digits) PROVE ReadTo(i + 1)
    OBVIOUS
  <2>1. i + 1 \in 1 .. Len(digits) /\ (i + 1) - 1 = i /\ i \in 0 .. Len(digits) /\ ReadTo(i)
    BY <1>4, <1>7
  <2> DEFINE n == value[i]
             d == digits[i + 1]
  <2>2. n \in Nat /\ d \in 0 .. 9 /\ value[i + 1] = 10 * n + d
    BY <1>3, <1>4, <2>1
  <2>3. res[i + 1] = PushDigit(res[i], d)
    BY <1>5, <2>1
  <2>4. res[i] = IF n <= MaxUint THEN n ELSE Error
    BY <2>1
  <2> HIDE DEF n, d
  <2>5. res[i] \in 0 .. MaxUint \cup {Error}
    BY <2>2, <2>4, UtilAssumption
  <2>6. res[i + 1] = IF 10 * n + d <= MaxUint THEN 10 * n + d ELSE Error
    <3>1. CASE n <= MaxUint
      <4>1. res[i] # Error
        BY <2>2, <2>4, <3>1 DEF Error
      <4> QED BY <2>2, <2>3, <2>4, <2>5, <3>1, <4>1, PushDigitTyped
    <3>2. CASE ~ (n <= MaxUint)
      <4>1. ~ (10 * n + d <= MaxUint)
        BY <2>2, <3>2, UtilAssumption
      <4> QED BY <2>2, <2>3, <2>4, <2>5, <3>2, <4>1, PushDigitTyped
    <3> QED BY <3>1, <3>2
  <2> QED BY <2>2, <2>6
<1>8. \A i \in Nat : i \in T
  <2> HIDE DEF T
  <2> QED BY <1>6, <1>7, NatSetInduction
<1> QED BY <1>1, <1>2, <1>3, <1>4, <1>8

LEMMA TimesIs ==
  ASSUME NEW res \in 0 .. MaxUint, NEW m \in 1 .. MaxUint
  PROVE  Times(res, m) = IF res * m <= MaxUint THEN res * m ELSE Error
<1> USE UtilAssumption
<1> DEFINE q == MaxUint \div m
           r == MaxUint % m
<1>1. q \in Nat /\ r \in 0 .. m - 1 /\ MaxUint = m * q + r
  OBVIOUS
<1>2. res \in Nat /\ m \in Nat /\ res * m \in Nat
  OBVIOUS
<1> HIDE DEF q, r
<1>3. res > q => res * m > MaxUint
  <2> SUFFICES ASSUME res > q PROVE res * m > MaxUint
    OBVIOUS
  <2>1. PICK k \in Nat : res = q + 1 + k
    BY <1>1, res - q - 1 \in Nat
  <2>2. k * m \in Nat /\ res * m = q * m + m + k * m
    BY <1>1, <1>2, <2>1
  <2> QED BY <1>1, <1>2, <2>2
<1>4. res <= q => res * m <= MaxUint
  <2> SUFFICES ASSUME res <= q PROVE res * m <= MaxUint
    OBVIOUS
  <2>1. PICK k \in Nat : q = res + k
    BY <1>1, q - res \in Nat
  <2>2. k * m \in Nat /\ q * m = res * m + k * m
    BY <1>1, <1>2, <2>1
  <2> QED BY <1>1, <1>2, <2>2
<1>5. res * m <= MaxUint => Wrap(res * m) = res * m
  BY <1>2 DEF Wrap
<1> QED BY <1>1, <1>2, <1>3, <1>4, <1>5 DEF Times, q

-----------------------------------------------------------------------------
LEMMA NumberOfAppend ==
  ASSUME NEW digits \in Seq(0 .. 9), NEW d \in 0 .. 9
  PROVE  Number(Append(digits, d)) = 10 * Number(digits) + d
<1> DEFINE longer == Append(digits, d)
<1>1. /\ longer \in Seq(0 .. 9) /\ Len(digits) \in Nat /\ Len(longer) = Len(digits) + 1
      /\ longer[Len(digits) + 1] = d
      /\ \A i \in 1 .. Len(digits) : longer[i] = digits[i]
  OBVIOUS
<1> HIDE DEF longer
<1>2. PICK value : Numbered(digits, value) /\ Number(digits) = value[Len(digits)]
  BY NumberedExists
<1>3. PICK more : Numbered(longer, more) /\ Number(longer) = more[Len(longer)]
  BY <1>1, NumberedExists
<1>4. /\ value[0] = 0
      /\ \A i \in 1 .. Len(digits) : value[i] = 10 * value[i - 1] + digits[i]
  BY <1>2, NumbersTyped
<1>5. /\ more[0] = 0
      /\ \A i \in 1 .. Len(longer) : more[i] = 10 * more[i - 1] + longer[i]
  BY <1>1, <1>3, NumbersTyped
<1> DEFINE T == {i \in Nat : i <= Len(digits) => more[i] = value[i]}
<1>6. 0 \in T
  BY <1>4, <1>5
<1>7. ASSUME NEW i \in Nat, i \in T PROVE i + 1 \in T
  <2> SUFFICES ASSUME i + 1 <= Len(digits) PROVE more[i + 1] = value[i + 1]
    OBVIOUS
  <2>1. /\ i + 1 \in 1 .. Len(digits) /\ i + 1 \in 1 .. Len(longer)
        /\ (i + 1) - 1 = i /\ more[i] = value[i]
    BY <1>1, <1>7
  <2> QED BY <1>1, <1>4, <1>5, <2>1
<1>8. \A i \in Nat : i \in T
  <2> HIDE DEF T
  <2> QED BY <1>6, <1>7, NatSetInduction
<1>9. more[Len(digits)] = value[Len(digits)]
  BY <1>1, <1>8
<1>10. more[Len(digits) + 1] = 10 * more[Len(digits)] + d
  <2>1. Len(digits) + 1 \in 1 .. Len(longer) /\ (Len(digits) + 1) - 1 = Len(digits)
    BY <1>1
  <2> QED BY <1>1, <1>5, <2>1
<1> QED BY <1>1, <1>2, <1>3, <1>9, <1>10 DEF longer

LEMMA NumberOfNone == Number(<<>>) = 0
<1>1. <<>> \in Seq(0 .. 9) /\ Len(<<>>) = 0
  OBVIOUS
<1>2. PICK value : Numbered(<<>>, value) /\ Number(<<>>) = value[Len(<<>>)]
  BY <1>1, NumberedExists
<1> QED BY <1>1, <1>2, NumbersTyped

\* The digits of every value up to n.
Formatted(n, res) ==
  res = [k \in 0 .. n |-> Append(IF k < 10 THEN <<>> ELSE res[k \div 10], k % 10)]

LEMMA FormattedExists ==
  ASSUME NEW n \in Nat
  PROVE  \E res : Formatted(n, res) /\ format_uint(n) = res[n]
<1> DEFINE T == {k \in Nat : \E res : Formatted(k, res)}
<1>1. 0 \in T
  <2> DEFINE res == [k \in 0 .. 0 |-> Append(<<>>, 0)]
  <2>1. Formatted(0, res)
    BY DEF Formatted
  <2> QED BY <2>1
<1>2. ASSUME NEW k \in Nat, k \in T PROVE k + 1 \in T
  <2>1. PICK res : Formatted(k, res)
    BY <1>2
  <2> DEFINE last == Append(IF k + 1 < 10 THEN <<>> ELSE res[(k + 1) \div 10], (k + 1) % 10)
             more == [j \in 0 .. k + 1 |-> IF j = k + 1 THEN last ELSE res[j]]
  <2>2. ASSUME NEW j \in 0 .. k + 1
        PROVE  more[j] = Append(IF j < 10 THEN <<>> ELSE more[j \div 10], j % 10)
    <3>1. ~ (j < 10) => j \div 10 \in 0 .. k /\ j \div 10 # k + 1
      OBVIOUS
    <3>2. ~ (j < 10) => more[j \div 10] = res[j \div 10]
      BY <3>1
    <3>3. CASE j = k + 1
      <4>1. more[j] = last
        BY <3>3
      <4>2. last = Append(IF j < 10 THEN <<>> ELSE res[j \div 10], j % 10)
        BY <3>3
      <4> HIDE DEF more, last
      <4> QED BY <4>1, <4>2, <3>2
    <3>4. CASE j # k + 1
      <4>1. j \in 0 .. k
        BY <3>4
      <4>2. more[j] = res[j]
        BY <3>4
      <4>3. res[j] = Append(IF j < 10 THEN <<>> ELSE res[j \div 10], j % 10)
        BY <2>1, <4>1 DEF Formatted
      <4> HIDE DEF more, last
      <4> QED BY <4>2, <4>3, <3>2
    <3> QED BY <3>3, <3>4
  <2>3. more = [j \in 0 .. k + 1 |-> more[j]]
    OBVIOUS
  <2>4. Formatted(k + 1, more)
    <3> HIDE DEF more
    <3> QED BY <2>2, <2>3 DEF Formatted
  <2>5. \E g : Formatted(k + 1, g)
    <3> HIDE DEF more
    <3> QED BY <2>4
  <2> QED BY <2>5
<1>3. \E res : Formatted(n, res)
  <2> HIDE DEF T
  <2>1. n \in T
    BY <1>1, <1>2, NatSetInduction
  <2> QED BY <2>1 DEF T
<1>4. format_uint(n) = (CHOOSE res : Formatted(n, res))[n]
  BY DEF format_uint, Formatted
<1> QED BY <1>3, <1>4

LEMMA FormatUintIs ==
  ASSUME NEW n \in Nat
  PROVE  /\ format_uint(n) \in Seq(0 .. 9) /\ format_uint(n) # <<>>
         /\ Number(format_uint(n)) = n
<1>1. PICK res : Formatted(n, res) /\ format_uint(n) = res[n]
  BY FormattedExists
<1>2. \A k \in 0 .. n : res[k] = Append(IF k < 10 THEN <<>> ELSE res[k \div 10], k % 10)
  BY <1>1 DEF Formatted
<1> DEFINE Reads(k) == res[k] \in Seq(0 .. 9) /\ res[k] # <<>> /\ Number(res[k]) = k
    T == {j \in Nat : \A k \in 0 .. n : k <= j => Reads(k)}
<1>3. ASSUME NEW s \in Seq(0 .. 9), NEW d \in 0 .. 9, NEW k \in 0 .. n,
             res[k] = Append(s, d), 10 * Number(s) + d = k
      PROVE  Reads(k)
  <2>1. Append(s, d) \in Seq(0 .. 9) /\ Append(s, d) # <<>>
    <3>1. Append(s, d) \in Seq(0 .. 9)
      OBVIOUS
    <3>2. Len(s) \in Nat /\ Len(Append(s, d)) = Len(s) + 1
      OBVIOUS
    <3>3. Len(<<>>) = 0
      OBVIOUS
    <3> QED BY <3>1, <3>2, <3>3
  <2>2. Number(Append(s, d)) = 10 * Number(s) + d
    BY NumberOfAppend
  <2> QED BY <1>3, <2>1, <2>2
<1>4. ASSUME NEW k \in 0 .. n, k < 10 PROVE Reads(k)
  <2>1. res[k] = Append(<<>>, k % 10)
    BY <1>2, <1>4
  <2>2. k % 10 \in 0 .. 9 /\ 10 * 0 + (k % 10) = k /\ <<>> \in Seq(0 .. 9)
    BY <1>4
  <2> HIDE DEF Reads
  <2> QED BY <1>3, <2>1, <2>2, NumberOfNone
<1>5. ASSUME NEW k \in 0 .. n, ~ (k < 10), Reads(k \div 10) PROVE Reads(k)
  <2>1. res[k] = Append(res[k \div 10], k % 10)
    BY <1>2, <1>5
  <2>2. k % 10 \in 0 .. 9 /\ 10 * (k \div 10) + (k % 10) = k
    BY <1>5
  <2>3. res[k \div 10] \in Seq(0 .. 9) /\ Number(res[k \div 10]) = k \div 10
    BY <1>5
  <2> HIDE DEF Reads
  <2> QED BY <1>3, <2>1, <2>2, <2>3
<1>6. 0 \in T
  BY <1>4
<1>7. ASSUME NEW j \in Nat, j \in T PROVE j + 1 \in T
  <2> SUFFICES ASSUME NEW k \in 0 .. n, k <= j + 1 PROVE Reads(k)
    OBVIOUS
  <2>1. CASE k < 10
    BY <1>4, <2>1
  <2>2. CASE ~ (k < 10)
    <3>1. k \div 10 \in 0 .. n /\ k \div 10 <= j
      BY <2>2
    <3>2. Reads(k \div 10)
      BY <1>7, <3>1
    <3> QED BY <1>5, <2>2, <3>2
  <2> QED BY <2>1, <2>2
<1>8. \A j \in Nat : j \in T
  <2> HIDE DEF T
  <2> QED BY <1>6, <1>7, NatSetInduction
<1>9. Reads(n)
  <2>1. n \in 0 .. n /\ n <= n
    OBVIOUS
  <2>2. n \in T
    BY <1>8
  <2> HIDE DEF Reads
  <2> QED BY <2>1, <2>2
<1> QED BY <1>1, <1>9

-----------------------------------------------------------------------------
LEMMA ScaledIs ==
  ASSUME NEW n \in Nat, NEW w \in 1 .. MaxUint
  PROVE  /\ n * w \in Nat
         /\ (IF n <= MaxUint THEN Times(n, w) ELSE Error) =
              IF n * w <= MaxUint THEN n * w ELSE Error
<1>1. MaxUint \in Nat /\ w \in Nat /\ w >= 1
  BY UtilAssumption
<1>2. n * w \in Nat
  BY <1>1
<1>3. n * w >= n
  <2>1. PICK k \in Nat : w = k + 1
    BY <1>1, w - 1 \in Nat
  <2>2. n * k \in Nat /\ n * w = n * k + n
    BY <2>1
  <2> QED BY <2>2
<1>4. CASE n <= MaxUint
  <2>1. n \in 0 .. MaxUint
    BY <1>1, <1>4
  <2> QED BY <1>2, <1>4, <2>1, TimesIs
<1>5. CASE ~ (n <= MaxUint)
  BY <1>1, <1>2, <1>3, <1>5
<1> QED BY <1>4, <1>5

\* What a text is read as, with the units of a list.
LEMMA ParseIs ==
  ASSUME NEW t, IsText(t), NEW units, units \subseteq SizeUnits \cup DurationUnits
  PROVE  /\ ~t.negative /\ t.rest \in units \cup {NoUnit} /\ ~ (t.digits = <<>> /\ t.rest = NoUnit) =>
              /\ Says(t) \in Nat
              /\ ParseWith(t, units) = IF Says(t) <= MaxUint THEN Says(t) ELSE Error
         /\ t.rest \notin units \cup {NoUnit} \/ (t.digits = <<>> /\ t.rest = NoUnit) =>
              ParseWith(t, units) = Error
         /\ t.negative => ParseWith(t, units) = Error
<1>1. t.digits \in Seq(0 .. 9) /\ t.negative \in BOOLEAN
  BY DEF IsText
<1>8. t.negative => ParseWith(t, units) = Error
  BY DEF ParseWith
<1>2. \A u \in units : Worth[u] \in 1 .. MaxUint /\ u # NoUnit
  BY UtilAssumption DEF SizeUnits, DurationUnits, NoUnit
<1>0. MaxUint \in Nat
  BY UtilAssumption
<1> DEFINE n == Number(t.digits)
<1>3. n \in Nat /\ PushDigits(t.digits) = IF n <= MaxUint THEN n ELSE Error
  BY <1>1, PushDigitsIs
<1>7. Says(t) = n * (IF t.rest = NoUnit THEN 1 ELSE Worth[t.rest])
  BY DEF Says
<1> HIDE DEF n
<1>4. Error \notin Nat
  BY DEF Error
<1>5. CASE t.digits = <<>> /\ t.rest = NoUnit
  BY <1>5 DEF ParseWith, parse_uint_internal
<1>6. CASE ~ (t.digits = <<>> /\ t.rest = NoUnit)
  <2>1. parse_uint_internal(t) = IF n <= MaxUint THEN n ELSE Error
    BY <1>3, <1>6 DEF parse_uint_internal
  <2>2. CASE t.rest = NoUnit
    <3>1. Says(t) = n
      <4>1. Says(t) = n * 1
        BY <1>7, <2>2, Zenon
      <4> QED BY <1>3, <4>1
    <3>2. ~t.negative => ParseWith(t, units) = IF n <= MaxUint THEN n ELSE Error
      BY <1>3, <1>4, <2>1, <2>2 DEF ParseWith
    <3> QED BY <1>3, <1>8, <2>2, <3>1, <3>2, <1>6
  <2>3. CASE t.rest \in units
    <3>1. Worth[t.rest] \in 1 .. MaxUint /\ t.rest # NoUnit
      BY <1>2, <2>3
    <3>2. Says(t) = n * Worth[t.rest]
      BY <1>7, <3>1
    <3>3. ~t.negative => ParseWith(t, units) = IF n <= MaxUint THEN Times(n, Worth[t.rest]) ELSE Error
      BY <1>3, <1>4, <2>1, <2>3, <3>1 DEF ParseWith
    <3> QED BY <1>3, <1>6, <1>8, <2>3, <3>1, <3>2, <3>3, ScaledIs
  <2>4. CASE t.rest \notin units \cup {NoUnit}
    BY <2>4 DEF ParseWith
  <2> QED BY <1>6, <2>2, <2>3, <2>4
<1> QED BY <1>5, <1>6, <1>8

-----------------------------------------------------------------------------
\* The unit that is shown divides the value.
LEMMA LargestUnitIs ==
  ASSUME NEW n \in Nat, NEW units, units \subseteq SizeUnits \cup DurationUnits,
         LargestUnit(n, units) # NoUnit
  PROVE  /\ LargestUnit(n, units) \in units
         /\ n % Worth[LargestUnit(n, units)] = 0
<1> DEFINE dividing == {u \in units : n >= Worth[u] /\ n % Worth[u] = 0}
           S == {Worth[u] : u \in dividing}
<1>1. dividing # {}
  BY DEF LargestUnit
<1>2. \A u \in units : Worth[u] \in Nat
  <2>1. \A u \in units : Worth[u] \in 1 .. MaxUint
    BY UtilAssumption
  <2>2. MaxUint \in Nat
    BY UtilAssumption
  <2> QED BY <2>1, <2>2
<1>3. S \in SUBSET Nat /\ S # {} /\ \A s \in S : s <= n
  BY <1>1, <1>2
<1>4. \E s \in S : \A r \in S : r <= s
  <2> HIDE DEF S
  <2> QED BY <1>3, Greatest
<1>5. \E u \in dividing : \A v \in dividing : Worth[v] <= Worth[u]
  BY <1>4
<1>6. LargestUnit(n, units) = CHOOSE u \in dividing : \A v \in dividing : Worth[v] <= Worth[u]
  BY <1>1 DEF LargestUnit
<1>7. LargestUnit(n, units) \in dividing
  <2> HIDE DEF dividing
  <2> QED BY <1>5, <1>6
<1> QED BY <1>7

LEMMA DivExact ==
  ASSUME NEW n \in Nat, NEW w \in 1 .. MaxUint, n % w = 0
  PROVE  n \div w \in Nat /\ (n \div w) * w = n
<1>1. w \in Nat /\ w > 0
  BY UtilAssumption
<1> QED BY <1>1

\* What is shown with one of the units, or without, says the value.
LEMMA FormatWithSays ==
  ASSUME NEW n \in Nat, NEW unit \in SizeUnits \cup DurationUnits \cup {NoUnit},
         unit # NoUnit => n % Worth[unit] = 0
  PROVE  /\ IsText(FormatWith(n, unit))
         /\ FormatWith(n, unit).digits # <<>> /\ ~FormatWith(n, unit).negative
         /\ FormatWith(n, unit).rest = unit
         /\ Says(FormatWith(n, unit)) = n
<1> DEFINE m == IF unit = NoUnit THEN n ELSE n \div Worth[unit]
           w == IF unit = NoUnit THEN 1 ELSE Worth[unit]
           shown == [negative |-> FALSE, digits |-> format_uint(m), rest |-> unit]
<1>2. m \in Nat /\ m * w = n
  <2>1. CASE unit = NoUnit
    <3>1. m = n /\ w = 1
      BY <2>1, Zenon
    <3> HIDE DEF m, w
    <3> QED BY <3>1
  <2>2. CASE unit # NoUnit
    <3>1. m = n \div Worth[unit] /\ w = Worth[unit]
      BY <2>2, Zenon
    <3>2. Worth[unit] \in 1 .. MaxUint /\ n % Worth[unit] = 0
      BY <2>2, UtilAssumption
    <3> QED BY <3>1, <3>2, DivExact
  <2> QED BY <2>1, <2>2
<1>3. FormatWith(n, unit) = [negative |-> FALSE, digits |-> format_uint(m), rest |-> unit]
  BY DEF FormatWith
<1>4. Says(shown) = Number(format_uint(m)) * w
  BY DEF Says
<1> HIDE DEF m, w
<1>5. /\ format_uint(m) \in Seq(0 .. 9) /\ format_uint(m) # <<>>
      /\ Number(format_uint(m)) = m
  BY <1>2, FormatUintIs
<1>6. IsText(shown)
  BY <1>5 DEF IsText
<1>7. Says(shown) = n
  BY <1>2, <1>4, <1>5
<1>8. shown.digits # <<>> /\ ~shown.negative
  BY <1>5
<1>9. shown.rest = unit
  OBVIOUS
<1> QED BY <1>3, <1>6, <1>7, <1>8, <1>9, Zenon

LEMMA SizesReadBack ==
  ASSUME NEW n \in 0 .. MaxUint
  PROVE  parse_uint_iec(format_uint_iec(n)) = n
<1> DEFINE unit == LargestUnit(n, SizeUnits)
<1>1. n \in Nat /\ n <= MaxUint
  BY UtilAssumption
<1>2. unit \in SizeUnits \cup {NoUnit} /\ (unit # NoUnit => n % Worth[unit] = 0)
  BY <1>1, LargestUnitIs
<1>3. format_uint_iec(n) = FormatWith(n, unit)
  BY DEF format_uint_iec
<1> HIDE DEF unit
<1>4. /\ IsText(FormatWith(n, unit)) /\ FormatWith(n, unit).digits # <<>>
      /\ ~FormatWith(n, unit).negative
      /\ FormatWith(n, unit).rest = unit /\ Says(FormatWith(n, unit)) = n
  BY <1>1, <1>2, FormatWithSays
<1>5. ParseWith(FormatWith(n, unit), SizeUnits) = n
  BY <1>1, <1>2, <1>4, ParseIs
<1> QED BY <1>3, <1>5 DEF parse_uint_iec

LEMMA DurationsReadBack ==
  ASSUME NEW n \in 0 .. MaxUint
  PROVE  parse_duration(format_duration(n)) = n
<1> DEFINE largest == LargestUnit(n, DurationUnits)
           unit == IF largest = NoUnit THEN "ns" ELSE largest
<1>1. n \in Nat /\ n <= MaxUint
  BY UtilAssumption
<1>2. unit \in DurationUnits /\ n % Worth[unit] = 0
  <2>1. CASE largest = NoUnit
    <3>1. n % 1 = 0
      BY <1>1
    <3> QED BY <2>1, <3>1, UtilAssumption DEF DurationUnits
  <2>2. CASE largest # NoUnit
    BY <1>1, <2>2, LargestUnitIs
  <2> QED BY <2>1, <2>2
<1>3. format_duration(n) = FormatWith(n, unit)
  BY DEF format_duration
<1> HIDE DEF unit
<1>4. /\ IsText(FormatWith(n, unit)) /\ FormatWith(n, unit).digits # <<>>
      /\ ~FormatWith(n, unit).negative
      /\ FormatWith(n, unit).rest = unit /\ Says(FormatWith(n, unit)) = n
  BY <1>1, <1>2, FormatWithSays
<1>5. ParseWith(FormatWith(n, unit), DurationUnits) = n
  BY <1>1, <1>2, <1>4, ParseIs
<1> QED BY <1>3, <1>5 DEF parse_duration

(***************************************************************************)
(* No value and no text is read wrong: src/util.cc, for any width of its  *)
(* integers and any units.                                                 *)
(***************************************************************************)
THEOREM NumbersCorrect ==
  ASSUME NEW n \in 0 .. MaxUint, NEW t, IsText(t),
         t.negative \/ ~ (t.digits = <<>> /\ t.rest = NoUnit)
  PROVE  ReadsAs(n, t)
<1>1. parse_uint_iec(format_uint_iec(n)) = n /\ parse_duration(format_duration(n)) = n
  BY SizesReadBack, DurationsReadBack
<1> DEFINE said == IF t.negative \/ Says(t) > MaxUint THEN Error ELSE Says(t)
<1>2. ASSUME NEW units, units \subseteq SizeUnits \cup DurationUnits, t.rest \in units \cup {NoUnit}
      PROVE  ParseWith(t, units) = said
  <2>1. MaxUint \in Nat
    BY UtilAssumption
  <2>2. CASE t.negative
    BY <1>2, <2>2, ParseIs
  <2>3. CASE ~t.negative
    <3>1. /\ Says(t) \in Nat
          /\ ParseWith(t, units) = IF Says(t) <= MaxUint THEN Says(t) ELSE Error
      BY <1>2, <2>3, ParseIs
    <3>2. Says(t) <= MaxUint <=> ~ (Says(t) > MaxUint)
      BY <2>1, <3>1
    <3> QED BY <2>3, <3>1, <3>2
  <2> QED BY <2>2, <2>3
<1> HIDE DEF said
<1>3. /\ t.rest \in DurationUnits => parse_duration(t) = said
      /\ t.rest \in SizeUnits \cup {NoUnit} => parse_uint_iec(t) = said
  BY <1>2 DEF parse_duration, parse_uint_iec
<1> QED BY <1>1, <1>3 DEF ReadsAs, said

-----------------------------------------------------------------------------
(* Options.                                                                  *)

\* A count without a minus sign is its number, or the greatest of its type.
LEMMA CountIs ==
  ASSUME NEW arg, IsText(arg), ~arg.negative
  PROVE  Counts(arg, MaxUint, strtoull(arg))
<1>1. Number(arg.digits) \in Nat /\ Signed(arg) = Number(arg.digits)
  BY PushDigitsIs DEF IsText, Signed
<1>2. MaxUint \in Nat
  BY UtilAssumption
<1>3. \A n \in 0 .. MaxUint : Wrap(n) = n
  BY <1>2 DEF Wrap
<1> QED BY <1>1, <1>2, <1>3 DEF Counts, strtoull

LEMMA LongIs ==
  ASSUME NEW arg, IsText(arg), ~arg.negative
  PROVE  Counts(arg, MaxLong, Wrap(strtol(arg)))
<1>1. Number(arg.digits) \in Nat /\ Signed(arg) = Number(arg.digits)
  BY PushDigitsIs DEF IsText, Signed
<1>2. MaxUint \in Nat
  BY UtilAssumption
<1>3. MaxLong \in 0 .. MaxUint /\ MinLong < 0
  BY <1>2 DEF MaxLong, MinLong
<1>4. \A n \in 0 .. MaxUint : Wrap(n) = n
  BY <1>2 DEF Wrap
<1>5. strtol(arg) = IF Number(arg.digits) <= MaxLong THEN Number(arg.digits) ELSE MaxLong
  <2>1. MaxLong \in Nat /\ MinLong \in Int
    BY <1>2 DEF MaxLong, MinLong
  <2>2. CASE Number(arg.digits) <= MaxLong
    <3>1. ~ (Signed(arg) > MaxLong) /\ ~ (Signed(arg) < MinLong)
      BY <1>1, <1>3, <2>1, <2>2
    <3> QED BY <1>1, <2>2, <3>1 DEF strtol
  <2>3. CASE ~ (Number(arg.digits) <= MaxLong)
    <3>1. Signed(arg) > MaxLong
      BY <1>1, <2>1, <2>3
    <3> QED BY <2>3, <3>1 DEF strtol
  <2> QED BY <2>2, <2>3
<1> QED BY <1>1, <1>2, <1>3, <1>4, <1>5 DEF Counts

\* An argument that is not refused has been read for what it means.
LEMMA ReadMeans ==
  ASSUME NEW kind \in OptionKinds, NEW arg, IsText(arg), Read(kind, arg) # Error
  PROVE  Means(kind, arg, Read(kind, arg))
<1>1. Number(arg.digits) \in Nat
  BY PushDigitsIs DEF IsText
<1>2. CASE kind \in {"duration", "size"}
  <2>1. CASE kind = "duration"
    <3>1. Read(kind, arg) = ParseWith(arg, DurationUnits)
      BY <2>1 DEF Read, parse_duration
    <3>2. ParseWith(arg, DurationUnits) = Says(arg) /\ ~arg.negative
      BY <3>1, ParseIs
    <3> QED BY <2>1, <3>1, <3>2 DEF Means
  <2>2. CASE kind = "size"
    <3>1. Read(kind, arg) = ParseWith(arg, SizeUnits)
      BY <2>2 DEF Read, parse_uint_iec
    <3>2. ParseWith(arg, SizeUnits) = Says(arg) /\ ~arg.negative
      BY <3>1, ParseIs
    <3> QED BY <2>2, <3>1, <3>2 DEF Means
  <2> QED BY <1>2, <2>1, <2>2
<1>3. CASE kind \in {"count", "long"}
  <2>1. CASE kind = "count"
    <3>1. Read(kind, arg) = strtoull(arg)
      BY <2>1 DEF Read
    <3> QED BY <2>1, <3>1, CountIs DEF Means
  <2>2. CASE kind = "long"
    <3>1. Read(kind, arg) = Wrap(strtol(arg))
      BY <2>2 DEF Read
    <3> QED BY <2>2, <3>1, LongIs DEF Means
  <2> QED BY <1>3, <2>1, <2>2
<1>4. CASE kind = "cid"
  <2>1. Read(kind, arg) = DcidLength(Number(arg.digits))
    BY <1>4 DEF Read
  <2>2. ASSUME NEW n \in Nat, DcidLength(n) # Error
        PROVE  DcidLength(n) \in 8 .. 18 /\ 2 * DcidLength(n) = n
    BY <2>2 DEF DcidLength, Error
  <2> QED BY <1>1, <1>4, <2>1, <2>2 DEF Means
<1>5. CASE kind \in {"flag", "optarg"}
  BY <1>5 DEF Read, Means
<1>6. CASE kind \in {"path", "address", "text"}
  BY <1>6 DEF Read, Means
<1> QED BY <1>2, <1>3, <1>4, <1>5, <1>6 DEF OptionKinds

LEMMA KindsAreKnown ==
  ASSUME main \in {"client", "server"}
  PROVE  \A o \in DOMAIN Kinds : Kinds[o] \in OptionKinds
<1>1. \A o \in DOMAIN ClientKinds : ClientKinds[o] \in OptionKinds
  BY DEF ClientKinds, OptionKinds
<1>2. \A o \in DOMAIN ServerKinds : ServerKinds[o] \in OptionKinds
  BY DEF ServerKinds, OptionKinds
<1> QED BY <1>1, <1>2 DEF Kinds

LEMMA ClientHas ==
  ASSUME main = "client"
  PROVE  /\ "data" \in DOMAIN Kinds /\ Kinds["data"] = "text"
         /\ "nstreams" \in DOMAIN Kinds /\ Kinds["nstreams"] = "long"
BY DEF Kinds, ClientKinds

-----------------------------------------------------------------------------
Items == [option : DOMAIN Kinds, arg : UNION {Arguments[kind] : kind \in OptionKinds}]

\* Until the program has ended an option has its default, or what its last
\* argument on the line was read as.
LastArgument(o, i) == i \in Places(o) /\ \A j \in Places(o) : j <= i

Taken ==
  /\ line \in Seq(Items)
  /\ \A i \in DOMAIN line : line[i].arg \in Arguments[Kinds[line[i].option]]
  /\ config = [o \in DOMAIN Kinds |-> config[o]]
  /\ \A o \in DOMAIN Kinds :
       IF Places(o) = {} THEN config[o] = Default(o)
       ELSE \E i \in DOMAIN line :
              /\ LastArgument(o, i)
              /\ config[o] = Read(Kinds[o], line[i].arg) /\ config[o] # Error

OptionsInv ==
  /\ main \in {"client", "server"}
  /\ parsing \in {"options", "data", "requests", "run", "help", "failed"}
  /\ parsing \notin {"help", "failed"} => Taken
  /\ parsing \in {"options", "data"} => data = -1
  /\ parsing = "data" => main = "client"
  /\ main = "client" /\ parsing \in {"requests", "run"} =>
       (data > 0 <=> config["data"] # Unset)
  /\ main = "client" /\ parsing = "run" =>
       nstreams = IF config["nstreams"] = 0 THEN requests ELSE config["nstreams"]

LEMMA OptionsInitInv == OptionsInit => OptionsInv
<1> SUFFICES ASSUME OptionsInit PROVE OptionsInv
  OBVIOUS
<1>1. main \in {"client", "server"} /\ parsing = "options" /\ line = <<>> /\ data = -1
  BY DEF OptionsInit
<1>2. \A o \in DOMAIN Kinds : Places(o) = {}
  BY <1>1 DEF Places
<1>3. config = [o \in DOMAIN Kinds |-> Default(o)]
  BY DEF OptionsInit, ConfigSetDefault
<1>4. config = [o \in DOMAIN Kinds |-> config[o]] /\ \A o \in DOMAIN Kinds : config[o] = Default(o)
  BY <1>3
<1>5. <<>> \in Seq(Items) /\ DOMAIN <<>> = {}
  OBVIOUS
<1>6. Taken
  BY <1>1, <1>2, <1>4, <1>5 DEF Taken
<1> QED BY <1>1, <1>6 DEF OptionsInv

\* One more option on the line.
LEMMA TakeOptionTaken ==
  ASSUME OptionsInv, parsing = "options", UNCHANGED main,
         NEW o \in DOMAIN Kinds, NEW arg \in Arguments[Kinds[o]],
         TakeOption(o, arg), parsing' # "failed"
  PROVE  Taken'
<1>1. main \in {"client", "server"} /\ Taken
  BY DEF OptionsInv
<1>2. Kinds' = Kinds /\ Kinds[o] \in OptionKinds /\ Items' = Items
  BY <1>1, KindsAreKnown DEF Kinds, Items
<1> DEFINE item == [option |-> o, arg |-> arg]
           value == Read(Kinds[o], arg)
<1>3. line' = Append(line, item) /\ value # Error /\ config' = [config EXCEPT ![o] = value]
  BY DEF TakeOption
<1>4. item \in Items
  BY <1>2 DEF Items
<1>5. item.option = o /\ item.arg = arg
  OBVIOUS
<1> HIDE DEF item, value
<1>6. line \in Seq(Items) /\ Len(line) \in Nat
  BY <1>1 DEF Taken
<1>7. /\ line' \in Seq(Items) /\ DOMAIN line' = 1 .. Len(line) + 1 /\ DOMAIN line = 1 .. Len(line)
      /\ line'[Len(line) + 1] = item
      /\ \A i \in DOMAIN line : line'[i] = line[i]
  BY <1>3, <1>4, <1>6
<1>8. /\ config = [q \in DOMAIN Kinds |-> config[q]]
  BY <1>1 DEF Taken
<1>9. /\ config' = [q \in DOMAIN Kinds |-> config'[q]]
      /\ config'[o] = value
      /\ \A q \in DOMAIN Kinds : q # o => config'[q] = config[q]
  BY <1>3, <1>8
<1>10. \A i \in DOMAIN line' : line'[i].arg \in Arguments[Kinds[line'[i].option]]
  <2> SUFFICES ASSUME NEW i \in DOMAIN line' PROVE line'[i].arg \in Arguments[Kinds[line'[i].option]]
    OBVIOUS
  <2>1. CASE i = Len(line) + 1
    BY <1>5, <1>7, <2>1
  <2>2. CASE i # Len(line) + 1
    <3>1. i \in DOMAIN line
      BY <1>6, <1>7, <2>2
    <3> QED BY <1>1, <1>7, <3>1 DEF Taken
  <2> QED BY <2>1, <2>2
<1>11. \A q \in DOMAIN Kinds : Places(q)' = Places(q) \cup (IF q = o THEN {Len(line) + 1} ELSE {})
  <2> SUFFICES ASSUME NEW q \in DOMAIN Kinds
               PROVE  Places(q)' = Places(q) \cup (IF q = o THEN {Len(line) + 1} ELSE {})
    OBVIOUS
  <2>1. Places(q)' = {i \in DOMAIN line' : line'[i].option = q}
    BY DEF Places
  <2>2. \A i : i \in Places(q)' <=> i \in Places(q) \/ (q = o /\ i = Len(line) + 1)
    <3> SUFFICES ASSUME NEW i
                 PROVE  i \in Places(q)' <=> i \in Places(q) \/ (q = o /\ i = Len(line) + 1)
      OBVIOUS
    <3>1. CASE i = Len(line) + 1
      BY <1>5, <1>6, <1>7, <2>1, <3>1 DEF Places
    <3>2. CASE i # Len(line) + 1
      <4>1. i \in DOMAIN line' <=> i \in DOMAIN line
        BY <1>6, <1>7, <3>2
      <4> QED BY <1>7, <2>1, <3>2, <4>1 DEF Places
    <3> QED BY <3>1, <3>2
  <2> QED BY <2>2
<1>12. \A q \in DOMAIN Kinds : Places(q) \subseteq 1 .. Len(line)
  BY <1>7 DEF Places
<1>13. ASSUME NEW q \in DOMAIN Kinds
       PROVE  IF Places(q)' = {} THEN config'[q] = Default(q)'
              ELSE \E i \in DOMAIN line' :
                     /\ LastArgument(q, i)'
                     /\ config'[q] = Read(Kinds[q], line'[i].arg) /\ config'[q] # Error
  <2>1. CASE q = o
    <3>1. PICK k : k = Len(line) + 1
      OBVIOUS
    <3>2. k \in DOMAIN line' /\ k \in Places(q)'
      BY <1>6, <1>7, <1>11, <2>1, <3>1
    <3>3. \A j \in Places(q)' : j <= k
      BY <1>6, <1>11, <1>12, <2>1, <3>1
    <3>4. LastArgument(q, k)'
      BY <3>2, <3>3 DEF LastArgument
    <3>5. config'[q] = Read(Kinds[q], line'[k].arg) /\ config'[q] # Error
      BY <1>3, <1>5, <1>7, <1>9, <2>1, <3>1 DEF value
    <3> QED BY <3>2, <3>4, <3>5
  <2>2. CASE q # o
    <3>1. Places(q)' = Places(q) /\ config'[q] = config[q]
      BY <1>9, <1>11, <2>2
    <3>2. Default(q)' = Default(q)
      BY <1>2 DEF Default
    <3>3. CASE Places(q) = {}
      BY <1>1, <3>1, <3>2, <3>3 DEF Taken
    <3>4. CASE Places(q) # {}
      <4>1. PICK i \in DOMAIN line : /\ LastArgument(q, i)
                                    /\ config[q] = Read(Kinds[q], line[i].arg) /\ config[q] # Error
        BY <1>1, <3>4 DEF Taken
      <4>2. LastArgument(q, i)'
        BY <3>1, <4>1 DEF LastArgument
      <4>3. i \in DOMAIN line' /\ line'[i] = line[i]
        BY <1>6, <1>7
      <4> QED BY <3>1, <3>4, <4>1, <4>2, <4>3
    <3> QED BY <3>3, <3>4
  <2> QED BY <2>1, <2>2
<1> QED BY <1>2, <1>7, <1>9, <1>10, <1>13 DEF Taken

LEMMA TakenKept ==
  ASSUME Taken, UNCHANGED <<main, line, config>>
  PROVE  Taken'
<1>1. Kinds' = Kinds
  BY DEF Kinds
<1>2. Items' = Items
  BY <1>1 DEF Items
<1>3. \A o : Places(o)' = Places(o)
  BY DEF Places
<1>4. \A o : Default(o)' = Default(o)
  BY <1>1 DEF Default
<1>5. \A o, i : LastArgument(o, i)' = LastArgument(o, i)
  BY <1>3 DEF LastArgument
<1> QED BY <1>1, <1>2, <1>3, <1>4, <1>5 DEF Taken

LEMMA OptionsNextInv == OptionsInv /\ [OptionsNext]_optionsVars => OptionsInv'
<1> SUFFICES ASSUME OptionsInv, [OptionsNext]_optionsVars PROVE OptionsInv'
  OBVIOUS
<1>1. CASE NextOption
  <2>0. PICK o \in DOMAIN Kinds : \E arg \in Arguments[Kinds[o]] : TakeOption(o, arg)
    BY <1>1 DEF NextOption
  <2>1. PICK arg \in Arguments[Kinds[o]] : TakeOption(o, arg)
    BY <2>0
  <2>2. parsing = "options" /\ UNCHANGED <<main, data, requests, nstreams>>
    BY <1>1 DEF NextOption
  <2>3. parsing' = "failed" \/ parsing' = "options"
    BY <2>1, <2>2 DEF TakeOption
  <2>4. parsing' # "failed" => Taken'
    BY <2>1, <2>2, TakeOptionTaken
  <2> QED BY <2>2, <2>3, <2>4 DEF OptionsInv
<1>2. CASE HelpOrUnknown
  BY <1>2 DEF HelpOrUnknown, OptionsInv
<1>3. CASE EndOptions
  <2>1. UNCHANGED <<main, line, config, data, requests, nstreams>> /\ parsing = "options"
    BY <1>3 DEF EndOptions
  <2>2. Taken'
    BY <2>1, TakenKept DEF OptionsInv
  <2>3. parsing' = "failed" \/ parsing' = IF main = "client" THEN "data" ELSE "run"
    BY <1>3 DEF EndOptions
  <2> QED BY <2>1, <2>2, <2>3 DEF OptionsInv
<1>4. CASE OpenData
  <2>1. UNCHANGED <<main, line, config, requests, nstreams>> /\ parsing = "data" /\ main = "client" /\ data = -1
    BY <1>4 DEF OpenData, OptionsInv
  <2>2. Taken'
    BY <2>1, TakenKept DEF OptionsInv
  <2>3. \/ parsing' = "failed"
        \/ parsing' = "requests" /\ config["data"] = Unset /\ data' = -1
        \/ parsing' = "requests" /\ config["data"] # Unset /\ data' \in {1, 2}
    BY <1>4, <2>1 DEF OpenData
  <2>4. parsing' = "requests" => (data' > 0 <=> config["data"] # Unset)
    BY <2>3
  <2> QED BY <2>1, <2>2, <2>3, <2>4 DEF OptionsInv
<1>5. CASE ParseRequests
  <2>1. UNCHANGED <<main, line, config, data>> /\ parsing = "requests"
    BY <1>5 DEF ParseRequests
  <2>2. Taken'
    BY <2>1, TakenKept DEF OptionsInv
  <2>3. \/ parsing' = "failed"
        \/ /\ parsing' = "run"
           /\ nstreams' = IF config["nstreams"] = 0 THEN requests' ELSE config["nstreams"]
    BY <1>5 DEF ParseRequests, DefaultNstreams
  <2> QED BY <2>1, <2>2, <2>3 DEF OptionsInv
<1>6. CASE UNCHANGED optionsVars
  <2>1. UNCHANGED <<main, parsing, line, config, data, requests, nstreams>>
    BY <1>6 DEF optionsVars
  <2>2. Taken => Taken'
    BY <2>1, TakenKept
  <2> QED BY <2>1, <2>2 DEF OptionsInv
<1> QED BY <1>1, <1>2, <1>3, <1>4, <1>5, <1>6 DEF OptionsNext

\* The last argument that is found is the one that was read.
LEMMA LastGivenIs ==
  ASSUME Taken, NEW o \in DOMAIN Kinds, Places(o) # {}, Kinds[o] \in OptionKinds
  PROVE  /\ IsText(LastGiven(o))
         /\ config[o] = Read(Kinds[o], LastGiven(o)) /\ config[o] # Error
<1>1. PICK i \in DOMAIN line : /\ LastArgument(o, i)
                              /\ config[o] = Read(Kinds[o], line[i].arg) /\ config[o] # Error
  BY DEF Taken
<1>2. Places(o) \subseteq Nat
  <2>1. DOMAIN line \subseteq Nat
    BY DEF Taken
  <2> QED BY <2>1 DEF Places
<1> DEFINE last == CHOOSE k \in Places(o) : \A j \in Places(o) : j <= k
<1>3. last = i
  <2>1. last \in Places(o) /\ \A j \in Places(o) : j <= last
    BY <1>1 DEF LastArgument
  <2> HIDE DEF last
  <2> QED BY <1>1, <1>2, <2>1 DEF LastArgument
<1>4. LastGiven(o) = line[i].arg
  BY <1>3 DEF LastGiven
<1>5. line[i].option = o
  BY <1>1 DEF LastArgument, Places
<1>6. IsText(line[i].arg)
  BY <1>1, <1>5, OptionsAssumption DEF Taken
<1> QED BY <1>1, <1>4, <1>6

LEMMA OptionsInvGood == OptionsInv => ConfigFollowsLine
<1> DEFINE Asked ==
      IF Places("nstreams") = {} \/ Number(LastGiven("nstreams").digits) = 0
      THEN nstreams = requests
      ELSE ~LastGiven("nstreams").negative => Counts(LastGiven("nstreams"), MaxLong, nstreams)
<1> SUFFICES ASSUME OptionsInv, parsing = "run"
             PROVE  /\ \A o \in DOMAIN Kinds :
                         IF Places(o) = {} THEN config[o] = Default(o)
                         ELSE Means(Kinds[o], LastGiven(o), config[o])
                    /\ main = "client" =>
                         /\ (data > 0) <=> (Places("data") # {})
                         /\ Asked
  BY DEF ConfigFollowsLine
<1>1. Taken /\ main \in {"client", "server"}
  BY DEF OptionsInv
<1>2. ASSUME NEW o \in DOMAIN Kinds, Places(o) # {}
      PROVE  Means(Kinds[o], LastGiven(o), config[o])
  <2>1. Kinds[o] \in OptionKinds
    BY <1>1, KindsAreKnown
  <2> QED BY <1>1, <1>2, <2>1, LastGivenIs, ReadMeans
<1>3. \A o \in DOMAIN Kinds : Places(o) = {} => config[o] = Default(o)
  BY <1>1 DEF Taken
<1>4. ASSUME main = "client" PROVE (data > 0) <=> (Places("data") # {})
  <2>1. "data" \in DOMAIN Kinds /\ Kinds["data"] = "text"
    BY <1>4, ClientHas
  <2>2. CASE Places("data") = {}
    <3>1. config["data"] = Unset
      BY <1>3, <2>1, <2>2 DEF Default
    <3> QED BY <1>4, <2>2, <3>1 DEF OptionsInv
  <2>3. CASE Places("data") # {}
    <3>1. PICK i \in DOMAIN line : /\ LastArgument("data", i)
                                  /\ config["data"] = Read("text", line[i].arg)
      BY <1>1, <2>1, <2>3 DEF Taken
    <3>2. line[i].option = "data"
      BY <3>1 DEF LastArgument, Places
    <3>3. IsText(line[i].arg)
      BY <1>1, <2>1, <3>2, OptionsAssumption DEF Taken, OptionKinds
    <3>4. config["data"] \in Nat
      BY <3>1, <3>3, PushDigitsIs DEF Read, IsText
    <3>5. config["data"] # Unset
      BY <3>4 DEF Unset
    <3> QED BY <1>4, <2>3, <3>5 DEF OptionsInv
  <2> QED BY <2>2, <2>3
<1>5. ASSUME main = "client" PROVE Asked
  <2>1. "nstreams" \in DOMAIN Kinds /\ Kinds["nstreams"] = "long"
    BY <1>5, ClientHas
  <2>2. nstreams = IF config["nstreams"] = 0 THEN requests ELSE config["nstreams"]
    BY <1>5 DEF OptionsInv
  <2>3. CASE Places("nstreams") = {}
    <3>1. config["nstreams"] = 0
      BY <1>3, <2>1, <2>3 DEF Default
    <3> QED BY <2>2, <2>3, <3>1
  <2>4. CASE Places("nstreams") # {}
    <3> DEFINE arg == LastGiven("nstreams")
    <3>1. IsText(arg) /\ config["nstreams"] = Wrap(strtol(arg))
      BY <1>1, <2>1, <2>4, LastGivenIs DEF Read, OptionKinds
    <3>2. Number(arg.digits) \in Nat
      BY <3>1, PushDigitsIs DEF IsText
    <3>3. MaxUint \in Nat /\ MaxUint >= 9
      BY UtilAssumption
    <3>4. MaxLong \in Nat /\ MaxLong > 0 /\ MinLong < 0
      BY <3>3 DEF MaxLong, MinLong
    <3> HIDE DEF arg
    <3>5. CASE Number(arg.digits) = 0
      <4>0. 0 - Number(arg.digits) = 0
        BY <3>5
      <4>1. Signed(arg) = 0
        BY <3>5, <4>0, Zenon DEF Signed
      <4>2. Wrap(strtol(arg)) = 0
        <5>1. ~ (0 > MaxLong) /\ ~ (0 < MinLong)
          <6>1. MinLong \in Int
            BY <3>3 DEF MaxLong, MinLong
          <6> QED BY <3>4, <6>1
        <5>2. strtol(arg) = 0
          BY <4>1, <5>1, Zenon DEF strtol
        <5>3. Wrap(0) = 0
          BY <3>3 DEF Wrap
        <5> QED BY <5>2, <5>3
      <4> QED BY <2>2, <3>1, <3>5, <4>2 DEF arg
    <3>6. CASE Number(arg.digits) # 0
      <4>1. ASSUME ~arg.negative PROVE Counts(arg, MaxLong, nstreams)
        <5>1. Counts(arg, MaxLong, Wrap(strtol(arg)))
          BY <3>1, <4>1, LongIs
        <5>2. Wrap(strtol(arg)) = IF Number(arg.digits) <= MaxLong THEN Number(arg.digits) ELSE MaxLong
          BY <5>1 DEF Counts
        <5>3. Wrap(strtol(arg)) # 0
          BY <3>4, <3>6, <5>2
        <5>4. nstreams = Wrap(strtol(arg))
          BY <2>2, <3>1, <5>3
        <5> QED BY <5>1, <5>4
      <4> QED BY <2>4, <3>6, <4>1 DEF arg
    <3> QED BY <3>5, <3>6
  <2> QED BY <2>3, <2>4
<1> QED BY <1>2, <1>3, <1>4, <1>5

(***************************************************************************)
(* Both programs run with what their command lines say, for any options    *)
(* with any arguments in any order: main of quicsy_client.cc and           *)
(* quicsy_server.cc.                                                       *)
(***************************************************************************)
THEOREM ConfigCorrect == OptionsSpec => []ConfigFollowsLine
<1>1. OptionsInit => OptionsInv
  BY OptionsInitInv
<1>2. OptionsInv /\ [OptionsNext]_optionsVars => OptionsInv'
  BY OptionsNextInv
<1>3. OptionsInv => ConfigFollowsLine
  BY OptionsInvGood
<1> QED BY <1>1, <1>2, <1>3, PTL DEF OptionsSpec

-----------------------------------------------------------------------------
(* MpdParser.                                                                *)

Level == [bandwidth : Nat, media : Nat, init_url : Nat, start : Int]

Manifest == [dur : Nat, segdur : Nat, timescale : Nat, bw : Nat, sn : Int,
             init_url_template : Nat, levels : Seq(Level),
             init : {0, 1}, num_of_segments : Int, segments : {<<>>}]

\* What the two manifests have in common whatever attributes were read.
SameBut(m, r) ==
  /\ r \in Manifest
  /\ r.dur = m.dur /\ r.bw = m.bw /\ r.init = m.init /\ r.num_of_segments = m.num_of_segments
  /\ r.segments = m.segments

LEMMA AttributeIs ==
  ASSUME NEW m \in Manifest, NEW n \in Nat, NEW template \in Templates,
         NEW name \in TemplateAttributes,
         NEW r, r = Attribute(m, name, n, template)
  PROVE  /\ SameBut(m, r)
         /\ r.segdur = IF name = "duration" THEN template.duration ELSE m.segdur
         /\ r.timescale = IF name = "timescale" THEN template.timescale ELSE m.timescale
         /\ r.sn = IF name = "startNumber" THEN template.start ELSE m.sn
         /\ r.init_url_template = IF name = "initialization" THEN n ELSE m.init_url_template
         /\ r.levels = IF name = "media"
                       THEN Append(m.levels, [bandwidth |-> m.bw, media |-> n,
                                              init_url |-> m.init_url_template, start |-> m.sn])
                       ELSE m.levels
<1>1. template.start \in Int /\ template.duration \in Nat /\ template.timescale \in Nat
  BY MpdAssumption
<1>6. CASE name = "duration"
  <2>1. r = [m EXCEPT !.segdur = template.duration]
    BY <1>6 DEF Attribute
  <2> QED BY <1>1, <1>6, <2>1 DEF SameBut, Manifest
<1>7. CASE name = "timescale"
  <2>1. r = [m EXCEPT !.timescale = template.timescale]
    BY <1>7 DEF Attribute
  <2> QED BY <1>1, <1>7, <2>1 DEF SameBut, Manifest
<1>2. CASE name = "startNumber"
  <2>1. r = [m EXCEPT !.sn = template.start]
    BY <1>2 DEF Attribute
  <2> QED BY <1>1, <1>2, <2>1 DEF SameBut, Manifest
<1>3. CASE name = "initialization"
  <2>1. r = [m EXCEPT !.init_url_template = n]
    BY <1>3 DEF Attribute
  <2> QED BY <1>3, <2>1 DEF SameBut, Manifest
<1>4. CASE name = "media"
  <2> DEFINE level == [bandwidth |-> m.bw, media |-> n,
                       init_url |-> m.init_url_template, start |-> m.sn]
             levels == Append(m.levels, level)
  <2>1. r = [m EXCEPT !.levels = levels]
    BY <1>4 DEF Attribute, Media
  <2>2. level \in Level /\ m.levels \in Seq(Level)
    BY DEF Level, Manifest
  <2>3. levels \in Seq(Level)
    <3> HIDE DEF level
    <3> QED BY <2>2
  <2> HIDE DEF levels
  <2>4. /\ SameBut(m, r) /\ r.levels = levels /\ r.sn = m.sn /\ r.init_url_template = m.init_url_template
        /\ r.segdur = m.segdur /\ r.timescale = m.timescale
    BY <2>1, <2>3 DEF SameBut, Manifest
  <2> QED BY <1>4, <2>4 DEF levels
<1>5. CASE name = "other"
  <2>1. r = m
    BY <1>5 DEF Attribute
  <2> QED BY <1>5, <2>1 DEF SameBut
<1> QED BY <1>2, <1>3, <1>4, <1>5, <1>6, <1>7 DEF TemplateAttributes

AttributesRead(m, n, template, read) ==
  read = [i \in 0 .. Len(template.attributes) |->
            IF i = 0 THEN m ELSE Attribute(read[i - 1], template.attributes[i], n, template)]

LEMMA AttributesExist ==
  ASSUME NEW m, NEW n, NEW template \in Templates
  PROVE  \E read : /\ AttributesRead(m, n, template, read)
                   /\ Attributes(m, n, template) = read[Len(template.attributes)]
<1> DEFINE attributes == template.attributes
    Upto(k, read) ==
      read = [i \in 0 .. k |-> IF i = 0 THEN m ELSE Attribute(read[i - 1], attributes[i], n, template)]
    T == {k \in Nat : \E read : Upto(k, read)}
<1>1. 0 \in T
  <2> DEFINE read == [i \in 0 .. 0 |-> m]
  <2>1. Upto(0, read)
    OBVIOUS
  <2> QED BY <2>1
<1>2. ASSUME NEW k \in Nat, k \in T PROVE k + 1 \in T
  <2>1. PICK read : Upto(k, read)
    BY <1>2
  <2> DEFINE more == [i \in 0 .. k + 1 |->
                        IF i = k + 1 THEN Attribute(read[k], attributes[k + 1], n, template) ELSE read[i]]
  <2>2. \A i \in 0 .. k + 1 :
           more[i] = IF i = 0 THEN m ELSE Attribute(more[i - 1], attributes[i], n, template)
    BY <2>1
  <2>3. more = [i \in 0 .. k + 1 |-> more[i]]
    OBVIOUS
  <2>4. Upto(k + 1, more)
    <3> HIDE DEF more
    <3> QED BY <2>2, <2>3
  <2>5. \E g : Upto(k + 1, g)
    <3> HIDE DEF Upto, more
    <3> QED BY <2>4
  <2> QED BY <2>5
<1>3. Len(attributes) \in T
  <2>1. Len(attributes) \in Nat
    BY MpdAssumption
  <2> HIDE DEF T
  <2> QED BY <1>1, <1>2, <2>1, NatSetInduction
<1>4. \E read : AttributesRead(m, n, template, read)
  BY <1>3 DEF AttributesRead
<1>5. Attributes(m, n, template)
        = (CHOOSE read : AttributesRead(m, n, template, read))[Len(attributes)]
  BY DEF Attributes, AttributesRead
<1> QED BY <1>4, <1>5

Present(template, k, name) == \E i \in 1 .. k : template.attributes[i] = name

\* r is m after the first k attributes of the n-th Representation's template.
ReadUpTo(m, n, template, k, r) ==
  /\ SameBut(m, r)
  /\ Present(template, k, "duration") => r.segdur = template.duration
  /\ Present(template, k, "timescale") => r.timescale = template.timescale
  /\ Present(template, k, "startNumber") => r.sn = template.start
  /\ Present(template, k, "initialization") => r.init_url_template = n
  /\ r.init_url_template \in {n, m.init_url_template}
  /\ \/ ~ Present(template, k, "media") /\ r.levels = m.levels
     \/ /\ Present(template, k, "media")
        /\ \E u \in Nat, s \in Int :
             /\ r.levels = Append(m.levels, [bandwidth |-> m.bw, media |-> n, init_url |-> u, start |-> s])
             /\ Before(template, "initialization") => u = n
             /\ Before(template, "startNumber") => s = template.start

LEMMA AttributesAre ==
  ASSUME NEW m \in Manifest, NEW n \in Nat, NEW template \in Templates
  PROVE  ReadUpTo(m, n, template, Len(template.attributes), Attributes(m, n, template))
<1> DEFINE attributes == template.attributes
<1>1. PICK read : /\ AttributesRead(m, n, template, read)
                  /\ Attributes(m, n, template) = read[Len(attributes)]
  BY AttributesExist
<1>2. /\ Len(attributes) \in Nat /\ DOMAIN attributes = 1 .. Len(attributes)
      /\ \A i \in 1 .. Len(attributes) : attributes[i] \in TemplateAttributes
      /\ \A i, j \in 1 .. Len(attributes) : attributes[i] = "media" /\ attributes[j] = "media" => i = j
  <2>1. attributes \in Seq(TemplateAttributes)
    BY MpdAssumption
  <2> QED BY <2>1, MpdAssumption
<1>3. /\ read[0] = m
      /\ \A i \in 1 .. Len(attributes) : read[i] = Attribute(read[i - 1], attributes[i], n, template)
  <2>1. read = [i \in 0 .. Len(attributes) |->
                  IF i = 0 THEN m ELSE Attribute(read[i - 1], attributes[i], n, template)]
    BY <1>1 DEF AttributesRead
  <2>2. \A i \in 0 .. Len(attributes) :
           read[i] = IF i = 0 THEN m ELSE Attribute(read[i - 1], attributes[i], n, template)
    BY <2>1, Zenon
  <2>3. 0 \in 0 .. Len(attributes) /\ \A i \in 1 .. Len(attributes) : i \in 0 .. Len(attributes) /\ i # 0
    BY <1>2
  <2> QED BY <2>2, <2>3, Zenon
<1> DEFINE T == {k \in Nat : k <= Len(attributes) => ReadUpTo(m, n, template, k, read[k])}
<1>4. 0 \in T
  BY <1>3 DEF ReadUpTo, Present, SameBut
<1>5. ASSUME NEW k \in Nat, k \in T PROVE k + 1 \in T
  <2> DEFINE q == read[k]
             r == read[k + 1]
             name == attributes[k + 1]
  <2> SUFFICES ASSUME k + 1 <= Len(attributes) PROVE ReadUpTo(m, n, template, k + 1, r)
    OBVIOUS
  <2>1. /\ ReadUpTo(m, n, template, k, q) /\ k + 1 \in 1 .. Len(attributes) /\ (k + 1) - 1 = k
        /\ \A i \in 1 .. k : i \in 1 .. Len(attributes) /\ i < k + 1
    BY <1>2, <1>5
  <2>2. r = Attribute(q, name, n, template) /\ name \in TemplateAttributes /\ q \in Manifest
    BY <1>2, <1>3, <2>1 DEF ReadUpTo, SameBut
  <2>3. /\ SameBut(q, r)
        /\ r.segdur = IF name = "duration" THEN template.duration ELSE q.segdur
        /\ r.timescale = IF name = "timescale" THEN template.timescale ELSE q.timescale
        /\ r.sn = IF name = "startNumber" THEN template.start ELSE q.sn
        /\ r.init_url_template = IF name = "initialization" THEN n ELSE q.init_url_template
        /\ r.levels = IF name = "media"
                      THEN Append(q.levels, [bandwidth |-> q.bw, media |-> n,
                                             init_url |-> q.init_url_template, start |-> q.sn])
                      ELSE q.levels
    <3> HIDE DEF r, q, name
    <3> QED BY <2>2, AttributeIs
  <2>4. \A word : Present(template, k + 1, word) <=> Present(template, k, word) \/ name = word
    <3>1. \A i \in 1 .. k + 1 : i \in 1 .. k \/ i = k + 1
      OBVIOUS
    <3>2. \A i \in 1 .. k : i \in 1 .. k + 1
      OBVIOUS
    <3>3. k + 1 \in 1 .. k + 1
      OBVIOUS
    <3> QED BY <3>1, <3>2, <3>3 DEF Present
  <2>5. SameBut(m, r)
    BY <2>1, <2>3 DEF ReadUpTo, SameBut
  <2>8. /\ Present(template, k + 1, "duration") => r.segdur = template.duration
        /\ Present(template, k + 1, "timescale") => r.timescale = template.timescale
    BY <2>1, <2>3, <2>4 DEF ReadUpTo
  <2>6. CASE name = "media"
    <3>1. ~ Present(template, k, "media")
      BY <1>2, <2>1, <2>6 DEF Present
    <3>2. q.levels = m.levels /\ q.bw = m.bw
      BY <2>1, <3>1 DEF ReadUpTo, SameBut
    <3>3. Before(template, "initialization") => Present(template, k, "initialization")
      <4> SUFFICES ASSUME NEW i \in 1 .. Len(attributes), NEW j \in 1 .. Len(attributes), i < j,
                          attributes[i] = "initialization", attributes[j] = "media"
                   PROVE  Present(template, k, "initialization")
        BY <1>2 DEF Before
      <4>1. j = k + 1
        BY <1>2, <2>1, <2>6
      <4>2. i \in 1 .. k
        BY <1>2, <4>1
      <4> QED BY <4>2 DEF Present
    <3>4. Before(template, "startNumber") => Present(template, k, "startNumber")
      <4> SUFFICES ASSUME NEW i \in 1 .. Len(attributes), NEW j \in 1 .. Len(attributes), i < j,
                          attributes[i] = "startNumber", attributes[j] = "media"
                   PROVE  Present(template, k, "startNumber")
        BY <1>2 DEF Before
      <4>1. j = k + 1
        BY <1>2, <2>1, <2>6
      <4>2. i \in 1 .. k
        BY <1>2, <4>1
      <4> QED BY <4>2 DEF Present
    <3> DEFINE u == q.init_url_template
               s == q.sn
    <3>5. u \in Nat /\ s \in Int
      BY <2>2 DEF Manifest
    <3>6. r.levels = Append(m.levels, [bandwidth |-> m.bw, media |-> n, init_url |-> u, start |-> s])
      BY <2>3, <2>6, <3>2
    <3>7. (Before(template, "initialization") => u = n) /\ (Before(template, "startNumber") => s = template.start)
      BY <2>1, <3>3, <3>4 DEF ReadUpTo
    <3>8. Present(template, k + 1, "media")
      BY <2>4, <2>6
    <3>9. /\ Present(template, k + 1, "startNumber") => r.sn = template.start
          /\ Present(template, k + 1, "initialization") => r.init_url_template = n
          /\ r.init_url_template \in {n, m.init_url_template}
      BY <2>1, <2>3, <2>4, <2>6 DEF ReadUpTo
    <3> HIDE DEF u, s, r, q
    <3> QED BY <2>5, <2>8, <3>5, <3>6, <3>7, <3>8, <3>9 DEF ReadUpTo
  <2>7. CASE name # "media"
    <3>1. Present(template, k + 1, "media") <=> Present(template, k, "media")
      BY <2>4, <2>7
    <3>2. r.levels = q.levels
      BY <2>3, <2>7
    <3>3. /\ Present(template, k + 1, "startNumber") => r.sn = template.start
          /\ Present(template, k + 1, "initialization") => r.init_url_template = n
          /\ r.init_url_template \in {n, m.init_url_template}
      BY <2>1, <2>3, <2>4 DEF ReadUpTo
    <3> HIDE DEF r, q
    <3> QED BY <2>1, <2>5, <2>8, <3>1, <3>2, <3>3 DEF ReadUpTo
  <2> QED BY <2>6, <2>7
<1>6. \A k \in Nat : k \in T
  <2> HIDE DEF T
  <2> QED BY <1>4, <1>5, NatSetInduction
<1> QED BY <1>1, <1>2, <1>6

-----------------------------------------------------------------------------
Representations == [attributes : {<<>>, <<"bandwidth", "id">>, <<"id", "bandwidth">>},
                    template : Templates]

\* The level of a complete Representation.
LevelOf(n, template) ==
  [bandwidth |-> n, media |-> n, init_url |-> n, start |-> template.start]

\* The number of segments is that of the last template, and of what it found.
CountInv(template, m) ==
  /\ m.num_of_segments \in NumbersOfSegments(m.dur, m.segdur, m.timescale, m.init)
  /\ Timed(template) => m.segdur = template.duration /\ m.timescale = template.timescale

\* What the manifest holds of the Representations read, and keeps for the next.
Reading(rs, m) ==
  /\ rs \in Seq(Representations)
  /\ m \in Manifest
  /\ \A j \in DOMAIN m.levels : m.levels[j].media \in 1 .. Len(rs)
  /\ \A i, j \in DOMAIN m.levels : i < j => m.levels[i].media < m.levels[j].media
  /\ \A n \in DOMAIN rs :
       Complete(rs[n]) =>
         /\ \E j \in DOMAIN m.levels : m.levels[j] = LevelOf(n, rs[n].template)
         /\ m.init_url_template # NoUrl /\ m.init = 1
  /\ rs # <<>> => CountInv(rs[Len(rs)].template, m)

MpdInv ==
  /\ step \in {"period", "set"} =>
       /\ duration \in Durations
       /\ step = "period" => reps = <<>>
       /\ step = "set" => mpd.dur = Seconds(duration)
       /\ Reading(reps, mpd)
  /\ SegmentsAsDeclared

LEMMA DurationTyped ==
  ASSUME NEW d \in Durations
  PROVE  /\ d.hours \in Nat \cup {-1} /\ d.minutes \in Nat \cup {-1} /\ d.seconds \in Nat \cup {-1}
         /\ Seconds(d) \in Nat
         /\ d.hours >= 0 => Seconds(d) = d.hours * 3600 + OrNone(d.minutes) * 60 + OrNone(d.seconds)
<1>1. d.hours \in Nat \cup {-1} /\ d.minutes \in Nat \cup {-1} /\ d.seconds \in Nat \cup {-1}
  BY MpdAssumption
<1>2. OrNone(d.minutes) \in Nat /\ OrNone(d.seconds) \in Nat
  BY <1>1 DEF OrNone
<1>3. d.hours # -1 => Seconds(d) = d.hours * 3600 + OrNone(d.minutes) * 60 + OrNone(d.seconds)
  BY DEF Seconds
<1>4. d.hours # -1 => Seconds(d) \in Nat
  BY <1>1, <1>2, <1>3
<1>5. d.hours = -1 => Seconds(d) \in Nat
  BY <1>1, <1>2 DEF Seconds
<1>6. d.hours >= 0 => d.hours # -1
  BY <1>1
<1> QED BY <1>1, <1>3, <1>4, <1>5, <1>6

LEMMA MpdInitInv == MpdInit => MpdInv
<1> SUFFICES ASSUME MpdInit PROVE MpdInv
  OBVIOUS
<1>1. mpd \in Manifest /\ mpd.levels = <<>>
  <2>1. <<>> \in Seq(Level)
    OBVIOUS
  <2> QED BY <2>1 DEF MpdInit, Manifest, NoUrl
<1>2. reps \in Seq(Representations) /\ reps = <<>>
  BY DEF MpdInit
<1>3. Reading(reps, mpd)
  BY <1>1, <1>2 DEF Reading
<1> QED BY <1>2, <1>3 DEF MpdInit, MpdInv, SegmentsAsDeclared

LEMMA ReadPeriodInv ==
  ASSUME MpdInv, ReadPeriod
  PROVE  MpdInv'
<1>1. /\ duration \in Durations /\ reps = <<>> /\ mpd \in Manifest /\ Reading(reps, mpd)
      /\ mpd' = [mpd EXCEPT !.dur = Seconds(duration)] /\ step' = "set"
      /\ duration' = duration /\ reps' = reps
  BY DEF MpdInv, ReadPeriod, Reading
<1>2. Seconds(duration) \in Nat
  BY <1>1, DurationTyped
<1>3. mpd' \in Manifest /\ mpd'.dur = Seconds(duration) /\ mpd'.levels = mpd.levels
  BY <1>1, <1>2 DEF Manifest
<1>4. Reading(reps', mpd')
  BY <1>1, <1>3 DEF Reading
<1> QED BY <1>1, <1>3, <1>4 DEF MpdInv, SegmentsAsDeclared

\* A ceiling is as many as are needed.
LEMMA CeilingIs ==
  ASSUME NEW a \in Nat, NEW b \in Nat \ {0}
  PROVE  LET c == (a + b - 1) \div b
         IN c \in Nat /\ c * b \in a .. a + b - 1 /\ (a > 0 => c > 0)
<1> DEFINE c == (a + b - 1) \div b
           r == (a + b - 1) % b
<1>1. a + b - 1 \in Nat /\ b \in Nat /\ b > 0
  OBVIOUS
<1>2. c \in Nat /\ r \in 0 .. b - 1 /\ a + b - 1 = b * c + r
  BY <1>1
<1> HIDE DEF c, r
<1>3. b * c = c * b /\ c * b \in Nat
  BY <1>1, <1>2
<1>4. c * b \in a .. a + b - 1
  BY <1>1, <1>2, <1>3
<1>5. c = 0 => c * b = 0
  BY <1>1
<1>6. c \in Nat /\ c * b \in a .. a + b - 1 /\ (a > 0 => c > 0)
  BY <1>2, <1>4, <1>5
<1> QED BY <1>6 DEF c

LEMMA QuotientsAre ==
  ASSUME NEW dur \in Nat, NEW segdur \in Nat \ {0}, NEW timescale \in Nat,
         NEW count \in Quotients(dur, segdur, timescale)
  PROVE  /\ count \in Nat
         /\ timescale > 0 =>
              LET slack == IF segdur % timescale = 0 THEN 0 ELSE segdur
              IN count * segdur \in dur * timescale - slack
                                     .. dur * timescale + segdur - 1 + slack
<1> DEFINE a == dur * timescale
           exact == (a + segdur - 1) \div segdur
           slack == IF segdur % timescale = 0 THEN 0 ELSE segdur
<1>1. a \in Nat
  OBVIOUS
<1>2. exact \in Nat /\ exact * segdur \in a .. a + segdur - 1 /\ (a > 0 => exact > 0)
  <2> HIDE DEF a
  <2> QED BY <1>1, CeilingIs
<1>3. CASE timescale = 0 \/ dur = 0
  <2>1. count = 0 /\ a = 0 /\ count * segdur = 0
    BY <1>3 DEF Quotients
  <2>2. slack \in Nat
    OBVIOUS
  <2> HIDE DEF a, slack
  <2>3. count * segdur \in a - slack .. a + segdur - 1 + slack
    BY <2>1, <2>2
  <2> QED BY <2>1, <2>3 DEF a, slack
<1>4. CASE timescale # 0 /\ dur # 0
  <2>1. a > 0
    <3>1. PICK k \in Nat : timescale = k + 1
      BY <1>4, timescale - 1 \in Nat
    <3>2. dur * timescale = dur * k + dur /\ dur * k \in Nat
      BY <3>1
    <3> QED BY <1>4, <3>2
  <2>2. \/ segdur % timescale = 0 /\ count = exact
        \/ segdur % timescale # 0 /\ count \in {exact - 1, exact, exact + 1}
    BY <1>4 DEF Quotients
  <2> HIDE DEF a, exact
  <2>3. /\ (exact - 1) * segdur = exact * segdur - segdur
        /\ (exact + 1) * segdur = exact * segdur + segdur
        /\ exact * segdur \in Int
    BY <1>2
  <2>4. count \in Nat
    BY <1>2, <2>1, <2>2
  <2>5. CASE segdur % timescale = 0
    <3>1. slack = 0 /\ count = exact
      BY <2>2, <2>5
    <3> HIDE DEF slack
    <3>2. count * segdur \in a - slack .. a + segdur - 1 + slack
      BY <1>1, <1>2, <3>1
    <3> QED BY <2>4, <3>2 DEF slack, a
  <2>6. CASE segdur % timescale # 0
    <3>1. slack = segdur /\ count \in {exact - 1, exact, exact + 1}
      BY <2>2, <2>6
    <3> HIDE DEF slack
    <3>2. count * segdur \in a - slack .. a + segdur - 1 + slack
      BY <1>1, <1>2, <2>3, <3>1
    <3> QED BY <2>4, <3>2 DEF slack, a
  <2> QED BY <2>5, <2>6
<1> QED BY <1>3, <1>4

LEMMA NumbersAre ==
  ASSUME NEW dur \in Nat, NEW segdur \in Nat, NEW timescale \in Nat, NEW init \in {0, 1},
         NEW num \in NumbersOfSegments(dur, segdur, timescale, init)
  PROVE  /\ num \in Int
         /\ num >= 0 => segdur # 0 /\ \E count \in Quotients(dur, segdur, timescale) :
                                       count \in Nat /\ num = count + init
<1>1. CASE segdur = 0
  BY <1>1 DEF NumbersOfSegments, IntMin
<1>2. CASE segdur # 0
  <2>1. PICK count \in Quotients(dur, segdur, timescale) : num = count + init
    BY <1>2 DEF NumbersOfSegments
  <2>2. count \in Nat
    BY <1>2, <2>1, QuotientsAre
  <2> QED BY <1>2, <2>1, <2>2
<1> QED BY <1>1, <1>2

LEMMA SegmentTemplateIs ==
  ASSUME NEW m \in Manifest, NEW n \in Nat, NEW template \in Templates,
         NEW r \in SegmentTemplate(m, n, template)
  PROVE  \E q :
           /\ ReadUpTo(m, n, template, Len(template.attributes), q)
           /\ r \in Manifest /\ r.dur = m.dur
           /\ r.levels = q.levels /\ r.init_url_template = q.init_url_template
           /\ r.init = IF q.init_url_template = NoUrl THEN 0 ELSE 1
           /\ CountInv(template, r)
<1> DEFINE q == Attributes(m, n, template)
           init == IF q.init_url_template = NoUrl THEN 0 ELSE 1
<1>1. ReadUpTo(m, n, template, Len(template.attributes), q)
  BY AttributesAre
<1>2. q \in Manifest /\ q.dur \in Nat /\ q.segdur \in Nat /\ q.timescale \in Nat
  BY <1>1 DEF ReadUpTo, SameBut, Manifest
<1>3. init \in {0, 1}
  OBVIOUS
<1>4. PICK num \in NumbersOfSegments(q.dur, q.segdur, q.timescale, init) :
         r = Counted(q, init, num)
  BY DEF SegmentTemplate
<1>5. num \in Int
  <2> HIDE DEF q, init
  <2> QED BY <1>2, <1>3, <1>4, NumbersAre
<1>6. q.dur = m.dur
  BY <1>1 DEF ReadUpTo, SameBut
<1>7. /\ r \in Manifest /\ r.dur = q.dur /\ r.levels = q.levels
      /\ r.segdur = q.segdur /\ r.timescale = q.timescale
      /\ r.init_url_template = q.init_url_template /\ r.init = init /\ r.num_of_segments = num
  <2> HIDE DEF q, init
  <2> QED BY <1>2, <1>3, <1>4, <1>5 DEF Manifest, Counted
<1>8. Timed(template) => q.segdur = template.duration /\ q.timescale = template.timescale
  <2>1. DOMAIN template.attributes = 1 .. Len(template.attributes)
    BY MpdAssumption
  <2> HIDE DEF q
  <2> QED BY <1>1, <2>1 DEF Timed, Present, ReadUpTo
<1> HIDE DEF q
<1>9. CountInv(template, r)
  BY <1>4, <1>7, <1>8 DEF CountInv
<1> QED BY <1>1, <1>6, <1>7, <1>9

\* The Representation is complete: its level is behind the others.
LEMMA CompleteRead ==
  ASSUME NEW m \in Manifest, NEW n \in Nat, n # NoUrl, NEW template \in Templates, NEW q,
         m.bw = n, Before(template, "initialization"), Before(template, "startNumber"),
         ReadUpTo(m, n, template, Len(template.attributes), q)
  PROVE  q.levels = Append(m.levels, LevelOf(n, template)) /\ q.init_url_template # NoUrl
<1>1. DOMAIN template.attributes = 1 .. Len(template.attributes)
  BY MpdAssumption
<1>2. /\ Present(template, Len(template.attributes), "initialization")
      /\ Present(template, Len(template.attributes), "media")
  BY <1>1 DEF Before, Present
<1>3. q.init_url_template = n
  BY <1>2 DEF ReadUpTo
<1>4. PICK u \in Nat, s \in Int :
             /\ q.levels = Append(m.levels, [bandwidth |-> m.bw, media |-> n, init_url |-> u, start |-> s])
             /\ u = n
             /\ s = template.start
  BY <1>2 DEF ReadUpTo
<1> QED BY <1>3, <1>4 DEF LevelOf

LEMMA ReadInv ==
  ASSUME NEW rs, NEW m, Reading(rs, m), NEW rep \in Representations,
         NEW n, n = Len(rs) + 1,
         rep.attributes = <<>> \/ m.bw = n,
         NEW r \in SegmentTemplate(m, n, rep.template)
  PROVE  Reading(Append(rs, rep), r) /\ r.dur = m.dur
<1> DEFINE template == rep.template
           more == Append(rs, rep)
<1>1. /\ rs \in Seq(Representations) /\ m \in Manifest /\ n \in Nat /\ n # NoUrl
      /\ template \in Templates /\ Len(rs) \in Nat /\ n = Len(rs) + 1
  BY DEF Reading, Representations, NoUrl
<1>2. PICK q :
           /\ ReadUpTo(m, n, template, Len(template.attributes), q)
           /\ r \in Manifest /\ r.dur = m.dur
           /\ r.levels = q.levels /\ r.init_url_template = q.init_url_template
           /\ r.init = IF q.init_url_template = NoUrl THEN 0 ELSE 1
           /\ CountInv(template, r)
  BY <1>1, SegmentTemplateIs
<1>3. /\ more \in Seq(Representations) /\ Len(more) = n /\ DOMAIN more = 1 .. n
      /\ more[n] = rep /\ \A i \in 1 .. Len(rs) : more[i] = rs[i]
  BY <1>1
<1>4. DOMAIN rs = 1 .. Len(rs)
  BY <1>1
<1>5. m.levels \in Seq(Level) /\ Len(m.levels) \in Nat /\ DOMAIN m.levels = 1 .. Len(m.levels)
  BY <1>1 DEF Manifest
<1>6. \/ r.levels = m.levels
      \/ \E level : level.media = n /\ r.levels = Append(m.levels, level)
  BY <1>2 DEF ReadUpTo
<1>7. /\ \A j \in DOMAIN r.levels :
           \/ j \in DOMAIN m.levels /\ r.levels[j] = m.levels[j]
           \/ j = Len(m.levels) + 1 /\ r.levels[j].media = n
      /\ \A j \in DOMAIN m.levels : j \in DOMAIN r.levels /\ r.levels[j] = m.levels[j]
  <2>1. CASE r.levels = m.levels
    BY <2>1
  <2>2. ASSUME NEW level, level.media = n, r.levels = Append(m.levels, level)
        PROVE  <1>7!1 /\ <1>7!2
    <3>1. /\ DOMAIN r.levels = 1 .. Len(m.levels) + 1 /\ r.levels[Len(m.levels) + 1] = level
          /\ \A j \in 1 .. Len(m.levels) : r.levels[j] = m.levels[j]
      BY <1>5, <2>2
    <3>2. \A j \in 1 .. Len(m.levels) + 1 : j \in 1 .. Len(m.levels) \/ j = Len(m.levels) + 1
      BY <1>5
    <3>3. \A j \in 1 .. Len(m.levels) : j \in 1 .. Len(m.levels) + 1
      BY <1>5
    <3> QED BY <1>5, <2>2, <3>1, <3>2, <3>3
  <2> QED BY <1>6, <2>1, <2>2
<1> HIDE DEF more
<1>8. \A j \in DOMAIN m.levels : m.levels[j].media \in 1 .. Len(rs)
  BY DEF Reading
<1>9. \A j \in DOMAIN r.levels : r.levels[j].media \in 1 .. Len(more)
  BY <1>1, <1>3, <1>7, <1>8
<1>10. ASSUME NEW i \in DOMAIN r.levels, NEW j \in DOMAIN r.levels, i < j
       PROVE  r.levels[i].media < r.levels[j].media
  <2>1. \A k \in DOMAIN m.levels : k <= Len(m.levels) /\ k \in Nat
    BY <1>5
  <2>2. i \in DOMAIN m.levels /\ r.levels[i] = m.levels[i]
    BY <1>5, <1>7, <1>10, <2>1
  <2>3. CASE j \in DOMAIN m.levels /\ r.levels[j] = m.levels[j]
    BY <1>10, <2>2, <2>3 DEF Reading
  <2>4. CASE r.levels[j].media = n
    BY <1>1, <1>8, <2>2, <2>4
  <2> QED BY <1>7, <2>3, <2>4
<1>11. m.dur \in Nat /\ r.dur = m.dur
  BY <1>1, <1>2 DEF Manifest
<1>12. ASSUME NEW k \in DOMAIN more, Complete(more[k])
       PROVE  /\ \E j \in DOMAIN r.levels : r.levels[j] = LevelOf(k, more[k].template)
              /\ r.init_url_template # NoUrl /\ r.init = 1
  <2>1. CASE k \in DOMAIN rs
    <3>1. more[k] = rs[k]
      BY <1>3, <1>4, <2>1
    <3>2. /\ \E j \in DOMAIN m.levels : m.levels[j] = LevelOf(k, rs[k].template)
          /\ m.init_url_template # NoUrl
      BY <1>12, <2>1, <3>1 DEF Reading
    <3>3. r.init_url_template # NoUrl
      BY <1>1, <1>2, <3>2 DEF ReadUpTo
    <3>4. \E j \in DOMAIN r.levels : r.levels[j] = LevelOf(k, more[k].template)
      BY <1>7, <3>1, <3>2
    <3>5. r.init = 1
      BY <1>2, <3>3
    <3> QED BY <1>2, <3>3, <3>4, <3>5
  <2>2. CASE k = n
    <3>1. more[k] = rep /\ m.bw = n
      BY <1>3, <1>12, <2>2 DEF Complete
    <3>2. Before(template, "initialization") /\ Before(template, "startNumber")
      BY <1>12, <3>1 DEF Complete
    <3>3. q.levels = Append(m.levels, LevelOf(n, template)) /\ q.init_url_template # NoUrl
      BY <1>1, <1>2, <3>1, <3>2, CompleteRead
    <3>4. Len(m.levels) + 1 \in DOMAIN r.levels /\ r.levels[Len(m.levels) + 1] = LevelOf(n, template)
      BY <1>2, <1>5, <3>3
    <3>5. \E j \in DOMAIN r.levels : r.levels[j] = LevelOf(k, more[k].template)
      BY <2>2, <3>1, <3>4
    <3>6. r.init = 1 /\ r.init_url_template # NoUrl
      BY <1>2, <3>3
    <3> QED BY <1>2, <3>5, <3>6
  <2>3. k \in DOMAIN rs \/ k = n
    BY <1>1, <1>3, <1>4
  <2> QED BY <2>1, <2>2, <2>3
<1>14. CountInv(more[Len(more)].template, r)
  BY <1>2, <1>3
<1>13. Reading(more, r)
  BY <1>2, <1>3, <1>9, <1>10, <1>12, <1>14 DEF Reading
<1> QED BY <1>11, <1>13 DEF more

LEMMA ReadRepresentationInv ==
  ASSUME MpdInv, ReadRepresentation
  PROVE  MpdInv'
<1> DEFINE n == Len(reps) + 1
<1>1. PICK attributes \in {<<>>, <<"bandwidth", "id">>, <<"id", "bandwidth">>}, template \in Templates :
         /\ reps' = Append(reps, [attributes |-> attributes, template |-> template])
         /\ IF attributes # <<>> /\ Head(attributes) # "bandwidth"
            THEN step' = "stuck" /\ mpd' = mpd
            ELSE /\ step' = step
                 /\ mpd' \in SegmentTemplate(IF attributes = <<>> THEN mpd ELSE [mpd EXCEPT !.bw = n],
                                             n, template)
  BY DEF ReadRepresentation
<1>2. /\ step = "set" /\ duration' = duration /\ duration \in Durations
      /\ mpd.dur = Seconds(duration) /\ Reading(reps, mpd)
  BY DEF ReadRepresentation, MpdInv
<1>3. CASE step' = "stuck"
  BY <1>3 DEF MpdInv, SegmentsAsDeclared
<1>4. CASE step' # "stuck"
  <2> DEFINE m == IF attributes = <<>> THEN mpd ELSE [mpd EXCEPT !.bw = n]
             rep == [attributes |-> attributes, template |-> template]
  <2>1. step' = "set" /\ mpd' \in SegmentTemplate(m, n, template)
    BY <1>1, <1>2, <1>4
  <2>2. mpd \in Manifest /\ n \in Nat
    BY <1>2 DEF Reading
  <2>3. /\ m \in Manifest /\ m.dur = mpd.dur /\ m.levels = mpd.levels /\ m.init = mpd.init
        /\ m.init_url_template = mpd.init_url_template /\ m.num_of_segments = mpd.num_of_segments
        /\ m.segdur = mpd.segdur /\ m.timescale = mpd.timescale
        /\ attributes = <<>> \/ m.bw = n
    <3> HIDE DEF n
    <3> QED BY <2>2 DEF Manifest
  <2> HIDE DEF m
  <2>4. Reading(reps, m)
    BY <1>2, <2>3 DEF Reading, CountInv
  <2>5. rep \in Representations /\ rep.attributes = attributes /\ rep.template = template
    BY DEF Representations
  <2>6. reps' = Append(reps, rep)
    BY <1>1
  <2> HIDE DEF rep
  <2>7. Reading(Append(reps, rep), mpd') /\ mpd'.dur = m.dur
    BY <2>1, <2>3, <2>4, <2>5, ReadInv
  <2>8. Reading(reps', mpd') /\ mpd'.dur = Seconds(duration')
    BY <1>2, <2>3, <2>6, <2>7
  <2> QED BY <1>2, <2>1, <2>8 DEF MpdInv, SegmentsAsDeclared
<1> QED BY <1>3, <1>4

\* The URLs that EndMpd makes of the level of a complete Representation.
LEMMA SegmentsDeclared ==
  ASSUME Reading(reps, mpd), duration \in Durations,
         mpd.dur = Seconds(duration), mpd.num_of_segments >= 0,
         NEW n \in DOMAIN reps, Complete(reps[n]),
         NEW urls, urls = Segments(LevelOf(n, reps[n].template))
  PROVE  /\ Declares(n, reps[n].template, urls)
         /\ duration.hours >= 0 /\ AsLong(reps[n].template, reps[Len(reps)].template) =>
              Fills(reps[n].template, Total, Cardinality(DOMAIN urls) - 1)
<1> DEFINE template == reps[n].template
           last == reps[Len(reps)].template
           level == LevelOf(n, template)
<1>1. /\ mpd.init = 1 /\ n \in Nat /\ n # NoUrl /\ template \in Templates
      /\ mpd.dur \in Nat /\ mpd.segdur \in Nat /\ mpd.timescale \in Nat
      /\ CountInv(last, mpd)
  <2>1. mpd.init = 1 /\ reps \in Seq(Representations)
    BY DEF Reading
  <2>2. mpd.dur \in Nat /\ mpd.segdur \in Nat /\ mpd.timescale \in Nat
    BY DEF Reading, Manifest
  <2>3. n \in Nat /\ n # NoUrl /\ reps[n] \in Representations /\ reps # <<>>
    BY <2>1 DEF NoUrl
  <2>4. template \in Templates
    BY <2>3 DEF Representations
  <2>5. CountInv(last, mpd)
    BY <2>3 DEF Reading
  <2> QED BY <2>1, <2>2, <2>3, <2>4, <2>5
<1>2. template.start \in Int
  BY <1>1, MpdAssumption
<1> HIDE DEF last
<1>3. PICK count \in Quotients(mpd.dur, mpd.segdur, mpd.timescale) :
         count \in Nat /\ mpd.num_of_segments = count + 1 /\ mpd.segdur # 0
  <2>1. mpd.num_of_segments \in NumbersOfSegments(mpd.dur, mpd.segdur, mpd.timescale, 1)
    BY <1>1 DEF CountInv
  <2> QED BY <1>1, <2>1, NumbersAre
<1>5. /\ level.media = n /\ level.bandwidth = n /\ level.init_url = n
      /\ level.start = template.start
  BY DEF LevelOf
<1>6. urls = [k \in 0 .. count |->
                IF k >= 1 THEN MediaUrl(level, level.start + k - 1)
                ELSE IF level.init_url # NoUrl THEN InitUrl(level)
                ELSE Garbage]
  <2>1. urls = Segments(level)
    OBVIOUS
  <2> HIDE DEF level
  <2>2. urls = [k \in 0 .. mpd.num_of_segments - 1 |->
                  IF k >= mpd.init THEN MediaUrl(level, level.start + k - mpd.init)
                  ELSE IF level.init_url # NoUrl THEN InitUrl(level)
                  ELSE Garbage]
    BY <2>1 DEF Segments
  <2>3. mpd.num_of_segments - 1 = count
    BY <1>3
  <2> QED BY <1>1, <2>2, <2>3
<1> HIDE DEF level
<1>7. DOMAIN urls = 0 .. count
  BY <1>6
<1>8. Cardinality(DOMAIN urls) - 1 = count
  <2>1. Cardinality(0 .. count) = IF 0 > count THEN 0 ELSE count - 0 + 1
    BY <1>3, FS_Interval
  <2> QED BY <1>3, <1>7, <2>1
<1>9. urls[0] = [media |-> n, bandwidth |-> 0, number |-> -1]
  BY <1>1, <1>3, <1>5, <1>6 DEF InitUrl
<1>10. ASSUME NEW k \in DOMAIN urls \ {0}
       PROVE  /\ urls[k].media = n
              /\ "Bandwidth" \in template.placeholders => urls[k].bandwidth = n
              /\ "Number" \in template.placeholders => urls[k].number = template.start + k - 1
  <2>1. k \in 0 .. count /\ k >= 1
    BY <1>3, <1>7
  <2>2. urls[k] = MediaUrl(level, level.start + k - 1)
    BY <1>6, <2>1
  <2> QED BY <1>5, <2>2 DEF MediaUrl
<1>11. Declares(n, template, urls)
  BY <1>9, <1>10 DEF Declares
<1>12. ASSUME duration.hours >= 0, AsLong(template, last)
       PROVE  Fills(template, Total, count)
  <2>1. mpd.dur = Total
    BY <1>12, DurationTyped DEF Total
  <2>2. mpd.segdur = template.duration /\ mpd.timescale = template.timescale /\ template.timescale > 0
    BY <1>1, <1>12 DEF AsLong, CountInv, Timed
  <2>3. /\ count \in Quotients(Total, template.duration, template.timescale)
        /\ Total \in Nat /\ template.duration \in Nat \ {0} /\ template.timescale \in Nat
    BY <1>1, <1>3, <2>1, <2>2
  <2> HIDE DEF template
  <2> QED BY <2>2, <2>3, QuotientsAre DEF Fills
<1> QED BY <1>8, <1>11, <1>12 DEF last

\* What the property says of the n-th Representation.
Served(rs, m, d, total, n) ==
  Complete(rs[n]) =>
    \E j \in DOMAIN m.levels :
      /\ m.levels[j].media = n
      /\ Declares(n, rs[n].template, m.segments[j])
      /\ d.hours >= 0 /\ AsLong(rs[n].template, rs[Len(rs)].template) =>
           Fills(rs[n].template, total, Cardinality(DOMAIN m.segments[j]) - 1)

LEMMA EndMpdInv ==
  ASSUME MpdInv, EndMpd
  PROVE  MpdInv'
<1>1. /\ Reading(reps, mpd) /\ duration \in Durations /\ mpd.dur = Seconds(duration)
      /\ duration' = duration /\ reps' = reps
  BY DEF EndMpd, MpdInv
<1>2. mpd \in Manifest /\ mpd.num_of_segments \in Int
  BY <1>1 DEF Reading, Manifest
<1>3. CASE mpd.num_of_segments < 0
  <2>1. step' = "rejected"
    BY <1>3 DEF EndMpd
  <2> QED BY <2>1 DEF MpdInv, SegmentsAsDeclared
<1>4. CASE mpd.num_of_segments >= 0
  <2>1. /\ step' = "done"
        /\ mpd' = [mpd EXCEPT !.segments = [j \in DOMAIN mpd.levels |-> Segments(mpd.levels[j])]]
    BY <1>2, <1>4 DEF EndMpd
  <2>2. /\ mpd'.levels = mpd.levels
        /\ mpd'.segments = [j \in DOMAIN mpd.levels |-> Segments(mpd.levels[j])]
    BY <1>2, <2>1 DEF Manifest
  <2>3. \A i, j \in DOMAIN mpd'.levels : i < j => mpd'.levels[i].media < mpd'.levels[j].media
    BY <1>1, <2>2 DEF Reading
  <2>4. ASSUME NEW n \in DOMAIN reps, Complete(reps[n])
        PROVE  \E j \in DOMAIN mpd'.levels :
                 /\ mpd'.levels[j].media = n
                 /\ Declares(n, reps[n].template, mpd'.segments[j])
                 /\ duration.hours >= 0 /\ AsLong(reps[n].template, reps[Len(reps)].template) =>
                      Fills(reps[n].template, Total, Cardinality(DOMAIN mpd'.segments[j]) - 1)
    <3>1. PICK j \in DOMAIN mpd.levels : mpd.levels[j] = LevelOf(n, reps[n].template)
      BY <1>1, <2>4 DEF Reading
    <3>2. mpd'.segments[j] = Segments(LevelOf(n, reps[n].template))
      BY <2>2, <3>1
    <3>3. /\ Declares(n, reps[n].template, mpd'.segments[j])
          /\ duration.hours >= 0 /\ AsLong(reps[n].template, reps[Len(reps)].template) =>
               Fills(reps[n].template, Total, Cardinality(DOMAIN mpd'.segments[j]) - 1)
      BY <1>1, <1>4, <2>4, <3>2, SegmentsDeclared
    <3>4. mpd'.levels[j].media = n
      BY <2>2, <3>1 DEF LevelOf
    <3> QED BY <2>2, <3>1, <3>3, <3>4
  <2>5. Total' = Total
    BY <1>1 DEF Total
  <2>6. \A n \in DOMAIN reps : Served(reps, mpd', duration, Total, n)
    BY <2>4 DEF Served
  <2>7. \A n \in DOMAIN reps' : Served(reps', mpd', duration', Total', n)
    BY <1>1, <2>5, <2>6
  <2>8. SegmentsAsDeclared'
    BY <2>3, <2>7 DEF SegmentsAsDeclared, Served
  <2> QED BY <2>1, <2>8 DEF MpdInv
<1> QED BY <1>2, <1>3, <1>4

LEMMA MpdNextInv == MpdInv /\ [MpdNext]_mpdVars => MpdInv'
<1> SUFFICES ASSUME MpdInv, [MpdNext]_mpdVars PROVE MpdInv'
  OBVIOUS
<1>1. CASE EndSet
  BY <1>1 DEF EndSet, MpdInv, SegmentsAsDeclared
<1>2. CASE UNCHANGED mpdVars
  <2>1. step' = step /\ duration' = duration /\ reps' = reps /\ mpd' = mpd
    BY <1>2 DEF mpdVars
  <2>2. SegmentsAsDeclared'
    BY <2>1 DEF MpdInv, SegmentsAsDeclared, Declares, Fills, AsLong, Total
  <2> QED BY <2>1, <2>2 DEF MpdInv
<1> QED BY <1>1, <1>2, ReadPeriodInv, ReadRepresentationInv, EndMpdInv DEF MpdNext

(***************************************************************************)
(* The manifest of parse_mpd is the document's: for any number of          *)
(* Representations, with attributes in any order, late or missing, a       *)
(* complete one gets the URLs it declares, whatever the variables still    *)
(* hold of those before it; and as many as fill the Period if its segments *)
(* last as long as those of the last, whose number all levels are given.   *)
(***************************************************************************)
THEOREM ManifestCorrect == MpdSpec => []SegmentsAsDeclared
<1>1. MpdSpec => []MpdInv
  BY MpdInitInv, MpdNextInv, PTL DEF MpdSpec
<1>2. MpdInv => SegmentsAsDeclared
  BY DEF MpdInv
<1> QED BY <1>1, <1>2, PTL

-----------------------------------------------------------------------------
(* The run of all of them.                                                   *)

\* A number is one of uint64_t, and a text is digits and what follows them.
UtilTypes ==
  /\ number \in 0 .. MaxUint
  /\ IsText(text)
  /\ text = [negative |-> text.negative, digits |-> text.digits, rest |-> text.rest]

(***************************************************************************)
(* Every number of the run is formatted to a text that parse_uint_iec and  *)
(* parse_duration read back, and every text is read as what it says, or    *)
(* refused when it says too much.                                          *)
(***************************************************************************)
THEOREM NumbersAreReadBack == Spec => []NumbersReadBack
<1>1. Init => UtilTypes
  <2> SUFFICES ASSUME Init PROVE UtilTypes
    OBVIOUS
  <2>1. MaxUint \in Nat
    BY UtilAssumption
  <2>2. number \in 0 .. MaxUint
    BY <2>1 DEF Init, UtilIdle
  <2>3. CASE text = Text(<<0>>, NoUnit)
    <3>1. <<0>> \in Seq(0 .. 9)
      OBVIOUS
    <3> QED BY <2>2, <2>3, <3>1 DEF UtilTypes, Text, IsText
  <2>4. CASE text \in TheTexts
    <3>1. PICK k \in 0 .. 3 : \E negative \in BOOLEAN, digits \in [1 .. k -> {0, 2, 5, 6}],
                                 rest \in SizeUnits \cup DurationUnits \cup {NoUnit, "x"} :
                                 text = [negative |-> negative, digits |-> digits, rest |-> rest]
      BY <2>4 DEF TheTexts
    <3>2. PICK negative \in BOOLEAN, digits \in [1 .. k -> {0, 2, 5, 6}],
               rest \in SizeUnits \cup DurationUnits \cup {NoUnit, "x"} :
               text = [negative |-> negative, digits |-> digits, rest |-> rest]
      BY <3>1
    <3>3. digits \in [1 .. k -> 0 .. 9]
      OBVIOUS
    <3>4. digits \in Seq(0 .. 9)
      BY <3>3
    <3> QED BY <2>2, <3>2, <3>4 DEF UtilTypes, IsText
  <2> QED BY <2>3, <2>4 DEF Init, UtilIdle
<1>2. UtilTypes /\ [Next]_vars => UtilTypes'
  BY DEF UtilTypes, Next, vars
<1>3. UtilTypes => NumbersReadBack
  <2> SUFFICES ASSUME UtilTypes, text # Text(<<>>, NoUnit) PROVE ReadsAs(number, text)
    BY DEF NumbersReadBack
  <2>1. text.negative \/ ~ (text.digits = <<>> /\ text.rest = NoUnit)
    <3> SUFFICES ASSUME ~text.negative, text.digits = <<>>, text.rest = NoUnit PROVE FALSE
      OBVIOUS
    <3>1. text.negative = FALSE
      BY DEF UtilTypes, IsText
    <3> QED BY <3>1 DEF UtilTypes, Text
  <2> QED BY <2>1, NumbersCorrect DEF UtilTypes
<1> QED BY <1>1, <1>2, <1>3, PTL DEF Spec
=============================================================================
