--------------------------- MODULE AmountsProofs ----------------------------
(***************************************************************************)
(* Every amount of 64 bits and every percentage of 16 can be written in    *)
(* the buffers the reviews give it (the sizes of ui_utils.c), and the text *)
(* denotes the number: read back as a decimal, it is the one the client    *)
(* sent.  The digits are followed from the words of the number to the      *)
(* limbs of format_u64, from the limbs to the digits and back to words.    *)
(***************************************************************************)
EXTENDS Amounts, SolarClient, AccumulateProofs

\* A text of so many characters.
Text(t, n) == \E S : t \in Seq(S) /\ Len(t) = n

LEMMA FunctionText ==
  ASSUME NEW n \in Nat, NEW S, NEW f \in [1..n -> S]
  PROVE  Text(f, n)
<1>1. f \in Seq(S) /\ Len(f) = n
  OBVIOUS
<1> QED BY <1>1 DEF Text

\* A text of m characters with one of n behind it.
Both(u, s, m, t, n) ==
  /\ Text(u, m + n)
  /\ \A k \in 1..m + n : u[k] = IF k <= m THEN s[k] ELSE t[k - m]

LEMMA Join2 ==
  ASSUME NEW s, NEW m \in Nat, NEW t, NEW n \in Nat, Text(s, m), Text(t, n)
  PROVE  Both(s \o t, s, m, t, n) /\ Text(s \o t, m + n)
<1>1. PICK S : s \in Seq(S) /\ Len(s) = m
  BY DEF Text
<1>2. PICK T : t \in Seq(T) /\ Len(t) = n
  BY DEF Text
<1>3. s \in Seq(S \cup T)
  <2>1. S \subseteq S \cup T
    OBVIOUS
  <2> QED BY <2>1, <1>1, SeqMonotonic
<1>4. t \in Seq(S \cup T)
  <2>1. T \subseteq S \cup T
    OBVIOUS
  <2> QED BY <2>1, <1>2, SeqMonotonic
<1>5. /\ s \o t \in Seq(S \cup T) /\ Len(s \o t) = m + n
      /\ \A k \in 1..m + n : (s \o t)[k] = IF k <= m THEN s[k] ELSE t[k - m]
  BY <1>1, <1>2, <1>3, <1>4, ConcatProperties
<1> QED BY <1>5 DEF Text, Both

LEMMA Part ==
  ASSUME NEW t, NEW n \in Nat, Text(t, n), NEW a \in 1..n + 1, NEW b \in a - 1..n
  PROVE  /\ Text(SubSeq(t, a, b), b - a + 1)
         /\ \A k \in 1..b - a + 1 : SubSeq(t, a, b)[k] = t[a + k - 1]
<1>1. PICK S : t \in Seq(S) /\ Len(t) = n
  BY DEF Text
<1>2. a \in Int /\ b \in Int
  OBVIOUS
<1>3. \A i \in a..b : t[i] \in S
  <2>1. \A i \in a..b : i \in 1..Len(t)
    BY <1>1
  <2> QED BY <2>1, <1>1, ElementOfSeq
<1>4. /\ SubSeq(t, a, b) \in Seq(S)
      /\ Len(SubSeq(t, a, b)) = IF a <= b THEN b - a + 1 ELSE 0
      /\ \A k \in 1..b - a + 1 : SubSeq(t, a, b)[k] = t[a + k - 1]
  BY <1>2, <1>3, SubSeqProperties
<1>5. (IF a <= b THEN b - a + 1 ELSE 0) = b - a + 1
  BY <1>2
<1> QED BY <1>4, <1>5 DEF Text

LEMMA NotEmpty ==
  ASSUME NEW t, NEW n \in Nat, n > 0, Text(t, n)
  PROVE  t # NoText
<1>1. Len(<<>>) = 0
  OBVIOUS
<1> QED BY <1>1 DEF Text, NoText

\* A set of numbers up to a bound has a last one.
LEMMA LastOf ==
  ASSUME NEW N \in Nat, NEW P \in SUBSET (0..N), P # {}
  PROVE  \E m \in P : \A d \in P : d <= m
<1> DEFINE T == {N - d : d \in P}
<1>1. T \subseteq Nat /\ T # {}
  <2>1. \A d \in P : N - d \in Nat
    OBVIOUS
  <2>2. PICK p \in P : TRUE
    OBVIOUS
  <2>3. N - p \in T
    OBVIOUS
  <2> QED BY <2>1, <2>3
<1>2. PICK x \in T : \A y \in T : ~(<<y, x>> \in OpToRel(<, Nat))
  BY <1>1, NatLessThanWellFounded, WFMin
<1>3. \A y \in T : ~(y < x)
  BY <1>1, <1>2 DEF OpToRel
<1>4. PICK m \in P : x = N - m
  OBVIOUS
<1>5. \A d \in P : d <= m
  <2> TAKE d \in P
  <2>1. ~(N - d < N - m)
    BY <1>3, <1>4
  <2> QED BY <2>1
<1> QED BY <1>5

-----------------------------------------------------------------------------
(* The SDK's formatters.                                                   *)

\* The digits of a number of 64 bits are from 1 to 20, the first one not zero but for
\* that of zero itself.
LEMMA DecimalText ==
  ASSUME NEW bytes
  PROVE  \E n \in 1..20 :
           /\ Text(Decimal(bytes), n) /\ DOMAIN Decimal(bytes) = 1..n
           /\ \A k \in 1..n : Decimal(bytes)[k] = Zero + Digit(bytes, n - k)
           /\ n = 1 \/ Digit(bytes, n - 1) # 0
           /\ \A d \in n..19 : Digit(bytes, d) = 0
<1> DEFINE digit == [n \in 0..19 |-> Digit(bytes, n)]
           isLast(n) == /\ n = 0 \/ digit[n] # 0
                        /\ \A d \in n + 1..19 : digit[d] = 0
           last == CHOOSE n \in 0..19 : isLast(n)
           text == [k \in 1..last + 1 |-> Zero + digit[last + 1 - k]]
<1>1. Decimal(bytes) = text
  BY Zenon DEF Decimal
<1> HIDE DEF digit
<1>2. last \in 0..19 /\ isLast(last)
  <2> DEFINE P == {n \in 0..19 : n = 0 \/ digit[n] # 0}
  <2>1. P \in SUBSET (0..19) /\ 0 \in P
    OBVIOUS
  <2>2. PICK m \in P : \A d \in P : d <= m
    BY <2>1, LastOf
  <2>3. \A d \in m + 1..19 : digit[d] = 0
    BY <2>2
  <2>4. m \in 0..19 /\ isLast(m)
    BY <2>2, <2>3
  <2> HIDE DEF isLast
  <2> QED BY <2>4
<1> HIDE DEF last
<1>3. Text(text, last + 1) /\ DOMAIN text = 1..last + 1
  <2> DEFINE e(k) == Zero + digit[last + 1 - k]
             S == {e(k) : k \in 1..last + 1}
  <2>1. text \in [1..last + 1 -> S]
    OBVIOUS
  <2>2. last + 1 \in Nat
    BY <1>2
  <2>3. text \in Seq(S) /\ Len(text) = last + 1
    BY <2>1, <2>2
  <2> QED BY <2>3 DEF Text
<1>4. last + 1 \in 1..20
  BY <1>2
<1>5. \A k \in 1..last + 1 : text[k] = Zero + Digit(bytes, last + 1 - k)
  BY <1>2 DEF digit
<1>6. last + 1 = 1 \/ Digit(bytes, (last + 1) - 1) # 0
  <2>1. (last + 1) - 1 = last
    BY <1>2
  <2> QED BY <1>2, <2>1 DEF digit
<1>7. \A d \in last + 1..19 : Digit(bytes, d) = 0
  <2>1. \A d \in last + 1..19 : d \in 0..19
    BY <1>2
  <2> QED BY <1>2, <2>1 DEF digit
<1> HIDE DEF text
<1> DEFINE m == last + 1
<1>8. /\ m \in 1..20 /\ Text(text, m) /\ DOMAIN text = 1..m
      /\ \A k \in 1..m : text[k] = Zero + Digit(bytes, m - k)
      /\ m = 1 \/ Digit(bytes, m - 1) # 0
      /\ \A d \in m..19 : Digit(bytes, d) = 0
  <2>1. m \in 1..20 BY <1>4
  <2>2. Text(text, m) /\ DOMAIN text = 1..m BY <1>3
  <2>3. \A k \in 1..m : text[k] = Zero + Digit(bytes, m - k) BY <1>2, <1>5
  <2>4. m = 1 \/ Digit(bytes, m - 1) # 0 BY <1>6
  <2>5. \A d \in m..19 : Digit(bytes, d) = 0 BY <1>7
  <2> QED BY <2>1, <2>2, <2>3, <2>4, <2>5
<1> HIDE DEF m
<1> QED BY <1>1, <1>8

LEMMA Singles ==
  /\ Text(<<Zero, Point>>, 2) /\ Text(<<Point>>, 1) /\ Text(<<Space>>, 1)
  /\ Text(<<PercentSign>>, 1) /\ Text(Sxp, 3)
<1>1. /\ <<48, 46>> \in Seq(Nat) /\ <<46>> \in Seq(Nat) /\ <<32>> \in Seq(Nat)
      /\ <<37>> \in Seq(Nat) /\ <<83, 88, 80>> \in Seq(Nat)
  OBVIOUS
<1>2. /\ Len(<<48, 46>>) = 2 /\ Len(<<46>>) = 1 /\ Len(<<32>>) = 1
      /\ Len(<<37>>) = 1 /\ Len(<<83, 88, 80>>) = 3
  OBVIOUS
<1> QED BY <1>1, <1>2 DEF Text, Zero, Point, Space, PercentSign, Sxp

\* The digits are those of the number, from the m-th to the lowest, with a point before
\* the decimals; the first of them is only zero where it stands before the point alone.
FpuDigits(t, bytes, decimals, m) ==
  /\ Text(t, m + 1)
  /\ \A k \in 1..m - decimals : t[k] = Zero + Digit(bytes, m - k)
  /\ t[m - decimals + 1] = Point
  /\ \A k \in m - decimals + 2..m + 1 : t[k] = Zero + Digit(bytes, m + 1 - k)
  /\ m > decimals + 1 => Digit(bytes, m - 1) # 0
  /\ \A d \in m..19 : Digit(bytes, d) = 0

LEMMA FpuText ==
  ASSUME NEW bytes, NEW decimals \in 1..8, NEW dstLen \in Nat, dstLen >= 30
  PROVE  \E m \in decimals + 1..20 :
           FpuDigits(FormatFpu64(dstLen, bytes, decimals), bytes, decimals, m)
<1> DEFINE digits == Decimal(bytes)
           zeros == [k \in 1..decimals - Len(digits) |-> Zero]
<1>1. PICK n \in 1..20 :
        /\ Text(digits, n)
        /\ \A k \in 1..n : digits[k] = Zero + Digit(bytes, n - k)
        /\ n = 1 \/ Digit(bytes, n - 1) # 0
        /\ \A d \in n..19 : Digit(bytes, d) = 0
  BY DecimalText
<1>2. Len(digits) = n
  BY <1>1 DEF Text
<1> HIDE DEF digits
<1>3. CASE n <= decimals
  <2> DEFINE left == <<Zero, Point>> \o zeros
             t == left \o digits
             m == decimals + 1
  <2>1. /\ Text(zeros, decimals - n) /\ decimals - n \in Nat
        /\ \A k \in 1..decimals - n : zeros[k] = Zero
    <3>1. decimals - n \in Nat
      BY <1>3
    <3>2. /\ zeros \in [1..decimals - n -> {Zero}]
          /\ \A k \in 1..decimals - n : zeros[k] = Zero
      BY <1>2
    <3> HIDE DEF zeros
    <3> QED BY <3>1, <3>2, FunctionText
  <2>2. FormatFpu64(dstLen, bytes, decimals) = t
    <3>1. ~(dstLen <= 2 + decimals)
      OBVIOUS
    <3> QED BY <3>1, <1>2, <1>3 DEF FormatFpu64, digits
  <2> HIDE DEF zeros
  <2>3. /\ Text(left, 2 + (decimals - n))
        /\ \A k \in 1..2 + (decimals - n) :
             left[k] = IF k <= 2 THEN <<Zero, Point>>[k] ELSE zeros[k - 2]
    <3> DEFINE z == decimals - n
               unit == <<Zero, Point>>
    <3>1. 2 \in Nat /\ z \in Nat /\ Text(unit, 2) /\ Text(zeros, z)
      BY <2>1, Singles
    <3> HIDE DEF z, unit
    <3>2. Both(unit \o zeros, unit, 2, zeros, z)
      BY <3>1, Join2
    <3> QED BY <3>2 DEF Both, z, unit
  <2> HIDE DEF left
  <2>4. /\ Text(t, 2 + (decimals - n) + n)
        /\ \A k \in 1..2 + (decimals - n) + n :
             t[k] = IF k <= 2 + (decimals - n) THEN left[k] ELSE digits[k - (2 + (decimals - n))]
    <3> DEFINE z == 2 + (decimals - n)
    <3>1. z \in Nat /\ n \in Nat /\ Text(left, z) /\ Text(digits, n)
      BY <2>3, <1>1, <1>3
    <3> HIDE DEF z
    <3>2. Both(left \o digits, left, z, digits, n)
      BY <3>1, Join2
    <3> QED BY <3>2 DEF Both, z
  <2>5. 2 + (decimals - n) + n = m + 1 /\ m - decimals = 1 /\ m \in decimals + 1..20
    OBVIOUS
  <2>6. left[1] = Zero /\ left[2] = Point
    BY <2>1, <2>3
  <2> HIDE DEF t
  <2>7. \A k \in 1..1 : t[k] = Zero + Digit(bytes, m - k)
    <3>1. Digit(bytes, decimals) = 0
      BY <1>1, <1>3
    <3>2. t[1] = Zero /\ m - 1 = decimals
      BY <2>1, <2>4, <2>6
    <3> QED BY <3>1, <3>2 DEF Zero
  <2>8. t[m - decimals + 1] = Point
    BY <2>1, <2>4, <2>6
  <2>9. ASSUME NEW k \in 3..m + 1 PROVE t[k] = Zero + Digit(bytes, m + 1 - k)
    <3>1. CASE k <= 2 + (decimals - n)
      <4>1. t[k] = Zero
        <5>1. t[k] = left[k]
          BY <2>4, <2>5, <3>1
        <5>2. left[k] = zeros[k - 2]
          BY <2>3, <3>1
        <5>3. zeros[k - 2] = Zero
          BY <2>1, <3>1
        <5> QED BY <5>1, <5>2, <5>3
      <4>2. Digit(bytes, m + 1 - k) = 0
        <5>1. m + 1 - k \in n..19
          BY <3>1
        <5> QED BY <5>1, <1>1
      <4> QED BY <4>1, <4>2 DEF Zero
    <3>2. CASE k > 2 + (decimals - n)
      <4> DEFINE i == k - (2 + (decimals - n))
      <4>1. i \in 1..n /\ n - i = m + 1 - k
        BY <3>2
      <4>2. t[k] = digits[i]
        <5>1. k \in 1..2 + (decimals - n) + n /\ ~(k <= 2 + (decimals - n))
          BY <3>2
        <5> QED BY <5>1, <2>4
      <4>3. digits[i] = Zero + Digit(bytes, n - i)
        BY <4>1, <1>1
      <4> HIDE DEF i
      <4> QED BY <4>1, <4>2, <4>3
    <3> QED BY <3>1, <3>2
  <2>10. \A d \in m..19 : Digit(bytes, d) = 0
    BY <1>1, <1>3
  <2>11. FpuDigits(t, bytes, decimals, m)
    <3>1. ~(m > decimals + 1) /\ m - decimals + 2 = 3
      OBVIOUS
    <3> HIDE DEF m
    <3> QED BY <3>1, <2>4, <2>5, <2>7, <2>8, <2>9, <2>10 DEF FpuDigits
  <2> HIDE DEF m
  <2> QED BY <2>2, <2>5, <2>11
<1>4. CASE n > decimals
  <2> DEFINE whole == SubSeq(digits, 1, n - decimals)
             rest == SubSeq(digits, n - decimals + 1, n)
             left == whole \o <<Point>>
             t == left \o rest
  <2>1. FormatFpu64(dstLen, bytes, decimals) = t
    <3>1. ~(dstLen <= n + 1 + decimals)
      OBVIOUS
    <3> QED BY <3>1, <1>2, <1>4 DEF FormatFpu64, digits
  <2>2. /\ Text(whole, n - decimals)
        /\ \A k \in 1..n - decimals : whole[k] = digits[k]
    <3>1. /\ 1 \in 1..n + 1 /\ n - decimals \in 1 - 1..n /\ (n - decimals) - 1 + 1 = n - decimals
          /\ \A k \in 1..n - decimals : 1 + k - 1 = k
      BY <1>4
    <3>2. /\ Text(whole, (n - decimals) - 1 + 1)
          /\ \A k \in 1..(n - decimals) - 1 + 1 : whole[k] = digits[1 + k - 1]
      BY <3>1, <1>1, Part
    <3> HIDE DEF whole
    <3> QED BY <3>1, <3>2
  <2>3. /\ Text(rest, decimals)
        /\ \A k \in 1..decimals : rest[k] = digits[n - decimals + k]
    <3>1. /\ n - decimals + 1 \in 1..n + 1 /\ n \in (n - decimals + 1) - 1..n
          /\ n - (n - decimals + 1) + 1 = decimals
          /\ \A k \in 1..decimals : (n - decimals + 1) + k - 1 = n - decimals + k
      BY <1>4
    <3>2. /\ Text(rest, n - (n - decimals + 1) + 1)
          /\ \A k \in 1..n - (n - decimals + 1) + 1 : rest[k] = digits[(n - decimals + 1) + k - 1]
      <4> DEFINE a == n - decimals + 1
      <4>1. n \in Nat /\ a \in 1..n + 1 /\ n \in a - 1..n /\ Text(digits, n)
        BY <3>1, <1>1
      <4> HIDE DEF a
      <4>2. /\ Text(SubSeq(digits, a, n), n - a + 1)
            /\ \A k \in 1..n - a + 1 : SubSeq(digits, a, n)[k] = digits[a + k - 1]
        BY <4>1, Part
      <4> QED BY <4>2 DEF a
    <3> HIDE DEF rest
    <3> QED BY <3>1, <3>2
  <2> HIDE DEF whole, rest
  <2>4. /\ Text(left, (n - decimals) + 1)
        /\ \A k \in 1..(n - decimals) + 1 :
             left[k] = IF k <= n - decimals THEN whole[k] ELSE <<Point>>[k - (n - decimals)]
    <3> DEFINE a == n - decimals
               unit == <<Point>>
    <3>1. a \in Nat /\ 1 \in Nat /\ Text(unit, 1) /\ Text(whole, a)
      BY <2>2, <1>4, Singles
    <3> HIDE DEF a, unit
    <3>2. Both(whole \o unit, whole, a, unit, 1)
      BY <3>1, Join2
    <3> QED BY <3>2 DEF Both, a, unit
  <2> HIDE DEF left
  <2>5. /\ Text(t, ((n - decimals) + 1) + decimals)
        /\ \A k \in 1..((n - decimals) + 1) + decimals :
             t[k] = IF k <= (n - decimals) + 1 THEN left[k] ELSE rest[k - ((n - decimals) + 1)]
    <3> DEFINE a == (n - decimals) + 1
    <3>1. a \in Nat /\ decimals \in Nat /\ Text(left, a) /\ Text(rest, decimals)
      BY <2>3, <2>4, <1>4
    <3> HIDE DEF a
    <3>2. Both(left \o rest, left, a, rest, decimals)
      BY <3>1, Join2
    <3> QED BY <3>2 DEF Both, a
  <2> HIDE DEF t
  <2>6. ((n - decimals) + 1) + decimals = n + 1 /\ n \in decimals + 1..20
    BY <1>4
  <2>7. ASSUME NEW k \in 1..n - decimals PROVE t[k] = Zero + Digit(bytes, n - k)
    <3>1. k \in 1..(n - decimals) + 1 /\ k \in 1..((n - decimals) + 1) + decimals /\ k \in 1..n
      OBVIOUS
    <3>2. t[k] = left[k] /\ left[k] = whole[k]
      BY <3>1, <2>4, <2>5
    <3> QED BY <3>1, <3>2, <2>2, <1>1
  <2>8. t[n - decimals + 1] = Point
    <3> DEFINE p == (n - decimals) + 1
    <3>1. p \in 1..(n - decimals) + 1 /\ p \in 1..((n - decimals) + 1) + decimals
      BY <1>4
    <3>2. t[p] = left[p]
      BY <3>1, <2>5
    <3>3. ~(p <= n - decimals) /\ p - (n - decimals) = 1
      BY <1>4
    <3>4. left[p] = <<Point>>[1]
      BY <3>1, <3>3, <2>4
    <3>5. <<Point>>[1] = Point
      OBVIOUS
    <3> QED BY <3>2, <3>4, <3>5
  <2>9. ASSUME NEW k \in n - decimals + 2..n + 1 PROVE t[k] = Zero + Digit(bytes, n + 1 - k)
    <3> DEFINE i == k - ((n - decimals) + 1)
    <3>1. /\ k \in 1..((n - decimals) + 1) + decimals /\ ~(k <= (n - decimals) + 1)
          /\ i \in 1..decimals /\ n - decimals + i \in 1..n
          /\ n - (n - decimals + i) = n + 1 - k
      BY <1>4
    <3>2. t[k] = rest[i]
      BY <3>1, <2>5
    <3>3. rest[i] = digits[n - decimals + i]
      BY <3>1, <2>3
    <3>4. digits[n - decimals + i] = Zero + Digit(bytes, n - (n - decimals + i))
      BY <3>1, <1>1
    <3> HIDE DEF i
    <3> QED BY <3>1, <3>2, <3>3, <3>4
  <2>10. n > decimals + 1 => Digit(bytes, n - 1) # 0
    BY <1>1
  <2>11. FpuDigits(t, bytes, decimals, n)
    BY <2>5, <2>6, <2>7, <2>8, <2>9, <2>10, <1>1 DEF FpuDigits
  <2> QED BY <2>1, <2>6, <2>11
<1> QED BY <1>3, <1>4

-----------------------------------------------------------------------------
(* The app's own.                                                          *)

\* u are the first m of n characters; only zeros were removed, none of them padding
\* places behind a point, and it ends there or with another character.
Unpadded(u, amount, n, padding, m) ==
  /\ Text(u, m)
  /\ \A k \in 1..m : u[k] = amount[k]
  /\ \A k \in m + 1..n :
       amount[k] = Zero /\ ~(k > padding /\ amount[k - padding] = Point)
  /\ \/ m = 1 \/ amount[m] # Zero
     \/ m > padding /\ amount[m - padding] = Point

\* Removing zeros leaves at least one character.
LEMMA UnpadText ==
  ASSUME NEW amount, NEW n \in 2..30, Text(amount, n), NEW padding
  PROVE  \E m \in 1..n : Unpadded(UnpadAmount(amount, padding), amount, n, padding, m)
<1> DEFINE stops(k) == \/ k = 1 \/ amount[k] # Zero
                       \/ k > padding /\ amount[k - padding] = Point
           isLast(k) == stops(k) /\ \A j \in k + 1..Len(amount) : ~stops(j)
           last == CHOOSE k \in 1..Len(amount) : isLast(k)
<1>1. Len(amount) = n
  BY DEF Text
<1>2. UnpadAmount(amount, padding) = SubSeq(amount, 1, last)
  <2>1. ~(Len(amount) <= 1)
    BY <1>1
  <2> QED BY <2>1, Zenon DEF UnpadAmount
<1> HIDE DEF stops
<1>3. last \in 1..n /\ isLast(last)
  <2> DEFINE P == {k \in 1..n : stops(k)}
  <2>1. P \in SUBSET (0..n) /\ 1 \in P
    BY DEF stops
  <2>2. n \in Nat /\ P # {}
    BY <2>1
  <2> HIDE DEF P
  <2>3. PICK m \in P : \A d \in P : d <= m
    BY <2>1, <2>2, LastOf
  <2> USE DEF P
  <2>4. m \in 1..n /\ isLast(m)
    BY <2>3, <1>1
  <2> HIDE DEF isLast
  <2> QED BY <2>4, <1>1
<1> HIDE DEF last
<1>4. /\ Text(SubSeq(amount, 1, last), last)
      /\ \A k \in 1..last : SubSeq(amount, 1, last)[k] = amount[k]
  <2>1. /\ 1 \in 1..n + 1 /\ last \in 1 - 1..n /\ n \in Nat
        /\ last - 1 + 1 = last /\ \A k \in 1..last : 1 + k - 1 = k
    BY <1>3
  <2>2. /\ Text(SubSeq(amount, 1, last), last - 1 + 1)
        /\ \A k \in 1..last - 1 + 1 : SubSeq(amount, 1, last)[k] = amount[1 + k - 1]
    BY <2>1, Part
  <2> QED BY <2>1, <2>2
<1>5. ASSUME NEW k \in last + 1..n
      PROVE  amount[k] = Zero /\ ~(k > padding /\ amount[k - padding] = Point)
  <2>1. ~stops(k)
    BY <1>1, <1>3
  <2> QED BY <2>1 DEF stops
<1>6. \/ last = 1 \/ amount[last] # Zero
      \/ last > padding /\ amount[last - padding] = Point
  BY <1>3 DEF stops
<1>7. Unpadded(SubSeq(amount, 1, last), amount, n, padding, last)
  BY <1>4, <1>5, <1>6 DEF Unpadded
<1> QED BY <1>2, <1>3, <1>7

\* The text of an amount, without the zeros at its end, fits the buffer of
\* format_amount_sxp, and with its unit that of the review.
AmountText(text, bytes, m, e) ==
  \E amount, u :
    /\ FpuDigits(amount, bytes, 8, m) /\ Unpadded(u, amount, m + 1, 2, e)
    /\ text = (u \o <<Space>>) \o Sxp

LEMMA AmountIsText ==
  ASSUME NEW bytes, NEW dstLen \in Nat, dstLen >= 27
  PROVE  \E m \in 9..20 : \E e \in 1..m + 1 :
           AmountText(FormatAmountSxp(dstLen, bytes), bytes, m, e)
<1> DEFINE amount == FormatFpu64(AmountBufferSize, bytes, 8)
<1>1. PICK m \in 9..20 : FpuDigits(amount, bytes, 8, m)
  <2>1. AmountBufferSize \in Nat /\ AmountBufferSize >= 30 /\ 8 \in 1..8
    BY DEF AmountBufferSize
  <2>2. \E m \in 8 + 1..20 : FpuDigits(amount, bytes, 8, m)
    BY <2>1, FpuText
  <2> QED BY <2>2
<1> HIDE DEF amount
<1>2. Text(amount, m + 1) /\ Len(amount) = m + 1
  BY <1>1 DEF FpuDigits, Text
<1>3. amount # NoText
  <2>1. m + 1 \in Nat /\ m + 1 > 0
    OBVIOUS
  <2> QED BY <1>2, <2>1, NotEmpty
<1>4. Len(Sxp) = 3
  BY Singles DEF Text
<1>5. ~(dstLen < AmountOutMin(amount, 3))
  <2>1. AmountOutMin(amount, 3) = (m + 1) + 3 + 3
    BY <1>2 DEF AmountOutMin
  <2> QED BY <2>1
<1>6. FormatAmountSxp(dstLen, bytes) = (UnpadAmount(amount, 2) \o <<Space>>) \o Sxp
  BY <1>3, <1>4, <1>5 DEF FormatAmountSxp, FormatAmount, amount
<1>7. PICK e \in 1..m + 1 : Unpadded(UnpadAmount(amount, 2), amount, m + 1, 2, e)
  <2> DEFINE n == m + 1
  <2>1. n \in 2..30 /\ Text(amount, n)
    BY <1>2
  <2> HIDE DEF n
  <2>2. \E e \in 1..n : Unpadded(UnpadAmount(amount, 2), amount, n, 2, e)
    BY <2>1, UnpadText
  <2> QED BY <2>2 DEF n
<1> QED BY <1>1, <1>6, <1>7 DEF AmountText

\* Every amount is shown.
THEOREM AmountsAreShown ==
  ASSUME NEW bytes, NEW dstLen \in Nat, dstLen >= 27
  PROVE  FormatAmountSxp(dstLen, bytes) # NoText
<1>1. PICK m \in 9..20 : \E e \in 1..m + 1 :
        AmountText(FormatAmountSxp(dstLen, bytes), bytes, m, e)
  BY AmountIsText
<1>2. PICK e \in 1..m + 1 : AmountText(FormatAmountSxp(dstLen, bytes), bytes, m, e)
  BY <1>1
<1>3. PICK u : Text(u, e) /\ FormatAmountSxp(dstLen, bytes) = (u \o <<Space>>) \o Sxp
  BY <1>2 DEF AmountText, Unpadded
<1>4. Text(u \o <<Space>>, e + 1)
  BY <1>3, Singles, Join2
<1>5. Text((u \o <<Space>>) \o Sxp, (e + 1) + 3)
  BY <1>4, Singles, Join2
<1>6. (e + 1) + 3 \in Nat /\ (e + 1) + 3 > 0
  OBVIOUS
<1> QED BY <1>3, <1>5, <1>6, NotEmpty

\* Every percentage of a vote is shown.
THEOREM PercentsAreShown ==
  ASSUME NEW bytes, NEW dstLen \in Nat, dstLen >= 30
  PROVE  FormatPercent(dstLen, bytes, 2) # NoText
<1> DEFINE percent == FormatFpu64(dstLen, bytes \o <<0, 0, 0, 0, 0, 0>>, 2)
<1>1. PICK n \in 4..21 : Text(percent, n)
  <2>1. 2 \in 1..8
    OBVIOUS
  <2>2. PICK m \in 2 + 1..20 : FpuDigits(percent, bytes \o <<0, 0, 0, 0, 0, 0>>, 2, m)
    BY <2>1, FpuText
  <2>3. Text(percent, m + 1) /\ m + 1 \in 4..21
    BY <2>2 DEF FpuDigits
  <2> QED BY <2>3
<1> HIDE DEF percent
<1>2. percent # NoText
  BY <1>1, NotEmpty
<1>3. FormatPercent(dstLen, bytes, 2) = percent \o <<PercentSign>>
  BY <1>2 DEF FormatPercent, percent
<1>4. Text(percent \o <<PercentSign>>, n + 1)
  <2>1. n \in Nat /\ 1 \in Nat /\ Text(<<PercentSign>>, 1)
    BY Singles
  <2> QED BY <1>1, <2>1, Join2
<1>5. n + 1 \in Nat /\ n + 1 > 0
  OBVIOUS
<1> QED BY <1>3, <1>4, <1>5, NotEmpty

-----------------------------------------------------------------------------
(* What the digits denote.  A number of 64 bits is compared by its value:  *)
(* of its four words, of the five limbs of format_u64 and of its digits.   *)

WordsValue(w) == w[1] + WordBase * (w[2] + WordBase * (w[3] + WordBase * w[4]))
LimbsValue(l) ==
  l[1] + LimbBase * (l[2] + LimbBase * (l[3] + LimbBase * (l[4] + LimbBase * l[5])))

IsLimb(x) == x \in Nat /\ x < LimbBase
IsLimbs(l) == \A k \in 1..5 : IsLimb(l[k])

\* More than any number of 64 bits has.
Top == LimbBase * (LimbBase * (LimbBase * (LimbBase * LimbBase)))

\* One limb of a product and what is carried to the next.
LEMMA Carry ==
  ASSUME NEW a \in Nat, NEW r \in Nat
  PROVE  LET c == a * WordBase + r
         IN  /\ c \div LimbBase \in Nat /\ IsLimb(c % LimbBase)
             /\ c = LimbBase * (c \div LimbBase) + (c % LimbBase)
<1>1. \A c \in Nat : /\ c \div LimbBase \in Nat /\ IsLimb(c % LimbBase)
                     /\ c = LimbBase * (c \div LimbBase) + (c % LimbBase)
  BY DEF IsLimb, LimbBase
<1>2. a * WordBase + r \in Nat
  BY DEF WordBase
<1> QED BY <1>1, <1>2

\* A limb times the base and a carry make a limb and a carry.
Carried(a, r, d, t) ==
  a \in Nat /\ r \in Nat /\ d \in Nat /\ IsLimb(t) /\ a * WordBase + r = LimbBase * d + t

\* A limb of a product, and below the limbs that remain.
CarriesOver(a, r, d, t, x) ==
  /\ WordBase * (a + LimbBase * x) + r = t + LimbBase * (WordBase * x + d)
  /\ a + LimbBase * x \in Nat

LEMMA CarryOver ==
  ASSUME NEW a \in Nat, NEW r \in Nat, NEW d \in Nat, NEW t \in Nat, NEW x \in Nat,
         a * WordBase + r = LimbBase * d + t
  PROVE  CarriesOver(a, r, d, t, x)
  BY DEF CarriesOver, WordBase, LimbBase

\* What is below a bound is so without its lowest limb.
LEMMA LowerBound ==
  ASSUME NEW t \in Nat, NEW y \in Nat, NEW z \in Nat, t + LimbBase * y < LimbBase * z
  PROVE  y < z
  BY DEF LimbBase

LEMMA LimbsNat ==
  /\ WordBase \in Nat /\ LimbBase \in Nat /\ Top \in Nat
  /\ \A t, y \in Nat : t + LimbBase * y \in Nat
  /\ \A t, y \in Nat : WordBase * y + t \in Nat
<1>1. WordBase \in Nat /\ LimbBase \in Nat
  BY DEF WordBase, LimbBase
<1>2. \A x \in Nat : LimbBase * x \in Nat /\ WordBase * x \in Nat
  BY DEF WordBase, LimbBase
<1>3. Top \in Nat
  BY <1>1, <1>2, Zenon DEF Top
<1> QED BY <1>1, <1>2, <1>3

\* Five of them one after the other.
LEMMA Carries ==
  ASSUME NEW l, NEW r, NEW d, NEW t,
         Carried(l[1], r, d[1], t[1]), Carried(l[2], d[1], d[2], t[2]), Carried(l[3], d[2], d[3], t[3]),
         Carried(l[4], d[3], d[4], t[4]), Carried(l[5], d[4], d[5], t[5]),
         WordBase * LimbsValue(l) + r < Top
  PROVE  WordBase * LimbsValue(l) + r = LimbsValue(t)
<1>1. /\ l[1] \in Nat /\ l[2] \in Nat /\ l[3] \in Nat /\ l[4] \in Nat /\ l[5] \in Nat
      /\ d[1] \in Nat /\ d[2] \in Nat /\ d[3] \in Nat /\ d[4] \in Nat /\ d[5] \in Nat
      /\ t[1] \in Nat /\ t[2] \in Nat /\ t[3] \in Nat /\ t[4] \in Nat /\ t[5] \in Nat
      /\ r \in Nat
  BY Zenon DEF Carried, IsLimb
<1> DEFINE x5 == l[5]
           x4 == l[4] + LimbBase * x5
           x3 == l[3] + LimbBase * x4
           x2 == l[2] + LimbBase * x3
           y5 == t[5] + LimbBase * d[5]
           y4 == t[4] + LimbBase * y5
           y3 == t[3] + LimbBase * y4
           y2 == t[2] + LimbBase * y3
           y1 == t[1] + LimbBase * y2
<1>2. WordBase * x5 + d[4] = y5
  <2>1. \A a0, r0, d0, t0 \in Nat :
          a0 * WordBase + r0 = LimbBase * d0 + t0 => WordBase * a0 + r0 = t0 + LimbBase * d0
    BY DEF WordBase, LimbBase
  <2>2. l[5] * WordBase + d[4] = LimbBase * d[5] + t[5]
    BY Zenon DEF Carried
  <2> QED BY <1>1, <2>1, <2>2
<1>3. x5 \in Nat
  BY <1>1
<1> HIDE DEF x5, x4, x3, x2, y5, y4, y3, y2, y1
<1>4. CarriesOver(l[4], d[3], d[4], t[4], x5)
  BY <1>1, <1>3, CarryOver DEF Carried
<1>5. WordBase * x4 + d[3] = y4 /\ x4 \in Nat
  BY <1>2, <1>4, Zenon DEF CarriesOver, x4, y4
<1>51. CarriesOver(l[3], d[2], d[3], t[3], x4)
  BY <1>1, <1>5, CarryOver DEF Carried
<1>52. WordBase * x3 + d[2] = y3 /\ x3 \in Nat
  BY <1>5, <1>51, Zenon DEF CarriesOver, x3, y3
<1>6. CarriesOver(l[2], d[1], d[2], t[2], x3)
  BY <1>1, <1>52, CarryOver DEF Carried
<1>61. WordBase * x2 + d[1] = y2 /\ x2 \in Nat
  BY <1>52, <1>6, Zenon DEF CarriesOver, x2, y2
<1>62. CarriesOver(l[1], r, d[1], t[1], x2)
  BY <1>1, <1>61, CarryOver DEF Carried
<1>7. WordBase * LimbsValue(l) + r = y1
  BY <1>61, <1>62, Zenon DEF CarriesOver, y1, LimbsValue, x5, x4, x3, x2
<1>8. y5 \in Nat /\ y4 \in Nat /\ y3 \in Nat /\ y2 \in Nat
  <2>1. \A t0, y0 \in Nat : t0 + LimbBase * y0 \in Nat
    BY LimbsNat
  <2> QED BY <1>1, <2>1, Zenon DEF y5, y4, y3, y2
<1>9. d[5] = 0
  <2> DEFINE z2 == LimbBase * LimbBase
             z3 == LimbBase * z2
             z4 == LimbBase * z3
  <2>1. \A x \in Nat : LimbBase * x \in Nat
    BY DEF LimbBase
  <2>2. LimbBase \in Nat /\ z2 \in Nat /\ z3 \in Nat /\ z4 \in Nat
    BY <2>1, LimbsNat, Zenon
  <2>3. y1 < LimbBase * z4
    BY <1>7, Zenon DEF Top
  <2>20. z3 = LimbBase * z2 /\ z4 = LimbBase * z3 /\ z2 = LimbBase * LimbBase
    BY Zenon
  <2> HIDE DEF z2, z3, z4
  <2>4. y2 < z4
    <3>1. t[1] + LimbBase * y2 < LimbBase * z4
      BY <2>3, Zenon DEF y1
    <3> QED BY <2>2, <3>1, <1>1, <1>8, LowerBound
  <2>5. y3 < z3
    <3>1. t[2] + LimbBase * y3 < LimbBase * z3
      BY <2>4, <2>20, Zenon DEF y2
    <3> QED BY <2>2, <3>1, <1>1, <1>8, LowerBound
  <2>6. y4 < z2
    <3>1. t[3] + LimbBase * y4 < LimbBase * z2
      BY <2>5, <2>20, Zenon DEF y3
    <3> QED BY <2>2, <3>1, <1>1, <1>8, LowerBound
  <2>7. t[5] + LimbBase * d[5] < LimbBase
    <3>1. t[4] + LimbBase * y5 < LimbBase * LimbBase
      BY <2>6, <2>20, Zenon DEF y4
    <3>2. y5 < LimbBase
      BY <2>2, <3>1, <1>1, <1>8, LowerBound
    <3> QED BY <3>2, Zenon DEF y5
  <2>8. \A t0, d0 \in Nat : t0 + LimbBase * d0 < LimbBase => d0 = 0
    BY DEF LimbBase
  <2> QED BY <1>1, <2>7, <2>8
<1>10. y5 = t[5]
  <2>1. \A t0 \in Nat : t0 + LimbBase * 0 = t0
    BY DEF LimbBase
  <2> QED BY <1>1, <1>9, <2>1, Zenon DEF y5
<1> QED BY <1>7, <1>10, Zenon DEF LimbsValue, y1, y2, y3, y4

LEMMA TimesPlusValue ==
  ASSUME NEW l, IsLimbs(l), NEW word \in Nat, WordBase * LimbsValue(l) + word < Top
  PROVE  /\ IsLimbs(TimesPlus(l, word))
         /\ LimbsValue(TimesPlus(l, word)) = WordBase * LimbsValue(l) + word
<1>2. /\ l[1] \in Nat /\ l[2] \in Nat /\ l[3] \in Nat /\ l[4] \in Nat /\ l[5] \in Nat
  BY DEF IsLimbs, IsLimb
<1> DEFINE c1 == l[1] * WordBase + word
           c2 == l[2] * WordBase + c1 \div LimbBase
           c3 == l[3] * WordBase + c2 \div LimbBase
           c4 == l[4] * WordBase + c3 \div LimbBase
           c5 == l[5] * WordBase + c4 \div LimbBase
           t == <<c1 % LimbBase, c2 % LimbBase, c3 % LimbBase, c4 % LimbBase, c5 % LimbBase>>
           IsCarry(c) == /\ c \div LimbBase \in Nat /\ IsLimb(c % LimbBase)
                         /\ c = LimbBase * (c \div LimbBase) + (c % LimbBase)
<1>1. TimesPlus(l, word) = t
  BY DEF TimesPlus
<1>3. \A a, r \in Nat : IsCarry(a * WordBase + r)
  BY Carry, Zenon
<1>4. IsCarry(c1)
  <2> HIDE DEF IsCarry
  <2> QED BY <1>2, <1>3
<1>5. IsCarry(c2)
  <2>1. c1 \div LimbBase \in Nat
    BY <1>4
  <2> HIDE DEF IsCarry, c1
  <2> QED BY <1>2, <1>3, <2>1
<1>6. IsCarry(c3)
  <2>1. c2 \div LimbBase \in Nat
    <3> HIDE DEF c2
    <3> QED BY <1>5
  <2> HIDE DEF IsCarry, c2
  <2> QED BY <1>2, <1>3, <2>1
<1>7. IsCarry(c4)
  <2>1. c3 \div LimbBase \in Nat
    <3> HIDE DEF c3
    <3> QED BY <1>6
  <2> HIDE DEF IsCarry, c3
  <2> QED BY <1>2, <1>3, <2>1
<1>8. IsCarry(c5)
  <2>1. c4 \div LimbBase \in Nat
    <3> HIDE DEF c4
    <3> QED BY <1>7
  <2> HIDE DEF IsCarry, c4
  <2> QED BY <1>2, <1>3, <2>1
<1>9. /\ c1 = l[1] * WordBase + word
      /\ c2 = l[2] * WordBase + c1 \div LimbBase
      /\ c3 = l[3] * WordBase + c2 \div LimbBase
      /\ c4 = l[4] * WordBase + c3 \div LimbBase
      /\ c5 = l[5] * WordBase + c4 \div LimbBase
  BY Zenon
<1> HIDE DEF c1, c2, c3, c4, c5
<1>10. /\ t[1] = c1 % LimbBase /\ t[2] = c2 % LimbBase /\ t[3] = c3 % LimbBase
       /\ t[4] = c4 % LimbBase /\ t[5] = c5 % LimbBase
  OBVIOUS
<1> HIDE DEF t
<1>11. /\ IsLimb(t[1]) /\ IsLimb(t[2]) /\ IsLimb(t[3])
       /\ IsLimb(t[4]) /\ IsLimb(t[5])
  BY <1>4, <1>5, <1>6, <1>7, <1>8, <1>10, Zenon
<1>12. /\ l[1] * WordBase + word = LimbBase * (c1 \div LimbBase) + t[1]
       /\ l[2] * WordBase + c1 \div LimbBase = LimbBase * (c2 \div LimbBase) + t[2]
       /\ l[3] * WordBase + c2 \div LimbBase = LimbBase * (c3 \div LimbBase) + t[3]
       /\ l[4] * WordBase + c3 \div LimbBase = LimbBase * (c4 \div LimbBase) + t[4]
       /\ l[5] * WordBase + c4 \div LimbBase = LimbBase * (c5 \div LimbBase) + t[5]
  BY <1>4, <1>5, <1>6, <1>7, <1>8, <1>9, <1>10, Zenon
<1>13. /\ c1 \div LimbBase \in Nat /\ c2 \div LimbBase \in Nat /\ c3 \div LimbBase \in Nat
       /\ c4 \div LimbBase \in Nat /\ c5 \div LimbBase \in Nat
  BY <1>4, <1>5, <1>6, <1>7, <1>8, Zenon
<1>15. WordBase * LimbsValue(l) + word = LimbsValue(t)
  <2> DEFINE e1 == c1 \div LimbBase  e2 == c2 \div LimbBase  e3 == c3 \div LimbBase
             e4 == c4 \div LimbBase  e5 == c5 \div LimbBase
             d == <<e1, e2, e3, e4, e5>>
  <2>1. /\ Carried(l[1], word, e1, t[1]) /\ Carried(l[2], e1, e2, t[2])
        /\ Carried(l[3], e2, e3, t[3]) /\ Carried(l[4], e3, e4, t[4])
        /\ Carried(l[5], e4, e5, t[5])
    BY <1>2, <1>11, <1>12, <1>13, Zenon DEF Carried
  <2> HIDE DEF e1, e2, e3, e4, e5
  <2>2. d[1] = e1 /\ d[2] = e2 /\ d[3] = e3 /\ d[4] = e4 /\ d[5] = e5
    OBVIOUS
  <2> HIDE DEF d
  <2> QED BY <2>1, <2>2, Carries
<1>16. IsLimbs(t)
  <2>1. 1..5 = {1, 2, 3, 4, 5}
    OBVIOUS
  <2> QED BY <1>11, <2>1, Zenon DEF IsLimbs
<1> QED BY <1>1, <1>15, <1>16

-----------------------------------------------------------------------------
(* The limbs have the value of the words.                                  *)

IsWord(x) == x \in Nat /\ x < WordBase

LEMMA WordIsWord ==
  ASSUME NEW bytes \in BytesOf(8), NEW k \in 1..4
  PROVE  IsWord(Word(bytes, k)) /\ Word(bytes, k) = WordsOf(bytes)[k]
<1>1. \A a, b \in 0..255 : a + 256 * b \in Nat /\ a + 256 * b < WordBase
  BY DEF WordBase
<1>2. 2 * k - 1 \in 1..8 /\ 2 * k \in 1..8
  OBVIOUS
<1>3. bytes[2 * k - 1] \in 0..255 /\ bytes[2 * k] \in 0..255
  BY <1>2 DEF BytesOf
<1> QED BY <1>1, <1>3, ZenonT(40) DEF Word, WordsOf, IsWord

\* One word more.
LEMMA OneWordMore ==
  ASSUME NEW x \in Nat, NEW w, IsWord(w), NEW p \in Nat, x < p
  PROVE  WordBase * x + w \in Nat /\ WordBase * x + w < WordBase * p
<1>1. \A w0 \in Nat : w0 < WordBase =>
        WordBase * x + w0 \in Nat /\ WordBase * x + w0 < WordBase * p
  BY DEF WordBase
<1> QED BY <1>1 DEF IsWord

LEMMA FourWordsFit ==
  LET p == WordBase * (WordBase * (WordBase * WordBase))
  IN  /\ WordBase * WordBase <= Top /\ WordBase * (WordBase * WordBase) <= Top /\ p <= Top
      /\ WordBase * WordBase \in Nat /\ WordBase * (WordBase * WordBase) \in Nat /\ p \in Nat
<1> DEFINE p2 == WordBase * WordBase
           p3 == WordBase * p2
           p4 == WordBase * p3
           q2 == LimbBase * LimbBase
           q3 == LimbBase * q2
           q4 == LimbBase * q3
<1>1. /\ \A x \in Nat : WordBase * x \in Nat /\ LimbBase * x \in Nat /\ x <= WordBase * x
      /\ WordBase \in Nat /\ LimbBase \in Nat
  BY DEF WordBase, LimbBase
<1>2. /\ p2 \in Nat /\ p3 \in Nat /\ p4 \in Nat /\ q2 \in Nat /\ q3 \in Nat /\ q4 \in Nat
      /\ p2 <= p3 /\ p3 <= p4
  BY <1>1, Zenon
<1>3. \A x, y \in Nat : \A n \in {7, 49, 343} :
        x <= n * y => WordBase * x <= (7 * n) * (LimbBase * y)
  BY DEF WordBase, LimbBase
<1>4. p2 <= 49 * q2
  <2>1. WordBase <= 7 * LimbBase
    BY DEF WordBase, LimbBase
  <2> QED BY <1>1, <1>3, <2>1
<1> HIDE DEF p2, q2
<1>5. p3 <= 343 * q3
  BY <1>2, <1>3, <1>4
<1> HIDE DEF p3, q3
<1>6. p4 <= 2401 * q4
  BY <1>2, <1>3, <1>5
<1> HIDE DEF p4, q4
<1>7. \A x, y \in Nat : x <= 2401 * y => x <= LimbBase * y
  BY DEF LimbBase
<1>8. p4 <= LimbBase * q4
  BY <1>2, <1>6, <1>7
<1>9. LimbBase * q4 = Top
  BY Zenon DEF q4, q3, q2, Top
<1>10. Top \in Nat
  BY LimbsNat
<1>11. p2 <= Top /\ p3 <= Top /\ p4 <= Top
  BY <1>2, <1>8, <1>9, <1>10
<1> QED BY <1>2, <1>11, Zenon DEF p2, p3, p4

LEMMA LimbsAreWords ==
  ASSUME NEW bytes \in BytesOf(8)
  PROVE  IsLimbs(Limbs(bytes)) /\ LimbsValue(Limbs(bytes)) = WordsValue(WordsOf(bytes))
<1> DEFINE w1 == Word(bytes, 1)  w2 == Word(bytes, 2)  w3 == Word(bytes, 3)  w4 == Word(bytes, 4)
           top == <<w4 % LimbBase, w4 \div LimbBase, 0, 0, 0>>
           v3 == WordBase * w4 + w3
           v2 == WordBase * v3 + w2
           v1 == WordBase * v2 + w1
           p2 == WordBase * WordBase
           p3 == WordBase * p2
           p4 == WordBase * p3
           l3 == TimesPlus(top, w3)
           l2 == TimesPlus(l3, w2)
           l1 == TimesPlus(l2, w1)
<1>1. IsWord(w1) /\ IsWord(w2) /\ IsWord(w3) /\ IsWord(w4)
  BY WordIsWord
<1>2. WordsOf(bytes)[1] = w1 /\ WordsOf(bytes)[2] = w2 /\ WordsOf(bytes)[3] = w3 /\ WordsOf(bytes)[4] = w4
  BY WordIsWord
<1>3. Limbs(bytes) = l1
  BY Zenon DEF Limbs
<1> HIDE DEF w1, w2, w3, w4
<1>4. IsLimbs(top) /\ LimbsValue(top) = w4
  <2>1. \A w \in Nat : w < WordBase =>
          /\ IsLimb(w % LimbBase) /\ IsLimb(w \div LimbBase)
          /\ (w % LimbBase) + LimbBase * ((w \div LimbBase) + LimbBase * (0 + LimbBase * (0 + LimbBase * 0))) = w
    BY DEF WordBase, LimbBase, IsLimb
  <2>2. IsLimb(0)
    BY DEF IsLimb, LimbBase
  <2>3. /\ IsLimb(w4 % LimbBase) /\ IsLimb(w4 \div LimbBase)
        /\ (w4 % LimbBase) + LimbBase * ((w4 \div LimbBase) + LimbBase * (0 + LimbBase * (0 + LimbBase * 0))) = w4
    BY <1>1, <2>1 DEF IsWord
  <2>4. /\ top[1] = w4 % LimbBase /\ top[2] = w4 \div LimbBase /\ top[3] = 0 /\ top[4] = 0 /\ top[5] = 0
    OBVIOUS
  <2> HIDE DEF top
  <2>5. 1..5 = {1, 2, 3, 4, 5}
    OBVIOUS
  <2> QED BY <2>2, <2>3, <2>4, <2>5, Zenon DEF IsLimbs, LimbsValue
<1> HIDE DEF top
<1>5. WordBase \in Nat /\ p2 \in Nat /\ p3 \in Nat /\ p4 \in Nat /\ p2 <= Top /\ p3 <= Top /\ p4 <= Top
  BY FourWordsFit, LimbsNat, Zenon
<1>6. v3 \in Nat /\ v3 < p2
  BY <1>1, <1>5, OneWordMore DEF IsWord
<1>7. v2 \in Nat /\ v2 < p3
  <2> HIDE DEF v3, p2
  <2> QED BY <1>1, <1>5, <1>6, OneWordMore
<1>8. v1 \in Nat /\ v1 < p4
  <2> HIDE DEF v2, p3
  <2> QED BY <1>1, <1>5, <1>7, OneWordMore
<1>9. Top \in Nat
  BY LimbsNat
<1>10. IsLimbs(l3) /\ LimbsValue(l3) = v3
  <2>1. v3 < Top
    <3> HIDE DEF v3, p2
    <3> QED BY <1>5, <1>6, <1>9
  <2>2. WordBase * LimbsValue(top) + w3 = v3
    BY <1>4, Zenon
  <2> HIDE DEF v3
  <2> QED BY <1>1, <1>4, <2>1, <2>2, TimesPlusValue DEF IsWord
<1>11. IsLimbs(l2) /\ LimbsValue(l2) = v2
  <2>1. v2 < Top
    <3> HIDE DEF v2, p3
    <3> QED BY <1>5, <1>7, <1>9
  <2>2. WordBase * LimbsValue(l3) + w2 = v2
    BY <1>10, Zenon
  <2> HIDE DEF v2, l3
  <2> QED BY <1>1, <1>10, <2>1, <2>2, TimesPlusValue DEF IsWord
<1>12. IsLimbs(l1) /\ LimbsValue(l1) = v1
  <2>1. v1 < Top
    <3> HIDE DEF v1, p4
    <3> QED BY <1>5, <1>8, <1>9
  <2>2. WordBase * LimbsValue(l2) + w1 = v1
    BY <1>11, Zenon
  <2> HIDE DEF v1, l2
  <2> QED BY <1>1, <1>11, <2>1, <2>2, TimesPlusValue DEF IsWord
<1>13. WordsValue(WordsOf(bytes)) = v1
  <2>1. \A x, w \in Nat : w + WordBase * x = WordBase * x + w
    BY DEF WordBase
  <2>2. w1 \in Nat /\ w2 \in Nat /\ w3 \in Nat /\ w4 \in Nat
    BY <1>1 DEF IsWord
  <2>3. w3 + WordBase * w4 = v3
    BY <2>1, <2>2
  <2> HIDE DEF v3
  <2>4. w2 + WordBase * v3 = v2
    BY <1>6, <2>1, <2>2
  <2> HIDE DEF v2
  <2>5. w1 + WordBase * v2 = v1
    BY <1>7, <2>1, <2>2
  <2> QED BY <1>2, <2>3, <2>4, <2>5, Zenon DEF WordsValue
<1> QED BY <1>3, <1>12, <1>13, Zenon

-----------------------------------------------------------------------------
(* The digits have the value of the limbs.                                 *)

\* p[n] is the number that the digits from the n-th on make.
Horner(p, bytes) ==
  /\ p \in [0..20 -> Nat] /\ p[20] = 0
  /\ \A n \in 0..19 : Digit(bytes, n) \in 0..9 /\ p[n] = Digit(bytes, n) + 10 * p[n + 1]

\* The digits of a limb with the number h above it.
Higher(x, h, r) ==
  IF r = 0 THEN x + LimbBase * h
  ELSE IF r = 1 THEN (x \div 10) + 1000 * h
  ELSE IF r = 2 THEN (x \div 100) + 100 * h
  ELSE (x \div 1000) + 10 * h

\* A digit and the number above it.
Spelled(a, digit, above) == a \in Nat /\ digit \in 0..9 /\ a = digit + 10 * above

LEMMA FourDigits ==
  ASSUME NEW x \in Nat, x < LimbBase, NEW h \in Nat
  PROVE  /\ Spelled(Higher(x, h, 0), (x \div 1) % 10, Higher(x, h, 1))
         /\ Spelled(Higher(x, h, 1), (x \div 10) % 10, Higher(x, h, 2))
         /\ Spelled(Higher(x, h, 2), (x \div 100) % 10, Higher(x, h, 3))
         /\ Spelled(Higher(x, h, 3), (x \div 1000) % 10, h)
  BY DEF LimbBase, Spelled, Higher

LEMMA DigitsAreLimbs ==
  ASSUME NEW bytes, IsLimbs(Limbs(bytes))
  PROVE  \E p : Horner(p, bytes) /\ p[0] = LimbsValue(Limbs(bytes))
<1> DEFINE l == Limbs(bytes)
           h5 == l[5] + LimbBase * 0
           h4 == l[4] + LimbBase * h5
           h3 == l[3] + LimbBase * h4
           h2 == l[2] + LimbBase * h3
           h1 == l[1] + LimbBase * h2
           h == <<h1, h2, h3, h4, h5, 0>>
           tail(n) == Higher(l[(n \div 4) + 1], h[(n \div 4) + 2], n % 4)
           p == [n \in 0..20 |-> IF n = 20 THEN 0 ELSE tail(n)]
<1>1. \A q \in 0..4 : IsLimb(l[q + 1]) /\ l[q + 1] \in Nat
  BY DEF IsLimbs, IsLimb
<1>2. /\ l[1] \in Nat /\ l[2] \in Nat /\ l[3] \in Nat /\ l[4] \in Nat /\ l[5] \in Nat
  BY DEF IsLimbs, IsLimb
<1>3. \A t, y \in Nat : t + LimbBase * y \in Nat
  BY LimbsNat
<1>4. h5 = l[5]
  <2>1. \A t \in Nat : t + LimbBase * 0 = t
    BY DEF LimbBase
  <2> QED BY <1>2, <2>1
<1>5. LimbsValue(l) = h1
  BY <1>4, Zenon DEF LimbsValue
<1> HIDE DEF l
<1>6. h5 \in Nat /\ h4 \in Nat /\ h3 \in Nat /\ h2 \in Nat /\ h1 \in Nat
  <2>1. h5 \in Nat
    BY <1>2, <1>3
  <2> HIDE DEF h5
  <2>2. h4 \in Nat
    BY <1>2, <1>3, <2>1
  <2> HIDE DEF h4
  <2>3. h3 \in Nat
    BY <1>2, <1>3, <2>2
  <2> HIDE DEF h3
  <2>4. h2 \in Nat
    BY <1>2, <1>3, <2>3
  <2> HIDE DEF h2
  <2>5. h1 \in Nat
    BY <1>2, <1>3, <2>4
  <2> QED BY <2>1, <2>2, <2>3, <2>4, <2>5
<1>7. /\ h1 = l[1] + LimbBase * h2 /\ h2 = l[2] + LimbBase * h3 /\ h3 = l[3] + LimbBase * h4
      /\ h4 = l[4] + LimbBase * h5 /\ h5 = l[5] + LimbBase * 0
  BY Zenon
<1> HIDE DEF h1, h2, h3, h4, h5
<1>8. /\ h[1] = h1 /\ h[2] = h2 /\ h[3] = h3 /\ h[4] = h4 /\ h[5] = h5 /\ h[6] = 0
  OBVIOUS
<1> HIDE DEF h
<1>9. \A q \in 0..4 : h[q + 2] \in Nat /\ h[q + 1] = l[q + 1] + LimbBase * h[q + 2]
  <2>1. ASSUME NEW q \in 0..4
        PROVE  q = 0 \/ q = 1 \/ q = 2 \/ q = 3 \/ q = 4
    OBVIOUS
  <2>2. 0 + 1 = 1 /\ 0 + 2 = 2 /\ 1 + 1 = 2 /\ 1 + 2 = 3 /\ 2 + 1 = 3 /\ 2 + 2 = 4
        /\ 3 + 1 = 4 /\ 3 + 2 = 5 /\ 4 + 1 = 5 /\ 4 + 2 = 6 /\ 0 \in Nat
    OBVIOUS
  <2> QED BY <1>6, <1>7, <1>8, <2>1, <2>2, Zenon
<1>10. p[0] = h1
  <2>1. 0 \div 4 = 0 /\ 0 % 4 = 0 /\ 0 + 1 = 1 /\ 0 + 2 = 2
    OBVIOUS
  <2>2. p[0] = Higher(l[1], h[2], 0)
    BY <2>1
  <2> QED BY <2>2, <1>7, <1>8 DEF Higher
<1>11. p[20] = 0
  OBVIOUS
<1>12. \A n \in 0..19 : p[n] = tail(n)
  OBVIOUS
<1> DEFINE weight == <<1, 10, 100, 1000>>
<1>13. \A n \in 0..19 : Digit(bytes, n) = (l[(n \div 4) + 1] \div weight[(n % 4) + 1]) % 10
  BY Zenon DEF Digit, l
<1>14. weight[1] = 1 /\ weight[2] = 10 /\ weight[3] = 100 /\ weight[4] = 1000
  OBVIOUS
<1>15. DOMAIN p = 0..20 /\ p = [n \in 0..20 |-> p[n]]
  OBVIOUS
<1> HIDE DEF p, weight
<1>16. ASSUME NEW n \in 0..19
       PROVE  Spelled(p[n], Digit(bytes, n), p[n + 1])
  <2> DEFINE q == n \div 4
             x == l[q + 1]
             y == h[q + 2]
  <2>1. q \in 0..4 /\ n % 4 \in 0..3 /\ n = 4 * q + (n % 4)
    OBVIOUS
  <2>2. IsLimb(x) /\ y \in Nat
    BY <1>1, <1>9, <2>1
  <2>3. p[n] = Higher(x, y, n % 4) /\ Digit(bytes, n) = (x \div weight[(n % 4) + 1]) % 10
    BY <1>12, <1>13, Zenon
  <2>4. n % 4 # 3 => p[n + 1] = Higher(x, y, (n % 4) + 1)
    <3> SUFFICES ASSUME n % 4 # 3 PROVE p[n + 1] = Higher(x, y, (n % 4) + 1)
      OBVIOUS
    <3>1. n + 1 \in 0..19 /\ (n + 1) \div 4 = q /\ (n + 1) % 4 = (n % 4) + 1
      OBVIOUS
    <3>2. p[n + 1] = tail(n + 1)
      BY <1>12, <3>1
    <3> QED BY <3>1, <3>2, Zenon
  <2>5. n % 4 = 3 => p[n + 1] = y
    <3>1. CASE n = 19
      <4>1. n + 1 = 20 /\ q = 4 /\ q + 2 = 6
        BY <3>1
      <4> QED BY <4>1, <1>8, <1>11
    <3>2. CASE n # 19 /\ n % 4 = 3
      <4>1. n + 1 \in 0..19 /\ (n + 1) \div 4 = q + 1 /\ (n + 1) % 4 = 0 /\ q + 1 \in 0..4
        BY <3>2
      <4>2. p[n + 1] = Higher(l[(q + 1) + 1], h[(q + 1) + 2], 0)
        <5>1. p[n + 1] = tail(n + 1)
          BY <1>12, <4>1
        <5> QED BY <4>1, <5>1, Zenon
      <4>3. p[n + 1] = l[(q + 1) + 1] + LimbBase * h[(q + 1) + 2]
        BY <4>2 DEF Higher
      <4>4. h[(q + 1) + 1] = l[(q + 1) + 1] + LimbBase * h[(q + 1) + 2]
        BY <1>9, <4>1, Zenon
      <4>5. (q + 1) + 1 = q + 2
        BY <2>1
      <4> QED BY <4>3, <4>4, <4>5
    <3> QED BY <3>1, <3>2
  <2>6. n % 4 = 0 \/ n % 4 = 1 \/ n % 4 = 2 \/ n % 4 = 3
    BY <2>1
  <2> HIDE DEF x, y, q
  <2> DEFINE r == n % 4
  <2>7. CASE n % 4 = 0
    <3>1. p[n] = Higher(x, y, 0) /\ Digit(bytes, n) = (x \div 1) % 10 /\ p[n + 1] = Higher(x, y, 1)
      BY <1>14, <2>3, <2>4, <2>7
    <3>2. Spelled(Higher(x, y, 0), (x \div 1) % 10, Higher(x, y, 1))
      BY <2>2, FourDigits DEF IsLimb
    <3> QED BY <3>1, <3>2, Zenon
  <2>8. CASE n % 4 = 1
    <3>1. p[n] = Higher(x, y, 1) /\ Digit(bytes, n) = (x \div 10) % 10 /\ p[n + 1] = Higher(x, y, 2)
      BY <1>14, <2>3, <2>4, <2>8
    <3>2. Spelled(Higher(x, y, 1), (x \div 10) % 10, Higher(x, y, 2))
      BY <2>2, FourDigits DEF IsLimb
    <3> QED BY <3>1, <3>2, Zenon
  <2>9. CASE n % 4 = 2
    <3>1. p[n] = Higher(x, y, 2) /\ Digit(bytes, n) = (x \div 100) % 10 /\ p[n + 1] = Higher(x, y, 3)
      BY <1>14, <2>3, <2>4, <2>9
    <3>2. Spelled(Higher(x, y, 2), (x \div 100) % 10, Higher(x, y, 3))
      BY <2>2, FourDigits DEF IsLimb
    <3> QED BY <3>1, <3>2, Zenon
  <2>10. CASE n % 4 = 3
    <3>1. p[n] = Higher(x, y, 3) /\ Digit(bytes, n) = (x \div 1000) % 10 /\ p[n + 1] = y
      BY <1>14, <2>3, <2>5, <2>10
    <3>2. Spelled(Higher(x, y, 3), (x \div 1000) % 10, y)
      BY <2>2, FourDigits DEF IsLimb
    <3> QED BY <3>1, <3>2, ZenonT(40)
  <2> QED BY <2>6, <2>7, <2>8, <2>9, <2>10
<1>17. p \in [0..20 -> Nat]
  <2>1. \A n \in 0..20 : n = 20 \/ n \in 0..19
    OBVIOUS
  <2>2. \A n \in 0..19 : p[n] \in Nat
    BY <1>16, Zenon DEF Spelled
  <2>3. \A n \in 0..20 : p[n] \in Nat
    BY <1>11, <2>1, <2>2
  <2> QED BY <1>15, <2>3
<1> QED BY <1>5, <1>10, <1>11, <1>16, <1>17, Zenon DEF Horner, Spelled, l

-----------------------------------------------------------------------------
(* The number that digits write.                                           *)

\* The equation of the numbers that the first digits write.
Numbers(f, digits, n) ==
  f = [k \in 0..n |-> IF k = 0 THEN <<0, 0, 0, 0>> ELSE TenTimes(f[k - 1], digits[k])]

LEMMA NumbersExist ==
  ASSUME NEW m \in Nat, NEW digits
  PROVE  \E f : Numbers(f, digits, m)
<1> DEFINE zero == <<0, 0, 0, 0>>
           next(w, d) == TenTimes(w, d)
           eq(f, n) == f = [k \in 0..n |-> IF k = 0 THEN zero ELSE next(f[k - 1], digits[k])]
           S == {n \in Nat : \E f : eq(f, n)}
<1>0. \A f, n : eq(f, n) <=> Numbers(f, digits, n)
  BY Zenon DEF Numbers
<1> HIDE DEF zero, next
<1>1. 0 \in S
  <2> DEFINE f == [k \in 0..0 |-> zero]
  <2>1. f = [k \in 0..0 |-> IF k = 0 THEN zero ELSE next(f[k - 1], digits[k])]
    OBVIOUS
  <2> HIDE DEF f
  <2>2. eq(f, 0)
    BY <2>1
  <2> HIDE DEF eq
  <2> QED BY <2>2
<1>2. ASSUME NEW n \in Nat, n \in S PROVE n + 1 \in S
  <2>1. PICK f : eq(f, n)
    BY <1>2
  <2> DEFINE g == [k \in 0..n + 1 |-> IF k = n + 1 THEN next(f[n], digits[n + 1]) ELSE f[k]]
  <2>5. ASSUME NEW k \in 0..n + 1
        PROVE  g[k] = IF k = 0 THEN zero ELSE next(g[k - 1], digits[k])
    <3>1. CASE k = n + 1
      <4>1. k # 0 /\ n \in 0..n + 1 /\ n # n + 1 /\ k - 1 = n
        BY <3>1
      <4>2. g[n] = f[n]
        BY <4>1
      <4> QED BY <3>1, <4>1, <4>2
    <3>2. CASE k # n + 1
      <4>1. k \in 0..n
        BY <3>2
      <4>2. f[k] = IF k = 0 THEN zero ELSE next(f[k - 1], digits[k])
        BY <2>1, <4>1
      <4>3. k # 0 => k - 1 \in 0..n + 1 /\ k - 1 # n + 1
        BY <4>1
      <4>4. k # 0 => g[k - 1] = f[k - 1]
        BY <4>3
      <4> QED BY <3>2, <4>2, <4>4
    <3> QED BY <3>1, <3>2
  <2>6. eq(g, n + 1)
    BY <2>5
  <2> HIDE DEF g, eq
  <2> QED BY <2>6
<1> HIDE DEF eq
<1>3. m \in S
  <2>1. \A n \in Nat : n \in S => n + 1 \in S
    BY <1>2
  <2> HIDE DEF S
  <2> QED BY <1>1, <2>1, Induction
<1> QED BY <1>0, <1>3

\* Four words, only the last one without bound.
IsNumber(w) ==
  /\ w = <<w[1], w[2], w[3], w[4]>>
  /\ IsWord(w[1]) /\ IsWord(w[2]) /\ IsWord(w[3]) /\ w[4] \in Nat

LEMMA WordsNat ==
  ASSUME NEW t \in Nat, NEW y \in Nat
  PROVE  t + WordBase * y \in Nat
  BY DEF WordBase

\* A word of ten times a number, and below the words that remain.
TimesTen(w, r, d, t, x) == 10 * (w + WordBase * x) + r = t + WordBase * (10 * x + d)

LEMMA TenOver ==
  ASSUME NEW w \in Nat, NEW r \in Nat, NEW d \in Nat, NEW t \in Nat, NEW x \in Nat,
         w * 10 + r = WordBase * d + t
  PROVE  TimesTen(w, r, d, t, x)
  BY DEF TimesTen, WordBase

LEMMA WordCarry ==
  ASSUME NEW c \in Nat
  PROVE  /\ c \div WordBase \in Nat /\ IsWord(c % WordBase)
         /\ c = WordBase * (c \div WordBase) + (c % WordBase)
  BY DEF IsWord, WordBase

LEMMA TenTimesValue ==
  ASSUME NEW w, IsNumber(w), NEW digit \in Nat
  PROVE  /\ IsNumber(TenTimes(w, digit))
         /\ WordsValue(TenTimes(w, digit)) = 10 * WordsValue(w) + digit
<1> DEFINE a1 == w[1]  a2 == w[2]  a3 == w[3]  a4 == w[4]
           c1 == a1 * 10 + digit
           c2 == a2 * 10 + c1 \div WordBase
           c3 == a3 * 10 + c2 \div WordBase
           c4 == a4 * 10 + c3 \div WordBase
           t == <<c1 % WordBase, c2 % WordBase, c3 % WordBase, c4>>
           d1 == c1 \div WordBase  d2 == c2 \div WordBase  d3 == c3 \div WordBase
           t1 == c1 % WordBase  t2 == c2 % WordBase  t3 == c3 % WordBase
<1>1. TenTimes(w, digit) = t
  <2>1. TwoTo16 = WordBase
    BY DEF TwoTo16, WordBase
  <2> QED BY <2>1 DEF TenTimes
<1>2. a1 \in Nat /\ a2 \in Nat /\ a3 \in Nat /\ a4 \in Nat
  BY DEF IsNumber, IsWord
<1>3. WordsValue(w) = a1 + WordBase * (a2 + WordBase * (a3 + WordBase * a4))
  BY Zenon DEF WordsValue
<1>4. /\ t[1] = t1 /\ t[2] = t2 /\ t[3] = t3 /\ t[4] = c4 /\ t = <<t[1], t[2], t[3], t[4]>>
  <2> HIDE DEF c1, c2, c3, c4
  <2> QED OBVIOUS
<1> HIDE DEF a1, a2, a3, a4, t
<1>5. d1 \in Nat /\ IsWord(t1) /\ c1 = WordBase * d1 + t1 /\ c1 = a1 * 10 + digit
  <2>1. c1 \in Nat
    BY <1>2
  <2>2. c1 = a1 * 10 + digit
    OBVIOUS
  <2> HIDE DEF c1
  <2> QED BY <2>1, <2>2, WordCarry
<1>6. d2 \in Nat /\ IsWord(t2) /\ c2 = WordBase * d2 + t2 /\ c2 = a2 * 10 + d1
  <2>1. c2 = a2 * 10 + d1
    OBVIOUS
  <2> HIDE DEF c1, d1, c2
  <2>2. c2 \in Nat
    BY <1>2, <1>5, <2>1
  <2> QED BY <2>1, <2>2, WordCarry
<1>7. d3 \in Nat /\ IsWord(t3) /\ c3 = WordBase * d3 + t3 /\ c3 = a3 * 10 + d2
  <2>1. c3 = a3 * 10 + d2
    OBVIOUS
  <2> HIDE DEF c2, d2, c3
  <2>2. c3 \in Nat
    BY <1>2, <1>6, <2>1
  <2> QED BY <2>1, <2>2, WordCarry
<1>8. c4 \in Nat /\ c4 = a4 * 10 + d3
  <2>1. c4 = a4 * 10 + d3
    OBVIOUS
  <2> HIDE DEF c3, d3, c4
  <2> QED BY <1>2, <1>7, <2>1
<1> HIDE DEF c1, c2, c3, c4, d1, d2, d3, t1, t2, t3
<1>9. t1 \in Nat /\ t2 \in Nat /\ t3 \in Nat
  BY <1>5, <1>6, <1>7 DEF IsWord
<1> DEFINE x3 == a3 + WordBase * a4
           x2 == a2 + WordBase * x3
           y3 == t3 + WordBase * c4
           y2 == t2 + WordBase * y3
<1>10. x3 \in Nat /\ x2 \in Nat
  <2>1. x3 \in Nat
    BY <1>2, WordsNat
  <2> HIDE DEF x3
  <2> QED BY <1>2, <2>1, WordsNat
<1>11. 10 * a4 + d3 = c4
  BY <1>2, <1>7, <1>8
<1>12. TimesTen(a3, d2, d3, t3, a4)
  BY <1>2, <1>6, <1>7, <1>9, TenOver
<1>13. 10 * x3 + d2 = y3
  BY <1>11, <1>12, Zenon DEF TimesTen
<1> HIDE DEF x3, y3
<1>14. TimesTen(a2, d1, d2, t2, x3)
  BY <1>2, <1>5, <1>6, <1>9, <1>10, TenOver
<1>15. 10 * x2 + d1 = y2
  BY <1>13, <1>14, Zenon DEF TimesTen
<1> HIDE DEF x2, y2
<1>16. TimesTen(a1, digit, d1, t1, x2)
  BY <1>2, <1>5, <1>9, <1>10, TenOver
<1>17. 10 * WordsValue(w) + digit = t1 + WordBase * y2
  BY <1>3, <1>15, <1>16, Zenon DEF TimesTen, x2, x3
<1>18. WordsValue(t) = t1 + WordBase * y2
  BY <1>4, Zenon DEF WordsValue, y2, y3
<1>19. IsNumber(t)
  BY <1>4, <1>5, <1>6, <1>7, <1>8, Zenon DEF IsNumber
<1> QED BY <1>1, <1>17, <1>18, <1>19

\* The first m digits from the highest on write the number that all make, when there
\* is none above them.
LEMMA NumberValue ==
  ASSUME NEW m \in 0..20, NEW digits, NEW bytes, NEW p, Horner(p, bytes), p[m] = 0,
         \A k \in 1..m : digits[k] = Digit(bytes, m - k)
  PROVE  IsNumber(NumberTo(digits, m)) /\ WordsValue(NumberTo(digits, m)) = p[0]
<1> DEFINE number == CHOOSE f : f = [k \in 0..m |-> IF k = 0 THEN <<0, 0, 0, 0>>
                                                  ELSE TenTimes(f[k - 1], digits[k])]
           IsRight(k) == IsNumber(number[k]) /\ WordsValue(number[k]) = p[m - k]
           S == {k \in Nat : k <= m => IsRight(k)}
<1>1. NumberTo(digits, m) = number[m]
  BY Zenon DEF NumberTo
<1>2. Numbers(number, digits, m)
  <2>1. \E f : Numbers(f, digits, m)
    BY NumbersExist
  <2> QED BY <2>1, Zenon DEF Numbers
<1> HIDE DEF number
<1>3. number[0] = <<0, 0, 0, 0>>
  BY <1>2 DEF Numbers
<1>4. \A k \in 1..m : number[k] = TenTimes(number[k - 1], digits[k])
  BY <1>2 DEF Numbers
<1>5. 0 \in S
  <2> DEFINE z == <<0, 0, 0, 0>>
  <2>1. z[1] = 0 /\ z[2] = 0 /\ z[3] = 0 /\ z[4] = 0 /\ z = <<z[1], z[2], z[3], z[4]>>
    OBVIOUS
  <2> HIDE DEF z
  <2>2. IsWord(0) /\ 0 + WordBase * (0 + WordBase * (0 + WordBase * 0)) = 0 /\ 0 \in Nat
    BY DEF IsWord, WordBase
  <2>3. IsNumber(z) /\ WordsValue(z) = 0
    BY <2>1, <2>2, Zenon DEF IsNumber, WordsValue
  <2>4. m - 0 = m
    OBVIOUS
  <2>5. IsRight(0)
    BY <1>3, <2>3, <2>4 DEF z
  <2> HIDE DEF IsRight
  <2> QED BY <2>5
<1>6. ASSUME NEW k \in Nat, k \in S PROVE k + 1 \in S
  <2> HIDE DEF IsRight
  <2> SUFFICES ASSUME k + 1 <= m PROVE IsRight(k + 1)
    OBVIOUS
  <2>1. IsRight(k)
    BY <1>6
  <2>2. k + 1 \in 1..m /\ (k + 1) - 1 = k /\ m - (k + 1) \in 0..19 /\ (m - (k + 1)) + 1 = m - k
    OBVIOUS
  <2>3. number[k + 1] = TenTimes(number[k], digits[k + 1])
    BY <1>4, <2>2
  <2> DEFINE n == m - (k + 1)
  <2>5. digits[k + 1] = Digit(bytes, n)
    BY <2>2
  <2>50. n \in 0..19 /\ n + 1 \in 0..20 /\ n + 1 = m - k
    BY <2>2
  <2> HIDE DEF n
  <2>4. /\ Digit(bytes, n) \in 0..9 /\ p[n] = Digit(bytes, n) + 10 * p[n + 1]
        /\ p[n + 1] \in Nat
    BY <2>50 DEF Horner
  <2>6. IsNumber(number[k]) /\ WordsValue(number[k]) = p[n + 1]
    BY <2>1, <2>50 DEF IsRight
  <2>7. /\ IsNumber(number[k + 1])
        /\ WordsValue(number[k + 1]) = 10 * p[n + 1] + Digit(bytes, n)
    <3>1. Digit(bytes, n) \in Nat
      BY <2>4
    <3> QED BY <2>3, <2>5, <2>6, <3>1, TenTimesValue
  <2>8. 10 * p[n + 1] + Digit(bytes, n) = p[n]
    BY <2>4
  <2> QED BY <2>7, <2>8 DEF IsRight, n
<1> HIDE DEF S
<1>7. m \in S
  <2>1. \A k \in Nat : k \in S => k + 1 \in S
    BY <1>6
  <2> QED BY <1>5, <2>1, Induction
<1>8. IsRight(m) /\ m - m = 0
  <2> HIDE DEF IsRight
  <2> QED BY <1>7 DEF S
<1> QED BY <1>1, <1>8

\* Numbers of one value have the same words.
LEMMA SameWords ==
  ASSUME NEW v, NEW w, IsNumber(v), IsNumber(w), WordsValue(v) = WordsValue(w)
  PROVE  v = w
<1> DEFINE x3 == v[3] + WordBase * v[4]
           x2 == v[2] + WordBase * x3
           y3 == w[3] + WordBase * w[4]
           y2 == w[2] + WordBase * y3
<1>1. \A a, b, x, y \in Nat :
        a < WordBase /\ b < WordBase /\ a + WordBase * x = b + WordBase * y => a = b /\ x = y
  BY DEF WordBase
<1>2. /\ v[1] \in Nat /\ v[2] \in Nat /\ v[3] \in Nat /\ v[4] \in Nat
      /\ w[1] \in Nat /\ w[2] \in Nat /\ w[3] \in Nat /\ w[4] \in Nat
      /\ v[1] < WordBase /\ v[2] < WordBase /\ v[3] < WordBase
      /\ w[1] < WordBase /\ w[2] < WordBase /\ w[3] < WordBase
  BY DEF IsNumber, IsWord
<1>3. v[1] + WordBase * x2 = w[1] + WordBase * y2
  BY Zenon DEF WordsValue
<1>4. x3 \in Nat /\ y3 \in Nat
  BY <1>2, WordsNat
<1>5. x2 \in Nat /\ y2 \in Nat
  <2> HIDE DEF x3, y3
  <2> QED BY <1>2, <1>4, WordsNat
<1>6. v[1] = w[1] /\ x2 = y2
  <2> HIDE DEF x2, y2
  <2> QED BY <1>1, <1>2, <1>3, <1>5
<1>7. v[2] = w[2] /\ x3 = y3
  <2>1. v[2] + WordBase * x3 = w[2] + WordBase * y3
    BY <1>6
  <2> HIDE DEF x3, y3
  <2> QED BY <1>1, <1>2, <1>4, <2>1
<1>8. v[3] = w[3] /\ v[4] = w[4]
  <2>1. v[3] + WordBase * v[4] = w[3] + WordBase * w[4]
    BY <1>7
  <2> QED BY <1>1, <1>2, <2>1
<1>9. v = <<v[1], v[2], v[3], v[4]>> /\ w = <<w[1], w[2], w[3], w[4]>>
  BY DEF IsNumber
<1>10. <<v[1], v[2], v[3], v[4]>> = <<w[1], w[2], w[3], w[4]>>
  BY <1>6, <1>7, <1>8
<1> QED BY <1>9, <1>10, Zenon

\* The digits that are read back are the number that was written.
LEMMA DigitsDenote ==
  ASSUME NEW bytes \in BytesOf(8), NEW m \in 0..20, NEW digits,
         \A k \in 1..m : digits[k] = Digit(bytes, m - k),
         \A d \in m..19 : Digit(bytes, d) = 0
  PROVE  /\ \A k \in 1..m : Digit(bytes, m - k) \in 0..9
         /\ NumberTo(digits, m) = WordsOf(bytes)
<1>1. PICK p : Horner(p, bytes) /\ p[0] = WordsValue(WordsOf(bytes))
  BY LimbsAreWords, DigitsAreLimbs
<1>2. p[m] = 0
  <2> DEFINE S == {k \in Nat : k <= 20 - m => p[20 - k] = 0}
  <2>1. 0 \in S
    BY <1>1 DEF Horner
  <2>2. ASSUME NEW k \in Nat, k \in S PROVE k + 1 \in S
    <3> SUFFICES ASSUME k + 1 <= 20 - m PROVE p[20 - (k + 1)] = 0
      OBVIOUS
    <3> DEFINE n == 20 - (k + 1)
    <3>1. n \in 0..19 /\ n \in m..19 /\ n + 1 = 20 - k
      OBVIOUS
    <3>2. p[n + 1] = 0
      BY <2>2, <3>1
    <3>3. Digit(bytes, n) = 0 /\ p[n] = Digit(bytes, n) + 10 * p[n + 1]
      BY <1>1, <3>1 DEF Horner
    <3> QED BY <3>2, <3>3
  <2> HIDE DEF S
  <2>3. 20 - m \in S
    <3>1. 20 - m \in Nat
      OBVIOUS
    <3>2. \A k \in Nat : k \in S => k + 1 \in S
      BY <2>2
    <3> QED BY <2>1, <3>1, <3>2, Induction
  <2>4. 20 - (20 - m) = m
    OBVIOUS
  <2> QED BY <2>3, <2>4 DEF S
<1>3. IsNumber(NumberTo(digits, m)) /\ WordsValue(NumberTo(digits, m)) = p[0]
  BY <1>1, <1>2, NumberValue
<1>4. IsNumber(WordsOf(bytes))
  <2> DEFINE w == WordsOf(bytes)
  <2>1. /\ IsWord(w[1]) /\ IsWord(w[2]) /\ IsWord(w[3]) /\ IsWord(w[4])
    BY WordIsWord
  <2>2. w = <<w[1], w[2], w[3], w[4]>>
    <3>1. \A f : [k \in 1..4 |-> f[k]] = <<f[1], f[2], f[3], f[4]>>
      OBVIOUS
    <3>2. w = [k \in 1..4 |-> w[k]]
      BY DEF WordsOf
    <3> HIDE DEF w
    <3> QED BY <3>1, <3>2
  <2> QED BY <2>1, <2>2 DEF IsNumber, IsWord
<1>5. \A k \in 1..m : Digit(bytes, m - k) \in 0..9
  <2>1. \A k \in 1..m : m - k \in 0..19
    OBVIOUS
  <2> QED BY <1>1, <2>1 DEF Horner
<1> QED BY <1>1, <1>3, <1>4, <1>5, SameWords

LEMMA DigitRange ==
  ASSUME NEW bytes \in BytesOf(8), NEW n \in 0..19
  PROVE  Digit(bytes, n) \in 0..9
<1>1. PICK p : Horner(p, bytes)
  BY LimbsAreWords, DigitsAreLimbs
<1> QED BY <1>1 DEF Horner

\* The characters of an amount with its unit.
AmountChars(text, amount, e) ==
  /\ Len(text) = e + 4
  /\ \A k \in 1..e : text[k] = amount[k]
  /\ \A k \in 1..4 : text[e + k] = <<32, 83, 88, 80>>[k]

LEMMA AmountHasChars ==
  ASSUME NEW u, NEW e \in Nat, Text(u, e), NEW amount, \A k \in 1..e : u[k] = amount[k]
  PROVE  AmountChars((u \o <<Space>>) \o Sxp, amount, e)
<1> DEFINE unit == <<Space>>
           left == u \o unit
           text == left \o Sxp
<1>1. Text(unit, 1) /\ Text(Sxp, 3) /\ unit[1] = 32 /\ Sxp[1] = 83 /\ Sxp[2] = 88 /\ Sxp[3] = 80
  BY Singles DEF Space, Sxp
<1> HIDE DEF unit
<1>2. Both(left, u, e, unit, 1) /\ Text(left, e + 1)
  BY <1>1, Join2
<1> HIDE DEF left
<1>3. Both(text, left, e + 1, Sxp, 3) /\ Text(text, (e + 1) + 3)
  BY <1>1, <1>2, Join2
<1> HIDE DEF text
<1>4. Len(text) = e + 4
  BY <1>3 DEF Text
<1>5. ASSUME NEW k \in 1..e PROVE text[k] = amount[k]
  <2>1. text[k] = left[k]
    BY <1>3 DEF Both
  <2>2. left[k] = u[k]
    BY <1>2 DEF Both
  <2> QED BY <2>1, <2>2
<1>6. text[e + 1] = 32
  <2>1. text[e + 1] = left[e + 1]
    BY <1>3 DEF Both
  <2>2. left[e + 1] = unit[(e + 1) - e] /\ (e + 1) - e = 1
    BY <1>2 DEF Both
  <2> QED BY <1>1, <2>1, <2>2
<1>7. text[e + 2] = Sxp[1] /\ text[e + 3] = Sxp[2] /\ text[e + 4] = Sxp[3]
  <2>1. /\ text[e + 2] = Sxp[(e + 2) - (e + 1)] /\ text[e + 3] = Sxp[(e + 3) - (e + 1)]
        /\ text[e + 4] = Sxp[(e + 4) - (e + 1)]
    BY <1>3 DEF Both
  <2>2. (e + 2) - (e + 1) = 1 /\ (e + 3) - (e + 1) = 2 /\ (e + 4) - (e + 1) = 3
    OBVIOUS
  <2> QED BY <2>1, <2>2
<1>8. \A k \in 1..4 : text[e + k] = <<32, 83, 88, 80>>[k]
  <2>1. \A k \in 1..4 : k = 1 \/ k = 2 \/ k = 3 \/ k = 4
    OBVIOUS
  <2> QED BY <1>1, <1>6, <1>7, <2>1
<1> QED BY <1>4, <1>5, <1>8 DEF AmountChars, text, left, unit

\* What the review shows of an amount denotes it, for every amount of 64 bits.
THEOREM AmountsAreRight ==
  ASSUME NEW bytes \in BytesOf(8), NEW dstLen \in Nat, dstLen >= 27
  PROVE  DenotesSxp(FormatAmountSxp(dstLen, bytes), bytes)
<1> DEFINE text == FormatAmountSxp(dstLen, bytes)
<1>1. PICK m \in 9..20 : \E e \in 1..m + 1 : AmountText(text, bytes, m, e)
  BY AmountIsText
<1>2. PICK e \in 1..m + 1 : AmountText(text, bytes, m, e)
  BY <1>1
<1>3. PICK amount, u :
        /\ FpuDigits(amount, bytes, 8, m) /\ Unpadded(u, amount, m + 1, 2, e)
        /\ text = (u \o <<Space>>) \o Sxp
  BY <1>2 DEF AmountText
<1>4. AmountChars(text, amount, e)
  BY <1>3, AmountHasChars DEF Unpadded
<1> HIDE DEF text
<1> DEFINE p == m - 7
<1>5. /\ \A k \in 1..m - 8 : amount[k] = 48 + Digit(bytes, m - k)
      /\ amount[p] = 46
      /\ \A k \in m - 6..m + 1 : amount[k] = 48 + Digit(bytes, m + 1 - k)
      /\ m > 9 => Digit(bytes, m - 1) # 0
      /\ \A d \in m..19 : Digit(bytes, d) = 0
  <2>1. m - 8 + 1 = p /\ m - 8 + 2 = m - 6 /\ 8 + 1 = 9
    OBVIOUS
  <2> HIDE DEF p
  <2> QED BY <1>3, <2>1 DEF FpuDigits, Zero, Point
<1>6. /\ \A k \in e + 1..m + 1 : amount[k] = 48 /\ ~(k > 2 /\ amount[k - 2] = 46)
      /\ e = 1 \/ amount[e] # 48 \/ (e > 2 /\ amount[e - 2] = 46)
  BY <1>3 DEF Unpadded, Zero, Point
<1>7. \A k \in 1..m : Digit(bytes, m - k) \in 0..9
  <2>1. \A k \in 1..m : m - k \in 0..19
    OBVIOUS
  <2> QED BY <2>1, DigitRange
<1>8. p \in 2..13 /\ m = p + 7 /\ p \in 1..m + 1 /\ p + 2 \in 1..m + 1 /\ p + 2 > 2 /\ (p + 2) - 2 = p
  OBVIOUS
<1>9. e >= p + 2
  <2>1. ~(p + 2 \in e + 1..m + 1)
    <3> SUFFICES ASSUME p + 2 \in e + 1..m + 1 PROVE FALSE
      OBVIOUS
    <3>1. ~(p + 2 > 2 /\ amount[(p + 2) - 2] = 46)
      <4> DEFINE k == p + 2
      <4>1. k \in e + 1..m + 1
        OBVIOUS
      <4> HIDE DEF k
      <4>2. ~(k > 2 /\ amount[k - 2] = 46)
        BY <4>1, <1>6
      <4> QED BY <4>2 DEF k
    <3> QED BY <3>1, <1>5, <1>8
  <2> QED BY <2>1, <1>8
<1> DEFINE decimals == Len(text) - p - 4
           digits == [k \in 1..p + 7 |->
                        IF k < p THEN text[k] - 48
                        ELSE IF k < p + decimals THEN text[k + 1] - 48
                        ELSE 0]
<1>10. Len(text) = e + 4 /\ decimals = e - p /\ p + decimals = e /\ decimals \in 2..8
       /\ p \in 2..Len(text) - 6
  BY <1>4, <1>8, <1>9 DEF AmountChars
<1>11. \A k \in 1..e : text[k] = amount[k]
  BY <1>4 DEF AmountChars
<1>12. ASSUME NEW k \in 1..m PROVE digits[k] = Digit(bytes, m - k)
  <2>1. Digit(bytes, m - k) \in 0..9
    BY <1>7
  <2>2. k \in 1..p + 7
    OBVIOUS
  <2>3. CASE k < p
    <3>1. k \in 1..m - 8 /\ k \in 1..e
      BY <2>3, <1>9
    <3>2. digits[k] = text[k] - 48
      BY <2>2, <2>3
    <3>3. text[k] = 48 + Digit(bytes, m - k)
      BY <3>1, <1>5, <1>11
    <3> QED BY <2>1, <3>2, <3>3
  <2>4. CASE k >= p /\ k < e
    <3>1. ~(k < p) /\ k < p + decimals /\ k + 1 \in 1..e /\ k + 1 \in m - 6..m + 1
          /\ m + 1 - (k + 1) = m - k
      BY <2>4, <1>10
    <3>2. digits[k] = text[k + 1] - 48
      BY <2>2, <3>1
    <3>3. text[k + 1] = amount[k + 1]
      BY <3>1, <1>11
    <3>4. amount[k + 1] = 48 + Digit(bytes, m + 1 - (k + 1))
      BY <3>1, <1>5
    <3> QED BY <2>1, <3>1, <3>2, <3>3, <3>4
  <2>5. CASE k >= e
    <3>1. ~(k < p) /\ ~(k < p + decimals) /\ k + 1 \in e + 1..m + 1 /\ k + 1 \in m - 6..m + 1
          /\ m + 1 - (k + 1) = m - k
      BY <2>5, <1>9, <1>10
    <3>2. digits[k] = 0
      BY <2>2, <3>1
    <3>3. amount[k + 1] = 48
      BY <3>1, <1>6
    <3>4. amount[k + 1] = 48 + Digit(bytes, m + 1 - (k + 1))
      BY <3>1, <1>5
    <3> QED BY <2>1, <3>1, <3>2, <3>3, <3>4, SMTT(40)
  <2> QED BY <2>3, <2>4, <2>5
<1>13. NumberTo(digits, p + 7) = WordsOf(bytes)
  <2> HIDE DEF digits
  <2>1. m \in 0..20 /\ p + 7 = m
    OBVIOUS
  <2> QED BY <1>5, <1>12, <2>1, DigitsDenote
<1>14. text[p] = 46
  BY <1>5, <1>8, <1>9, <1>11
<1>15. ASSUME NEW k \in 1..p + decimals, k # p PROVE text[k] \in 48..57
  <2>1. k \in 1..e
    BY <1>10
  <2>2. text[k] = amount[k]
    BY <2>1, <1>11
  <2>3. CASE k < p
    <3>1. k \in 1..m - 8 /\ k \in 1..m
      BY <2>3
    <3>2. amount[k] = 48 + Digit(bytes, m - k) /\ Digit(bytes, m - k) \in 0..9
      BY <3>1, <1>5, <1>7
    <3> QED BY <2>2, <3>2, SMTT(40)
  <2>4. CASE k > p
    <3> DEFINE i == k - 1
    <3>1. k \in m - 6..m + 1 /\ i \in 1..m /\ m + 1 - k = m - i
      BY <2>1, <2>4
    <3>2. amount[k] = 48 + Digit(bytes, m + 1 - k) /\ Digit(bytes, m - i) \in 0..9
      BY <3>1, <1>5, <1>7
    <3> QED BY <2>2, <3>1, <3>2, SMTT(40)
  <2> QED BY <1>15, <2>3, <2>4
<1>16. \A k \in 1..4 : text[p + decimals + k] = <<32, 83, 88, 80>>[k]
  BY <1>4, <1>10 DEF AmountChars
<1>17. p > 2 => text[1] # 48
  <2> SUFFICES ASSUME p > 2 PROVE text[1] # 48
    OBVIOUS
  <2>1. m > 9 /\ 1 \in 1..m - 8 /\ 1 \in 1..m /\ 1 \in 1..e
    BY <1>9
  <2>2. text[1] = 48 + Digit(bytes, m - 1) /\ Digit(bytes, m - 1) \in 0..9 /\ Digit(bytes, m - 1) # 0
    BY <2>1, <1>5, <1>7, <1>11
  <2> QED BY <2>2
<1>18. decimals > 2 => text[p + decimals] # 48
  <2> SUFFICES ASSUME decimals > 2 PROVE text[e] # 48
    BY <1>10
  <2>1. e > p + 2 /\ e \in 1..e
    BY <1>10
  <2>2. ~(amount[e - 2] = 46)
    <3>1. e - 2 \in 1..p + decimals /\ e - 2 # p /\ e - 2 \in 1..e
      BY <2>1, <1>10
    <3>2. text[e - 2] \in 48..57
      BY <3>1, <1>15
    <3>3. text[e - 2] # 46
      BY <3>2
    <3>4. amount[e - 2] = text[e - 2]
      BY <3>1, <1>11
    <3> QED BY <3>3, <3>4
  <2> QED BY <2>1, <2>2, <1>6, <1>11
<1>19. p \in 2..Len(text) - 6 /\ decimals <= 8
  BY <1>10
<1> HIDE DEF p
<1>20. \A k \in 1..p + decimals : k = p \/ text[k] \in 48..57
  BY <1>15
<1> QED
  BY <1>13, <1>14, <1>16, <1>17, <1>18, <1>19, <1>20, Zenon DEF DenotesSxp, text

LEMMA FunctionSeq ==
  ASSUME NEW n \in Nat, NEW S, NEW f \in [1..n -> S]
  PROVE  f \in Seq(S) /\ Len(f) = n
  OBVIOUS

LEMMA SeqFunction ==
  ASSUME NEW S, NEW s \in Seq(S)
  PROVE  s \in [1..Len(s) -> S]
  OBVIOUS

\* A percentage has 16 bits of 64.
LEMMA PercentBytes ==
  ASSUME NEW bytes \in BytesOf(2)
  PROVE  LET all == bytes \o <<0, 0, 0, 0, 0, 0>>
         IN  /\ all \in BytesOf(8)
             /\ WordsOf(all) = <<bytes[1] + 256 * bytes[2], 0, 0, 0>>
<1> DEFINE zeros == <<0, 0, 0, 0, 0, 0>>
           all == bytes \o zeros
           w == WordsOf(all)
<1>1. bytes \in Seq(0..255) /\ Len(bytes) = 2
  <2>1. 2 \in Nat /\ bytes \in [1..2 -> 0..255]
    BY Zenon DEF BytesOf
  <2> QED BY <2>1, FunctionSeq
<1>2. zeros \in Seq(0..255) /\ Len(zeros) = 6
  OBVIOUS
<1>3. /\ zeros[1] = 0 /\ zeros[2] = 0 /\ zeros[3] = 0 /\ zeros[4] = 0 /\ zeros[5] = 0
      /\ zeros[6] = 0
  OBVIOUS
<1> HIDE DEF zeros
<1>4. /\ all \in Seq(0..255) /\ Len(all) = 8
      /\ \A k \in 1..8 : all[k] = IF k <= 2 THEN bytes[k] ELSE zeros[k - 2]
  <2>1. Len(bytes) + Len(zeros) = 8
    BY <1>1, <1>2
  <2>2. /\ bytes \o zeros \in Seq(0..255)
        /\ Len(bytes \o zeros) = Len(bytes) + Len(zeros)
        /\ \A k \in 1..Len(bytes) + Len(zeros) :
             (bytes \o zeros)[k] = IF k <= Len(bytes) THEN bytes[k] ELSE zeros[k - Len(bytes)]
    BY <1>1, <1>2, ConcatProperties, ZenonT(40)
  <2> QED BY <1>1, <2>1, <2>2, Zenon
<1> HIDE DEF all
<1>5. all \in [1..8 -> 0..255]
  <2>1. all \in [1..Len(all) -> 0..255]
    BY <1>4, SeqFunction, ZenonT(40)
  <2> QED BY <1>4, <2>1
<1>6. all[1] = bytes[1] /\ all[2] = bytes[2]
  BY <1>4
<1>7. all[3] = 0 /\ all[4] = 0 /\ all[5] = 0 /\ all[6] = 0 /\ all[7] = 0 /\ all[8] = 0
  BY <1>3, <1>4
<1>8. /\ w[1] = all[2 * 1 - 1] + 256 * all[2 * 1] /\ w[2] = all[2 * 2 - 1] + 256 * all[2 * 2]
      /\ w[3] = all[2 * 3 - 1] + 256 * all[2 * 3] /\ w[4] = all[2 * 4 - 1] + 256 * all[2 * 4]
      /\ w = [k \in 1..4 |-> w[k]]
  BY DEF WordsOf
<1> HIDE DEF w
<1>9. w[1] = bytes[1] + 256 * bytes[2] /\ w[2] = 0 /\ w[3] = 0 /\ w[4] = 0
  BY <1>6, <1>7, <1>8
<1>10. \A f : [k \in 1..4 |-> f[k]] = <<f[1], f[2], f[3], f[4]>>
  OBVIOUS
<1>11. w = <<w[1], w[2], w[3], w[4]>>
  BY <1>8, <1>10
<1>12. w = <<bytes[1] + 256 * bytes[2], 0, 0, 0>>
  BY <1>9, <1>11
<1> QED BY <1>5, <1>12 DEF BytesOf, w, all, zeros

\* What the review shows of a percentage denotes it, for every one of 16 bits.
THEOREM PercentsAreRight ==
  ASSUME NEW bytes \in BytesOf(2), NEW dstLen \in Nat, dstLen >= 30
  PROVE  DenotesPercent(FormatPercent(dstLen, bytes, 2), bytes[1] + 256 * bytes[2])
<1> DEFINE all == bytes \o <<0, 0, 0, 0, 0, 0>>
           t == FormatFpu64(dstLen, all, 2)
           unit == <<PercentSign>>
           text == t \o unit
           number == bytes[1] + 256 * bytes[2]
<1>1. all \in BytesOf(8) /\ WordsOf(all) = <<number, 0, 0, 0>>
  BY PercentBytes
<1>2. FormatPercent(dstLen, bytes, 2) = text
  BY PercentsAreShown, Zenon DEF FormatPercent
<1> HIDE DEF all, number
<1>3. PICK m \in 3..20 : FpuDigits(t, all, 2, m)
  <2>1. 2 \in 1..8
    OBVIOUS
  <2>2. \E m \in 2 + 1..20 : FpuDigits(t, all, 2, m)
    BY <2>1, FpuText
  <2> QED BY <2>2
<1> HIDE DEF t
<1>4. /\ Text(t, m + 1)
      /\ \A k \in 1..m - 2 : t[k] = 48 + Digit(all, m - k)
      /\ t[m - 1] = 46
      /\ \A k \in m..m + 1 : t[k] = 48 + Digit(all, m + 1 - k)
      /\ m > 3 => Digit(all, m - 1) # 0
      /\ \A d \in m..19 : Digit(all, d) = 0
  <2>1. m - 2 + 1 = m - 1 /\ m - 2 + 2 = m /\ 2 + 1 = 3
    OBVIOUS
  <2> QED BY <1>3, <2>1 DEF FpuDigits, Zero, Point
<1>5. Text(unit, 1) /\ unit[1] = 37
  BY Singles DEF PercentSign
<1> HIDE DEF unit
<1>6. Both(text, t, m + 1, unit, 1) /\ Text(text, (m + 1) + 1)
  <2> DEFINE n == m + 1
  <2>1. n \in Nat /\ 1 \in Nat /\ Text(t, n)
    BY <1>4
  <2> HIDE DEF n
  <2>2. Both(text, t, n, unit, 1) /\ Text(text, n + 1)
    BY <1>5, <2>1, Join2
  <2> QED BY <2>2 DEF n
<1> HIDE DEF text
<1>7. Len(text) = m + 2 /\ Len(text) - 2 = m
  BY <1>6 DEF Text
<1>8. \A k \in 1..m + 1 : text[k] = t[k]
  BY <1>6 DEF Both
<1>9. text[m + 2] = 37
  <2>1. m + 2 \in 1..(m + 1) + 1 /\ ~(m + 2 <= m + 1) /\ (m + 2) - (m + 1) = 1
    OBVIOUS
  <2>2. text[m + 2] = unit[(m + 2) - (m + 1)]
    BY <1>6, <2>1 DEF Both
  <2> QED BY <1>5, <2>1, <2>2
<1>10. text[m - 1] = 46
  <2>1. m - 1 \in 1..m + 1
    OBVIOUS
  <2> QED BY <1>4, <1>8, <2>1
<1> DEFINE digits == [k \in 1..m |-> (IF k < m - 1 THEN text[k] ELSE text[k + 1]) - 48]
<1>11. \A k \in 1..m : Digit(all, m - k) \in 0..9
  <2>1. \A k \in 1..m : m - k \in 0..19
    OBVIOUS
  <2> QED BY <1>1, <2>1, DigitRange
<1>12. ASSUME NEW k \in 1..m PROVE digits[k] = Digit(all, m - k)
  <2>1. Digit(all, m - k) \in 0..9
    BY <1>11
  <2>2. CASE k < m - 1
    <3>1. k \in 1..m - 2 /\ k \in 1..m + 1
      BY <2>2
    <3>2. digits[k] = text[k] - 48
      BY <2>2
    <3>3. text[k] = 48 + Digit(all, m - k)
      BY <3>1, <1>4, <1>8
    <3> QED BY <2>1, <3>2, <3>3
  <2>3. CASE ~(k < m - 1)
    <3>1. k + 1 \in m..m + 1 /\ k + 1 \in 1..m + 1 /\ m + 1 - (k + 1) = m - k
      BY <2>3
    <3>2. digits[k] = text[k + 1] - 48
      BY <2>3
    <3>3. text[k + 1] = 48 + Digit(all, m + 1 - (k + 1))
      BY <3>1, <1>4, <1>8
    <3> QED BY <2>1, <3>1, <3>2, <3>3
  <2> QED BY <2>2, <2>3
<1> HIDE DEF digits
<1>13. NumberTo(digits, m) = <<number, 0, 0, 0>>
  <2>1. m \in 0..20
    OBVIOUS
  <2> QED BY <1>1, <1>4, <1>12, <2>1, DigitsDenote
<1>14. \A k \in 1..m : digits[k] \in 0..9
  BY <1>11, <1>12
<1>15. m > 3 => digits[1] # 0
  <2>1. 1 \in 1..m
    OBVIOUS
  <2> QED BY <2>1, <1>4, <1>12
<1>16. DenotesPercent(text, number)
  <2>1. /\ Len(text) - 2 = m /\ m >= 3 /\ text[m + 2] = 37 /\ text[m - 1] = 46
        /\ \A k \in 1..m : digits[k] \in 0..9
        /\ m > 3 => digits[1] # 0
        /\ NumberTo(digits, m) = <<number, 0, 0, 0>>
    BY <1>7, <1>9, <1>10, <1>13, <1>14, <1>15
  <2> QED BY <2>1, Zenon DEF DenotesPercent, digits
<1> QED BY <1>2, <1>16, Zenon DEF number

=============================================================================
