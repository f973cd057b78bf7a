-------------------------- MODULE AccumulateProofs --------------------------
(***************************************************************************)
(* The equations of the recursive functions of Accumulate.  A recursive    *)
(* function is the one its equation determines: that there is one, and no  *)
(* more, is shown by induction over a set of numbers, which has no least   *)
(* member outside.                                                         *)
(***************************************************************************)
EXTENDS Accumulate, SequenceTheorems, WellFoundedInduction, TLAPS

\* A set that has 0 and with every number the next one has all of them.
LEMMA Induction ==
  ASSUME NEW S, 0 \in S, \A n \in Nat : n \in S => n + 1 \in S
  PROVE  \A n \in Nat : n \in S
<1> DEFINE T == {n \in Nat : n \notin S}
<1> SUFFICES ASSUME T # {} PROVE FALSE
  OBVIOUS
<1>1. T \subseteq Nat
  OBVIOUS
<1>2. PICK x \in T : \A y \in T : ~(<<y, x>> \in OpToRel(<, Nat))
  BY <1>1, NatLessThanWellFounded, WFMin
<1>3. \A y \in T : ~(y < x)
  BY <1>1, <1>2 DEF OpToRel
<1>4. x # 0 /\ x \in Nat
  OBVIOUS
<1>5. x - 1 \in Nat /\ x - 1 < x
  BY <1>4
<1>6. x - 1 \in S
  BY <1>3, <1>5
<1>7. (x - 1) + 1 \in S
  BY <1>5, <1>6
<1>8. (x - 1) + 1 = x
  BY <1>4
<1> QED BY <1>7, <1>8

-----------------------------------------------------------------------------
(* Sums.                                                                   *)

\* The equation of the sums of the first n values.
Sums(f, values, n) ==
  f = [k \in 0..n |-> IF k = 0 THEN 0 ELSE f[k - 1] + values[k]]

LEMMA SumsExist ==
  ASSUME NEW m \in Nat, NEW values, \A k \in 1..m : values[k] \in Nat
  PROVE  \E f \in [0..m -> Nat] : Sums(f, values, m)
<1> DEFINE S == {n \in Nat : n <= m => \E f \in [0..n -> Nat] : Sums(f, values, n)}
<1>1. 0 \in S
  <2> DEFINE f == [k \in 0..0 |-> 0]
  <2>1. f \in [0..0 -> Nat]
    OBVIOUS
  <2>2. f = [k \in 0..0 |-> IF k = 0 THEN 0 ELSE f[k - 1] + values[k]]
    OBVIOUS
  <2> HIDE DEF f
  <2> QED BY <2>1, <2>2 DEF Sums
<1>2. ASSUME NEW n \in Nat, n \in S PROVE n + 1 \in S
  <2> SUFFICES ASSUME n + 1 <= m PROVE \E f \in [0..n + 1 -> Nat] : Sums(f, values, n + 1)
    OBVIOUS
  <2>1. PICK f \in [0..n -> Nat] : Sums(f, values, n)
    BY <1>2
  <2> DEFINE g == [k \in 0..n + 1 |-> IF k = n + 1 THEN f[n] + values[n + 1] ELSE f[k]]
  <2>2. values[n + 1] \in Nat
    OBVIOUS
  <2>3. \A k \in 0..n + 1 : k # n + 1 => k \in 0..n
    OBVIOUS
  <2>4. g \in [0..n + 1 -> Nat]
    BY <2>2, <2>3
  <2>5. ASSUME NEW k \in 0..n + 1
        PROVE  g[k] = IF k = 0 THEN 0 ELSE g[k - 1] + values[k]
    <3>1. CASE k = n + 1
      <4>1. k # 0 /\ n \in 0..n + 1 /\ n # n + 1 /\ k - 1 = n
        BY <3>1
      <4>2. g[n] = f[n]
        BY <4>1
      <4> QED BY <3>1, <4>1, <4>2
    <3>2. CASE k # n + 1
      <4>1. k \in 0..n
        BY <3>2
      <4>2. f[k] = IF k = 0 THEN 0 ELSE f[k - 1] + values[k]
        BY <2>1, <4>1 DEF Sums
      <4>3. k # 0 => k - 1 \in 0..n + 1 /\ k - 1 # n + 1
        BY <4>1
      <4>4. k # 0 => g[k - 1] = f[k - 1]
        BY <4>3
      <4> QED BY <3>2, <4>2, <4>4
    <3> QED BY <3>1, <3>2
  <2>6. Sums(g, values, n + 1)
    BY <2>5 DEF Sums
  <2> HIDE DEF g
  <2> QED BY <2>4, <2>6
<1> HIDE DEF S
<1>3. m \in S
  BY <1>1, <1>2, Induction
<1> QED BY <1>3 DEF S

LEMMA SumsUnique ==
  ASSUME NEW m \in Nat, NEW n \in 0..m, NEW values, NEW f, NEW g,
         Sums(f, values, n), Sums(g, values, m)
  PROVE  f[n] = g[n]
<1> DEFINE S == {k \in Nat : k <= n => f[k] = g[k]}
<1>1. 0 \in S
  BY DEF Sums
<1>2. ASSUME NEW k \in Nat, k \in S PROVE k + 1 \in S
  <2> SUFFICES ASSUME k + 1 <= n PROVE f[k + 1] = g[k + 1]
    OBVIOUS
  <2>1. k + 1 \in 0..n /\ k + 1 \in 0..m /\ k + 1 # 0 /\ (k + 1) - 1 = k
    OBVIOUS
  <2>2. f[k + 1] = f[k] + values[k + 1]
    BY <2>1 DEF Sums
  <2>3. g[k + 1] = g[k] + values[k + 1]
    BY <2>1 DEF Sums
  <2> QED BY <1>2, <2>2, <2>3
<1> HIDE DEF S
<1>3. n \in S
  BY <1>1, <1>2, Induction
<1> QED BY <1>3 DEF S

\* SumTo is the sum of its equation.
LEMMA SumIs ==
  ASSUME NEW n \in Nat, NEW values, \A k \in 1..n : values[k] \in Nat
  PROVE  \E f \in [0..n -> Nat] : Sums(f, values, n) /\ SumTo(values, n) = f[n]
<1> DEFINE sum == CHOOSE f : f = [k \in 0..n |-> IF k = 0 THEN 0 ELSE f[k - 1] + values[k]]
<1>1. SumTo(values, n) = sum[n]
  BY DEF SumTo
<1>2. PICK f \in [0..n -> Nat] : Sums(f, values, n)
  BY SumsExist
<1>3. Sums(sum, values, n)
  BY <1>2 DEF Sums
<1> HIDE DEF sum
<1>4. sum[n] = f[n]
  BY <1>2, <1>3, SumsUnique
<1> QED BY <1>1, <1>2, <1>4

\* No value, and one more.
LEMMA SumEquations ==
  ASSUME NEW n \in Nat, NEW values, \A k \in 1..n : values[k] \in Nat
  PROVE  /\ SumTo(values, n) \in Nat
         /\ n = 0 => SumTo(values, n) = 0
         /\ n # 0 => SumTo(values, n) = SumTo(values, n - 1) + values[n]
<1>1. PICK f \in [0..n -> Nat] : Sums(f, values, n) /\ SumTo(values, n) = f[n]
  BY SumIs
<1>2. n = 0 => f[n] = 0
  BY <1>1 DEF Sums
<1>3. ASSUME n # 0 PROVE f[n] = SumTo(values, n - 1) + values[n]
  <2>1. n - 1 \in Nat /\ n - 1 \in 0..n
    BY <1>3
  <2>2. \A k \in 1..n - 1 : values[k] \in Nat
    OBVIOUS
  <2>3. PICK g \in [0..n - 1 -> Nat] :
          Sums(g, values, n - 1) /\ SumTo(values, n - 1) = g[n - 1]
    BY <2>1, <2>2, SumIs
  <2>4. g[n - 1] = f[n - 1]
    BY <1>1, <2>1, <2>3, SumsUnique
  <2>5. f[n] = f[n - 1] + values[n]
    BY <1>1, <1>3 DEF Sums
  <2> QED BY <2>3, <2>4, <2>5
<1> QED BY <1>1, <1>2, <1>3

\* Only the first values count.
LEMMA SumOfSame ==
  ASSUME NEW n \in Nat, NEW v, NEW w, \A k \in 1..n : v[k] \in Nat /\ v[k] = w[k]
  PROVE  SumTo(v, n) = SumTo(w, n)
<1>1. PICK f : Sums(f, v, n) /\ SumTo(v, n) = f[n]
  BY SumIs
<1>2. PICK g : Sums(g, w, n) /\ SumTo(w, n) = g[n]
  <2>1. \A k \in 1..n : w[k] \in Nat
    OBVIOUS
  <2> QED BY <2>1, SumIs
<1>3. Sums(g, v, n)
  <2>1. ASSUME NEW k \in 0..n
        PROVE  (IF k = 0 THEN 0 ELSE g[k - 1] + v[k]) = (IF k = 0 THEN 0 ELSE g[k - 1] + w[k])
    <3>1. k # 0 => v[k] = w[k]
      OBVIOUS
    <3> QED BY <3>1
  <2> QED BY <1>2, <2>1 DEF Sums
<1>4. n \in 0..n
  OBVIOUS
<1>5. f[n] = g[n]
  BY <1>1, <1>3, <1>4, SumsUnique
<1> QED BY <1>1, <1>2, <1>5
-----------------------------------------------------------------------------
(* Joined parts.                                                           *)

\* The equation of the first n parts, one behind the other.
Joins(f, parts, n) ==
  f = [k \in 0..n |-> IF k = 0 THEN <<>> ELSE f[k - 1] \o parts[k]]

LEMMA JoinsExist ==
  ASSUME NEW m \in Nat, NEW S, NEW parts, \A k \in 1..m : parts[k] \in Seq(S)
  PROVE  \E f \in [0..m -> Seq(S)] : Joins(f, parts, m)
<1> DEFINE N == {n \in Nat : n <= m => \E f \in [0..n -> Seq(S)] : Joins(f, parts, n)}
<1>1. 0 \in N
  <2> DEFINE f == [k \in 0..0 |-> <<>>]
  <2>1. f \in [0..0 -> Seq(S)]
    OBVIOUS
  <2>2. f = [k \in 0..0 |-> IF k = 0 THEN <<>> ELSE f[k - 1] \o parts[k]]
    OBVIOUS
  <2> HIDE DEF f
  <2> QED BY <2>1, <2>2 DEF Joins
<1>2. ASSUME NEW n \in Nat, n \in N PROVE n + 1 \in N
  <2> SUFFICES ASSUME n + 1 <= m
               PROVE  \E f \in [0..n + 1 -> Seq(S)] : Joins(f, parts, n + 1)
    OBVIOUS
  <2>1. PICK f \in [0..n -> Seq(S)] : Joins(f, parts, n)
    BY <1>2
  <2> DEFINE next == f[n] \o parts[n + 1]
             g == [k \in 0..n + 1 |-> IF k = n + 1 THEN next ELSE f[k]]
  <2>2. next \in Seq(S)
    <3>1. f[n] \in Seq(S) /\ parts[n + 1] \in Seq(S)
      OBVIOUS
    <3> QED BY <3>1, ConcatProperties
  <2>3. \A k \in 0..n + 1 : k # n + 1 => k \in 0..n
    OBVIOUS
  <2> HIDE DEF next
  <2>4. g \in [0..n + 1 -> Seq(S)]
    BY <2>2, <2>3
  <2>5. ASSUME NEW k \in 0..n + 1
        PROVE  g[k] = IF k = 0 THEN <<>> ELSE g[k - 1] \o parts[k]
    <3>1. CASE k = n + 1
      <4>1. k # 0 /\ n \in 0..n + 1 /\ n # n + 1 /\ k - 1 = n
        BY <3>1
      <4>2. g[n] = f[n]
        BY <4>1
      <4> QED BY <3>1, <4>1, <4>2 DEF next
    <3>2. CASE k # n + 1
      <4>1. k \in 0..n
        BY <3>2
      <4>2. f[k] = IF k = 0 THEN <<>> ELSE f[k - 1] \o parts[k]
        BY <2>1, <4>1 DEF Joins
      <4>3. k # 0 => k - 1 \in 0..n + 1 /\ k - 1 # n + 1
        BY <4>1
      <4>4. k # 0 => g[k - 1] = f[k - 1]
        BY <4>3
      <4> QED BY <3>2, <4>2, <4>4
    <3> QED BY <3>1, <3>2
  <2>6. Joins(g, parts, n + 1)
    BY <2>5 DEF Joins
  <2> HIDE DEF g
  <2> QED BY <2>4, <2>6
<1> HIDE DEF N
<1>3. m \in N
  BY <1>1, <1>2, Induction
<1> QED BY <1>3 DEF N

LEMMA JoinsUnique ==
  ASSUME NEW m \in Nat, NEW n \in 0..m, NEW parts, NEW f, NEW g,
         Joins(f, parts, n), Joins(g, parts, m)
  PROVE  f[n] = g[n]
<1> DEFINE S == {k \in Nat : k <= n => f[k] = g[k]}
<1>1. 0 \in S
  BY DEF Joins
<1>2. ASSUME NEW k \in Nat, k \in S PROVE k + 1 \in S
  <2> SUFFICES ASSUME k + 1 <= n PROVE f[k + 1] = g[k + 1]
    OBVIOUS
  <2>1. k + 1 \in 0..n /\ k + 1 \in 0..m /\ k + 1 # 0 /\ (k + 1) - 1 = k
    OBVIOUS
  <2>2. f[k + 1] = f[k] \o parts[k + 1]
    BY <2>1 DEF Joins
  <2>3. g[k + 1] = g[k] \o parts[k + 1]
    BY <2>1 DEF Joins
  <2>4. f[k] = g[k]
    BY <1>2, <2>1
  <2> QED BY <2>2, <2>3, <2>4, Zenon
<1> HIDE DEF S
<1>3. n \in S
  BY <1>1, <1>2, Induction
<1> QED BY <1>3 DEF S

LEMMA JoinIs ==
  ASSUME NEW n \in Nat, NEW S, NEW parts, \A k \in 1..n : parts[k] \in Seq(S)
  PROVE  \E f : /\ Joins(f, parts, n) /\ JoinTo(parts, n) = f[n]
              /\ JoinTo(parts, n) \in Seq(S)
<1> DEFINE joined == CHOOSE f : f = [k \in 0..n |-> IF k = 0 THEN <<>> ELSE f[k - 1] \o parts[k]]
<1>1. JoinTo(parts, n) = joined[n]
  BY DEF JoinTo
<1>2. PICK f \in [0..n -> Seq(S)] : Joins(f, parts, n)
  BY JoinsExist
<1>3. Joins(joined, parts, n)
  BY <1>2 DEF Joins
<1> HIDE DEF joined
<1>4. joined[n] = f[n]
  BY <1>2, <1>3, JoinsUnique
<1>5. f[n] \in Seq(S)
  OBVIOUS
<1> QED BY <1>1, <1>2, <1>4, <1>5, Zenon

\* No part, and one more.
LEMMA JoinEquations ==
  ASSUME NEW n \in Nat, NEW S, NEW parts, \A k \in 1..n : parts[k] \in Seq(S)
  PROVE  /\ JoinTo(parts, n) \in Seq(S)
         /\ n = 0 => JoinTo(parts, n) = <<>>
         /\ n # 0 => JoinTo(parts, n) = JoinTo(parts, n - 1) \o parts[n]
<1>1. PICK f : /\ Joins(f, parts, n) /\ JoinTo(parts, n) = f[n]
               /\ JoinTo(parts, n) \in Seq(S)
  BY JoinIs
<1>2. n = 0 => f[n] = <<>>
  BY <1>1 DEF Joins
<1>3. ASSUME n # 0 PROVE f[n] = JoinTo(parts, n - 1) \o parts[n]
  <2>1. n - 1 \in Nat /\ n - 1 \in 0..n
    BY <1>3
  <2>2. \A k \in 1..n - 1 : parts[k] \in Seq(S)
    OBVIOUS
  <2>3. PICK g :
          Joins(g, parts, n - 1) /\ JoinTo(parts, n - 1) = g[n - 1]
    BY <2>1, <2>2, JoinIs
  <2>4. g[n - 1] = f[n - 1]
    BY <1>1, <2>1, <2>3, JoinsUnique
  <2>5. f[n] = f[n - 1] \o parts[n]
    <3>1. n \in 0..n
      OBVIOUS
    <3>2. f[n] = IF n = 0 THEN <<>> ELSE f[n - 1] \o parts[n]
      BY <1>1, <3>1, Zenon DEF Joins
    <3> QED BY <1>3, <3>2
  <2> QED BY <2>3, <2>4, <2>5
<1> QED BY <1>1, <1>2, <1>3

\* Only the first parts count.
LEMMA JoinOfSame ==
  ASSUME NEW n \in Nat, NEW S, NEW v, NEW w,
         \A k \in 1..n : v[k] \in Seq(S) /\ v[k] = w[k]
  PROVE  JoinTo(v, n) = JoinTo(w, n)
<1>1. PICK f : Joins(f, v, n) /\ JoinTo(v, n) = f[n]
  BY JoinIs
<1>2. PICK g : Joins(g, w, n) /\ JoinTo(w, n) = g[n]
  <2>1. \A k \in 1..n : w[k] \in Seq(S)
    OBVIOUS
  <2> QED BY <2>1, JoinIs
<1>3. Joins(g, v, n)
  <2>1. ASSUME NEW k \in 0..n
        PROVE  (IF k = 0 THEN <<>> ELSE g[k - 1] \o v[k]) = (IF k = 0 THEN <<>> ELSE g[k - 1] \o w[k])
    <3>1. k # 0 => v[k] = w[k]
      OBVIOUS
    <3> QED BY <3>1
  <2> QED BY <1>2, <2>1 DEF Joins
<1>4. n \in 0..n
  OBVIOUS
<1>5. f[n] = g[n]
  BY <1>1, <1>3, <1>4, JoinsUnique
<1> QED BY <1>1, <1>2, <1>5

\* What is joined so far is the beginning of the whole.
LEMMA JoinBegins ==
  ASSUME NEW m \in Nat, NEW n \in 0..m, NEW S, NEW parts,
         \A k \in 1..m : parts[k] \in Seq(S)
  PROVE  /\ Len(JoinTo(parts, n)) <= Len(JoinTo(parts, m))
         /\ \A i \in 1..Len(JoinTo(parts, n)) : JoinTo(parts, m)[i] = JoinTo(parts, n)[i]
<1> DEFINE J(k) == JoinTo(parts, k)
           begins(k) == /\ Len(J(n)) <= Len(J(k))
                        /\ \A i \in 1..Len(J(n)) : J(k)[i] = J(n)[i]
           N == {d \in Nat : n + d <= m => begins(n + d)}
<1>1. \A k \in 0..m : J(k) \in Seq(S) /\ Len(J(k)) \in Nat
  <2> TAKE k \in 0..m
  <2>1. k \in Nat /\ \A i \in 1..k : parts[i] \in Seq(S)
    OBVIOUS
  <2>2. J(k) \in Seq(S)
    BY <2>1, JoinEquations
  <2> HIDE DEF J
  <2> QED BY <2>2, LenProperties
<1>2. \A k \in 1..m : J(k) = J(k - 1) \o parts[k]
  <2> TAKE k \in 1..m
  <2>1. k \in Nat /\ k # 0 /\ \A i \in 1..k : parts[i] \in Seq(S)
    OBVIOUS
  <2> QED BY <2>1, JoinEquations
<1> HIDE DEF J
<1>3. 0 \in N
  <2>1. n + 0 = n
    OBVIOUS
  <2>2. begins(n)
    BY <1>1
  <2> HIDE DEF begins
  <2> QED BY <2>1, <2>2
<1>4. ASSUME NEW d \in Nat, d \in N PROVE d + 1 \in N
  <2> SUFFICES ASSUME n + (d + 1) <= m PROVE begins(n + (d + 1))
    OBVIOUS
  <2> DEFINE k == n + (d + 1)
  <2>1. k \in 1..m /\ k \in 0..m /\ k - 1 = n + d /\ k - 1 \in 0..m
    OBVIOUS
  <2>2. begins(k - 1)
    BY <1>4, <2>1
  <2> HIDE DEF k
  <2>3. J(k) = J(k - 1) \o parts[k] /\ J(k - 1) \in Seq(S) /\ parts[k] \in Seq(S)
    BY <1>1, <1>2, <2>1
  <2>4. /\ Len(J(k)) = Len(J(k - 1)) + Len(parts[k])
        /\ \A i \in 1..Len(J(k - 1)) : J(k)[i] = J(k - 1)[i]
    <3>1. \A i \in 1..Len(J(k - 1)) + Len(parts[k]) :
            (J(k - 1) \o parts[k])[i] = IF i <= Len(J(k - 1)) THEN J(k - 1)[i]
                                        ELSE parts[k][i - Len(J(k - 1))]
      BY <2>3, ConcatProperties
    <3>2. Len(J(k - 1) \o parts[k]) = Len(J(k - 1)) + Len(parts[k])
      BY <2>3, ConcatProperties
    <3>3. Len(J(k - 1)) \in Nat /\ Len(parts[k]) \in Nat
      BY <2>3, LenProperties
    <3> QED BY <3>1, <3>2, <3>3, <2>3
  <2>5. Len(J(n)) \in Nat /\ Len(J(k - 1)) \in Nat /\ Len(parts[k]) \in Nat
    BY <1>1, <2>1, <2>3, LenProperties
  <2>6. begins(k)
    <3>1. Len(J(n)) <= Len(J(k - 1)) /\ \A i \in 1..Len(J(n)) : J(k - 1)[i] = J(n)[i]
      BY <2>2
    <3>2. Len(J(n)) <= Len(J(k))
      <4>1. \A a, b, c, e \in Nat : a <= b /\ c = b + e => a <= c
        OBVIOUS
      <4>2. Len(J(n)) <= Len(J(k - 1)) /\ Len(J(k)) = Len(J(k - 1)) + Len(parts[k])
        BY <3>1, <2>4
      <4>3. Len(J(k)) \in Nat
        BY <2>1, <1>1
      <4> QED BY <4>1, <4>2, <4>3, <2>5, Zenon
    <3>3. \A i \in 1..Len(J(n)) : i \in 1..Len(J(k - 1))
      BY <3>1, <2>5
    <3>4. \A i \in 1..Len(J(n)) : J(k)[i] = J(n)[i]
      BY <3>1, <3>3, <2>4
    <3> QED BY <3>2, <3>4
  <2> QED BY <2>6 DEF k
<1>5. m - n \in Nat
  OBVIOUS
<1> HIDE DEF N
<1>6. m - n \in N
  BY <1>3, <1>4, <1>5, Induction
<1>7. begins(n + (m - n)) /\ n + (m - n) = m
  BY <1>6 DEF N
<1> QED BY <1>7 DEF J
=============================================================================
