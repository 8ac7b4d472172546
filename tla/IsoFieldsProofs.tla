-------------------------- MODULE IsoFieldsProofs --------------------------
(***************************************************************************)
(* Proofs about the fields of IsoFields: padding and its undoing, and that *)
(* the digits of a number, padded to a field, stand for that number.       *)
(***************************************************************************)
EXTENDS IsoFields, WellFoundedInduction, FiniteSetTheorems,
        SequenceTheorems, TLAPS

-----------------------------------------------------------------------------
(* Induction: the provers cannot instantiate an induction principle, but a *)
(* set of counterexamples has a least element.                             *)

\* A set of naturals that is not empty has a least element.
LEMMA LeastElement ==
  ASSUME NEW T \in SUBSET Nat, T # {}
  PROVE  \E n \in T : \A m \in T : n <= m
<1> DEFINE R == OpToRel(<, Nat)
<1>1. IsWellFoundedOn(R, Nat)
  BY NatLessThanWellFounded
<1>2. PICK n \in T : \A m \in T : ~ (<<m, n>> \in R)
  <2> HIDE DEF R
  <2> QED BY <1>1, WFMin, Zenon
<1>3. \A m \in T : ~ (m < n)
  BY <1>2 DEF OpToRel
<1> QED BY <1>3

-----------------------------------------------------------------------------
(* The digits of a number. *)

\* A number of more than one digit is what its last digit adds to the others.
LEMMA LastDigit ==
  ASSUME NEW n \in Nat
  PROVE  /\ n \div 10 \in Nat /\ n % 10 \in 0..9
         /\ n = 10 * (n \div 10) + (n % 10)
         /\ n >= 10 => n \div 10 < n
OBVIOUS

\* Digits of n, given those of smaller numbers.
DigitsOf(g, n) ==
  IF n < 10 THEN <<n>> ELSE Append(g[n \div 10], n % 10)

\* g is right about the numbers up to n.
RightUpTo(g, n) ==
  /\ g \in [Nat -> Seq(0..9)]
  /\ \A i \in 0..n : g[i] = DigitsOf(g, i)

\* There is such a g for every n.
LEMMA RightExists ==
  \A n \in Nat : \E g : RightUpTo(g, n)
<1> DEFINE Bad == {n \in Nat : ~ \E g : RightUpTo(g, n)}
<1> SUFFICES Bad = {}
  OBVIOUS
<1> SUFFICES ASSUME Bad # {} PROVE FALSE
  OBVIOUS
<1>1. PICK n \in Bad : \A m \in Bad : n <= m
  <2>1. Bad \in SUBSET Nat
    OBVIOUS
  <2> HIDE DEF Bad
  <2> QED BY <2>1, LeastElement
<1>2. n \in Nat /\ \A g : ~RightUpTo(g, n)
  BY <1>1
<1>3. \E g \in [Nat -> Seq(0..9)] : \A i \in 0..(n - 1) : g[i] = DigitsOf(g, i)
  <2>1. CASE n = 0
    <3>1. [i \in Nat |-> <<>>] \in [Nat -> Seq(0..9)]
      OBVIOUS
    <3>2. 0..(n - 1) = {}
      BY <2>1
    <3> QED BY <3>1, <3>2, Zenon
  <2>2. CASE n # 0
    <3>1. n - 1 \in Nat /\ ~(n <= n - 1)
      BY <1>2, <2>2
    <3>2. n - 1 \notin Bad
      BY <1>1, <3>1
    <3> QED BY <3>1, <3>2 DEF RightUpTo
  <2> QED BY <2>1, <2>2
<1>4. PICK g \in [Nat -> Seq(0..9)] :
        \A i \in 0..(n - 1) : g[i] = DigitsOf(g, i)
  BY <1>3
<1> DEFINE h == [g EXCEPT ![n] = DigitsOf(g, n)]
<1>5. DigitsOf(g, n) \in Seq(0..9)
  <2>1. CASE n < 10
    <3>1. <<n>> \in Seq(0..9)
      BY <1>2, <2>1
    <3> QED BY <2>1, <3>1 DEF DigitsOf
  <2>2. CASE ~(n < 10)
    <3>1. n \div 10 \in Nat /\ n % 10 \in 0..9
      BY <1>2, LastDigit
    <3>2. g[n \div 10] \in Seq(0..9)
      BY <3>1
    <3>3. Append(g[n \div 10], n % 10) \in Seq(0..9)
      BY <3>1, <3>2, AppendProperties
    <3> QED BY <2>2, <3>3 DEF DigitsOf
  <2> QED BY <2>1, <2>2
<1>6. h \in [Nat -> Seq(0..9)] /\ h[n] = DigitsOf(g, n)
  BY <1>2, <1>5
<1>6a. \A i \in Nat : i # n => h[i] = g[i]
  OBVIOUS
<1> HIDE DEF h
<1>7. ASSUME NEW i \in 0..n PROVE h[i] = DigitsOf(h, i)
  <2>1. DigitsOf(h, i) = DigitsOf(g, i)
    <3>1. CASE i < 10
      BY <3>1 DEF DigitsOf
    <3>2. CASE ~(i < 10)
      <4>1. i \in Nat /\ i \div 10 \in Nat /\ i \div 10 # n
        BY <1>2, <3>2, LastDigit
      <4>2. h[i \div 10] = g[i \div 10]
        BY <1>6a, <4>1
      <4> QED BY <3>2, <4>2, Zenon DEF DigitsOf
    <3> QED BY <3>1, <3>2
  <2>2. CASE i = n
    BY <1>6, <2>1, <2>2
  <2>3. CASE i # n
    <3>1. i \in 0..(n - 1) /\ i \in Nat
      BY <1>2, <2>3
    <3>2. h[i] = g[i] /\ g[i] = DigitsOf(g, i)
      BY <1>4, <1>6a, <2>3, <3>1
    <3> QED BY <2>1, <3>2
  <2> QED BY <2>2, <2>3
<1> QED BY <1>2, <1>6, <1>7 DEF RightUpTo

\* Two that are right up to n agree up to n.
LEMMA RightAgree ==
  ASSUME NEW n \in Nat, NEW g, NEW h, RightUpTo(g, n), RightUpTo(h, n)
  PROVE  \A i \in 0..n : g[i] = h[i]
<1> DEFINE Bad == {i \in 0..n : g[i] # h[i]}
<1> SUFFICES ASSUME Bad # {} PROVE FALSE
  OBVIOUS
<1>1. PICK i \in Bad : \A m \in Bad : i <= m
  <2>1. Bad \in SUBSET Nat
    OBVIOUS
  <2> HIDE DEF Bad
  <2> QED BY <2>1, LeastElement
<1>2. i \in 0..n /\ i \in Nat /\ g[i] # h[i]
  BY <1>1
<1>3. g[i] = DigitsOf(g, i) /\ h[i] = DigitsOf(h, i)
  BY <1>2 DEF RightUpTo
<1>4. CASE i < 10
  BY <1>2, <1>3, <1>4 DEF DigitsOf
<1>5. CASE ~(i < 10)
  <2>1. i \div 10 \in 0..n /\ ~(i <= i \div 10)
    BY <1>2, <1>5, LastDigit
  <2>2. g[i \div 10] = h[i \div 10]
    <3>1. i \div 10 \notin Bad
      BY <1>1, <2>1
    <3> QED BY <2>1, <3>1
  <2> QED BY <1>2, <1>3, <1>5, <2>2, Zenon DEF DigitsOf
<1> QED BY <1>4, <1>5

\* Digits is what its recursive definition says.
LEMMA DigitsDefined ==
  Digits = [n \in Nat |-> DigitsOf(Digits, n)] /\ Digits \in [Nat -> Seq(0..9)]
<1> DEFINE G(n) == CHOOSE g : RightUpTo(g, n)
           f == [n \in Nat |-> G(n)[n]]
           IsDigits(g) == g = [n \in Nat |-> DigitsOf(g, n)]
<1>1. \A n \in Nat : RightUpTo(G(n), n)
  BY RightExists
<1>2. \A n \in Nat : f[n] = G(n)[n]
  OBVIOUS
<1> HIDE DEF G
<1>3. \A n \in Nat : f[n] \in Seq(0..9)
  BY <1>1, <1>2 DEF RightUpTo
<1>4. ASSUME NEW n \in Nat PROVE f[n] = DigitsOf(f, n)
  <2>1. n \in 0..n
    OBVIOUS
  <2>2. f[n] = DigitsOf(G(n), n)
    BY <1>1, <1>2, <2>1 DEF RightUpTo
  <2>3. CASE n < 10
    BY <2>2, <2>3 DEF DigitsOf
  <2>4. CASE ~(n < 10)
    <3> DEFINE k == n \div 10
    <3>1. k \in Nat /\ k \in 0..k /\ k < n
      BY <2>4, LastDigit
    <3>2. RightUpTo(G(n), k)
      <4>1. \A i \in 0..k : i \in 0..n
        BY <3>1
      <4> QED BY <1>1, <4>1 DEF RightUpTo
    <3>3. RightUpTo(G(k), k)
      BY <1>1, <3>1
    <3>4. f[k] = G(k)[k]
      BY <1>2, <3>1
    <3> HIDE DEF k, f
    <3>5. G(n)[k] = f[k]
      BY <3>1, <3>2, <3>3, <3>4, RightAgree
    <3> QED BY <2>2, <2>4, <3>5, Zenon DEF DigitsOf, k
  <2> QED BY <2>3, <2>4
<1>5. f = [n \in Nat |-> f[n]]
  OBVIOUS
<1>6. IsDigits(f)
  <2> HIDE DEF f
  <2> QED BY <1>4, <1>5
<1>7. Digits = CHOOSE g : IsDigits(g)
  BY DEF Digits, DigitsOf
<1>8. IsDigits(Digits)
  <2> HIDE DEF IsDigits
  <2> QED BY <1>6, <1>7, Zenon
<1>9. Digits = [n \in Nat |-> DigitsOf(Digits, n)]
  BY <1>8
<1> DEFINE Bad == {n \in Nat : Digits[n] \notin Seq(0..9)}
<1>10. Bad = {}
  <2> SUFFICES ASSUME Bad # {} PROVE FALSE
    OBVIOUS
  <2>1. PICK n \in Bad : \A m \in Bad : n <= m
    <3>1. Bad \in SUBSET Nat
      OBVIOUS
    <3> HIDE DEF Bad
    <3> QED BY <3>1, LeastElement
  <2>2. n \in Nat /\ Digits[n] \notin Seq(0..9) /\ Digits[n] = DigitsOf(Digits, n)
    BY <1>9, <2>1
  <2>3. CASE n < 10
    <3>1. <<n>> \in Seq(0..9)
      BY <2>2, <2>3
    <3> QED BY <2>2, <2>3, <3>1 DEF DigitsOf
  <2>4. CASE ~(n < 10)
    <3>1. n \div 10 \in Nat /\ n % 10 \in 0..9 /\ ~(n <= n \div 10)
      BY <2>2, <2>4, LastDigit
    <3>2. Digits[n \div 10] \in Seq(0..9)
      BY <2>1, <3>1
    <3>3. Append(Digits[n \div 10], n % 10) \in Seq(0..9)
      BY <3>1, <3>2, AppendProperties
    <3> QED BY <2>2, <2>4, <3>3 DEF DigitsOf
  <2> QED BY <2>3, <2>4
<1> QED BY <1>9, <1>10

-----------------------------------------------------------------------------
(* The number that digits stand for. *)

\* sums is what the recursion of Number computes for digits s.
Sums(sums, s) ==
  /\ sums \in [0..Len(s) -> Nat]
  /\ sums[0] = 0
  /\ \A i \in 1..Len(s) : sums[i] = 10 * sums[i - 1] + s[i]

\* There are such sums.
LEMMA SumsExist ==
  ASSUME NEW s \in Seq(0..9)
  PROVE  \E sums : Sums(sums, s)
<1> DEFINE len == Len(s)
           To(g, n) == /\ g \in [0..n -> Nat] /\ g[0] = 0
                       /\ \A i \in 1..n : g[i] = 10 * g[i - 1] + s[i]
           Bad == {n \in 0..len : ~ \E g : To(g, n)}
<1>1. len \in Nat /\ \A i \in 1..len : s[i] \in 0..9
  OBVIOUS
<1>1a. \A g : To(g, len) => Sums(g, s)
  BY DEF Sums
<1> HIDE DEF len
<1> SUFFICES ASSUME Bad # {} PROVE FALSE
  <2>1. Bad = {} => \E g : To(g, len)
    <3> HIDE DEF To
    <3> QED BY <1>1
  <2> HIDE DEF Bad, To
  <2> QED BY <1>1a, <2>1
<1>2. PICK n \in Bad : \A m \in Bad : n <= m
  <2>1. Bad \in SUBSET Nat
    BY <1>1
  <2> HIDE DEF Bad
  <2> QED BY <2>1, LeastElement
<1>3. n \in 0..len /\ n \in Nat /\ \A g : ~To(g, n)
  <2> HIDE DEF To
  <2> QED BY <1>1, <1>2
<1>4. n # 0
  <2> SUFFICES ASSUME n = 0 PROVE FALSE
    OBVIOUS
  <2>1. To([i \in 0..0 |-> 0], 0)
    OBVIOUS
  <2> QED BY <1>3, <2>1
<1>5. PICK g : To(g, n - 1)
  <2>1. n - 1 \in 0..len /\ ~(n <= n - 1)
    BY <1>1, <1>3, <1>4
  <2> QED BY <1>2, <2>1
<1> DEFINE h == [i \in 0..n |-> IF i = n THEN 10 * g[n - 1] + s[n] ELSE g[i]]
<1>6. n - 1 \in 0..(n - 1) /\ n \in 1..len
  BY <1>1, <1>3, <1>4
<1>7. g[n - 1] \in Nat /\ s[n] \in 0..9
  BY <1>1, <1>5, <1>6
<1>8. \A i \in 0..n : i # n => i \in 0..(n - 1)
  BY <1>3
<1>9. h \in [0..n -> Nat]
  <2>1. \A i \in 0..n : i # n => g[i] \in Nat
    BY <1>5, <1>8
  <2>2. 10 * g[n - 1] + s[n] \in Nat
    <3>1. \A x \in Nat, y \in 0..9 : 10 * x + y \in Nat
      OBVIOUS
    <3> QED BY <1>7, <3>1
  <2> QED BY <2>1, <2>2
<1>10. h[0] = 0
  BY <1>3, <1>4, <1>5
<1>11. ASSUME NEW i \in 1..n PROVE h[i] = 10 * h[i - 1] + s[i]
  <2>1. i - 1 \in 0..n /\ i - 1 # n /\ i \in 0..n
    BY <1>3
  <2>2. h[i - 1] = g[i - 1]
    BY <2>1
  <2>3. CASE i = n
    BY <2>2, <2>3
  <2>4. CASE i # n
    <3>1. i \in 1..(n - 1)
      BY <1>3, <2>4
    <3>2. h[i] = g[i]
      BY <2>1, <2>4
    <3> QED BY <1>5, <2>2, <3>1, <3>2
  <2> QED BY <2>3, <2>4
<1> HIDE DEF h
<1>12. To(h, n)
  BY <1>9, <1>10, <1>11
<1> HIDE DEF To
<1> QED BY <1>3, <1>12

\* The last of these sums is the number.
LEMMA NumberIsSum ==
  ASSUME NEW s \in Seq(0..9), NEW sums, Sums(sums, s)
  PROVE  Number(s) = sums[Len(s)] /\ Number(s) \in Nat
<1> DEFINE len == Len(s)
           Is(g) == g = [i \in 0..len |-> IF i = 0 THEN 0 ELSE 10 * g[i - 1] + s[i]]
           upTo == CHOOSE g : Is(g)
<1>1. len \in Nat
  OBVIOUS
<1>2. Number(s) = upTo[len]
  BY DEF Number
<1>3. /\ sums \in [0..len -> Nat] /\ sums[0] = 0
      /\ \A i \in 1..len : sums[i] = 10 * sums[i - 1] + s[i]
  BY DEF Sums
<1> HIDE DEF len
<1>4. Is(sums)
  <2>1. \A i \in 0..len : i # 0 => i \in 1..len
    BY <1>1
  <2>2. \A i \in 0..len : sums[i] = IF i = 0 THEN 0 ELSE 10 * sums[i - 1] + s[i]
    BY <1>3, <2>1
  <2> QED BY <1>3, <2>2
<1>5. Is(upTo)
  <2> HIDE DEF Is
  <2> QED BY <1>4, Zenon
<1> HIDE DEF upTo
<1> DEFINE Bad == {i \in 0..len : upTo[i] # sums[i]}
<1>6. Bad = {}
  <2> SUFFICES ASSUME Bad # {} PROVE FALSE
    OBVIOUS
  <2>1. PICK n \in Bad : \A m \in Bad : n <= m
    <3>1. Bad \in SUBSET Nat
      BY <1>1
    <3> HIDE DEF Bad
    <3> QED BY <3>1, LeastElement
  <2>2. n \in 0..len /\ n \in Nat /\ upTo[n] # sums[n]
    BY <1>1, <2>1
  <2>3. upTo[n] = IF n = 0 THEN 0 ELSE 10 * upTo[n - 1] + s[n]
    BY <1>5, <2>2
  <2>4. CASE n = 0
    BY <1>3, <2>2, <2>3, <2>4
  <2>5. CASE n # 0
    <3>1. n - 1 \in 0..len /\ ~(n <= n - 1) /\ n \in 1..len
      BY <1>1, <2>2, <2>5
    <3>2. upTo[n - 1] = sums[n - 1]
      BY <2>1, <3>1
    <3> QED BY <1>3, <2>2, <2>3, <2>5, <3>1, <3>2
  <2> QED BY <2>4, <2>5
<1>7. len \in 0..len
  BY <1>1
<1> QED BY <1>2, <1>3, <1>6, <1>7 DEF len

\* One more digit.
LEMMA NumberOfAppend ==
  ASSUME NEW s \in Seq(0..9), NEW d \in 0..9
  PROVE  Number(Append(s, d)) = 10 * Number(s) + d
<1> DEFINE len == Len(s)
           more == Append(s, d)
<1>1. PICK g : Sums(g, s)
  BY SumsExist
<1>2. /\ len \in Nat /\ g \in [0..len -> Nat] /\ g[0] = 0
      /\ \A i \in 1..len : g[i] = 10 * g[i - 1] + s[i]
  BY <1>1 DEF Sums
<1>3. /\ more \in Seq(0..9) /\ Len(more) = len + 1
      /\ \A i \in 1..len : more[i] = s[i]
      /\ more[len + 1] = d
  BY AppendProperties
<1>4. Number(s) = g[len]
  BY <1>1, NumberIsSum
<1> HIDE DEF len, more
<1> DEFINE h == [i \in 0..(len + 1) |-> IF i = len + 1 THEN 10 * g[len] + d ELSE g[i]]
<1>5. /\ g[len] \in Nat
      /\ \A i \in 0..(len + 1) : i # len + 1 => i \in 0..len /\ g[i] \in Nat
  BY <1>2
<1>6. h \in [0..(len + 1) -> Nat] /\ h[0] = 0 /\ h[len + 1] = 10 * g[len] + d
  <2>1. 10 * g[len] + d \in Nat
    BY <1>5
  <2> QED BY <1>2, <1>5, <2>1
<1>7. ASSUME NEW i \in 1..(len + 1) PROVE h[i] = 10 * h[i - 1] + more[i]
  <2>1. i - 1 \in 0..(len + 1) /\ i - 1 # len + 1 /\ i \in 0..(len + 1)
    BY <1>2
  <2>2. h[i - 1] = g[i - 1]
    BY <2>1
  <2>3. CASE i = len + 1
    <3>1. i - 1 = len
      BY <1>2, <2>3
    <3> QED BY <1>3, <1>6, <2>2, <2>3, <3>1
  <2>4. CASE i # len + 1
    <3>1. i \in 1..len
      BY <1>2, <2>4
    <3>2. h[i] = g[i]
      BY <2>1, <2>4
    <3> QED BY <1>2, <1>3, <2>2, <3>1, <3>2
  <2> QED BY <2>3, <2>4
<1> HIDE DEF h
<1>8. Sums(h, more)
  BY <1>3, <1>6, <1>7 DEF Sums
<1>9. Number(more) = h[len + 1]
  BY <1>3, <1>8, NumberIsSum
<1> QED BY <1>4, <1>6, <1>9 DEF more

\* Leading zeros add nothing.
LEMMA NumberOfZeros ==
  ASSUME NEW s \in Seq(0..9), NEW k \in Nat, NEW filled \in Seq(0..9),
         Len(filled) = k + Len(s),
         \A i \in 1..k : filled[i] = 0,
         \A i \in 1..Len(s) : filled[k + i] = s[i]
  PROVE  Number(filled) = Number(s)
<1> DEFINE len == Len(s)
<1>1. PICK g : Sums(g, s)
  BY SumsExist
<1>2. /\ len \in Nat /\ g \in [0..len -> Nat] /\ g[0] = 0
      /\ \A i \in 1..len : g[i] = 10 * g[i - 1] + s[i]
  BY <1>1 DEF Sums
<1>3. Number(s) = g[len]
  BY <1>1, NumberIsSum
<1>4. Len(filled) = k + len /\ \A i \in 1..len : filled[k + i] = s[i]
  OBVIOUS
<1> HIDE DEF len
<1> DEFINE h == [i \in 0..(k + len) |-> IF i <= k THEN 0 ELSE g[i - k]]
<1>5. \A i \in 0..(k + len) : ~(i <= k) => i - k \in 1..len /\ g[i - k] \in Nat
  BY <1>2
<1>6. h \in [0..(k + len) -> Nat] /\ h[0] = 0
  BY <1>2, <1>5
<1>7. ASSUME NEW i \in 1..(k + len) PROVE h[i] = 10 * h[i - 1] + filled[i]
  <2>1. i - 1 \in 0..(k + len) /\ i \in 0..(k + len)
    BY <1>2
  <2>2. CASE i <= k
    <3>1. h[i] = 0 /\ h[i - 1] = 0 /\ filled[i] = 0
      BY <2>1, <2>2
    <3> HIDE DEF h
    <3> QED BY <3>1
  <2>3. CASE ~(i <= k)
    <3> DEFINE j == i - k
    <3>1. j \in 1..len /\ i = k + j /\ i - 1 - k = j - 1
      BY <1>2, <2>3
    <3>2. filled[i] = s[j]
      BY <1>4, <3>1
    <3>3. h[i] = g[j]
      BY <2>1, <2>3
    <3>4. h[i - 1] = g[j - 1]
      <4>1. CASE i - 1 <= k
        <5>1. j - 1 = 0
          BY <2>3, <3>1, <4>1
        <5> QED BY <1>2, <2>1, <4>1, <5>1
      <4>2. CASE ~(i - 1 <= k)
        BY <2>1, <3>1, <4>2
      <4> QED BY <4>1, <4>2
    <3> HIDE DEF j, h
    <3> QED BY <1>2, <3>1, <3>2, <3>3, <3>4
  <2> QED BY <2>2, <2>3
<1>8. h[k + len] = g[len]
  <2> DEFINE top == k + len
  <2>1. top \in 0..(k + len) /\ top - k = len
    BY <1>2
  <2>2. top <= k => len = 0
    BY <1>2
  <2> HIDE DEF top
  <2>3. CASE top <= k
    <3>1. h[top] = 0
      BY <2>1, <2>3
    <3> QED BY <1>2, <2>2, <2>3, <3>1, Zenon DEF top
  <2>4. CASE ~(top <= k)
    <3>1. h[top] = g[top - k]
      BY <2>1, <2>4
    <3> QED BY <2>1, <3>1, Zenon DEF top
  <2> QED BY <2>3, <2>4
<1> HIDE DEF h
<1>9. Sums(h, filled)
  BY <1>4, <1>6, <1>7 DEF Sums
<1>10. Number(filled) = h[k + len]
  BY <1>4, <1>9, NumberIsSum
<1> QED BY <1>3, <1>8, <1>10

\* The digits of a number stand for it.
LEMMA NumberOfDigits ==
  \A n \in Nat : Number(Digits[n]) = n
<1> DEFINE Bad == {n \in Nat : Number(Digits[n]) # n}
<1> SUFFICES ASSUME Bad # {} PROVE FALSE
  OBVIOUS
<1>1. PICK n \in Bad : \A m \in Bad : n <= m
  <2>1. Bad \in SUBSET Nat
    OBVIOUS
  <2> HIDE DEF Bad
  <2> QED BY <2>1, LeastElement
<1>2. n \in Nat /\ Number(Digits[n]) # n /\ Digits[n] = DigitsOf(Digits, n)
  BY <1>1, DigitsDefined
<1>3. CASE n < 10
  <2>1. Digits[n] = <<n>> /\ n \in 0..9
    BY <1>2, <1>3 DEF DigitsOf
  <2>2. Sums([i \in 0..1 |-> IF i = 0 THEN 0 ELSE n], <<n>>)
    BY <2>1 DEF Sums
  <2>3. <<n>> \in Seq(0..9) /\ Len(<<n>>) = 1
    BY <2>1
  <2>4. Number(<<n>>) = [i \in 0..1 |-> IF i = 0 THEN 0 ELSE n][1]
    BY <2>2, <2>3, NumberIsSum
  <2> QED BY <1>2, <2>1, <2>4
<1>4. CASE ~(n < 10)
  <2> DEFINE m == n \div 10
             d == n % 10
  <2>1. m \in Nat /\ d \in 0..9 /\ ~(n <= m) /\ n = 10 * m + d
    BY <1>2, <1>4, LastDigit
  <2>2. Digits[n] = Append(Digits[m], d)
    BY <1>2, <1>4 DEF DigitsOf
  <2>3. Number(Digits[m]) = m
    BY <1>1, <2>1
  <2>4. Digits[m] \in Seq(0..9)
    BY <2>1, DigitsDefined
  <2> HIDE DEF m, d
  <2>5. Number(Append(Digits[m], d)) = 10 * m + d
    BY <2>1, <2>3, <2>4, NumberOfAppend
  <2> QED BY <1>2, <2>1, <2>2, <2>5
<1> QED BY <1>3, <1>4

\* Every number below limit has at most k digits.
AtMost(limit, k) == \A m \in Nat : m < limit => Len(Digits[m]) <= k

\* Ten times the limit takes one more digit.
LEMMA OneMoreDigit ==
  ASSUME NEW limit \in Nat, NEW k \in Nat \ {0}, AtMost(limit, k)
  PROVE  AtMost(10 * limit, k + 1)
<1> SUFFICES ASSUME NEW m \in Nat, m < 10 * limit
             PROVE  Len(Digits[m]) <= k + 1
  BY DEF AtMost
<1>1. Digits[m] = DigitsOf(Digits, m)
  BY DigitsDefined
<1>2. CASE m < 10
  <2>1. Digits[m] = <<m>> /\ Len(<<m>>) = 1
    BY <1>1, <1>2 DEF DigitsOf
  <2> QED BY <2>1
<1>3. CASE ~(m < 10)
  <2> DEFINE j == m \div 10
  <2>1. j \in Nat /\ m % 10 \in 0..9 /\ j < limit
    BY LastDigit
  <2>2. Digits[m] = Append(Digits[j], m % 10)
    BY <1>1, <1>3 DEF DigitsOf
  <2>3. Digits[j] \in Seq(0..9) /\ Len(Digits[j]) <= k
    BY <2>1, DigitsDefined DEF AtMost
  <2>4. /\ Len(Append(Digits[j], m % 10)) = Len(Digits[j]) + 1
        /\ Len(Digits[j]) \in Nat
    BY <2>1, <2>3, AppendProperties
  <2> QED BY <2>2, <2>3, <2>4
<1> QED BY <1>2, <1>3

\* A number below 10^8 has at most eight digits.
LEMMA EightDigits == AtMost(10^8, 8)
<1>1. AtMost(10, 1)
  <2> SUFFICES ASSUME NEW m \in Nat, m < 10 PROVE Len(Digits[m]) <= 1
    BY DEF AtMost
  <2>1. Digits[m] = <<m>>
    BY DigitsDefined DEF DigitsOf
  <2> QED BY <2>1
<1>2. AtMost(10 * 10, 1 + 1)
  BY <1>1, OneMoreDigit
<1>3. AtMost(10 * 100, 2 + 1)
  BY <1>2, OneMoreDigit, SMT
<1>4. AtMost(10 * 1000, 3 + 1)
  BY <1>3, OneMoreDigit, SMT
<1>5. AtMost(10 * 10000, 4 + 1)
  BY <1>4, OneMoreDigit, SMT
<1>6. AtMost(10 * 100000, 5 + 1)
  BY <1>5, OneMoreDigit, SMT
<1>7. AtMost(10 * 1000000, 6 + 1)
  BY <1>6, OneMoreDigit, SMT
<1>8. AtMost(10 * 10000000, 7 + 1)
  BY <1>7, OneMoreDigit, SMT
<1> QED BY <1>8, SMT

-----------------------------------------------------------------------------
(* Padding. *)

\* A sequence of at most length digits gets zeros in front.
LEMMA PadLength ==
  ASSUME NEW id \in Seq(0..9), NEW length \in Nat, NEW l \in 0..length
  PROVE  l = Len(id) =>
           /\ Pad(id, length, 0) \in Seq(0..9)
           /\ Len(Pad(id, length, 0)) = length
           /\ \A i \in 1..(length - l) : Pad(id, length, 0)[i] = 0
           /\ \A i \in 1..l : Pad(id, length, 0)[length - l + i] = id[i]
<1> DEFINE n == length - l
           zeros == [i \in 1..n |-> 0]
<1>1. n \in Nat /\ length - l = n /\ n + l = length /\ l \in Nat
  OBVIOUS
<1> HAVE l = Len(id)
<1>2. CASE l = length
  <2>1. Pad(id, length, 0) = SubSeq(id, 1, length)
    BY <1>2 DEF Pad
  <2>2. SubSeq(id, 1, length) = id
    BY <1>2, SubSeqFull
  <2>3. \A i \in 1..length : length - length + i = i
    OBVIOUS
  <2>4. 1..(length - length) = {}
    OBVIOUS
  <2> QED BY <1>2, <2>1, <2>2, <2>3, <2>4
<1>3. CASE l # length
  <2>1. Pad(id, length, 0) = zeros \o id
    <3>1. ~(l >= length)
      BY <1>3
    <3> QED BY <3>1 DEF Pad
  <2>2. zeros \in [1..n -> 0..9]
    OBVIOUS
  <2>3. zeros \in Seq(0..9)
    BY <1>1, <2>2, SeqDef
  <2>4. Len(zeros) = n
    <3>1. DOMAIN zeros = 1..Len(zeros) /\ Len(zeros) \in Nat
      BY <2>3, LenProperties
    <3>2. DOMAIN zeros = 1..n
      OBVIOUS
    <3> DEFINE k == Len(zeros)
    <3>3. k \in Nat /\ 1..k = 1..n
      BY <3>1, <3>2
    <3> HIDE DEF k, n
    <3>4. k = n
      BY <1>1, <3>3
    <3> QED BY <3>4 DEF k
  <2>5. \A i \in 1..n : zeros[i] = 0
    OBVIOUS
  <2> HIDE DEF zeros, n
  <2>6. /\ zeros \o id \in Seq(0..9)
        /\ Len(zeros \o id) = n + l
        /\ \A i \in 1..(n + l) : (zeros \o id)[i] =
             IF i <= n THEN zeros[i] ELSE id[i - n]
    BY <2>3, <2>4, ConcatProperties
  <2> DEFINE whole == zeros \o id
  <2>6a. \A i \in 1..(n + l) : whole[i] = IF i <= n THEN zeros[i] ELSE id[i - n]
    BY <2>6
  <2> HIDE DEF whole
  <2>7. ASSUME NEW i \in 1..l
        PROVE  whole[n + i] = id[i]
    <3> DEFINE j == n + i
    <3>1. j \in 1..(n + l) /\ ~(j <= n) /\ j - n = i
      BY <1>1
    <3> HIDE DEF j
    <3>2. whole[j] = IF j <= n THEN zeros[j] ELSE id[j - n]
      BY <2>6a, <3>1
    <3>3. whole[j] = id[j - n]
      BY <3>1, <3>2, Zenon
    <3> QED BY <3>1, <3>3, Zenon DEF j
  <2>8. ASSUME NEW i \in 1..n
        PROVE  whole[i] = 0
    <3>1. i \in 1..(n + l) /\ i <= n
      BY <1>1
    <3> QED BY <2>5, <2>6a, <3>1
  <2> QED BY <1>1, <2>1, <2>6, <2>7, <2>8 DEF whole
<1> QED BY <1>2, <1>3

\* An identifier padded to the length of field 90 is found again.
LEMMA PadIsUndone ==
  ASSUME NEW id \in Seq(0..9), Len(id) <= 11, id # <<>> => id[1] # 0
  PROVE  StripZeros(Pad(id, 11, 0)) = id
<1> DEFINE padded == Pad(id, 11, 0)
           l == Len(id)
           n == 11 - l
           rest == SubSeq(padded, n + 1, 11)
<1>1. id \in Seq(0..9) /\ l <= 11 /\ (id # <<>> => id[1] # 0)
  OBVIOUS
<1>2. l \in Nat /\ (l = 0 => id = <<>>)
  BY <1>1, LenProperties, EmptySeq
<1>3. l = Len(id)
  OBVIOUS
<1> HIDE DEF l
<1>4. l \in 0..11 /\ (l # 0 => id[1] # 0)
  <2>1. l \in 0..11
    BY <1>1, <1>2
  <2>2. l # 0 => id # <<>>
    BY <1>3, EmptySeq
  <2> QED BY <1>1, <2>1, <2>2
<1>5. n \in 0..11 /\ n = 11 - l
  BY <1>4
<1>6. /\ padded \in Seq(0..9) /\ Len(padded) = 11
      /\ \A i \in 1..n : padded[i] = 0
      /\ \A i \in 1..l : padded[n + i] = id[i]
  <2> HIDE DEF n, padded
  <2>1. /\ padded \in Seq(0..9) /\ Len(padded) = 11
        /\ \A i \in 1..(11 - l) : padded[i] = 0
        /\ \A i \in 1..l : padded[11 - l + i] = id[i]
    <3>1. id \in Seq(0..9) /\ 11 \in Nat /\ l \in 0..11 /\ l = Len(id)
      BY <1>1, <1>3, <1>4
    <3>2. /\ Pad(id, 11, 0) \in Seq(0..9) /\ Len(Pad(id, 11, 0)) = 11
          /\ \A i \in 1..(11 - l) : Pad(id, 11, 0)[i] = 0
          /\ \A i \in 1..l : Pad(id, 11, 0)[11 - l + i] = id[i]
      BY <3>1, PadLength, Zenon
    <3> QED BY <3>2, Zenon DEF padded
  <2> QED BY <1>5, <2>1
<1> HIDE DEF padded, n
<1>7. DOMAIN padded = 1..11
  BY <1>6, LenProperties
<1>8. LeadingZeros(padded) = 1..n
  <2>1. LeadingZeros(padded) = {i \in 1..11 : \A j \in 1..i : padded[j] = 0}
    BY <1>7 DEF LeadingZeros
  <2>2. ASSUME NEW i \in 1..n PROVE i \in LeadingZeros(padded)
    <3>1. i \in 1..11 /\ \A j \in 1..i : j \in 1..n
      BY <1>5
    <3> QED BY <1>6, <2>1, <3>1
  <2>3. ASSUME NEW i \in LeadingZeros(padded) PROVE i \in 1..n
    <3>1. i \in 1..11 /\ \A j \in 1..i : padded[j] = 0
      BY <2>1
    <3>2. SUFFICES ASSUME i > n PROVE FALSE
      BY <1>5, <3>1
    <3>3. n + 1 \in 1..i /\ 1 \in 1..l /\ l # 0
      BY <1>4, <1>5, <3>1, <3>2
    <3>4. padded[n + 1] = id[1]
      BY <1>6, <3>3
    <3> QED BY <1>4, <3>1, <3>3, <3>4
  <2> QED BY <2>2, <2>3
<1>9. StripZeros(padded) = rest
  <2>1. n \in Int /\ 1 \in Int /\ (IF 1 > n THEN 0 ELSE n - 1 + 1) = n
    BY <1>5
  <2>2. Cardinality(1..n) = IF 1 > n THEN 0 ELSE n - 1 + 1
    BY <2>1, FS_Interval
  <2> DEFINE c == Cardinality(1..n)
  <2>3. c = IF 1 > n THEN 0 ELSE n - 1 + 1
    BY <2>2
  <2> HIDE DEF c
  <2>4. c = n
    BY <2>1, <2>3
  <2> QED BY <1>6, <1>8, <2>4 DEF StripZeros, c
<1>10. n + 1 \in Int /\ 11 \in Int /\ \A i \in (n + 1)..11 : padded[i] \in 0..9
  <2>1. ASSUME NEW i \in (n + 1)..11 PROVE padded[i] \in 0..9
    <3>1. i \in 1..11
      BY <1>5
    <3> QED BY <1>6, <3>1, ElementOfSeq
  <2> QED BY <1>5, <2>1
<1>11. /\ rest \in Seq(0..9)
       /\ Len(rest) = IF n + 1 <= 11 THEN 11 - (n + 1) + 1 ELSE 0
       /\ \A i \in 1..(11 - (n + 1) + 1) : rest[i] = padded[n + 1 + i - 1]
  BY <1>10, SubSeqProperties
<1>12. (IF n + 1 <= 11 THEN 11 - (n + 1) + 1 ELSE 0) = l /\ 11 - (n + 1) + 1 = l
  BY <1>4, <1>5
<1> HIDE DEF rest
<1>13. ASSUME NEW i \in 1..l PROVE rest[i] = id[i]
  <2>1. n + 1 + i - 1 = n + i
    BY <1>5
  <2> QED BY <1>6, <1>11, <1>12, <2>1
<1>14. rest = id
  BY <1>1, <1>3, <1>11, <1>12, <1>13, SeqEqual
<1> QED BY <1>9, <1>14 DEF padded

-----------------------------------------------------------------------------
(* Fees. *)

\* Field 30 has eight digits, and they are those of the fees.
LEMMA FeeFieldShows ==
  ASSUME NEW n \in Nat, Len(Digits[n]) <= 8
  PROVE  /\ FeeField(n) \in Seq(0..9)
         /\ Len(FeeField(n)) = 8
         /\ Number(FeeField(n)) = n
<1> DEFINE s == Digits[n]
           l == Len(s)
           filled == Pad(s, 8, 0)
<1>1. s \in Seq(0..9) /\ l \in Nat /\ l <= 8 /\ l = Len(s)
  BY DigitsDefined
<1>2. Number(s) = n
  BY NumberOfDigits
<1>3. FeeField(n) = filled
  BY DEF FeeField
<1> HIDE DEF s, l, filled
<1>4. l \in 0..8 /\ 8 - l \in Nat /\ 8 - l + l = 8
  <2>1. \A k \in Nat : k <= 8 => k \in 0..8 /\ 8 - k \in Nat /\ 8 - k + k = 8
    OBVIOUS
  <2> QED BY <1>1, <2>1, Zenon
<1>5. /\ filled \in Seq(0..9) /\ Len(filled) = 8
      /\ \A i \in 1..(8 - l) : filled[i] = 0
      /\ \A i \in 1..l : filled[8 - l + i] = s[i]
  <2>1. s \in Seq(0..9) /\ 8 \in Nat /\ l \in 0..8 /\ l = Len(s)
    BY <1>1, <1>4
  <2>2. /\ Pad(s, 8, 0) \in Seq(0..9) /\ Len(Pad(s, 8, 0)) = 8
        /\ \A i \in 1..(8 - l) : Pad(s, 8, 0)[i] = 0
        /\ \A i \in 1..l : Pad(s, 8, 0)[8 - l + i] = s[i]
    BY <2>1, PadLength, Zenon
  <2> QED BY <2>2, Zenon DEF filled
<1>6. Number(filled) = Number(s)
  <2> DEFINE k == 8 - l
  <2>1. /\ k \in Nat /\ Len(filled) = k + Len(s)
        /\ \A i \in 1..k : filled[i] = 0
        /\ \A i \in 1..Len(s) : filled[k + i] = s[i]
    BY <1>1, <1>4, <1>5
  <2> HIDE DEF k
  <2> QED BY <1>1, <1>5, <2>1, NumberOfZeros
<1> QED BY <1>2, <1>3, <1>5, <1>6
=============================================================================
