-------------------------- MODULE ExpireTilesProofs --------------------------
(***************************************************************************)
(* The proof that the boxes of an expire list cover what survives the      *)
(* filters, for every list of tiles.                                       *)
(*                                                                         *)
(* The definitions recur over numbers.  That such a function exists, and   *)
(* what it computes, is shown by the least number for which it would fail: *)
(* "less than" is well-founded on the natural numbers.                     *)
(***************************************************************************)
EXTENDS ExpireTiles, TLAPS, FiniteSetTheorems, FunctionTheorems, SequenceTheorems,
        WellFoundedInduction

--------------------------------------------------------------------------------
(* Numbers.                                                                *)

\* A set of natural numbers has a least element.
LEMMA Least ==
  ASSUME NEW T, T \subseteq Nat, T # {}
  PROVE  \E m \in T : \A n \in T : n >= m
<1>1. PICK m \in T : \A n \in T : <<n, m>> \notin OpToRel(<, Nat)
  BY WFMin, NatLessThanWellFounded, Zenon
<1>2. ASSUME NEW n \in T PROVE n >= m
  <2>1. <<n, m>> \in {p \in Nat \X Nat : p[1] < p[2]} <=> n < m
    OBVIOUS
  <2>2. ~(n < m)
    BY <1>1, <2>1, Zenon DEF OpToRel
  <2> QED
    BY <2>2
<1> QED
  BY <1>2

\* What holds of zero, and of a number when it holds of the one before, holds up to n.
LEMMA UpTo ==
  ASSUME NEW n \in Nat, NEW T, 0 \in T, \A k \in 1 .. n : k - 1 \in T => k \in T
  PROVE  n \in T
<1> SUFFICES ASSUME n \notin T PROVE FALSE
  OBVIOUS
<1> DEFINE Fails == {k \in 0 .. n : k \notin T}
<1>1. PICK m \in Fails : \A k \in Fails : k >= m
  <2>1. Fails \subseteq Nat /\ n \in Fails
    OBVIOUS
  <2> QED
    BY <2>1, Least
<1> QED
  BY <1>1

\* The order of products with a common factor.
LEMMA Products ==
  ASSUME NEW a \in Int, NEW b \in Int, NEW s \in Nat \ {0}
  PROVE  /\ a * s \in Int
         /\ (a + 1) * s = a * s + s
         /\ a <= b => a * s <= b * s
         /\ a < b => (a + 1) * s <= b * s
  OBVIOUS

\* The scale of a zoom is that of the next one doubled.
LEMMA Scales ==
  \A z \in 0 .. FinestZoom : Scale[z] = IF z = FinestZoom THEN 1 ELSE 2 * Scale[z + 1]
<1> DEFINE Def(f, z) == IF z = FinestZoom THEN 1 ELSE 2 * f[z + 1]
           Exists == {n \in 0 .. FinestZoom :
                       \E f : f = [z \in FinestZoom - n .. FinestZoom |-> Def(f, z)]}
<1>1. 0 \in Exists
  <2> DEFINE g == [z \in FinestZoom - 0 .. FinestZoom |-> 1]
  <2>1. g = [z \in FinestZoom - 0 .. FinestZoom |-> Def(g, z)]
    BY ZoomAssumption
  <2> HIDE DEF g
  <2>2. \E f : f = [z \in FinestZoom - 0 .. FinestZoom |-> Def(f, z)]
    BY <2>1
  <2> QED
    BY <2>2, ZoomAssumption
<1>2. ASSUME NEW n \in 1 .. FinestZoom, n - 1 \in Exists PROVE n \in Exists
  <2>1. PICK f : f = [z \in FinestZoom - (n - 1) .. FinestZoom |-> Def(f, z)]
    BY <1>2
  <2> DEFINE g == [z \in FinestZoom - n .. FinestZoom |->
                    IF z = FinestZoom - n THEN Def(f, z) ELSE f[z]]
  <2>2. ASSUME NEW z \in FinestZoom - n .. FinestZoom PROVE g[z] = Def(g, z)
    BY <2>1, ZoomAssumption
  <2>3. g = [z \in FinestZoom - n .. FinestZoom |-> g[z]]
    OBVIOUS
  <2> HIDE DEF g
  <2>4. g = [z \in FinestZoom - n .. FinestZoom |-> Def(g, z)]
    BY <2>2, <2>3
  <2>5. \E h : h = [z \in FinestZoom - n .. FinestZoom |-> Def(h, z)]
    BY <2>4
  <2> QED
    BY <2>5, ZoomAssumption
<1>3. FinestZoom \in Exists
  BY <1>1, <1>2, UpTo, ZoomAssumption
<1>4. \E f : f = [z \in 0 .. FinestZoom |-> Def(f, z)]
  BY <1>3, ZoomAssumption
<1>5. Scale = [z \in 0 .. FinestZoom |-> Def(Scale, z)]
  BY <1>4 DEF Scale
<1> QED
  BY <1>5

\* No scale is zero.
LEMMA ScaleType == \A z \in 0 .. FinestZoom : Scale[z] \in Nat \ {0}
<1> DEFINE T == {n \in 0 .. FinestZoom : Scale[FinestZoom - n] \in Nat \ {0}}
<1>1. 0 \in T
  BY Scales, ZoomAssumption
<1>2. ASSUME NEW n \in 1 .. FinestZoom, n - 1 \in T PROVE n \in T
  <2>1. /\ Scale[FinestZoom - n] = 2 * Scale[FinestZoom - n + 1]
        /\ FinestZoom - n + 1 = FinestZoom - (n - 1)
    BY Scales, ZoomAssumption
  <2> QED
    BY <1>2, <2>1
<1>3. \A n \in 0 .. FinestZoom : n \in T
  <2> SUFFICES ASSUME NEW n \in 0 .. FinestZoom PROVE n \in T
    OBVIOUS
  <2>1. n \in Nat /\ \A k \in 1 .. n : k - 1 \in T => k \in T
    BY <1>2, ZoomAssumption
  <2> HIDE DEF T
  <2> QED
    BY <1>1, <2>1, UpTo
<1>4. ASSUME NEW z \in 0 .. FinestZoom PROVE Scale[z] \in Nat \ {0}
  <2>1. FinestZoom - z \in T /\ FinestZoom - (FinestZoom - z) = z
    BY <1>3, ZoomAssumption
  <2> QED
    BY <2>1
<1> QED
  BY <1>4

--------------------------------------------------------------------------------
(* Numerals.                                                               *)

\* Division by ten.
LEMMA Tenths ==
  ASSUME NEW k \in Nat, k >= 10
  PROVE  /\ k \div 10 \in 1 .. k - 1
         /\ k % 10 \in 0 .. 9
         /\ k = 10 * (k \div 10) + (k % 10)
  OBVIOUS

\* The function of Numeral: one digit, or that of a tenth and one more digit.
NumeralStep(f, k) == IF k < 10 THEN <<k>> ELSE Append(f[k \div 10], k % 10)

\* Numeral(n) is computed by a function of the numbers up to n.
LEMMA NumeralFunction ==
  ASSUME NEW n \in Nat
  PROVE  \E f : (\A k \in 0 .. n : f[k] = NumeralStep(f, k)) /\ Numeral(n) = f[n]
<1> DEFINE Exists == {m \in 0 .. n : \E f : f = [k \in 0 .. m |-> NumeralStep(f, k)]}
<1>1. 0 \in Exists
  <2> DEFINE g == [k \in 0 .. 0 |-> <<0>>]
  <2>1. g = [k \in 0 .. 0 |-> NumeralStep(g, k)]
    BY DEF NumeralStep
  <2> HIDE DEF g
  <2>2. \E f : f = [k \in 0 .. 0 |-> NumeralStep(f, k)]
    BY <2>1
  <2> QED
    BY <2>2
<1>2. ASSUME NEW m \in 1 .. n, m - 1 \in Exists PROVE m \in Exists
  <2>1. PICK f : f = [k \in 0 .. m - 1 |-> NumeralStep(f, k)]
    BY <1>2
  <2> DEFINE g == [k \in 0 .. m |-> IF k = m THEN NumeralStep(f, k) ELSE f[k]]
  <2>2. ASSUME NEW k \in 0 .. m PROVE g[k] = NumeralStep(g, k)
    <3>1. k < 10 \/ k \div 10 \in 0 .. k - 1
      BY Tenths
    <3>2. g[k] = NumeralStep(f, k)
      BY <2>1
    <3> QED
      BY <3>1, <3>2 DEF NumeralStep
  <2>3. g = [k \in 0 .. m |-> g[k]]
    OBVIOUS
  <2> HIDE DEF g
  <2>4. g = [k \in 0 .. m |-> NumeralStep(g, k)]
    BY <2>2, <2>3
  <2>5. \E h : h = [k \in 0 .. m |-> NumeralStep(h, k)]
    BY <2>4
  <2> QED
    BY <2>5
<1>3. n \in Exists
  <2> HIDE DEF Exists
  <2> QED
    BY <1>1, <1>2, UpTo
<1>4. \E f : f = [k \in 0 .. n |-> NumeralStep(f, k)]
  BY <1>3
<1> DEFINE digits == CHOOSE f : f = [k \in 0 .. n |-> NumeralStep(f, k)]
<1>5. digits = [k \in 0 .. n |-> NumeralStep(digits, k)]
  BY <1>4
<1>6. Numeral(n) = digits[n]
  BY DEF Numeral, NumeralStep
<1> HIDE DEF digits
<1>7. \A k \in 0 .. n : digits[k] = NumeralStep(digits, k)
  BY <1>5
<1> QED
  BY <1>6, <1>7

\* A numeral is one digit, or the numeral of a tenth and one more digit.
LEMMA NumeralDef ==
  ASSUME NEW n \in Nat
  PROVE  /\ n < 10 => Numeral(n) = <<n>>
         /\ n >= 10 => Numeral(n) = Append(Numeral(n \div 10), n % 10)
<1>1. PICK f : (\A k \in 0 .. n : f[k] = NumeralStep(f, k)) /\ Numeral(n) = f[n]
  BY NumeralFunction
<1>2. CASE n < 10
  <2>1. f[n] = NumeralStep(f, n) /\ ~(n >= 10)
    BY <1>1, <1>2
  <2> QED
    BY <1>1, <1>2, <2>1, Zenon DEF NumeralStep
<1>3. CASE n >= 10
  <2> DEFINE q == n \div 10
  <2>1. q \in 1 .. n - 1
    BY <1>3, Tenths
  <2> HIDE DEF q
  <2>2. PICK g : (\A k \in 0 .. q : g[k] = NumeralStep(g, k)) /\ Numeral(q) = g[q]
    BY <2>1, NumeralFunction
  <2> DEFINE Fails == {k \in 0 .. q : f[k] # g[k]}
  <2>3. Fails = {}
    <3> SUFFICES ASSUME Fails # {} PROVE FALSE
      OBVIOUS
    <3>1. PICK k \in Fails : \A l \in Fails : l >= k
      <4>1. Fails \subseteq Nat
        BY <2>1
      <4> QED
        BY <4>1, Least
    <3>2. f[k] = NumeralStep(f, k) /\ g[k] = NumeralStep(g, k)
      BY <1>1, <2>2, <2>1
    <3>3. k < 10 \/ k \div 10 \in 0 .. k - 1
      BY <2>1, Tenths
    <3>4. k < 10 \/ f[k \div 10] = g[k \div 10]
      BY <3>1, <3>3, <2>1
    <3> QED
      BY <3>2, <3>4, <3>1 DEF NumeralStep
  <2>4. f[q] = Numeral(q)
    BY <2>1, <2>2, <2>3
  <2>5. f[n] = NumeralStep(f, n) /\ ~(n < 10)
    BY <1>1, <1>3
  <2>6. f[n] = Append(f[q], n % 10)
    BY <2>5, Zenon DEF NumeralStep, q
  <2> QED
    BY <1>1, <2>5, <2>4, <2>6, Zenon DEF q
<1> QED
  BY <1>2, <1>3

\* A numeral is a sequence of digits, and not empty.
LEMMA NumeralType ==
  ASSUME NEW n \in Nat
  PROVE  Numeral(n) \in Seq(0 .. 9) /\ Len(Numeral(n)) >= 1
<1> DEFINE Good(k) == Numeral(k) \in Seq(0 .. 9) /\ Len(Numeral(k)) >= 1
           Fails == {k \in Nat : ~Good(k)}
<1> SUFFICES ASSUME Fails # {} PROVE FALSE
  OBVIOUS
<1>1. PICK k \in Fails : \A l \in Fails : l >= k
  BY Least
<1>2. k \in Nat /\ ~Good(k) /\ \A l \in 0 .. k - 1 : Good(l)
  <2> HIDE DEF Good
  <2> QED
    BY <1>1
<1> HIDE DEF Fails
<1>3. CASE k < 10
  <2>1. Numeral(k) = <<k>> /\ k \in 0 .. 9
    BY <1>2, <1>3, NumeralDef
  <2>2. <<k>> \in Seq(0 .. 9) /\ Len(<<k>>) = 1
    BY <2>1
  <2> QED
    BY <1>2, <2>1, <2>2
<1>4. CASE k >= 10
  <2> DEFINE q == k \div 10
  <2>1. q \in 1 .. k - 1 /\ k % 10 \in 0 .. 9
    BY <1>2, <1>4, Tenths
  <2>2. Numeral(k) = Append(Numeral(q), k % 10)
    BY <1>2, <1>4, NumeralDef
  <2> HIDE DEF q
  <2>3. Numeral(q) \in Seq(0 .. 9) /\ Len(Numeral(q)) >= 1
    BY <1>2, <2>1
  <2>4. /\ Append(Numeral(q), k % 10) \in Seq(0 .. 9)
        /\ Len(Append(Numeral(q), k % 10)) = Len(Numeral(q)) + 1
    BY <2>1, <2>3
  <2>5. Len(Numeral(q)) \in Nat
    BY <2>3
  <2> QED
    BY <1>2, <2>2, <2>3, <2>4, <2>5
<1> QED
  BY <1>2, <1>3, <1>4

\* The numerals of a number with more than one digit.
LEMMA LongNumeral ==
  ASSUME NEW n \in Nat, n >= 10
  PROVE  LET q == n \div 10
         IN  /\ q \in 1 .. n - 1
             /\ n = 10 * q + (n % 10)
             /\ n % 10 \in 0 .. 9
             /\ Numeral(q) \in Seq(0 .. 9)
             /\ Len(Numeral(n)) = Len(Numeral(q)) + 1
             /\ \A i \in 1 .. Len(Numeral(q)) : Numeral(n)[i] = Numeral(q)[i]
             /\ Numeral(n)[Len(Numeral(q)) + 1] = n % 10
<1> DEFINE q == n \div 10
           r == n % 10
<1>1. q \in 1 .. n - 1 /\ n = 10 * q + r /\ r \in 0 .. 9
  BY Tenths
<1>2. Numeral(n) = Append(Numeral(q), r)
  BY NumeralDef
<1> HIDE DEF q, r
<1>3. Numeral(q) \in Seq(0 .. 9)
  BY <1>1, NumeralType
<1> DEFINE t == Numeral(q)
<1>4. t \in Seq(0 .. 9) /\ Numeral(n) = Append(t, r)
  BY <1>2, <1>3
<1> HIDE DEF t
<1>5. /\ Len(Numeral(n)) = Len(t) + 1
      /\ \A i \in 1 .. Len(t) : Numeral(n)[i] = t[i]
      /\ Numeral(n)[Len(t) + 1] = r
  BY <1>4, <1>1
<1> QED
  BY <1>1, <1>4, <1>5 DEF q, r, t

\* Of two numerals of one length, that of the smaller number has the smaller digit
\* where they first differ.
LEMMA SmallerNumeral ==
  ASSUME NEW k \in Nat, NEW n \in Nat, k < n, Len(Numeral(k)) = Len(Numeral(n))
  PROVE  \E i \in 1 .. Len(Numeral(k)) :
           /\ \A j \in 1 .. i - 1 : Numeral(k)[j] = Numeral(n)[j]
           /\ Numeral(k)[i] < Numeral(n)[i]
<1> DEFINE Smaller(a, b) ==
             \E i \in 1 .. Len(Numeral(a)) :
               /\ \A j \in 1 .. i - 1 : Numeral(a)[j] = Numeral(b)[j]
               /\ Numeral(a)[i] < Numeral(b)[i]
           Good(b) == \A a \in Nat :
                        (a < b /\ Len(Numeral(a)) = Len(Numeral(b))) => Smaller(a, b)
           Fails == {b \in Nat : ~Good(b)}
<1> SUFFICES ASSUME Fails # {} PROVE FALSE
  OBVIOUS
<1>1. PICK b \in Fails : \A l \in Fails : l >= b
  BY Least
<1>2. b \in Nat /\ ~Good(b) /\ \A l \in 0 .. b - 1 : Good(l)
  <2> HIDE DEF Good
  <2> QED
    BY <1>1
<1> HIDE DEF Fails
<1>3. PICK a \in Nat : a < b /\ Len(Numeral(a)) = Len(Numeral(b)) /\ ~Smaller(a, b)
  <2> HIDE DEF Smaller
  <2> QED
    BY <1>2
<1>4. CASE b < 10
  <2>1. Numeral(a) = <<a>> /\ Numeral(b) = <<b>>
    <3>1. a < 10
      BY <1>2, <1>3, <1>4
    <3> QED
      BY <3>1, <1>2, <1>4, NumeralDef
  <2>2. Len(Numeral(a)) = 1 /\ Numeral(a)[1] = a /\ Numeral(b)[1] = b
    BY <2>1
  <2>3. Smaller(a, b)
    BY <1>3, <2>2
  <2> QED
    BY <1>3, <2>3
<1>5. CASE b >= 10
  <2> DEFINE q == b \div 10
             p == a \div 10
  <2>1. /\ q \in 1 .. b - 1 /\ b = 10 * q + (b % 10) /\ b % 10 \in 0 .. 9
        /\ Len(Numeral(b)) = Len(Numeral(q)) + 1
        /\ \A i \in 1 .. Len(Numeral(q)) : Numeral(b)[i] = Numeral(q)[i]
        /\ Numeral(b)[Len(Numeral(q)) + 1] = b % 10
    BY <1>2, <1>5, LongNumeral
  <2>2. Len(Numeral(q)) \in Nat /\ Len(Numeral(q)) >= 1
    <3>1. q \in Nat
      BY <2>1
    <3> HIDE DEF q
    <3>2. Numeral(q) \in Seq(0 .. 9) /\ Len(Numeral(q)) >= 1
      BY <3>1, NumeralType
    <3> DEFINE t == Numeral(q)
    <3> HIDE DEF t
    <3>3. t \in Seq(0 .. 9) /\ Len(t) >= 1
      BY <3>2 DEF t
    <3>4. Len(t) \in Nat
      BY <3>3
    <3> QED
      BY <3>3, <3>4 DEF t
  <2>3. a >= 10
    <3> SUFFICES ASSUME a < 10 PROVE FALSE
      BY <1>3
    <3>1. Numeral(a) = <<a>>
      BY NumeralDef
    <3>2. Len(Numeral(a)) = 1
      BY <3>1
    <3> QED
      BY <3>2, <2>1, <2>2, <1>3
  <2>4. /\ p \in 1 .. a - 1 /\ a = 10 * p + (a % 10) /\ a % 10 \in 0 .. 9
        /\ Numeral(p) \in Seq(0 .. 9)
        /\ Len(Numeral(a)) = Len(Numeral(p)) + 1
        /\ \A i \in 1 .. Len(Numeral(p)) : Numeral(a)[i] = Numeral(p)[i]
        /\ Numeral(a)[Len(Numeral(p)) + 1] = a % 10
    BY <1>3, <2>3, LongNumeral
  <2> HIDE DEF p, q, Good
  <2> DEFINE ra == a % 10
             rb == b % 10
  <2>5. /\ p \in Nat /\ q \in Nat /\ ra \in 0 .. 9 /\ rb \in 0 .. 9
        /\ a = 10 * p + ra /\ b = 10 * q + rb /\ q < b
        /\ Numeral(a)[Len(Numeral(p)) + 1] = ra
        /\ Numeral(b)[Len(Numeral(q)) + 1] = rb
    <3> HIDE DEF ra, rb
    <3>1. ra = a % 10 /\ rb = b % 10
      BY DEF ra, rb
    <3> QED
      BY <3>1, <2>1, <2>4, <1>2, <1>3
  <2> HIDE DEF ra, rb
  <2>6. Len(Numeral(p)) = Len(Numeral(q)) /\ Len(Numeral(p)) \in Nat
    BY <2>1, <2>2, <2>4, <1>3
  <2>7. CASE p = q
    <3> DEFINE i == Len(Numeral(p)) + 1
    <3>1. Numeral(a)[i] = ra /\ Numeral(b)[i] = rb
      BY <2>5, <2>7
    <3>2. ra < rb
      BY <2>7, <2>5, <1>3
    <3>3. \A j \in 1 .. i - 1 : Numeral(a)[j] = Numeral(b)[j]
      BY <2>7, <2>1, <2>4, <2>6
    <3>4. i \in 1 .. Len(Numeral(a))
      BY <2>4, <2>6
    <3>5. Numeral(a)[i] < Numeral(b)[i]
      BY <3>1, <3>2
    <3> HIDE DEF i
    <3>6. Smaller(a, b)
      BY <3>3, <3>4, <3>5
    <3> QED
      BY <1>3, <3>6
  <2>8. CASE p # q
    <3>1. p < q
      BY <2>8, <2>5, <1>3
    <3>2. Smaller(p, q)
      <4> HIDE DEF Smaller
      <4>1. Good(q)
        BY <1>2, <2>5
      <4> QED
        BY <3>1, <4>1, <2>5, <2>6 DEF Good
    <3>3. PICK i \in 1 .. Len(Numeral(p)) :
            /\ \A j \in 1 .. i - 1 : Numeral(p)[j] = Numeral(q)[j]
            /\ Numeral(p)[i] < Numeral(q)[i]
      BY <3>2
    <3>4. \A j \in 1 .. i : Numeral(a)[j] = Numeral(p)[j] /\ Numeral(b)[j] = Numeral(q)[j]
      BY <2>1, <2>4, <2>6
    <3>5. i \in 1 .. Len(Numeral(a))
      BY <2>6, <2>4
    <3>6. (\A j \in 1 .. i - 1 : Numeral(a)[j] = Numeral(b)[j]) /\ Numeral(a)[i] < Numeral(b)[i]
      BY <3>3, <3>4, <2>6
    <3>7. Smaller(a, b)
      BY <3>5, <3>6
    <3> QED
      BY <1>3, <3>7
  <2> QED
    BY <2>7, <2>8
<1> QED
  BY <1>2, <1>4, <1>5

\* Different numbers have different numerals.
LEMMA NumeralInjective ==
  ASSUME NEW k \in Nat, NEW n \in Nat, Numeral(k) = Numeral(n)
  PROVE  k = n
<1>1. ASSUME NEW a \in Nat, NEW b \in Nat, a < b PROVE Numeral(a) # Numeral(b)
  <2> SUFFICES ASSUME Numeral(a) = Numeral(b) PROVE FALSE
    OBVIOUS
  <2>1. PICK i \in 1 .. Len(Numeral(a)) : Numeral(a)[i] < Numeral(b)[i]
    BY <1>1, SmallerNumeral
  <2>2. Numeral(a)[i] \in 0 .. 9
    BY NumeralType, ElementOfSeq
  <2> QED
    BY <2>1, <2>2
<1> QED
  BY <1>1

--------------------------------------------------------------------------------
(* The order of the texts.                                                 *)

Tiles == [z : 0 .. FinestZoom, x : Nat, y : Nat]

\* Two texts joined by a slash, digit by digit.
LEMMA Joined ==
  ASSUME NEW a \in Seq(Int), NEW u \in Seq(Int)
  PROVE  /\ Join(a, u) \in Seq(Int)
         /\ Len(Join(a, u)) = Len(a) + 1 + Len(u)
         /\ \A i \in 1 .. Len(a) : Join(a, u)[i] = a[i]
         /\ Join(a, u)[Len(a) + 1] = Slash
         /\ \A i \in 1 .. Len(u) : Join(a, u)[Len(a) + 1 + i] = u[i]
<1> DEFINE v == a \o <<Slash>>
<1>1. <<Slash>> \in Seq(Int)
  BY DEF Slash
<1>2. /\ v \in Seq(Int)
      /\ Len(v) = Len(a) + 1
      /\ \A i \in 1 .. Len(a) : v[i] = a[i]
      /\ v[Len(a) + 1] = Slash
  BY <1>1
<1> HIDE DEF v
<1> DEFINE w == v \o u
<1>3. /\ w \in Seq(Int)
      /\ Len(w) = Len(v) + Len(u)
      /\ \A i \in 1 .. Len(v) + Len(u) : w[i] = IF i <= Len(v) THEN v[i] ELSE u[i - Len(v)]
  BY <1>2, ConcatProperties
<1> HIDE DEF w
<1>4. Len(a) \in Nat /\ Len(u) \in Nat
  OBVIOUS
<1>5. Len(w) = Len(a) + 1 + Len(u)
  BY <1>2, <1>3, <1>4
<1>6. (\A i \in 1 .. Len(a) : w[i] = a[i]) /\ w[Len(a) + 1] = Slash
  BY <1>2, <1>3, <1>4
<1>7. ASSUME NEW i \in 1 .. Len(u) PROVE w[Len(a) + 1 + i] = u[i]
  <2> DEFINE k == Len(a) + 1 + i
  <2>1. k \in 1 .. Len(v) + Len(u) /\ ~(k <= Len(v)) /\ k - Len(v) = i
    BY <1>2, <1>4
  <2> HIDE DEF k
  <2>2. w[k] = u[i]
    BY <1>3, <2>1
  <2> QED
    BY <2>2 DEF k
<1>8. Join(a, u) = w
  BY DEF Join, v, w
<1> QED
  BY <1>3, <1>5, <1>6, <1>7, <1>8

\* Digits are numbers.
LEMMA DigitsAreNumbers ==
  ASSUME NEW a \in Seq(0 .. 9)
  PROVE  a \in Seq(Int) /\ Len(a) \in Nat /\ \A i \in 1 .. Len(a) : a[i] \in Nat
<1>1. 0 .. 9 \subseteq Int
  OBVIOUS
<1>2. a \in Seq(Int) /\ Len(a) \in Nat
  BY <1>1, SeqMonotonic, LenProperties
<1>3. \A i \in 1 .. Len(a) : a[i] \in 0 .. 9
  BY ElementOfSeq
<1> QED
  BY <1>2, <1>3

\* The first slash is where the digits before it end.
LEMMA SplitAtSlash ==
  ASSUME NEW a \in Seq(0 .. 9), NEW b \in Seq(0 .. 9), NEW u \in Seq(Int), NEW v \in Seq(Int),
         Join(a, u) = Join(b, v)
  PROVE  a = b /\ u = v
<1>1. a \in Seq(Int) /\ b \in Seq(Int)
  BY DigitsAreNumbers
<1> DEFINE w == Join(a, u)
<1>2. /\ Len(w) = Len(a) + 1 + Len(u)
      /\ \A i \in 1 .. Len(a) : w[i] = a[i]
      /\ w[Len(a) + 1] = Slash
      /\ \A i \in 1 .. Len(u) : w[Len(a) + 1 + i] = u[i]
  BY <1>1, Joined
<1> HIDE DEF w
<1>3. /\ Len(w) = Len(b) + 1 + Len(v)
      /\ \A i \in 1 .. Len(b) : w[i] = b[i]
      /\ w[Len(b) + 1] = Slash
      /\ \A i \in 1 .. Len(v) : w[Len(b) + 1 + i] = v[i]
  <2>1. w = Join(b, v)
    BY DEF w
  <2> QED
    BY <2>1, <1>1, Joined
<1>4. Len(a) \in Nat /\ Len(b) \in Nat /\ Len(u) \in Nat /\ Len(v) \in Nat
  BY LenProperties
<1>5. (\A i \in 1 .. Len(a) : a[i] # Slash) /\ (\A i \in 1 .. Len(b) : b[i] # Slash)
  <2>1. (\A i \in 1 .. Len(a) : a[i] \in Nat) /\ (\A i \in 1 .. Len(b) : b[i] \in Nat)
    BY DigitsAreNumbers
  <2>2. \A n \in Nat : n # Slash
    BY DEF Slash
  <2> QED
    BY <2>1, <2>2
<1>6. Len(a) = Len(b)
  <2>1. CASE Len(a) < Len(b)
    <3>1. Len(a) + 1 \in 1 .. Len(b)
      BY <2>1, <1>4
    <3> QED
      BY <3>1, <1>2, <1>3, <1>5
  <2>2. CASE Len(b) < Len(a)
    <3>1. Len(b) + 1 \in 1 .. Len(a)
      BY <2>2, <1>4
    <3> QED
      BY <3>1, <1>2, <1>3, <1>5
  <2> QED
    BY <2>1, <2>2, <1>4
<1>7. a = b
  <2>1. \A i \in 1 .. Len(a) : a[i] = b[i]
    BY <1>2, <1>3, <1>6
  <2> QED
    BY <2>1, <1>1, <1>6, SeqEqual
<1>8. Len(u) = Len(v) /\ \A i \in 1 .. Len(u) : u[i] = v[i]
  BY <1>2, <1>3, <1>4, <1>6
<1>9. u = v
  BY <1>8, SeqEqual
<1> QED
  BY <1>7, <1>9

\* The text of a tile begins with the numeral of its zoom.
LEMMA TextType ==
  ASSUME NEW t \in Tiles
  PROVE  /\ Text(t) \in Seq(Int)
         /\ Len(Numeral(t.z)) \in Nat
         /\ Len(Text(t)) > Len(Numeral(t.z))
         /\ \A i \in 1 .. Len(Numeral(t.z)) : Text(t)[i] = Numeral(t.z)[i]
<1>1. t.z \in Nat /\ t.x \in Nat /\ t.y \in Nat
  BY ZoomAssumption DEF Tiles
<1> DEFINE a == Numeral(t.z)
           u == Join(Numeral(t.x), Numeral(t.y))
<1>2. a \in Seq(Int) /\ u \in Seq(Int)
  <2>1. \A s \in Seq(0 .. 9) : s \in Seq(Int)
    OBVIOUS
  <2>2. a \in Seq(Int) /\ Numeral(t.x) \in Seq(Int) /\ Numeral(t.y) \in Seq(Int)
    BY <1>1, <2>1, NumeralType
  <2> QED
    BY <2>2, Joined
<1>3. Text(t) = Join(a, u)
  BY DEF Text
<1> HIDE DEF a, u
<1>4. Len(a) \in Nat /\ Len(u) \in Nat
  BY <1>2
<1>5. /\ Text(t) \in Seq(Int)
      /\ Len(Text(t)) = Len(a) + 1 + Len(u)
      /\ \A i \in 1 .. Len(a) : Text(t)[i] = a[i]
  BY <1>2, <1>3, Joined
<1> QED
  BY <1>4, <1>5 DEF a

\* Different tiles have different texts.
LEMMA TextInjective ==
  ASSUME NEW s \in Tiles, NEW t \in Tiles, Text(s) = Text(t)
  PROVE  s = t
<1>1. /\ s.z \in Nat /\ s.x \in Nat /\ s.y \in Nat
      /\ t.z \in Nat /\ t.x \in Nat /\ t.y \in Nat
  BY ZoomAssumption DEF Tiles
<1>2. \A n \in Nat : Numeral(n) \in Seq(0 .. 9) /\ Numeral(n) \in Seq(Int)
  BY NumeralType, DigitsAreNumbers
<1>3. \A m, n \in Nat : Join(Numeral(m), Numeral(n)) \in Seq(Int)
  BY <1>2, Joined
<1> DEFINE u == Join(Numeral(s.x), Numeral(s.y))
           v == Join(Numeral(t.x), Numeral(t.y))
<1>4. Numeral(s.z) = Numeral(t.z) /\ u = v
  <2>1. u \in Seq(Int) /\ v \in Seq(Int)
    BY <1>1, <1>3
  <2>2. Join(Numeral(s.z), u) = Join(Numeral(t.z), v)
    BY DEF Text
  <2>3. Numeral(s.z) \in Seq(0 .. 9) /\ Numeral(t.z) \in Seq(0 .. 9)
    BY <1>1, <1>2
  <2> HIDE DEF u, v
  <2> QED
    BY <2>1, <2>2, <2>3, SplitAtSlash
<1>5. Numeral(s.x) = Numeral(t.x) /\ Numeral(s.y) = Numeral(t.y)
  <2>1. /\ Numeral(s.x) \in Seq(0 .. 9) /\ Numeral(t.x) \in Seq(0 .. 9)
        /\ Numeral(s.y) \in Seq(Int) /\ Numeral(t.y) \in Seq(Int)
    BY <1>1, <1>2
  <2> QED
    BY <2>1, <1>4, SplitAtSlash
<1>6. s.z = t.z /\ s.x = t.x /\ s.y = t.y
  BY <1>1, <1>4, <1>5, NumeralInjective
<1> QED
  BY <1>6 DEF Tiles

\* No text comes before itself.
LEMMA TextIrreflexive ==
  ASSUME NEW a \in Seq(Int)
  PROVE  ~TextBefore(a, a)
  BY DEF TextBefore

\* The order of the texts is transitive.
LEMMA TextTransitive ==
  ASSUME NEW a \in Seq(Int), NEW b \in Seq(Int), NEW c \in Seq(Int),
         TextBefore(a, b), TextBefore(b, c)
  PROVE  TextBefore(a, c)
<1>0. /\ Len(a) \in Nat /\ Len(b) \in Nat /\ Len(c) \in Nat
      /\ \A j \in 1 .. Len(a) : a[j] \in Int
      /\ \A j \in 1 .. Len(b) : b[j] \in Int
      /\ \A j \in 1 .. Len(c) : c[j] \in Int
  OBVIOUS
<1>1. PICK i \in 1 .. Len(b) :
        /\ \A j \in 1 .. i - 1 : j <= Len(a) /\ a[j] = b[j]
        /\ i <= Len(a) => a[i] < b[i]
  BY DEF TextBefore
<1>2. PICK k \in 1 .. Len(c) :
        /\ \A j \in 1 .. k - 1 : j <= Len(b) /\ b[j] = c[j]
        /\ k <= Len(b) => b[k] < c[k]
  BY DEF TextBefore
<1> DEFINE m == IF i <= k THEN i ELSE k
<1>3. m \in 1 .. Len(c)
  BY <1>0, <1>1, <1>2
<1>4. \A j \in 1 .. m - 1 : j <= Len(a) /\ a[j] = c[j]
  BY <1>0, <1>1, <1>2
<1>5. m <= Len(a) => a[m] < c[m]
  <2>1. CASE i = k
    BY <1>0, <1>1, <1>2, <2>1
  <2>2. CASE i < k
    <3>1. b[i] = c[i]
      BY <1>2, <2>2
    <3> QED
      BY <1>1, <2>2, <3>1
  <2>3. CASE k < i
    <3>1. a[k] = b[k] /\ k <= Len(b)
      BY <1>0, <1>1, <2>3
    <3> QED
      BY <1>2, <2>3, <3>1
  <2> QED
    BY <1>1, <1>2, <2>1, <2>2, <2>3
<1> HIDE DEF m
<1> QED
  BY <1>3, <1>4, <1>5 DEF TextBefore

\* Of two texts one comes first.
LEMMA TextTotal ==
  ASSUME NEW a \in Seq(Int), NEW b \in Seq(Int), a # b
  PROVE  TextBefore(a, b) \/ TextBefore(b, a)
<1>0. /\ Len(a) \in Nat /\ Len(b) \in Nat
      /\ \A j \in 1 .. Len(a) : a[j] \in Int
      /\ \A j \in 1 .. Len(b) : b[j] \in Int
  OBVIOUS
<1> DEFINE Same(i) == i <= Len(a) /\ i <= Len(b) /\ a[i] = b[i]
           Differ == {i \in Nat \ {0} : ~Same(i)}
<1>1. PICK m \in Differ : \A i \in Differ : i >= m
  <2>1. Len(a) + 1 \in Differ
    BY <1>0
  <2> QED
    BY <2>1, Least
<1>2. m \in Nat \ {0} /\ ~Same(m) /\ \A j \in 1 .. m - 1 : Same(j)
  <2> HIDE DEF Same
  <2> QED
    BY <1>1
<1> HIDE DEF Differ
<1>3. CASE m <= Len(a) /\ m <= Len(b)
  <2>1. a[m] < b[m] \/ b[m] < a[m]
    BY <1>0, <1>2, <1>3
  <2>2. m \in 1 .. Len(a) /\ m \in 1 .. Len(b)
    BY <1>0, <1>2, <1>3
  <2> QED
    BY <1>2, <2>2, <2>1 DEF TextBefore
<1>4. CASE m > Len(a) /\ m <= Len(b)
  <2>1. m \in 1 .. Len(b) /\ ~(m <= Len(a))
    BY <1>0, <1>2, <1>4
  <2> QED
    BY <1>2, <2>1 DEF TextBefore
<1>5. CASE m <= Len(a) /\ m > Len(b)
  <2>1. m \in 1 .. Len(a) /\ ~(m <= Len(b))
    BY <1>0, <1>2, <1>5
  <2> QED
    BY <1>2, <2>1 DEF TextBefore
<1>6. CASE m > Len(a) /\ m > Len(b)
  <2>1. Len(a) = m - 1 /\ Len(b) = m - 1
    BY <1>0, <1>2, <1>6
  <2>2. \A j \in 1 .. Len(a) : a[j] = b[j]
    BY <1>2, <2>1
  <2>3. a = b
    BY <2>1, <2>2
  <2> QED
    BY <2>3
<1> QED
  BY <1>0, <1>2, <1>3, <1>4, <1>5, <1>6

--------------------------------------------------------------------------------
(* The sorted list.                                                        *)

\* sortsBefore is a strict order, in which of two tiles one comes first.
LEMMA SortOrder ==
  ASSUME NEW order \in Sorts
  PROVE  /\ \A s \in Tiles : ~sortsBefore(s, s, order)
         /\ \A s, t, u \in Tiles :
              sortsBefore(s, t, order) /\ sortsBefore(t, u, order) => sortsBefore(s, u, order)
         /\ \A s, t \in Tiles :
              s # t => sortsBefore(s, t, order) \/ sortsBefore(t, s, order)
<1>1. \A t \in Tiles : Text(t) \in Seq(Int)
  BY TextType
<1>2. \A s \in Tiles : ~sortsBefore(s, s, order)
  BY <1>1, TextIrreflexive DEF sortsBefore
<1>3. ASSUME NEW s \in Tiles, NEW t \in Tiles, NEW u \in Tiles,
             sortsBefore(s, t, order), sortsBefore(t, u, order)
      PROVE  sortsBefore(s, u, order)
  <2>1. CASE order = "desc"
    <3>1. TextBefore(Text(u), Text(t)) /\ TextBefore(Text(t), Text(s))
      BY <1>3, <2>1 DEF sortsBefore
    <3>2. TextBefore(Text(u), Text(s))
      BY <1>1, <3>1, TextTransitive
    <3> QED
      BY <3>2, <2>1 DEF sortsBefore
  <2>2. CASE order # "desc"
    <3>1. TextBefore(Text(s), Text(t)) /\ TextBefore(Text(t), Text(u))
      BY <1>3, <2>2 DEF sortsBefore
    <3>2. TextBefore(Text(s), Text(u))
      BY <1>1, <3>1, TextTransitive
    <3> QED
      BY <3>2, <2>2 DEF sortsBefore
  <2> QED
    BY <2>1, <2>2
<1>4. ASSUME NEW s \in Tiles, NEW t \in Tiles, s # t
      PROVE  sortsBefore(s, t, order) \/ sortsBefore(t, s, order)
  <2>1. Text(s) # Text(t)
    BY <1>4, TextInjective
  <2>2. TextBefore(Text(s), Text(t)) \/ TextBefore(Text(t), Text(s))
    BY <1>1, <2>1, TextTotal
  <2> QED
    BY <2>2 DEF sortsBefore
<1> QED
  BY <1>2, <1>3, <1>4

\* The places of the lines are those of a list, and follow their order.
LEMMA Places ==
  ASSUME NEW order \in Sorts, NEW list \in SUBSET Tiles, IsFiniteSet(list)
  PROVE  /\ Cardinality(list) \in Nat
         /\ \A t \in list : place(t, list, order) \in 1 .. Cardinality(list)
         /\ \A s, t \in list :
              sortsBefore(s, t, order) => place(s, list, order) < place(t, list, order)
<1> DEFINE Earlier(t) == {s \in list : sortsBefore(s, t, order)}
<1>1. \A t \in list : IsFiniteSet(Earlier(t)) /\ Cardinality(Earlier(t)) \in Nat
  <2> SUFFICES ASSUME NEW t \in list
               PROVE  IsFiniteSet(Earlier(t)) /\ Cardinality(Earlier(t)) \in Nat
    OBVIOUS
  <2>1. Earlier(t) \in SUBSET list
    OBVIOUS
  <2> HIDE DEF Earlier
  <2> QED
    BY <2>1, FS_Subset, FS_CardinalityType
<1>2. Cardinality(list) \in Nat
  BY FS_CardinalityType
<1>3. ASSUME NEW t \in list PROVE place(t, list, order) \in 1 .. Cardinality(list)
  <2>1. Earlier(t) \in SUBSET list /\ Earlier(t) # list
    BY SortOrder
  <2>2. place(t, list, order) = Cardinality(Earlier(t)) + 1
    BY DEF place
  <2> HIDE DEF Earlier
  <2>3. Cardinality(Earlier(t)) < Cardinality(list)
    BY <2>1, <1>1, <1>2, FS_Subset
  <2> QED
    BY <2>2, <2>3, <1>1, <1>2
<1>4. ASSUME NEW s \in list, NEW t \in list, sortsBefore(s, t, order)
      PROVE  place(s, list, order) < place(t, list, order)
  <2>1. Earlier(s) \in SUBSET Earlier(t)
    BY <1>4, SortOrder
  <2>2. Earlier(s) # Earlier(t)
    BY <1>4, SortOrder
  <2>3. /\ place(s, list, order) = Cardinality(Earlier(s)) + 1
        /\ place(t, list, order) = Cardinality(Earlier(t)) + 1
    BY DEF place
  <2> HIDE DEF Earlier
  <2>4. Cardinality(Earlier(s)) < Cardinality(Earlier(t))
    BY <2>1, <2>2, <1>1, FS_Subset
  <2> QED
    BY <2>3, <2>4, <1>1
<1> QED
  BY <1>2, <1>3, <1>4

\* Every place of the list is that of a line.
LEMMA PlacesTaken ==
  ASSUME NEW order \in Sorts, NEW list \in SUBSET Tiles, IsFiniteSet(list),
         NEW i \in 1 .. Cardinality(list)
  PROVE  \E t \in list : place(t, list, order) = i
<1> DEFINE N == Cardinality(list)
           p == [t \in list |-> place(t, list, order)]
<1>1. N \in Nat /\ \A t \in list : place(t, list, order) \in 1 .. N
  BY Places
<1>2. ASSUME NEW s \in list, NEW t \in list, p[s] = p[t] PROVE s = t
  <2>1. p[s] \in 1 .. N /\ p[t] \in 1 .. N
    BY <1>1
  <2>2. sortsBefore(s, t, order) => p[s] < p[t]
    BY Places
  <2>3. sortsBefore(t, s, order) => p[t] < p[s]
    BY Places
  <2>4. s # t => sortsBefore(s, t, order) \/ sortsBefore(t, s, order)
    BY SortOrder
  <2> HIDE DEF p
  <2> QED
    BY <1>2, <2>1, <2>2, <2>3, <2>4
<1>3. p \in [list -> 1 .. N]
  BY <1>1
<1> HIDE DEF N, p
<1>4. p \in Injection(list, 1 .. N)
  BY <1>2, <1>3 DEF Injection, IsInjective
<1>5. IsFiniteSet(1 .. N) /\ Cardinality(1 .. N) = N
  BY <1>1, FS_Interval
<1>6. p \in Surjection(list, 1 .. N)
  BY <1>4, <1>5, FS_Injection DEF N
<1>7. PICK t \in list : p[t] = i
  BY <1>6 DEF Surjection, N
<1> QED
  BY <1>7 DEF p

\* sortArrAlphabetically returns every line once, in their order.
LEMMA SortedList ==
  ASSUME NEW order \in Sorts, NEW list \in SUBSET Tiles, IsFiniteSet(list)
  PROVE  LET sorted == sortArrAlphabetically(list, order)
         IN  /\ sorted \in Seq(list)
             /\ \A t \in list : \E i \in 1 .. Len(sorted) : sorted[i] = t
             /\ \A i, j \in 1 .. Len(sorted) : i < j => sortsBefore(sorted[i], sorted[j], order)
<1> DEFINE N == Cardinality(list)
           sorted == sortArrAlphabetically(list, order)
<1>1. N \in Nat
  BY Places
<1>2. sorted = [i \in 1 .. N |-> CHOOSE t \in list : place(t, list, order) = i]
  BY DEF sortArrAlphabetically
<1>3. \A i \in 1 .. N : sorted[i] \in list /\ place(sorted[i], list, order) = i
  <2> SUFFICES ASSUME NEW i \in 1 .. N
               PROVE  sorted[i] \in list /\ place(sorted[i], list, order) = i
    OBVIOUS
  <2>1. \E t \in list : place(t, list, order) = i
    BY PlacesTaken
  <2>2. sorted[i] = CHOOSE t \in list : place(t, list, order) = i
    BY <1>2
  <2> HIDE DEF sorted
  <2> QED
    BY <2>1, <2>2
<1>4. sorted = [i \in 1 .. N |-> sorted[i]]
  BY <1>2
<1>5. sorted \in [1 .. N -> list]
  BY <1>3, <1>4
<1> HIDE DEF sorted, N
<1>6. sorted \in Seq(list) /\ Len(sorted) = N
  BY <1>1, <1>5
<1>7. \A i \in 1 .. N : sorted[i] \in Tiles
  BY <1>3
<1>8. ASSUME NEW i \in 1 .. N, NEW j \in 1 .. N, sorted[i] = sorted[j] PROVE i = j
  BY <1>8, <1>3
<1>9. ASSUME NEW t \in list PROVE \E i \in 1 .. N : sorted[i] = t
  <2> DEFINE i == place(t, list, order)
  <2>1. i \in 1 .. N
    BY Places DEF N
  <2> HIDE DEF i
  <2>2. sorted[i] \in list /\ place(sorted[i], list, order) = i
    BY <2>1, <1>3
  <2>3. place(t, list, order) = i
    BY DEF i
  <2>4. ~sortsBefore(t, sorted[i], order) /\ ~sortsBefore(sorted[i], t, order)
    BY <2>1, <2>2, <2>3, Places, <1>1
  <2>5. sorted[i] = t
    BY <2>1, <2>2, <2>4, <1>7, SortOrder
  <2> QED
    BY <2>1, <2>5
<1>10. ASSUME NEW i \in 1 .. N, NEW j \in 1 .. N, i < j
       PROVE  sortsBefore(sorted[i], sorted[j], order)
  <2>1. sorted[i] # sorted[j]
    BY <1>8, <1>10
  <2>2. ~sortsBefore(sorted[j], sorted[i], order)
    BY <1>3, <1>10, Places, <1>1
  <2> QED
    BY <2>1, <2>2, <1>7, SortOrder
<1> QED
  BY <1>6, <1>9, <1>10 DEF sorted

--------------------------------------------------------------------------------
(* The filtered tiles.                                                     *)

\* A sequence that holds nothing twice.
Distinct(s) == \A i, j \in 1 .. Len(s) : i # j => s[i] # s[j]

\* What a sequence of tiles holds.
Members(s) == {s[i] : i \in 1 .. Len(s)}

\* Appending a tile adds it to the members.
LEMMA AppendMembers ==
  ASSUME NEW s \in Seq(Tiles), NEW t \in Tiles
  PROVE  /\ Append(s, t) \in Seq(Tiles)
         /\ Len(Append(s, t)) = Len(s) + 1
         /\ \A i \in 1 .. Len(s) : Append(s, t)[i] = s[i]
         /\ Append(s, t)[Len(s) + 1] = t
         /\ Members(Append(s, t)) = Members(s) \cup {t}
         /\ Distinct(s) /\ t \notin Members(s) => Distinct(Append(s, t))
<1> DEFINE a == Append(s, t)
<1>1. /\ a \in Seq(Tiles)
      /\ Len(a) = Len(s) + 1
      /\ \A i \in 1 .. Len(s) : a[i] = s[i]
      /\ a[Len(s) + 1] = t
      /\ Len(s) \in Nat
  BY AppendProperties, LenProperties
<1> HIDE DEF a
<1>2. Members(a) = Members(s) \cup {t}
  <2>1. \A i \in 1 .. Len(a) : i \in 1 .. Len(s) \/ i = Len(s) + 1
    BY <1>1
  <2>2. \A i \in 1 .. Len(s) : i \in 1 .. Len(a)
    BY <1>1
  <2>3. Len(s) + 1 \in 1 .. Len(a)
    BY <1>1
  <2>4. \A e \in Members(a) : e \in Members(s) \cup {t}
    BY <2>1, <1>1 DEF Members
  <2>5. \A e \in Members(s) \cup {t} : e \in Members(a)
    BY <2>2, <2>3, <1>1 DEF Members
  <2> QED
    BY <2>4, <2>5
<1>3. ASSUME Distinct(s), t \notin Members(s) PROVE Distinct(a)
  BY <1>1, <1>3 DEF Distinct, Members
<1> QED
  BY <1>1, <1>2, <1>3 DEF a

\* One tile of the sorted list, after those before it.
FilterStep(before, sorted, n, zoom, filter) ==
  IF survives(sorted[n], zoom, filter) THEN Append(before, sorted[n]) ELSE before

\* expireListToFilteredTiles takes one tile after the other.
LEMMA FilterFunction ==
  ASSUME NEW sorted \in Seq(Tiles), NEW zoom, NEW filter
  PROVE  \E f : /\ f[0] = <<>>
                /\ \A n \in 1 .. Len(sorted) :
                     f[n] = FilterStep(f[n - 1], sorted, n, zoom, filter)
                /\ expireListToFilteredTiles(sorted, zoom, filter) = f[Len(sorted)]
<1> DEFINE N == Len(sorted)
           Def(f, n) == IF n = 0 THEN <<>> ELSE FilterStep(f[n - 1], sorted, n, zoom, filter)
           Exists == {m \in 0 .. N : \E f : f = [n \in 0 .. m |-> Def(f, n)]}
<1>0. N \in Nat
  BY LenProperties
<1>1. 0 \in Exists
  <2> DEFINE g == [n \in 0 .. 0 |-> <<>>]
  <2>1. g = [n \in 0 .. 0 |-> Def(g, n)]
    OBVIOUS
  <2> HIDE DEF g
  <2>2. \E f : f = [n \in 0 .. 0 |-> Def(f, n)]
    BY <2>1
  <2> QED
    BY <2>2, <1>0
<1>2. ASSUME NEW m \in 1 .. N, m - 1 \in Exists PROVE m \in Exists
  <2>1. PICK f : f = [n \in 0 .. m - 1 |-> Def(f, n)]
    BY <1>2
  <2> DEFINE g == [n \in 0 .. m |-> IF n = m THEN Def(f, n) ELSE f[n]]
  <2>2. ASSUME NEW n \in 0 .. m PROVE g[n] = Def(g, n)
    <3>1. n = 0 \/ g[n - 1] = f[n - 1]
      BY <1>0
    <3>2. g[n] = Def(f, n)
      BY <2>1
    <3> HIDE DEF g
    <3> QED
      BY <3>1, <3>2
  <2>3. g = [n \in 0 .. m |-> g[n]]
    OBVIOUS
  <2> HIDE DEF g
  <2>4. g = [n \in 0 .. m |-> Def(g, n)]
    BY <2>2, <2>3
  <2>5. \E h : h = [n \in 0 .. m |-> Def(h, n)]
    BY <2>4
  <2> QED
    BY <2>5, <1>0
<1>3. N \in Exists
  <2> HIDE DEF Exists, N
  <2> QED
    BY <1>0, <1>1, <1>2, UpTo
<1>4. \E f : f = [n \in 0 .. N |-> Def(f, n)]
  BY <1>3
<1> DEFINE tiles == CHOOSE f : f = [n \in 0 .. N |-> Def(f, n)]
<1>5. tiles = [n \in 0 .. N |-> Def(tiles, n)]
  BY <1>4
<1>6. expireListToFilteredTiles(sorted, zoom, filter) = tiles[N]
  BY DEF expireListToFilteredTiles, FilterStep
<1> HIDE DEF tiles, Def
<1>7. \A n \in 0 .. N : tiles[n] = Def(tiles, n)
  BY <1>5
<1>8. tiles[0] = <<>>
  BY <1>7, <1>0 DEF Def
<1>9. \A n \in 1 .. N : tiles[n] = FilterStep(tiles[n - 1], sorted, n, zoom, filter)
  <2> SUFFICES ASSUME NEW n \in 1 .. N
               PROVE  tiles[n] = FilterStep(tiles[n - 1], sorted, n, zoom, filter)
    OBVIOUS
  <2>1. n \in 0 .. N /\ n # 0
    BY <1>0
  <2>2. tiles[n] = Def(tiles, n)
    BY <2>1, <1>7
  <2> QED
    BY <2>1, <2>2 DEF Def
<1> QED
  BY <1>6, <1>8, <1>9

\* The filtered tiles are the lines that survive, each once.
LEMMA FilteredTiles ==
  ASSUME NEW sorted \in Seq(Tiles), NEW zoom, NEW filter, Distinct(sorted)
  PROVE  LET tiles == expireListToFilteredTiles(sorted, zoom, filter)
         IN  /\ tiles \in Seq(Tiles)
             /\ Distinct(tiles)
             /\ Members(tiles) = {t \in Members(sorted) : survives(t, zoom, filter)}
<1> DEFINE N == Len(sorted)
           Kept(n) == {sorted[i] : i \in {k \in 1 .. n : survives(sorted[k], zoom, filter)}}
<1>1. PICK f : /\ f[0] = <<>>
               /\ \A n \in 1 .. N : f[n] = FilterStep(f[n - 1], sorted, n, zoom, filter)
               /\ expireListToFilteredTiles(sorted, zoom, filter) = f[N]
  BY FilterFunction
<1>2. N \in Nat /\ \A i \in 1 .. N : sorted[i] \in Tiles
  BY LenProperties, ElementOfSeq
<1> DEFINE Good(n) == f[n] \in Seq(Tiles) /\ Distinct(f[n]) /\ Members(f[n]) = Kept(n)
           T == {n \in 0 .. N : Good(n)}
<1>3. 0 \in T
  <2>1. <<>> \in Seq(Tiles) /\ Len(<<>>) = 0
    OBVIOUS
  <2>2. Distinct(<<>>) /\ Members(<<>>) = {}
    BY <2>1 DEF Distinct, Members
  <2>3. Kept(0) = {}
    OBVIOUS
  <2> HIDE DEF Kept
  <2>4. f[0] \in Seq(Tiles) /\ Distinct(f[0]) /\ Members(f[0]) = Kept(0)
    BY <1>1, <2>1, <2>2, <2>3, Zenon
  <2>5. 0 \in 0 .. N
    BY <1>2
  <2> QED
    BY <2>4, <2>5
<1>4. ASSUME NEW n \in 1 .. N, n - 1 \in T PROVE n \in T
  <2>1. Good(n - 1)
    BY <1>4
  <2>2. f[n] = FilterStep(f[n - 1], sorted, n, zoom, filter)
    BY <1>1
  <2>3. sorted[n] \in Tiles
    BY <1>2
  <2>4. Kept(n) = IF survives(sorted[n], zoom, filter)
                  THEN Kept(n - 1) \cup {sorted[n]} ELSE Kept(n - 1)
    <3>1. 1 .. n = (1 .. n - 1) \cup {n}
      BY <1>2
    <3> QED
      BY <3>1
  <2>5. sorted[n] \notin Kept(n - 1)
    <3>1. \A k \in 1 .. n - 1 : k \in 1 .. N /\ k # n
      BY <1>2
    <3> QED
      BY <3>1 DEF Distinct
  <2> HIDE DEF Kept
  <2>6. Good(n)
    <3>1. CASE survives(sorted[n], zoom, filter)
      <4>1. f[n] = Append(f[n - 1], sorted[n])
        BY <2>2, <3>1 DEF FilterStep
      <4> QED
        BY <4>1, <2>1, <2>3, <2>4, <2>5, <3>1, AppendMembers
    <3>2. CASE ~survives(sorted[n], zoom, filter)
      <4>1. f[n] = f[n - 1]
        BY <2>2, <3>2 DEF FilterStep
      <4> QED
        BY <4>1, <2>1, <2>4, <3>2
    <3> QED
      BY <3>1, <3>2
  <2> HIDE DEF Good
  <2> QED
    BY <2>6, <1>2
<1>5. N \in T
  <2> HIDE DEF T, N
  <2> QED
    BY <1>2, <1>3, <1>4, UpTo
<1>6. Good(N)
  BY <1>5
<1>7. Kept(N) = {t \in Members(sorted) : survives(t, zoom, filter)}
  BY DEF Members
<1> HIDE DEF Kept, N
<1> QED
  BY <1>1, <1>6, <1>7

--------------------------------------------------------------------------------
(* The ranges.                                                             *)

\* The tiles of a range lie one below the other, in the direction of the sort.
Chain(r, order) ==
  \A j \in 1 .. Len(r) :
    /\ r[j].z = r[1].z
    /\ r[j].x = r[1].x
    /\ r[j].y = IF order = "asc" THEN r[1].y + (j - 1) ELSE r[1].y - (j - 1)

\* The ranges are chains and share no tile.
AreRanges(ranges, order) ==
  /\ ranges \in Seq(Seq(Tiles))
  /\ \A i \in 1 .. Len(ranges) : Len(ranges[i]) >= 1 /\ Chain(ranges[i], order)
  /\ \A i, j \in 1 .. Len(ranges) : i # j => Members(ranges[i]) \cap Members(ranges[j]) = {}

Tiled(ranges) == UNION {Members(ranges[i]) : i \in 1 .. Len(ranges)}

\* A tile that follows the last of a chain prolongs it.
LEMMA LongerChain ==
  ASSUME NEW order \in Sorts, NEW r \in Seq(Tiles), Len(r) >= 1, Chain(r, order),
         NEW t \in Tiles, follows(t, Last(r), order)
  PROVE  Chain(Append(r, t), order)
<1> DEFINE a == Append(r, t)
<1>1. /\ Len(r) \in Nat
      /\ Len(a) = Len(r) + 1
      /\ \A i \in 1 .. Len(r) : a[i] = r[i]
      /\ a[Len(r) + 1] = t
  BY AppendMembers, LenProperties
<1> HIDE DEF a
<1> DEFINE l == r[Len(r)]
<1>2. /\ l.z = r[1].z /\ l.x = r[1].x
      /\ l.y = IF order = "asc" THEN r[1].y + (Len(r) - 1) ELSE r[1].y - (Len(r) - 1)
  BY <1>1 DEF Chain
<1>3. t.z = l.z /\ t.x = l.x /\ t.y = l.y + (IF order = "asc" THEN 1 ELSE -1)
  BY DEF follows, Last
<1>4. r[1] \in Tiles /\ r[1].y \in Nat
  <2>1. 1 \in 1 .. Len(r)
    BY <1>1
  <2>2. r[1] \in Tiles
    BY <2>1, ElementOfSeq
  <2> QED
    BY <2>2 DEF Tiles
<1> HIDE DEF l
<1>5. a[1] = r[1]
  BY <1>1
<1> SUFFICES ASSUME NEW j \in 1 .. Len(a)
             PROVE  /\ a[j].z = a[1].z
                    /\ a[j].x = a[1].x
                    /\ a[j].y = IF order = "asc" THEN a[1].y + (j - 1) ELSE a[1].y - (j - 1)
  BY DEF Chain, a
<1>6. CASE j \in 1 .. Len(r)
  BY <1>1, <1>5, <1>6 DEF Chain
<1>7. CASE j = Len(r) + 1
  <2>1. a[j] = t
    BY <1>1, <1>7
  <2>2. t.z = a[1].z /\ t.x = a[1].x
    BY <1>2, <1>3, <1>5
  <2>3. t.y = IF order = "asc" THEN a[1].y + (j - 1) ELSE a[1].y - (j - 1)
    <3>1. CASE order = "asc"
      <4>1. l.y = a[1].y + (Len(r) - 1) /\ t.y = l.y + 1
        BY <1>2, <1>3, <1>5, <3>1
      <4> QED
        BY <4>1, <1>1, <1>4, <1>5, <1>7, <3>1
    <3>2. CASE order # "asc"
      <4>1. l.y = a[1].y - (Len(r) - 1) /\ t.y = l.y + (-1)
        BY <1>2, <1>3, <1>5, <3>2
      <4> QED
        BY <4>1, <1>1, <1>4, <1>5, <1>7, <3>2
    <3> QED
      BY <3>1, <3>2
  <2> QED
    BY <2>1, <2>2, <2>3
<1> QED
  BY <1>1, <1>6, <1>7

\* A pushed tile leaves ranges, which hold the tile and what they held.
LEMMA PushedTile ==
  ASSUME NEW order \in Sorts, NEW ranges, AreRanges(ranges, order),
         NEW t \in Tiles, t \notin Tiled(ranges)
  PROVE  /\ AreRanges(pushTile(ranges, t, order), order)
         /\ Tiled(pushTile(ranges, t, order)) = Tiled(ranges) \cup {t}
<1> DEFINE N == Len(ranges)
           pushed == pushTile(ranges, t, order)
<1>1. /\ ranges \in Seq(Seq(Tiles)) /\ N \in Nat
      /\ \A i \in 1 .. N : ranges[i] \in Seq(Tiles)
  BY LenProperties, ElementOfSeq DEF AreRanges
<1>2. \A i \in 1 .. N : t \notin Members(ranges[i])
  BY DEF Tiled
<1>3. CASE ranges # <<>> /\ follows(t, Last(Last(ranges)), order)
  <2>1. N \in 1 .. N
    BY <1>1, <1>3, EmptySeq
  <2> DEFINE r == ranges[N]
             a == Append(r, t)
  <2>2. pushed = [ranges EXCEPT ![N] = a]
    BY <1>3 DEF pushTile
  <2>3. /\ r \in Seq(Tiles) /\ Len(r) >= 1 /\ Chain(r, order) /\ Len(r) \in Nat
        /\ follows(t, Last(r), order)
    BY <1>1, <1>3, <2>1, LenProperties DEF AreRanges, Last
  <2> HIDE DEF r
  <2>4. /\ a \in Seq(Tiles) /\ Len(a) >= 1 /\ Chain(a, order)
        /\ Members(a) = Members(r) \cup {t}
    BY <2>3, LongerChain, AppendMembers
  <2> HIDE DEF a
  <2>5. /\ pushed \in Seq(Seq(Tiles)) /\ Len(pushed) = N
        /\ \A i \in 1 .. N : pushed[i] = IF i = N THEN a ELSE ranges[i]
    BY <1>1, <2>1, <2>2, <2>4, ExceptSeq
  <2> HIDE DEF pushed
  <2>6. \A i \in 1 .. N : Len(pushed[i]) >= 1 /\ Chain(pushed[i], order)
    BY <2>4, <2>5 DEF AreRanges
  <2>7. \A i \in 1 .. N : Members(pushed[i]) =
                            IF i = N THEN Members(ranges[i]) \cup {t} ELSE Members(ranges[i])
    BY <2>4, <2>5 DEF r
  <2>8. \A i, j \in 1 .. N : i # j => Members(pushed[i]) \cap Members(pushed[j]) = {}
    <3>1. \A i, j \in 1 .. N : i # j => Members(ranges[i]) \cap Members(ranges[j]) = {}
      BY DEF AreRanges
    <3> QED
      BY <3>1, <2>7, <1>2
  <2>9. Tiled(pushed) = Tiled(ranges) \cup {t}
    <3>1. \A e : e \in Tiled(pushed) <=> \E i \in 1 .. N : e \in Members(pushed[i])
      BY <2>5 DEF Tiled
    <3>2. \A e : e \in Tiled(ranges) <=> \E i \in 1 .. N : e \in Members(ranges[i])
      BY DEF Tiled
    <3>3. \A e : e \in Tiled(pushed) <=> e \in Tiled(ranges) \cup {t}
      BY <3>1, <3>2, <2>7, <2>1
    <3> QED
      BY <3>3
  <2> QED
    BY <2>5, <2>6, <2>8, <2>9 DEF AreRanges, pushed
<1>4. CASE ~(ranges # <<>> /\ follows(t, Last(Last(ranges)), order))
  <2> DEFINE a == <<t>>
  <2>1. pushed = Append(ranges, a)
    BY <1>4 DEF pushTile
  <2>2. a \in Seq(Tiles) /\ Len(a) = 1 /\ a[1] = t
    OBVIOUS
  <2>3. Members(a) = {t}
    BY <2>2 DEF Members
  <2>4. Chain(a, order)
    <3>1. t.y \in Nat
      BY DEF Tiles
    <3> QED
      BY <2>2, <3>1 DEF Chain
  <2> HIDE DEF a
  <2>5. /\ pushed \in Seq(Seq(Tiles)) /\ Len(pushed) = N + 1
        /\ \A i \in 1 .. N : pushed[i] = ranges[i]
        /\ pushed[N + 1] = a
    BY <1>1, <2>1, <2>2, AppendProperties
  <2> HIDE DEF pushed
  <2>6. \A i \in 1 .. N + 1 : i \in 1 .. N \/ i = N + 1
    BY <1>1
  <2>7. \A i \in 1 .. N + 1 : Len(pushed[i]) >= 1 /\ Chain(pushed[i], order)
    <3> SUFFICES ASSUME NEW i \in 1 .. N + 1
                 PROVE  Len(pushed[i]) >= 1 /\ Chain(pushed[i], order)
      OBVIOUS
    <3>1. CASE i \in 1 .. N
      <4>1. pushed[i] = ranges[i]
        BY <2>5, <3>1
      <4> QED
        BY <4>1, <3>1 DEF AreRanges
    <3>2. CASE i = N + 1
      <4>1. pushed[i] = a /\ Len(a) >= 1
        BY <2>2, <2>5, <3>2
      <4> QED
        BY <4>1, <2>4
    <3> QED
      BY <3>1, <3>2, <2>6
  <2>8. \A i, j \in 1 .. N + 1 : i # j => Members(pushed[i]) \cap Members(pushed[j]) = {}
    <3>1. \A i, j \in 1 .. N : i # j => Members(ranges[i]) \cap Members(ranges[j]) = {}
      BY DEF AreRanges
    <3>2. \A i \in 1 .. N : Members(pushed[i]) = Members(ranges[i])
      BY <2>5
    <3>3. Members(pushed[N + 1]) = {t}
      BY <2>3, <2>5
    <3>4. \A i, j \in 1 .. N : i # j => Members(pushed[i]) \cap Members(pushed[j]) = {}
      BY <3>1, <3>2
    <3>5. \A i \in 1 .. N : Members(pushed[i]) \cap Members(pushed[N + 1]) = {}
      BY <3>2, <3>3, <1>2
    <3> QED
      BY <3>4, <3>5, <2>6
  <2>9. Tiled(pushed) = Tiled(ranges) \cup {t}
    <3>1. \A e : e \in Tiled(pushed) <=> \E i \in 1 .. N + 1 : e \in Members(pushed[i])
      BY <2>5 DEF Tiled
    <3>2. \A e : e \in Tiled(ranges) <=> \E i \in 1 .. N : e \in Members(ranges[i])
      BY DEF Tiled
    <3>3. N + 1 \in 1 .. N + 1 /\ \A i \in 1 .. N : i \in 1 .. N + 1
      BY <1>1
    <3>4. \A e : e \in Tiled(pushed) <=> e \in Tiled(ranges) \cup {t}
      BY <3>1, <3>2, <3>3, <2>3, <2>5, <2>6
    <3> QED
      BY <3>4
  <2> QED
    BY <2>5, <2>7, <2>8, <2>9 DEF AreRanges, pushed
<1> QED
  BY <1>3, <1>4

\* buildTileRange pushes one tile after the other.
LEMMA RangesFunction ==
  ASSUME NEW tiles \in Seq(Tiles), NEW order
  PROVE  \E f : /\ f[0] = <<>>
                /\ \A n \in 1 .. Len(tiles) : f[n] = pushTile(f[n - 1], tiles[n], order)
                /\ buildTileRange(tiles, order) = f[Len(tiles)]
<1> DEFINE N == Len(tiles)
           Def(f, n) == IF n = 0 THEN <<>> ELSE pushTile(f[n - 1], tiles[n], order)
           Exists == {m \in 0 .. N : \E f : f = [n \in 0 .. m |-> Def(f, n)]}
<1>0. N \in Nat
  BY LenProperties
<1>1. 0 \in Exists
  <2> DEFINE g == [n \in 0 .. 0 |-> <<>>]
  <2>1. g = [n \in 0 .. 0 |-> Def(g, n)]
    OBVIOUS
  <2> HIDE DEF g
  <2>2. \E f : f = [n \in 0 .. 0 |-> Def(f, n)]
    BY <2>1
  <2> QED
    BY <2>2, <1>0
<1>2. ASSUME NEW m \in 1 .. N, m - 1 \in Exists PROVE m \in Exists
  <2>1. PICK f : f = [n \in 0 .. m - 1 |-> Def(f, n)]
    BY <1>2
  <2> DEFINE g == [n \in 0 .. m |-> IF n = m THEN Def(f, n) ELSE f[n]]
  <2>2. ASSUME NEW n \in 0 .. m PROVE g[n] = Def(g, n)
    <3>1. n = 0 \/ g[n - 1] = f[n - 1]
      BY <1>0
    <3>2. g[n] = Def(f, n)
      BY <2>1
    <3> HIDE DEF g
    <3> QED
      BY <3>1, <3>2
  <2>3. g = [n \in 0 .. m |-> g[n]]
    OBVIOUS
  <2> HIDE DEF g
  <2>4. g = [n \in 0 .. m |-> Def(g, n)]
    BY <2>2, <2>3
  <2>5. \E h : h = [n \in 0 .. m |-> Def(h, n)]
    BY <2>4
  <2> QED
    BY <2>5, <1>0
<1>3. N \in Exists
  <2> HIDE DEF Exists, N
  <2> QED
    BY <1>0, <1>1, <1>2, UpTo
<1>4. \E f : f = [n \in 0 .. N |-> Def(f, n)]
  BY <1>3
<1> DEFINE ranges == CHOOSE f : f = [n \in 0 .. N |-> Def(f, n)]
<1>5. ranges = [n \in 0 .. N |-> Def(ranges, n)]
  BY <1>4
<1>6. buildTileRange(tiles, order) = ranges[N]
  BY DEF buildTileRange
<1> HIDE DEF ranges, Def
<1>7. \A n \in 0 .. N : ranges[n] = Def(ranges, n)
  BY <1>5
<1>8. ranges[0] = <<>>
  BY <1>7, <1>0 DEF Def
<1>9. \A n \in 1 .. N : ranges[n] = pushTile(ranges[n - 1], tiles[n], order)
  <2> SUFFICES ASSUME NEW n \in 1 .. N
               PROVE  ranges[n] = pushTile(ranges[n - 1], tiles[n], order)
    OBVIOUS
  <2>1. n \in 0 .. N /\ n # 0
    BY <1>0
  <2>2. ranges[n] = Def(ranges, n)
    BY <2>1, <1>7
  <2> QED
    BY <2>1, <2>2 DEF Def
<1> QED
  BY <1>6, <1>8, <1>9

\* The ranges hold every tile, and each tile once.
LEMMA TileRanges ==
  ASSUME NEW order \in Sorts, NEW tiles \in Seq(Tiles), Distinct(tiles)
  PROVE  LET ranges == buildTileRange(tiles, order)
         IN  AreRanges(ranges, order) /\ Tiled(ranges) = Members(tiles)
<1> DEFINE N == Len(tiles)
           First(n) == {tiles[k] : k \in 1 .. n}
<1>1. PICK f : /\ f[0] = <<>>
               /\ \A n \in 1 .. N : f[n] = pushTile(f[n - 1], tiles[n], order)
               /\ buildTileRange(tiles, order) = f[N]
  BY RangesFunction
<1>2. N \in Nat /\ \A n \in 1 .. N : tiles[n] \in Tiles
  BY LenProperties, ElementOfSeq
<1> DEFINE Good(n) == AreRanges(f[n], order) /\ Tiled(f[n]) = First(n)
           T == {n \in 0 .. N : Good(n)}
<1>3. 0 \in T
  <2>1. <<>> \in Seq(Seq(Tiles)) /\ Len(<<>>) = 0
    OBVIOUS
  <2>2. AreRanges(<<>>, order) /\ Tiled(<<>>) = {}
    BY <2>1 DEF AreRanges, Tiled
  <2>3. First(0) = {}
    OBVIOUS
  <2> HIDE DEF First
  <2>4. AreRanges(f[0], order) /\ Tiled(f[0]) = First(0)
    BY <1>1, <2>2, <2>3, Zenon
  <2>5. 0 \in 0 .. N
    BY <1>2
  <2> QED
    BY <2>4, <2>5
<1>4. ASSUME NEW n \in 1 .. N, n - 1 \in T PROVE n \in T
  <2>1. Good(n - 1)
    BY <1>4
  <2>2. f[n] = pushTile(f[n - 1], tiles[n], order) /\ tiles[n] \in Tiles
    BY <1>1, <1>2
  <2>3. First(n) = First(n - 1) \cup {tiles[n]}
    <3>1. 1 .. n = (1 .. n - 1) \cup {n}
      BY <1>2
    <3> QED
      BY <3>1
  <2>4. tiles[n] \notin First(n - 1)
    <3>1. \A k \in 1 .. n - 1 : k \in 1 .. N /\ k # n
      BY <1>2
    <3> QED
      BY <3>1 DEF Distinct
  <2> HIDE DEF First
  <2>5. Good(n)
    BY <2>1, <2>2, <2>3, <2>4, PushedTile
  <2> HIDE DEF Good
  <2> QED
    BY <2>5, <1>2
<1>5. N \in T
  <2> HIDE DEF T, N
  <2> QED
    BY <1>2, <1>3, <1>4, UpTo
<1>6. Good(N)
  BY <1>5
<1>7. First(N) = Members(tiles)
  BY DEF Members
<1> HIDE DEF First, N
<1> QED
  BY <1>1, <1>6, <1>7

--------------------------------------------------------------------------------
(* The cells of boxes.                                                     *)

\* The cells of a box, by their coordinates.
LEMMA CellOf ==
  ASSUME NEW w \in Int, NEW e \in Int, NEW n \in Int, NEW s \in Int, NEW c
  PROVE  c \in Cells([west |-> w, east |-> e, north |-> n, south |-> s])
           <=> /\ c \in Int \X Int
               /\ w <= c[1] /\ c[1] < e
               /\ s <= c[2] /\ c[2] < n
<1>1. Cells([west |-> w, east |-> e, north |-> n, south |-> s])
        = (w .. e - 1) \X (s .. n - 1)
  BY DEF Cells
<1>2. c \in (w .. e - 1) \X (s .. n - 1)
        <=> c \in Int \X Int /\ c[1] \in w .. e - 1 /\ c[2] \in s .. n - 1
  OBVIOUS
<1>3. c \in Int \X Int => c[1] \in Int /\ c[2] \in Int
  OBVIOUS
<1> QED
  BY <1>1, <1>2, <1>3

\* The cells of the box of a tile.
LEMMA CellOfTile ==
  ASSUME NEW t \in Tiles, NEW c
  PROVE  LET size == Scale[t.z]
         IN  c \in Cells(bbox(t))
               <=> /\ c \in Int \X Int
                   /\ t.x * size <= c[1] /\ c[1] < (t.x + 1) * size
                   /\ -((t.y + 1) * size) <= c[2] /\ c[2] < -(t.y * size)
<1> DEFINE size == Scale[t.z]
<1>1. t.x \in Nat /\ t.y \in Nat /\ size \in Nat \ {0}
  BY ScaleType DEF Tiles
<1>2. bbox(t) = [west |-> t.x * size, east |-> (t.x + 1) * size,
                 north |-> -(t.y * size), south |-> -((t.y + 1) * size)]
  BY DEF bbox
<1> HIDE DEF size
<1>3. /\ t.x * size \in Int /\ (t.x + 1) * size \in Int
      /\ -(t.y * size) \in Int /\ -((t.y + 1) * size) \in Int
  BY <1>1
<1> QED
  BY <1>2, <1>3, CellOf DEF size

\* Two tiles of one zoom share no cell.
LEMMA TilesApart ==
  ASSUME NEW t \in Tiles, NEW u \in Tiles, t.z = u.z, t # u
  PROVE  Cells(bbox(t)) \cap Cells(bbox(u)) = {}
<1> SUFFICES ASSUME NEW c \in Cells(bbox(t)), c \in Cells(bbox(u))
             PROVE  FALSE
  OBVIOUS
<1> DEFINE size == Scale[t.z]
<1>1. /\ c \in Int \X Int
      /\ t.x * size <= c[1] /\ c[1] < (t.x + 1) * size
      /\ -((t.y + 1) * size) <= c[2] /\ c[2] < -(t.y * size)
  BY CellOfTile
<1>2. /\ u.x * size <= c[1] /\ c[1] < (u.x + 1) * size
      /\ -((u.y + 1) * size) <= c[2] /\ c[2] < -(u.y * size)
  BY CellOfTile
<1>3. t.x \in Nat /\ t.y \in Nat /\ u.x \in Nat /\ u.y \in Nat /\ size \in Nat \ {0}
  BY ScaleType DEF Tiles
<1>4. t.x # u.x \/ t.y # u.y
  BY DEF Tiles
<1> HIDE DEF size
<1> DEFINE c1 == c[1]
           c2 == c[2]
<1>5. c1 \in Int /\ c2 \in Int
  BY <1>1
<1>6. /\ t.x * size <= c1 /\ c1 < (t.x + 1) * size
      /\ u.x * size <= c1 /\ c1 < (u.x + 1) * size
      /\ -((t.y + 1) * size) <= c2 /\ c2 < -(t.y * size)
      /\ -((u.y + 1) * size) <= c2 /\ c2 < -(u.y * size)
  BY <1>1, <1>2
<1> HIDE DEF c1, c2
<1>7. ASSUME NEW a \in Nat, NEW b \in Nat, a < b
      PROVE  (a + 1) * size <= b * size /\ (a + 1) * size \in Int /\ b * size \in Int
  BY <1>3, <1>7, Products
<1>8. ~(t.x < u.x)
  <2> SUFFICES ASSUME t.x < u.x PROVE FALSE
    OBVIOUS
  <2>1. (t.x + 1) * size <= u.x * size /\ (t.x + 1) * size \in Int /\ u.x * size \in Int
    BY <1>3, <1>7
  <2> QED
    BY <2>1, <1>5, <1>6
<1>9. ~(u.x < t.x)
  <2> SUFFICES ASSUME u.x < t.x PROVE FALSE
    OBVIOUS
  <2>1. (u.x + 1) * size <= t.x * size /\ (u.x + 1) * size \in Int /\ t.x * size \in Int
    BY <1>3, <1>7
  <2> QED
    BY <2>1, <1>5, <1>6
<1>10. ~(t.y < u.y)
  <2> SUFFICES ASSUME t.y < u.y PROVE FALSE
    OBVIOUS
  <2>1. (t.y + 1) * size <= u.y * size /\ (t.y + 1) * size \in Int /\ u.y * size \in Int
    BY <1>3, <1>7
  <2> QED
    BY <2>1, <1>5, <1>6
<1>11. ~(u.y < t.y)
  <2> SUFFICES ASSUME u.y < t.y PROVE FALSE
    OBVIOUS
  <2>1. (u.y + 1) * size <= t.y * size /\ (u.y + 1) * size \in Int /\ t.y * size \in Int
    BY <1>3, <1>7
  <2> QED
    BY <2>1, <1>5, <1>6
<1> QED
  BY <1>3, <1>4, <1>8, <1>9, <1>10, <1>11

Tile(z, x, y) == [z |-> z, x |-> x, y |-> y]

\* A column of tiles and the box around them have the same cells.
LEMMA Column ==
  ASSUME NEW z \in 0 .. FinestZoom, NEW x \in Nat, NEW lo \in Nat, NEW hi \in Nat, lo <= hi
  PROVE  Cells([west |-> x * Scale[z], east |-> (x + 1) * Scale[z],
                north |-> -(lo * Scale[z]), south |-> -((hi + 1) * Scale[z])])
           = UNION {Cells(bbox(Tile(z, x, y))) : y \in lo .. hi}
<1> DEFINE size == Scale[z]
           box == [west |-> x * size, east |-> (x + 1) * size,
                   north |-> -(lo * size), south |-> -((hi + 1) * size)]
<1>1. size \in Nat \ {0}
  BY ScaleType
<1>2. \A y \in Nat : y * size \in Int /\ (y + 1) * size \in Int
  BY <1>1, Products
<1>3. ASSUME NEW y \in Nat, NEW c
      PROVE  c \in Cells(bbox(Tile(z, x, y)))
               <=> /\ c \in Int \X Int
                   /\ x * size <= c[1] /\ c[1] < (x + 1) * size
                   /\ -((y + 1) * size) <= c[2] /\ c[2] < -(y * size)
  <2>1. Tile(z, x, y) \in Tiles
    BY DEF Tile, Tiles
  <2>2. Tile(z, x, y).z = z /\ Tile(z, x, y).x = x /\ Tile(z, x, y).y = y
    BY DEF Tile
  <2> QED
    BY <2>1, <2>2, CellOfTile
<1> HIDE DEF size
<1>4. ASSUME NEW c
      PROVE  c \in Cells(box)
               <=> /\ c \in Int \X Int
                   /\ x * size <= c[1] /\ c[1] < (x + 1) * size
                   /\ -((hi + 1) * size) <= c[2] /\ c[2] < -(lo * size)
  <2>1. /\ x * size \in Int /\ (x + 1) * size \in Int
        /\ -(lo * size) \in Int /\ -((hi + 1) * size) \in Int
    BY <1>2
  <2> QED
    BY <2>1, CellOf
<1>5. ASSUME NEW c \in Cells(box)
      PROVE  \E y \in lo .. hi : c \in Cells(bbox(Tile(z, x, y)))
  <2>1. /\ c \in Int \X Int /\ c[2] \in Int
        /\ x * size <= c[1] /\ c[1] < (x + 1) * size
        /\ -((hi + 1) * size) <= c[2] /\ c[2] < -(lo * size)
    BY <1>4
  <2> DEFINE Below == {y \in Nat : lo <= y /\ -((y + 1) * size) <= c[2]}
  <2>2. PICK y \in Below : \A k \in Below : k >= y
    <3>1. hi \in Below /\ Below \subseteq Nat
      BY <2>1
    <3> QED
      BY <3>1, Least
  <2>3. y \in Nat /\ lo <= y /\ y <= hi /\ -((y + 1) * size) <= c[2]
    BY <2>1, <2>2
  <2>4. c[2] < -(y * size)
    <3>1. CASE y = lo
      BY <2>1, <3>1
    <3>2. CASE y # lo
      <4>1. y - 1 \in Nat /\ lo <= y - 1 /\ ~(y - 1 >= y)
        BY <2>3, <3>2
      <4>2. ~(-((y - 1 + 1) * size) <= c[2])
        BY <2>2, <4>1
      <4>3. y - 1 + 1 = y
        BY <2>3
      <4>4. ~(-(y * size) <= c[2])
        BY <4>2, <4>3
      <4> QED
        BY <4>4, <2>1, <2>3, <1>2
    <3> QED
      BY <3>1, <3>2
  <2> HIDE DEF Below
  <2>5. c \in Cells(bbox(Tile(z, x, y)))
    BY <1>3, <2>1, <2>3, <2>4
  <2> QED
    BY <2>3, <2>5
<1>6. ASSUME NEW y \in lo .. hi, NEW c \in Cells(bbox(Tile(z, x, y)))
      PROVE  c \in Cells(box)
  <2>1. y \in Nat
    OBVIOUS
  <2>2. /\ c \in Int \X Int /\ c[2] \in Int
        /\ x * size <= c[1] /\ c[1] < (x + 1) * size
        /\ -((y + 1) * size) <= c[2] /\ c[2] < -(y * size)
    BY <1>3, <2>1
  <2>3. lo * size <= y * size /\ (y + 1) * size <= (hi + 1) * size
    BY <1>1, Products
  <2>4. -((hi + 1) * size) <= c[2]
    BY <2>1, <2>2, <2>3, <1>2
  <2>5. c[2] < -(lo * size)
    BY <2>1, <2>2, <2>3, <1>2
  <2> QED
    BY <1>4, <2>2, <2>4, <2>5
<1> HIDE DEF box
<1>7. Cells(box) = UNION {Cells(bbox(Tile(z, x, y))) : y \in lo .. hi}
  BY <1>5, <1>6
<1> QED
  BY <1>7 DEF box, size

\* A chain is a column of tiles, and rangeToBbox the box around it.
LEMMA ChainIsColumn ==
  ASSUME NEW order \in Sorts, NEW r \in Seq(Tiles), Len(r) >= 1, Chain(r, order)
  PROVE  \E z \in 0 .. FinestZoom, x \in Nat, lo \in Nat, hi \in Nat :
           /\ lo <= hi
           /\ Members(r) = {Tile(z, x, y) : y \in lo .. hi}
           /\ rangeToBbox(r, order) =
                [west |-> x * Scale[z], east |-> (x + 1) * Scale[z],
                 north |-> -(lo * Scale[z]), south |-> -((hi + 1) * Scale[z])]
<1> DEFINE n == Len(r)
           z == r[1].z
           x == r[1].x
           first == r[1].y
           last == r[n].y
           lo == IF order = "asc" THEN first ELSE last
           hi == IF order = "asc" THEN last ELSE first
<1>1. n \in Nat /\ 1 \in 1 .. n /\ n \in 1 .. n
  BY LenProperties
<1>2. \A j \in 1 .. n : r[j] \in Tiles /\ r[j].y \in Nat
  <2>1. \A j \in 1 .. n : r[j] \in Tiles
    BY ElementOfSeq
  <2> QED
    BY <2>1 DEF Tiles
<1>3. z \in 0 .. FinestZoom /\ x \in Nat /\ first \in Nat /\ last \in Nat
  BY <1>1, <1>2 DEF Tiles
<1>4. ASSUME NEW j \in 1 .. n
      PROVE  /\ r[j].z = z /\ r[j].x = x
             /\ r[j].y = IF order = "asc" THEN first + (j - 1) ELSE first - (j - 1)
  BY DEF Chain
<1>5. ASSUME NEW j \in 1 .. n PROVE r[j] = Tile(z, x, r[j].y)
  <2>1. r[j] = [z |-> r[j].z, x |-> r[j].x, y |-> r[j].y]
    BY <1>2 DEF Tiles
  <2> QED
    BY <2>1, <1>4 DEF Tile
<1>6. last = IF order = "asc" THEN first + (n - 1) ELSE first - (n - 1)
  BY <1>1, <1>4
<1>7. lo \in Nat /\ hi \in Nat /\ hi = lo + (n - 1)
  BY <1>1, <1>3, <1>6
<1>8. \A j \in 1 .. n : r[j].y = IF order = "asc" THEN lo + (j - 1) ELSE hi - (j - 1)
  BY <1>4
<1>9. rangeToBbox(r, order) =
        [west |-> x * Scale[z], east |-> (x + 1) * Scale[z],
         north |-> -(lo * Scale[z]), south |-> -((hi + 1) * Scale[z])]
  <2>1. Head(r) = r[1] /\ Last(r) = r[n]
    BY <1>1 DEF Last
  <2>2. r[n].z = z /\ r[n].x = x
    BY <1>1, <1>4
  <2>3. bbox(r[1]) = [west |-> x * Scale[z], east |-> (x + 1) * Scale[z],
                      north |-> -(first * Scale[z]), south |-> -((first + 1) * Scale[z])]
    BY DEF bbox
  <2>4. bbox(r[n]) = [west |-> x * Scale[z], east |-> (x + 1) * Scale[z],
                      north |-> -(last * Scale[z]), south |-> -((last + 1) * Scale[z])]
    BY <2>2 DEF bbox
  <2>5. CASE order = "asc"
    BY <2>1, <2>3, <2>4, <2>5 DEF rangeToBbox
  <2>6. CASE order = "desc"
    BY <2>1, <2>3, <2>4, <2>6 DEF rangeToBbox
  <2> QED
    BY <2>5, <2>6 DEF Sorts
<1> HIDE DEF n, z, x, first, last, lo, hi
<1>10. Members(r) = {Tile(z, x, y) : y \in lo .. hi}
  <2>1. ASSUME NEW j \in 1 .. n PROVE r[j] \in {Tile(z, x, y) : y \in lo .. hi}
    <3>1. r[j].y \in lo .. hi
      BY <1>1, <1>7, <1>8
    <3> QED
      BY <3>1, <1>5
  <2>2. ASSUME NEW y \in lo .. hi PROVE \E j \in 1 .. n : r[j] = Tile(z, x, y)
    <3> DEFINE j == IF order = "asc" THEN y - lo + 1 ELSE hi - y + 1
    <3>1. j \in 1 .. n
      BY <1>1, <1>7
    <3>2. y = IF order = "asc" THEN lo + (j - 1) ELSE hi - (j - 1)
      BY <1>1, <1>7
    <3> HIDE DEF j
    <3>3. r[j].y = y
      BY <1>8, <3>1, <3>2
    <3> QED
      BY <3>1, <3>3, <1>5
  <2> QED
    BY <2>1, <2>2 DEF Members, n
<1>11. lo <= hi
  BY <1>1, <1>7
<1> QED
  BY <1>3, <1>7, <1>9, <1>10, <1>11, Zenon

\* The box of a chain has the cells of its tiles.
LEMMA BoxOfChain ==
  ASSUME NEW order \in Sorts, NEW r \in Seq(Tiles), Len(r) >= 1, Chain(r, order)
  PROVE  Cells(rangeToBbox(r, order)) = UNION {Cells(bbox(t)) : t \in Members(r)}
<1>1. PICK z \in 0 .. FinestZoom, x \in Nat, lo \in Nat, hi \in Nat :
           /\ lo <= hi
           /\ Members(r) = {Tile(z, x, y) : y \in lo .. hi}
           /\ rangeToBbox(r, order) =
                [west |-> x * Scale[z], east |-> (x + 1) * Scale[z],
                 north |-> -(lo * Scale[z]), south |-> -((hi + 1) * Scale[z])]
  BY ChainIsColumn
<1>2. Cells(rangeToBbox(r, order)) = UNION {Cells(bbox(Tile(z, x, y))) : y \in lo .. hi}
  BY <1>1, Column
<1>3. {Cells(bbox(t)) : t \in Members(r)} = {Cells(bbox(Tile(z, x, y))) : y \in lo .. hi}
  BY <1>1
<1> QED
  BY <1>2, <1>3

\* The boxes of ranges of one zoom cover the tiles of the ranges exactly.
LEMMA RangesCover ==
  ASSUME NEW order \in Sorts, NEW ranges, AreRanges(ranges, order),
         NEW z, \A t \in Tiled(ranges) : t.z = z
  PROVE  CoverExactly(buildBboxRange(ranges, order), Tiled(ranges))
<1> DEFINE N == Len(ranges)
           list == buildBboxRange(ranges, order)
           Area(i) == Cells(list[i])
<1>1. /\ N \in Nat /\ DOMAIN ranges = 1 .. N
      /\ \A i \in 1 .. N : ranges[i] \in Seq(Tiles)
  BY LenProperties, ElementOfSeq DEF AreRanges
<1>2. DOMAIN list = 1 .. N /\ \A i \in 1 .. N : list[i] = rangeToBbox(ranges[i], order)
  BY <1>1 DEF buildBboxRange
<1> HIDE DEF list
<1>3. ASSUME NEW i \in 1 .. N
      PROVE  Area(i) = UNION {Cells(bbox(t)) : t \in Members(ranges[i])}
  <2>1. ranges[i] \in Seq(Tiles) /\ Len(ranges[i]) >= 1 /\ Chain(ranges[i], order)
    BY <1>1 DEF AreRanges
  <2>2. list[i] = rangeToBbox(ranges[i], order)
    BY <1>2
  <2> QED
    BY <2>1, <2>2, BoxOfChain
<1>4. \A t : t \in Tiled(ranges) <=> \E i \in 1 .. N : t \in Members(ranges[i])
  BY DEF Tiled
<1>5. \A t \in Tiled(ranges) : t \in Tiles
  <2>1. \A i \in 1 .. N : \A j \in 1 .. Len(ranges[i]) : ranges[i][j] \in Tiles
    BY <1>1, ElementOfSeq
  <2> QED
    BY <2>1, <1>4 DEF Members
<1> HIDE DEF Area
<1>6. UNION {Area(i) : i \in 1 .. N} = UNION {Cells(bbox(t)) : t \in Tiled(ranges)}
  <2>1. ASSUME NEW c
        PROVE  (\E i \in 1 .. N : c \in Area(i)) <=> \E t \in Tiled(ranges) : c \in Cells(bbox(t))
    <3>1. \A i \in 1 .. N : c \in Area(i) <=> \E t \in Members(ranges[i]) : c \in Cells(bbox(t))
      BY <1>3
    <3> QED
      BY <3>1, <1>4
  <2> QED
    BY <2>1
<1>7. ASSUME NEW i \in 1 .. N, NEW j \in 1 .. N, i # j PROVE Area(i) \cap Area(j) = {}
  <2> SUFFICES ASSUME NEW c \in Area(i), c \in Area(j) PROVE FALSE
    OBVIOUS
  <2>1. PICK t \in Members(ranges[i]) : c \in Cells(bbox(t))
    BY <1>3
  <2>2. PICK u \in Members(ranges[j]) : c \in Cells(bbox(u))
    BY <1>3
  <2>3. t # u
    BY <1>7 DEF AreRanges
  <2>4. t \in Tiled(ranges) /\ u \in Tiled(ranges)
    BY <1>4
  <2>5. t \in Tiles /\ u \in Tiles /\ t.z = u.z
    BY <2>4, <1>5
  <2> QED
    BY <2>1, <2>2, <2>3, <2>5, TilesApart
<1> DEFINE area == [i \in DOMAIN list |-> Cells(list[i])]
<1>8. \A i \in 1 .. N : area[i] = Area(i)
  BY <1>2 DEF Area
<1> HIDE DEF area
<1>9. UNION {area[i] : i \in DOMAIN list} = UNION {Cells(bbox(t)) : t \in Tiled(ranges)}
  BY <1>2, <1>6, <1>8
<1>10. \A i, j \in DOMAIN list : i # j => area[i] \cap area[j] = {}
  BY <1>2, <1>7, <1>8
<1> QED
  BY <1>9, <1>10 DEF CoverExactly, area, list

--------------------------------------------------------------------------------
(* The zoom of the boxes.                                                  *)

\* Of two zooms with numerals of one length, the text of a tile of the larger comes
\* after.
LEMMA LargerZoomAfter ==
  ASSUME NEW s \in Tiles, NEW t \in Tiles, s.z < t.z,
         Len(Numeral(s.z)) = Len(Numeral(t.z))
  PROVE  TextBefore(Text(s), Text(t))
<1> DEFINE a == Numeral(s.z)
           b == Numeral(t.z)
<1>1. s.z \in Nat /\ t.z \in Nat
  BY ZoomAssumption DEF Tiles
<1>2. PICK i \in 1 .. Len(a) : (\A j \in 1 .. i - 1 : a[j] = b[j]) /\ a[i] < b[i]
  BY <1>1, SmallerNumeral
<1>3. /\ Len(a) \in Nat /\ Len(a) = Len(b)
      /\ Len(Text(s)) > Len(a) /\ Len(Text(t)) > Len(b)
      /\ \A j \in 1 .. Len(a) : Text(s)[j] = a[j] /\ Text(t)[j] = b[j]
      /\ Len(Text(s)) \in Nat /\ Len(Text(t)) \in Nat
  BY TextType, LenProperties
<1> HIDE DEF a, b
<1>4. i \in 1 .. Len(Text(t))
  BY <1>3
<1>5. \A j \in 1 .. i - 1 : j <= Len(Text(s)) /\ Text(s)[j] = Text(t)[j]
  BY <1>2, <1>3
<1>6. Text(s)[i] < Text(t)[i]
  BY <1>2, <1>3
<1> QED
  BY <1>4, <1>5, <1>6 DEF TextBefore

\* getMaxZoom returns a zoom of the list, and its largest when the numerals of the
\* zooms have one length.
LEMMA ZoomOfBoxes ==
  ASSUME NEW order \in Sorts, NEW list \in SUBSET Tiles, IsFiniteSet(list), list # {}
  PROVE  LET zoom == getMaxZoom(sortArrAlphabetically(list, order), order)
         IN  /\ \E t \in list : t.z = zoom
             /\ (\A s, t \in list : Len(Numeral(s.z)) = Len(Numeral(t.z)))
                  => \A t \in list : zoom >= t.z
<1> DEFINE sorted == sortArrAlphabetically(list, order)
           N == Len(sorted)
           top == IF order = "desc" THEN sorted[1] ELSE sorted[N]
<1>1. /\ sorted \in Seq(list)
      /\ \A t \in list : \E i \in 1 .. N : sorted[i] = t
      /\ \A i, j \in 1 .. N : i < j => sortsBefore(sorted[i], sorted[j], order)
  BY SortedList
<1> HIDE DEF sorted
<1>2. N \in Nat /\ 1 \in 1 .. N /\ N \in 1 .. N
  <2>1. N \in Nat
    BY <1>1, LenProperties
  <2>2. \E i \in 1 .. N : TRUE
    BY <1>1
  <2> QED
    BY <2>1, <2>2
<1>3. sorted # <<>> /\ Head(sorted) = sorted[1] /\ Last(sorted) = sorted[N]
  BY <1>1, <1>2 DEF Last
<1>4. getMaxZoom(sorted, order) = top.z
  BY <1>3 DEF getMaxZoom
<1>5. top \in list
  BY <1>1, <1>2, ElementOfSeq
<1>6. ASSUME NEW t \in list PROVE t = top \/ TextBefore(Text(t), Text(top))
  <2>1. PICK i \in 1 .. N : sorted[i] = t
    BY <1>1
  <2>2. CASE order = "desc"
    <3>1. i = 1 \/ 1 < i
      BY <1>2
    <3>2. 1 < i => sortsBefore(sorted[1], sorted[i], order)
      BY <1>1, <1>2
    <3> QED
      BY <3>1, <3>2, <2>1, <2>2 DEF sortsBefore
  <2>3. CASE order # "desc"
    <3>1. i = N \/ i < N
      BY <1>2
    <3>2. i < N => sortsBefore(sorted[i], sorted[N], order)
      BY <1>1, <1>2
    <3> QED
      BY <3>1, <3>2, <2>1, <2>3 DEF sortsBefore
  <2> QED
    BY <2>2, <2>3
<1> HIDE DEF top, N
<1>7. ASSUME \A s, t \in list : Len(Numeral(s.z)) = Len(Numeral(t.z)), NEW t \in list
      PROVE  top.z >= t.z
  <2>1. top \in Tiles /\ t \in Tiles /\ top.z \in Nat /\ t.z \in Nat
    <3>1. top \in Tiles /\ t \in Tiles
      BY <1>5
    <3> QED
      BY <3>1, ZoomAssumption DEF Tiles
  <2> SUFFICES ASSUME top.z < t.z PROVE FALSE
    BY <2>1
  <2>2. Len(Numeral(top.z)) = Len(Numeral(t.z))
    BY <1>5, <1>7
  <2>3. TextBefore(Text(top), Text(t))
    BY <2>1, <2>2, LargerZoomAfter
  <2>4. TextBefore(Text(t), Text(top))
    BY <1>6, <2>1
  <2>5. Text(t) \in Seq(Int) /\ Text(top) \in Seq(Int)
    BY <2>1, TextType
  <2> QED
    BY <2>3, <2>4, <2>5, TextTransitive, TextIrreflexive
<1> QED
  BY <1>4, <1>5, <1>7 DEF sorted

--------------------------------------------------------------------------------
(* The boxes of a list.                                                    *)

\* What the parser returns covers the lines that survive the filters of one zoom.
LEMMA ParsedListCovers ==
  ASSUME NEW order \in Sorts, NEW list \in SUBSET Tiles, IsFiniteSet(list), NEW filter
  PROVE  LET zoom == getMaxZoom(sortArrAlphabetically(list, order), order)
         IN  CoverExactly(parseExpireListToFilteredBbox(list, filter, order),
                          {t \in list : survives(t, zoom, filter)})
<1> DEFINE sorted == sortArrAlphabetically(list, order)
           zoom == getMaxZoom(sorted, order)
           tiles == expireListToFilteredTiles(sorted, zoom, filter)
           ranges == buildTileRange(tiles, order)
<1>1. /\ sorted \in Seq(list)
      /\ \A t \in list : \E i \in 1 .. Len(sorted) : sorted[i] = t
      /\ \A i, j \in 1 .. Len(sorted) : i < j => sortsBefore(sorted[i], sorted[j], order)
  BY SortedList
<1>2. parseExpireListToFilteredBbox(list, filter, order) = buildBboxRange(ranges, order)
  BY DEF parseExpireListToFilteredBbox
<1> HIDE DEF sorted
<1>3. sorted \in Seq(Tiles) /\ Members(sorted) = list
  <2>1. \A i \in 1 .. Len(sorted) : sorted[i] \in list
    BY <1>1, ElementOfSeq
  <2>2. sorted \in Seq(Tiles)
    BY <1>1, SeqMonotonic
  <2> QED
    BY <1>1, <2>1, <2>2 DEF Members
<1>4. Distinct(sorted)
  <2> SUFFICES ASSUME NEW i \in 1 .. Len(sorted), NEW j \in 1 .. Len(sorted), i # j
               PROVE  sorted[i] # sorted[j]
    BY DEF Distinct
  <2>1. sorted[i] \in Tiles /\ sorted[j] \in Tiles
    BY <1>3, ElementOfSeq
  <2>2. sortsBefore(sorted[i], sorted[j], order) \/ sortsBefore(sorted[j], sorted[i], order)
    BY <1>1
  <2> QED
    BY <2>1, <2>2, SortOrder
<1> HIDE DEF zoom
<1>5. /\ tiles \in Seq(Tiles)
      /\ Distinct(tiles)
      /\ Members(tiles) = {t \in list : survives(t, zoom, filter)}
  BY <1>3, <1>4, FilteredTiles
<1> HIDE DEF tiles
<1>6. AreRanges(ranges, order) /\ Tiled(ranges) = {t \in list : survives(t, zoom, filter)}
  BY <1>5, TileRanges
<1> HIDE DEF ranges
<1>7. \A t \in Tiled(ranges) : t.z = zoom
  BY <1>6 DEF survives, getFilterByZoomFunc
<1>8. CoverExactly(buildBboxRange(ranges, order), Tiled(ranges))
  BY <1>6, <1>7, RangesCover
<1> QED
  BY <1>2, <1>6, <1>8 DEF sorted, zoom

\* The boxes of the parser are those of its input.
ParsedBoxes ==
  /\ expireList \in SUBSET Lines
  /\ sort \in Sorts
  /\ parsed => boxes = parseExpireListToFilteredBbox(expireList, geometry, sort)

\* Every step keeps them so.
LEMMA BoxesOfInput == Spec => []ParsedBoxes
<1>1. Init => ParsedBoxes
  BY DEF Init, ParsedBoxes
<1>2. ParsedBoxes /\ [Next]_vars => ParsedBoxes'
  <2> SUFFICES ASSUME ParsedBoxes, [Next]_vars PROVE ParsedBoxes'
    OBVIOUS
  <2>1. CASE Parse
    BY <2>1 DEF Parse, ParsedBoxes
  <2>2. CASE UNCHANGED vars
    BY <2>2 DEF vars, ParsedBoxes
  <2> QED
    BY <2>1, <2>2 DEF Next
<1> HIDE DEF ParsedBoxes
<1> QED
  BY <1>1, <1>2, PTL DEF Spec

\* The boxes of a list cover what survives of one of its zooms, and of its largest
\* when the numerals of the zooms have one length.
LEMMA InputCovered == ParsedBoxes => BoxesCoverOneZoom
<1> SUFFICES ASSUME ParsedBoxes, parsed, expireList # {}
             PROVE  \E z \in Zooms :
                      /\ CoverExactly(boxes, Surviving(z))
                      /\ (\A a, b \in Zooms : Len(Numeral(a)) = Len(Numeral(b)))
                           => z = Max(Zooms)
  BY DEF BoxesCoverOneZoom
<1> DEFINE z == getMaxZoom(sortArrAlphabetically(expireList, sort), sort)
<1>1. /\ expireList \in SUBSET Tiles /\ IsFiniteSet(expireList) /\ sort \in Sorts
      /\ boxes = parseExpireListToFilteredBbox(expireList, geometry, sort)
  <2>1. expireList \in SUBSET Lines /\ sort \in Sorts
    BY DEF ParsedBoxes
  <2>2. IsFiniteSet(expireList)
    BY <2>1, LinesAssumption, FS_Subset
  <2>3. Lines \subseteq Tiles
    BY LinesAssumption DEF Tiles
  <2> QED
    BY <2>1, <2>2, <2>3 DEF ParsedBoxes
<1>2. CoverExactly(boxes, {t \in expireList : survives(t, z, geometry)})
  BY <1>1, ParsedListCovers
<1>3. /\ \E t \in expireList : t.z = z
      /\ (\A s, t \in expireList : Len(Numeral(s.z)) = Len(Numeral(t.z)))
           => \A t \in expireList : z >= t.z
  BY <1>1, ZoomOfBoxes
<1> HIDE DEF z
<1>4. z \in Zooms /\ \A a \in Zooms : a \in Nat
  <2>1. \A t \in expireList : t.z \in Nat
    BY <1>1, ZoomAssumption DEF Tiles
  <2> QED
    BY <2>1, <1>3 DEF Zooms
<1>5. ASSUME \A a, b \in Zooms : Len(Numeral(a)) = Len(Numeral(b)) PROVE z = Max(Zooms)
  <2>1. \A t \in expireList : t.z \in Zooms
    BY DEF Zooms
  <2>2. \A a \in Zooms : z >= a
    BY <1>3, <1>5, <2>1 DEF Zooms
  <2>3. Max(Zooms) \in Zooms /\ \A a \in Zooms : Max(Zooms) >= a
    BY <1>4, <2>2 DEF Max
  <2> QED
    BY <1>4, <2>2, <2>3
<1>6. CoverExactly(boxes, Surviving(z))
  BY <1>2 DEF Surviving
<1> QED
  BY <1>4, <1>5, <1>6

\* Whatever the tiles, the filter and the sort, the boxes cover what survives the
\* filters of one zoom of the list, nothing else and nothing twice, and that zoom is
\* the largest unless the numerals of the zooms differ in length
\* (parseExpireListToFilteredBbox).
THEOREM BoxesAreExact == Spec => []BoxesCoverOneZoom
<1> HIDE DEF ParsedBoxes, BoxesCoverOneZoom
<1> QED
  BY BoxesOfInput, InputCovered, PTL

\* What helm/README.md:69 says of the top zoom holds of every list whose zooms have
\* numerals of one length (ExpireTilesParser.getMaxZoom).
THEOREM TopZoomIsCovered ==
  Spec => []((\A a, b \in Zooms : Len(Numeral(a)) = Len(Numeral(b))) => BoxesCoverTopZoom)
<1> DEFINE OneLength == \A a, b \in Zooms : Len(Numeral(a)) = Len(Numeral(b))
<1>1. BoxesCoverOneZoom => (OneLength => BoxesCoverTopZoom)
  <2> SUFFICES ASSUME BoxesCoverOneZoom, OneLength, parsed, expireList # {}
               PROVE  CoverExactly(boxes, Surviving(Max(Zooms)))
    BY DEF BoxesCoverTopZoom
  <2>1. PICK z \in Zooms : CoverExactly(boxes, Surviving(z)) /\ (OneLength => z = Max(Zooms))
    BY DEF BoxesCoverOneZoom
  <2> QED
    BY <2>1
<1> HIDE DEF OneLength, BoxesCoverOneZoom, BoxesCoverTopZoom
<1>2. Spec => [](OneLength => BoxesCoverTopZoom)
  BY <1>1, BoxesAreExact, PTL
<1> QED
  BY <1>2 DEF OneLength
================================================================================
