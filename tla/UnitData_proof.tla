---------------------------- MODULE UnitData_proof ----------------------------
(***************************************************************************)
(* What the proofs about units share: induction, and the laws of the bit   *)
(* fields of unit_data for every choice of their widths.                   *)
(***************************************************************************)
EXTENDS UnitData, WellFoundedInduction, NaturalsInduction, TLAPS

USE HalfAssumption, SecondAssumption

(***************************************************************************)
(* Induction, stated of a set: the provers do not instantiate the theorem  *)
(* of the library, which is about an operator.                             *)
(***************************************************************************)

\* A set of natural numbers that is not empty has a least member.
LEMMA LeastNumber ==
  ASSUME NEW T, T \subseteq Nat, T # {}
  PROVE  \E m \in T : \A k \in T : m <= k
<1> DEFINE R == {ss \in Nat \X Nat : ss[1] < ss[2]}
<1>1. IsWellFoundedOn(R, Nat)
  BY NatLessThanWellFounded DEF OpToRel
<1>2. PICK m \in T : \A k \in T : <<k, m>> \notin R
  BY <1>1, WFMin
<1>3. \A k \in T : ~(k < m)
  BY <1>2
<1> QED  BY <1>3

\* A set that has 0, and n + 1 when it has n, has every natural number.
LEMMA InductionOnSet ==
  ASSUME NEW S, 0 \in S, \A n \in Nat : n \in S => n + 1 \in S
  PROVE  Nat \subseteq S
<1> DEFINE T == Nat \ S
<1> SUFFICES ASSUME T # {} PROVE FALSE
  OBVIOUS
<1>1. PICK m \in T : \A k \in T : m <= k
  BY LeastNumber
<1>2. m - 1 \in Nat
  BY <1>1
<1>3. m - 1 \in S
  BY <1>1, <1>2
<1> QED  BY <1>2, <1>3

\* A sequence may be defined by its first member and by what makes each
\* member of the one before it.
IsSequence(f, V, first, G) ==
  /\ f \in [Nat -> V]
  /\ f[0] = first
  /\ \A n \in Nat : f[n + 1] = G[<<n, f[n]>>]

\* A sequence may be defined by its first member and the next of each.
LEMMA RecursiveSequence ==
  ASSUME NEW V, NEW first \in V, NEW G \in [Nat \X V -> V]
  PROVE  \E f : IsSequence(f, V, first, G)
<1> DEFINE Solves(f, n) == /\ f \in [0..n -> V]
                           /\ f[0] = first
                           /\ \A k \in 0..(n - 1) : f[k + 1] = G[<<k, f[k]>>]
<1>1. \A n \in Nat : \E f \in [0..n -> V] : Solves(f, n)
  <2> DEFINE S == {n \in Nat : \E f \in [0..n -> V] : Solves(f, n)}
  <2>1. 0 \in S
    <3> DEFINE f == [k \in 0..0 |-> first]
    <3>1. Solves(f, 0)
      OBVIOUS
    <3> QED  BY <3>1
  <2>2. ASSUME NEW n \in Nat, n \in S PROVE n + 1 \in S
    <3>1. PICK f \in [0..n -> V] : Solves(f, n)
      BY <2>2
    <3> DEFINE x == G[<<n, f[n]>>]
               g == [k \in 0..(n + 1) |-> IF k <= n THEN f[k] ELSE x]
    <3>2. x \in V
      OBVIOUS
    <3> HIDE DEF x
    <3>3. g \in [0..(n + 1) -> V]
      BY <3>2
    <3>4. \A k \in 0..n : g[k] = f[k]
      OBVIOUS
    <3>5. g[0] = first /\ g[n + 1] = x
      BY <3>1, <3>4
    <3>6. ASSUME NEW k \in 0..((n + 1) - 1) PROVE g[k + 1] = G[<<k, g[k]>>]
      <4>1. CASE k = n
        <5>1. g[k] = f[n] /\ g[k + 1] = x
          <6> HIDE DEF g
          <6> QED  BY <3>4, <3>5, <4>1
        <5> HIDE DEF g
        <5> QED  BY <4>1, <5>1 DEF x
      <4>2. CASE k # n
        <5>1. k \in 0..(n - 1) /\ k + 1 \in 0..n /\ k \in 0..n
          BY <4>2
        <5> HIDE DEF g
        <5> QED  BY <3>1, <3>4, <5>1
      <4> QED  BY <4>1, <4>2
    <3> HIDE DEF g
    <3>7. Solves(g, n + 1)
      BY <3>3, <3>5, <3>6
    <3> QED  BY <3>3, <3>7
  <2>3. Nat \subseteq S
    <3> HIDE DEF S
    <3> QED  BY <2>1, <2>2, InductionOnSet
  <2> QED  BY <2>3
<1>2. ASSUME NEW m \in Nat, NEW n \in Nat, NEW f, NEW g, Solves(f, m), Solves(g, n)
      PROVE  \A k \in Nat : k <= m /\ k <= n => f[k] = g[k]
  <2> DEFINE S == {k \in Nat : k <= m /\ k <= n => f[k] = g[k]}
  <2>1. 0 \in S
    BY <1>2
  <2>2. ASSUME NEW k \in Nat, k \in S PROVE k + 1 \in S
    <3> SUFFICES ASSUME k + 1 <= m, k + 1 <= n PROVE f[k + 1] = g[k + 1]
      OBVIOUS
    <3>1. k \in 0..(m - 1) /\ k \in 0..(n - 1) /\ f[k] = g[k]
      BY <2>2
    <3>2. f[k + 1] = G[<<k, f[k]>>] /\ g[k + 1] = G[<<k, g[k]>>]
      BY <1>2, <3>1
    <3> QED  BY <3>1, <3>2
  <2>3. Nat \subseteq S
    <3> HIDE DEF S
    <3> QED  BY <2>1, <2>2, InductionOnSet
  <2> QED  BY <2>3
<1> DEFINE s(n) == CHOOSE f \in [0..n -> V] : Solves(f, n)
           F == [n \in Nat |-> s(n)[n]]
<1>3. \A n \in Nat : Solves(s(n), n)
  BY <1>1
<1> HIDE DEF s
<1>4. F \in [Nat -> V] /\ F[0] = first
  BY <1>3
<1>5. ASSUME NEW n \in Nat PROVE F[n + 1] = G[<<n, F[n]>>]
  <2>1. Solves(s(n), n) /\ Solves(s(n + 1), n + 1) /\ n + 1 \in Nat
    BY <1>3
  <2>2. s(n + 1)[n] = s(n)[n]
    <3> HIDE DEF Solves
    <3> QED  BY <1>2, <2>1
  <2>3. s(n + 1)[n + 1] = G[<<n, s(n + 1)[n]>>]
    BY <2>1
  <2> QED  BY <2>2, <2>3
<1> HIDE DEF F
<1> QED  BY <1>4, <1>5 DEF IsSequence

-----------------------------------------------------------------------------
(***************************************************************************)
(* The fields: Wrap is reduction modulo the size of the field.             *)
(***************************************************************************)

\* A field holds an integer between its least and its greatest value.
LEMMA WrapRange ==
  ASSUME NEW b \in Base, NEW x \in Int
  PROVE  /\ Wrap(b, x) \in Int
         /\ MinVal(b) <= Wrap(b, x)
         /\ Wrap(b, x) <= MaxVal(b)
<1>1. Half[b] \in {2, 4, 8, 32, 128}
  OBVIOUS
<1>2. CASE Half[b] = 2    BY <1>2 DEF Wrap, MinVal, MaxVal
<1>3. CASE Half[b] = 4    BY <1>3 DEF Wrap, MinVal, MaxVal
<1>4. CASE Half[b] = 8    BY <1>4 DEF Wrap, MinVal, MaxVal
<1>5. CASE Half[b] = 32   BY <1>5 DEF Wrap, MinVal, MaxVal
<1>6. CASE Half[b] = 128  BY <1>6 DEF Wrap, MinVal, MaxVal
<1> QED  BY <1>1, <1>2, <1>3, <1>4, <1>5, <1>6

\* What fits the field is stored as it is.
LEMMA WrapFits ==
  ASSUME NEW b \in Base, NEW x \in Int, MinVal(b) <= x, x <= MaxVal(b)
  PROVE  Wrap(b, x) = x
<1>1. Half[b] \in {2, 4, 8, 32, 128}
  OBVIOUS
<1>2. CASE Half[b] = 2    BY <1>2 DEF Wrap, MinVal, MaxVal
<1>3. CASE Half[b] = 4    BY <1>3 DEF Wrap, MinVal, MaxVal
<1>4. CASE Half[b] = 8    BY <1>4 DEF Wrap, MinVal, MaxVal
<1>5. CASE Half[b] = 32   BY <1>5 DEF Wrap, MinVal, MaxVal
<1>6. CASE Half[b] = 128  BY <1>6 DEF Wrap, MinVal, MaxVal
<1> QED  BY <1>1, <1>2, <1>3, <1>4, <1>5, <1>6

Congruent(b, x, y) == \E k \in Int : y = x + k * (2 * Half[b])

\* Storing changes an integer by a multiple of the size of the field.
LEMMA WrapCongruent ==
  ASSUME NEW b \in Base, NEW x \in Int
  PROVE  Congruent(b, x, Wrap(b, x))
<1> DEFINE k == -((x + Half[b]) \div (2 * Half[b]))
<1>1. Half[b] \in {2, 4, 8, 32, 128}
  OBVIOUS
<1>a. k \in Int /\ Wrap(b, x) = x + k * (2 * Half[b])
  <2>2. CASE Half[b] = 2    BY <2>2 DEF Wrap
  <2>3. CASE Half[b] = 4    BY <2>3 DEF Wrap
  <2>4. CASE Half[b] = 8    BY <2>4 DEF Wrap
  <2>5. CASE Half[b] = 32   BY <2>5 DEF Wrap
  <2>6. CASE Half[b] = 128  BY <2>6 DEF Wrap
  <2> QED  BY <1>1, <2>2, <2>3, <2>4, <2>5, <2>6
<1> QED  BY <1>a DEF Congruent

\* Congruent integers are stored as the same value.
LEMMA CongruentWrap ==
  ASSUME NEW b \in Base, NEW x \in Int, NEW y \in Int, Congruent(b, x, y)
  PROVE  Wrap(b, y) = Wrap(b, x)
<1>1. Half[b] \in {2, 4, 8, 32, 128}
  OBVIOUS
<1>k. PICK k \in Int : y = x + k * (2 * Half[b])
  BY DEF Congruent
<1>2. CASE Half[b] = 2    BY <1>2, <1>k DEF Wrap
<1>3. CASE Half[b] = 4    BY <1>3, <1>k DEF Wrap
<1>4. CASE Half[b] = 8    BY <1>4, <1>k DEF Wrap
<1>5. CASE Half[b] = 32   BY <1>5, <1>k DEF Wrap
<1>6. CASE Half[b] = 128  BY <1>6, <1>k DEF Wrap
<1> QED  BY <1>1, <1>2, <1>3, <1>4, <1>5, <1>6

\* The arithmetic of the fields is that of the integers modulo their size.
LEMMA CongruentArithmetic ==
  ASSUME NEW b \in Base, NEW x \in Int, NEW w \in Int, NEW y \in Int,
         Congruent(b, x, w)
  PROVE  /\ Congruent(b, x + y, w + y)
         /\ Congruent(b, x - y, w - y)
         /\ Congruent(b, -x, -w)
         /\ Congruent(b, x * y, w * y)
<1>1. PICK k \in Int : w = x + k * (2 * Half[b])
  BY DEF Congruent
<1>2. Half[b] \in Int
  OBVIOUS
<1>3. w + y = (x + y) + k * (2 * Half[b]) /\ w - y = (x - y) + k * (2 * Half[b])
  BY <1>1, <1>2
<1>4. -w = -x + (-k) * (2 * Half[b])
  BY <1>1, <1>2
<1>5. w * y = x * y + (k * y) * (2 * Half[b])
  BY <1>1, <1>2
<1>6. -k \in Int /\ k * y \in Int
  OBVIOUS
<1> QED  BY <1>3, <1>4, <1>5, <1>6 DEF Congruent

\* Wrapping an argument of +, - or * first makes no difference to the result.
LEMMA WrapArithmetic ==
  ASSUME NEW b \in Base, NEW x \in Int, NEW y \in Int
  PROVE  /\ Wrap(b, Wrap(b, x) + y) = Wrap(b, x + y)
         /\ Wrap(b, Wrap(b, x) - y) = Wrap(b, x - y)
         /\ Wrap(b, -Wrap(b, x)) = Wrap(b, -x)
         /\ Wrap(b, Wrap(b, x) * y) = Wrap(b, x * y)
<1> DEFINE w == Wrap(b, x)
<1>1. w \in Int /\ Congruent(b, x, w)
  BY WrapRange, WrapCongruent
<1> HIDE DEF w
<1>2. /\ Congruent(b, x + y, w + y)
      /\ Congruent(b, x - y, w - y)
      /\ Congruent(b, -x, -w)
      /\ Congruent(b, x * y, w * y)
  BY <1>1, CongruentArithmetic
<1>3. /\ x + y \in Int /\ w + y \in Int /\ x - y \in Int /\ w - y \in Int
      /\ -x \in Int /\ -w \in Int /\ x * y \in Int /\ w * y \in Int
  BY <1>1
<1>4. /\ Wrap(b, w + y) = Wrap(b, x + y)
      /\ Wrap(b, w - y) = Wrap(b, x - y)
      /\ Wrap(b, -w) = Wrap(b, -x)
      /\ Wrap(b, w * y) = Wrap(b, x * y)
  BY <1>2, <1>3, CongruentWrap
<1> QED  BY <1>4 DEF w

\* The constructor of unit_data stores any integers.
LEMMA StoreTyped ==
  ASSUME NEW e \in [Base -> Int], NEW flags \in SUBSET Flag
  PROVE  /\ unit_data(e, flags) \in UnitDataType
         /\ InFields(unit_data(e, flags))
         /\ \A b \in Base : unit_data(e, flags).exp[b] = Wrap(b, e[b])
<1>1. \A b \in Base : /\ Wrap(b, e[b]) \in Int
                      /\ MinVal(b) <= Wrap(b, e[b])
                      /\ Wrap(b, e[b]) <= MaxVal(b)
  BY WrapRange
<1> QED  BY <1>1 DEF unit_data, UnitDataType, InFields
=============================================================================
