---------------------------- MODULE OrderLemmas ----------------------------
(* Extrema of sets of numbers, sums over an interval, and what the picking  *)
(* operators of the community modules come to.  The proofs use the principle *)
(* of the least number, in the form WFMin gives it.                         *)
EXTENDS FiniteSetTheorems, TLAPS

\* A set of natural numbers that is not empty has a least element.
LEMMA Smallest ==
  ASSUME NEW T, T \subseteq Nat, T # {}
  PROVE  \E x \in T : \A y \in T : x <= y
<1> DEFINE R == {ss \in Nat \X Nat : ss[1] < ss[2]}
<1>1. IsWellFoundedOn(R, Nat)
  BY NatLessThanWellFounded DEF OpToRel
<1> HIDE DEF R
<1>2. PICK x \in T : \A y \in T : ~(<<y, x>> \in R)
  BY <1>1, WFMin
<1>3. \A y \in T : ~(y < x)
  BY <1>2 DEF R
<1> QED BY <1>3

\* A set of integers with an upper bound has a greatest element.
LEMMA Greatest ==
  ASSUME NEW T, T \subseteq Int, T # {}, NEW b \in Int, \A y \in T : y <= b
  PROVE  \E x \in T : \A y \in T : y <= x
<1> DEFINE U == {b - y : y \in T}
<1>1. U \subseteq Nat /\ U # {}
  <2>1. ASSUME NEW y \in T PROVE b - y \in Nat
    <3>1. y \in Int /\ y <= b
      OBVIOUS
    <3> QED BY <3>1
  <2> QED BY <2>1
<1>2. PICK z \in U : \A w \in U : z <= w
  BY <1>1, Smallest
<1>3. PICK x \in T : z = b - x
  BY <1>2
<1>4. \A y \in T : b - x <= b - y
  BY <1>2, <1>3
<1> QED BY <1>3, <1>4

\* The sum of the first values of a function, as a recursive definition gives
\* it, is a natural number when the values are.
LEMMA SumIsNat ==
  ASSUME NEW N \in Nat, NEW u, \A i \in 0 .. N - 1 : u[i] \in Nat,
         NEW sum, sum = CHOOSE f : f = [n \in 0 .. N |-> IF n = 0 THEN 0 ELSE f[n - 1] + u[n - 1]]
  PROVE  sum[N] \in Nat
<1> DEFINE Sums(f, m) == /\ f \in [0 .. m -> Nat]
                         /\ f[0] = 0
                         /\ \A i \in 1 .. m : f[i] = f[i - 1] + u[i - 1]
           Bad == {m \in 0 .. N : ~ \E f : Sums(f, m)}
<1>1. Bad = {}
  <2> SUFFICES ASSUME Bad # {} PROVE FALSE
    OBVIOUS
  <2>1. PICK m \in Bad : \A k \in Bad : m <= k
    <3> HIDE DEF Bad
    <3>1. Bad \subseteq Nat
      BY DEF Bad
    <3> QED BY <3>1, Smallest
  <2>2. m # 0
    <3> DEFINE z == [i \in 0 .. 0 |-> 0]
    <3>1. Sums(z, 0)
      OBVIOUS
    <3> QED BY <3>1
  <2>3. m \in 0 .. N /\ m - 1 \in 0 .. N
    BY <2>1, <2>2
  <2>4. PICK f : Sums(f, m - 1)
    <3>1. m - 1 \notin Bad
      <4> HIDE DEF Bad
      <4> QED BY <2>1, <2>3
    <3> HIDE DEF Sums
    <3> QED BY <2>3, <3>1
  <2> DEFINE g == [i \in 0 .. m |-> IF i = m THEN f[m - 1] + u[m - 1] ELSE f[i]]
  <2>5. g \in [0 .. m -> Nat]
    BY <2>2, <2>3, <2>4
  <2>6. g[0] = 0
    BY <2>2, <2>3, <2>4
  <2>7. \A i \in 1 .. m : g[i] = g[i - 1] + u[i - 1]
    BY <2>2, <2>3, <2>4
  <2>8. Sums(g, m)
    BY <2>5, <2>6, <2>7
  <2> QED BY <2>1, <2>8
<1>2. PICK f : Sums(f, N)
  <2>1. N \in 0 .. N
    OBVIOUS
  <2>2. N \notin Bad
    <3> HIDE DEF Bad
    <3> QED BY <1>1
  <2> HIDE DEF Sums
  <2> QED BY <2>1, <2>2, Zenon
<1> DEFINE G(h) == [n \in 0 .. N |-> IF n = 0 THEN 0 ELSE h[n - 1] + u[n - 1]]
<1>3. f = G(f)
  <2>1. \A n \in 0 .. N : f[n] = G(f)[n]
    BY <1>2
  <2> QED BY <1>2, <2>1
<1> HIDE DEF Sums
<1>4. sum = G(sum)
  BY <1>3
<1> DEFINE Off == {n \in 0 .. N : sum[n] \notin Nat}
<1>5. Off = {}
  <2> SUFFICES ASSUME Off # {} PROVE FALSE
    OBVIOUS
  <2>1. PICK n \in Off : \A k \in Off : n <= k
    <3> HIDE DEF Off
    <3>1. Off \subseteq Nat
      BY DEF Off
    <3> QED BY <3>1, Smallest
  <2>2. sum[0] = 0 /\ \A i \in 0 .. N : i # 0 => sum[i] = sum[i - 1] + u[i - 1]
    <3>1. \A i \in 0 .. N : sum[i] = G(sum)[i]
      BY <1>4
    <3> QED BY <3>1
  <2>3. n # 0 /\ n \in 0 .. N
    BY <2>1, <2>2
  <2>4. n - 1 \in 0 .. N /\ n - 1 \notin Off
    BY <2>1, <2>3
  <2>5. sum[n - 1] \in Nat /\ u[n - 1] \in Nat
    BY <2>3, <2>4
  <2> QED BY <2>1, <2>2, <2>3, <2>5
<1> QED BY <1>5

\* Sums of zeros and ones over the subsets of a set, as MapThenSumSet takes
\* them: one element after the other.
AnyOf(s) == CHOOSE x \in s : TRUE
Ones(s, g) == {x \in s : g[x] = 1}
Sums(S, g, f) == \A s \in SUBSET S :
                   f[s] = IF s = {} THEN 0 ELSE g[AnyOf(s)] + f[s \ {AnyOf(s)}]

LEMMA AnyOfIs == ASSUME NEW s, s # {} PROVE AnyOf(s) \in s
BY DEF AnyOf

\* The numbers of ones are such sums ...
LEMMA BitsCounted ==
  ASSUME NEW S, IsFiniteSet(S), NEW g, \A x \in S : g[x] \in {0, 1}
  PROVE  Sums(S, g, [s \in SUBSET S |-> Cardinality(Ones(s, g))])
<1>1. Cardinality(Ones({}, g)) = 0
  <2>1. Ones({}, g) = {}
    BY DEF Ones
  <2> QED BY <2>1, FS_EmptySet
<1>2. ASSUME NEW s \in SUBSET S, s # {}
      PROVE  Cardinality(Ones(s, g)) = g[AnyOf(s)] + Cardinality(Ones(s \ {AnyOf(s)}, g))
  <2> DEFINE x == AnyOf(s)
             r == Ones(s \ {x}, g)
  <2>1. x \in s /\ g[x] \in {0, 1}
    BY <1>2, AnyOfIs
  <2>2. IsFiniteSet(r)
    <3>1. r \subseteq S
      BY DEF Ones
    <3> QED BY <3>1, FS_Subset
  <2>3. Cardinality(r) \in Nat
    BY <2>2, FS_CardinalityType
  <2> HIDE DEF x
  <2>4. CASE g[x] = 1
    <3>1. Ones(s, g) = r \cup {x} /\ x \notin r
      BY <2>1, <2>4 DEF Ones
    <3> HIDE DEF r
    <3>2. Cardinality(Ones(s, g)) = Cardinality(r) + 1
      BY <2>2, <3>1, FS_AddElement
    <3> QED BY <2>3, <2>4, <3>2 DEF x, r
  <2>5. CASE g[x] = 0
    <3>1. Ones(s, g) = r
      BY <2>1, <2>5 DEF Ones
    <3> HIDE DEF r
    <3> QED BY <2>3, <2>5, <3>1 DEF x, r
  <2> QED BY <2>1, <2>4, <2>5
<1>3. \A s \in SUBSET S : s \ {AnyOf(s)} \in SUBSET S
  OBVIOUS
<1> QED BY <1>1, <1>2, <1>3 DEF Sums

\* ... and there are no others.
LEMMA SumOfBits ==
  ASSUME NEW S, IsFiniteSet(S), NEW g, \A x \in S : g[x] \in {0, 1},
         NEW sum, Sums(S, g, sum)
  PROVE  sum[S] = Cardinality(Ones(S, g))
<1> DEFINE F == [s \in SUBSET S |-> Cardinality(Ones(s, g))]
           Bad == {n \in Nat : \E s \in SUBSET S : Cardinality(s) = n /\ sum[s] # F[s]}
<1>1. \A s \in SUBSET S : IsFiniteSet(s) /\ Cardinality(s) \in Nat
  BY FS_Subset, FS_CardinalityType
<1>2. Sums(S, g, F)
  BY BitsCounted
<1> HIDE DEF F
<1>3. Bad = {}
  <2> SUFFICES ASSUME Bad # {} PROVE FALSE
    OBVIOUS
  <2>1. PICK n \in Bad : \A m \in Bad : n <= m
    <3> HIDE DEF Bad
    <3>1. Bad \subseteq Nat
      BY DEF Bad
    <3> QED BY <3>1, Smallest
  <2>2. PICK s \in SUBSET S : Cardinality(s) = n /\ sum[s] # F[s]
    BY <2>1
  <2>3. s # {}
    BY <1>2, <2>2 DEF Sums
  <2> DEFINE rest == s \ {AnyOf(s)}
  <2>4. rest \in SUBSET S /\ AnyOf(s) \in s
    BY <2>3, AnyOfIs
  <2>5. Cardinality(rest) = n - 1 /\ Cardinality(rest) \in Nat
    <3>1. IsFiniteSet(s)
      BY <1>1
    <3>2. Cardinality(rest) = Cardinality(s) - 1
      BY <2>4, <3>1, FS_RemoveElement
    <3> QED BY <1>1, <2>2, <2>4, <3>2
  <2>6. sum[rest] = F[rest]
    <3>1. n - 1 \notin Bad
      <4>1. n \in Nat
        BY <2>1
      <4> HIDE DEF Bad
      <4> QED BY <2>1, <4>1
    <3> QED BY <2>4, <2>5, <3>1
  <2>7. sum[s] = g[AnyOf(s)] + sum[rest] /\ F[s] = g[AnyOf(s)] + F[rest]
    BY <1>2, <2>3 DEF Sums
  <2> QED BY <2>2, <2>6, <2>7
<1>4. sum[S] = F[S]
  <2>1. S \in SUBSET S /\ Cardinality(S) \in Nat
    BY <1>1
  <2> QED BY <1>3, <2>1
<1> QED BY <1>4 DEF F
=============================================================================
