----------------------------- MODULE TallyProofs -----------------------------
(***************************************************************************)
(* The laws of Total that the invariance proofs use.                       *)
(***************************************************************************)
EXTENDS Tally, FiniteSetTheorems, TLAPS

\* The units of a bounded function over a finite set are finitely many.
LEMMA UnitsFinite ==
  ASSUME NEW S, IsFiniteSet(S), NEW Cap \in Nat, NEW f \in Tallies(S, Cap)
  PROVE  IsFiniteSet(Units(f, Cap))
<1>1. IsFiniteSet(1 .. Cap)
  BY FS_Interval
<1>2. IsFiniteSet(S \X (1 .. Cap))
  BY <1>1, FS_Product
<1>3. Units(f, Cap) \subseteq S \X (1 .. Cap)
  BY DEF Units, Tallies
<1> QED
  BY <1>2, <1>3, FS_Subset

LEMMA TotalIsNat ==
  ASSUME NEW S, IsFiniteSet(S), NEW Cap \in Nat, NEW f \in Tallies(S, Cap)
  PROVE  Total(f, Cap) \in Nat
  BY UnitsFinite, FS_CardinalityType DEF Total

\* A function that is zero everywhere sums to zero.
LEMMA TotalOfZero ==
  ASSUME NEW S, NEW Cap \in Nat
  PROVE  Total([x \in S |-> 0], Cap) = 0
<1>1. Units([x \in S |-> 0], Cap) = {}
  BY DEF Units
<1> QED
  BY <1>1, FS_EmptySet DEF Total

\* The units of one column, between two heights.
LEMMA Column ==
  ASSUME NEW x, NEW a \in Nat, NEW b \in Nat, a <= b
  PROVE  /\ IsFiniteSet({x} \X (a + 1 .. b))
         /\ Cardinality({x} \X (a + 1 .. b)) = b - a
<1> DEFINE low == a + 1
<1>0. /\ low \in Int
      /\ b \in Int
      /\ (IF low > b THEN 0 ELSE b - low + 1) = b - a
  OBVIOUS
<1>1. /\ IsFiniteSet(low .. b)
      /\ Cardinality(low .. b) = b - a
  <2> HIDE DEF low
  <2> QED
    BY <1>0, FS_Interval
<1>2. /\ IsFiniteSet({x})
      /\ Cardinality({x}) = 1
  BY FS_Singleton
<1>3. /\ IsFiniteSet({x} \X (a + 1 .. b))
      /\ Cardinality({x} \X (a + 1 .. b)) = Cardinality({x}) * Cardinality(a + 1 .. b)
  BY <1>1, <1>2, FS_Product
<1> QED
  BY <1>1, <1>2, <1>3

\* Raising one value from f[x] to n adds n - f[x] units.
LEMMA TotalRaise ==
  ASSUME NEW S, IsFiniteSet(S), NEW Cap \in Nat, NEW f \in Tallies(S, Cap),
         NEW x \in S, NEW n \in 0 .. Cap, f[x] <= n
  PROVE  Total([f EXCEPT ![x] = n], Cap) = Total(f, Cap) + (n - f[x])
<1> DEFINE g == [f EXCEPT ![x] = n]
           New == {x} \X (f[x] + 1 .. n)
<1>1. g \in Tallies(S, Cap)
  BY DEF Tallies
<1>2. /\ IsFiniteSet(New)
      /\ Cardinality(New) = n - f[x]
  <2>1. f[x] \in Nat /\ n \in Nat
    BY DEF Tallies
  <2> QED
    BY <2>1, Column
<1>3. IsFiniteSet(Units(f, Cap))
  BY UnitsFinite
<1>4. Units(g, Cap) = Units(f, Cap) \cup New
  BY DEF Units, Tallies
<1>5. Units(f, Cap) \cap New = {}
  BY DEF Units, Tallies
<1>6. Cardinality(Units(g, Cap)) =
        Cardinality(Units(f, Cap)) + Cardinality(New) - Cardinality({})
  <2> HIDE DEF g, New
  <2> QED
    BY <1>2, <1>3, <1>4, <1>5, FS_Union
<1>7. Cardinality({}) = 0
  BY FS_EmptySet
<1>8. /\ Cardinality(Units(f, Cap)) \in Nat
      /\ f[x] \in Nat
      /\ n \in Nat
  BY <1>3, FS_CardinalityType DEF Tallies
<1> QED
  BY <1>2, <1>6, <1>7, <1>8 DEF Total

\* Replacing one value, up or down, changes the sum by the difference.
LEMMA TotalUpdate ==
  ASSUME NEW S, IsFiniteSet(S), NEW Cap \in Nat, NEW f \in Tallies(S, Cap),
         NEW x \in S, NEW n \in 0 .. Cap
  PROVE  Total([f EXCEPT ![x] = n], Cap) = Total(f, Cap) + (n - f[x])
<1>1. CASE f[x] <= n
  BY <1>1, TotalRaise
<1>2. CASE n < f[x]
  <2> DEFINE g == [f EXCEPT ![x] = n]
  <2>1. /\ g \in Tallies(S, Cap)
        /\ f[x] \in 0 .. Cap
        /\ g[x] <= f[x]
    BY <1>2 DEF Tallies
  <2>2. [g EXCEPT ![x] = f[x]] = f
    BY DEF Tallies
  <2>3. Total([g EXCEPT ![x] = f[x]], Cap) = Total(g, Cap) + (f[x] - g[x])
    <3> HIDE DEF g
    <3> QED
      BY <2>1, TotalRaise
  <2>4. Total(g, Cap) \in Nat
    <3> HIDE DEF g
    <3> QED
      BY <2>1, TotalIsNat
  <2>5. g[x] = n /\ n \in Nat /\ f[x] \in Nat
    BY DEF Tallies
  <2>6. Total(f, Cap) = Total(g, Cap) + (f[x] - n)
    BY <2>2, <2>3, <2>5
  <2> QED
    BY <2>4, <2>5, <2>6
<1>3. f[x] \in Nat /\ n \in Nat
  BY DEF Tallies
<1> QED
  BY <1>1, <1>2, <1>3

\* No single value exceeds the sum.
LEMMA TotalBoundsEach ==
  ASSUME NEW S, IsFiniteSet(S), NEW Cap \in Nat, NEW f \in Tallies(S, Cap),
         NEW x \in S
  PROVE  f[x] <= Total(f, Cap)
<1> DEFINE g == [f EXCEPT ![x] = 0]
<1>1. /\ g \in Tallies(S, Cap)
      /\ 0 \in 0 .. Cap
      /\ f[x] \in Nat
  BY DEF Tallies
<1>2. Total(g, Cap) = Total(f, Cap) + (0 - f[x])
  BY <1>1, TotalUpdate
<1>3. Total(g, Cap) \in Nat /\ Total(f, Cap) \in Nat
  BY <1>1, TotalIsNat
<1> QED
  BY <1>1, <1>2, <1>3

\* A function that is the same everywhere sums to a product.
LEMMA TotalOfConstant ==
  ASSUME NEW S, IsFiniteSet(S), NEW Cap \in Nat, NEW n \in 0 .. Cap
  PROVE  Total([x \in S |-> n], Cap) = Cardinality(S) * n
<1>1. Units([x \in S |-> n], Cap) = S \X (1 .. n)
  BY DEF Units
<1>2. /\ IsFiniteSet(1 .. n)
      /\ Cardinality(1 .. n) = n
  <2>1. n \in Nat
    OBVIOUS
  <2> QED
    BY <2>1, FS_Interval
<1>3. Cardinality(S \X (1 .. n)) = Cardinality(S) * Cardinality(1 .. n)
  BY <1>2, FS_Product
<1> QED
  BY <1>1, <1>2, <1>3 DEF Total

\* Where a number falls among rows of a given width.
LEMMA RowAndPlace ==
  ASSUME NEW n \in Nat, NEW b \in Nat, NEW c \in Nat, n < c * b
  PROVE  /\ b > 0
         /\ n \div b \in 0 .. c - 1
         /\ n % b \in 0 .. b - 1
         /\ n = b * (n \div b) + (n % b)
<1>1. b > 0
  <2>1. CASE b = 0
    BY <2>1
  <2> QED
    BY <2>1
<1> DEFINE q == n \div b
           r == n % b
<1>2. q \in Nat /\ r \in 0 .. b - 1 /\ n = b * q + r
  BY <1>1
<1> HIDE DEF q, r
<1>3. ASSUME q >= c PROVE FALSE
  <2>1. b * q >= b * c
    BY <1>2, <1>3
  <2> QED
    BY <1>2, <2>1
<1>4. q \in 0 .. c - 1
  BY <1>2, <1>3
<1> QED
  BY <1>1, <1>2, <1>4 DEF q, r

LEMMA RowAndPlaceUnique ==
  ASSUME NEW a \in Nat, NEW i \in Nat, NEW j \in Nat, NEW s \in 0 .. a - 1,
         NEW t \in 0 .. a - 1, i * a + s = j * a + t
  PROVE  i = j /\ s = t
<1>1. ASSUME NEW k \in Nat, NEW l \in Nat, k < l PROVE k * a + a <= l * a
  <2>1. (k + 1) * a <= l * a
    BY <1>1
  <2> QED
    BY <2>1
<1>2. ~(i < j)
  <2>1. ASSUME i < j PROVE FALSE
    <3>1. i * a + a <= j * a
      BY <1>1, <2>1
    <3> QED
      BY <3>1
  <2> QED
    BY <2>1
<1>3. ~(j < i)
  <2>1. ASSUME j < i PROVE FALSE
    <3>1. j * a + a <= i * a
      BY <1>1, <2>1
    <3> QED
      BY <3>1
  <2> QED
    BY <2>1
<1> QED
  BY <1>2, <1>3

\* If a parts of g are at most b parts of f everywhere, so are their sums: the
\* units of g, a times, are numbered into the units of f, b times.
LEMMA TotalInProportion ==
  ASSUME NEW S, IsFiniteSet(S), NEW Cap \in Nat, NEW f \in Tallies(S, Cap),
         NEW g \in Tallies(S, Cap), NEW a \in Nat, NEW b \in Nat,
         \A x \in S : g[x] * a <= f[x] * b
  PROVE  Total(g, Cap) * a <= Total(f, Cap) * b
<1> DEFINE From == Units(g, Cap) \X (1 .. a)
           To == Units(f, Cap) \X (1 .. b)
           Number(p) == (p[1][2] - 1) * a + (p[2] - 1)
           Image(p) == <<<<p[1][1], Number(p) \div b + 1>>, (Number(p) % b) + 1>>
           map == [p \in From |-> Image(p)]
<1>1. \A p \in From : /\ p = <<<<p[1][1], p[1][2]>>, p[2]>>
                      /\ p[1][1] \in S
                      /\ p[1][2] \in 1 .. g[p[1][1]]
                      /\ p[2] \in 1 .. a
  BY DEF Units, Tallies
<1>2. \A x \in S : f[x] \in 0 .. Cap /\ g[x] \in 0 .. Cap
  BY DEF Tallies
<1>3. \A p \in From : Number(p) \in Nat /\ Number(p) < f[p[1][1]] * b
  <2> TAKE p \in From
  <2> DEFINE x == p[1][1]
             k == p[1][2]
             t == p[2]
  <2>1. x \in S /\ k \in 1 .. g[x] /\ t \in 1 .. a
    BY <1>1
  <2>2. f[x] \in Nat /\ g[x] \in Nat /\ g[x] * a <= f[x] * b
    BY <1>2, <2>1
  <2> HIDE DEF x, k, t
  <2>3. (k - 1) * a \in Nat /\ (k - 1) * a + a <= g[x] * a
    <3>1. k * a <= g[x] * a
      BY <2>1, <2>2
    <3>2. (k - 1) * a + a = k * a
      BY <2>1, <2>2
    <3>3. k - 1 \in Nat
      BY <2>1, <2>2
    <3> QED
      BY <3>1, <3>2, <3>3
  <2>4. f[x] * b \in Nat /\ g[x] * a \in Nat
    BY <2>2
  <2>5. /\ (k - 1) * a + (t - 1) \in Nat
        /\ (k - 1) * a + (t - 1) < f[x] * b
    <3> DEFINE z == (k - 1) * a
               u == f[x] * b
               v == g[x] * a
    <3>1. z \in Nat /\ z + a <= v /\ v <= u /\ u \in Nat /\ v \in Nat /\ t \in 1 .. a
      BY <2>1, <2>2, <2>3, <2>4
    <3> HIDE DEF z, u, v
    <3>2. z + (t - 1) \in Nat /\ z + (t - 1) < u
      BY <3>1
    <3> QED
      BY <3>2 DEF z, u
  <2> QED
    BY <2>5 DEF x, k, t
<1>4. \A p \in From : Image(p) \in To
  <2> TAKE p \in From
  <2> DEFINE n == Number(p)
             x == p[1][1]
  <2>1. x \in S /\ f[x] \in Nat /\ f[x] <= Cap
    BY <1>1, <1>2
  <2>2. n \in Nat /\ n < f[x] * b
    BY <1>3
  <2> HIDE DEF n, x
  <2>3. n \div b \in 0 .. f[x] - 1 /\ n % b \in 0 .. b - 1
    BY <2>1, <2>2, RowAndPlace
  <2> DEFINE q == n \div b + 1
             r == (n % b) + 1
  <2>4. q \in 1 .. f[x] /\ q \in 1 .. Cap /\ r \in 1 .. b
    BY <2>1, <2>3
  <2> HIDE DEF q, r
  <2>5. <<<<x, q>>, r>> \in To
    BY <2>1, <2>4 DEF Units, Tallies
  <2> QED
    BY <2>5 DEF q, r, n, x
<1>5. \A p, o \in From : Image(p) = Image(o) => p = o
  <2> SUFFICES ASSUME NEW p \in From, NEW o \in From, Image(p) = Image(o)
               PROVE  p = o
    OBVIOUS
  <2>1. /\ p[1][1] = o[1][1]
        /\ Number(p) \div b + 1 = Number(o) \div b + 1
        /\ (Number(p) % b) + 1 = (Number(o) % b) + 1
    <3> HIDE DEF Number, From
    <3> QED
      OBVIOUS
  <2>2. Number(p) = Number(o)
    <3> DEFINE n == Number(p)
               l == Number(o)
               c == f[p[1][1]]
    <3>1. /\ n \in Nat /\ n < c * b /\ l \in Nat /\ l < c * b
          /\ c \in Nat
      BY <1>1, <1>2, <1>3, <2>1
    <3>2. n \div b + 1 = l \div b + 1 /\ (n % b) + 1 = (l % b) + 1
      BY <2>1
    <3> HIDE DEF n, l, c
    <3> DEFINE nq == n \div b
               nr == n % b
               lq == l \div b
               lr == l % b
    <3>3. nq \in 0 .. c - 1 /\ nr \in 0 .. b - 1 /\ n = b * nq + nr
      BY <3>1, RowAndPlace
    <3>4. lq \in 0 .. c - 1 /\ lr \in 0 .. b - 1 /\ l = b * lq + lr
      BY <3>1, RowAndPlace
    <3>5. nq + 1 = lq + 1 /\ nr + 1 = lr + 1
      BY <3>2
    <3> HIDE DEF nq, nr, lq, lr
    <3>6. nq = lq /\ nr = lr
      BY <3>1, <3>3, <3>4, <3>5
    <3>7. n = l
      BY <3>3, <3>4, <3>6
    <3> QED
      BY <3>7 DEF n, l
  <2> DEFINE i == p[1][2] - 1
             j == o[1][2] - 1
             s == p[2] - 1
             t == o[2] - 1
  <2>3. /\ i \in Nat /\ j \in Nat /\ s \in 0 .. a - 1 /\ t \in 0 .. a - 1
        /\ i * a + s = j * a + t
    BY <1>1, <1>2, <2>2
  <2>4. i = j /\ s = t
    <3> HIDE DEF i, j, s, t
    <3> QED
      BY <2>3, RowAndPlaceUnique
  <2>5. /\ p[1][2] \in Int /\ o[1][2] \in Int /\ p[2] \in Int /\ o[2] \in Int
        /\ p[1][2] - 1 = o[1][2] - 1 /\ p[2] - 1 = o[2] - 1
    BY <1>1, <1>2, <2>4
  <2>6. p[1][2] = o[1][2] /\ p[2] = o[2]
    <3>1. \A y, z \in Int : y - 1 = z - 1 => y = z
      OBVIOUS
    <3> QED
      BY <2>5, <3>1, Zenon
  <2> QED
    BY <1>1, <2>1, <2>6
<1>6. map \in Injection(From, To)
  <2> HIDE DEF Image, From, To
  <2>1. map \in [From -> To]
    BY <1>4
  <2>2. \A p \in From : map[p] = Image(p)
    OBVIOUS
  <2> HIDE DEF map
  <2>3. \A p, o \in From : map[p] = map[o] => p = o
    BY <1>5, <2>2
  <2> QED
    BY <2>1, <2>3, Zenon DEF Injection, IsInjective
<1>7. /\ IsFiniteSet(Units(g, Cap)) /\ IsFiniteSet(Units(f, Cap))
      /\ Total(g, Cap) \in Nat /\ Total(f, Cap) \in Nat
  BY UnitsFinite, TotalIsNat
<1>8. /\ IsFiniteSet(1 .. a) /\ Cardinality(1 .. a) = a
      /\ IsFiniteSet(1 .. b) /\ Cardinality(1 .. b) = b
  BY FS_Interval
<1>9. /\ IsFiniteSet(To)
      /\ Cardinality(From) = Total(g, Cap) * a
      /\ Cardinality(To) = Total(f, Cap) * b
  BY <1>7, <1>8, FS_Product DEF Total
<1> HIDE DEF From, To, map
<1> QED
  BY <1>6, <1>9, FS_Injection

-----------------------------------------------------------------------------
(* The same laws for the sum over a part of the domain.                    *)

LEMMA TotalOverIsNat ==
  ASSUME NEW D, IsFiniteSet(D), NEW S \in SUBSET D, NEW Cap \in Nat,
         NEW f \in Tallies(D, Cap)
  PROVE  TotalOver(S, f, Cap) \in Nat
<1> DEFINE part == [y \in S |-> f[y]]
<1>1. IsFiniteSet(S)
  BY FS_Subset
<1>2. part \in Tallies(S, Cap)
  BY DEF Tallies
<1> HIDE DEF part
<1>3. Total(part, Cap) \in Nat
  BY <1>1, <1>2, TotalIsNat
<1> QED
  BY <1>3 DEF TotalOver, part

\* Replacing one value outside the part leaves its sum alone.
LEMMA TotalOverOutside ==
  ASSUME NEW S, NEW Cap, NEW f, S \subseteq DOMAIN f, NEW x, x \notin S, NEW n
  PROVE  TotalOver(S, [f EXCEPT ![x] = n], Cap) = TotalOver(S, f, Cap)
<1>1. [y \in S |-> [f EXCEPT ![x] = n][y]] = [y \in S |-> f[y]]
  OBVIOUS
<1> QED
  BY <1>1 DEF TotalOver

\* A function that is the same on the part sums there to a product.
LEMMA TotalOverConstant ==
  ASSUME NEW D, IsFiniteSet(D), NEW S \in SUBSET D, NEW Cap \in Nat,
         NEW n \in 0 .. Cap
  PROVE  TotalOver(S, [x \in D |-> n], Cap) = Cardinality(S) * n
<1>1. [y \in S |-> [x \in D |-> n][y]] = [y \in S |-> n]
  OBVIOUS
<1>2. IsFiniteSet(S)
  BY FS_Subset
<1>3. Total([y \in S |-> n], Cap) = Cardinality(S) * n
  BY <1>2, TotalOfConstant
<1> QED
  BY <1>1, <1>3 DEF TotalOver

LEMMA TotalOverZero ==
  ASSUME NEW D, NEW S \in SUBSET D, NEW Cap \in Nat
  PROVE  TotalOver(S, [x \in D |-> 0], Cap) = 0
<1>1. [y \in S |-> [x \in D |-> 0][y]] = [y \in S |-> 0]
  OBVIOUS
<1> QED
  BY <1>1, TotalOfZero DEF TotalOver

\* A part sums to no more than the whole.
LEMMA TotalOfPart ==
  ASSUME NEW S, IsFiniteSet(S), NEW Cap \in Nat, NEW f \in Tallies(S, Cap),
         NEW T \in SUBSET S
  PROVE  TotalOver(T, f, Cap) <= Total(f, Cap)
<1> DEFINE part == [y \in T |-> f[y]]
<1>1. Units(part, Cap) \subseteq Units(f, Cap)
  BY DEF Units, Tallies
<1>2. IsFiniteSet(Units(f, Cap))
  BY UnitsFinite
<1> HIDE DEF part
<1>3. Cardinality(Units(part, Cap)) <= Cardinality(Units(f, Cap))
  BY <1>1, <1>2, FS_Subset
<1> QED
  BY <1>3 DEF TotalOver, Total, part

\* A new element of value zero adds nothing.
LEMMA TotalWithZero ==
  ASSUME NEW Cap \in Nat, NEW f, NEW g, NEW x,
         DOMAIN g = DOMAIN f \cup {x}, g[x] = 0,
         \A y \in DOMAIN f : g[y] = f[y], x \notin DOMAIN f
  PROVE  Total(g, Cap) = Total(f, Cap)
<1>1. Units(g, Cap) = Units(f, Cap)
  BY DEF Units
<1> QED
  BY <1>1 DEF Total
=============================================================================
