--------------------------- MODULE InterfaceProofs ---------------------------
(***************************************************************************)
(* Proofs about Interface. Whatever structs are put together and whatever  *)
(* views of them are taken, bind() connects what has the same name: the    *)
(* arithmetic of arrays, views, trees, and the binding. And whatever is    *)
(* bound, a verilated module with an array of packed structs is a box with *)
(* a record of inputs and a record of outputs for each struct: the         *)
(* arithmetic of words, the two loops over the words of a field, and the   *)
(* two loops of eval().                                                    *)
(***************************************************************************)
EXTENDS Interface, SequenceTheorems, WellFoundedInduction, NaturalsInduction, TLAPS

(***************************************************************************)
(* Division.                                                               *)
(***************************************************************************)
\* Multiples of different numbers are apart.
LEMMA Multiples ==
  ASSUME NEW W \in Nat \ {0}, NEW a \in Int, NEW b \in Int, a < b
  PROVE  a * W \in Int /\ b * W \in Int /\ a * W + W <= b * W
<1>1. (b - a - 1) * W >= 0
  OBVIOUS
<1> QED
  BY <1>1

\* A quotient and a remainder.
LEMMA Division ==
  ASSUME NEW W \in Nat \ {0}, NEW n \in Nat
  PROVE  /\ n \div W \in Nat /\ n % W \in 0..W - 1
         /\ n = (n \div W) * W + (n % W)
<1>1. n % W \in 0..W - 1
  OBVIOUS
<1>2. n \div W \in Int /\ W * (n \div W) <= n /\ n < W * (n \div W) + W
  OBVIOUS
<1>3. n = W * (n \div W) + (n % W)
  OBVIOUS
<1> DEFINE q == n \div W
<1>4. q \in Int /\ W * q <= n /\ n < W * q + W /\ n = W * q + (n % W)
  BY <1>2, <1>3
<1> HIDE DEF q
<1>5. q >= 0
  <2> SUFFICES ASSUME q < 0 PROVE FALSE
    BY <1>4
  <2>1. q * W + W <= 0 * W
    BY <1>4, Multiples
  <2> QED
    BY <1>4, <2>1
<1>6. q \in Nat /\ n = q * W + (n % W)
  BY <1>1, <1>4, <1>5
<1> QED
  BY <1>1, <1>6 DEF q

\* There is only one of each.
LEMMA Quotient ==
  ASSUME NEW W \in Nat \ {0}, NEW q \in Nat, NEW r \in 0..W - 1
  PROVE  q * W + r \in Nat /\ (q * W + r) \div W = q /\ (q * W + r) % W = r
<1> DEFINE n == q * W + r
<1>1. n \in Nat
  OBVIOUS
<1> HIDE DEF n
<1>2. n \div W \in Nat /\ n % W \in 0..W - 1 /\ n = (n \div W) * W + (n % W)
  BY <1>1, Division
<1> DEFINE a == n \div W
           b == n % W
<1>3. a \in Nat /\ b \in 0..W - 1 /\ n = a * W + b
  BY <1>2
<1> HIDE DEF a, b
<1>4. ~(a < q)
  <2> SUFFICES ASSUME a < q PROVE FALSE
    OBVIOUS
  <2>1. a * W + W <= q * W
    BY <1>3, Multiples
  <2> QED
    BY <1>3, <2>1 DEF n
<1>5. ~(q < a)
  <2> SUFFICES ASSUME q < a PROVE FALSE
    OBVIOUS
  <2>1. q * W + W <= a * W
    BY <1>3, Multiples
  <2> QED
    BY <1>3, <2>1 DEF n
<1>6. a = q
  BY <1>3, <1>4, <1>5
<1>7. b = r
  BY <1>3, <1>6 DEF n
<1> QED
  BY <1>1, <1>6, <1>7 DEF n, a, b

(***************************************************************************)
(* Recursion.                                                              *)
(***************************************************************************)
\* A nonempty set of natural numbers has a least element.
LEMMA LeastNat ==
  ASSUME NEW T \in SUBSET Nat, T # {}
  PROVE  \E n \in T : \A m \in T : n <= m
<1> DEFINE R == {ss \in Nat \X Nat : ss[1] < ss[2]}
<1>0. IsWellFoundedOn(R, Nat)
  BY NatLessThanWellFounded, Zenon DEF OpToRel
<1>1. \E n \in T : \A m \in T : ~(<<m, n>> \in R)
  <2> HIDE DEF R
  <2> QED
    BY <1>0, WFMin
<1>2. ASSUME NEW n \in T, NEW m \in T, ~(<<m, n>> \in R)
      PROVE  n <= m
  BY <1>2
<1> QED
  BY <1>1, <1>2

\* A nonempty set of numbers up to n has a greatest element.
LEMMA GreatestBelow ==
  ASSUME NEW n \in Nat, NEW T \in SUBSET (1..n), T # {}
  PROVE  \E d \in T : \A e \in T : e <= d
<1> DEFINE Above == {a \in 0..n : n - a \in T}
<1>1. PICK t : t \in T
  OBVIOUS
<1>2. n - t \in Above
  BY <1>1
<1>3. Above \in SUBSET Nat /\ Above # {}
  BY <1>2
<1>4. PICK a \in Above : \A b \in Above : a <= b
  <2> HIDE DEF Above
  <2> QED
    BY <1>3, LeastNat
<1>5. ASSUME NEW e \in T PROVE e <= n - a
  <2>1. n - e \in Above
    OBVIOUS
  <2> QED
    BY <1>4, <2>1
<1> QED
  BY <1>4, <1>5

\* So what is passed on from each number to the next one holds up to the end: T is where it holds.
PassedOn(n, T) == n \in Nat /\ 0 \in T /\ \A d \in 1..n : d - 1 \in T => d \in T
UpTo(n, T) == \A d \in 0..n : d \in T

\* Induction over the numbers up to n.
LEMMA Upwards ==
  ASSUME NEW n, NEW T, PassedOn(n, T)
  PROVE  UpTo(n, T) /\ n \in T
<1> USE DEF PassedOn, UpTo
<1> DEFINE U == {d \in 0..n : d \notin T}
<1> SUFFICES ASSUME U # {} PROVE FALSE
  <2>1. U = {} => UpTo(n, T)
    OBVIOUS
  <2>2. UpTo(n, T) => n \in T
    OBVIOUS
  <2> HIDE DEF U, UpTo
  <2> QED
    BY <2>1, <2>2
<1>1. PICK d \in U : \A e \in U : d <= e
  <2>1. U \in SUBSET Nat
    OBVIOUS
  <2> HIDE DEF U
  <2> QED
    BY <2>1, LeastNat
<1>2. d # 0 /\ d \in 1..n /\ d - 1 \in 0..n /\ d - 1 \notin U
  BY <1>1
<1> QED
  BY <1>1, <1>2

\* A function that is defined by recursion over an interval exists.
IsRecursion(n, S, base, step) == n \in Nat /\ base \in S /\ step \in [S \X (1..n) -> S]
Computes(n, S, base, step, f) ==
    f \in [0..n -> S] /\ f[0] = base /\ \A d \in 1..n : f[d] = step[<<f[d - 1], d>>]

\* Its values can be computed one after the other.
LEMMA Recursion ==
  ASSUME NEW n, NEW S, NEW base, NEW step, IsRecursion(n, S, base, step)
  PROVE  \E f : Computes(n, S, base, step, f)
<1> USE DEF IsRecursion
<1> DEFINE Start0(f) == f[0] = base
           Fits0(f, m) == \A d \in 1..m : f[d] = step[<<f[d - 1], d>>]
           T == {m \in 0..n : \E f \in [0..m -> S] : Start0(f) /\ Fits0(f, m)}
<1>1. 0 \in T
  <2> DEFINE f == [d \in 0..0 |-> base]
  <2>1. f \in [0..0 -> S] /\ Start0(f) /\ Fits0(f, 0)
    OBVIOUS
  <2> HIDE DEF f
  <2> QED
    BY <2>1
<1>2. ASSUME NEW m \in 1..n, m - 1 \in T
      PROVE  m \in T
  <2>1. PICK f \in [0..m - 1 -> S] : Start0(f) /\ Fits0(f, m - 1)
    BY <1>2
  <2> DEFINE last == step[<<f[m - 1], m>>]
             g == [d \in 0..m |-> IF d = m THEN last ELSE f[d]]
  <2>2. last \in S
    BY <2>1
  <2> HIDE DEF last
  <2>3. g \in [0..m -> S] /\ Start0(g)
    BY <2>1, <2>2
  <2>4. ASSUME NEW d \in 1..m
        PROVE  g[d] = step[<<g[d - 1], d>>]
    <3>1. CASE d = m
      <4>1. g[d] = last /\ g[d - 1] = f[m - 1]
        BY <3>1
      <4> QED
        BY <3>1, <4>1 DEF last
    <3>2. CASE d # m
      <4>1. d \in 1..m - 1
        BY <3>2
      <4>2. g[d] = f[d] /\ g[d - 1] = f[d - 1]
        BY <4>1
      <4>3. f[d] = step[<<f[d - 1], d>>]
        BY <2>1, <4>1
      <4> QED
        BY <4>2, <4>3
    <3> QED
      BY <3>1, <3>2
  <2> HIDE DEF g
  <2>5. Fits0(g, m)
    BY <2>4
  <2> QED
    BY <2>3, <2>5
<1> HIDE DEF T
<1>3. n \in T
  <2>1. PassedOn(n, T)
    BY <1>1, <1>2 DEF PassedOn
  <2> QED
    BY <2>1, Upwards
<1> QED
  BY <1>3 DEF T, Computes

\* And there is only one.
Follows(n, f, g) == n \in Nat /\ f[0] = g[0] /\ \A d \in 1..n : f[d - 1] = g[d - 1] => f[d] = g[d]

Agree(n, f, g) == \A d \in 0..n : f[d] = g[d]

\* Two functions that agree at the start and follow the same steps are equal.
LEMMA Determined ==
  ASSUME NEW n, NEW f, NEW g, Follows(n, f, g)
  PROVE  Agree(n, f, g)
<1> USE DEF Follows, Agree
<1> DEFINE T == {d \in 0..n : f[d] = g[d]}
<1>1. 0 \in T
  OBVIOUS
<1>2. \A d \in 1..n : d - 1 \in T => d \in T
  OBVIOUS
<1>3. UpTo(n, T)
  <2>1. PassedOn(n, T)
    BY <1>1, <1>2 DEF PassedOn
  <2> QED
    BY <2>1, Upwards
<1> QED
  BY <1>3 DEF UpTo

\* The products of natural numbers.
LEMMA Product ==
  ASSUME NEW a \in Nat, NEW b \in Nat, NEW c \in Nat
  PROVE  a * b \in Nat /\ a * b + c \in Nat
OBVIOUS

\* The products of the extents.
LEMMA ProductsAre ==
  ASSUME NEW s \in Seq(Nat)
  PROVE  /\ Products(s) \in [0..Len(s) -> Nat]
         /\ Products(s)[0] = 1
         /\ \A d \in 1..Len(s) : Products(s)[d] = Products(s)[d - 1] * s[d]
<1> DEFINE n == Len(s)
           one == 1
           step == [x \in Nat \X (1..n) |-> x[1] * s[x[2]]]
           Is(f) == f = [d \in 0..n |-> IF d = 0 THEN 1 ELSE f[d - 1] * s[d]]
<1>1. n \in Nat /\ one \in Nat /\ s \in [1..n -> Nat]
  OBVIOUS
<1>2. Products(s) = CHOOSE g : Is(g)
  BY DEF Products
<1>3. one = 1
  OBVIOUS
<1> HIDE DEF n, one
<1>4. step \in [Nat \X (1..n) -> Nat]
  BY <1>1
<1>5. \A x \in Nat, d \in 1..n : step[<<x, d>>] = x * s[d]
  OBVIOUS
<1> HIDE DEF step
<1>6. PICK f \in [0..n -> Nat] : f[0] = one /\ \A d \in 1..n : f[d] = step[<<f[d - 1], d>>]
  <2>1. IsRecursion(n, Nat, one, step)
    BY <1>1, <1>4 DEF IsRecursion
  <2>2. PICK f : Computes(n, Nat, one, step, f)
    BY <2>1, Recursion
  <2> QED
    BY <2>2 DEF Computes
<1>7. \A d \in 1..n : f[d] = f[d - 1] * s[d]
  <2>1. \A d \in 1..n : f[d - 1] \in Nat
    BY <1>1
  <2> QED
    BY <1>5, <1>6, <2>1
<1>8. Is(f)
  BY <1>3, <1>6, <1>7
<1> DEFINE p == Products(s)
<1>9. Is(p)
  BY <1>2, <1>8
<1> HIDE DEF p
<1>10. p[0] = 1 /\ \A d \in 1..n : p[d] = p[d - 1] * s[d]
  BY <1>1, <1>9
<1>11. p = f
  <2>1. \A d \in 0..n : p[d] = f[d]
    <3>1. Follows(n, p, f)
      BY <1>1, <1>3, <1>6, <1>7, <1>10 DEF Follows
    <3>2. Agree(n, p, f)
      BY <3>1, Determined
    <3> QED
      BY <3>2 DEF Agree
  <2> QED
    BY <1>8, <1>9, <2>1
<1> QED
  BY <1>1, <1>6, <1>10, <1>11 DEF p, n

\* The flat index of the first dimensions.
LEMMA FlatteningIs ==
  ASSUME NEW s \in Seq(Nat), NEW i \in [DOMAIN s -> Nat]
  PROVE  /\ Flattening(s, i) \in [0..Len(s) -> Nat]
         /\ Flattening(s, i)[0] = 0
         /\ \A d \in 1..Len(s) : Flattening(s, i)[d] = Flattening(s, i)[d - 1] * s[d] + i[d]
<1> DEFINE n == Len(s)
           zero == 0
           step == [x \in Nat \X (1..n) |-> x[1] * s[x[2]] + i[x[2]]]
           Is(f) == f = [d \in 0..n |-> IF d = 0 THEN 0 ELSE f[d - 1] * s[d] + i[d]]
<1>1. n \in Nat /\ zero \in Nat /\ s \in [1..n -> Nat] /\ i \in [1..n -> Nat]
  OBVIOUS
<1>2. Flattening(s, i) = CHOOSE g : Is(g)
  BY DEF Flattening
<1>3. zero = 0
  OBVIOUS
<1> HIDE DEF n, zero
<1>4. step \in [Nat \X (1..n) -> Nat]
  <2>1. ASSUME NEW x \in Nat \X (1..n) PROVE x[1] * s[x[2]] + i[x[2]] \in Nat
    <3>1. x[1] \in Nat /\ s[x[2]] \in Nat /\ i[x[2]] \in Nat
      BY <1>1
    <3> QED
      BY <3>1, Product
  <2> QED
    BY <2>1
<1>5. \A x \in Nat, d \in 1..n : step[<<x, d>>] = x * s[d] + i[d]
  OBVIOUS
<1> HIDE DEF step
<1>6. PICK f \in [0..n -> Nat] : f[0] = zero /\ \A d \in 1..n : f[d] = step[<<f[d - 1], d>>]
  <2>1. IsRecursion(n, Nat, zero, step)
    BY <1>1, <1>4 DEF IsRecursion
  <2>2. PICK f : Computes(n, Nat, zero, step, f)
    BY <2>1, Recursion
  <2> QED
    BY <2>2 DEF Computes
<1>7. \A d \in 1..n : f[d] = f[d - 1] * s[d] + i[d]
  <2>1. \A d \in 1..n : f[d - 1] \in Nat
    BY <1>1
  <2> QED
    BY <1>5, <1>6, <2>1
<1>8. Is(f)
  BY <1>3, <1>6, <1>7
<1> DEFINE p == Flattening(s, i)
<1>9. Is(p)
  BY <1>2, <1>8
<1> HIDE DEF p
<1>10. p[0] = 0 /\ \A d \in 1..n : p[d] = p[d - 1] * s[d] + i[d]
  BY <1>1, <1>9
<1>11. p = f
  <2>1. \A d \in 0..n : p[d] = f[d]
    <3>1. Follows(n, p, f)
      BY <1>1, <1>3, <1>6, <1>7, <1>10 DEF Follows
    <3>2. Agree(n, p, f)
      BY <3>1, Determined
    <3> QED
      BY <3>2 DEF Agree
  <2> QED
    BY <1>8, <1>9, <2>1
<1> QED
  BY <1>1, <1>6, <1>10, <1>11 DEF p, n

(***************************************************************************)
(* Positions and flat indices.                                             *)
(***************************************************************************)
LEMMA BoxIs ==
  ASSUME NEW s \in Seq(Nat)
  PROVE  /\ Box(s) \subseteq [DOMAIN s -> Nat]
         /\ \A i \in [DOMAIN s -> Nat] : i \in Box(s) <=> \A d \in DOMAIN s : i[d] < s[d]
<1> DEFINE U == UNION {0..s[d] - 1 : d \in DOMAIN s}
<1>1. U \subseteq Nat
  OBVIOUS
<1>2. Box(s) = {i \in [DOMAIN s -> U] : \A d \in DOMAIN s : i[d] < s[d]}
  BY DEF Box
<1>3. ASSUME NEW i \in [DOMAIN s -> Nat], \A d \in DOMAIN s : i[d] < s[d]
      PROVE  i \in [DOMAIN s -> U]
  <2>1. \A d \in DOMAIN s : i[d] \in 0..s[d] - 1
    BY <1>3
  <2> QED
    BY <2>1
<1> HIDE DEF U
<1> QED
  BY <1>1, <1>2, <1>3

\* A position has a number below the extent for each dimension.
LEMMA PositionIs ==
  ASSUME NEW s \in Seq(Nat), NEW i \in Box(s)
  PROVE  /\ i \in [DOMAIN s -> Nat] /\ i \in [1..Len(s) -> Nat] /\ i \in Seq(Nat) /\ Len(i) = Len(s)
         /\ \A d \in 1..Len(s) : i[d] \in Nat /\ s[d] \in Nat /\ i[d] < s[d]
  BY BoxIs

\* A row and a column below their bounds make an index below the product.
LEMMA BelowProduct ==
  ASSUME NEW f \in Nat, NEW p \in Nat, NEW s \in Nat, NEW i \in Nat, f < p, i < s
  PROVE  f * s + i \in Nat /\ p * s \in Nat /\ f * s + i < p * s
<1>1. (p - f - 1) * s >= 0
  OBVIOUS
<1>2. p * s \in Nat /\ f * s \in Nat /\ (p - f - 1) * s = p * s - f * s - s
  OBVIOUS
<1> QED
  BY <1>1, <1>2

\* A flat index is one of an element.
LEMMA FlatIndexIsIndex ==
  ASSUME NEW s \in Seq(Nat), NEW i \in Box(s)
  PROVE  /\ Size(s) \in Nat
         /\ FlatIndexOfView(s, i) \in Nat
         /\ FlatIndexOfView(s, i) < Size(s)
<1> DEFINE F == Flattening(s, i)
           P == Products(s)
           n == Len(s)
           T == {d \in 0..n : F[d] < P[d]}
<1>1. n \in Nat /\ \A d \in 1..n : i[d] \in Nat /\ s[d] \in Nat /\ i[d] < s[d]
  BY PositionIs
<1>2. F \in [0..n -> Nat] /\ F[0] = 0 /\ \A d \in 1..n : F[d] = F[d - 1] * s[d] + i[d]
  BY PositionIs, FlatteningIs
<1>3. P \in [0..n -> Nat] /\ P[0] = 1 /\ \A d \in 1..n : P[d] = P[d - 1] * s[d]
  BY ProductsAre
<1>4. Size(s) = P[n] /\ FlatIndexOfView(s, i) = F[n]
  BY DEF Size, FlatIndexOfView
<1> HIDE DEF F, P, n
<1>5. 0 \in T
  BY <1>1, <1>2, <1>3
<1>6. ASSUME NEW d \in 1..n, d - 1 \in T
      PROVE  d \in T
  <2>1. F[d - 1] \in Nat /\ P[d - 1] \in Nat /\ F[d - 1] < P[d - 1] /\ d \in 0..n
    BY <1>1, <1>2, <1>3, <1>6
  <2>2. F[d - 1] * s[d] + i[d] < P[d - 1] * s[d]
    BY <1>1, <2>1, BelowProduct
  <2> QED
    BY <1>2, <1>3, <2>1, <2>2
<1>7. n \in T
  <2>1. PassedOn(n, T)
    BY <1>1, <1>5, <1>6 DEF PassedOn
  <2> QED
    BY <2>1, Upwards
<1> QED
  BY <1>1, <1>2, <1>3, <1>4, <1>7

\* Different elements have different flat indices.
LEMMA SameQuotient ==
  ASSUME NEW s \in Nat, NEW a \in Nat, NEW b \in Nat, NEW x \in Nat, NEW y \in Nat,
         x < s, y < s, a * s + x = b * s + y
  PROVE  a = b /\ x = y
<1>1. s \in Nat \ {0} /\ x \in 0..s - 1 /\ y \in 0..s - 1
  OBVIOUS
<1>2. (a * s + x) \div s = a /\ (a * s + x) % s = x
  BY <1>1, Quotient
<1>3. (b * s + y) \div s = b /\ (b * s + y) % s = y
  BY <1>1, Quotient
<1> QED
  BY <1>2, <1>3

\* Elements at different positions have different flat indices.
LEMMA FlatIndexDiffers ==
  ASSUME NEW s \in Seq(Nat), NEW i \in Box(s), NEW j \in Box(s),
         FlatIndexOfView(s, i) = FlatIndexOfView(s, j)
  PROVE  i = j
<1> DEFINE F == Flattening(s, i)
           G == Flattening(s, j)
           n == Len(s)
           T == {d \in 0..n : F[d] = G[d] => \A e \in 1..d : i[e] = j[e]}
<1>1. n \in Nat /\ \A d \in 1..n : i[d] \in Nat /\ j[d] \in Nat /\ s[d] \in Nat /\ i[d] < s[d] /\ j[d] < s[d]
  BY PositionIs
<1>2. F \in [0..n -> Nat] /\ F[0] = 0 /\ \A d \in 1..n : F[d] = F[d - 1] * s[d] + i[d]
  BY PositionIs, FlatteningIs
<1>3. G \in [0..n -> Nat] /\ G[0] = 0 /\ \A d \in 1..n : G[d] = G[d - 1] * s[d] + j[d]
  BY PositionIs, FlatteningIs
<1>4. F[n] = G[n]
  BY DEF FlatIndexOfView
<1>5. i \in [1..n -> Nat] /\ j \in [1..n -> Nat]
  BY PositionIs
<1> HIDE DEF F, G, n
<1>6. 0 \in T
  BY <1>1
<1>7. ASSUME NEW d \in 1..n, d - 1 \in T
      PROVE  d \in T
  <2> SUFFICES ASSUME F[d] = G[d] PROVE \A e \in 1..d : i[e] = j[e]
    BY <1>1
  <2>1. F[d - 1] \in Nat /\ G[d - 1] \in Nat /\ F[d - 1] * s[d] + i[d] = G[d - 1] * s[d] + j[d]
    BY <1>1, <1>2, <1>3
  <2>2. F[d - 1] = G[d - 1] /\ i[d] = j[d]
    <3> DEFINE a == F[d - 1]
               b == G[d - 1]
               t == s[d]
               x == i[d]
               y == j[d]
    <3>1. /\ a \in Nat /\ b \in Nat /\ t \in Nat /\ x \in Nat /\ y \in Nat
          /\ x < t /\ y < t /\ a * t + x = b * t + y
      BY <1>1, <2>1
    <3> HIDE DEF a, b, t, x, y
    <3>2. a = b /\ x = y
      BY <3>1, SameQuotient
    <3> QED
      BY <3>2 DEF a, b, x, y
  <2>3. \A e \in 1..d - 1 : i[e] = j[e]
    BY <1>7, <2>2
  <2> QED
    BY <1>1, <2>2, <2>3
<1>8. n \in T
  <2>1. PassedOn(n, T)
    BY <1>1, <1>6, <1>7 DEF PassedOn
  <2> QED
    BY <2>1, Upwards
<1> QED
  BY <1>1, <1>4, <1>5, <1>8

\* An array that has elements has a first one.
LEMMA FirstPosition ==
  ASSUME NEW s \in Seq(Nat), Size(s) # 0
  PROVE  Zeros(Len(s)) \in Box(s) /\ FlatIndexOfView(s, Zeros(Len(s))) = 0
<1> DEFINE n == Len(s)
           P == Products(s)
           z == Zeros(n)
           F == Flattening(s, z)
<1>1. n \in Nat /\ DOMAIN s = 1..n /\ \A d \in 1..n : s[d] \in Nat
  OBVIOUS
<1>2. P \in [0..n -> Nat] /\ P[0] = 1 /\ \A d \in 1..n : P[d] = P[d - 1] * s[d]
  BY ProductsAre
<1>3. P[n] # 0
  BY DEF Size
<1>4. z = [d \in 1..n |-> 0]
  BY DEF Zeros
<1>5. z \in [DOMAIN s -> Nat] /\ \A d \in 1..n : z[d] = 0
  BY <1>1, <1>4
<1>6. F \in [0..n -> Nat] /\ F[0] = 0 /\ \A d \in 1..n : F[d] = F[d - 1] * s[d] + z[d]
  BY <1>5, FlatteningIs
<1> HIDE DEF n, P, z, F
<1>7. ASSUME NEW e \in 1..n, s[e] = 0
      PROVE  FALSE
  <2> DEFINE T == {d \in 0..n : e <= d => P[d] = 0}
  <2>1. 0 \in T
    BY <1>1
  <2>2. ASSUME NEW d \in 1..n, d - 1 \in T
        PROVE  d \in T
    <3>1. d - 1 \in 0..n /\ P[d] = P[d - 1] * s[d] /\ P[d - 1] \in Nat /\ s[d] \in Nat
      BY <1>1, <1>2
    <3>2. CASE d = e
      BY <1>1, <1>7, <3>1, <3>2
    <3>3. CASE d # e
      BY <1>1, <2>2, <3>1, <3>3
    <3> QED
      BY <3>2, <3>3
  <2>3. PassedOn(n, T)
    BY <1>1, <2>1, <2>2 DEF PassedOn
  <2>4. n \in T
    BY <2>3, Upwards
  <2> QED
    BY <1>1, <1>3, <2>4
<1>8. z \in Box(s)
  BY <1>1, <1>5, <1>7, BoxIs
<1>9. F[n] = 0
  <2> DEFINE T == {d \in 0..n : F[d] = 0}
  <2>1. 0 \in T
    BY <1>1, <1>6
  <2>2. ASSUME NEW d \in 1..n, d - 1 \in T
        PROVE  d \in T
    BY <1>1, <1>5, <1>6, <2>2
  <2>3. PassedOn(n, T)
    BY <1>1, <2>1, <2>2 DEF PassedOn
  <2> QED
    BY <2>3, Upwards
<1> QED
  BY <1>8, <1>9 DEF FlatIndexOfView, F, z, n

\* The last index of a row is followed by the first index of the next one.
LEMMA NextExtent ==
  ASSUME NEW f \in Nat, NEW s \in Nat, NEW i \in Nat, i + 1 = s
  PROVE  (f * s + i) + 1 = (f + 1) * s + 0
OBVIOUS

\* The loops visit the elements in the order of their flat indices.
LEMMA NextPositionIs ==
  ASSUME NEW s \in Seq(Nat), NEW i \in Box(s)
  PROVE  /\ NextPosition(s, i) \in Box(s)
         /\ FlatIndexOfView(s, i) + 1 < Size(s) =>
                FlatIndexOfView(s, NextPosition(s, i)) = FlatIndexOfView(s, i) + 1
<1> DEFINE n == Len(s)
           P == Products(s)
           F == Flattening(s, i)
           j == NextPosition(s, i)
           G == Flattening(s, j)
           More == {d \in DOMAIN i : i[d] + 1 < s[d]}
           Moving == CHOOSE d \in More : \A e \in More : e <= d
<1>1. n \in Nat /\ DOMAIN s = 1..n /\ DOMAIN i = 1..n /\ Len(i) = n
      /\ \A d \in 1..n : i[d] \in Nat /\ s[d] \in Nat /\ i[d] < s[d]
  BY PositionIs
<1>2. P \in [0..n -> Nat] /\ P[0] = 1 /\ \A d \in 1..n : P[d] = P[d - 1] * s[d]
  BY ProductsAre
<1>3. F \in [0..n -> Nat] /\ F[0] = 0 /\ \A d \in 1..n : F[d] = F[d - 1] * s[d] + i[d]
  BY PositionIs, FlatteningIs
<1>4. Size(s) = P[n] /\ FlatIndexOfView(s, i) = F[n] /\ FlatIndexOfView(s, j) = G[n]
  BY DEF Size, FlatIndexOfView
<1>5. F[n] < P[n]
  BY <1>4, FlatIndexIsIndex
<1>6. j = IF More = {} THEN Zeros(n)
          ELSE [d \in 1..n |-> IF d < Moving THEN i[d] ELSE IF d = Moving THEN i[d] + 1 ELSE 0]
  BY <1>1 DEF NextPosition
<1>7. CASE More = {}
  <2>1. j \in Box(s)
    <3>1. Size(s) # 0
      BY <1>1, <1>2, <1>3, <1>4, <1>5
    <3> QED
      BY <1>6, <1>7, <3>1, FirstPosition
  <2>2. F[n] + 1 = P[n]
    <3>1. \A d \in 1..n : i[d] + 1 = s[d]
      BY <1>1, <1>7
    <3> HIDE DEF n, P, F, j, G, More, Moving
    <3> DEFINE T == {d \in 0..n : F[d] + 1 = P[d]}
    <3>2. 0 \in T
      BY <1>1, <1>2, <1>3
    <3>3. ASSUME NEW d \in 1..n, d - 1 \in T
          PROVE  d \in T
      <4>1. F[d - 1] \in Nat /\ P[d - 1] = F[d - 1] + 1 /\ d \in 0..n
        BY <1>1, <1>2, <1>3, <3>3
      <4>2. (F[d - 1] * s[d] + i[d]) + 1 = (F[d - 1] + 1) * s[d] + 0
        BY <1>1, <3>1, <4>1, NextExtent
      <4>3. P[d] = (F[d - 1] + 1) * s[d] /\ P[d] \in Nat
        BY <1>2, <4>1
      <4> QED
        BY <1>3, <4>1, <4>2, <4>3
    <3>4. PassedOn(n, T)
      BY <1>1, <3>2, <3>3 DEF PassedOn
    <3> QED
      BY <3>4, Upwards
  <2>3. F[n] \in Nat /\ P[n] \in Nat
    BY <1>1, <1>2, <1>3
  <2> HIDE DEF n, P, F, j, G, More, Moving
  <2>4. ~(F[n] + 1 < P[n])
    BY <2>2, <2>3
  <2> QED
    BY <1>4, <2>1, <2>4 DEF j
<1>8. CASE More # {}
  <2>1. Moving \in More /\ \A e \in More : e <= Moving
    <3>1. More \in SUBSET (1..n)
      BY <1>1
    <3> HIDE DEF More, n
    <3> QED
      BY <1>1, <1>8, <3>1, GreatestBelow
  <2> DEFINE m == Moving
  <2>2. m \in 1..n /\ i[m] + 1 < s[m] /\ \A d \in 1..n : d > m => i[d] + 1 = s[d]
    <3>1. m \in More /\ \A e \in More : e <= m
      BY <2>1
    <3> HIDE DEF n, P, F, j, G, Moving, m
    <3>2. m \in 1..n /\ i[m] + 1 < s[m]
      BY <1>1, <3>1
    <3>3. ASSUME NEW d \in 1..n, d > m
          PROVE  i[d] + 1 = s[d]
      <4>1. d \notin More
        BY <3>1, <3>2, <3>3
      <4>2. ~(i[d] + 1 < s[d])
        BY <1>1, <4>1
      <4> QED
        BY <1>1, <4>2
    <3> QED
      BY <3>2, <3>3
  <2>3. j = [d \in 1..n |-> IF d < m THEN i[d] ELSE IF d = m THEN i[d] + 1 ELSE 0]
    BY <1>6, <1>8
  <2> HIDE DEF n, P, F, j, G, More, m
  <2>4. j \in [1..n -> Nat] /\ \A d \in 1..n : j[d] < s[d]
    BY <1>1, <2>2, <2>3
  <2>5. j \in Box(s)
    BY <1>1, <2>4, BoxIs
  <2>6. G \in [0..n -> Nat] /\ G[0] = 0 /\ \A d \in 1..n : G[d] = G[d - 1] * s[d] + j[d]
    BY <1>1, <2>4, FlatteningIs DEF n, G
  <2> DEFINE T == {d \in 0..n : G[d] = IF d < m THEN F[d] ELSE F[d] + 1}
  <2>7. 0 \in T
    BY <1>1, <1>3, <2>2, <2>6
  <2>8. ASSUME NEW d \in 1..n, d - 1 \in T
        PROVE  d \in T
    <3>1. F[d - 1] \in Nat /\ G[d - 1] \in Nat /\ F[d] \in Nat /\ d \in 0..n /\ s[d] \in Nat /\ i[d] \in Nat
      BY <1>1, <1>3, <2>6
    <3>2. F[d - 1] * s[d] \in Nat
      BY <3>1
    <3>3. CASE d < m
      BY <1>1, <1>3, <2>2, <2>3, <2>6, <2>8, <3>1, <3>3
    <3>4. CASE d = m
      <4>1. G[d - 1] = F[d - 1] /\ j[d] = i[d] + 1
        BY <1>1, <2>2, <2>3, <2>8, <3>4
      <4> DEFINE x == F[d - 1] * s[d]
      <4>2. G[d] = x + (i[d] + 1) /\ F[d] = x + i[d] /\ x \in Nat
        BY <1>3, <2>6, <3>2, <4>1
      <4> HIDE DEF x
      <4>3. G[d] = F[d] + 1
        BY <3>1, <4>2
      <4>4. ~(d < m)
        BY <2>2, <3>4
      <4> QED
        BY <3>1, <4>3, <4>4
    <3>5. CASE d > m
      <4>1. G[d - 1] = F[d - 1] + 1 /\ j[d] = 0 /\ i[d] + 1 = s[d]
        BY <1>1, <2>2, <2>3, <2>8, <3>5
      <4> DEFINE f == F[d - 1]
                 t == s[d]
                 x == i[d]
      <4>2. (f * t + x) + 1 = (f + 1) * t + 0
        <5>1. f \in Nat /\ t \in Nat /\ x \in Nat /\ x + 1 = t
          BY <3>1, <4>1
        <5> HIDE DEF f, t, x
        <5> QED
          BY <5>1, NextExtent
      <4>3. F[d] = f * t + x /\ G[d] = G[d - 1] * t + j[d] /\ G[d - 1] = f + 1
        BY <1>3, <2>6, <4>1
      <4> HIDE DEF f, t, x
      <4>4. G[d] = F[d] + 1
        BY <4>1, <4>2, <4>3
      <4> QED
        BY <2>2, <3>1, <3>5, <4>4
    <3> QED
      BY <2>2, <3>3, <3>4, <3>5
  <2>9. PassedOn(n, T)
    BY <1>1, <2>7, <2>8 DEF PassedOn
  <2>10. n \in T
    BY <2>9, Upwards
  <2>11. G[n] = F[n] + 1
    BY <2>2, <2>10
  <2> QED
    BY <1>4, <2>5, <2>11 DEF j
<1> QED
  BY <1>7, <1>8

\* The loops visit every element once, in the order of the flat indices.
LEMMA PositionsAre ==
  ASSUME NEW s \in Seq(Nat)
  PROVE  /\ Size(s) \in Nat
         /\ Positions(s) \in [1..Size(s) -> Box(s)]
         /\ \A k \in 1..Size(s) : FlatIndexOfView(s, Positions(s)[k]) = k - 1
<1> DEFINE n == Size(s)
           B == Box(s)
           zeros == Zeros(Len(s))
           At0(f) == f = [k \in 1..n |-> IF k = 1 THEN Zeros(Len(s)) ELSE NextPosition(s, f[k - 1])]
           p == Positions(s)
           step == [x \in B \X (1..n) |-> NextPosition(s, x[1])]
<1>1. n \in Nat
  BY ProductsAre DEF Size
<1>2. p = CHOOSE f : At0(f)
  BY DEF Positions
<1>3. \A i \in B : NextPosition(s, i) \in B
  BY NextPositionIs
<1>4. step \in [B \X (1..n) -> B] /\ \A i \in B, k \in 1..n : step[<<i, k>>] = NextPosition(s, i)
  BY <1>3
<1>5. n # 0 => zeros \in B /\ FlatIndexOfView(s, zeros) = 0
  BY FirstPosition
<1> HIDE DEF n, B, p, step
<1>6. \E f \in [1..n -> B] : At0(f)
  <2>1. CASE n = 0
    <3> DEFINE f == [k \in 1..n |-> zeros]
    <3>1. f \in [1..n -> B]
      BY <2>1
    <3>2. DOMAIN f = {} /\ 1..n = {}
      BY <2>1
    <3>3. At0(f)
      BY <3>2
    <3> QED
      BY <3>1, <3>3
  <2>2. CASE n # 0
    <3>1. IsRecursion(n, B, zeros, step)
      BY <1>1, <1>4, <1>5, <2>2 DEF IsRecursion
    <3>2. PICK g : Computes(n, B, zeros, step, g)
      BY <3>1, Recursion
    <3>3. /\ g \in [0..n -> B] /\ g[0] = zeros
          /\ \A d \in 1..n : g[d] = step[<<g[d - 1], d>>]
      BY <3>2 DEF Computes
    <3> DEFINE f == [k \in 1..n |-> g[k - 1]]
    <3>4. f \in [1..n -> B]
      BY <1>1, <3>3
    <3>5. ASSUME NEW k \in 1..n
          PROVE  f[k] = IF k = 1 THEN zeros ELSE NextPosition(s, f[k - 1])
      <4>1. CASE k = 1
        BY <3>3, <4>1
      <4>2. CASE k # 1
        <5>1. k - 1 \in 1..n /\ k - 2 \in 0..n /\ (k - 1) - 1 = k - 2
          BY <1>1, <4>2
        <5>2. f[k] = g[k - 1] /\ f[k - 1] = g[k - 2] /\ g[k - 2] \in B
          BY <3>3, <5>1
        <5>3. g[k - 1] = step[<<g[k - 2], k - 1>>]
          BY <3>3, <5>1
        <5>4. step[<<g[k - 2], k - 1>>] = NextPosition(s, g[k - 2])
          BY <1>4, <5>1, <5>2
        <5> QED
          BY <4>2, <5>2, <5>3, <5>4
      <4> QED
        BY <4>1, <4>2
    <3>6. At0(f)
      BY <3>5
    <3> HIDE DEF f
    <3> QED
      BY <3>4, <3>6
  <2> QED
    BY <2>1, <2>2
<1>7. At0(p)
  BY <1>2, <1>6
<1>8. DOMAIN p = 1..n
  BY <1>7
<1>9. ASSUME NEW k \in 1..n
      PROVE  p[k] = IF k = 1 THEN zeros ELSE NextPosition(s, p[k - 1])
  BY <1>7
<1> DEFINE T == {k \in 0..n : k # 0 => p[k] \in B /\ FlatIndexOfView(s, p[k]) = k - 1}
<1>10. 0 \in T
  BY <1>1
<1>11. ASSUME NEW k \in 1..n, k - 1 \in T
       PROVE  k \in T
  <2>1. n # 0 /\ k \in 0..n
    BY <1>1
  <2>2. CASE k = 1
    BY <1>5, <1>9, <2>1, <2>2
  <2>3. CASE k # 1
    <3>1. p[k] = NextPosition(s, p[k - 1])
      BY <1>9, <2>3
    <3>2. p[k - 1] \in Box(s) /\ FlatIndexOfView(s, p[k - 1]) = (k - 1) - 1
      BY <1>11, <2>3 DEF B
    <3>3. (k - 1) - 1 + 1 < n
      BY <1>1
    <3>4. NextPosition(s, p[k - 1]) \in Box(s)
          /\ FlatIndexOfView(s, NextPosition(s, p[k - 1])) = ((k - 1) - 1) + 1
      BY <3>2, <3>3, NextPositionIs DEF n
    <3> QED
      BY <1>1, <2>1, <3>1, <3>4 DEF B
  <2> QED
    BY <2>2, <2>3
<1>12. UpTo(n, T)
  <2>1. PassedOn(n, T)
    BY <1>1, <1>10, <1>11 DEF PassedOn
  <2> QED
    BY <2>1, Upwards
<1>13. \A k \in 1..n : p[k] \in B /\ FlatIndexOfView(s, p[k]) = k - 1
  BY <1>1, <1>12 DEF UpTo
<1>14. p = [k \in 1..n |-> IF k = 1 THEN zeros ELSE NextPosition(s, p[k - 1])]
  BY <1>7
<1>15. p \in [1..n -> B]
  BY <1>13, <1>14
<1> QED
  BY <1>1, <1>13, <1>15 DEF p, n, B

\* The element at a flat index, and the flat index of an element.
LEMMA PositionOf ==
  ASSUME NEW s \in Seq(Nat), NEW i \in Box(s)
  PROVE  /\ FlatIndexOfView(s, i) + 1 \in 1..Size(s)
         /\ Positions(s)[FlatIndexOfView(s, i) + 1] = i
<1> DEFINE k == FlatIndexOfView(s, i) + 1
<1>1. k \in 1..Size(s)
  BY FlatIndexIsIndex
<1>2. Positions(s)[k] \in Box(s) /\ FlatIndexOfView(s, Positions(s)[k]) = k - 1
  BY <1>1, PositionsAre
<1>3. k - 1 = FlatIndexOfView(s, i)
  BY FlatIndexIsIndex
<1> QED
  BY <1>1, <1>2, <1>3, FlatIndexDiffers

(***************************************************************************)
(* Selections.                                                             *)
(***************************************************************************)
LEMMA StridesAre ==
  ASSUME NEW s \in Seq(Nat)
  PROVE  /\ Strides(s) \in [1..Len(s) -> Nat]
         /\ Len(s) # 0 => Strides(s)[Len(s)] = 1
         /\ \A d \in 1..Len(s) : d # 1 => Strides(s)[d - 1] = Strides(s)[d] * s[d]
<1> DEFINE n == Len(s)
           one == 1
           step == [x \in Nat \X (1..n) |-> x[1] * s[n - x[2] + 1]]
           Is(f) == f = [d \in 0..n |-> IF d = 0 THEN 1 ELSE f[d - 1] * s[n - d + 1]]
           p == CHOOSE f : Is(f)
<1>1. n \in Nat /\ one \in Nat /\ s \in [1..n -> Nat]
  OBVIOUS
<1>2. Strides(s) = [d \in 1..n |-> p[n - d]]
  BY DEF Strides
<1>3. one = 1
  OBVIOUS
<1> HIDE DEF n, one
<1>4. \A d \in 1..n : n - d + 1 \in 1..n /\ s[n - d + 1] \in Nat
  BY <1>1
<1>5. step \in [Nat \X (1..n) -> Nat]
  BY <1>1, <1>4
<1>6. \A x \in Nat, d \in 1..n : step[<<x, d>>] = x * s[n - d + 1]
  OBVIOUS
<1> HIDE DEF step
<1>7. PICK f \in [0..n -> Nat] : f[0] = one /\ \A d \in 1..n : f[d] = step[<<f[d - 1], d>>]
  <2>1. IsRecursion(n, Nat, one, step)
    BY <1>1, <1>5 DEF IsRecursion
  <2>2. PICK f : Computes(n, Nat, one, step, f)
    BY <2>1, Recursion
  <2> QED
    BY <2>2 DEF Computes
<1>8. \A d \in 1..n : f[d] = f[d - 1] * s[n - d + 1]
  <2>1. \A d \in 1..n : f[d - 1] \in Nat
    BY <1>1
  <2> QED
    BY <1>6, <1>7, <2>1
<1>9. Is(f)
  BY <1>3, <1>7, <1>8
<1>10. Is(p)
  BY <1>9
<1> HIDE DEF p
<1>11. p[0] = 1 /\ \A d \in 1..n : p[d] = p[d - 1] * s[n - d + 1]
  BY <1>1, <1>10
<1>12. p = f
  <2>1. Follows(n, p, f)
    BY <1>1, <1>3, <1>7, <1>8, <1>11 DEF Follows
  <2>2. Agree(n, p, f)
    BY <2>1, Determined
  <2> QED
    BY <1>9, <1>10, <2>2 DEF Agree
<1>13. p \in [0..n -> Nat]
  BY <1>7, <1>12
<1>14. Strides(s) \in [1..n -> Nat]
  BY <1>1, <1>2, <1>13
<1>15. n # 0 => Strides(s)[n] = 1
  BY <1>1, <1>2, <1>11
<1>16. ASSUME NEW d \in 1..n, d # 1
       PROVE  Strides(s)[d - 1] = Strides(s)[d] * s[d]
  <2>1. d - 1 \in 1..n /\ n - (d - 1) \in 1..n /\ (n - (d - 1)) - 1 = n - d /\ n - (n - (d - 1)) + 1 = d
    BY <1>1, <1>16
  <2>2. Strides(s)[d - 1] = p[n - (d - 1)] /\ Strides(s)[d] = p[n - d]
    BY <1>2, <2>1
  <2>3. p[n - (d - 1)] = p[(n - (d - 1)) - 1] * s[n - (n - (d - 1)) + 1]
    BY <1>11, <2>1
  <2> QED
    BY <2>1, <2>2, <2>3
<1> QED
  BY <1>14, <1>15, <1>16 DEF n

RangeRecord == [start : Nat, count : Nat, drop : BOOLEAN]

\* Ranges of a shape.
AreRanges(s, r) ==
    /\ s \in Seq(Nat) /\ r \in Seq(RangeRecord) /\ Len(r) = Len(s)
    /\ \A d \in 1..Len(s) : /\ r[d].start + r[d].count <= s[d]
                            /\ r[d].drop => r[d].count = 1

\* The parts of ranges.
LEMMA RangeIs ==
  ASSUME NEW s, NEW r, AreRanges(s, r)
  PROVE  /\ Len(s) \in Nat /\ Len(r) = Len(s) /\ DOMAIN r = 1..Len(s) /\ DOMAIN s = 1..Len(s)
         /\ \A d \in 1..Len(s) : /\ r[d].start \in Nat /\ r[d].count \in Nat /\ r[d].drop \in BOOLEAN
                                 /\ s[d] \in Nat /\ r[d].start + r[d].count <= s[d]
                                 /\ r[d].drop => r[d].count = 1
<1>1. Len(s) \in Nat /\ Len(r) = Len(s) /\ DOMAIN r = 1..Len(s) /\ DOMAIN s = 1..Len(s)
  BY DEF AreRanges
<1>2. ASSUME NEW d \in 1..Len(s)
      PROVE  /\ r[d].start \in Nat /\ r[d].count \in Nat /\ r[d].drop \in BOOLEAN
             /\ s[d] \in Nat
  <2>1. r[d] \in RangeRecord /\ s[d] \in Nat
    BY <1>1 DEF AreRanges
  <2> QED
    BY <2>1 DEF RangeRecord
<1> QED
  BY <1>1, <1>2 DEF AreRanges

\* The offsets add up the strides of the dimensions, one after the other.
LEMMA OffsetsAre ==
  ASSUME NEW s, NEW r, AreRanges(s, r), NEW pos \in [1..Len(s) -> Nat]
  PROVE  /\ Offsets(s, r, pos) \in [0..Len(s) -> Nat]
         /\ Offsets(s, r, pos)[0] = 0
         /\ \A d \in 1..Len(s) :
               Offsets(s, r, pos)[d] = Offsets(s, r, pos)[d - 1] + (r[d].start + pos[d]) * Strides(s)[d]
<1> DEFINE n == Len(s)
           zero == 0
           term == [d \in 1..n |-> (r[d].start + pos[d]) * Strides(s)[d]]
           step == [x \in Nat \X (1..n) |-> x[1] + term[x[2]]]
           Is(f) == f = [d \in 0..n |-> IF d = 0 THEN 0 ELSE f[d - 1] + (r[d].start + pos[d]) * Strides(s)[d]]
           p == Offsets(s, r, pos)
<1>1. n \in Nat /\ zero \in Nat
  BY DEF AreRanges
<1>2. zero = 0
  OBVIOUS
<1>3. Len(r) = n
  BY DEF AreRanges
<1>4. p = CHOOSE f : Is(f)
  BY <1>3 DEF Offsets
<1>5. \A d \in 1..n : term[d] = (r[d].start + pos[d]) * Strides(s)[d]
  OBVIOUS
<1>6. term \in [1..n -> Nat]
  <2>1. ASSUME NEW d \in 1..n
        PROVE  (r[d].start + pos[d]) * Strides(s)[d] \in Nat
    <3>1. r[d].start \in Nat /\ pos[d] \in Nat
      BY RangeIs
    <3>2. Strides(s)[d] \in Nat
      BY StridesAre DEF AreRanges
    <3> QED
      BY <3>1, <3>2
  <2> QED
    BY <2>1
<1> HIDE DEF n, zero, term, p
<1>7. step \in [Nat \X (1..n) -> Nat] /\ \A x \in Nat, d \in 1..n : step[<<x, d>>] = x + term[d]
  BY <1>6
<1> HIDE DEF step
<1>8. PICK f \in [0..n -> Nat] : f[0] = zero /\ \A d \in 1..n : f[d] = step[<<f[d - 1], d>>]
  <2>1. IsRecursion(n, Nat, zero, step)
    BY <1>1, <1>7 DEF IsRecursion
  <2>2. PICK f : Computes(n, Nat, zero, step, f)
    BY <2>1, Recursion
  <2> QED
    BY <2>2 DEF Computes
<1>9. \A d \in 1..n : f[d] = f[d - 1] + term[d]
  <2>1. \A d \in 1..n : f[d - 1] \in Nat
    BY <1>1
  <2> QED
    BY <1>7, <1>8, <2>1
<1>10. Is(f)
  BY <1>2, <1>5, <1>8, <1>9
<1>11. Is(p)
  BY <1>4, <1>10
<1>12. p[0] = 0 /\ \A d \in 1..n : p[d] = p[d - 1] + term[d]
  <2>1. p = [d \in 0..n |-> IF d = 0 THEN 0 ELSE p[d - 1] + (r[d].start + pos[d]) * Strides(s)[d]]
    BY <1>11
  <2>2. 0 \in 0..n /\ \A d \in 1..n : d \in 0..n /\ d # 0
    BY <1>1
  <2>3. p[0] = 0
    BY <2>1, <2>2, Zenon
  <2>4. ASSUME NEW d \in 1..n
        PROVE  p[d] = p[d - 1] + term[d]
    <3>1. p[d] = p[d - 1] + (r[d].start + pos[d]) * Strides(s)[d]
      BY <2>1, <2>2, Zenon
    <3> QED
      BY <1>5, <3>1
  <2> QED
    BY <2>3, <2>4
<1>13. p = f
  <2>1. Follows(n, p, f)
    BY <1>1, <1>2, <1>8, <1>9, <1>12 DEF Follows
  <2>2. Agree(n, p, f)
    BY <2>1, Determined
  <2> QED
    BY <1>10, <1>11, <2>2 DEF Agree
<1> QED
  BY <1>5, <1>8, <1>12, <1>13 DEF n, p

\* A sum of strides, and the sum in units of the last one.
LEMMA StrideOfSum ==
  ASSUME NEW f \in Nat, NEW s \in Nat, NEW t \in Nat, NEW u \in Nat
  PROVE  f * (t * s) + u * t = (f * s + u) * t
OBVIOUS

\* Adding up by strides gives the flat index.
LEMMA OffsetsFlatten ==
  ASSUME NEW s, NEW r, AreRanges(s, r), NEW pos \in [1..Len(s) -> Nat],
         NEW u \in [DOMAIN s -> Nat], \A d \in 1..Len(s) : u[d] = r[d].start + pos[d]
  PROVE  Offsets(s, r, pos)[Len(s)] = FlatIndexOfView(s, u)
<1> DEFINE n == Len(s)
           O == Offsets(s, r, pos)
           F == Flattening(s, u)
           St == Strides(s)
<1>1. n \in Nat /\ s \in Seq(Nat) /\ \A d \in 1..n : s[d] \in Nat /\ u[d] \in Nat
  BY DEF AreRanges
<1>2. O \in [0..n -> Nat] /\ O[0] = 0 /\ \A d \in 1..n : O[d] = O[d - 1] + u[d] * St[d]
  BY OffsetsAre
<1>3. F \in [0..n -> Nat] /\ F[0] = 0 /\ \A d \in 1..n : F[d] = F[d - 1] * s[d] + u[d]
  BY <1>1, FlatteningIs
<1>4. St \in [1..n -> Nat] /\ (n # 0 => St[n] = 1) /\ \A d \in 1..n : d # 1 => St[d - 1] = St[d] * s[d]
  BY <1>1, StridesAre
<1>5. FlatIndexOfView(s, u) = F[n]
  BY DEF FlatIndexOfView
<1> HIDE DEF n, O, F, St
<1> DEFINE T == {d \in 0..n : d # 0 => O[d] = F[d] * St[d]}
<1>6. 0 \in T
  BY <1>1
<1>7. ASSUME NEW d \in 1..n, d - 1 \in T
      PROVE  d \in T
  <2>1. d \in 0..n /\ d - 1 \in 0..n
    BY <1>1
  <2>2. O[d] = O[d - 1] + u[d] * St[d] /\ F[d] = F[d - 1] * s[d] + u[d]
    BY <1>2, <1>3
  <2> DEFINE f == F[d - 1]
             x == s[d]
             t == St[d]
             v == u[d]
  <2>3. f \in Nat /\ x \in Nat /\ t \in Nat /\ v \in Nat
    BY <1>1, <1>3, <1>4, <2>1
  <2>4. CASE d = 1
    <3>1. O[d - 1] = 0 /\ f = 0
      BY <1>2, <1>3, <2>4
    <3>2. O[d] = 0 + v * t /\ F[d] = 0 * x + v
      BY <2>2, <3>1
    <3> HIDE DEF f, x, t, v
    <3>3. O[d] = F[d] * t
      BY <2>3, <3>2
    <3> QED
      BY <2>1, <3>3 DEF t
  <2>5. CASE d # 1
    <3>1. O[d - 1] = f * St[d - 1] /\ St[d - 1] = t * x
      BY <1>1, <1>4, <1>7, <2>5
    <3>2. O[d] = f * (t * x) + v * t /\ F[d] = f * x + v
      BY <2>2, <3>1
    <3> HIDE DEF f, x, t, v
    <3>3. O[d] = F[d] * t
      BY <2>3, <3>2, StrideOfSum
    <3> QED
      BY <2>1, <3>3 DEF t
  <2> QED
    BY <2>4, <2>5
<1>8. n \in T
  <2>1. PassedOn(n, T)
    BY <1>1, <1>6, <1>7 DEF PassedOn
  <2> QED
    BY <2>1, Upwards
<1>9. O[n] = F[n]
  <2>1. O[n] \in Nat /\ F[n] \in Nat
    BY <1>1, <1>2, <1>3
  <2> QED
    BY <1>1, <1>2, <1>3, <1>4, <1>8, <2>1
<1> QED
  BY <1>5, <1>9 DEF n, O

\* The dimensions that are kept.
LEMMA KeptIs ==
  ASSUME NEW s, NEW r, AreRanges(s, r)
  PROVE  /\ Kept(r) \in [0..Len(s) -> Nat]
         /\ Kept(r)[0] = 0
         /\ \A d \in 1..Len(s) : Kept(r)[d] = Kept(r)[d - 1] + (IF r[d].drop THEN 0 ELSE 1)
<1> DEFINE n == Len(s)
           zero == 0
           more == [d \in 1..n |-> IF r[d].drop THEN 0 ELSE 1]
           step == [x \in Nat \X (1..n) |-> x[1] + more[x[2]]]
           Is(f) == f = [d \in 0..n |-> IF d = 0 THEN 0 ELSE f[d - 1] + (IF r[d].drop THEN 0 ELSE 1)]
           p == Kept(r)
<1>1. n \in Nat /\ zero \in Nat /\ zero = 0 /\ Len(r) = n
  BY RangeIs
<1>2. p = CHOOSE f : Is(f)
  BY <1>1 DEF Kept
<1>3. more \in [1..n -> Nat] /\ \A d \in 1..n : more[d] = IF r[d].drop THEN 0 ELSE 1
  OBVIOUS
<1> HIDE DEF n, zero, more, p
<1>4. step \in [Nat \X (1..n) -> Nat] /\ \A x \in Nat, d \in 1..n : step[<<x, d>>] = x + more[d]
  BY <1>3
<1> HIDE DEF step
<1>5. PICK f \in [0..n -> Nat] : f[0] = zero /\ \A d \in 1..n : f[d] = step[<<f[d - 1], d>>]
  <2>1. IsRecursion(n, Nat, zero, step)
    BY <1>1, <1>4 DEF IsRecursion
  <2>2. PICK f : Computes(n, Nat, zero, step, f)
    BY <2>1, Recursion
  <2> QED
    BY <2>2 DEF Computes
<1>6. \A d \in 1..n : f[d] = f[d - 1] + more[d]
  <2>1. \A d \in 1..n : f[d - 1] \in Nat
    BY <1>1
  <2> QED
    BY <1>4, <1>5, <2>1
<1>7. Is(f)
  BY <1>1, <1>3, <1>5, <1>6
<1>8. Is(p)
  BY <1>2, <1>7
<1>9. p[0] = 0 /\ \A d \in 1..n : p[d] = p[d - 1] + (IF r[d].drop THEN 0 ELSE 1)
  BY <1>1, <1>8
<1>10. p = f
  <2>1. Follows(n, p, f)
    BY <1>1, <1>3, <1>5, <1>6, <1>9 DEF Follows
  <2>2. Agree(n, p, f)
    BY <2>1, Determined
  <2> QED
    BY <1>7, <1>8, <2>2 DEF Agree
<1> QED
  BY <1>5, <1>9, <1>10 DEF n, p

\* The number of dimensions that are kept grows from dimension to dimension.
LEMMA KeptGrows ==
  ASSUME NEW s, NEW r, AreRanges(s, r)
  PROVE  \A e \in 0..Len(s) : \A d \in 0..e : Kept(r)[d] <= Kept(r)[e]
<1> DEFINE n == Len(s)
           K == Kept(r)
           T == {e \in 0..n : \A d \in 0..e : K[d] <= K[e]}
<1>1. n \in Nat /\ K \in [0..n -> Nat]
      /\ \A d \in 1..n : K[d] = K[d - 1] + (IF r[d].drop THEN 0 ELSE 1)
  BY RangeIs, KeptIs
<1> HIDE DEF n, K
<1>2. 0 \in T
  BY <1>1
<1>3. ASSUME NEW e \in 1..n, e - 1 \in T
      PROVE  e \in T
  <2>1. e \in 0..n /\ e - 1 \in 0..n /\ K[e] \in Nat /\ K[e - 1] \in Nat /\ K[e - 1] <= K[e]
    <3>1. e \in 0..n /\ e - 1 \in 0..n
      BY <1>1
    <3>2. K[e] \in Nat /\ K[e - 1] \in Nat
      BY <1>1, <3>1
    <3>3. K[e] = K[e - 1] + (IF r[e].drop THEN 0 ELSE 1)
      BY <1>1
    <3> QED
      BY <3>1, <3>2, <3>3
  <2>2. ASSUME NEW d \in 0..e
        PROVE  K[d] <= K[e]
    <3>1. CASE d = e
      BY <2>1, <3>1
    <3>2. CASE d # e
      <4>1. d \in 0..e - 1 /\ d \in 0..n
        BY <1>1, <3>2
      <4>2. K[d] <= K[e - 1] /\ K[d] \in Nat
        BY <1>1, <1>3, <4>1
      <4> QED
        BY <2>1, <4>2
    <3> QED
      BY <3>1, <3>2
  <2> QED
    BY <2>1, <2>2
<1>4. UpTo(n, T)
  <2>1. PassedOn(n, T)
    BY <1>1, <1>2, <1>3 DEF PassedOn
  <2> QED
    BY <2>1, Upwards
<1> QED
  BY <1>4 DEF UpTo, n, K

\* The dimensions of a selection are the ones that are kept, one for one.
LEMMA KeptAtIs ==
  ASSUME NEW s, NEW r, AreRanges(s, r)
  PROVE  /\ Kept(r)[Len(s)] \in Nat
         /\ \A m \in 1..Kept(r)[Len(s)] :
               KeptAt(r, m) \in 1..Len(s) /\ ~r[KeptAt(r, m)].drop /\ Kept(r)[KeptAt(r, m)] = m
         /\ \A d \in 1..Len(s) : ~r[d].drop => Kept(r)[d] \in 1..Kept(r)[Len(s)] /\ KeptAt(r, Kept(r)[d]) = d
<1> DEFINE n == Len(s)
           K == Kept(r)
<1>1. n \in Nat /\ K \in [0..n -> Nat] /\ K[0] = 0 /\ DOMAIN r = 1..n
      /\ \A d \in 1..n : K[d] = K[d - 1] + (IF r[d].drop THEN 0 ELSE 1)
  BY RangeIs, KeptIs
<1>2. \A e \in 0..n : \A d \in 0..e : K[d] <= K[e]
  BY KeptGrows
<1>3. \A m : KeptAt(r, m) = CHOOSE d \in 1..n : ~r[d].drop /\ K[d] = m
  BY <1>1 DEF KeptAt
<1> HIDE DEF n, K
<1>4. ASSUME NEW m \in 1..K[n]
      PROVE  KeptAt(r, m) \in 1..n /\ ~r[KeptAt(r, m)].drop /\ K[KeptAt(r, m)] = m
  <2> DEFINE T == {d \in 0..n : m <= K[d]}
  <2>1. n \in T /\ T \in SUBSET Nat
    BY <1>1
  <2>2. PICK d \in T : \A e \in T : d <= e
    <3> HIDE DEF T
    <3> QED
      BY <2>1, LeastNat
  <2>3. d # 0 /\ d \in 1..n /\ d - 1 \in 0..n /\ K[d] \in Nat /\ K[d - 1] \in Nat /\ K[n] \in Nat
    BY <1>1, <2>2
  <2>4. K[d - 1] < m
    BY <2>2, <2>3
  <2>5. m <= K[d]
    BY <2>2
  <2>6. K[d] = K[d - 1] + (IF r[d].drop THEN 0 ELSE 1)
    BY <1>1, <2>3
  <2>7. ~r[d].drop /\ K[d] = m
    BY <2>3, <2>4, <2>5, <2>6
  <2>8. \E x \in 1..n : ~r[x].drop /\ K[x] = m
    BY <2>3, <2>7
  <2> QED
    BY <1>3, <2>8
<1>5. ASSUME NEW d \in 1..n, ~r[d].drop
      PROVE  K[d] \in 1..K[n] /\ KeptAt(r, K[d]) = d
  <2>1. d \in 0..n /\ d - 1 \in 0..n /\ K[d - 1] \in Nat /\ K[d] = K[d - 1] + 1 /\ K[n] \in Nat
    BY <1>1, <1>5
  <2>2. K[d] <= K[n] /\ K[d] \in 1..K[n]
    <3>1. K[d] <= K[n]
      BY <1>1, <1>2, <2>1
    <3> QED
      BY <2>1, <3>1
  <2> DEFINE e == KeptAt(r, K[d])
  <2>3. e \in 1..n /\ ~r[e].drop /\ K[e] = K[d]
    BY <1>4, <2>2
  <2> HIDE DEF e
  <2>4. K[e] = K[e - 1] + 1 /\ e - 1 \in 0..n /\ e \in 0..n /\ K[e - 1] \in Nat
    BY <1>1, <2>3
  <2>5. ~(d < e)
    <3> SUFFICES ASSUME d < e PROVE FALSE
      OBVIOUS
    <3>1. d \in 0..e - 1
      BY <1>1, <2>1, <2>3
    <3>2. K[d] <= K[e - 1]
      BY <1>2, <2>4, <3>1
    <3> QED
      BY <2>1, <2>3, <2>4, <3>2
  <2>6. ~(e < d)
    <3> SUFFICES ASSUME e < d PROVE FALSE
      OBVIOUS
    <3>1. e \in 0..d - 1
      BY <1>1, <2>1, <2>3
    <3>2. K[e] <= K[d - 1]
      BY <1>2, <2>1, <3>1
    <3> QED
      BY <2>1, <2>3, <3>2
  <2> QED
    BY <1>1, <2>2, <2>3, <2>5, <2>6 DEF e
<1>6. K[n] \in Nat
  BY <1>1
<1> QED
  BY <1>4, <1>5, <1>6 DEF n, K

\* The extents of a selection are the counts of the dimensions that are kept.
LEMMA SelectedShapeIs ==
  ASSUME NEW s, NEW r, AreRanges(s, r)
  PROVE  /\ SelectedShape(r) \in Seq(Nat) /\ Len(SelectedShape(r)) = Kept(r)[Len(s)]
         /\ \A d \in 1..Len(s) : ~r[d].drop => SelectedShape(r)[Kept(r)[d]] = r[d].count
<1> DEFINE m == Kept(r)[Len(s)]
<1>1. m \in Nat /\ Len(r) = Len(s)
  BY RangeIs, KeptAtIs
<1>2. SelectedShape(r) = [k \in 1..m |-> r[KeptAt(r, k)].count]
  BY <1>1 DEF SelectedShape
<1>3. \A k \in 1..m : r[KeptAt(r, k)].count \in Nat
  BY RangeIs, KeptAtIs
<1>4. \A d \in 1..Len(s) : ~r[d].drop => Kept(r)[d] \in 1..m /\ KeptAt(r, Kept(r)[d]) = d
  BY KeptAtIs
<1> HIDE DEF m
<1>5. SelectedShape(r) \in [1..m -> Nat]
  BY <1>2, <1>3
<1>6. SelectedShape(r) \in Seq(Nat) /\ Len(SelectedShape(r)) = m
  BY <1>1, <1>5
<1>7. \A d \in 1..Len(s) : ~r[d].drop => SelectedShape(r)[Kept(r)[d]] = r[d].count
  BY <1>2, <1>4
<1> QED
  BY <1>6, <1>7 DEF m

\* The position, in the box of all counts, of an element of a selection.
Full(s, r, j) == [d \in 1..Len(s) |-> IF r[d].drop THEN 0 ELSE j[Kept(r)[d]]]

\* A dimension that is dropped has one index only, which leaves the flat index as it is.
LEMMA FullIs ==
  ASSUME NEW s, NEW r, AreRanges(s, r)
  PROVE  /\ Counts(r) \in Seq(Nat) /\ SelectedShape(r) \in Seq(Nat)
         /\ Len(Counts(r)) = Len(s) /\ Size(Counts(r)) = Size(SelectedShape(r))
         /\ \A j \in Box(SelectedShape(r)) :
               /\ Full(s, r, j) \in Box(Counts(r))
               /\ FlatIndexOfView(Counts(r), Full(s, r, j)) = FlatIndexOfView(SelectedShape(r), j)
<1> DEFINE n == Len(s)
           K == Kept(r)
           C == Counts(r)
           S == SelectedShape(r)
           P == Products(C)
           Q == Products(S)
<1>1. n \in Nat /\ DOMAIN r = 1..n
      /\ \A d \in 1..n : r[d].count \in Nat /\ r[d].drop \in BOOLEAN /\ (r[d].drop => r[d].count = 1)
  BY RangeIs
<1>2. C \in Seq(Nat) /\ Len(C) = n /\ DOMAIN C = 1..n /\ \A d \in 1..n : C[d] = r[d].count
  <2>1. C = [d \in 1..n |-> r[d].count]
    BY <1>1 DEF Counts
  <2> HIDE DEF n, C
  <2>2. C \in [1..n -> Nat]
    BY <1>1, <2>1
  <2> QED
    BY <1>1, <2>1, <2>2
<1>3. K \in [0..n -> Nat] /\ K[0] = 0 /\ \A d \in 1..n : K[d] = K[d - 1] + (IF r[d].drop THEN 0 ELSE 1)
  BY KeptIs
<1>4. S \in Seq(Nat) /\ Len(S) = K[n] /\ \A d \in 1..n : ~r[d].drop => S[K[d]] = r[d].count
  BY SelectedShapeIs
<1>5. \A d \in 1..n : ~r[d].drop => K[d] \in 1..Len(S)
  BY <1>4, KeptAtIs
<1>6. \A d \in 0..n : K[d] \in 0..Len(S)
  <2>1. \A d \in 0..n : K[d] <= K[n]
    BY <1>1, KeptGrows
  <2> HIDE DEF n, K, S
  <2> QED
    BY <1>1, <1>3, <1>4, <2>1
<1>7. P \in [0..n -> Nat] /\ P[0] = 1 /\ \A d \in 1..n : P[d] = P[d - 1] * C[d]
  BY <1>2, ProductsAre
<1>8. Q \in [0..Len(S) -> Nat] /\ Q[0] = 1 /\ \A d \in 1..Len(S) : Q[d] = Q[d - 1] * S[d]
  BY <1>4, ProductsAre
<1>9. Size(C) = Size(S)
  <2>1. Size(C) = P[n] /\ Size(S) = Q[K[n]]
    BY <1>2, <1>4 DEF Size
  <2> HIDE DEF n, K, C, S, P, Q
  <2> DEFINE T == {d \in 0..n : P[d] = Q[K[d]]}
  <2>2. 0 \in T
    BY <1>1, <1>3, <1>7, <1>8
  <2>3. ASSUME NEW d \in 1..n, d - 1 \in T
        PROVE  d \in T
    <3>1. d \in 0..n /\ d - 1 \in 0..n /\ K[d] \in Nat /\ K[d - 1] \in Nat /\ P[d - 1] \in Nat
      BY <1>1, <1>3, <1>7
    <3>2. P[d] = P[d - 1] * C[d] /\ P[d - 1] = Q[K[d - 1]] /\ C[d] = r[d].count
      BY <1>2, <1>7, <2>3
    <3>3. CASE r[d].drop
      <4>1. K[d] = K[d - 1] /\ C[d] = 1
        BY <1>1, <1>3, <3>1, <3>2, <3>3
      <4>2. P[d] = P[d - 1]
        BY <3>1, <3>2, <4>1
      <4> QED
        BY <3>1, <3>2, <4>1, <4>2
    <3>4. CASE ~r[d].drop
      <4>1. K[d] = K[d - 1] + 1 /\ K[d] \in 1..Len(S) /\ S[K[d]] = C[d]
        BY <1>3, <1>4, <1>5, <3>2, <3>4
      <4>2. Q[K[d]] = Q[K[d] - 1] * S[K[d]] /\ K[d] - 1 = K[d - 1]
        BY <1>8, <3>1, <4>1
      <4> QED
        BY <3>1, <3>2, <4>1, <4>2
    <3> QED
      BY <3>3, <3>4
  <2>4. n \in T
    <3>1. PassedOn(n, T)
      BY <1>1, <2>2, <2>3 DEF PassedOn
    <3> QED
      BY <3>1, Upwards
  <2> QED
    BY <2>1, <2>4
<1>10. ASSUME NEW j \in Box(S)
       PROVE  /\ Full(s, r, j) \in Box(C)
              /\ FlatIndexOfView(C, Full(s, r, j)) = FlatIndexOfView(S, j)
  <2> DEFINE i == Full(s, r, j)
             F == Flattening(C, i)
             G == Flattening(S, j)
  <2>1. j \in [DOMAIN S -> Nat] /\ \A d \in 1..Len(S) : j[d] \in Nat /\ j[d] < S[d]
    BY <1>4, PositionIs
  <2>2. i = [d \in 1..n |-> IF r[d].drop THEN 0 ELSE j[K[d]]]
    BY DEF Full
  <2>3. G \in [0..Len(S) -> Nat] /\ G[0] = 0 /\ \A d \in 1..Len(S) : G[d] = G[d - 1] * S[d] + j[d]
    BY <1>4, <2>1, FlatteningIs
  <2> HIDE DEF n, K, S, C, P, Q, i, G
  <2>4. ASSUME NEW d \in 1..n
        PROVE  i[d] \in Nat /\ i[d] < C[d]
    <3>1. C[d] = r[d].count /\ i[d] = IF r[d].drop THEN 0 ELSE j[K[d]]
      BY <1>2, <2>2
    <3>2. CASE r[d].drop
      BY <1>1, <3>1, <3>2
    <3>3. CASE ~r[d].drop
      <4>1. K[d] \in 1..Len(S) /\ S[K[d]] = r[d].count
        BY <1>4, <1>5, <3>3
      <4> QED
        BY <2>1, <3>1, <3>3, <4>1
    <3> QED
      BY <3>2, <3>3
  <2>5. i \in [1..n -> Nat]
    BY <2>2, <2>4
  <2>6. i \in Box(C)
    BY <1>2, <2>4, <2>5, BoxIs
  <2>7. F \in [0..n -> Nat] /\ F[0] = 0 /\ \A d \in 1..n : F[d] = F[d - 1] * C[d] + i[d]
    BY <1>2, <2>5, FlatteningIs
  <2>8. FlatIndexOfView(C, i) = F[n] /\ FlatIndexOfView(S, j) = G[K[n]]
    BY <1>2, <1>4 DEF FlatIndexOfView, G
  <2> HIDE DEF F
  <2> DEFINE T == {d \in 0..n : F[d] = G[K[d]]}
  <2>9. 0 \in T
    BY <1>1, <1>3, <2>3, <2>7
  <2>10. ASSUME NEW d \in 1..n, d - 1 \in T
         PROVE  d \in T
    <3>1. d \in 0..n /\ d - 1 \in 0..n /\ K[d] \in Nat /\ K[d - 1] \in Nat /\ F[d - 1] \in Nat
      BY <1>1, <1>3, <2>7
    <3>2. F[d] = F[d - 1] * C[d] + i[d] /\ F[d - 1] = G[K[d - 1]] /\ C[d] = r[d].count
      BY <1>2, <2>7, <2>10
    <3>3. CASE r[d].drop
      <4>1. K[d] = K[d - 1] /\ C[d] = 1 /\ i[d] = 0
        BY <1>1, <1>3, <2>2, <3>1, <3>2, <3>3
      <4>2. F[d] = F[d - 1]
        BY <3>1, <3>2, <4>1
      <4> QED
        BY <3>1, <3>2, <4>1, <4>2
    <3>4. CASE ~r[d].drop
      <4>1. K[d] = K[d - 1] + 1 /\ K[d] \in 1..Len(S) /\ S[K[d]] = C[d] /\ i[d] = j[K[d]]
        BY <1>3, <1>4, <1>5, <2>2, <3>2, <3>4
      <4>2. G[K[d]] = G[K[d] - 1] * S[K[d]] + j[K[d]] /\ K[d] - 1 = K[d - 1]
        BY <2>3, <3>1, <4>1
      <4> QED
        BY <3>1, <3>2, <4>1, <4>2
    <3> QED
      BY <3>3, <3>4
  <2>11. n \in T
    <3>1. PassedOn(n, T)
      BY <1>1, <2>9, <2>10 DEF PassedOn
    <3> QED
      BY <3>1, Upwards
  <2> QED
    BY <2>6, <2>8, <2>11 DEF i
<1> QED
  BY <1>2, <1>4, <1>9, <1>10

\* select_flat finds the elements of a selection, in their order.
LEMMA UnselectedIs ==
  ASSUME NEW s, NEW r, AreRanges(s, r), NEW j \in Box(SelectedShape(r))
  PROVE  /\ Unselected(r, j) \in Box(s)
         /\ Full(s, r, j) \in [1..Len(s) -> Nat]
         /\ \A d \in 1..Len(s) : Unselected(r, j)[d] = r[d].start + Full(s, r, j)[d]
<1> DEFINE n == Len(s)
           i == Full(s, r, j)
           u == Unselected(r, j)
<1>1. s \in Seq(Nat) /\ n \in Nat /\ DOMAIN r = 1..n /\ DOMAIN s = 1..n
      /\ \A d \in 1..n : r[d].start \in Nat /\ r[d].count \in Nat /\ s[d] \in Nat /\ r[d].start + r[d].count <= s[d]
  BY RangeIs DEF AreRanges
<1>2. u = [d \in 1..n |-> r[d].start + (IF r[d].drop THEN 0 ELSE j[Kept(r)[d]])]
  BY <1>1 DEF Unselected
<1>3. i = [d \in 1..n |-> IF r[d].drop THEN 0 ELSE j[Kept(r)[d]]]
  BY DEF Full
<1>4. Counts(r) = [d \in 1..n |-> r[d].count]
  BY <1>1 DEF Counts
<1>5. i \in [1..n -> Nat] /\ \A d \in 1..n : i[d] \in Nat /\ i[d] < r[d].count
  <2>1. i \in Box(Counts(r)) /\ Counts(r) \in Seq(Nat) /\ Len(Counts(r)) = n
    BY FullIs
  <2> HIDE DEF i, n
  <2> QED
    BY <1>4, <2>1, PositionIs
<1> HIDE DEF n, i, u
<1>6. \A d \in 1..n : u[d] = r[d].start + i[d]
  BY <1>2, <1>3
<1>7. u \in [1..n -> Nat] /\ \A d \in 1..n : u[d] < s[d]
  <2>1. u = [d \in 1..n |-> u[d]]
    BY <1>2
  <2>2. ASSUME NEW d \in 1..n
        PROVE  u[d] \in Nat /\ u[d] < s[d]
    <3>1. /\ r[d].start \in Nat /\ r[d].count \in Nat /\ s[d] \in Nat /\ r[d].start + r[d].count <= s[d]
          /\ i[d] \in Nat /\ i[d] < r[d].count
      BY <1>1, <1>5
    <3> QED
      BY <1>6, <3>1
  <2> QED
    BY <2>1, <2>2
<1>8. u \in Box(s)
  BY <1>1, <1>7, BoxIs
<1> QED
  BY <1>5, <1>6, <1>8 DEF n, i, u

\* select_flat() finds the elements that the positions in the selection stand for.
LEMMA SelectedFlatIs ==
  ASSUME NEW s, NEW r, AreRanges(s, r)
  PROVE  /\ DOMAIN SelectedFlat(s, r) = 1..Size(SelectedShape(r))
         /\ \A k \in 1..Size(SelectedShape(r)) :
               /\ Positions(SelectedShape(r))[k] \in Box(SelectedShape(r))
               /\ Unselected(r, Positions(SelectedShape(r))[k]) \in Box(s)
               /\ SelectedFlat(s, r)[k] = FlatIndexOfView(s, Unselected(r, Positions(SelectedShape(r))[k]))
<1> DEFINE S == SelectedShape(r)
           C == Counts(r)
           m == Size(S)
           pos == Positions(C)
<1>1. S \in Seq(Nat) /\ C \in Seq(Nat) /\ Size(C) = m /\ m \in Nat /\ Len(r) = Len(s)
  BY RangeIs, FullIs, PositionsAre
<1>2. pos \in [1..m -> Box(C)] /\ \A k \in 1..m : FlatIndexOfView(C, pos[k]) = k - 1
  BY <1>1, PositionsAre
<1>3. SelectedFlat(s, r) = [k \in 1..m |-> Offsets(s, r, pos[k])[Len(s)]]
  BY <1>1, <1>2 DEF SelectedFlat
<1>4. ASSUME NEW k \in 1..m
      PROVE  /\ Positions(S)[k] \in Box(S)
             /\ Unselected(r, Positions(S)[k]) \in Box(s)
             /\ SelectedFlat(s, r)[k] = FlatIndexOfView(s, Unselected(r, Positions(S)[k]))
  <2> DEFINE j == Positions(S)[k]
             i == Full(s, r, j)
             u == Unselected(r, j)
  <2>1. j \in Box(S) /\ FlatIndexOfView(S, j) = k - 1
    BY <1>1, PositionsAre
  <2>2. i \in Box(C) /\ FlatIndexOfView(C, i) = k - 1
    BY <2>1, FullIs
  <2>3. i = pos[k]
    BY <1>1, <1>2, <2>2, FlatIndexDiffers
  <2>4. u \in Box(s) /\ i \in [1..Len(s) -> Nat] /\ \A d \in 1..Len(s) : u[d] = r[d].start + i[d]
    BY <2>1, UnselectedIs
  <2>5. u \in [DOMAIN s -> Nat]
    BY <2>4, PositionIs DEF AreRanges
  <2> HIDE DEF S, C, m, pos, j, i, u
  <2>6. Offsets(s, r, i)[Len(s)] = FlatIndexOfView(s, u)
    BY <2>4, <2>5, OffsetsFlatten
  <2>7. SelectedFlat(s, r)[k] = FlatIndexOfView(s, u)
    BY <1>3, <2>3, <2>6
  <2> QED
    BY <2>1, <2>4, <2>7 DEF j, u
<1> QED
  BY <1>3, <1>4

\* What slices resolve to are ranges.
LEMMA RangesAre ==
  ASSUME NEW s \in Seq(Nat), NEW slices \in Selections, CanResolveAll(s, slices)
  PROVE  AreRanges(s, Ranges(s, slices))
<1> DEFINE r == Ranges(s, slices)
           n == Len(s)
<1>1. n \in Nat /\ DOMAIN s = 1..n /\ \A d \in 1..n : s[d] \in Nat
  OBVIOUS
<1>2. slices \in Seq([start : Seq(Int), stop : Seq(Int), drop : BOOLEAN])
      /\ \A d \in DOMAIN slices : slices[d].drop => slices[d].start # <<>>
  BY StructAssumption
<1>3. r = [d \in 1..n |-> IF d <= Len(slices) THEN Resolve(slices[d], s[d])
                          ELSE [start |-> 0, count |-> s[d], drop |-> FALSE]]
  BY <1>1 DEF Ranges
<1>4. ASSUME NEW d \in 1..n
      PROVE  r[d] \in RangeRecord /\ r[d].start + r[d].count <= s[d] /\ (r[d].drop => r[d].count = 1)
  <2> DEFINE x == slices[d]
             e == s[d]
  <2>1. e \in Nat
    BY <1>1
  <2>2. CASE d <= Len(slices)
    <3>1. d \in DOMAIN slices
      BY <1>2, <2>2
    <3>2. x \in [start : Seq(Int), stop : Seq(Int), drop : BOOLEAN] /\ (x.drop => x.start # <<>>)
      <4> DEFINE R == [start : Seq(Int), stop : Seq(Int), drop : BOOLEAN]
      <4>1. slices \in Seq(R) /\ (x.drop => x.start # <<>>)
        BY <1>2, <3>1
      <4> HIDE DEF R
      <4>2. x \in R
        BY <3>1, <4>1
      <4> QED
        BY <4>1, <4>2 DEF R
    <3>3. CanResolve(x, e)
      BY <3>1 DEF CanResolveAll
    <3>4. r[d] = Resolve(x, e)
      BY <1>3, <2>2
    <3>5. (x.start # <<>> => x.start[1] \in Int) /\ (x.stop # <<>> => x.stop[1] \in Int) /\ x.drop \in BOOLEAN
      BY <3>2
    <3> HIDE DEF x, e, r
    <3>6. \A i \in Int : Clamp(i, e) \in 0..e
      BY <2>1 DEF Clamp, FromEnd
    <3>7. CASE x.drop
      <4>1. r[d] = [start |-> FromEnd(x.start[1], e), count |-> 1, drop |-> TRUE]
        BY <3>4, <3>7 DEF Resolve
      <4>2. FromEnd(x.start[1], e) \in 0..e - 1
        BY <3>3, <3>7 DEF CanResolve
      <4> QED
        BY <2>1, <4>1, <4>2 DEF RangeRecord, e
    <3>8. CASE ~x.drop
      <4> DEFINE begin == IF x.start = <<>> THEN 0 ELSE Clamp(x.start[1], e)
                 end == IF x.stop = <<>> THEN e ELSE Clamp(x.stop[1], e)
      <4>1. r[d] = [start |-> begin, count |-> IF end > begin THEN end - begin ELSE 0, drop |-> FALSE]
        BY <3>4, <3>8 DEF Resolve
      <4>2. begin \in 0..e
        <5>1. CASE x.start = <<>>
          BY <2>1, <5>1
        <5>2. CASE x.start # <<>>
          BY <3>5, <3>6, <5>2
        <5> QED
          BY <5>1, <5>2
      <4>3. end \in 0..e
        <5>1. CASE x.stop = <<>>
          BY <2>1, <5>1
        <5>2. CASE x.stop # <<>>
          BY <3>5, <3>6, <5>2
        <5> QED
          BY <5>1, <5>2
      <4> HIDE DEF begin, end
      <4> QED
        BY <2>1, <4>1, <4>2, <4>3 DEF RangeRecord, e
    <3> QED
      BY <3>7, <3>8
  <2>3. CASE ~(d <= Len(slices))
    <3>1. r[d] = [start |-> 0, count |-> e, drop |-> FALSE]
      BY <1>3, <2>3
    <3> HIDE DEF r
    <3> QED
      BY <2>1, <3>1 DEF RangeRecord
  <2> QED
    BY <2>2, <2>3
<1> HIDE DEF r, n
<1>5. r \in Seq(RangeRecord) /\ Len(r) = n
  <2>1. r = [d \in 1..n |-> r[d]]
    BY <1>3
  <2>2. r \in [1..n -> RangeRecord]
    BY <1>4, <2>1
  <2> QED
    BY <1>1, <2>2
<1> QED
  BY <1>4, <1>5 DEF AreRanges, r, n

(***************************************************************************)
(* Arrays of arrays.                                                       *)
(***************************************************************************)
\* A flat index of an array of arrays, from the flat indices in each.
LEMMA NestedFlat ==
  ASSUME NEW x \in Nat, NEW p \in Nat, NEW g \in Nat, NEW t \in Nat, NEW i \in Nat
  PROVE  (x * p + g) * t + i = x * (p * t) + (g * t + i)
OBVIOUS

\* An array of arrays has as many elements as the product of both sizes.
LEMMA NestedProducts ==
  ASSUME NEW s \in Seq(Nat), NEW t \in Seq(Nat)
  PROVE  /\ s \o t \in Seq(Nat) /\ Len(s \o t) = Len(s) + Len(t)
         /\ Size(s \o t) = Size(s) * Size(t)
<1> DEFINE a == Len(s)
           b == Len(t)
           c == s \o t
           P == Products(c)
           Ps == Products(s)
           Pt == Products(t)
<1>1. a \in Nat /\ b \in Nat /\ c \in Seq(Nat) /\ Len(c) = a + b
      /\ (\A d \in 1..a : c[d] = s[d] /\ s[d] \in Nat) /\ \A e \in 1..b : c[a + e] = t[e] /\ t[e] \in Nat
  OBVIOUS
<1>2. P \in [0..a + b -> Nat] /\ P[0] = 1 /\ \A d \in 1..a + b : P[d] = P[d - 1] * c[d]
  BY <1>1, ProductsAre
<1>3. Ps \in [0..a -> Nat] /\ Ps[0] = 1 /\ \A d \in 1..a : Ps[d] = Ps[d - 1] * s[d]
  BY ProductsAre
<1>4. Pt \in [0..b -> Nat] /\ Pt[0] = 1 /\ \A d \in 1..b : Pt[d] = Pt[d - 1] * t[d]
  BY ProductsAre
<1>5. Size(c) = P[a + b] /\ Size(s) = Ps[a] /\ Size(t) = Pt[b]
  BY <1>1 DEF Size
<1> HIDE DEF a, b, c, P, Ps, Pt
<1>6. P[a] = Ps[a]
  <2> DEFINE T == {d \in 0..a : P[d] = Ps[d]}
  <2>1. 0 \in T
    BY <1>1, <1>2, <1>3
  <2>2. ASSUME NEW d \in 1..a, d - 1 \in T
        PROVE  d \in T
    <3>1. d \in 1..a + b /\ d \in 0..a /\ P[d - 1] = Ps[d - 1]
      BY <1>1, <2>2
    <3> QED
      BY <1>1, <1>2, <1>3, <3>1
  <2>3. PassedOn(a, T)
    BY <1>1, <2>1, <2>2 DEF PassedOn
  <2> QED
    BY <2>3, Upwards
<1>7. P[a + b] = Ps[a] * Pt[b]
  <2> DEFINE T == {e \in 0..b : P[a + e] = Ps[a] * Pt[e]}
  <2>1. 0 \in T
    <3>1. Ps[a] \in Nat /\ Ps[a] * 1 = Ps[a] /\ a + 0 = a
      BY <1>1, <1>3
    <3> QED
      BY <1>1, <1>4, <1>6, <3>1
  <2>2. ASSUME NEW e \in 1..b, e - 1 \in T
        PROVE  e \in T
    <3> DEFINE x == Ps[a]
               p == Pt[e - 1]
               y == t[e]
    <3>1. a + e \in 1..a + b /\ e \in 0..b /\ (a + e) - 1 = a + (e - 1) /\ e - 1 \in 0..b
      BY <1>1
    <3>2. x \in Nat /\ p \in Nat /\ y \in Nat
      BY <1>1, <1>3, <1>4, <3>1
    <3>3. P[a + e] = (x * p) * y /\ Pt[e] = p * y
      <4>1. P[a + e] = P[(a + e) - 1] * c[a + e]
        BY <1>2, <3>1
      <4>2. P[(a + e) - 1] = x * p /\ c[a + e] = y
        BY <1>1, <2>2, <3>1
      <4> QED
        BY <1>4, <4>1, <4>2
    <3> HIDE DEF x, p, y
    <3>4. (x * p) * y = x * (p * y)
      BY <3>2
    <3> QED
      BY <3>1, <3>3, <3>4 DEF x
  <2>3. PassedOn(b, T)
    BY <1>1, <2>1, <2>2 DEF PassedOn
  <2>4. b \in T
    BY <2>3, Upwards
  <2> QED
    BY <2>4
<1> QED
  BY <1>1, <1>5, <1>7 DEF a, b, c

HasHalves(a, b, i) == a \in Nat /\ b \in Nat /\ i \in Seq(Nat) /\ Len(i) = a + b
AreHalves(a, b, i, j, k) ==
    /\ j \in Seq(Nat) /\ Len(j) = a /\ (\A d \in 1..a : j[d] = i[d])
    /\ k \in Seq(Nat) /\ Len(k) = b /\ (\A e \in 1..b : k[e] = i[a + e])
    /\ j \in [1..a -> Nat] /\ k \in [1..b -> Nat]

\* The two halves of a sequence.
LEMMA Halves ==
  ASSUME NEW a, NEW b, NEW i, HasHalves(a, b, i)
  PROVE  AreHalves(a, b, i, SubSeq(i, 1, a), SubSeq(i, a + 1, Len(i)))
<1> USE DEF HasHalves
<1> DEFINE j == SubSeq(i, 1, a)
           k == SubSeq(i, a + 1, a + b)
<1>1. j \in Seq(Nat) /\ Len(j) = a /\ \A d \in 1..a : j[d] = i[d]
  OBVIOUS
<1>2. k \in Seq(Nat) /\ Len(k) = b
  OBVIOUS
<1>3. ASSUME NEW e \in 1..b PROVE k[e] = i[a + e]
  OBVIOUS
<1> HIDE DEF j, k
<1>4. j \in [1..a -> Nat] /\ k \in [1..b -> Nat]
  BY <1>1, <1>2
<1> QED
  BY <1>1, <1>2, <1>3, <1>4 DEF j, k, AreHalves

\* A position in an array of arrays is one in each of them.
LEMMA NestedPosition ==
  ASSUME NEW s \in Seq(Nat), NEW t \in Seq(Nat), NEW i \in Box(s \o t)
  PROVE  /\ SubSeq(i, 1, Len(s)) \in Box(s)
         /\ SubSeq(i, Len(s) + 1, Len(i)) \in Box(t)
         /\ FlatIndexOfView(s \o t, i) =
                FlatIndexOfView(s, SubSeq(i, 1, Len(s))) * Size(t)
                    + FlatIndexOfView(t, SubSeq(i, Len(s) + 1, Len(i)))
<1> DEFINE a == Len(s)
           b == Len(t)
           c == s \o t
           j == SubSeq(i, 1, a)
           k == SubSeq(i, a + 1, Len(i))
           F == Flattening(c, i)
           Fs == Flattening(s, j)
           Ft == Flattening(t, k)
           Pt == Products(t)
<1>1. a \in Nat /\ b \in Nat /\ c \in Seq(Nat) /\ Len(c) = a + b /\ DOMAIN s = 1..a /\ DOMAIN t = 1..b
      /\ (\A d \in 1..a : c[d] = s[d] /\ s[d] \in Nat) /\ \A e \in 1..b : c[a + e] = t[e] /\ t[e] \in Nat
  OBVIOUS
<1>2. i \in Seq(Nat) /\ Len(i) = a + b /\ \A d \in 1..a + b : i[d] \in Nat /\ i[d] < c[d]
  BY <1>1, PositionIs
<1>3. j \in Seq(Nat) /\ Len(j) = a /\ (\A d \in 1..a : j[d] = i[d])
      /\ k \in Seq(Nat) /\ Len(k) = b /\ (\A e \in 1..b : k[e] = i[a + e])
      /\ j \in [1..a -> Nat] /\ k \in [1..b -> Nat]
  <2>1. HasHalves(a, b, i)
    BY <1>1, <1>2 DEF HasHalves
  <2> HIDE DEF a, b
  <2>2. AreHalves(a, b, i, j, k)
    BY <2>1, Halves
  <2> QED
    BY <2>2 DEF AreHalves
<1>4. F \in [0..a + b -> Nat] /\ F[0] = 0 /\ \A d \in 1..a + b : F[d] = F[d - 1] * c[d] + i[d]
  <2>1. i \in [DOMAIN c -> Nat]
    BY <1>1, PositionIs
  <2> QED
    BY <1>1, <2>1, FlatteningIs
<1>5. Fs \in [0..a -> Nat] /\ Fs[0] = 0 /\ \A d \in 1..a : Fs[d] = Fs[d - 1] * s[d] + j[d]
  <2>1. j \in [DOMAIN s -> Nat]
    BY <1>1, <1>3
  <2> QED
    BY <2>1, FlatteningIs
<1>6. Ft \in [0..b -> Nat] /\ Ft[0] = 0 /\ \A d \in 1..b : Ft[d] = Ft[d - 1] * t[d] + k[d]
  <2>1. k \in [DOMAIN t -> Nat]
    BY <1>1, <1>3
  <2> QED
    BY <2>1, FlatteningIs
<1>7. Pt \in [0..b -> Nat] /\ Pt[0] = 1 /\ \A d \in 1..b : Pt[d] = Pt[d - 1] * t[d]
  BY ProductsAre
<1>8. FlatIndexOfView(c, i) = F[a + b] /\ FlatIndexOfView(s, j) = Fs[a] /\ FlatIndexOfView(t, k) = Ft[b] /\ Size(t) = Pt[b]
  BY <1>1 DEF Size, FlatIndexOfView
<1> HIDE DEF a, b, c, F, Fs, Ft, Pt, j, k
<1>9. j \in Box(s)
  <2>1. j \in [DOMAIN s -> Nat]
    BY <1>1, <1>3
  <2>2. ASSUME NEW d \in 1..a
        PROVE  j[d] < s[d]
    <3>1. d \in 1..a + b
      BY <1>1
    <3> QED
      BY <1>1, <1>2, <1>3, <3>1
  <2> QED
    BY <1>1, <2>1, <2>2, BoxIs
<1>10. k \in Box(t)
  <2>1. k \in [DOMAIN t -> Nat]
    BY <1>1, <1>3
  <2>2. ASSUME NEW e \in 1..b
        PROVE  k[e] < t[e]
    <3>1. a + e \in 1..a + b
      BY <1>1
    <3> QED
      BY <1>1, <1>2, <1>3, <3>1
  <2> QED
    BY <1>1, <2>1, <2>2, BoxIs
<1>11. F[a] = Fs[a]
  <2> DEFINE T == {d \in 0..a : F[d] = Fs[d]}
  <2>1. 0 \in T
    BY <1>1, <1>4, <1>5
  <2>2. ASSUME NEW d \in 1..a, d - 1 \in T
        PROVE  d \in T
    <3>1. d \in 1..a + b /\ d \in 0..a /\ F[d - 1] = Fs[d - 1]
      BY <1>1, <2>2
    <3>2. c[d] = s[d] /\ i[d] = j[d]
      BY <1>1, <1>3
    <3>3. F[d] = F[d - 1] * c[d] + i[d] /\ Fs[d] = Fs[d - 1] * s[d] + j[d]
      BY <1>4, <1>5, <3>1
    <3> QED
      BY <3>1, <3>2, <3>3
  <2>3. PassedOn(a, T)
    BY <1>1, <2>1, <2>2 DEF PassedOn
  <2> QED
    BY <2>3, Upwards
<1>12. F[a + b] = Fs[a] * Pt[b] + Ft[b]
  <2> DEFINE T == {e \in 0..b : F[a + e] = Fs[a] * Pt[e] + Ft[e]}
  <2>1. 0 \in T
    <3>1. Fs[a] \in Nat /\ Fs[a] * 1 + 0 = Fs[a] /\ a + 0 = a
      BY <1>1, <1>5
    <3> QED
      BY <1>1, <1>6, <1>7, <1>11, <3>1
  <2>2. ASSUME NEW e \in 1..b, e - 1 \in T
        PROVE  e \in T
    <3> DEFINE x == Fs[a]
               p == Pt[e - 1]
               g == Ft[e - 1]
               y == t[e]
               z == k[e]
    <3>1. a + e \in 1..a + b /\ e \in 0..b /\ (a + e) - 1 = a + (e - 1) /\ e - 1 \in 0..b
      BY <1>1
    <3>2. x \in Nat /\ p \in Nat /\ y \in Nat /\ g \in Nat /\ z \in Nat
      <4>1. x \in Nat
        BY <1>1, <1>5
      <4>2. p \in Nat /\ g \in Nat
        BY <1>6, <1>7, <3>1
      <4>3. y \in Nat /\ z \in Nat
        BY <1>1, <1>3
      <4> QED
        BY <4>1, <4>2, <4>3
    <3>3. F[a + e] = (x * p + g) * y + z
      <4>1. F[a + e] = F[(a + e) - 1] * c[a + e] + i[a + e]
        BY <1>4, <3>1
      <4>2. F[(a + e) - 1] = x * p + g /\ c[a + e] = y /\ i[a + e] = z
        BY <1>1, <1>3, <2>2, <3>1
      <4> QED
        BY <4>1, <4>2
    <3>4. Pt[e] = p * y /\ Ft[e] = g * y + z
      BY <1>6, <1>7
    <3> HIDE DEF x, p, y, g, z
    <3>5. (x * p + g) * y + z = x * (p * y) + (g * y + z)
      BY <3>2, NestedFlat
    <3> QED
      BY <3>1, <3>3, <3>4, <3>5 DEF x
  <2>3. PassedOn(b, T)
    BY <1>1, <2>1, <2>2 DEF PassedOn
  <2>4. b \in T
    BY <2>3, Upwards
  <2> QED
    BY <2>4
<1> QED
  BY <1>8, <1>9, <1>10, <1>12 DEF a, c, j, k

\* The loops over an array of arrays.
LEMMA NestedPositions ==
  ASSUME NEW s \in Seq(Nat), NEW t \in Seq(Nat), NEW m \in 1..Size(s \o t)
  PROVE  /\ Positions(s \o t)[m] \in Box(s \o t)
         /\ ((m - 1) \div Size(t)) + 1 \in 1..Size(s)
         /\ ((m - 1) % Size(t)) + 1 \in 1..Size(t)
         /\ Positions(s)[((m - 1) \div Size(t)) + 1] = SubSeq(Positions(s \o t)[m], 1, Len(s))
         /\ Positions(t)[((m - 1) % Size(t)) + 1] = SubSeq(Positions(s \o t)[m], Len(s) + 1, Len(Positions(s \o t)[m]))
<1> DEFINE i == Positions(s \o t)[m]
           j == SubSeq(i, 1, Len(s))
           k == SubSeq(i, Len(s) + 1, Len(i))
           n == Size(t)
           x == FlatIndexOfView(s, j)
           y == FlatIndexOfView(t, k)
<1>1. i \in Box(s \o t) /\ FlatIndexOfView(s \o t, i) = m - 1
  BY NestedProducts, PositionsAre
<1>2. j \in Box(s) /\ k \in Box(t) /\ m - 1 = x * n + y
  BY <1>1, NestedPosition
<1>3. x \in Nat /\ y \in Nat /\ n \in Nat /\ y < n
  BY <1>2, FlatIndexIsIndex
<1>4. x + 1 \in 1..Size(s) /\ y + 1 \in 1..n /\ Positions(s)[x + 1] = j /\ Positions(t)[y + 1] = k
  BY <1>2, PositionOf
<1> HIDE DEF i, j, k, n, x, y
<1>5. (m - 1) \div n = x /\ (m - 1) % n = y
  <2>1. n \in Nat \ {0} /\ y \in 0..n - 1
    BY <1>3
  <2> QED
    <3>1. (x * n + y) \div n = x /\ (x * n + y) % n = y
      BY <1>3, <2>1, Quotient
    <3> QED
      BY <1>2, <3>1
<1> QED
  BY <1>1, <1>4, <1>5 DEF i, j, k, n

(***************************************************************************)
(* Views.                                                                  *)
(***************************************************************************)
\* What has no dimensions has one element.
LEMMA EmptyShape ==
  /\ <<>> \in Seq(Nat) /\ Size(<<>>) = 1 /\ Box(<<>>) = {<<>>}
  /\ Positions(<<>>)[1] = <<>>
<1> DEFINE s == <<>>
<1>1. s \in Seq(Nat) /\ Len(s) = 0 /\ DOMAIN s = {}
  OBVIOUS
<1>2. Size(s) = 1
  BY <1>1, ProductsAre DEF Size
<1>3. ASSUME NEW i \in Box(s) PROVE i = <<>>
  <2>1. i \in Seq(Nat) /\ Len(i) = 0
    BY <1>1, PositionIs
  <2> QED
    BY <2>1
<1>4. Positions(s)[1] \in Box(s)
  <2>1. 1 \in 1..Size(s)
    BY <1>2
  <2> QED
    BY <1>1, <2>1, PositionsAre
<1> QED
  BY <1>1, <1>2, <1>3, <1>4

\* The element is one of an array of ports or signals, of the type and the direction of the view.
IsElement(tree, view, e) ==
    \E path \in DOMAIN tree : /\ IsLeaf(tree[path])
                              /\ tree[path].type = view.type /\ tree[path].dir = view.dir
                              /\ \E j \in Box(tree[path].shape) : e = Part(tree, path, j)
IsStruct(tree, e) == e \in DOMAIN tree /\ tree[e].of = "struct"

\* A view has its elements where the user expects them, and they are elements of the tree.
IsViewOf(tree, view) ==
    /\ view = [of |-> view.of, type |-> view.type, dir |-> view.dir, shape |-> view.shape,
               elems |-> view.elems, expects |-> view.expects, moves |-> view.moves]
    /\ view.shape \in Seq(Nat)
    /\ view.of \in {"array", "struct", "structs"}
    /\ view.of = "struct" => view.shape = <<>>
    /\ view.expects = [i \in Box(view.shape) |-> view.expects[i]]
    /\ view.elems = [k \in 1..Size(view.shape) |-> view.expects[Positions(view.shape)[k]]]
    /\ view.of = "array" => \A i \in Box(view.shape) : IsElement(tree, view, view.expects[i])
    /\ view.of # "array" => \A i \in Box(view.shape) : IsStruct(tree, view.expects[i])

\* The parts of an array of structs, and a struct, are structs.
LEMMA PartIsStruct ==
  ASSUME NEW tree, IsTree(tree), NEW path \in DOMAIN tree, ~IsLeaf(tree[path]), NEW i \in Box(tree[path].shape)
  PROVE  IsStruct(tree, Part(tree, path, i))
<1>1. IsNode(tree[path])
      /\ (tree[path].of = "structs" => /\ Append(path, Element(i)) \in DOMAIN tree
                                       /\ tree[Append(path, Element(i))].of = "struct")
  BY DEF IsTree
<1>2. CASE IsArray(tree[path])
  BY <1>1, <1>2 DEF Part, IsStruct, IsArray, IsLeaf
<1>3. CASE ~IsArray(tree[path])
  BY <1>1, <1>3 DEF Part, IsStruct, IsArray, IsLeaf, IsNode
<1> QED
  BY <1>2, <1>3

\* The view of a struct, an array of structs or an array in the tree.
LEMMA ViewOfIs ==
  ASSUME NEW tree, IsTree(tree), NEW path \in DOMAIN tree, tree[path].of # "scalar", NEW moves
  PROVE  IsViewOf(tree, ViewOf(tree, path, path, moves))
<1> DEFINE node == tree[path]
           s == node.shape
           pos == Positions(s)
           view == ViewOf(tree, path, path, moves)
<1>1. IsNode(node)
  BY DEF IsTree
<1>2. s \in Seq(Nat) /\ node.of \in {"array", "struct", "structs"} /\ (node.of = "struct" => s = <<>>)
  BY <1>1 DEF IsNode, IsArray
<1>3. pos \in [1..Size(s) -> Box(s)] /\ DOMAIN pos = 1..Size(s)
  BY <1>2, PositionsAre
<1> HIDE DEF pos, s, node
<1>4. view = [of |-> node.of, type |-> node.type, dir |-> node.dir, shape |-> s,
              elems |-> [k \in 1..Size(s) |-> Part(tree, path, pos[k])],
              expects |-> [i \in Box(s) |-> Part(tree, path, i)],
              moves |-> moves]
  BY <1>3 DEF ViewOf, node, s, pos
<1> HIDE DEF view
<1>5. \A k \in 1..Size(s) : view.elems[k] = view.expects[pos[k]]
  BY <1>3, <1>4
<1>6. ASSUME node.of = "array", NEW i \in Box(s)
      PROVE  IsElement(tree, view, view.expects[i])
  BY <1>4, <1>6 DEF IsElement, IsLeaf, s, node
<1>7. ASSUME node.of # "array", NEW i \in Box(s)
      PROVE  IsStruct(tree, view.expects[i])
  <2>1. ~IsLeaf(node)
    BY <1>2, <1>7 DEF IsLeaf
  <2>2. IsStruct(tree, Part(tree, path, i))
    BY <2>1, PartIsStruct DEF node, s
  <2> QED
    BY <1>4, <2>2
<1>8. /\ view.of = node.of /\ view.shape = s
      /\ view.expects = [i \in Box(s) |-> view.expects[i]] /\ view.elems = [k \in 1..Size(s) |-> view.elems[k]]
      /\ view = [of |-> view.of, type |-> view.type, dir |-> view.dir, shape |-> view.shape,
                 elems |-> view.elems, expects |-> view.expects, moves |-> view.moves]
  BY <1>4
<1>9. view.elems = [k \in 1..Size(s) |-> view.expects[Positions(s)[k]]]
  BY <1>5, <1>8 DEF pos
<1>10. IsViewOf(tree, view)
  BY <1>2, <1>6, <1>7, <1>8, <1>9 DEF IsViewOf
<1> QED
  BY <1>10 DEF view

\* PortStruct::input_array, nested and struct_array take a field of a struct.
LEMMA TakenFieldIs ==
  ASSUME NEW tree, IsTree(tree), NEW view, IsViewOf(tree, view), NEW f, TakeField(tree, view, f)
  PROVE  IsViewOf(tree, TakenField(tree, view, f))
<1>1. view.shape = <<>> /\ view.elems[1] = view.expects[<<>>]
  <2>1. view.shape = <<>> /\ view.elems = [k \in 1..Size(view.shape) |-> view.expects[Positions(view.shape)[k]]]
    BY DEF IsViewOf, TakeField
  <2> DEFINE n == Size(<<>>)
             p == Positions(<<>>)
  <2>2. 1 \in 1..n /\ p[1] = <<>>
    BY EmptyShape
  <2>3. view.elems = [k \in 1..n |-> view.expects[p[k]]]
    BY <2>1
  <2> HIDE DEF n, p
  <2> QED
    BY <2>1, <2>2, <2>3
<1>2. FieldPath(view.elems[1], f) \in DOMAIN tree /\ tree[FieldPath(view.elems[1], f)].of # "scalar"
  BY DEF TakeField
<1> QED
  BY <1>1, <1>2, ViewOfIs DEF TakenField

\* slice() of an array.
LEMMA TakenSliceIs ==
  ASSUME NEW tree, IsTree(tree), NEW view, IsViewOf(tree, view), NEW slices \in Selections, TakeSlice(view, slices)
  PROVE  IsViewOf(tree, TakenSlice(view, slices))
<1> DEFINE s == view.shape
           r == Ranges(s, slices)
           t == SelectedShape(r)
           flat == SelectedFlat(s, r)
           pos == Positions(t)
           new == TakenSlice(view, slices)
<1>1. s \in Seq(Nat) /\ AreRanges(s, r)
  BY RangesAre DEF TakeSlice, IsViewOf
<1>2. t \in Seq(Nat)
  BY <1>1, SelectedShapeIs
<1>3. DOMAIN flat = 1..Size(t)
      /\ \A k \in 1..Size(t) : /\ pos[k] \in Box(t)
                               /\ Unselected(r, pos[k]) \in Box(s)
                               /\ flat[k] = FlatIndexOfView(s, Unselected(r, pos[k]))
  BY <1>1, SelectedFlatIs
<1>4. \A i \in Box(t) : Unselected(r, i) \in Box(s)
  BY <1>1, UnselectedIs
<1>5. \A i \in Box(s) : FlatIndexOfView(s, i) + 1 \in 1..Size(s) /\ Positions(s)[FlatIndexOfView(s, i) + 1] = i
  BY <1>1, PositionOf
<1>6. \A k \in 1..Size(s) : view.elems[k] = view.expects[Positions(s)[k]]
  BY DEF IsViewOf
<1> DEFINE expected == [i \in Box(t) |-> view.expects[Unselected(r, i)]]
           taken == [k \in 1..Size(t) |-> view.elems[flat[k] + 1]]
<1>7. new = [view EXCEPT !.shape = t, !.elems = taken, !.expects = expected, !.moves = @ + 1]
  BY <1>3 DEF TakenSlice
<1>8. \A k \in 1..Size(t) : taken[k] = expected[pos[k]]
  <2> SUFFICES ASSUME NEW k \in 1..Size(t) PROVE taken[k] = expected[pos[k]]
    OBVIOUS
  <2> HIDE DEF s, r, t, flat, pos, new
  <2>1. taken[k] = view.elems[FlatIndexOfView(s, Unselected(r, pos[k])) + 1]
    BY <1>3
  <2>2. taken[k] = view.expects[Unselected(r, pos[k])]
    BY <1>3, <1>5, <1>6, <2>1
  <2> QED
    BY <1>3, <2>2
<1>9. \A i \in Box(t) : expected[i] = view.expects[Unselected(r, i)]
  OBVIOUS
<1>10. expected = [i \in Box(t) |-> expected[i]] /\ taken = [k \in 1..Size(t) |-> taken[k]]
  OBVIOUS
<1>11. /\ view = [of |-> view.of, type |-> view.type, dir |-> view.dir, shape |-> s,
                  elems |-> view.elems, expects |-> view.expects, moves |-> view.moves]
       /\ view.of \in {"array", "structs"}
       /\ view.of = "array" => \A i \in Box(s) : IsElement(tree, view, view.expects[i])
       /\ view.of # "array" => \A i \in Box(s) : IsStruct(tree, view.expects[i])
  BY DEF IsViewOf, TakeSlice
<1> HIDE DEF s, r, t, flat, pos, expected, taken, new
<1>12. new = [of |-> view.of, type |-> view.type, dir |-> view.dir, shape |-> t,
              elems |-> taken, expects |-> expected, moves |-> view.moves + 1]
  BY <1>7, <1>11
<1>13. ASSUME view.of = "array", NEW i \in Box(t)
       PROVE  IsElement(tree, new, new.expects[i])
  <2>1. IsElement(tree, view, view.expects[Unselected(r, i)])
    BY <1>4, <1>11, <1>13
  <2>2. new.expects[i] = view.expects[Unselected(r, i)] /\ new.type = view.type /\ new.dir = view.dir
    BY <1>9, <1>12
  <2> QED
    BY <2>1, <2>2 DEF IsElement
<1>14. ASSUME view.of # "array", NEW i \in Box(t)
       PROVE  IsStruct(tree, new.expects[i])
  BY <1>4, <1>9, <1>11, <1>12, <1>14
<1>15. /\ new.of = view.of /\ new.shape = t /\ new.elems = taken /\ new.expects = expected
       /\ new = [of |-> new.of, type |-> new.type, dir |-> new.dir, shape |-> new.shape,
                 elems |-> new.elems, expects |-> new.expects, moves |-> new.moves]
  BY <1>12
<1>16. taken = [k \in 1..Size(t) |-> expected[Positions(t)[k]]]
  BY <1>8, <1>10 DEF pos
<1>17. IsViewOf(tree, new)
  BY <1>2, <1>10, <1>11, <1>13, <1>14, <1>15, <1>16 DEF IsViewOf
<1> QED
  BY <1>17 DEF new

\* at() of an array of structs.
LEMMA TakenElementIs ==
  ASSUME NEW tree, IsTree(tree), NEW view, IsViewOf(tree, view), view.of = "structs", NEW pos \in Box(view.shape)
  PROVE  IsViewOf(tree, TakenElement(tree, view, pos))
<1> DEFINE k == FlatIndexOfView(view.shape, pos) + 1
<1>1. k \in 1..Size(view.shape) /\ Positions(view.shape)[k] = pos
  BY PositionOf DEF IsViewOf
<1>2. view.elems[k] = view.expects[pos] /\ IsStruct(tree, view.expects[pos])
  BY <1>1 DEF IsViewOf
<1>3. view.expects[pos] \in DOMAIN tree /\ tree[view.expects[pos]].of # "scalar"
  BY <1>2 DEF IsStruct
<1>4. TakenElement(tree, view, pos) = ViewOf(tree, view.expects[pos], view.expects[pos], view.moves + 1)
  BY <1>2 DEF TakenElement
<1> QED
  BY <1>3, <1>4, ViewOfIs

\* struct_field_elements: one field of each struct of an array.
LEMMA TakenEachIs ==
  ASSUME NEW tree, IsTree(tree), NEW view, IsViewOf(tree, view), NEW f, TakeEach(tree, view, f)
  PROVE  IsViewOf(tree, TakenEach(tree, view, f))
<1> DEFINE s == view.shape
           first == FieldOfFirst(tree, view, f)
           t == first.shape
           n == Size(t)
           pos == Positions(t)
           new == TakenEach(tree, view, f)
           Elem(e, i) == Part(tree, FieldPath(e, f), i)
           taken == [m \in 1..Size(s) * n |-> Elem(view.elems[((m - 1) \div n) + 1], pos[((m - 1) % n) + 1])]
           expected == [i \in Box(s \o t) |-> Elem(view.expects[SubSeq(i, 1, Len(s))], SubSeq(i, Len(s) + 1, Len(i)))]
           kind == IF IsLeaf(first) THEN "array" ELSE "structs"
<1>1. /\ s \in Seq(Nat) /\ view.of = "structs" /\ view.elems # <<>>
      /\ view.elems = [k \in 1..Size(s) |-> view.expects[Positions(s)[k]]]
      /\ \A i \in Box(s) : IsStruct(tree, view.expects[i])
  BY DEF IsViewOf, TakeEach
<1>2. Size(s) \in Nat /\ Positions(s) \in [1..Size(s) -> Box(s)]
  BY <1>1, PositionsAre
<1>3. \A k \in 1..Size(s) : /\ FieldPath(view.elems[k], f) \in DOMAIN tree
                            /\ SameField(tree[FieldPath(view.elems[k], f)], first)
  BY <1>1 DEF TakeEach
<1>4. Size(s) # 0
  BY <1>1
<1>5. first = tree[FieldPath(view.elems[1], f)] /\ t \in Seq(Nat)
  <2>1. 1 \in 1..Size(s)
    BY <1>2, <1>4
  <2>2. FieldPath(view.elems[1], f) \in DOMAIN tree
    BY <1>3, <2>1
  <2> QED
    BY <2>2 DEF FieldOfFirst, IsTree, IsNode
<1>6. n \in Nat /\ pos \in [1..n -> Box(t)] /\ Len(pos) = n
  BY <1>5, PositionsAre
<1>7. s \o t \in Seq(Nat) /\ Size(s \o t) = Size(s) * n
  BY <1>1, <1>5, NestedProducts
<1>8. ASSUME NEW i \in Box(s)
      PROVE  /\ FieldPath(view.expects[i], f) \in DOMAIN tree
             /\ SameField(tree[FieldPath(view.expects[i], f)], first)
  <2>1. PICK k \in 1..Size(s) : Positions(s)[k] = i
    BY <1>1, PositionOf
  <2>2. view.elems[k] = view.expects[i]
    BY <1>1, <2>1
  <2> QED
    BY <1>3, <2>2
<1>9. ASSUME NEW m \in 1..Size(s) * n
      PROVE  taken[m] = expected[Positions(s \o t)[m]]
  <2> DEFINE i == Positions(s \o t)[m]
             q == ((m - 1) \div n) + 1
             x == ((m - 1) % n) + 1
             j == SubSeq(i, 1, Len(s))
             l == SubSeq(i, Len(s) + 1, Len(i))
  <2>1. i \in Box(s \o t) /\ q \in 1..Size(s) /\ Positions(s)[q] = j /\ pos[x] = l
    <3>1. m \in 1..Size(s \o t) /\ s \in Seq(Nat) /\ t \in Seq(Nat)
      BY <1>1, <1>5, <1>7
    <3> HIDE DEF s, t
    <3> QED
      BY <3>1, NestedPositions
  <2>2. view.elems[q] = view.expects[j]
    BY <1>1, <2>1
  <2>3. taken[m] = Elem(view.elems[q], pos[x]) /\ expected[i] = Elem(view.expects[j], l)
    BY <2>1
  <2> HIDE DEF taken, expected, Elem, q, x, j, l, pos, i, s, t, n
  <2>4. taken[m] = expected[i]
    BY <2>1, <2>2, <2>3
  <2> QED
    BY <2>4 DEF i
<1>10. taken = [m \in 1..Size(s \o t) |-> expected[Positions(s \o t)[m]]]
  BY <1>7, <1>9
<1>11. expected = [i \in Box(s \o t) |-> expected[i]]
  OBVIOUS
<1>12. new = [of |-> kind, type |-> first.type, dir |-> first.dir, shape |-> s \o t,
              elems |-> taken, expects |-> expected, moves |-> view.moves + 1]
  <2>1. Len(view.elems) = Size(s)
    BY <1>1, <1>2
  <2> QED
    BY <1>6, <2>1 DEF TakenEach
<1>13. ASSUME NEW i \in Box(s \o t)
       PROVE  \E j \in Box(s), l \in Box(t) : expected[i] = Elem(view.expects[j], l)
  BY <1>1, <1>5, <1>13, NestedPosition
<1>14. kind \in {"array", "structs"} /\ (kind = "array" <=> IsLeaf(first))
  OBVIOUS
<1> HIDE DEF first, t, n, pos, new, taken, expected, kind
<1>15. /\ new.of = kind /\ new.shape = s \o t /\ new.type = first.type /\ new.dir = first.dir
       /\ new.elems = taken /\ new.expects = expected
       /\ new = [of |-> new.of, type |-> new.type, dir |-> new.dir, shape |-> new.shape,
                 elems |-> new.elems, expects |-> new.expects, moves |-> new.moves]
  BY <1>12
<1>16. ASSUME NEW i \in Box(s \o t), kind = "array"
       PROVE  IsElement(tree, new, expected[i])
  <2>1. PICK j \in Box(s), l \in Box(t) : expected[i] = Part(tree, FieldPath(view.expects[j], f), l)
    BY <1>13
  <2>2. /\ FieldPath(view.expects[j], f) \in DOMAIN tree
        /\ SameField(tree[FieldPath(view.expects[j], f)], first)
    BY <1>8
  <2> QED
    BY <1>14, <1>15, <1>16, <2>1, <2>2 DEF SameField, IsElement, t
<1>17. ASSUME NEW i \in Box(s \o t), kind # "array"
       PROVE  IsStruct(tree, expected[i])
  <2>1. PICK j \in Box(s), l \in Box(t) : expected[i] = Part(tree, FieldPath(view.expects[j], f), l)
    BY <1>13
  <2>2. /\ FieldPath(view.expects[j], f) \in DOMAIN tree
        /\ SameField(tree[FieldPath(view.expects[j], f)], first)
    BY <1>8
  <2>3. ~IsLeaf(tree[FieldPath(view.expects[j], f)]) /\ l \in Box(tree[FieldPath(view.expects[j], f)].shape)
    BY <1>14, <1>17, <2>2 DEF SameField, t
  <2> QED
    BY <2>1, <2>2, <2>3, PartIsStruct
<1>18. IsViewOf(tree, new)
  BY <1>7, <1>10, <1>11, <1>14, <1>15, <1>16, <1>17 DEF IsViewOf
<1> QED
  BY <1>18 DEF new

(***************************************************************************)
(* Trees.                                                                  *)
(***************************************************************************)
\* A path with a step before it.
LEMMA ConsIs ==
  ASSUME NEW x \in Step, NEW p \in Seq(Step)
  PROVE  /\ <<x>> \o p \in Seq(Step) /\ <<x>> \o p # <<>> /\ Len(<<x>> \o p) = Len(p) + 1
         /\ (<<x>> \o p)[1] = x /\ \A n \in 1..Len(p) : (<<x>> \o p)[n + 1] = p[n]
         /\ Head(<<x>> \o p) = x /\ Tail(<<x>> \o p) = p
<1> DEFINE q == <<x>> \o p
<1>1. q \in Seq(Step) /\ Len(q) = Len(p) + 1 /\ q[1] = x /\ \A n \in 1..Len(p) : q[n + 1] = p[n]
  OBVIOUS
<1>2. Head(q) = x
  BY <1>1
<1>3. Tail(q) = p
  <2> HIDE DEF q
  <2>1. Tail(q) \in Seq(Step) /\ Len(Tail(q)) = Len(p) /\ \A n \in 1..Len(p) : Tail(q)[n] = q[n + 1]
    BY <1>1
  <2> QED
    BY <1>1, <2>1
<1> QED
  BY <1>1, <1>2, <1>3

\* A step before it and one behind it.
LEMMA ConsAppend ==
  ASSUME NEW x \in Step, NEW p \in Seq(Step), NEW y \in Step
  PROVE  Append(<<x>> \o p, y) = <<x>> \o Append(p, y)
OBVIOUS

\* The prefixes of a path with a step before it.
LEMMA ConsPrefix ==
  ASSUME NEW x \in Step, NEW p \in Seq(Step), NEW n \in 1..Len(p) + 1
  PROVE  SubSeq(<<x>> \o p, 1, n) = <<x>> \o SubSeq(p, 1, n - 1)
<1> DEFINE q == <<x>> \o p
           a == SubSeq(q, 1, n)
           c == SubSeq(p, 1, n - 1)
           b == <<x>> \o c
<1>1. q \in Seq(Step) /\ Len(q) = Len(p) + 1 /\ q[1] = x /\ \A m \in 1..Len(p) : q[m + 1] = p[m]
  OBVIOUS
<1>2. c \in Seq(Step) /\ Len(c) = n - 1 /\ \A m \in 1..n - 1 : c[m] = p[m]
  OBVIOUS
<1> HIDE DEF c
<1>3. b \in Seq(Step) /\ Len(b) = n /\ b[1] = x /\ \A m \in 1..n - 1 : b[m + 1] = c[m]
  BY <1>2
<1> HIDE DEF b, q
<1>4. a \in Seq(Step) /\ Len(a) = n /\ \A m \in 1..n : a[m] = q[m]
  BY <1>1
<1> HIDE DEF a
<1>5. ASSUME NEW m \in 1..n
      PROVE  a[m] = b[m]
  <2>1. CASE m = 1
    BY <1>1, <1>3, <1>4, <2>1
  <2>2. CASE m # 1
    <3>1. m - 1 \in 1..n - 1 /\ m - 1 \in 1..Len(p) /\ (m - 1) + 1 = m
      BY <2>2
    <3>2. a[m] = p[m - 1] /\ b[m] = p[m - 1]
      BY <1>1, <1>2, <1>3, <1>4, <3>1
    <3> QED
      BY <3>2
  <2> QED
    BY <2>1, <2>2
<1>6. a = b
  BY <1>3, <1>4, <1>5
<1> QED
  BY <1>6 DEF a, b, c, q

\* Steps to a field and to an element are different, and each has one name or position.
LEMMA StepsAre ==
  /\ \A f \in FieldNames : Field(f) \in Step /\ \A i : Field(f) # Element(i)
  /\ \A i \in Seq(Nat) : Element(i) \in Step
  /\ \A f, g : Field(f) = Field(g) => f = g
  /\ \A i, j : Element(i) = Element(j) => i = j
<1>1. \A f \in FieldNames : Field(f) \in Step
  <2>1. <<>> \in Seq(Nat)
    OBVIOUS
  <2> QED
    BY <2>1 DEF Step, Field
<1>2. \A f \in FieldNames : \A i : Field(f) # Element(i)
  <2> SUFFICES ASSUME NEW f \in FieldNames, NEW i PROVE Field(f) # Element(i)
    OBVIOUS
  <2>1. f # ""
    BY StructAssumption
  <2>2. Field(f).field = f /\ Element(i).field = ""
    BY DEF Field, Element
  <2> QED
    BY <2>1, <2>2
<1>3. \A i \in Seq(Nat) : Element(i) \in Step
  BY DEF Step, Element
<1>4. ASSUME NEW f, NEW g, Field(f) = Field(g) PROVE f = g
  <2>1. Field(f).field = f /\ Field(g).field = g
    BY DEF Field
  <2> QED
    BY <1>4, <2>1
<1>5. ASSUME NEW i, NEW j, Element(i) = Element(j) PROVE i = j
  <2>1. Element(i).index = i /\ Element(j).index = j
    BY DEF Element
  <2> QED
    BY <1>5, <2>1
<1> QED
  BY <1>1, <1>2, <1>3, <1>4, <1>5

\* A new field of a struct.
LEMMA WithFieldIsTree ==
  ASSUME NEW tree, IsTree(tree), tree[<<>>].of = "struct", NEW f \in FieldNames, ~HasField(tree, f),
         NEW sub, IsTree(sub)
  PROVE  IsTree(WithField(tree, f, sub)) /\ WithField(tree, f, sub)[<<>>].of = "struct"
         /\ WithField(tree, f, sub)[<<>>].dir = tree[<<>>].dir
<1> DEFINE x == Field(f)
           root == [tree[<<>>] EXCEPT !.fields = Append(@, f)]
           new == WithField(tree, f, sub)
           Below == {<<x>> \o p : p \in DOMAIN sub}
<1>1. x \in Step
  BY StepsAre
<1>2. DOMAIN tree \subseteq Seq(Step) /\ DOMAIN sub \subseteq Seq(Step) /\ <<>> \in DOMAIN tree /\ <<>> \in DOMAIN sub
  BY DEF IsTree
<1>3. DOMAIN new = DOMAIN tree \cup Below
      /\ \A path \in DOMAIN tree \cup Below :
            new[path] = IF path = <<>> THEN root ELSE IF Head(path) = x THEN sub[Tail(path)] ELSE tree[path]
  BY DEF WithField
<1>4. IsNode(tree[<<>>])
  BY DEF IsTree
<1>5. /\ IsNode(root) /\ root.of = "struct" /\ root.dir = tree[<<>>].dir
      /\ Fits(root, x) /\ \A y : Fits(tree[<<>>], y) => Fits(root, y) /\ y # x
  <2> DEFINE t == tree[<<>>]
             old == t.fields
             fields == Append(old, f)
  <2>1. t = [of |-> t.of, type |-> t.type, dir |-> t.dir, shape |-> t.shape, fields |-> old]
        /\ old \in Seq(FieldNames)
    BY <1>4 DEF IsNode, Node
  <2>2. root = [of |-> t.of, type |-> t.type, dir |-> t.dir, shape |-> t.shape, fields |-> fields]
    BY <2>1
  <2>3. fields \in Seq(FieldNames)
    BY <2>1
  <2>4. \A n \in DOMAIN old : n \in DOMAIN fields /\ fields[n] = old[n]
    BY <2>1
  <2>5. Len(fields) \in DOMAIN fields /\ fields[Len(fields)] = f
    BY <2>1
  <2> HIDE DEF fields, root
  <2>6. IsNode(root) /\ root.of = "struct" /\ root.dir = t.dir
    BY <1>4, <2>2, <2>3 DEF IsNode, Node, IsArray, IsLeaf
  <2>7. Fits(root, x)
    BY <2>2, <2>5, <2>6 DEF Fits
  <2>8. ASSUME NEW y, Fits(t, y)
        PROVE  Fits(root, y) /\ y # x
    <3>1. PICK n \in DOMAIN old : y = Field(old[n])
      BY <2>8 DEF Fits
    <3>2. Fits(root, y)
      BY <2>2, <2>4, <2>6, <3>1 DEF Fits
    <3>3. old[n] # f
      BY DEF HasField
    <3> QED
      BY <3>1, <3>2, <3>3, StepsAre
  <2> QED
    BY <2>6, <2>7, <2>8
<1> HIDE DEF new, root, x
<1>6. ASSUME NEW path \in DOMAIN tree
      PROVE  path \in DOMAIN new /\ new[path] = IF path = <<>> THEN root ELSE tree[path]
  <2>1. CASE path = <<>>
    BY <1>3, <2>1
  <2>2. CASE path # <<>>
    <3>1. path \in Seq(Step) /\ 1 \in 1..Len(path)
      BY <1>2, <2>2
    <3>2. \A n \in 1..Len(path) : Fits(tree[SubSeq(path, 1, n - 1)], path[n])
      BY DEF IsTree
    <3>3. SubSeq(path, 1, 0) = <<>> /\ 1 - 1 = 0 /\ Head(path) = path[1]
      BY <3>1
    <3>4. Fits(tree[<<>>], path[1])
      BY <3>1, <3>2, <3>3
    <3>5. Head(path) # x
      BY <1>5, <3>3, <3>4
    <3> QED
      BY <1>3, <2>2, <3>5
  <2> QED
    BY <2>1, <2>2
<1>7. ASSUME NEW p \in DOMAIN sub
      PROVE  <<x>> \o p \in DOMAIN new /\ new[<<x>> \o p] = sub[p]
  <2>1. p \in Seq(Step)
    BY <1>2
  <2>2. <<x>> \o p # <<>> /\ Head(<<x>> \o p) = x /\ Tail(<<x>> \o p) = p
    BY <1>1, <2>1, ConsIs
  <2> QED
    BY <1>3, <2>2
<1>8. ASSUME NEW path \in DOMAIN new
      PROVE  path \in DOMAIN tree \/ \E p \in DOMAIN sub : path = <<x>> \o p
  BY <1>3
<1> DEFINE Good(path) ==
        /\ path \in Seq(Step)
        /\ IsNode(new[path])
        /\ \A n \in 1..Len(path) : /\ SubSeq(path, 1, n - 1) \in DOMAIN new
                                   /\ Fits(new[SubSeq(path, 1, n - 1)], path[n])
        /\ new[path].of = "structs" =>
              \A i \in Box(new[path].shape) : /\ Append(path, Element(i)) \in DOMAIN new
                                              /\ new[Append(path, Element(i))].of = "struct"
<1>9. ASSUME NEW path \in DOMAIN tree
      PROVE  Good(path)
  <2>1. path \in Seq(Step) /\ IsNode(tree[path])
    BY DEF IsTree
  <2>2. IsNode(new[path])
    BY <1>5, <1>6, <2>1
  <2>3. ASSUME NEW n \in 1..Len(path)
        PROVE  /\ SubSeq(path, 1, n - 1) \in DOMAIN new
               /\ Fits(new[SubSeq(path, 1, n - 1)], path[n])
    <3> DEFINE q == SubSeq(path, 1, n - 1)
    <3>1. q \in DOMAIN tree /\ Fits(tree[q], path[n])
      BY DEF IsTree
    <3> HIDE DEF q
    <3>2. q \in DOMAIN new /\ Fits(new[q], path[n])
      BY <1>5, <1>6, <3>1
    <3> QED
      BY <3>2 DEF q
  <2>4. ASSUME new[path].of = "structs", NEW i \in Box(new[path].shape)
        PROVE  /\ Append(path, Element(i)) \in DOMAIN new
               /\ new[Append(path, Element(i))].of = "struct"
    <3> DEFINE q == Append(path, Element(i))
    <3>1. path # <<>> /\ new[path] = tree[path]
      BY <1>5, <1>6, <2>4
    <3>2. q \in DOMAIN tree /\ tree[q].of = "struct"
      BY <2>4, <3>1 DEF IsTree
    <3>3. q # <<>>
      BY <2>1
    <3> HIDE DEF q
    <3>4. q \in DOMAIN new /\ new[q].of = "struct"
      BY <1>6, <3>2, <3>3
    <3> QED
      BY <3>4 DEF q
  <2> QED
    BY <2>1, <2>2, <2>3, <2>4
<1>10. ASSUME NEW p \in DOMAIN sub
       PROVE  Good(<<x>> \o p)
  <2> DEFINE path == <<x>> \o p
  <2>1. p \in Seq(Step) /\ IsNode(sub[p])
    BY DEF IsTree
  <2>2. path \in Seq(Step) /\ IsNode(new[path]) /\ Len(path) = Len(p) + 1 /\ new[path] = sub[p]
        /\ path[1] = x /\ \A n \in 1..Len(p) : path[n + 1] = p[n]
    BY <1>1, <1>7, <2>1, ConsIs
  <2>3. ASSUME NEW n \in 1..Len(path)
        PROVE  /\ SubSeq(path, 1, n - 1) \in DOMAIN new
               /\ Fits(new[SubSeq(path, 1, n - 1)], path[n])
    <3>1. CASE n = 1
      <4>1. SubSeq(path, 1, n - 1) = <<>>
        BY <2>2, <3>1
      <4>2. <<>> \in DOMAIN new /\ new[<<>>] = root
        BY <1>2, <1>6
      <4> QED
        BY <1>5, <2>2, <3>1, <4>1, <4>2
    <3>2. CASE n # 1
      <4> DEFINE m == n - 1
                 q == SubSeq(p, 1, m - 1)
      <4>1. m \in 1..Len(p) /\ m + 1 = n /\ n - 1 = m
        BY <2>1, <2>2, <3>2
      <4>2. SubSeq(path, 1, n - 1) = <<x>> \o q
        <5>1. m \in 1..Len(p) + 1
          BY <2>1, <4>1
        <5> HIDE DEF m
        <5>2. SubSeq(path, 1, m) = <<x>> \o q
          BY <1>1, <2>1, <5>1, ConsPrefix
        <5> QED
          BY <4>1, <5>2
      <4>3. q \in DOMAIN sub /\ Fits(sub[q], p[m])
        BY <4>1 DEF IsTree
      <4>4. path[n] = p[m]
        BY <2>2, <4>1
      <4> HIDE DEF path, q, m
      <4> QED
        BY <1>7, <4>2, <4>3, <4>4
    <3> QED
      BY <3>1, <3>2
  <2>4. ASSUME new[path].of = "structs", NEW i \in Box(new[path].shape)
        PROVE  /\ Append(path, Element(i)) \in DOMAIN new
               /\ new[Append(path, Element(i))].of = "struct"
    <3>1. Append(p, Element(i)) \in DOMAIN sub /\ sub[Append(p, Element(i))].of = "struct"
      BY <2>2, <2>4 DEF IsTree
    <3>2. Element(i) \in Step
      <4>1. sub[p].shape \in Seq(Nat) /\ i \in Box(sub[p].shape)
        BY <2>1, <2>2, <2>4 DEF IsNode
      <4> QED
        BY <4>1, PositionIs, StepsAre
    <3>3. Append(path, Element(i)) = <<x>> \o Append(p, Element(i))
      BY <1>1, <2>1, <3>2, ConsAppend
    <3> QED
      BY <1>7, <3>1, <3>3
  <2> HIDE DEF path
  <2>5. Good(path)
    BY <2>2, <2>3, <2>4
  <2> QED
    BY <2>5 DEF path
<1>11. <<>> \in DOMAIN new /\ new[<<>>] = root
  BY <1>2, <1>6
<1>12. \A path \in DOMAIN new : Good(path)
  <2> HIDE DEF Good
  <2> QED
    BY <1>8, <1>9, <1>10
<1>13. IsTree(new)
  BY <1>11, <1>12 DEF IsTree
<1> QED
  BY <1>5, <1>11, <1>13 DEF new

\* The signals that are created for a tree of ports.
LEMMA SignalsIsTree ==
  ASSUME NEW tree, IsTree(tree)
  PROVE  /\ IsTree(Signals(tree)) /\ DOMAIN Signals(tree) = DOMAIN tree
         /\ \A path \in DOMAIN tree :
               /\ Signals(tree)[path].of = tree[path].of /\ Signals(tree)[path].type = tree[path].type
               /\ Signals(tree)[path].shape = tree[path].shape /\ Signals(tree)[path].fields = tree[path].fields
               /\ Signals(tree)[path].dir = "signal"
<1> DEFINE new == Signals(tree)
<1>1. DOMAIN new = DOMAIN tree /\ \A path \in DOMAIN tree : new[path] = [tree[path] EXCEPT !.dir = "signal"]
  BY DEF Signals
<1> HIDE DEF new
<1>2. ASSUME NEW path \in DOMAIN tree
      PROVE  /\ new[path].of = tree[path].of /\ new[path].type = tree[path].type
             /\ new[path].shape = tree[path].shape /\ new[path].fields = tree[path].fields
             /\ new[path].dir = "signal" /\ IsNode(new[path])
  <2> DEFINE t == tree[path]
             n == new[path]
  <2>1. IsNode(t)
    BY DEF IsTree
  <2>2. t = [of |-> t.of, type |-> t.type, dir |-> t.dir, shape |-> t.shape, fields |-> t.fields]
    BY <2>1 DEF IsNode, Node
  <2>3. n = [t EXCEPT !.dir = "signal"]
    BY <1>1
  <2> HIDE DEF t, n
  <2>4. n = [of |-> t.of, type |-> t.type, dir |-> "signal", shape |-> t.shape, fields |-> t.fields]
    BY <2>2, <2>3
  <2>5. IsNode(n)
    <3>1. /\ n.of = t.of /\ n.type = t.type /\ n.shape = t.shape /\ n.fields = t.fields /\ n.dir = "signal"
          /\ n = [Node(n.of, n.type, n.dir, n.shape) EXCEPT !.fields = n.fields]
      BY <2>4 DEF Node
    <3> QED
      BY <2>1, <3>1 DEF IsNode, IsArray, IsLeaf
  <2> QED
    BY <2>4, <2>5 DEF t, n
<1>3. ASSUME NEW path \in DOMAIN tree, NEW y
      PROVE  Fits(new[path], y) <=> Fits(tree[path], y)
  BY <1>2 DEF Fits
<1>4. <<>> \in DOMAIN new
  BY <1>1 DEF IsTree
<1>5. ASSUME NEW path \in DOMAIN tree
      PROVE  /\ path \in Seq(Step)
             /\ \A n \in 1..Len(path) : /\ SubSeq(path, 1, n - 1) \in DOMAIN new
                                        /\ Fits(new[SubSeq(path, 1, n - 1)], path[n])
             /\ new[path].of = "structs" =>
                   \A i \in Box(new[path].shape) : /\ Append(path, Element(i)) \in DOMAIN new
                                                   /\ new[Append(path, Element(i))].of = "struct"
  <2>1. path \in Seq(Step)
    BY DEF IsTree
  <2>2. ASSUME NEW n \in 1..Len(path)
        PROVE  /\ SubSeq(path, 1, n - 1) \in DOMAIN new
               /\ Fits(new[SubSeq(path, 1, n - 1)], path[n])
    <3>1. SubSeq(path, 1, n - 1) \in DOMAIN tree /\ Fits(tree[SubSeq(path, 1, n - 1)], path[n])
      BY DEF IsTree
    <3> QED
      BY <1>1, <1>3, <3>1
  <2>3. ASSUME new[path].of = "structs", NEW i \in Box(new[path].shape)
        PROVE  /\ Append(path, Element(i)) \in DOMAIN new
               /\ new[Append(path, Element(i))].of = "struct"
    <3>1. Append(path, Element(i)) \in DOMAIN tree /\ tree[Append(path, Element(i))].of = "struct"
      BY <1>2, <2>3 DEF IsTree
    <3> QED
      BY <1>1, <1>2, <3>1
  <2> QED
    BY <2>1, <2>2, <2>3
<1>6. IsTree(new)
  BY <1>1, <1>2, <1>4, <1>5 DEF IsTree
<1> QED
  BY <1>1, <1>2, <1>6 DEF new

(***************************************************************************)
(* What is below a path.                                                   *)
(***************************************************************************)
\* A path that goes on from another one.
LEMMA JoinedIs ==
  ASSUME NEW e \in Seq(Step), NEW p \in Seq(Step)
  PROVE  /\ e \o p \in Seq(Step) /\ Len(e \o p) = Len(e) + Len(p)
         /\ \A n \in 1..Len(e) : (e \o p)[n] = e[n]
         /\ \A n \in 1..Len(p) : (e \o p)[Len(e) + n] = p[n]
  OBVIOUS

\* The prefixes of a path that goes on from another one.
LEMMA JoinedPrefix ==
  ASSUME NEW e \in Seq(Step), NEW p \in Seq(Step), NEW n \in 0..Len(p)
  PROVE  /\ SubSeq(p, 1, n) \in Seq(Step) /\ Len(SubSeq(p, 1, n)) = n
         /\ SubSeq(e \o p, 1, Len(e) + n) = e \o SubSeq(p, 1, n)
<1> DEFINE q == e \o p
           s == SubSeq(p, 1, n)
           a == SubSeq(q, 1, Len(e) + n)
           b == e \o s
<1>1. q \in Seq(Step) /\ Len(q) = Len(e) + Len(p) /\ (\A m \in 1..Len(e) : q[m] = e[m])
      /\ \A m \in 1..Len(p) : q[Len(e) + m] = p[m]
  BY JoinedIs
<1>2. s \in Seq(Step) /\ Len(s) = n /\ \A m \in 1..n : s[m] = p[m]
  OBVIOUS
<1> HIDE DEF s, q
<1>3. b \in Seq(Step) /\ Len(b) = Len(e) + n /\ (\A m \in 1..Len(e) : b[m] = e[m])
      /\ \A m \in 1..n : b[Len(e) + m] = s[m]
  BY <1>2, JoinedIs
<1> HIDE DEF b
<1>4. a \in Seq(Step) /\ Len(a) = Len(e) + n /\ \A m \in 1..Len(e) + n : a[m] = q[m]
  BY <1>1
<1> HIDE DEF a
<1>5. ASSUME NEW m \in 1..Len(e) + n
      PROVE  a[m] = b[m]
  <2>1. CASE m <= Len(e)
    BY <1>1, <1>3, <1>4, <2>1
  <2>2. CASE m > Len(e)
    <3> DEFINE l == m - Len(e)
    <3>1. l \in 1..n /\ l \in 1..Len(p) /\ m = Len(e) + l
      BY <2>2
    <3> HIDE DEF l
    <3> QED
      BY <1>1, <1>2, <1>3, <1>4, <3>1
  <2> QED
    BY <2>1, <2>2
<1>6. a = b
  BY <1>3, <1>4, <1>5
<1> QED
  BY <1>2, <1>6 DEF a, b, q, s

\* What is left of a path that leads to a path below it.
LEMMA RestIs ==
  ASSUME NEW e \in Seq(Step), NEW q \in Seq(Step), IsPrefix(e, q)
  PROVE  SubSeq(q, Len(e) + 1, Len(q)) \in Seq(Step) /\ e \o SubSeq(q, Len(e) + 1, Len(q)) = q
<1> DEFINE r == SubSeq(q, Len(e) + 1, Len(q))
           b == e \o r
<1>1. Len(e) <= Len(q) /\ SubSeq(e, 1, Len(e)) = SubSeq(q, 1, Len(e))
  BY DEF IsPrefix
<1>2. \A m \in 1..Len(e) : e[m] = q[m]
  <2> SUFFICES ASSUME NEW m \in 1..Len(e) PROVE e[m] = q[m]
    OBVIOUS
  <2>1. SubSeq(e, 1, Len(e))[m] = e[m]
    OBVIOUS
  <2>2. SubSeq(q, 1, Len(e))[m] = q[m]
    BY <1>1
  <2> QED
    BY <1>1, <2>1, <2>2
<1>3. r \in Seq(Step) /\ Len(r) = Len(q) - Len(e) /\ \A m \in 1..Len(r) : r[m] = q[Len(e) + m]
  BY <1>1
<1> HIDE DEF r
<1>4. b \in Seq(Step) /\ Len(b) = Len(q) /\ (\A m \in 1..Len(e) : b[m] = e[m])
      /\ \A m \in 1..Len(r) : b[Len(e) + m] = r[m]
  BY <1>1, <1>3, JoinedIs
<1> HIDE DEF b
<1>5. ASSUME NEW m \in 1..Len(q)
      PROVE  b[m] = q[m]
  <2>1. CASE m <= Len(e)
    BY <1>2, <1>4, <2>1
  <2>2. CASE m > Len(e)
    <3> DEFINE l == m - Len(e)
    <3>1. l \in 1..Len(r) /\ m = Len(e) + l
      BY <1>3, <2>2
    <3> HIDE DEF l
    <3> QED
      BY <1>3, <1>4, <3>1
  <2> QED
    BY <2>1, <2>2
<1>6. b = q
  BY <1>4, <1>5
<1> QED
  BY <1>3, <1>6 DEF b, r

\* And the rest of it.
LEMMA RestOfJoined ==
  ASSUME NEW e \in Seq(Step), NEW p \in Seq(Step)
  PROVE  IsPrefix(e, e \o p) /\ SubSeq(e \o p, Len(e) + 1, Len(e \o p)) = p
<1> DEFINE q == e \o p
           r == SubSeq(q, Len(e) + 1, Len(q))
<1>1. q \in Seq(Step) /\ Len(q) = Len(e) + Len(p) /\ (\A m \in 1..Len(e) : q[m] = e[m])
      /\ \A m \in 1..Len(p) : q[Len(e) + m] = p[m]
  BY JoinedIs
<1> HIDE DEF q
<1>2. SubSeq(e, 1, Len(e)) = SubSeq(q, 1, Len(e))
  BY <1>1
<1>3. r \in Seq(Step) /\ Len(r) = Len(p) /\ \A m \in 1..Len(p) : r[m] = q[Len(e) + m]
  BY <1>1
<1> HIDE DEF r
<1>4. r = p
  BY <1>1, <1>3
<1>5. IsPrefix(e, q)
  BY <1>1, <1>2 DEF IsPrefix
<1> QED
  BY <1>4, <1>5 DEF r, q

\* The paths below a node are those that lead on to a node.
LEMMA UnderIs ==
  ASSUME NEW tree, IsTree(tree), NEW e \in Seq(Step), NEW p
  PROVE  p \in Under(tree, e) <=> p \in Seq(Step) /\ e \o p \in DOMAIN tree
<1>1. DOMAIN tree \subseteq Seq(Step)
  BY DEF IsTree
<1>2. ASSUME p \in Under(tree, e)
      PROVE  p \in Seq(Step) /\ e \o p \in DOMAIN tree
  <2>1. PICK q \in DOMAIN tree : IsPrefix(e, q) /\ p = SubSeq(q, Len(e) + 1, Len(q))
    BY <1>2 DEF Under
  <2>2. q \in Seq(Step)
    BY <1>1
  <2> QED
    BY <2>1, <2>2, RestIs
<1>3. ASSUME p \in Seq(Step), e \o p \in DOMAIN tree
      PROVE  p \in Under(tree, e)
  <2>1. IsPrefix(e, e \o p) /\ SubSeq(e \o p, Len(e) + 1, Len(e \o p)) = p
    BY <1>3, RestOfJoined
  <2> QED
    BY <1>3, <2>1 DEF Under
<1> QED
  BY <1>2, <1>3

\* Each of their steps leads from a node to a node.
LEMMA UnderPrefix ==
  ASSUME NEW tree, IsTree(tree), NEW e \in Seq(Step), NEW p \in Under(tree, e), NEW n \in 0..Len(p)
  PROVE  /\ SubSeq(p, 1, n) \in Under(tree, e)
         /\ n # Len(p) => n + 1 \in 1..Len(p) /\ Fits(tree[e \o SubSeq(p, 1, n)], p[n + 1])
<1> DEFINE q == e \o p
           s == SubSeq(p, 1, n)
<1>1. p \in Seq(Step) /\ q \in DOMAIN tree
  BY UnderIs
<1>2. q \in Seq(Step) /\ Len(q) = Len(e) + Len(p) /\ \A m \in 1..Len(p) : q[Len(e) + m] = p[m]
  BY <1>1, JoinedIs
<1>3. s \in Seq(Step) /\ SubSeq(q, 1, Len(e) + n) = e \o s
  BY <1>1, JoinedPrefix
<1> HIDE DEF q, s
<1>4. CASE n = Len(p)
  <2>1. SubSeq(q, 1, Len(e) + n) = q
    BY <1>2, <1>4
  <2>2. s \in Under(tree, e)
    BY <1>1, <1>3, <2>1, UnderIs
  <2> QED
    BY <1>4, <2>2 DEF s
<1>5. CASE n # Len(p)
  <2> DEFINE m == Len(e) + (n + 1)
  <2>1. n + 1 \in 1..Len(p) /\ m \in 1..Len(q) /\ m - 1 = Len(e) + n /\ q[m] = p[n + 1]
    BY <1>1, <1>2, <1>5
  <2> HIDE DEF m
  <2>2. SubSeq(q, 1, m - 1) \in DOMAIN tree /\ Fits(tree[SubSeq(q, 1, m - 1)], q[m])
    BY <1>1, <2>1 DEF IsTree
  <2>3. e \o s \in DOMAIN tree /\ Fits(tree[e \o s], p[n + 1])
    BY <1>3, <2>1, <2>2
  <2>4. s \in Under(tree, e)
    BY <1>3, <2>3, UnderIs
  <2> QED
    BY <2>1, <2>3, <2>4 DEF s
<1> QED
  BY <1>4, <1>5

(***************************************************************************)
(* The trees and the views.                                                *)
(***************************************************************************)
IsRoot(tree) == IsTree(tree) /\ tree[<<>>].of = "struct"
AreOthers(tree) == IF tree[<<>>].dir = "signal" THEN AreSignals(tree) ELSE ArePorts(tree)

\* The views are as the user expects them, and signals() has made what it was to make.
ViewsInv ==
    /\ phase \in {"build", "use", "run"}
    /\ IsRoot(ports) /\ ArePorts(ports)
    /\ IsRoot(other) /\ AreOthers(other)
    /\ phase # "build" => IsViewOf(ports, portView) /\ IsViewOf(other, otherView)
    /\ created => phase # "build" /\ other = Signals(ports)

\* A struct without fields.
LEMMA EmptyIsRoot ==
  ASSUME NEW dir
  PROVE  /\ IsRoot(EmptyStruct(dir)) /\ EmptyStruct(dir)[<<>>].dir = dir
         /\ dir = "port" => ArePorts(EmptyStruct(dir))
         /\ dir = "signal" => AreSignals(EmptyStruct(dir))
<1> DEFINE e == EmptyStruct(dir)
           n == Node("struct", 0, dir, <<>>)
<1>1. DOMAIN e = {<<>>} /\ e[<<>>] = n
  BY DEF EmptyStruct
<1>2. /\ n = [of |-> "struct", type |-> 0, dir |-> dir, shape |-> <<>>, fields |-> <<>>]
      /\ n.of = "struct" /\ n.type = 0 /\ n.dir = dir /\ n.shape = <<>> /\ n.fields = <<>>
  BY DEF Node
<1>3. n = [Node(n.of, n.type, n.dir, n.shape) EXCEPT !.fields = n.fields]
  BY <1>2 DEF Node
<1> HIDE DEF e, n
<1>4. IsNode(n)
  <2>1. <<>> \in Seq(Nat) /\ <<>> \in Seq(FieldNames)
    OBVIOUS
  <2> QED
    BY <1>2, <1>3, <2>1 DEF IsNode, IsArray, IsLeaf
<1>5. <<>> \in Seq(Step) /\ 1..Len(<<>>) = {}
  OBVIOUS
<1>6. IsTree(e)
  BY <1>1, <1>2, <1>4, <1>5 DEF IsTree
<1> QED
  BY <1>1, <1>2, <1>6 DEF e, IsRoot, ArePorts, AreSignals, IsLeaf

\* A new field keeps the directions of ports and of signals.
LEMMA WithFieldDirs ==
  ASSUME NEW tree, IsRoot(tree), NEW f \in FieldNames, ~HasField(tree, f), NEW sub, IsTree(sub)
  PROVE  /\ IsRoot(WithField(tree, f, sub)) /\ WithField(tree, f, sub)[<<>>].dir = tree[<<>>].dir
         /\ ArePorts(tree) /\ ArePorts(sub) => ArePorts(WithField(tree, f, sub))
         /\ AreSignals(tree) /\ AreSignals(sub) => AreSignals(WithField(tree, f, sub))
<1> DEFINE new == WithField(tree, f, sub)
<1>1. /\ IsRoot(new) /\ new[<<>>].dir = tree[<<>>].dir /\ new[<<>>].of = tree[<<>>].of
  BY WithFieldIsTree DEF IsRoot
<1>2. \A path \in DOMAIN new :
         (\E p \in DOMAIN tree : new[path].dir = tree[p].dir /\ new[path].of = tree[p].of)
         \/ (\E p \in DOMAIN sub : new[path] = sub[p])
  <2> DEFINE x == Field(f)
             Below == {<<x>> \o p : p \in DOMAIN sub}
  <2>1. x \in Step /\ DOMAIN sub \subseteq Seq(Step) /\ <<>> \in DOMAIN tree
    BY StepsAre DEF IsTree, IsRoot
  <2>2. DOMAIN new = DOMAIN tree \cup Below
        /\ \A path \in DOMAIN new : path # <<>> =>
              new[path] = IF Head(path) = x THEN sub[Tail(path)] ELSE tree[path]
    BY DEF WithField
  <2> HIDE DEF new, x
  <2>3. ASSUME NEW p \in DOMAIN sub
        PROVE  new[<<x>> \o p] = sub[p]
    <3>1. <<x>> \o p # <<>> /\ Head(<<x>> \o p) = x /\ Tail(<<x>> \o p) = p
      BY <2>1, ConsIs
    <3> QED
      BY <2>2, <3>1
  <2>4. ASSUME NEW path \in DOMAIN tree, path # <<>>
        PROVE  new[path] = tree[path]
    <3>1. path \in Seq(Step) /\ 1 \in 1..Len(path) /\ SubSeq(path, 1, 0) = <<>> /\ 1 - 1 = 0 /\ Head(path) = path[1]
      BY <2>4 DEF IsRoot, IsTree
    <3>2. Fits(tree[SubSeq(path, 1, 1 - 1)], path[1])
      BY <3>1 DEF IsRoot, IsTree
    <3>3. Fits(tree[<<>>], Head(path)) /\ tree[<<>>].of = "struct"
      BY <3>1, <3>2 DEF IsRoot
    <3>4. PICK n \in DOMAIN tree[<<>>].fields : Head(path) = Field(tree[<<>>].fields[n])
      BY <3>3 DEF Fits
    <3>5. Head(path) # x
      BY <3>4, StepsAre DEF HasField, x
    <3> QED
      BY <2>2, <2>4, <3>5
  <2>5. ASSUME NEW path \in DOMAIN new
        PROVE  path = <<>> \/ path \in DOMAIN tree \/ \E p \in DOMAIN sub : path = <<x>> \o p
    BY <2>2
  <2> QED
    BY <1>1, <2>1, <2>3, <2>4, <2>5 DEF new
<1> HIDE DEF new
<1>3. ASSUME ArePorts(tree), ArePorts(sub)
      PROVE  ArePorts(new)
  BY <1>2, <1>3 DEF ArePorts, IsLeaf
<1>4. ASSUME AreSignals(tree), AreSignals(sub)
      PROVE  AreSignals(new)
  BY <1>2, <1>4 DEF AreSignals
<1> QED
  BY <1>1, <1>3, <1>4 DEF new

\* signals() makes a tree of signals.
LEMMA SignalsAreSignals ==
  ASSUME NEW tree, IsRoot(tree)
  PROVE  IsRoot(Signals(tree)) /\ AreOthers(Signals(tree))
<1>1. IsTree(tree) /\ tree[<<>>].of = "struct" /\ <<>> \in DOMAIN tree
  BY DEF IsRoot, IsTree
<1>2. /\ IsTree(Signals(tree)) /\ Signals(tree)[<<>>].of = "struct"
      /\ \A path \in DOMAIN Signals(tree) : Signals(tree)[path].dir = "signal"
  BY <1>1, SignalsIsTree
<1>3. Signals(tree)[<<>>].dir = "signal"
  BY <1>1, SignalsIsTree
<1> QED
  BY <1>2, <1>3 DEF IsRoot, AreOthers, AreSignals

\* The view of the whole struct.
LEMMA RootViewIs ==
  ASSUME NEW tree, IsRoot(tree)
  PROVE  IsViewOf(tree, RootView(tree))
<1>1. IsTree(tree) /\ <<>> \in DOMAIN tree /\ tree[<<>>].of # "scalar"
  BY DEF IsRoot, IsTree
<1> QED
  BY <1>1, ViewOfIs DEF RootView

\* Whatever the user takes from a view is as the user expects it.
LEMMA ViewsAre ==
  ASSUME NEW tree, IsTree(tree), NEW view, IsViewOf(tree, view), NEW new \in Views(tree, view)
  PROVE  IsViewOf(tree, new)
<1>1. ASSUME NEW f \in FieldNames, TakeField(tree, view, f), new = TakenField(tree, view, f)
      PROVE  IsViewOf(tree, new)
  BY <1>1, TakenFieldIs
<1>2. ASSUME NEW s \in Selections, TakeSlice(view, s), new = TakenSlice(view, s)
      PROVE  IsViewOf(tree, new)
  BY <1>2, TakenSliceIs
<1>3. ASSUME view.of = "structs", NEW pos \in Box(view.shape), new = TakenElement(tree, view, pos)
      PROVE  IsViewOf(tree, new)
  BY <1>3, TakenElementIs
<1>4. ASSUME NEW f \in FieldNames, TakeEach(tree, view, f), new = TakenEach(tree, view, f)
      PROVE  IsViewOf(tree, new)
  BY <1>4, TakenEachIs
<1> QED
  BY <1>1, <1>2, <1>3, <1>4 DEF Views

\* At the start both structs are empty.
LEMMA ViewsInit == Init => ViewsInv
<1> SUFFICES ASSUME Init PROVE ViewsInv
  OBVIOUS
<1>1. IsRoot(ports) /\ ArePorts(ports)
  BY EmptyIsRoot DEF Init
<1>2. IsRoot(other) /\ AreOthers(other)
  BY EmptyIsRoot DEF Init, AreOthers
<1> QED
  BY <1>1, <1>2 DEF Init, ViewsInv

\* Every step keeps the trees, and makes views that the user expects.
LEMMA ViewsStep == ViewsInv /\ [InterfaceNext]_interfaceVars => ViewsInv'
<1> SUFFICES ASSUME ViewsInv, [InterfaceNext]_interfaceVars PROVE ViewsInv'
  OBVIOUS
<1>1. ASSUME NEW f \in FieldNames, NEW sub \in PortFields[f], AddPort(f, sub)
      PROVE  ViewsInv'
  <2>1. phase = "build" /\ ~HasField(ports, f) /\ ports' = WithField(ports, f, sub)
        /\ UNCHANGED <<phase, other, created>>
    BY <1>1 DEF AddPort
  <2>2. IsTree(sub) /\ ArePorts(sub)
    BY StructAssumption
  <2>3. IsRoot(ports') /\ ArePorts(ports')
    BY <2>1, <2>2, WithFieldDirs DEF ViewsInv
  <2> QED
    BY <2>1, <2>3 DEF ViewsInv
<1>2. ASSUME NEW f \in FieldNames, NEW sub, AddOther(f, sub)
      PROVE  ViewsInv'
  <2>1. phase = "build" /\ ~HasField(other, f) /\ other' = WithField(other, f, sub)
        /\ UNCHANGED <<phase, ports, created>> /\ IsRoot(other) /\ AreOthers(other)
    BY <1>2 DEF AddOther, ViewsInv
  <2>2. CASE OtherAreSignals
    <3>1. IsTree(sub) /\ AreSignals(sub)
      BY <1>2, <2>2, StructAssumption DEF AddOther
    <3>2. IsRoot(other') /\ AreOthers(other')
      BY <2>1, <2>2, <3>1, WithFieldDirs DEF AreOthers, OtherAreSignals
    <3> QED
      BY <2>1, <3>2 DEF ViewsInv
  <2>3. CASE ~OtherAreSignals
    <3>1. IsTree(sub) /\ ArePorts(sub)
      BY <1>2, <2>3, StructAssumption DEF AddOther
    <3>2. IsRoot(other') /\ AreOthers(other')
      BY <2>1, <2>3, <3>1, WithFieldDirs DEF AreOthers, OtherAreSignals
    <3> QED
      BY <2>1, <3>2 DEF ViewsInv
  <2> QED
    BY <2>2, <2>3
<1>3. CASE Use
  BY <1>3, RootViewIs DEF Use, Start, ViewsInv
<1>4. CASE CreateSignals
  <2>1. IsRoot(Signals(ports)) /\ AreOthers(Signals(ports))
    BY SignalsAreSignals DEF ViewsInv
  <2> QED
    BY <1>4, <2>1, RootViewIs DEF CreateSignals, Start, ViewsInv
<1>5. CASE ViewPorts
  <2>1. phase = "use" /\ portView' \in Views(ports, portView) \cup {RootView(ports)}
        /\ UNCHANGED <<phase, ports, other, created, otherView>>
    BY <1>5 DEF ViewPorts
  <2>2. IsRoot(ports) /\ IsTree(ports) /\ IsViewOf(ports, portView)
    BY <2>1 DEF ViewsInv, IsRoot
  <2>3. IsViewOf(ports, portView')
    BY <2>1, <2>2, ViewsAre, RootViewIs
  <2> QED
    BY <2>1, <2>3 DEF ViewsInv
<1>6. CASE ViewOther
  <2>1. phase # "build" /\ otherView' \in Views(other, otherView) \cup {RootView(other)}
        /\ UNCHANGED <<phase, ports, other, created, portView>>
    BY <1>6 DEF ViewOther
  <2>2. IsRoot(other) /\ IsTree(other) /\ IsViewOf(other, otherView)
    BY <2>1 DEF ViewsInv, IsRoot
  <2>3. IsViewOf(other, otherView')
    BY <2>1, <2>2, ViewsAre, RootViewIs
  <2> QED
    BY <2>1, <2>3 DEF ViewsInv
<1>7. CASE Bind
  BY <1>7 DEF Bind, ViewsInv
<1>8. CASE Elaborate
  BY <1>8, RootViewIs DEF Elaborate, ViewsInv
<1>9. ASSUME NEW pattern \in Patterns, WriteArray(pattern)
      PROVE  ViewsInv'
  BY <1>9 DEF WriteArray, vars, ViewsInv
<1>10. CASE Evaluate
  BY <1>10 DEF Evaluate, vars, ViewsInv
<1>11. CASE UNCHANGED interfaceVars
  BY <1>11 DEF interfaceVars, vars, ViewsInv
<1> QED
  BY <1>1, <1>2, <1>3, <1>4, <1>5, <1>6, <1>7, <1>8, <1>9, <1>10, <1>11 DEF InterfaceNext, Next

(* Whatever fields are added and whatever views of views are taken (PortStruct::get, slice(), at(), *)
(* struct_field_elements), each element of a view is the one that the user expects at its position, *)
(* and is an element of the tree.                                                                   *)
THEOREM ViewsCorrect == InterfaceSpec => []ViewsInv
<1>1. InterfaceInit => ViewsInv
  BY ViewsInit DEF InterfaceInit
<1> QED
  BY <1>1, ViewsStep, PTL DEF InterfaceSpec

(***************************************************************************)
(* Binding.                                                                *)
(***************************************************************************)
\* The elements of a view are numbered as they are named.
Numbered(view) ==
    /\ view.shape \in Seq(Nat) /\ DOMAIN view.expects = Box(view.shape)
    /\ DOMAIN view.elems = 1..Size(view.shape) /\ Size(view.shape) \in Nat
    /\ \A k \in DOMAIN view.elems : /\ Positions(view.shape)[k] \in Box(view.shape)
                                    /\ view.elems[k] = view.expects[Positions(view.shape)[k]]
    /\ \A i \in Box(view.shape) : \E k \in DOMAIN view.elems : Positions(view.shape)[k] = i
\* The elements of a view are numbered in the order of their positions.
LEMMA NumbersAre ==
  ASSUME NEW tree, NEW view, IsViewOf(tree, view)
  PROVE  Numbered(view)
<1> DEFINE s == view.shape
           pos == Positions(s)
<1>1. /\ s \in Seq(Nat) /\ DOMAIN view.expects = Box(s)
      /\ view.elems = [k \in 1..Size(s) |-> view.expects[pos[k]]]
  BY DEF IsViewOf
<1>2. Size(s) \in Nat /\ pos \in [1..Size(s) -> Box(s)]
  BY <1>1, PositionsAre
<1>3. \A i \in Box(s) : \E k \in 1..Size(s) : pos[k] = i
  BY <1>1, PositionOf
<1> HIDE DEF s, pos
<1>4. DOMAIN view.elems = 1..Size(s) /\ \A k \in 1..Size(s) : view.elems[k] = view.expects[pos[k]] /\ pos[k] \in Box(s)
  BY <1>1, <1>2
<1> QED
  BY <1>1, <1>2, <1>3, <1>4 DEF s, pos, Numbered

\* The elements of a view of structs are structs of the tree.
LEMMA StructsAre ==
  ASSUME NEW tree, IsTree(tree), NEW view, IsViewOf(tree, view), ~IsLeaf(view), NEW k \in DOMAIN view.elems
  PROVE  view.elems[k] \in Seq(Step) /\ IsStruct(tree, view.elems[k])
<1>1. Positions(view.shape)[k] \in Box(view.shape) /\ view.elems[k] = view.expects[Positions(view.shape)[k]]
  BY NumbersAre DEF Numbered
<1>2. IsStruct(tree, view.elems[k])
  BY <1>1 DEF IsViewOf, IsLeaf
<1> QED
  BY <1>2 DEF IsStruct, IsTree

\* The two sides of a name.
Pair(n) == <<Named(ports, portView, n), Named(other, otherView, n)>>

\* Two views of which one is bound to the other.
Meet ==
    /\ IsTree(ports) /\ IsTree(other) /\ IsViewOf(ports, portView) /\ IsViewOf(other, otherView)
    /\ Compatible

\* Binding an array of ports to an array.
LEMMA ArrayBinds ==
  ASSUME Meet, IsLeaf(portView)
  PROVE  /\ \A b \in Bindings : \E n \in Names(ports, portView) : b = Pair(n)
         /\ ~ShapeDiffers => \A n \in Names(ports, portView) : Pair(n) \in Bindings
<1> DEFINE s == portView.shape
           pos == Positions(s)
<1>1. /\ DOMAIN portView.expects = Box(s)
      /\ \A k \in DOMAIN portView.elems : pos[k] \in Box(s) /\ portView.elems[k] = portView.expects[pos[k]]
      /\ \A i \in Box(s) : \E k \in DOMAIN portView.elems : pos[k] = i
      /\ DOMAIN portView.elems = 1..Size(s)
  <2>1. Numbered(portView)
    BY NumbersAre DEF Meet
  <2> QED
    BY <2>1 DEF Numbered
<1>2. /\ DOMAIN otherView.elems = 1..Size(otherView.shape)
      /\ \A k \in DOMAIN otherView.elems : otherView.elems[k] = otherView.expects[Positions(otherView.shape)[k]]
  <2>1. Numbered(otherView)
    BY NumbersAre DEF Meet
  <2> QED
    BY <2>1 DEF Numbered
<1>3. IsLeaf(otherView) /\ (ShapeDiffers <=> s # otherView.shape)
  BY DEF Meet, Compatible, IsLeaf, ShapeDiffers
<1>4. Bindings = IF ShapeDiffers THEN {} ELSE {<<portView.elems[k], otherView.elems[k]>> : k \in DOMAIN portView.elems}
  BY DEF Bindings
<1>5. Names(ports, portView) = {<<i, <<>>, <<>>>> : i \in Box(s)}
  BY <1>1 DEF Names
<1>6. \A i : Pair(<<i, <<>>, <<>>>>) = <<portView.expects[i], otherView.expects[i]>>
  BY <1>3 DEF Pair, Named
<1>7. ASSUME ~ShapeDiffers, NEW k \in DOMAIN portView.elems
      PROVE  /\ <<pos[k], <<>>, <<>>>> \in Names(ports, portView)
             /\ Pair(<<pos[k], <<>>, <<>>>>) = <<portView.elems[k], otherView.elems[k]>>
  <2>1. otherView.elems[k] = otherView.expects[pos[k]]
    BY <1>1, <1>2, <1>3, <1>7
  <2> QED
    BY <1>1, <1>5, <1>6, <2>1
<1> HIDE DEF pos
<1>8. ASSUME NEW b \in Bindings
      PROVE  \E n \in Names(ports, portView) : b = Pair(n)
  <2>1. ~ShapeDiffers
    BY <1>4
  <2>2. PICK k \in DOMAIN portView.elems : b = <<portView.elems[k], otherView.elems[k]>>
    BY <1>4, <2>1
  <2> QED
    BY <1>7, <2>1, <2>2
<1>9. ASSUME ~ShapeDiffers, NEW n \in Names(ports, portView)
      PROVE  Pair(n) \in Bindings
  <2>1. PICK i \in Box(s) : n = <<i, <<>>, <<>>>>
    BY <1>5
  <2>2. PICK k \in DOMAIN portView.elems : pos[k] = i
    BY <1>1
  <2>3. Pair(n) = <<portView.elems[k], otherView.elems[k]>>
    BY <1>7, <1>9, <2>1, <2>2
  <2> QED
    BY <1>4, <1>9, <2>3
<1> QED
  BY <1>8, <1>9

\* A place of a struct, and its name.
LEMMA PlacesAre ==
  ASSUME NEW tree, IsTree(tree), NEW view, IsViewOf(tree, view), ~IsLeaf(view), NEW x
  PROVE  x \in Places(tree, view) <=>
            \E k \in DOMAIN view.elems : \E path \in Seq(Step) :
               x = <<k, path>> /\ view.elems[k] \o path \in DOMAIN tree
<1>1. \A k \in DOMAIN view.elems : \A path :
         path \in Under(tree, view.elems[k]) <=> path \in Seq(Step) /\ view.elems[k] \o path \in DOMAIN tree
  BY StructsAre, UnderIs
<1> QED
  BY <1>1 DEF Places

\* The names of the ports and signals of a view of structs, by their places.
LEMMA NamesAre ==
  ASSUME NEW tree, IsTree(tree), NEW view, IsViewOf(tree, view), ~IsLeaf(view), NEW n
  PROVE  n \in Names(tree, view) <=>
            \E k \in DOMAIN view.elems : \E path \in Under(tree, view.elems[k]) :
               /\ IsLeaf(tree[view.elems[k] \o path])
               /\ \E j \in Box(tree[view.elems[k] \o path].shape) : n = <<Positions(view.shape)[k], path, j>>
<1> DEFINE pos == Positions(view.shape)
           Is(i, path, j) == /\ path \in Under(tree, view.expects[i])
                             /\ IsLeaf(tree[view.expects[i] \o path])
                             /\ j \in Box(tree[view.expects[i] \o path].shape)
<1>1. /\ DOMAIN view.expects = Box(view.shape)
      /\ \A k \in DOMAIN view.elems : pos[k] \in Box(view.shape) /\ view.elems[k] = view.expects[pos[k]]
      /\ \A i \in Box(view.shape) : \E k \in DOMAIN view.elems : pos[k] = i
  <2>1. Numbered(view)
    BY NumbersAre
  <2> QED
    BY <2>1 DEF Numbered
<1> HIDE DEF pos
<1>2. Names(tree, view) =
         UNION {{<<x[1], x[2], j>> : j \in Box(tree[view.expects[x[1]] \o x[2]].shape)} : x \in Leaves(tree, view)}
  BY DEF Names, Meant
<1>3. \A x : x \in Leaves(tree, view) <=>
               \E i \in DOMAIN view.expects : \E path \in Under(tree, view.expects[i]) :
                  x = <<i, path>> /\ IsLeaf(tree[view.expects[i] \o path])
  BY DEF Leaves
<1>4. n \in Names(tree, view) <=>
         \E i \in Box(view.shape) : \E path, j : Is(i, path, j) /\ n = <<i, path, j>>
  <2>1. ASSUME n \in Names(tree, view)
        PROVE  \E i \in Box(view.shape) : \E path, j : Is(i, path, j) /\ n = <<i, path, j>>
    <3>1. PICK x \in Leaves(tree, view) :
             \E j \in Box(tree[view.expects[x[1]] \o x[2]].shape) : n = <<x[1], x[2], j>>
      BY <1>2, <2>1
    <3>5. PICK i \in DOMAIN view.expects : \E path \in Under(tree, view.expects[i]) :
             x = <<i, path>> /\ IsLeaf(tree[view.expects[i] \o path])
      BY <1>3
    <3>2. PICK path \in Under(tree, view.expects[i]) : x = <<i, path>> /\ IsLeaf(tree[view.expects[i] \o path])
      BY <3>5
    <3>3. x[1] = i /\ x[2] = path
      BY <3>2
    <3>4. PICK j \in Box(tree[view.expects[i] \o path].shape) : n = <<i, path, j>>
      BY <3>1, <3>3
    <3> QED
      BY <1>1, <3>2, <3>4
  <2>2. ASSUME NEW i \in Box(view.shape), NEW path, NEW j, Is(i, path, j), n = <<i, path, j>>
        PROVE  n \in Names(tree, view)
    <3> DEFINE x == <<i, path>>
    <3>1. x \in Leaves(tree, view)
      BY <1>1, <1>3, <2>2
    <3>2. x[1] = i /\ x[2] = path
      OBVIOUS
    <3> HIDE DEF x
    <3>3. n \in {<<x[1], x[2], y>> : y \in Box(tree[view.expects[x[1]] \o x[2]].shape)}
      BY <2>2, <3>2
    <3> QED
      BY <1>2, <3>1, <3>3
  <2> QED
    BY <2>1, <2>2
<1>5. ASSUME NEW i \in Box(view.shape), NEW path, NEW j, Is(i, path, j), n = <<i, path, j>>
      PROVE  \E k \in DOMAIN view.elems : \E p \in Under(tree, view.elems[k]) :
               /\ IsLeaf(tree[view.elems[k] \o p])
               /\ \E y \in Box(tree[view.elems[k] \o p].shape) : n = <<pos[k], p, y>>
  <2>1. PICK k \in DOMAIN view.elems : pos[k] = i
    BY <1>1
  <2>2. view.elems[k] = view.expects[i]
    BY <1>1, <2>1
  <2> QED
    BY <1>5, <2>1, <2>2
<1>6. ASSUME NEW k \in DOMAIN view.elems, NEW p \in Under(tree, view.elems[k]), IsLeaf(tree[view.elems[k] \o p]),
             NEW y \in Box(tree[view.elems[k] \o p].shape), n = <<pos[k], p, y>>
      PROVE  Is(pos[k], p, y)
  BY <1>1, <1>6
<1> QED
  BY <1>1, <1>4, <1>5, <1>6 DEF pos

\* What bind() connects at a place is what is named so.
LEMMA PlaceBinds ==
  ASSUME Meet, ~IsLeaf(portView), ~Refused, NEW k \in DOMAIN portView.elems, NEW path, NEW j
  PROVE  Pair(<<Positions(portView.shape)[k], path, j>>) =
            <<Part(ports, portView.elems[k] \o path, j), Part(other, otherView.elems[k] \o path, j)>>
<1> DEFINE pos == Positions(portView.shape)
           n == <<pos[k], path, j>>
<1>1. portView.shape = otherView.shape /\ ~IsLeaf(otherView)
  BY DEF Refused, Meet, Compatible, IsLeaf
<1>2. portView.elems[k] = portView.expects[pos[k]] /\ DOMAIN portView.elems = DOMAIN otherView.elems
  BY <1>1, NumbersAre DEF Meet, Numbered
<1>3. otherView.elems[k] = otherView.expects[pos[k]]
  BY <1>1, <1>2, NumbersAre DEF Meet, Numbered
<1>4. n[1] = pos[k] /\ n[2] = path /\ n[3] = j
  OBVIOUS
<1> HIDE DEF n, pos
<1>5. Meant(portView, n) = portView.elems[k] \o path /\ Meant(otherView, n) = otherView.elems[k] \o path
  BY <1>2, <1>3, <1>4 DEF Meant
<1> QED
  BY <1>1, <1>4, <1>5 DEF Pair, Named, n, pos

\* Binding structs: what is bound has a name, and what has a name is bound.
LEMMA StructBinds ==
  ASSUME Meet, ~IsLeaf(portView), ~Refused
  PROVE  /\ \A b \in Bindings : \E n \in Names(ports, portView) : b = Pair(n)
         /\ ~ShapeDiffers => \A n \in Names(ports, portView) : Pair(n) \in Bindings
<1> DEFINE pos == Positions(portView.shape)
<1>1. IsTree(ports) /\ IsViewOf(ports, portView)
  BY DEF Meet
<1>2. Bindings = UNION {BoundElements(x) : x \in BoundFields}
  BY DEF Bindings
<1>3. ASSUME NEW k \in DOMAIN portView.elems, NEW path \in Seq(Step), portView.elems[k] \o path \in DOMAIN ports
      PROVE  LET shape == ports[portView.elems[k] \o path].shape
             IN /\ shape \in Seq(Nat) /\ DOMAIN Positions(shape) = 1..Size(shape)
                /\ BoundElements(<<k, path>>) =
                      {<<Part(ports, portView.elems[k] \o path, Positions(shape)[m]),
                         Part(other, otherView.elems[k] \o path, Positions(shape)[m])>> : m \in 1..Size(shape)}
                /\ \A m \in 1..Size(shape) : Positions(shape)[m] \in Box(shape)
  <2> DEFINE x == <<k, path>>
             shape == ports[portView.elems[k] \o path].shape
  <2>1. Place(portView, x) = portView.elems[k] \o path /\ Place(otherView, x) = otherView.elems[k] \o path
    BY DEF Place
  <2>2. PortAt(x) = ports[portView.elems[k] \o path]
    BY <2>1 DEF PortAt
  <2> HIDE DEF x
  <2>3. shape \in Seq(Nat)
    BY <1>1, <1>3 DEF IsTree, IsNode
  <2>4. Positions(shape) \in [1..Size(shape) -> Box(shape)] /\ DOMAIN Positions(shape) = 1..Size(shape)
    BY <2>3, PositionsAre
  <2>5. BoundElements(x) =
           {<<Part(ports, portView.elems[k] \o path, Positions(shape)[m]),
              Part(other, otherView.elems[k] \o path, Positions(shape)[m])>> : m \in DOMAIN Positions(shape)}
    BY <2>1, <2>2 DEF BoundElements
  <2> QED
    BY <2>3, <2>4, <2>5 DEF x
<1>4. ASSUME NEW b \in Bindings
      PROVE  \E n \in Names(ports, portView) : b = Pair(n)
  <2>1. PICK x \in BoundFields : b \in BoundElements(x)
    BY <1>2
  <2>2. x \in Places(ports, portView) /\ IsLeaf(PortAt(x))
    BY DEF BoundFields
  <2>3. PICK k \in DOMAIN portView.elems, path \in Seq(Step) :
           x = <<k, path>> /\ portView.elems[k] \o path \in DOMAIN ports
    BY <1>1, <2>2, PlacesAre
  <2>4. IsLeaf(ports[portView.elems[k] \o path])
    BY <2>2, <2>3 DEF PortAt, Place
  <2> DEFINE shape == ports[portView.elems[k] \o path].shape
             p == Positions(shape)
  <2>5. PICK m \in 1..Size(shape) : b = <<Part(ports, portView.elems[k] \o path, p[m]),
                                         Part(other, otherView.elems[k] \o path, p[m])>>
    BY <1>3, <2>1, <2>3
  <2>6. p[m] \in Box(shape)
    BY <1>3, <2>3
  <2> DEFINE n == <<pos[k], path, p[m]>>
  <2>7. b = Pair(n)
    BY <2>5, PlaceBinds
  <2>8. path \in Under(ports, portView.elems[k])
    BY <1>1, <2>3, StructsAre, UnderIs
  <2>9. n \in Names(ports, portView)
    BY <1>1, <2>4, <2>6, <2>8, NamesAre
  <2> QED
    BY <2>7, <2>9
<1>5. ASSUME ~ShapeDiffers, NEW n \in Names(ports, portView)
      PROVE  Pair(n) \in Bindings
  <2>13. PICK k \in DOMAIN portView.elems : \E path \in Under(ports, portView.elems[k]) :
           /\ IsLeaf(ports[portView.elems[k] \o path])
           /\ \E j \in Box(ports[portView.elems[k] \o path].shape) : n = <<pos[k], path, j>>
    BY <1>1, NamesAre
  <2>1. PICK path \in Under(ports, portView.elems[k]) :
           /\ IsLeaf(ports[portView.elems[k] \o path])
           /\ \E j \in Box(ports[portView.elems[k] \o path].shape) : n = <<pos[k], path, j>>
    BY <2>13
  <2>2. path \in Seq(Step) /\ portView.elems[k] \o path \in DOMAIN ports
    BY <1>1, StructsAre, UnderIs
  <2> DEFINE shape == ports[portView.elems[k] \o path].shape
             p == Positions(shape)
             x == <<k, path>>
  <2>3. PICK j \in Box(shape) : n = <<pos[k], path, j>>
    BY <2>1
  <2>4. x \in Places(ports, portView)
    BY <1>1, <2>2, PlacesAre
  <2>5. IsLeaf(PortAt(x))
    BY <2>1 DEF PortAt, Place
  <2>6. \A y \in Places(ports, portView) : ~(PortAt(y).of = "array" /\ PortAt(y).shape # OtherAt(y).shape)
    BY <1>5 DEF ShapeDiffers
  <2>7. x \in BoundFields
    BY <2>4, <2>5, <2>6 DEF BoundFields
  <2>8. shape \in Seq(Nat)
    BY <1>3, <2>2
  <2>9. PICK m \in 1..Size(shape) : p[m] = j
    BY <2>8, PositionOf
  <2>10. <<Part(ports, portView.elems[k] \o path, p[m]), Part(other, otherView.elems[k] \o path, p[m])>> \in BoundElements(x)
    BY <1>3, <2>2
  <2>11. Pair(n) = <<Part(ports, portView.elems[k] \o path, j), Part(other, otherView.elems[k] \o path, j)>>
    BY <2>3, PlaceBinds
  <2>12. Pair(n) \in BoundElements(x)
    BY <2>9, <2>10, <2>11
  <2> QED
    BY <1>2, <2>7, <2>12
<1> QED
  BY <1>4, <1>5

\* So bind() binds by name.
LEMMA BindStep ==
  ASSUME Meet, Bind
  PROVE  BindsByName
<1> DEFINE Named2(b) == \E n \in Names(ports, portView) : b = Pair(n)
<1>1. bound' = IF Refused THEN bound ELSE Rebound(Bindings)
  BY DEF Bind
<1>2. Rebound(Bindings) \ bound \subseteq Bindings /\ Bindings \subseteq Rebound(Bindings)
  BY DEF Rebound
<1>3. ~Refused => /\ \A b \in Bindings : Named2(b)
                  /\ ~ShapeDiffers => \A n \in Names(ports, portView) : Pair(n) \in Bindings
  <2>1. CASE IsLeaf(portView)
    BY <2>1, ArrayBinds
  <2>2. CASE ~IsLeaf(portView)
    BY <2>2, StructBinds
  <2> QED
    BY <2>1, <2>2
<1>4. \A b \in bound' \ bound : Named2(b)
  <2> HIDE DEF Named2
  <2> QED
    BY <1>1, <1>2, <1>3
<1>5. Succeeds => \A n \in Names(ports, portView) : Pair(n) \in bound'
  BY <1>1, <1>2, <1>3 DEF Succeeds
<1> QED
  BY <1>4, <1>5 DEF BindsByName, Pair

\* No other call binds anything.
LEMMA OthersBindNothing ==
  ASSUME bound' = bound, binds' = binds
  PROVE  BindsByName
BY DEF BindsByName

(* Whatever two views are bound, bind_checked() connects each port with the element that has the     *)
(* same name on the other side, all of them if it does not throw, and nothing else.                 *)
THEOREM BindingByName == InterfaceSpec => BoundByName
<1>1. ASSUME ViewsInv, [InterfaceNext]_interfaceVars
      PROVE  [BindsByName]_vars
  <2>1. CASE Rested /\ Next
    <3>1. CASE Bind
      <4>1. phase = "use" /\ Compatible
        BY <3>1 DEF Bind
      <4>2. Meet
        BY <1>1, <4>1 DEF ViewsInv, IsRoot, Meet
      <4> QED
        BY <3>1, <4>2, BindStep
    <3>2. CASE ~Bind
      <4>1. bound' = bound /\ binds' = binds
        BY <2>1, <3>2 DEF Next, AddPort, AddOther, Use, CreateSignals, Start, ViewPorts, ViewOther
      <4> QED
        BY <4>1, OthersBindNothing
    <3> QED
      BY <3>1, <3>2
  <2>2. CASE Elaborate
    <3>1. bound' = bound /\ binds' = binds
      BY <2>2 DEF Elaborate
    <3> QED
      BY <3>1, OthersBindNothing
  <2>3. ASSUME NEW pattern \in Patterns, WriteArray(pattern)
        PROVE  [BindsByName]_vars
    BY <2>3 DEF WriteArray
  <2>4. CASE Evaluate
    BY <2>4 DEF Evaluate
  <2>5. CASE UNCHANGED interfaceVars
    BY <2>5 DEF interfaceVars
  <2> QED
    BY <1>1, <2>1, <2>2, <2>3, <2>4, <2>5 DEF InterfaceNext
<1>2. InterfaceInit => ViewsInv
  BY ViewsInit DEF InterfaceInit
<1> QED
  BY <1>1, <1>2, ViewsStep, PTL DEF InterfaceSpec, BoundByName

\* An array whose positions are those of another one, and that has elements, is not larger.
LEMMA BoxBounds ==
  ASSUME NEW s \in Seq(Nat), NEW t \in Seq(Nat), Box(s) \subseteq Box(t), NEW i \in Box(s)
  PROVE  Len(s) = Len(t) /\ \A d \in 1..Len(s) : s[d] <= t[d]
<1>1. /\ i \in [1..Len(s) -> Nat] /\ i \in [1..Len(t) -> Nat] /\ DOMAIN s = 1..Len(s) /\ DOMAIN t = 1..Len(t)
      /\ \A d \in 1..Len(s) : i[d] \in Nat /\ s[d] \in Nat /\ i[d] < s[d]
      /\ \A d \in 1..Len(t) : t[d] \in Nat
  BY PositionIs
<1>2. DOMAIN s = DOMAIN t /\ Len(s) = Len(t) /\ Len(s) \in Nat
  <2>1. DOMAIN i = 1..Len(s) /\ DOMAIN i = 1..Len(t)
    BY <1>1
  <2> DEFINE a == Len(s)
             b == Len(t)
  <2>2. a \in Nat /\ b \in Nat /\ 1..a = 1..b
    BY <2>1
  <2> HIDE DEF a, b
  <2>3. a = b
    <3>1. a \in 1..a \/ a = 0
      BY <2>2
    <3>2. b \in 1..b \/ b = 0
      BY <2>2
    <3>3. a <= b /\ b <= a
      BY <2>2, <3>1, <3>2
    <3> QED
      BY <2>2, <3>3
  <2> QED
    BY <1>1, <2>2, <2>3 DEF a, b
<1>3. ASSUME NEW d \in 1..Len(s), t[d] < s[d]
      PROVE  FALSE
  <2> DEFINE j == [i EXCEPT ![d] = t[d]]
  <2>1. j \in [DOMAIN s -> Nat] /\ j[d] = t[d] /\ \A e \in 1..Len(s) : e # d => j[e] = i[e]
    BY <1>1, <1>2
  <2> HIDE DEF j
  <2>2. \A e \in DOMAIN s : j[e] < s[e]
    BY <1>1, <1>3, <2>1
  <2>3. j \in Box(s)
    BY <2>1, <2>2, BoxIs
  <2>4. j \in Box(t)
    BY <2>3
  <2>5. j[d] < t[d]
    BY <1>2, <2>4, PositionIs
  <2>6. t[d] \in Nat
    BY <1>1, <1>2
  <2> QED
    BY <2>1, <2>5, <2>6
<1> QED
  BY <1>1, <1>2, <1>3

\* The positions of an array that has elements tell its shape.
LEMMA BoxesDiffer ==
  ASSUME NEW s \in Seq(Nat), NEW t \in Seq(Nat), Box(s) = Box(t), Box(s) # {}
  PROVE  s = t
<1>1. PICK i \in Box(s) : TRUE
  OBVIOUS
<1>2. Len(s) = Len(t) /\ \A d \in 1..Len(s) : s[d] <= t[d]
  BY BoxBounds, <1>1
<1>3. \A d \in 1..Len(t) : t[d] <= s[d]
  BY BoxBounds, <1>1
<1>4. \A d \in 1..Len(s) : s[d] \in Nat /\ t[d] \in Nat /\ s[d] = t[d]
  BY <1>2, <1>3
<1> QED
  BY <1>2, <1>4

\* An element belongs to one port or signal.
LEMMA ElementOfOne ==
  ASSUME NEW tree, IsTree(tree), NEW p \in DOMAIN tree, NEW q \in DOMAIN tree, IsLeaf(tree[p]), IsLeaf(tree[q]),
         NEW i, NEW j, Part(tree, p, i) = Part(tree, q, j)
  PROVE  p = q
<1>1. p \in Seq(Step) /\ q \in Seq(Step)
  BY DEF IsTree
<1>2. ASSUME NEW a \in DOMAIN tree, IsLeaf(tree[a]), NEW x, Append(a, x) \in DOMAIN tree
      PROVE  FALSE
  <2> DEFINE b == Append(a, x)
             n == Len(b)
  <2>1. a \in Seq(Step) /\ b \in Seq(Step)
    BY <1>2 DEF IsTree
  <2>2. n \in 1..Len(b) /\ SubSeq(b, 1, n - 1) = a
    BY <2>1
  <2>3. Fits(tree[SubSeq(b, 1, n - 1)], b[n])
    BY <1>2, <2>2 DEF IsTree
  <2> QED
    BY <1>2, <2>2, <2>3 DEF Fits, IsLeaf
<1>3. CASE IsArray(tree[p]) /\ IsArray(tree[q])
  <2>1. Append(p, Element(i)) = Append(q, Element(j))
    BY <1>3 DEF Part
  <2> QED
    BY <1>1, <2>1
<1>4. CASE IsArray(tree[p]) /\ ~IsArray(tree[q])
  BY <1>2, <1>4 DEF Part
<1>5. CASE ~IsArray(tree[p]) /\ IsArray(tree[q])
  BY <1>2, <1>5 DEF Part
<1>6. CASE ~IsArray(tree[p]) /\ ~IsArray(tree[q])
  BY <1>6 DEF Part
<1> QED
  BY <1>3, <1>4, <1>5, <1>6

\* Views of the same elements.
LEMMA SameElements ==
  ASSUME IsViewOf(ports, portView), IsViewOf(other, otherView),
         portView.expects = otherView.expects, DOMAIN portView.expects # {}
  PROVE  portView.shape = otherView.shape /\ portView.elems = otherView.elems
<1>1. portView.shape = otherView.shape
  <2>1. /\ portView.shape \in Seq(Nat) /\ otherView.shape \in Seq(Nat)
        /\ DOMAIN portView.expects = Box(portView.shape) /\ DOMAIN otherView.expects = Box(otherView.shape)
    BY DEF IsViewOf
  <2> QED
    BY <2>1, BoxesDiffer
<1>2. /\ portView.elems = [k \in 1..Size(portView.shape) |-> portView.expects[Positions(portView.shape)[k]]]
      /\ otherView.elems = [k \in 1..Size(otherView.shape) |-> otherView.expects[Positions(otherView.shape)[k]]]
  BY DEF IsViewOf
<1> QED
  BY <1>1, <1>2

\* An array of ports, and the array of the signals that signals() has made for them.
LEMMA CreatedArrays ==
  ASSUME ViewsInv, phase = "use", created, portView.of = otherView.of, IsLeaf(portView),
         portView.expects = otherView.expects, DOMAIN portView.expects # {}
  PROVE  Compatible /\ Succeeds
<1>1. IsTree(ports) /\ IsViewOf(ports, portView) /\ IsViewOf(other, otherView) /\ other = Signals(ports)
  BY DEF ViewsInv, IsRoot
<1>2. portView.shape = otherView.shape
  BY <1>1, SameElements
<1>3. PICK i \in DOMAIN portView.expects : TRUE
  OBVIOUS
<1> DEFINE e == portView.expects[i]
<1>4. i \in Box(portView.shape) /\ i \in Box(otherView.shape) /\ portView.of = "array" /\ otherView.of = "array"
  BY <1>1, <1>2 DEF IsViewOf, IsLeaf
<1>5. IsElement(ports, portView, e) /\ IsElement(other, otherView, otherView.expects[i])
  BY <1>1, <1>4 DEF IsViewOf
<1>6. IsElement(other, otherView, e)
  BY <1>5
<1> HIDE DEF e
<1>7. PICK p \in DOMAIN ports : /\ IsLeaf(ports[p]) /\ ports[p].type = portView.type /\ ports[p].dir = portView.dir
                               /\ \E j \in Box(ports[p].shape) : e = Part(ports, p, j)
  BY <1>5 DEF IsElement
<1>8. PICK q \in DOMAIN other : /\ IsLeaf(other[q]) /\ other[q].type = otherView.type /\ other[q].dir = otherView.dir
                               /\ \E j \in Box(other[q].shape) : e = Part(other, q, j)
  BY <1>6 DEF IsElement
<1>9. q \in DOMAIN ports /\ ports[q].of = other[q].of /\ ports[q].type = other[q].type /\ other[q].dir = "signal"
  BY <1>1, SignalsIsTree
<1>10. IsLeaf(ports[q]) /\ \E j : e = Part(ports, q, j)
  BY <1>8, <1>9 DEF IsLeaf, Part, IsArray
<1>11. p = q
  BY <1>1, <1>7, <1>9, <1>10, ElementOfOne
<1>12. SameType(portView, otherView)
  BY <1>4, <1>7, <1>8, <1>9, <1>11 DEF SameType
<1> QED
  BY <1>2, <1>12 DEF Compatible, Succeeds, Refused, ShapeDiffers

\* Structs of ports, and the structs of signals that signals() has made for them.
LEMMA CreatedStructs ==
  ASSUME ViewsInv, phase = "use", created, portView.of = otherView.of, ~IsLeaf(portView),
         portView.expects = otherView.expects, DOMAIN portView.expects # {}
  PROVE  Compatible /\ Succeeds
<1>1. IsTree(ports) /\ IsTree(other) /\ IsViewOf(ports, portView) /\ IsViewOf(other, otherView) /\ other = Signals(ports)
  BY DEF ViewsInv, IsRoot
<1>2. portView.shape = otherView.shape /\ portView.elems = otherView.elems
  BY <1>1, SameElements
<1>3. ~IsLeaf(otherView)
  BY DEF IsLeaf
<1>4. /\ DOMAIN other = DOMAIN ports
      /\ \A path \in DOMAIN ports : /\ other[path].of = ports[path].of /\ other[path].type = ports[path].type
                                    /\ other[path].shape = ports[path].shape /\ other[path].dir = "signal"
  BY <1>1, SignalsIsTree
<1>5. \A x : x \in Places(ports, portView) <=> x \in Places(other, otherView)
  BY <1>1, <1>2, <1>3, <1>4, PlacesAre
<1>6. ASSUME NEW x \in Places(ports, portView)
      PROVE  Enters(x) /\ PortAt(x).shape = OtherAt(x).shape
  <2>1. PICK k \in DOMAIN portView.elems : \E path \in Seq(Step) :
           x = <<k, path>> /\ portView.elems[k] \o path \in DOMAIN ports
    BY <1>1, PlacesAre
  <2>2. PICK path \in Seq(Step) : x = <<k, path>> /\ portView.elems[k] \o path \in DOMAIN ports
    BY <2>1
  <2>3. PortAt(x) = ports[portView.elems[k] \o path] /\ OtherAt(x) = other[portView.elems[k] \o path]
    BY <1>2, <2>2 DEF PortAt, OtherAt, Place
  <2>4. SameType(PortAt(x), OtherAt(x)) /\ PortAt(x).shape = OtherAt(x).shape
    BY <1>4, <2>2, <2>3 DEF SameType
  <2> QED
    BY <1>5, <2>4 DEF Enters
<1>7. Errors = {}
  BY <1>5, <1>6 DEF Errors, Missing, Extra, Differing
<1>8. ~ShapeDiffers
  BY <1>6 DEF ShapeDiffers
<1> QED
  BY <1>2, <1>7, <1>8 DEF Compatible, Succeeds, Refused

(* Views of ports, and the same views of the signals that PortStruct::signals() has created for      *)
(* them, always bind, also where the structs of an array differ from each other.                    *)
THEOREM CreatedBind == InterfaceSpec => []CreatedSignalsBind
<1>1. ViewsInv => CreatedSignalsBind
  BY CreatedArrays, CreatedStructs DEF CreatedSignalsBind
<1>2. InterfaceInit => ViewsInv
  BY ViewsInit DEF InterfaceInit
<1> QED
  BY <1>1, <1>2, ViewsStep, PTL DEF InterfaceSpec

(***************************************************************************)
(* What bind() accepts.                                                    *)
(***************************************************************************)
\* The port or signal that has a name.
LEMMA NodeOfName ==
  ASSUME NEW tree, IsTree(tree), NEW view, IsViewOf(tree, view), ~IsLeaf(view), NEW k \in DOMAIN view.elems,
         NEW path, NEW j
  PROVE  NodeNamed(tree, view, <<Positions(view.shape)[k], path, j>>) = tree[view.elems[k] \o path]
<1>1. view.elems[k] = view.expects[Positions(view.shape)[k]]
  BY NumbersAre DEF Numbered
<1> QED
  BY <1>1 DEF NodeNamed, Meant

\* The names of the elements at a place.
LEMMA NameAt ==
  ASSUME NEW tree, IsTree(tree), NEW view, IsViewOf(tree, view), ~IsLeaf(view), NEW k \in DOMAIN view.elems,
         NEW path, NEW j
  PROVE  <<Positions(view.shape)[k], path, j>> \in Names(tree, view) <=>
            /\ path \in Under(tree, view.elems[k])
            /\ IsLeaf(tree[view.elems[k] \o path]) /\ j \in Box(tree[view.elems[k] \o path].shape)
<1> DEFINE pos == Positions(view.shape)
           n == <<pos[k], path, j>>
<1>1. ASSUME n \in Names(tree, view)
      PROVE  /\ path \in Under(tree, view.elems[k])
             /\ IsLeaf(tree[view.elems[k] \o path]) /\ j \in Box(tree[view.elems[k] \o path].shape)
  <2>1. PICK l \in DOMAIN view.elems : \E p \in Under(tree, view.elems[l]) :
               /\ IsLeaf(tree[view.elems[l] \o p])
               /\ \E y \in Box(tree[view.elems[l] \o p].shape) : n = <<pos[l], p, y>>
    BY <1>1, NamesAre
  <2>2. PICK p \in Under(tree, view.elems[l]) :
               /\ IsLeaf(tree[view.elems[l] \o p])
               /\ \E y \in Box(tree[view.elems[l] \o p].shape) : n = <<pos[l], p, y>>
    BY <2>1
  <2>3. PICK y \in Box(tree[view.elems[l] \o p].shape) : n = <<pos[l], p, y>>
    BY <2>2
  <2>4. pos[l] = pos[k] /\ p = path /\ y = j
    BY <2>3
  <2>5. view.elems[l] = view.elems[k]
    <3>1. Numbered(view)
      BY NumbersAre
    <3>2. view.elems[l] = view.expects[pos[l]] /\ view.elems[k] = view.expects[pos[k]]
      BY <3>1 DEF Numbered
    <3> QED
      BY <2>4, <3>2
  <2> QED
    BY <2>2, <2>3, <2>4, <2>5
<1>2. ASSUME path \in Under(tree, view.elems[k]),
             IsLeaf(tree[view.elems[k] \o path]), j \in Box(tree[view.elems[k] \o path].shape)
      PROVE  n \in Names(tree, view)
  BY <1>2, NamesAre
<1> QED
  BY <1>1, <1>2

\* bind() has looked at every place when it has found no error.
LEMMA AllEnter ==
  ASSUME Meet, ~IsLeaf(portView), Errors = {}
  PROVE  /\ Places(ports, portView) = Places(other, otherView)
         /\ \A x \in Places(ports, portView) : Enters(x)
<1> DEFINE Both == Places(ports, portView) \cup Places(other, otherView)
           Bad == {x \in Both : ~Enters(x)}
           Lens == {Len(x[2]) : x \in Bad}
<1>1. IsTree(ports) /\ IsTree(other) /\ IsViewOf(ports, portView) /\ IsViewOf(other, otherView) /\ ~IsLeaf(otherView)
  BY DEF Meet, Compatible, IsLeaf
<1>2. ASSUME NEW tree, IsTree(tree), NEW view, IsViewOf(tree, view), ~IsLeaf(view), NEW x \in Places(tree, view)
      PROVE  /\ Len(x[2]) \in Nat
             /\ \A n \in 0..Len(x[2]) : /\ <<x[1], SubSeq(x[2], 1, n)>> \in Places(tree, view)
                                        /\ Len(SubSeq(x[2], 1, n)) = n
  <2>1. PICK k \in DOMAIN view.elems : \E path \in Seq(Step) : x = <<k, path>> /\ view.elems[k] \o path \in DOMAIN tree
    BY <1>2, PlacesAre
  <2>2. PICK path \in Seq(Step) : x = <<k, path>> /\ view.elems[k] \o path \in DOMAIN tree
    BY <2>1
  <2>3. x[1] = k /\ x[2] = path /\ view.elems[k] \in Seq(Step)
    BY <1>2, <2>2, StructsAre
  <2>4. path \in Under(tree, view.elems[k])
    BY <1>2, <2>2, <2>3, UnderIs
  <2>5. ASSUME NEW n \in 0..Len(path)
        PROVE  <<k, SubSeq(path, 1, n)>> \in Places(tree, view) /\ Len(SubSeq(path, 1, n)) = n
    <3> DEFINE s == SubSeq(path, 1, n)
    <3>1. s \in Under(tree, view.elems[k])
      BY <1>2, <2>3, <2>4, UnderPrefix
    <3>2. Len(s) = n
      BY <2>2
    <3> HIDE DEF s
    <3>3. <<k, s>> \in Places(tree, view)
      BY <3>1 DEF Places
    <3> QED
      BY <3>2, <3>3 DEF s
  <2> QED
    BY <2>2, <2>3, <2>5
<1> DEFINE Prefixed(x) == /\ Len(x[2]) \in Nat
                          /\ \A n \in 0..Len(x[2]) : /\ <<x[1], SubSeq(x[2], 1, n)>> \in Both
                                                     /\ Len(SubSeq(x[2], 1, n)) = n
<1>3. ASSUME NEW x \in Both
      PROVE  Prefixed(x)
  <2>1. CASE x \in Places(ports, portView)
    BY <1>1, <1>2, <2>1
  <2>2. CASE x \in Places(other, otherView)
    BY <1>1, <1>2, <2>2
  <2> QED
    BY <2>1, <2>2
<1>4. Lens \in SUBSET Nat
  BY <1>3
<1>5. Bad = {}
  <2> SUFFICES ASSUME Bad # {} PROVE FALSE
    OBVIOUS
  <2>1. PICK l \in Lens : \A m \in Lens : l <= m
    <3>1. Lens # {}
      OBVIOUS
    <3> HIDE DEF Lens
    <3> QED
      BY <1>4, <3>1, LeastNat
  <2>2. PICK x \in Bad : l = Len(x[2])
    OBVIOUS
  <2>3. x \in Both /\ ~Enters(x) /\ Prefixed(x)
    BY <1>3
  <2>4. ASSUME NEW n \in 0..Len(x[2]) - 1
        PROVE  Enters(<<x[1], SubSeq(x[2], 1, n)>>)
    <3> DEFINE y == <<x[1], SubSeq(x[2], 1, n)>>
    <3>1. n \in 0..Len(x[2]) /\ n < l
      BY <2>2, <2>3
    <3>2. y \in Both /\ Len(y[2]) = n
      BY <2>3, <3>1
    <3> HIDE DEF y
    <3>3. ASSUME ~Enters(y) PROVE FALSE
      <4>1. n \in Lens
        BY <3>2, <3>3
      <4>2. l <= n /\ l \in Nat
        BY <1>4, <2>1, <4>1
      <4> QED
        BY <3>1, <4>2
    <3> QED
      BY <3>3 DEF y
  <2>5. Reached(x)
    BY <2>4 DEF Reached
  <2>6. x \in Missing \/ x \in Extra \/ x \in Differing
    BY <2>3, <2>5 DEF Missing, Extra, Differing
  <2> QED
    BY <2>6 DEF Errors
<1>6. \A x \in Both : Enters(x)
  BY <1>5
<1>7. \A x \in Both : x \in Places(ports, portView) /\ x \in Places(other, otherView)
  BY <1>6 DEF Enters
<1> QED
  BY <1>6, <1>7

\* If it succeeds, both sides are alike.
LEMMA AlikeIfBound ==
  ASSUME Meet, ~IsLeaf(portView), Succeeds
  PROVE  Elements(ports, portView) = Elements(other, otherView) /\ Directed
<1> DEFINE pos == Positions(portView.shape)
           Node1(n) == NodeNamed(ports, portView, n)
           Node2(n) == NodeNamed(other, otherView, n)
<1>1. /\ IsTree(ports) /\ IsTree(other) /\ IsViewOf(ports, portView) /\ IsViewOf(other, otherView)
      /\ ~IsLeaf(otherView) /\ portView.shape = otherView.shape /\ Errors = {} /\ ~ShapeDiffers
  BY DEF Meet, Compatible, IsLeaf, Succeeds, Refused
<1>2. /\ Places(ports, portView) = Places(other, otherView)
      /\ \A x \in Places(ports, portView) : Enters(x)
  BY <1>1, AllEnter
<1>3. DOMAIN portView.elems = DOMAIN otherView.elems
  BY <1>1, NumbersAre DEF Numbered
<1>4. ASSUME NEW k \in DOMAIN portView.elems, NEW path,
             path \in Under(ports, portView.elems[k]) \/ path \in Under(other, otherView.elems[k])
      PROVE  LET a == ports[portView.elems[k] \o path]
                 b == other[otherView.elems[k] \o path]
             IN /\ path \in Under(ports, portView.elems[k]) /\ path \in Under(other, otherView.elems[k])
                /\ SameType(a, b)
                /\ IsLeaf(a) => a.shape = b.shape
  <2> DEFINE x == <<k, path>>
             a == ports[portView.elems[k] \o path]
             b == other[otherView.elems[k] \o path]
  <2>1. x \in Places(ports, portView) \/ x \in Places(other, otherView)
    BY <1>3, <1>4 DEF Places
  <2>2. x \in Places(ports, portView) /\ x \in Places(other, otherView)
    BY <1>2, <2>1
  <2>3. path \in Under(ports, portView.elems[k]) /\ path \in Under(other, otherView.elems[k])
    BY <2>2 DEF Places
  <2>4. PortAt(x) = a /\ OtherAt(x) = b
    BY DEF PortAt, OtherAt, Place
  <2>5. SameType(a, b)
    BY <1>2, <2>2, <2>4 DEF Enters
  <2>6. ASSUME IsLeaf(a) PROVE a.shape = b.shape
    <3>1. a.of = b.of
      BY <2>5 DEF SameType
    <3>2. CASE a.of = "array"
      BY <1>1, <2>2, <2>4, <3>2 DEF ShapeDiffers
    <3>3. CASE a.of # "array"
      <4>1. portView.elems[k] \o path \in DOMAIN ports /\ otherView.elems[k] \o path \in DOMAIN other
        BY <1>1, <1>3, <2>3, StructsAre, UnderIs
      <4>2. IsNode(a) /\ IsNode(b)
        BY <1>1, <4>1 DEF IsTree
      <4>3. ~IsArray(a) /\ ~IsArray(b)
        BY <2>6, <3>1, <3>3 DEF IsArray, IsLeaf
      <4> QED
        BY <4>2, <4>3 DEF IsNode
    <3> QED
      BY <3>2, <3>3
  <2> QED
    BY <2>3, <2>5, <2>6
<1>5. ASSUME NEW k \in DOMAIN portView.elems, NEW path, NEW j
      PROVE  LET n == <<pos[k], path, j>>
             IN /\ n \in Names(ports, portView) <=> n \in Names(other, otherView)
                /\ n \in Names(ports, portView) => SameType(Node1(n), Node2(n))
  <2> DEFINE n == <<pos[k], path, j>>
             a == ports[portView.elems[k] \o path]
             b == other[otherView.elems[k] \o path]
  <2>1. n \in Names(ports, portView) <=>
           path \in Under(ports, portView.elems[k]) /\ IsLeaf(a) /\ j \in Box(a.shape)
    BY <1>1, NameAt
  <2>2. n \in Names(other, otherView) <=>
           path \in Under(other, otherView.elems[k]) /\ IsLeaf(b) /\ j \in Box(b.shape)
    BY <1>1, <1>3, NameAt
  <2>3. Node1(n) = a /\ Node2(n) = b
    BY <1>1, <1>3, NodeOfName
  <2>4. ASSUME path \in Under(ports, portView.elems[k]) \/ path \in Under(other, otherView.elems[k])
        PROVE  /\ path \in Under(ports, portView.elems[k]) /\ path \in Under(other, otherView.elems[k])
               /\ SameType(a, b) /\ (IsLeaf(a) <=> IsLeaf(b)) /\ (IsLeaf(a) => a.shape = b.shape)
    <3>1. /\ path \in Under(ports, portView.elems[k]) /\ path \in Under(other, otherView.elems[k])
          /\ SameType(a, b) /\ (IsLeaf(a) => a.shape = b.shape)
      BY <1>4, <2>4
    <3>2. a.of = b.of
      BY <3>1 DEF SameType
    <3> QED
      BY <3>1, <3>2 DEF IsLeaf
  <2> HIDE DEF n, a, b, Node1, Node2
  <2>5. (n \in Names(ports, portView) <=> n \in Names(other, otherView))
        /\ (n \in Names(ports, portView) => SameType(Node1(n), Node2(n)))
    BY <2>1, <2>2, <2>3, <2>4
  <2> QED
    BY <2>5 DEF n
<1>6. ASSUME NEW n, n \in Names(ports, portView) \/ n \in Names(other, otherView)
      PROVE  n \in Names(ports, portView) /\ n \in Names(other, otherView) /\ SameType(Node1(n), Node2(n))
  <2>1. \E k \in DOMAIN portView.elems : \E path, j : n = <<pos[k], path, j>>
    <3>1. CASE n \in Names(ports, portView)
      BY <1>1, <3>1, NamesAre
    <3>2. CASE n \in Names(other, otherView)
      <4>1. \E k \in DOMAIN otherView.elems : \E path, j : n = <<Positions(otherView.shape)[k], path, j>>
        BY <1>1, <3>2, NamesAre
      <4> QED
        BY <1>1, <1>3, <4>1
    <3> QED
      BY <1>6, <3>1, <3>2
  <2>2. PICK k \in DOMAIN portView.elems : \E path, j : n = <<pos[k], path, j>>
    BY <2>1
  <2>3. PICK path, j : n = <<pos[k], path, j>>
    BY <2>2
  <2> QED
    BY <1>5, <1>6, <2>3
<1>7. Elements(ports, portView) = {<<n, Node1(n).of, Node1(n).type>> : n \in Names(ports, portView)}
      /\ Elements(other, otherView) = {<<n, Node2(n).of, Node2(n).type>> : n \in Names(other, otherView)}
  BY DEF Elements
<1> HIDE DEF Node1, Node2
<1>8. Names(ports, portView) = Names(other, otherView)
  BY <1>6
<1>9. \A n \in Names(ports, portView) : Node1(n).of = Node2(n).of /\ Node1(n).type = Node2(n).type
                                        /\ Node2(n).dir \in {"signal", Node1(n).dir}
  BY <1>6 DEF SameType
<1>10. Elements(ports, portView) = Elements(other, otherView)
  BY <1>7, <1>8, <1>9
<1>11. Directed
  BY <1>9 DEF Directed, Node1, Node2
<1> QED
  BY <1>10, <1>11

\* A name leads through every place of a view without empty structs and arrays.
LEMMA NameBelow ==
  ASSUME NEW tree, IsTree(tree), NEW view, IsViewOf(tree, view), ~IsLeaf(view), HasNoEmpty(tree, view),
         NEW k \in DOMAIN view.elems, NEW path \in Under(tree, view.elems[k])
  PROVE  \E q, j : /\ <<Positions(view.shape)[k], q, j>> \in Names(tree, view)
                   /\ q \in Seq(Step) /\ Len(path) <= Len(q) /\ SubSeq(q, 1, Len(path)) = path
<1> DEFINE pos == Positions(view.shape)
<1>1. pos[k] \in DOMAIN view.expects /\ view.elems[k] = view.expects[pos[k]]
  <2>1. Numbered(view)
    BY NumbersAre
  <2> QED
    BY <2>1 DEF Numbered
<1>2. PICK n \in Names(tree, view) : n[1] = pos[k] /\ IsPrefix(path, n[2])
  BY <1>1 DEF HasNoEmpty
<1>3. PICK l \in DOMAIN view.elems : \E q \in Under(tree, view.elems[l]) : \E j : n = <<pos[l], q, j>>
  BY <1>2, NamesAre
<1>4. PICK q \in Under(tree, view.elems[l]) : \E j : n = <<pos[l], q, j>>
  BY <1>3
<1>5. PICK j : n = <<pos[l], q, j>>
  BY <1>4
<1>6. n[1] = pos[l] /\ n[2] = q
  BY <1>5
<1>7. q \in Seq(Step) /\ path \in Seq(Step)
  BY StructsAre, UnderIs
<1>8. Len(path) <= Len(q) /\ SubSeq(q, 1, Len(path)) = path
  <2>1. SubSeq(path, 1, Len(path)) = path
    BY <1>7
  <2> QED
    BY <1>2, <1>6, <2>1 DEF IsPrefix
<1>9. n = <<pos[k], q, j>>
  BY <1>2, <1>5, <1>6
<1> QED
  BY <1>2, <1>7, <1>8, <1>9

\* Two views of structs, where the one has the names of the other.
NamedIn(tree, view, tree2, view2) ==
    /\ IsTree(tree) /\ IsViewOf(tree, view) /\ ~IsLeaf(view) /\ HasNoEmpty(tree, view)
    /\ IsTree(tree2) /\ IsViewOf(tree2, view2) /\ ~IsLeaf(view2)
    /\ Names(tree, view) \subseteq Names(tree2, view2)

\* Then it has its positions too.
LEMMA HasPositions ==
  ASSUME NEW tree, NEW view, NEW tree2, NEW view2, NamedIn(tree, view, tree2, view2)
  PROVE  Box(view.shape) \subseteq Box(view2.shape) /\ Box(view.shape) # {}
<1>1. /\ IsTree(tree) /\ IsViewOf(tree, view) /\ ~IsLeaf(view) /\ HasNoEmpty(tree, view)
      /\ IsTree(tree2) /\ IsViewOf(tree2, view2) /\ ~IsLeaf(view2)
      /\ Names(tree, view) \subseteq Names(tree2, view2)
  BY DEF NamedIn
<1>2. Numbered(view) /\ Numbered(view2)
  BY <1>1, NumbersAre
<1>3. ASSUME NEW i \in Box(view.shape)
      PROVE  i \in Box(view2.shape)
  <2>1. PICK k \in DOMAIN view.elems : Positions(view.shape)[k] = i
    BY <1>2 DEF Numbered
  <2>2. <<>> \in Under(tree, view.elems[k])
    <3> DEFINE e == view.elems[k]
    <3>1. e \in Seq(Step) /\ e \in DOMAIN tree
      BY <1>1, StructsAre DEF IsStruct
    <3> HIDE DEF e
    <3>2. e \o <<>> = e /\ <<>> \in Seq(Step)
      BY <3>1
    <3>3. <<>> \in Under(tree, e)
      BY <1>1, <3>1, <3>2, UnderIs
    <3> QED
      BY <3>3 DEF e
  <2>3. PICK q, j : <<i, q, j>> \in Names(tree, view)
    BY <1>1, <2>1, <2>2, NameBelow
  <2>4. <<i, q, j>> \in Names(tree2, view2)
    BY <1>1, <2>3
  <2>5. PICK l \in DOMAIN view2.elems : \E p, y : <<i, q, j>> = <<Positions(view2.shape)[l], p, y>>
    BY <1>1, <2>4, NamesAre
  <2>6. i = Positions(view2.shape)[l]
    BY <2>5
  <2> QED
    BY <1>2, <2>6 DEF Numbered
<1>4. Box(view.shape) # {}
  BY <1>1, <1>2 DEF HasNoEmpty, Numbered
<1> QED
  BY <1>3, <1>4

\* And its places.
LEMMA HasPlaces ==
  ASSUME NEW tree, NEW view, NEW tree2, NEW view2, NamedIn(tree, view, tree2, view2), view.shape = view2.shape,
         NEW k \in DOMAIN view.elems, NEW path \in Under(tree, view.elems[k])
  PROVE  k \in DOMAIN view2.elems /\ path \in Under(tree2, view2.elems[k])
<1>1. /\ IsTree(tree) /\ IsViewOf(tree, view) /\ ~IsLeaf(view) /\ HasNoEmpty(tree, view)
      /\ IsTree(tree2) /\ IsViewOf(tree2, view2) /\ ~IsLeaf(view2)
      /\ Names(tree, view) \subseteq Names(tree2, view2)
  BY DEF NamedIn
<1>2. k \in DOMAIN view2.elems
  <2>1. Numbered(view) /\ Numbered(view2)
    BY <1>1, NumbersAre
  <2> QED
    BY <2>1 DEF Numbered
<1>3. PICK q, j : /\ <<Positions(view.shape)[k], q, j>> \in Names(tree, view)
                  /\ q \in Seq(Step) /\ Len(path) <= Len(q) /\ SubSeq(q, 1, Len(path)) = path
  BY <1>1, NameBelow
<1>4. <<Positions(view2.shape)[k], q, j>> \in Names(tree2, view2)
  BY <1>1, <1>3
<1>5. q \in Under(tree2, view2.elems[k])
  BY <1>1, <1>2, <1>4, NameAt
<1>6. view2.elems[k] \in Seq(Step) /\ path \in Seq(Step)
  BY <1>1, <1>2, StructsAre, UnderIs
<1>7. Len(path) \in 0..Len(q)
  BY <1>3, <1>6
<1>8. SubSeq(q, 1, Len(path)) \in Under(tree2, view2.elems[k])
  BY <1>1, <1>5, <1>6, <1>7, UnderPrefix
<1> QED
  BY <1>2, <1>3, <1>8

\* A path that goes on by one more step.
LEMMA JoinedAppend ==
  ASSUME NEW e \in Seq(Step), NEW p \in Seq(Step), NEW x \in Step
  PROVE  Append(p, x) \in Seq(Step) /\ Append(e \o p, x) = e \o Append(p, x)
<1> DEFINE q == e \o p
           r == Append(p, x)
           a == Append(q, x)
           b == e \o r
<1>1. q \in Seq(Step) /\ Len(q) = Len(e) + Len(p) /\ (\A m \in 1..Len(e) : q[m] = e[m])
      /\ \A m \in 1..Len(p) : q[Len(e) + m] = p[m]
  BY JoinedIs
<1>2. r \in Seq(Step) /\ Len(r) = Len(p) + 1 /\ r[Len(p) + 1] = x /\ \A m \in 1..Len(p) : r[m] = p[m]
  OBVIOUS
<1> HIDE DEF q, r
<1>3. a \in Seq(Step) /\ Len(a) = Len(q) + 1 /\ a[Len(q) + 1] = x /\ \A m \in 1..Len(q) : a[m] = q[m]
  BY <1>1
<1>4. b \in Seq(Step) /\ Len(b) = Len(e) + Len(r) /\ (\A m \in 1..Len(e) : b[m] = e[m])
      /\ \A m \in 1..Len(r) : b[Len(e) + m] = r[m]
  BY <1>2, JoinedIs
<1> HIDE DEF a, b
<1>5. ASSUME NEW m \in 1..Len(e) + (Len(p) + 1)
      PROVE  a[m] = b[m]
  <2>1. CASE m <= Len(e)
    BY <1>1, <1>3, <1>4, <2>1
  <2>2. CASE m > Len(e)
    <3> DEFINE l == m - Len(e)
    <3>1. l \in 1..Len(p) + 1 /\ m = Len(e) + l
      BY <2>2
    <3> HIDE DEF l
    <3>2. b[m] = r[l]
      BY <1>2, <1>4, <3>1
    <3>3. CASE l = Len(p) + 1
      BY <1>1, <1>2, <1>3, <3>1, <3>2, <3>3
    <3>4. CASE l # Len(p) + 1
      <4>1. l \in 1..Len(p) /\ m \in 1..Len(q)
        BY <1>1, <3>1, <3>4
      <4> QED
        BY <1>1, <1>2, <1>3, <3>1, <3>2, <4>1
    <3> QED
      BY <3>3, <3>4
  <2> QED
    BY <2>1, <2>2
<1>6. a = b
  <2> DEFINE n == Len(e) + (Len(p) + 1)
  <2>1. Len(a) = n /\ Len(b) = n
    BY <1>1, <1>2, <1>3, <1>4
  <2>2. \A m \in 1..n : a[m] = b[m]
    BY <1>5
  <2> HIDE DEF n
  <2> QED
    BY <1>3, <1>4, <2>1, <2>2
<1> QED
  BY <1>2, <1>6 DEF a, b, q, r

\* The steps of an array of structs.
LEMMA ElementsBelow ==
  ASSUME NEW tree, IsTree(tree), NEW e \in Seq(Step), NEW p \in Under(tree, e), tree[e \o p].of = "structs",
         NEW i \in Seq(Nat)
  PROVE  i \in Box(tree[e \o p].shape) <=> Append(p, Element(i)) \in Under(tree, e)
<1> DEFINE q == e \o p
           x == Element(i)
           r == Append(p, x)
<1>1. p \in Seq(Step) /\ q \in DOMAIN tree /\ q \in Seq(Step) /\ x \in Step
  BY UnderIs, StepsAre, JoinedIs
<1> HIDE DEF x
<1>2. r \in Seq(Step) /\ Append(q, x) = e \o r
  BY <1>1, JoinedAppend
<1>3. ASSUME i \in Box(tree[q].shape)
      PROVE  r \in Under(tree, e)
  <2>1. Append(q, x) \in DOMAIN tree
    BY <1>1, <1>3 DEF IsTree, x
  <2> QED
    BY <1>2, <2>1, UnderIs
<1>4. ASSUME r \in Under(tree, e)
      PROVE  i \in Box(tree[q].shape)
  <2>1. Len(p) \in 0..Len(r) /\ Len(p) # Len(r) /\ SubSeq(r, 1, Len(p)) = p /\ r[Len(p) + 1] = x
    BY <1>1
  <2> HIDE DEF r
  <2>2. Fits(tree[e \o SubSeq(r, 1, Len(p))], r[Len(p) + 1])
    BY <1>4, <2>1, UnderPrefix
  <2>3. Fits(tree[q], x)
    BY <2>1, <2>2
  <2>4. PICK y \in Box(tree[q].shape) : x = Element(y)
    BY <2>3 DEF Fits
  <2> QED
    BY <2>4, StepsAre DEF x
<1> QED
  BY <1>3, <1>4 DEF r, x

\* The one kind of node below which a path goes on.
LEMMA StepOf ==
  ASSUME NEW tree, IsTree(tree), NEW e \in Seq(Step), NEW q \in Under(tree, e), NEW n \in 0..Len(q), n # Len(q)
  PROVE  LET node == tree[e \o SubSeq(q, 1, n)]
         IN /\ ~IsLeaf(node) /\ node.of \in {"struct", "structs"}
            /\ node.of = "structs" <=> q[n + 1].field = ""
            /\ node.of = "structs" => q[n + 1].index \in Box(node.shape)
<1> DEFINE p == SubSeq(q, 1, n)
           node == tree[e \o p]
           x == q[n + 1]
<1>1. Fits(node, x) /\ p \in Under(tree, e)
  BY UnderPrefix
<1>2. IsNode(node)
  BY <1>1, UnderIs DEF IsTree
<1> HIDE DEF node, x
<1>3. CASE node.of = "struct"
  <2>1. PICK m \in DOMAIN node.fields : x = Field(node.fields[m])
    BY <1>1, <1>3 DEF Fits
  <2>2. node.fields[m] \in FieldNames /\ x.field = node.fields[m]
    BY <1>2, <2>1 DEF IsNode, Field
  <2>3. x.field # ""
    BY <2>2, StructAssumption
  <2> QED
    BY <1>3, <2>3 DEF IsLeaf, node, x
<1>4. CASE node.of # "struct"
  <2>1. node.of = "structs" /\ \E i \in Box(node.shape) : x = Element(i)
    BY <1>1, <1>4 DEF Fits
  <2>3. PICK i \in Box(node.shape) : x = Element(i)
    BY <2>1
  <2>4. x.field = "" /\ x.index = i
    BY <2>3 DEF Element
  <2>2. x.field = "" /\ x.index \in Box(node.shape)
    BY <2>4
  <2> QED
    BY <2>1, <2>2 DEF IsLeaf, node, x
<1> QED
  BY <1>3, <1>4

\* If both sides are alike, it succeeds.
LEMMA BoundIfAlike ==
  ASSUME ViewsInv, Meet, ~IsLeaf(portView), HasNoEmpty(ports, portView), HasNoEmpty(other, otherView),
         Elements(ports, portView) = Elements(other, otherView), Directed
  PROVE  Succeeds
<1> DEFINE pos == Positions(portView.shape)
           A(k, path) == ports[portView.elems[k] \o path]
           B(k, path) == other[otherView.elems[k] \o path]
<1>1. /\ IsTree(ports) /\ IsTree(other) /\ IsViewOf(ports, portView) /\ IsViewOf(other, otherView)
      /\ ~IsLeaf(otherView) /\ Numbered(portView) /\ Numbered(otherView)
  BY NumbersAre DEF Meet, Compatible, IsLeaf
<1>2. \A n \in Names(ports, portView) :
         /\ n \in Names(other, otherView)
         /\ NodeNamed(ports, portView, n).of = NodeNamed(other, otherView, n).of
         /\ NodeNamed(ports, portView, n).type = NodeNamed(other, otherView, n).type
  <2> SUFFICES ASSUME NEW n \in Names(ports, portView)
               PROVE  /\ n \in Names(other, otherView)
                      /\ NodeNamed(ports, portView, n).of = NodeNamed(other, otherView, n).of
                      /\ NodeNamed(ports, portView, n).type = NodeNamed(other, otherView, n).type
    OBVIOUS
  <2> DEFINE a == NodeNamed(ports, portView, n)
             b(m) == NodeNamed(other, otherView, m)
  <2>1. <<n, a.of, a.type>> \in Elements(ports, portView)
    BY DEF Elements
  <2>2. PICK m \in Names(other, otherView) : <<n, a.of, a.type>> = <<m, b(m).of, b(m).type>>
    BY <2>1 DEF Elements
  <2> HIDE DEF a, b
  <2>3. n = m /\ a.of = b(m).of /\ a.type = b(m).type
    BY <2>2
  <2> QED
    BY <2>3 DEF a, b
<1>3. \A n \in Names(other, otherView) : n \in Names(ports, portView)
  <2> SUFFICES ASSUME NEW n \in Names(other, otherView) PROVE n \in Names(ports, portView)
    OBVIOUS
  <2> DEFINE a(m) == NodeNamed(ports, portView, m)
             b == NodeNamed(other, otherView, n)
  <2>1. <<n, b.of, b.type>> \in Elements(other, otherView)
    BY DEF Elements
  <2>2. PICK m \in Names(ports, portView) : <<n, b.of, b.type>> = <<m, a(m).of, a(m).type>>
    BY <2>1 DEF Elements
  <2> HIDE DEF a, b
  <2> QED
    BY <2>2
<1>4. NamedIn(ports, portView, other, otherView) /\ NamedIn(other, otherView, ports, portView)
  BY <1>1, <1>2, <1>3 DEF NamedIn
<1>5. portView.shape = otherView.shape
  <2>1. Box(portView.shape) = Box(otherView.shape) /\ Box(portView.shape) # {}
    BY <1>4, HasPositions
  <2> QED
    BY <1>1, <2>1, BoxesDiffer DEF Numbered
<1>6. DOMAIN portView.elems = DOMAIN otherView.elems
  BY <1>1, <1>5 DEF Numbered
<1>7. ASSUME NEW k \in DOMAIN portView.elems, NEW path
      PROVE  path \in Under(ports, portView.elems[k]) <=> path \in Under(other, otherView.elems[k])
  BY <1>4, <1>5, <1>6, HasPlaces
<1>8. Places(ports, portView) = Places(other, otherView)
  BY <1>6, <1>7 DEF Places
<1>9. ASSUME NEW k \in DOMAIN portView.elems, NEW path \in Under(ports, portView.elems[k])
      PROVE  /\ SameType(A(k, path), B(k, path)) /\ A(k, path).shape = B(k, path).shape
  <2> DEFINE a == A(k, path)
             b == B(k, path)
             e == portView.elems[k]
             f == otherView.elems[k]
  <2>1. /\ e \in Seq(Step) /\ f \in Seq(Step) /\ path \in Seq(Step) /\ path \in Under(other, f)
        /\ IsNode(a) /\ IsNode(b) /\ e \o path \in DOMAIN ports /\ f \o path \in DOMAIN other
    <3>1. e \in Seq(Step) /\ f \in Seq(Step) /\ path \in Under(other, f)
      BY <1>1, <1>6, <1>7, StructsAre
    <3>2. path \in Seq(Step) /\ e \o path \in DOMAIN ports /\ f \o path \in DOMAIN other
      BY <1>1, <3>1, UnderIs
    <3> QED
      BY <1>1, <3>1, <3>2 DEF IsTree
  <2>2. PICK q, j : /\ <<pos[k], q, j>> \in Names(ports, portView)
                    /\ q \in Seq(Step) /\ Len(path) <= Len(q) /\ SubSeq(q, 1, Len(path)) = path
    BY <1>1, NameBelow
  <2>3. <<pos[k], q, j>> \in Names(other, otherView)
    BY <1>2, <2>2
  <2>4. /\ q \in Under(ports, e) /\ IsLeaf(A(k, q)) /\ j \in Box(A(k, q).shape)
        /\ q \in Under(other, f) /\ IsLeaf(B(k, q)) /\ j \in Box(B(k, q).shape)
    BY <1>1, <1>5, <1>6, <2>2, <2>3, NameAt
  <2>5. CASE Len(path) = Len(q)
    <3>1. q = path
      BY <2>2, <2>5
    <3>2. IsLeaf(a) /\ IsLeaf(b) /\ <<pos[k], path, j>> \in Names(ports, portView) \cap Names(other, otherView)
      BY <2>2, <2>3, <2>4, <3>1
    <3>3. NodeNamed(ports, portView, <<pos[k], path, j>>) = a /\ NodeNamed(other, otherView, <<pos[k], path, j>>) = b
      BY <1>1, <1>5, <1>6, NodeOfName
    <3>4. a.of = b.of /\ a.type = b.type /\ b.dir \in {"signal", a.dir}
      <4> DEFINE n == <<pos[k], path, j>>
      <4>1. n \in Names(ports, portView) \cap Names(other, otherView)
        BY <3>2
      <4> HIDE DEF n
      <4>2. /\ NodeNamed(ports, portView, n).of = NodeNamed(other, otherView, n).of
            /\ NodeNamed(ports, portView, n).type = NodeNamed(other, otherView, n).type
            /\ NodeNamed(other, otherView, n).dir \in {"signal", NodeNamed(ports, portView, n).dir}
        BY <1>2, <4>1 DEF Directed
      <4> QED
        BY <3>3, <4>2 DEF n
    <3>5. ASSUME NEW y
          PROVE  y \in Box(a.shape) <=> y \in Box(b.shape)
      <4>1. <<pos[k], path, y>> \in Names(ports, portView) <=> y \in Box(a.shape)
        BY <1>1, <3>2, NameAt
      <4>2. <<pos[k], path, y>> \in Names(other, otherView) <=> y \in Box(b.shape)
        BY <1>1, <1>5, <1>6, <2>1, <3>2, NameAt
      <4> QED
        BY <1>2, <1>3, <4>1, <4>2
    <3>6. a.shape = b.shape
      <4>1. Box(a.shape) = Box(b.shape) /\ Box(a.shape) # {}
        BY <2>4, <3>1, <3>5
      <4>2. a.shape \in Seq(Nat) /\ b.shape \in Seq(Nat)
        BY <2>1 DEF IsNode
      <4> QED
        BY <4>1, <4>2, BoxesDiffer
    <3> QED
      BY <3>4, <3>6 DEF SameType
  <2>6. CASE Len(path) # Len(q)
    <3> DEFINE n == Len(path)
    <3>1. n \in 0..Len(q) /\ n # Len(q) /\ SubSeq(q, 1, n) = path
      BY <2>1, <2>2, <2>6
    <3>2. /\ ~IsLeaf(a) /\ a.of \in {"struct", "structs"}
          /\ a.of = "structs" <=> q[n + 1].field = ""
          /\ a.of = "structs" => q[n + 1].index \in Box(a.shape)
      <4> HIDE DEF n
      <4> QED
        BY <1>1, <2>1, <2>4, <3>1, StepOf
    <3>3. /\ ~IsLeaf(b) /\ b.of \in {"struct", "structs"}
          /\ b.of = "structs" <=> q[n + 1].field = ""
          /\ b.of = "structs" => q[n + 1].index \in Box(b.shape)
      <4> HIDE DEF n
      <4> QED
        BY <1>1, <2>1, <2>4, <3>1, StepOf
    <3>4. a.of = b.of
      BY <3>2, <3>3
    <3>5. a.type = 0 /\ b.type = 0
      BY <2>1, <3>2, <3>3 DEF IsNode
    <3>6. a.dir = "port" /\ b.dir \in {"signal", "port"}
      <4>1. a.dir = "port"
        BY <2>1, <3>2 DEF ViewsInv, ArePorts
      <4>2. b.dir \in {"signal", "port"}
        BY <2>1, <3>3 DEF ViewsInv, AreOthers, ArePorts, AreSignals
      <4> QED
        BY <4>1, <4>2
    <3>7. a.shape = b.shape
      <4>1. CASE a.of = "structs"
        <5>1. a.shape \in Seq(Nat) /\ b.shape \in Seq(Nat)
          BY <2>1 DEF IsNode
        <5>2. ASSUME NEW i \in Seq(Nat)
              PROVE  i \in Box(a.shape) <=> i \in Box(b.shape)
          <6>1. i \in Box(a.shape) <=> Append(path, Element(i)) \in Under(ports, e)
            BY <1>1, <2>1, <4>1, ElementsBelow
          <6>2. i \in Box(b.shape) <=> Append(path, Element(i)) \in Under(other, f)
            BY <1>1, <2>1, <3>4, <4>1, ElementsBelow
          <6> QED
            BY <1>7, <6>1, <6>2
        <5>3. Box(a.shape) \subseteq Seq(Nat) /\ Box(b.shape) \subseteq Seq(Nat)
          BY <5>1, PositionIs
        <5>4. Box(a.shape) = Box(b.shape) /\ Box(a.shape) # {}
          BY <3>2, <4>1, <5>2, <5>3
        <5> QED
          BY <5>1, <5>4, BoxesDiffer
      <4>2. CASE a.of # "structs"
        BY <2>1, <3>2, <3>4, <4>2 DEF IsNode, IsArray
      <4> QED
        BY <4>1, <4>2
    <3> QED
      BY <3>4, <3>5, <3>6, <3>7 DEF SameType
  <2> QED
    BY <2>5, <2>6
<1>10. ASSUME NEW x \in Places(ports, portView)
       PROVE  Enters(x) /\ PortAt(x).shape = OtherAt(x).shape
  <2>1. PICK k \in DOMAIN portView.elems : \E path \in Under(ports, portView.elems[k]) : x = <<k, path>>
    BY DEF Places
  <2>2. PICK path \in Under(ports, portView.elems[k]) : x = <<k, path>>
    BY <2>1
  <2>3. PortAt(x) = A(k, path) /\ OtherAt(x) = B(k, path)
    BY <2>2 DEF PortAt, OtherAt, Place
  <2>4. SameType(PortAt(x), OtherAt(x)) /\ PortAt(x).shape = OtherAt(x).shape
    BY <1>9, <2>3
  <2> QED
    BY <1>8, <2>4 DEF Enters
<1>11. Errors = {}
  BY <1>8, <1>10 DEF Errors, Missing, Extra, Differing
<1>12. ~ShapeDiffers
  BY <1>10 DEF ShapeDiffers
<1> QED
  BY <1>5, <1>11, <1>12 DEF Succeeds, Refused

\* Arrays of ports and signals have the types of the language.
LEMMA ArraysAlike ==
  ASSUME Meet, IsLeaf(portView), HasNoEmpty(ports, portView)
  PROVE  Succeeds <=> Elements(ports, portView) = Elements(other, otherView) /\ Directed
<1>1. /\ IsLeaf(otherView) /\ SameType(portView, otherView) /\ Numbered(portView) /\ Numbered(otherView)
  BY NumbersAre DEF Meet, Compatible, IsLeaf
<1>2. Succeeds <=> portView.shape = otherView.shape
  BY DEF Succeeds, Refused, ShapeDiffers
<1>3. /\ Names(ports, portView) = {<<i, <<>>, <<>>>> : i \in Box(portView.shape)}
      /\ Names(other, otherView) = {<<i, <<>>, <<>>>> : i \in Box(otherView.shape)}
  BY <1>1 DEF Names, Numbered
<1>4. \A n : NodeNamed(ports, portView, n) = portView /\ NodeNamed(other, otherView, n) = otherView
  BY <1>1 DEF NodeNamed
<1>5. Directed
  BY <1>1, <1>4 DEF Directed, SameType
<1>6. /\ Elements(ports, portView) = {<<n, portView.of, portView.type>> : n \in Names(ports, portView)}
      /\ Elements(other, otherView) = {<<n, portView.of, portView.type>> : n \in Names(other, otherView)}
  BY <1>1, <1>4 DEF Elements, SameType
<1>7. ASSUME Elements(ports, portView) = Elements(other, otherView)
      PROVE  portView.shape = otherView.shape
  <2>1. Names(ports, portView) = Names(other, otherView)
    <3> DEFINE T(n) == <<n, portView.of, portView.type>>
    <3>1. \A n, m : T(n) = T(m) => n = m
      OBVIOUS
    <3>2. {T(n) : n \in Names(ports, portView)} = {T(n) : n \in Names(other, otherView)}
      BY <1>6, <1>7
    <3> HIDE DEF T
    <3> QED
      BY <3>1, <3>2
  <2>2. Box(portView.shape) = Box(otherView.shape)
    <3> DEFINE T(i) == <<i, <<>>, <<>>>>
    <3>1. \A i, j : T(i) = T(j) => i = j
      OBVIOUS
    <3>2. {T(i) : i \in Box(portView.shape)} = {T(i) : i \in Box(otherView.shape)}
      BY <1>3, <2>1
    <3> HIDE DEF T
    <3> QED
      BY <3>1, <3>2
  <2>3. Box(portView.shape) # {}
    BY <1>1 DEF HasNoEmpty, Numbered
  <2> QED
    BY <1>1, <2>2, <2>3, BoxesDiffer DEF Numbered
<1>8. ASSUME portView.shape = otherView.shape
      PROVE  Elements(ports, portView) = Elements(other, otherView)
  BY <1>3, <1>6, <1>8
<1> QED
  BY <1>2, <1>5, <1>7, <1>8

(* PortStruct::check and InputArray::check_shape accept two views if and only if both have the same  *)
(* elements under the same names, with the same types and directions.                               *)
THEOREM AlikeBinds == InterfaceSpec => []BindsTheAlike
<1>1. ASSUME ViewsInv
      PROVE  BindsTheAlike
  <2> SUFFICES ASSUME phase = "use", Compatible, HasNoEmpty(ports, portView), HasNoEmpty(other, otherView)
               PROVE  Succeeds <=> Elements(ports, portView) = Elements(other, otherView) /\ Directed
    BY DEF BindsTheAlike
  <2>1. Meet
    BY <1>1 DEF ViewsInv, IsRoot, Meet
  <2>2. CASE IsLeaf(portView)
    BY <2>1, <2>2, ArraysAlike
  <2>3. CASE ~IsLeaf(portView)
    BY <1>1, <2>1, <2>3, AlikeIfBound, BoundIfAlike
  <2> QED
    BY <2>2, <2>3
<1>2. InterfaceInit => ViewsInv
  BY ViewsInit DEF InterfaceInit
<1> QED
  BY <1>1, <1>2, ViewsStep, PTL DEF InterfaceSpec

(***************************************************************************)
(* Words.                                                                  *)
(***************************************************************************)
Whole == WordsOf(Width)

\* So many words hold so many bits, and one less does not.
LEMMA WordsHold ==
  ASSUME NEW width \in Nat \ {0}
  PROVE  /\ WordsOf(width) \in Nat \ {0}
         /\ width <= WordsOf(width) * WordBits
         /\ (WordsOf(width) - 1) * WordBits < width
<1> DEFINE W == WordBits
           x == width + W - 1
           q == x \div W
           r == x % W
<1>1. W \in Nat \ {0} /\ x \in Nat
  BY PackedAssumption
<1>2. q \in Nat /\ r \in 0..W - 1 /\ x = q * W + r
  BY <1>1, Division
<1>3. WordsOf(width) = q
  BY DEF WordsOf
<1> HIDE DEF q, r
<1>4. q * W \in Nat /\ (q - 1) * W = q * W - W
  BY <1>1, <1>2
<1>5. q # 0
  <2> SUFFICES ASSUME q = 0 PROVE FALSE
    OBVIOUS
  <2>1. q * W = 0
    BY <1>1
  <2> QED
    BY <1>1, <1>2, <2>1
<1> QED
  BY <1>1, <1>2, <1>3, <1>4, <1>5

\* Word w of struct e, and no other word of another struct, is in its place.
LEMMA WordPlace ==
  ASSUME NEW e \in Structs, NEW w \in 0..Whole - 1
  PROVE  /\ e * Whole + w \in WordIndices
         /\ (e * Whole + w) \div Whole = e /\ (e * Whole + w) % Whole = w
<1>1. Whole \in Nat \ {0} /\ Count \in Nat \ {0}
  BY WordsHold, PackedAssumption DEF Whole
<1>2. e \in Nat /\ e < Count
  BY <1>1 DEF Structs
<1>3. e * Whole + Whole <= Count * Whole /\ e * Whole \in Int /\ Count * Whole \in Int
  BY <1>1, <1>2, Multiples
<1>4. e * Whole >= 0
  BY <1>1, <1>2
<1>5. e * Whole + w \in 0..Count * Whole - 1
  BY <1>1, <1>3, <1>4
<1> QED
  BY <1>1, <1>2, <1>5, Quotient DEF WordIndices, Whole

\* Every word has a place.
LEMMA PlaceOfWord ==
  ASSUME NEW i \in WordIndices
  PROVE  i \div Whole \in Structs /\ i % Whole \in 0..Whole - 1 /\ i = (i \div Whole) * Whole + (i % Whole)
<1>1. Whole \in Nat \ {0} /\ Count \in Nat \ {0}
  BY WordsHold, PackedAssumption DEF Whole
<1>2. Count * Whole \in Nat
  BY <1>1
<1>3. i \in Nat /\ i < Count * Whole
  BY <1>2 DEF WordIndices, Whole
<1> DEFINE q == i \div Whole
           r == i % Whole
<1>4. q \in Nat /\ r \in 0..Whole - 1 /\ i = q * Whole + r
  BY <1>1, <1>3, Division
<1> HIDE DEF q, r
<1>5. q < Count
  <2> SUFFICES ASSUME q >= Count PROVE FALSE
    BY <1>1, <1>4
  <2>1. q * Whole >= Count * Whole
    <3>1. CASE q = Count
      BY <3>1, <1>1
    <3>2. CASE Count < q
      BY <3>2, <1>1, <1>4, Multiples
    <3> QED
      BY <3>1, <3>2, <1>1, <1>4
  <2> QED
    BY <1>1, <1>2, <1>3, <1>4, <2>1
<1> QED
  BY <1>1, <1>4, <1>5 DEF q, r, Structs

(***************************************************************************)
(* The bits of a struct, by their places in it.                            *)
(***************************************************************************)
HasBit(words, e, x) == x % WordBits \in words[e * Whole + (x \div WordBits)]
AreWords(words) == words \in [WordIndices -> SUBSET (0..WordBits - 1)]

\* A bit has a place in a word, and the other way around.
LEMMA BitPlace ==
  ASSUME NEW x \in 0..Whole * WordBits - 1
  PROVE  /\ x \in Nat
         /\ x \div WordBits \in 0..Whole - 1 /\ x % WordBits \in 0..WordBits - 1
         /\ x = (x \div WordBits) * WordBits + (x % WordBits)
<1>1. Whole \in Nat \ {0} /\ WordBits \in Nat \ {0}
  BY WordsHold, PackedAssumption DEF Whole
<1>2. Whole * WordBits \in Nat
  BY <1>1
<1>3. x \in Nat /\ x < Whole * WordBits
  BY <1>2
<1> DEFINE q == x \div WordBits
           r == x % WordBits
<1>4. q \in Nat /\ r \in 0..WordBits - 1 /\ x = q * WordBits + r
  BY <1>1, <1>3, Division
<1> HIDE DEF q, r
<1>5. q < Whole
  <2> SUFFICES ASSUME q >= Whole PROVE FALSE
    BY <1>1, <1>4
  <2>1. q * WordBits >= Whole * WordBits
    <3>1. CASE q = Whole
      BY <3>1, <1>1
    <3>2. CASE Whole < q
      BY <3>2, <1>1, <1>4, Multiples
    <3> QED
      BY <3>1, <3>2, <1>1, <1>4
  <2> QED
    BY <1>1, <1>2, <1>3, <1>4, <2>1
<1> QED
  BY <1>1, <1>3, <1>4, <1>5 DEF q, r

LEMMA PlaceOfBit ==
  ASSUME NEW w \in 0..Whole - 1, NEW i \in 0..WordBits - 1
  PROVE  /\ w * WordBits + i \in 0..Whole * WordBits - 1
         /\ (w * WordBits + i) \div WordBits = w /\ (w * WordBits + i) % WordBits = i
<1>1. Whole \in Nat \ {0} /\ WordBits \in Nat \ {0}
  BY WordsHold, PackedAssumption DEF Whole
<1>2. w \in Nat /\ w < Whole
  BY <1>1
<1>3. w * WordBits + WordBits <= Whole * WordBits /\ w * WordBits \in Nat /\ Whole * WordBits \in Nat
  BY <1>1, <1>2, Multiples
<1>4. w * WordBits + i \in 0..Whole * WordBits - 1
  BY <1>1, <1>3
<1> QED
  BY <1>1, <1>2, <1>4, Quotient

\* The bits of Width are among them.
LEMMA BitsFit == Width <= Whole * WordBits /\ Whole * WordBits \in Nat
BY WordsHold, PackedAssumption DEF Whole

\* The vector of a struct has its bits.
LEMMA VectorBits ==
  ASSUME NEW words, AreWords(words), NEW e \in Structs, NEW x
  PROVE  x \in Vector(words, e) <=> x \in 0..Whole * WordBits - 1 /\ HasBit(words, e, x)
<1>0. Whole \in Nat \ {0} /\ WordBits \in Nat \ {0}
  BY WordsHold, PackedAssumption DEF Whole
<1>1. ASSUME x \in Vector(words, e)
      PROVE  x \in 0..Whole * WordBits - 1 /\ HasBit(words, e, x)
  <2>1. PICK w \in 0..Whole - 1 : x \in ShiftedUp(words[e * Whole + w], w * WordBits)
    BY <1>1 DEF Vector, Whole
  <2>2. PICK i \in words[e * Whole + w] : x = i + w * WordBits
    BY <2>1 DEF ShiftedUp
  <2>3. i \in 0..WordBits - 1
    BY <2>2, WordPlace DEF AreWords
  <2>4. w * WordBits \in Int
    BY <1>0
  <2>5. x = w * WordBits + i
    BY <1>0, <2>2, <2>3, <2>4
  <2> QED
    BY <2>2, <2>3, <2>5, PlaceOfBit DEF HasBit
<1>2. ASSUME x \in 0..Whole * WordBits - 1, HasBit(words, e, x)
      PROVE  x \in Vector(words, e)
  <2> DEFINE w == x \div WordBits
             i == x % WordBits
  <2>1. w \in 0..Whole - 1 /\ i \in 0..WordBits - 1 /\ x = w * WordBits + i
    BY <1>2, BitPlace
  <2>2. i \in words[e * Whole + w]
    BY <1>2 DEF HasBit
  <2> HIDE DEF w, i
  <2>3. w * WordBits \in Int
    BY <1>0, <2>1
  <2>4. x = i + w * WordBits
    BY <1>0, <2>1, <2>3
  <2>5. x \in ShiftedUp(words[e * Whole + w], w * WordBits)
    BY <2>2, <2>4 DEF ShiftedUp
  <2> QED
    BY <2>1, <2>5 DEF Vector, Whole
<1> QED
  BY <1>1, <1>2

(***************************************************************************)
(* The loops of vl_get_bits and vl_set_bits.                               *)
(***************************************************************************)
\* A part of a struct.
IsPart(lsb, width) == lsb \in Nat /\ width \in Nat \ {0} /\ lsb + width <= Width

\* The k-th word that a part touches has the bits of the part that the loop takes from it.
LEMMA PartPlace ==
  ASSUME NEW lsb, NEW width, IsPart(lsb, width), NEW x \in 0..Whole * WordBits - 1,
         NEW k, k = (x \div WordBits) - (lsb \div WordBits), NEW j, j = x % WordBits
  PROVE  /\ k \in Int /\ j \in 0..WordBits - 1
         /\ Shift(lsb, k) \in Int /\ Done(lsb, k) \in Int /\ Taken(lsb, width, k) \in Int
         /\ LastTouched(lsb, width) \in Nat
         /\ k \in 0..LastTouched(lsb, width) => j - Shift(lsb, k) + Done(lsb, k) = x - lsb
         /\ x \in lsb..lsb + width - 1 <=>
               /\ k \in 0..LastTouched(lsb, width)
               /\ j \in Shift(lsb, k)..Shift(lsb, k) + Taken(lsb, width, k) - 1
<1> DEFINE W == WordBits
           q == lsb \div W
           r == lsb % W
           a == x \div W
           n == r + width - 1
           L == n \div W
<1>1. W \in Nat \ {0} /\ lsb \in Nat /\ width \in Nat \ {0}
  BY PackedAssumption DEF IsPart
<1>2. q \in Nat /\ r \in 0..W - 1 /\ lsb = q * W + r
  BY <1>1, Division
<1>3. x \in Nat /\ a \in Nat /\ j \in 0..W - 1 /\ x = a * W + j
  BY BitPlace
<1>4. n \in Nat
  BY <1>1, <1>2
<1>5. L \in Nat /\ n % W \in 0..W - 1 /\ n = L * W + (n % W)
  BY <1>1, <1>4, Division
<1>6. /\ Shift(lsb, k) = IF k = 0 THEN r ELSE 0
      /\ Done(lsb, k) = IF k = 0 THEN 0 ELSE k * W - r
      /\ LastTouched(lsb, width) = L
  BY DEF Shift, Done, LastTouched
<1>7. k = a - q
  OBVIOUS
<1>8. Taken(lsb, width, k) = IF W - Shift(lsb, k) < width - Done(lsb, k) THEN W - Shift(lsb, k)
                             ELSE width - Done(lsb, k)
  BY DEF Taken
<1> DEFINE m == n % W
<1>9. m \in 0..W - 1 /\ n = L * W + m
  BY <1>5
<1> DEFINE s == Shift(lsb, k)
           d == Done(lsb, k)
           t == Taken(lsb, width, k)
           last == LastTouched(lsb, width)
<1>10. last = L /\ s = (IF k = 0 THEN r ELSE 0) /\ t = IF W - s < width - d THEN W - s ELSE width - d
  BY <1>6, <1>8
<1> DEFINE kW == k * W
           aW == a * W
           qW == q * W
           LW == L * W
<1>11. kW \in Int /\ aW \in Int /\ qW \in Int /\ LW \in Int
  BY <1>1, <1>2, <1>3, <1>5
<1>12. k \in Int /\ kW = aW - qW
  <2> HIDE DEF q, a
  <2> QED
    BY <1>1, <1>2, <1>3, <1>7
<1>13. /\ lsb = qW + r /\ x = aW + j /\ n = LW + m /\ n = r + width - 1
       /\ d = IF k = 0 THEN 0 ELSE kW - r
  BY <1>2, <1>3, <1>6, <1>9
<1>14. /\ k = 0 => kW = 0
       /\ k < 0 => kW + W <= 0
       /\ k > 0 => W <= kW
       /\ L < k => LW + W <= kW
  <2>1. k = 0 => kW = 0
    BY <1>1
  <2>2. 0 * W = 0
    BY <1>1
  <2>3. k < 0 => kW + W <= 0
    BY <1>1, <1>12, <2>2, Multiples
  <2>4. k > 0 => 0 + W <= kW
    BY <1>1, <1>12, <2>2, Multiples
  <2>5. L < k => LW + W <= kW
    BY <1>1, <1>5, <1>12, Multiples
  <2> QED
    BY <1>1, <2>1, <2>3, <2>4, <2>5
<1> HIDE DEF q, r, a, L, m, s, d, t, last, n, kW, aW, qW, LW
<1>15. x - lsb = kW + j - r
  BY <1>2, <1>3, <1>11, <1>12, <1>13
<1>16. s \in Int /\ d \in Int /\ t \in Int
  BY <1>1, <1>2, <1>10, <1>11, <1>13
<1>17. k >= 0 => j - s + d = x - lsb
  <2>1. CASE k = 0
    <3>1. s = r /\ d = 0 /\ kW = 0
      BY <2>1, <1>10, <1>13, <1>14
    <3> QED
      BY <3>1, <1>2, <1>3, <1>15
  <2>2. CASE k # 0
    <3>1. s = 0 /\ d = kW - r
      BY <2>2, <1>10, <1>13
    <3> QED
      BY <3>1, <1>2, <1>3, <1>11, <1>15
  <2> QED
    BY <2>1, <2>2
<1>18. x >= lsb <=> k >= 0 /\ j >= s
  <2>1. CASE k < 0
    BY <2>1, <1>1, <1>2, <1>3, <1>11, <1>14, <1>15
  <2>2. CASE k = 0
    BY <2>2, <1>1, <1>2, <1>3, <1>10, <1>14, <1>15
  <2>3. CASE k > 0
    <3>1. s = 0 /\ W <= kW
      BY <2>3, <1>10, <1>12, <1>14
    <3> QED
      BY <2>3, <3>1, <1>1, <1>2, <1>3, <1>11, <1>12, <1>15
  <2> QED
    BY <2>1, <2>2, <2>3, <1>12
<1>19. x < lsb + width => k <= L
  <2> SUFFICES ASSUME x < lsb + width, L < k PROVE FALSE
    BY <1>5, <1>12
  <2> QED
    BY <1>1, <1>2, <1>3, <1>9, <1>11, <1>13, <1>14, <1>15
<1>20. k >= 0 => (x < lsb + width <=> j < s + t)
  <2>1. k >= 0 => (x < lsb + width <=> j < s + width - d)
    BY <1>1, <1>3, <1>16, <1>17
  <2>2. j < s + t <=> j < s + width - d
    BY <1>1, <1>3, <1>10, <1>16
  <2> QED
    BY <2>1, <2>2
<1>21. x \in lsb..lsb + width - 1 <=> k \in 0..last /\ j \in s..s + t - 1
  <2>1. x \in lsb..lsb + width - 1 <=> x >= lsb /\ x < lsb + width
    BY <1>1, <1>3
  <2>2. k \in 0..last <=> k >= 0 /\ k <= L
    BY <1>5, <1>10, <1>12
  <2>3. j \in s..s + t - 1 <=> j >= s /\ j < s + t
    BY <1>1, <1>3, <1>16
  <2> QED
    BY <2>1, <2>2, <2>3, <1>18, <1>19, <1>20
<1>22. k \in 0..last => j - s + d = x - lsb
  BY <1>5, <1>10, <1>12, <1>17
<1> QED
  BY <1>3, <1>5, <1>10, <1>12, <1>16, <1>21, <1>22 DEF s, d, t, last

\* The words that a part touches are words of the struct.
LEMMA PartWords ==
  ASSUME NEW lsb, NEW width, IsPart(lsb, width), NEW k \in 0..LastTouched(lsb, width)
  PROVE  (lsb \div WordBits) + k \in 0..Whole - 1
<1> DEFINE W == WordBits
           q == lsb \div W
           r == lsb % W
           n == r + width - 1
           L == n \div W
<1>1. W \in Nat \ {0} /\ lsb \in Nat /\ width \in Nat \ {0} /\ lsb + width <= Width /\ Width \in Nat
  BY PackedAssumption DEF IsPart
<1>2. q \in Nat /\ r \in 0..W - 1 /\ lsb = q * W + r
  BY <1>1, Division
<1>3. n \in Nat
  BY <1>1, <1>2
<1>4. L \in Nat /\ n % W \in 0..W - 1 /\ n = L * W + (n % W)
  BY <1>1, <1>3, Division
<1>5. k \in 0..L
  BY DEF LastTouched
<1>6. n = r + width - 1
  OBVIOUS
<1> DEFINE m == n % W
<1>7. m \in 0..W - 1 /\ n = L * W + m
  BY <1>4
<1> HIDE DEF q, r, L, n, m
<1>8. Whole \in Nat \ {0} /\ Width <= Whole * W /\ Whole * W \in Int
  BY WordsHold, BitsFit, PackedAssumption DEF Whole
<1>9. (q + L) * W = q * W + L * W /\ q * W \in Int /\ L * W \in Int
  BY <1>1, <1>2, <1>4
<1>10. q + L < Whole
  <2> SUFFICES ASSUME q + L >= Whole PROVE FALSE
    BY <1>2, <1>4, <1>8
  <2>1. (q + L) * W >= Whole * W
    <3>1. CASE q + L = Whole
      BY <3>1, <1>8
    <3>2. CASE Whole < q + L
      BY <3>2, <1>1, <1>2, <1>4, <1>8, Multiples
    <3> QED
      BY <3>1, <3>2, <1>2, <1>4, <1>8
  <2> QED
    BY <2>1, <1>1, <1>2, <1>6, <1>7, <1>8, <1>9
<1> QED
  BY <1>2, <1>4, <1>5, <1>8, <1>10 DEF q

(* vl_get_bits reads the bits of the part. *)
LEMMA GetBitsReads ==
  ASSUME NEW words, AreWords(words), NEW e \in Structs, NEW lsb, NEW width, IsPart(lsb, width), NEW b
  PROVE  b \in GetBits(words, e * Whole, lsb, width) <=> b \in 0..width - 1 /\ HasBit(words, e, lsb + b)
<1> DEFINE q == lsb \div WordBits
           Read(k) == ShiftedUp(ShiftedDown(words[e * Whole + q + k], Shift(lsb, k)), Done(lsb, k))
<1>0. /\ WordBits \in Nat \ {0} /\ lsb \in Nat /\ width \in Nat \ {0} /\ lsb + width <= Width /\ Width \in Nat
      /\ q \in Nat
  BY PackedAssumption, Division DEF IsPart
<1>1. b \in GetBits(words, e * Whole, lsb, width) <=>
         b \in 0..width - 1 /\ \E k \in 0..LastTouched(lsb, width) : b \in Read(k)
  BY DEF GetBits, Truncated
<1>2. ASSUME NEW k \in 0..LastTouched(lsb, width), b \in 0..width - 1, b \in Read(k)
      PROVE  HasBit(words, e, lsb + b)
  <2>1. q + k \in 0..Whole - 1
    BY PartWords
  <2>2. e * Whole + (q + k) \in WordIndices /\ e * Whole \in Int /\ k \in Int
    <3>1. Whole \in Nat /\ e \in Nat
      BY WordsHold, PackedAssumption DEF Whole, Structs
    <3>2. k \in Int
      OBVIOUS
    <3> QED
      BY <2>1, <3>1, <3>2, WordPlace
  <2>3. e * Whole + q + k = e * Whole + (q + k)
    <3> DEFINE base == e * Whole
    <3>1. base \in Int /\ q \in Int /\ k \in Int
      BY <1>0, <2>2
    <3> HIDE DEF base, q
    <3>2. base + q + k = base + (q + k)
      BY <3>1
    <3> QED
      BY <3>2 DEF base
  <2>4. PICK j \in words[e * Whole + (q + k)] : b = j - Shift(lsb, k) + Done(lsb, k) /\ j >= Shift(lsb, k)
    BY <1>2, <2>3 DEF ShiftedUp, ShiftedDown
  <2>5. j \in 0..WordBits - 1
    BY <2>2, <2>4 DEF AreWords
  <2> DEFINE x == (q + k) * WordBits + j
  <2>6. x \in 0..Whole * WordBits - 1 /\ x \div WordBits = q + k /\ x % WordBits = j
    BY <2>1, <2>5, PlaceOfBit
  <2> HIDE DEF x
  <2>7. k = (x \div WordBits) - (lsb \div WordBits)
    BY <1>0, <2>2, <2>6
  <2>8. j - Shift(lsb, k) + Done(lsb, k) = x - lsb
    BY <2>6, <2>7, PartPlace
  <2>9. lsb + b = x
    <3>1. x \in Nat
      BY <2>6, BitPlace
    <3> QED
      BY <1>0, <2>4, <2>8, <3>1
  <2> QED
    BY <2>4, <2>6, <2>9 DEF HasBit
<1>3. ASSUME b \in 0..width - 1, HasBit(words, e, lsb + b)
      PROVE  \E k \in 0..LastTouched(lsb, width) : b \in Read(k)
  <2> DEFINE x == lsb + b
             j == x % WordBits
             w == x \div WordBits
             k == w - q
  <2>1. x \in 0..Whole * WordBits - 1 /\ x \in lsb..lsb + width - 1
    BY <1>0, <1>3, BitsFit
  <2>2. j \in words[e * Whole + w]
    BY <1>3 DEF HasBit
  <2>3. w \in 0..Whole - 1
    BY <2>1, BitPlace
  <2>4. /\ k \in 0..LastTouched(lsb, width) /\ j - Shift(lsb, k) + Done(lsb, k) = x - lsb
        /\ j \in Shift(lsb, k)..Shift(lsb, k) + Taken(lsb, width, k) - 1
        /\ Shift(lsb, k) \in Int /\ Taken(lsb, width, k) \in Int /\ Done(lsb, k) \in Int
        /\ j \in Int
    BY <2>1, PartPlace
  <2>5. k = w - q /\ x = lsb + b
    OBVIOUS
  <2> HIDE DEF k, w, j, x
  <2>6. j >= Shift(lsb, k) /\ b = j - Shift(lsb, k) + Done(lsb, k)
    BY <1>0, <1>3, <2>1, <2>4, <2>5
  <2>7. e * Whole + q + k = e * Whole + w
    <3>1. e * Whole \in Int
      BY WordsHold, PackedAssumption DEF Whole, Structs
    <3>2. w \in Int /\ q \in Int
      BY <1>0, <2>3
    <3> QED
      BY <2>5, <3>1, <3>2
  <2>8. j \in words[e * Whole + q + k]
    BY <2>2, <2>7
  <2>9. b \in Read(k)
    BY <2>6, <2>8 DEF ShiftedUp, ShiftedDown
  <2> QED
    BY <2>4, <2>9
<1> QED
  BY <1>1, <1>2, <1>3

(* vl_set_bits writes the bits of the part, and no others. *)
LEMMA SetBitsWrites ==
  ASSUME NEW words, AreWords(words), NEW e \in Structs, NEW lsb, NEW width, IsPart(lsb, width),
         NEW bits \in SUBSET (0..width - 1)
  PROVE  /\ AreWords(SetBits(words, e * Whole, lsb, width, bits))
         /\ \A d \in Structs, x \in 0..Whole * WordBits - 1 :
               HasBit(SetBits(words, e * Whole, lsb, width, bits), d, x) <=>
                  IF d = e /\ x \in lsb..lsb + width - 1 THEN x - lsb \in bits ELSE HasBit(words, d, x)
<1> DEFINE q == lsb \div WordBits
           new == SetBits(words, e * Whole, lsb, width, bits)
           Touches(k) == k \in 0..LastTouched(lsb, width)
           Written(w, k) == Replaced(words[w], Shift(lsb, k), Taken(lsb, width, k), ShiftedDown(bits, Done(lsb, k)))
<1>0. /\ WordBits \in Nat \ {0} /\ lsb \in Nat /\ width \in Nat \ {0} /\ lsb + width <= Width /\ Width \in Nat
      /\ q \in Nat /\ Whole \in Nat \ {0} /\ DOMAIN words = WordIndices
  BY PackedAssumption, Division, WordsHold DEF IsPart, AreWords, Whole
<1> DEFINE Off(u) == u - e * Whole - q
<1>1. new = [u \in WordIndices |-> IF Touches(Off(u)) THEN Written(u, Off(u)) ELSE words[u]]
  BY <1>0 DEF SetBits
<1> HIDE DEF new
<1>2. ASSUME NEW d \in Structs, NEW w \in 0..Whole - 1
      PROVE  /\ Touches(Off(d * Whole + w)) => d = e
             /\ d = e => Off(d * Whole + w) = w - q
  <2> DEFINE base == e * Whole
             dW == d * Whole
             k == (dW + w) - base - q
  <2>1. base \in Int /\ dW \in Int /\ w \in Int
    BY <1>0 DEF Structs
  <2>2. d = e => k = w - q
    <3>1. d = e => dW = base
      OBVIOUS
    <3> HIDE DEF q, base, dW
    <3> QED
      BY <1>0, <2>1, <3>1
  <2>3. ASSUME Touches(k)
        PROVE  d = e
    <3>1. q + k \in 0..Whole - 1
      BY <2>3, PartWords
    <3>2. base + (q + k) = dW + w
      <4> HIDE DEF q, base, dW
      <4> QED
        BY <1>0, <2>1
    <3>3. (base + (q + k)) \div Whole = e
      <4> HIDE DEF k
      <4> QED
        BY <3>1, WordPlace
    <3>4. (dW + w) \div Whole = d
      BY WordPlace
    <3> QED
      BY <3>2, <3>3, <3>4
  <2>4. Off(d * Whole + w) = k
    OBVIOUS
  <2> HIDE DEF k, Off, Touches
  <2> QED
    BY <2>2, <2>3, <2>4
<1>3. ASSUME NEW k, Touches(k), NEW w \in 0..Whole - 1, k = w - q
      PROVE  /\ Written(e * Whole + w, k) \subseteq 0..WordBits - 1
             /\ \A i \in 0..WordBits - 1 : \A x : x = w * WordBits + i =>
                   (i \in Written(e * Whole + w, k) <=>
                       IF x \in lsb..lsb + width - 1 THEN x - lsb \in bits ELSE i \in words[e * Whole + w])
  <2> DEFINE s == Shift(lsb, k)
             d == Done(lsb, k)
             t == Taken(lsb, width, k)
             old == words[e * Whole + w]
  <2>1. old \subseteq 0..WordBits - 1
    BY WordPlace DEF AreWords
  <2>2. \A j \in 0..WordBits - 1 : \A x : x = w * WordBits + j =>
           /\ s \in Int /\ d \in Int /\ t \in Int /\ j - s + d = x - lsb
           /\ x \in lsb..lsb + width - 1 <=> j \in s..s + t - 1
    <3> TAKE j \in 0..WordBits - 1
    <3> TAKE x
    <3> HAVE x = w * WordBits + j
    <3>1. x \in 0..Whole * WordBits - 1 /\ x \div WordBits = w /\ x % WordBits = j
      BY PlaceOfBit
    <3>2. k = (x \div WordBits) - (lsb \div WordBits)
      BY <1>3, <3>1
    <3> QED
      BY <1>3, <3>1, <3>2, PartPlace
  <2>3. s >= 0 /\ s + t <= WordBits
    <3>1. s \in Int /\ d \in Int /\ t \in Int
      <4>1. 0 \in 0..WordBits - 1
        BY <1>0
      <4> QED
        BY <2>2, <4>1
    <3>2. lsb % WordBits >= 0
      BY <1>0, Division
    <3>3. s >= 0
      BY <3>2 DEF Shift
    <3>4. t = IF WordBits - s < width - d THEN WordBits - s ELSE width - d
      BY DEF Taken
    <3> HIDE DEF s, d, t
    <3> QED
      BY <1>0, <3>1, <3>3, <3>4
  <2>4. s \in Int /\ d \in Int /\ t \in Int
    <3>1. 0 \in 0..WordBits - 1
      BY <1>0
    <3> QED
      BY <2>2, <3>1
  <2>5. Written(e * Whole + w, k) =
           (old \ (s..s + t - 1)) \cup ShiftedUp(Truncated(ShiftedDown(bits, d), t), s)
    BY DEF Replaced
  <2> HIDE DEF s, d, t, old
  <2>6. \A j : j \in ShiftedUp(Truncated(ShiftedDown(bits, d), t), s) <=>
                  j \in s..s + t - 1 /\ j - s + d \in bits /\ j - s >= 0
    <3> TAKE j
    <3>1. ASSUME j \in ShiftedUp(Truncated(ShiftedDown(bits, d), t), s)
          PROVE  j \in s..s + t - 1 /\ j - s + d \in bits /\ j - s >= 0
      <4>1. PICK y \in bits : y >= d /\ y - d \in 0..t - 1 /\ j = (y - d) + s
        BY <3>1 DEF ShiftedUp, ShiftedDown, Truncated
      <4>2. y \in Int
        OBVIOUS
      <4>3. j - s + d = y /\ j \in s..s + t - 1 /\ j - s >= 0
        BY <2>4, <4>1, <4>2
      <4> QED
        BY <4>1, <4>3
    <3>2. ASSUME j \in s..s + t - 1, j - s + d \in bits, j - s >= 0
          PROVE  j \in ShiftedUp(Truncated(ShiftedDown(bits, d), t), s)
      <4> DEFINE y == j - s + d
      <4>1. y \in bits /\ y >= d /\ y - d \in 0..t - 1 /\ j = (y - d) + s
        BY <2>4, <3>2
      <4> HIDE DEF y
      <4> QED
        BY <4>1 DEF ShiftedUp, ShiftedDown, Truncated
    <3> QED
      BY <3>1, <3>2
  <2>7. Written(e * Whole + w, k) \subseteq 0..WordBits - 1
    <3>1. s..s + t - 1 \subseteq 0..WordBits - 1
      BY <1>0, <2>3, <2>4
    <3> QED
      BY <2>1, <2>5, <2>6, <3>1
  <2>8. ASSUME NEW i \in 0..WordBits - 1, NEW x, x = w * WordBits + i
        PROVE  i \in Written(e * Whole + w, k) <=>
                  IF x \in lsb..lsb + width - 1 THEN x - lsb \in bits ELSE i \in old
    <3>1. /\ x \in lsb..lsb + width - 1 <=> i \in s..s + t - 1
          /\ i - s + d = x - lsb
      BY <2>2, <2>8
    <3>2. i \in s..s + t - 1 => i - s >= 0
      BY <2>4
    <3>3. i \in Written(e * Whole + w, k) <=>
             \/ i \in old /\ i \notin s..s + t - 1
             \/ i \in s..s + t - 1 /\ i - s + d \in bits /\ i - s >= 0
      BY <2>5, <2>6
    <3> QED
      BY <3>1, <3>2, <3>3
  <2> QED
    BY <2>7, <2>8 DEF old
<1> HIDE DEF Touches, Written, At
<1>4. AreWords(new)
  <2> SUFFICES ASSUME NEW u \in WordIndices
               PROVE  new[u] \in SUBSET (0..WordBits - 1)
    BY <1>1 DEF AreWords
  <2>1. PICK d \in Structs, w \in 0..Whole - 1 : u = d * Whole + w
    BY PlaceOfWord
  <2>2. CASE Touches(Off(u))
    <3>1. d = e /\ Off(u) = w - q
      BY <1>2, <2>1, <2>2
    <3>2. Written(u, Off(u)) \subseteq 0..WordBits - 1
      BY <1>3, <2>1, <2>2, <3>1
    <3> QED
      BY <1>1, <2>2, <3>2
  <2>3. CASE ~Touches(Off(u))
    BY <1>1, <2>3 DEF AreWords
  <2> QED
    BY <2>2, <2>3
<1>5. ASSUME NEW d \in Structs, NEW x \in 0..Whole * WordBits - 1
      PROVE  HasBit(new, d, x) <=>
                IF d = e /\ x \in lsb..lsb + width - 1 THEN x - lsb \in bits ELSE HasBit(words, d, x)
  <2> DEFINE w == x \div WordBits
             i == x % WordBits
             u == d * Whole + w
  <2>1. w \in 0..Whole - 1 /\ i \in 0..WordBits - 1 /\ x = w * WordBits + i
    BY BitPlace
  <2>2. u \in WordIndices
    BY <2>1, WordPlace
  <2>3. HasBit(new, d, x) <=> i \in new[u]
    BY DEF HasBit
  <2>4. HasBit(words, d, x) <=> i \in words[u]
    BY DEF HasBit
  <2>5. x \in lsb..lsb + width - 1 => Touches(w - q)
    BY PartPlace DEF Touches
  <2>6. Touches(Off(u)) => d = e
    BY <1>2, <2>1
  <2>7. d = e => Off(u) = w - q /\ u = e * Whole + w
    BY <1>2, <2>1
  <2> HIDE DEF w, i, u
  <2>8. CASE Touches(Off(u))
    <3>1. i \in Written(u, Off(u)) <=> IF x \in lsb..lsb + width - 1 THEN x - lsb \in bits ELSE i \in words[u]
      BY <1>3, <2>1, <2>6, <2>7, <2>8
    <3>2. new[u] = Written(u, Off(u))
      BY <1>1, <2>2, <2>8
    <3> QED
      BY <2>3, <2>4, <2>6, <2>8, <3>1, <3>2
  <2>9. CASE ~Touches(Off(u))
    <3>1. ~(d = e /\ x \in lsb..lsb + width - 1)
      BY <2>5, <2>7, <2>9
    <3>2. new[u] = words[u]
      BY <1>1, <2>2, <2>9
    <3> QED
      BY <2>3, <2>4, <3>1, <3>2
  <2> QED
    BY <2>8, <2>9
<1> QED
  BY <1>4, <1>5 DEF new

(***************************************************************************)
(* Ports.                                                                  *)
(***************************************************************************)
LEMMA Widths ==
  /\ WordBits \in Nat \ {0} /\ Width \in Nat \ {0} /\ Whole \in Nat \ {0}
  /\ Whole * WordBits \in Nat /\ Width <= Whole * WordBits
  /\ \A f \in Fields : /\ Lsb[f] \in Nat /\ Bits[f] \in Nat \ {0} /\ TypeBits[f] \in Nat
                       /\ Lsb[f] + Bits[f] <= Width
BY PackedAssumption, WordsHold, BitsFit DEF Whole

LEMMA PortFieldsOf ==
  ASSUME NEW dir, NEW p \in Ports(dir)
  PROVE  /\ p.struct \in Structs /\ p.field \in Fields /\ p.piece \in Pieces(p.field)
         /\ p = Port(p.struct, p.field, p.piece, dir)
         /\ FirstWord(p) = p.struct * Whole
BY DEF Ports, Port, FirstWord, Whole

LEMMA PortOfPiece ==
  ASSUME NEW dir, NEW e \in Structs, NEW f \in Fields, NEW i \in Pieces(f)
  PROVE  Port(e, f, i, dir) \in Ports(dir)
BY DEF Ports, Port

\* The bits that piece i of field f has, counted from the start of the field.
Start0(i) == i * WordBits
LengthOf(f, i) ==
    IF ~IsWide(f) THEN Bits[f] ELSE IF i = WordsOf(Bits[f]) - 1 THEN TopBits(f) ELSE WordBits

LEMMA PieceBits ==
  ASSUME NEW f \in Fields, NEW i \in Pieces(f)
  PROVE  /\ i \in Nat /\ Start0(i) \in Nat /\ LengthOf(f, i) \in Nat \ {0}
         /\ Start0(i) + LengthOf(f, i) <= Bits[f]
         /\ IsWide(f) => LengthOf(f, i) <= WordBits
         /\ ~IsWide(f) => i = 0 /\ Start0(i) = 0 /\ LengthOf(f, i) = Bits[f]
<1> DEFINE N == WordsOf(Bits[f])
<1>1. /\ WordBits \in Nat \ {0} /\ Bits[f] \in Nat \ {0} /\ N \in Nat \ {0}
      /\ Bits[f] <= N * WordBits /\ (N - 1) * WordBits < Bits[f]
  BY Widths, WordsHold
<1>2. CASE ~IsWide(f)
  <2>1. i = 0 /\ Start0(i) = 0
    BY <1>1, <1>2 DEF Pieces, Start0
  <2> QED
    BY <1>1, <1>2, <2>1 DEF LengthOf
<1>3. CASE IsWide(f)
  <2>1. i \in 0..N - 1
    BY <1>3 DEF Pieces
  <2>2. LengthOf(f, i) = IF i = N - 1 THEN Bits[f] - (N - 1) * WordBits ELSE WordBits
    BY <1>3 DEF LengthOf, TopBits
  <2> HIDE DEF N
  <2>3. i * WordBits \in Nat /\ (N - 1) * WordBits \in Nat /\ N * WordBits = (N - 1) * WordBits + WordBits
    BY <1>1, <2>1
  <2>4. CASE i = N - 1
    <3>1. i * WordBits = (N - 1) * WordBits
      BY <2>4
    <3> DEFINE before == (N - 1) * WordBits
    <3>2. Start0(i) = before /\ LengthOf(f, i) = Bits[f] - before /\ before \in Nat /\ before < Bits[f]
          /\ Bits[f] <= before + WordBits
      BY <1>1, <2>2, <2>3, <2>4, <3>1 DEF Start0
    <3> HIDE DEF before
    <3> QED
      BY <1>1, <1>3, <2>1, <3>2
  <2>5. CASE i # N - 1
    <3>1. i < N - 1 /\ i \in Int /\ N - 1 \in Int
      BY <1>1, <2>1, <2>5
    <3>2. i * WordBits + WordBits <= (N - 1) * WordBits
      BY <1>1, <3>1, Multiples
    <3>3. LengthOf(f, i) = WordBits
      BY <2>2, <2>5
    <3>4. i * WordBits + WordBits <= Bits[f]
      BY <1>1, <2>3, <3>2
    <3> QED
      BY <1>1, <1>3, <2>1, <2>3, <3>3, <3>4 DEF Start0
  <2> QED
    BY <2>4, <2>5
<1> QED
  BY <1>2, <1>3

\* Every bit of a field is in one of its pieces.
LEMMA PieceOfBit ==
  ASSUME NEW f \in Fields, NEW b \in 0..Bits[f] - 1
  PROVE  \E i \in Pieces(f) : b - Start0(i) \in 0..LengthOf(f, i) - 1
<1>1. WordBits \in Nat \ {0} /\ Bits[f] \in Nat \ {0} /\ b \in Nat
  BY Widths
<1>2. CASE ~IsWide(f)
  <2>1. 0 \in Pieces(f)
    BY <1>2 DEF Pieces
  <2> QED
    BY <1>1, <1>2, <2>1, PieceBits
<1>3. CASE IsWide(f)
  <2> DEFINE N == WordsOf(Bits[f])
             i == b \div WordBits
             r == b % WordBits
  <2>1. i \in Nat /\ r \in 0..WordBits - 1 /\ b = i * WordBits + r
    BY <1>1, Division
  <2>2. /\ N \in Nat \ {0} /\ Bits[f] <= N * WordBits /\ (N - 1) * WordBits < Bits[f]
        /\ LengthOf(f, i) = IF i = N - 1 THEN Bits[f] - (N - 1) * WordBits ELSE WordBits
    BY <1>1, <1>3, WordsHold DEF LengthOf, TopBits
  <2>3. Pieces(f) = 0..N - 1
    BY <1>3 DEF Pieces
  <2> HIDE DEF N, i, r
  <2>4. i * WordBits \in Nat /\ N * WordBits \in Nat
    BY <1>1, <2>1, <2>2
  <2>5. i < N
    <3> SUFFICES ASSUME i >= N PROVE FALSE
      BY <2>1, <2>2
    <3>1. i * WordBits >= N * WordBits
      <4>1. CASE i = N
        BY <4>1, <2>4
      <4>2. CASE N < i
        BY <4>2, <1>1, <2>1, <2>2, <2>4, Multiples
      <4> QED
        BY <4>1, <4>2, <2>1, <2>2
    <3> QED
      BY <1>1, <2>1, <2>2, <2>4, <3>1
  <2>6. b - Start0(i) = r
    BY <1>1, <2>1, <2>4 DEF Start0
  <2>7. r \in 0..LengthOf(f, i) - 1
    <3>1. CASE i = N - 1
      <4> DEFINE before == (N - 1) * WordBits
      <4>1. b = before + r /\ LengthOf(f, i) = Bits[f] - before /\ before \in Int
        BY <1>1, <2>1, <2>2, <3>1
      <4> HIDE DEF before
      <4> QED
        BY <1>1, <2>1, <4>1
    <3>2. CASE i # N - 1
      BY <2>1, <2>2, <3>2
    <3> QED
      BY <3>1, <3>2
  <2>8. i \in Pieces(f)
    BY <2>1, <2>2, <2>3, <2>5
  <2> QED
    BY <2>6, <2>7, <2>8
<1> QED
  BY <1>2, <1>3

\* A port is a part of its field.
LEMMA PortPart ==
  ASSUME NEW dir, NEW p \in Ports(dir)
  PROVE  /\ IsPart(PortLsb(p), PortBits(p))
         /\ PortLsb(p) = Lsb[p.field] + Start0(p.piece) /\ PortBits(p) = LengthOf(p.field, p.piece)
         /\ PortLsb(p) \in Nat /\ PortBits(p) \in Nat \ {0}
<1>1. p.field \in Fields /\ p.piece \in Pieces(p.field)
  BY PortFieldsOf
<1>2. PortLsb(p) = Lsb[p.field] + Start0(p.piece) /\ PortBits(p) = LengthOf(p.field, p.piece)
  BY DEF PortLsb, PortBits, Start0, LengthOf
<1>3. /\ Start0(p.piece) \in Nat /\ LengthOf(p.field, p.piece) \in Nat \ {0}
      /\ Start0(p.piece) + LengthOf(p.field, p.piece) <= Bits[p.field]
  BY <1>1, PieceBits
<1> QED
  BY <1>1, <1>2, <1>3, Widths DEF IsPart

\* Different ports of a struct have different bits.
Span(p) == PortLsb(p)..PortLsb(p) + PortBits(p) - 1

LEMMA PortsApart ==
  ASSUME NEW dir, NEW p \in Ports(dir), NEW r \in Ports(dir), p # r, p.struct = r.struct
  PROVE  Span(p) \cap Span(r) = {}
<1>1. /\ p.field \in Fields /\ p.piece \in Pieces(p.field)
      /\ r.field \in Fields /\ r.piece \in Pieces(r.field)
      /\ ~(p.field = r.field /\ p.piece = r.piece)
  BY PortFieldsOf
<1> DEFINE s == Start0(p.piece)
           t == Start0(r.piece)
           m == LengthOf(p.field, p.piece)
           n == LengthOf(r.field, r.piece)
<1>2. /\ PortLsb(p) = Lsb[p.field] + s /\ PortBits(p) = m
      /\ PortLsb(r) = Lsb[r.field] + t /\ PortBits(r) = n
  BY PortPart
<1>3. s \in Nat /\ t \in Nat /\ m \in Nat /\ n \in Nat /\ s + m <= Bits[p.field] /\ t + n <= Bits[r.field]
  BY <1>1, PieceBits
<1>4. CASE p.field # r.field
  <2>1. \/ Lsb[p.field] + Bits[p.field] <= Lsb[r.field]
        \/ Lsb[r.field] + Bits[r.field] <= Lsb[p.field]
    BY <1>1, <1>4, PackedAssumption
  <2> HIDE DEF s, t, m, n
  <2> QED
    BY <1>1, <1>2, <1>3, <2>1, Widths DEF Span
<1>5. CASE p.field = r.field
  <2>1. p.piece # r.piece /\ p.piece \in Nat /\ r.piece \in Nat
    BY <1>1, <1>5, PieceBits
  <2>2. IsWide(p.field)
    BY <1>1, <1>5, <2>1, PieceBits
  <2>3. m <= WordBits /\ n <= WordBits
    BY <1>1, <1>5, <2>2, PieceBits
  <2>4. p.piece < r.piece => s + WordBits <= t
    BY <2>1, Widths, Multiples DEF Start0
  <2>5. r.piece < p.piece => t + WordBits <= s
    BY <2>1, Widths, Multiples DEF Start0
  <2> HIDE DEF s, t, m, n
  <2>6. s + m <= t \/ t + n <= s
    BY <1>3, <2>1, <2>3, <2>4, <2>5, Widths
  <2> QED
    BY <1>1, <1>2, <1>3, <1>5, <2>6, Widths DEF Span
<1> QED
  BY <1>4, <1>5

(***************************************************************************)
(* Fields.                                                                 *)
(***************************************************************************)
LEMMA FieldBits ==
  ASSUME NEW words, AreWords(words), NEW e \in Structs, NEW f \in Fields, NEW b
  PROVE  b \in FieldOf(words, e, f) <=> b \in 0..Bits[f] - 1 /\ HasBit(words, e, Lsb[f] + b)
<1>1. /\ Lsb[f] \in Nat /\ Bits[f] \in Nat \ {0} /\ Lsb[f] + Bits[f] <= Width
      /\ Whole * WordBits \in Nat /\ Width <= Whole * WordBits /\ Width \in Nat
  BY Widths
<1> DEFINE all == Whole * WordBits
<1>2. b \in FieldOf(words, e, f) <=>
         /\ b \in 0..Bits[f] - 1
         /\ \E x \in Vector(words, e) : x >= Lsb[f] /\ b = x - Lsb[f]
  BY DEF FieldOf, Truncated, ShiftedDown
<1>3. \A x : x \in Vector(words, e) <=> x \in 0..all - 1 /\ HasBit(words, e, x)
  BY VectorBits
<1>4. all \in Nat /\ Width <= all
  BY <1>1
<1> HIDE DEF all
<1>5. ASSUME b \in 0..Bits[f] - 1, NEW x \in Vector(words, e), x >= Lsb[f], b = x - Lsb[f]
      PROVE  HasBit(words, e, Lsb[f] + b)
  <2>1. x \in 0..all - 1 /\ HasBit(words, e, x)
    BY <1>3
  <2>2. Lsb[f] + b = x
    BY <1>1, <1>4, <1>5, <2>1
  <2> QED
    BY <2>1, <2>2
<1>6. ASSUME b \in 0..Bits[f] - 1, HasBit(words, e, Lsb[f] + b)
      PROVE  \E x \in Vector(words, e) : x >= Lsb[f] /\ b = x - Lsb[f]
  <2> DEFINE x == Lsb[f] + b
  <2>1. x \in 0..all - 1 /\ x >= Lsb[f] /\ b = x - Lsb[f]
    BY <1>1, <1>4, <1>6
  <2> QED
    BY <1>3, <1>6, <2>1
<1> QED
  BY <1>2, <1>5, <1>6

\* A bit of a field is a bit of the piece that has it.
LEMMA JoinedBits ==
  ASSUME NEW f \in Fields, NEW piece, NEW i \in Pieces(f), NEW b \in 0..Bits[f] - 1,
         b - Start0(i) \in 0..LengthOf(f, i) - 1
  PROVE  b \in Joined(f, piece) <=> b - Start0(i) \in piece[i]
<1>1. /\ WordBits \in Nat \ {0} /\ Bits[f] \in Nat /\ i \in Nat /\ Start0(i) \in Nat /\ LengthOf(f, i) \in Nat
      /\ b \in Nat
  BY Widths, PieceBits
<1>2. CASE ~IsWide(f)
  <2>1. i = 0 /\ Start0(i) = 0
    BY <1>2, PieceBits
  <2>2. b - Start0(i) = b
    BY <1>1, <2>1
  <2> QED
    BY <1>2, <2>1, <2>2 DEF Joined
<1>3. CASE IsWide(f)
  <2> DEFINE j == b - Start0(i)
  <2>1. j \in 0..WordBits - 1 /\ b = i * WordBits + j
    BY <1>1, <1>3, PieceBits DEF Start0
  <2>2. b \div WordBits = i /\ b % WordBits = j
    <3> HIDE DEF j
    <3>1. (i * WordBits + j) \div WordBits = i /\ (i * WordBits + j) % WordBits = j
      BY <1>1, <2>1, Quotient
    <3> QED
      BY <2>1, <3>1
  <2>3. b \in Joined(f, piece) <=>
           \E k \in Pieces(f) : \E y \in piece[k] : y \in 0..WordBits - 1 /\ b = y + k * WordBits
    BY <1>3 DEF Joined, ShiftedUp, Truncated
  <2>4. ASSUME NEW k \in Pieces(f), NEW y \in piece[k], y \in 0..WordBits - 1, b = y + k * WordBits
        PROVE  j \in piece[i]
    <3>1. k \in Nat
      BY PieceBits
    <3>2. y + k * WordBits = k * WordBits + y
      BY <1>1, <2>4, <3>1
    <3>3. (k * WordBits + y) \div WordBits = k /\ (k * WordBits + y) % WordBits = y
      BY <1>1, <2>4, <3>1, Quotient
    <3>4. b \div WordBits = k /\ b % WordBits = y
      BY <2>4, <3>2, <3>3
    <3> QED
      BY <2>2, <3>4
  <2>5. ASSUME j \in piece[i]
        PROVE  \E k \in Pieces(f) : \E y \in piece[k] : y \in 0..WordBits - 1 /\ b = y + k * WordBits
    <3>1. i * WordBits + j = j + i * WordBits
      BY <1>1, <2>1
    <3> HIDE DEF j
    <3> QED
      BY <2>1, <2>5, <3>1
  <2> QED
    BY <2>3, <2>4, <2>5
<1> QED
  BY <1>2, <1>3

\* The bits of a port are those of the field that it is a piece of.
LEMMA PortBitsRead ==
  ASSUME NEW words, AreWords(words), NEW dir, NEW p \in Ports(dir), NEW b
  PROVE  /\ b \in GetBits(words, FirstWord(p), PortLsb(p), PortBits(p)) <=>
               b \in 0..PortBits(p) - 1 /\ HasBit(words, p.struct, PortLsb(p) + b)
         /\ b \in 0..PortBits(p) - 1 =>
               /\ Start0(p.piece) + b \in 0..Bits[p.field] - 1
               /\ (Start0(p.piece) + b) - Start0(p.piece) = b
               /\ PortLsb(p) + b = Lsb[p.field] + (Start0(p.piece) + b)
<1>1. p.struct \in Structs /\ p.field \in Fields /\ p.piece \in Pieces(p.field) /\ FirstWord(p) = p.struct * Whole
  BY PortFieldsOf
<1>2. /\ IsPart(PortLsb(p), PortBits(p))
      /\ PortLsb(p) = Lsb[p.field] + Start0(p.piece) /\ PortBits(p) = LengthOf(p.field, p.piece)
  BY PortPart
<1>3. /\ Start0(p.piece) \in Nat /\ LengthOf(p.field, p.piece) \in Nat \ {0}
      /\ Start0(p.piece) + LengthOf(p.field, p.piece) <= Bits[p.field]
      /\ Lsb[p.field] \in Nat /\ Bits[p.field] \in Nat
  BY <1>1, PieceBits, Widths
<1>4. b \in GetBits(words, FirstWord(p), PortLsb(p), PortBits(p)) <=>
         b \in 0..PortBits(p) - 1 /\ HasBit(words, p.struct, PortLsb(p) + b)
  BY <1>1, <1>2, GetBitsReads
<1>5. b \in 0..PortBits(p) - 1 =>
         /\ Start0(p.piece) + b \in 0..Bits[p.field] - 1
         /\ (Start0(p.piece) + b) - Start0(p.piece) = b
         /\ PortLsb(p) + b = Lsb[p.field] + (Start0(p.piece) + b)
  BY <1>2, <1>3
<1> QED
  BY <1>4, <1>5

(***************************************************************************)
(* The invariant.                                                          *)
(***************************************************************************)
TypeOK ==
    /\ evaluating \in {"no", "in", "out"} /\ next \in Nat \ {0}
    /\ evaluating # "no" => phase = "run" /\ next <= Len(PortOrder[evaluating]) + 1
    /\ phase = "run" => /\ AreWords(input) /\ AreWords(output) /\ AreWords(seen)
                        /\ DOMAIN shown = Ports("out") /\ shown = [p \in Ports("out") |-> shown[p]]

\* No bits above the width.
CleanInv == phase = "run" => \A e \in Structs, x \in Width..Whole * WordBits - 1 : ~HasBit(input, e, x)

\* The loops have done what is before their port.
Copied(p) == \A b \in 0..PortBits(p) - 1 : HasBit(input, p.struct, PortLsb(p) + b) <=> b \in value[signal[p]]
Extracted(p) ==
    shown[p] = Extended(GetBits(output, FirstWord(p), PortLsb(p), PortBits(p)), PortBits(p), p.field)
LoopInv ==
    /\ evaluating = "in" => \A n \in 1..next - 1 : Copied(PortOrder["in"][n])
    /\ evaluating = "out" => \A n \in 1..next - 1 : Extracted(PortOrder["out"][n])

IInv == TypeOK /\ CleanInv /\ LoopInv

\* The order has all ports.
LEMMA Ordered ==
  ASSUME NEW dir \in {"in", "out"}
  PROVE  /\ Len(PortOrder[dir]) \in Nat
         /\ \A n \in 1..Len(PortOrder[dir]) : PortOrder[dir][n] \in Ports(dir)
         /\ \A p \in Ports(dir) : \E n \in 1..Len(PortOrder[dir]) : PortOrder[dir][n] = p
<1>1. PortOrder[dir] \in Seq(Ports(dir)) /\ \A p \in Ports(dir) : \E n \in DOMAIN PortOrder[dir] : PortOrder[dir][n] = p
  BY PackedAssumption
<1> QED
  BY <1>1

\* Words without bits.
LEMMA ClearedWords ==
  /\ AreWords(Cleared)
  /\ \A e \in Structs, x \in 0..Whole * WordBits - 1 : ~HasBit(Cleared, e, x)
  /\ \A e \in Structs, f \in Fields : FieldOf(Cleared, e, f) = {}
<1>1. AreWords(Cleared)
  BY DEF AreWords, Cleared
<1>2. ASSUME NEW e \in Structs, NEW x \in 0..Whole * WordBits - 1
      PROVE  ~HasBit(Cleared, e, x)
  <2>1. e * Whole + (x \div WordBits) \in WordIndices
    BY BitPlace, WordPlace
  <2> QED
    BY <2>1 DEF HasBit, Cleared
<1>3. ASSUME NEW e \in Structs, NEW f \in Fields, NEW b \in FieldOf(Cleared, e, f)
      PROVE  FALSE
  <2>1. b \in 0..Bits[f] - 1 /\ HasBit(Cleared, e, Lsb[f] + b)
    BY <1>1, FieldBits
  <2>2. Lsb[f] + b \in 0..Whole * WordBits - 1
    BY <2>1, Widths
  <2> QED
    BY <1>2, <2>1, <2>2
<1> QED
  BY <1>1, <1>2, <1>3

LEMMA InitInvariant == InterfaceInit => IInv
BY DEF InterfaceInit, Init, Rested, IInv, TypeOK, CleanInv, LoopInv

\* Binding does not start the design.
LEMMA NextKeepsPhase == Next => (phase' = "run" <=> phase = "run")
BY DEF Next, AddPort, AddOther, Use, CreateSignals, Start, ViewPorts, ViewOther, Bind

(* sync() of an input writes the bits of its port. *)
LEMMA SyncCopies ==
  ASSUME IInv, phase = "run", NEW p \in Ports("in"), input' = SyncInput(input, p), UNCHANGED <<value, signal>>
  PROVE  /\ AreWords(input') /\ Copied(p)'
         /\ \A r \in Ports("in") : Copied(r) => Copied(r)'
         /\ \A e \in Structs, x \in Width..Whole * WordBits - 1 : ~HasBit(input', e, x)
<1> DEFINE lsb == PortLsb(p)
           width == PortBits(p)
           bits == Truncated(value[signal[p]], width)
<1>1. p.struct \in Structs /\ FirstWord(p) = p.struct * Whole
  BY PortFieldsOf
<1>2. IsPart(lsb, width) /\ lsb \in Nat /\ width \in Nat \ {0} /\ lsb + width <= Width
  BY PortPart DEF IsPart
<1>3. AreWords(input) /\ bits \in SUBSET (0..width - 1)
  BY DEF IInv, TypeOK, Truncated
<1>4. input' = SetBits(input, p.struct * Whole, lsb, width, bits)
  BY <1>1 DEF SyncInput
<1>5. /\ AreWords(input')
      /\ \A d \in Structs, x \in 0..Whole * WordBits - 1 :
            HasBit(input', d, x) <=>
               IF d = p.struct /\ x \in lsb..lsb + width - 1 THEN x - lsb \in bits ELSE HasBit(input, d, x)
  <2> HIDE DEF bits, lsb, width
  <2> QED
    BY <1>1, <1>2, <1>3, <1>4, SetBitsWrites
<1>6. Copied(p)'
  <2> SUFFICES ASSUME NEW b \in 0..width - 1
               PROVE  HasBit(input', p.struct, lsb + b) <=> b \in value[signal[p]]
    BY DEF Copied
  <2>1. lsb + b \in 0..Whole * WordBits - 1 /\ lsb + b \in lsb..lsb + width - 1 /\ (lsb + b) - lsb = b
    BY <1>2, Widths
  <2>2. b \in bits <=> b \in value[signal[p]]
    BY DEF Truncated
  <2> QED
    BY <1>1, <1>5, <2>1, <2>2
<1>7. ASSUME NEW r \in Ports("in"), Copied(r)
      PROVE  Copied(r)'
  <2>1. CASE r = p
    BY <1>6, <2>1
  <2>2. CASE r # p
    <3> SUFFICES ASSUME NEW b \in 0..PortBits(r) - 1
                 PROVE  HasBit(input', r.struct, PortLsb(r) + b) <=> b \in value[signal[r]]
      BY DEF Copied
    <3> DEFINE x == PortLsb(r) + b
    <3>1. r.struct \in Structs /\ IsPart(PortLsb(r), PortBits(r)) /\ PortLsb(r) \in Nat /\ PortBits(r) \in Nat
      BY PortPart, PortFieldsOf
    <3>2. x \in 0..Whole * WordBits - 1 /\ x \in Span(r)
      BY <3>1, Widths DEF IsPart, Span
    <3>3. ~(r.struct = p.struct /\ x \in lsb..lsb + width - 1)
      BY <2>2, <3>2, PortsApart DEF Span
    <3>4. HasBit(input, r.struct, x) <=> b \in value[signal[r]]
      BY <1>7 DEF Copied
    <3> HIDE DEF x, lsb, width, bits
    <3>5. HasBit(input', r.struct, x) <=> HasBit(input, r.struct, x)
      BY <1>5, <3>1, <3>2, <3>3
    <3> QED
      BY <3>4, <3>5 DEF x
  <2> QED
    BY <2>1, <2>2
<1>8. ASSUME NEW e \in Structs, NEW x \in Width..Whole * WordBits - 1
      PROVE  ~HasBit(input', e, x)
  <2>1. x \in 0..Whole * WordBits - 1 /\ x \notin lsb..lsb + width - 1
    BY <1>2, Widths
  <2>2. ~HasBit(input, e, x)
    BY <1>8 DEF IInv, CleanInv
  <2> HIDE DEF lsb, width, bits
  <2> QED
    BY <1>5, <2>1, <2>2
<1> QED
  BY <1>5, <1>6, <1>7, <1>8

LEMMA StepInvariant == IInv /\ [InterfaceNext]_interfaceVars => IInv'
<1> SUFFICES ASSUME IInv, [InterfaceNext]_interfaceVars
             PROVE  IInv'
  OBVIOUS
<1>1. ASSUME phase' = "run" <=> phase = "run", UNCHANGED packedVars
      PROVE  IInv'
  BY <1>1 DEF IInv, TypeOK, CleanInv, LoopInv, packedVars, Copied, Extracted
<1>2. CASE Rested /\ Next /\ UNCHANGED packedVars
  BY <1>1, <1>2, NextKeepsPhase
<1>3. CASE UNCHANGED interfaceVars
  BY <1>1, <1>3 DEF interfaceVars, vars
<1>4. CASE Elaborate
  <2>1. phase = "use" /\ phase' = "run" /\ input' = Cleared /\ output' = Cleared /\ seen' = Cleared
        /\ shown' = [p \in Ports("out") |-> {}] /\ UNCHANGED <<evaluating, next>>
    BY <1>4 DEF Elaborate
  <2>2. evaluating = "no" /\ next \in Nat \ {0}
    BY <2>1 DEF IInv, TypeOK
  <2>3. TypeOK'
    BY <2>1, <2>2, ClearedWords DEF TypeOK
  <2>4. CleanInv'
    <3> SUFFICES ASSUME NEW e \in Structs, NEW x \in Width..Whole * WordBits - 1
                 PROVE  ~HasBit(Cleared, e, x)
      BY <2>1 DEF CleanInv
    <3>1. x \in 0..Whole * WordBits - 1
      BY Widths
    <3> QED
      BY <3>1, ClearedWords
  <2>5. LoopInv'
    BY <2>1, <2>2 DEF LoopInv
  <2> QED
    BY <2>3, <2>4, <2>5 DEF IInv
<1>5. ASSUME NEW pattern \in Patterns, WriteArray(pattern)
      PROVE  IInv'
  <2>1. Rested /\ UNCHANGED <<phase, input, output, signal, shown, evaluating, next, seen>>
    BY <1>5 DEF WriteArray, vars
  <2> QED
    BY <2>1 DEF Rested, IInv, TypeOK, CleanInv, LoopInv
<1>6. CASE Evaluate
  <2>1. phase = "run" /\ phase' = "run"
    BY <1>6 DEF Evaluate, vars
  <2>2. CASE StartEval
    BY <2>1, <2>2, Ordered DEF StartEval, IInv, TypeOK, CleanInv, LoopInv
  <2>3. CASE SyncNextInput
    <3>1. /\ evaluating = "in" /\ next \in 1..Len(PortOrder["in"]) /\ next' = next + 1
          /\ input' = SyncInput(input, PortOrder["in"][next])
          /\ UNCHANGED <<output, signal, value, shown, evaluating, seen>>
      BY <2>3, Ordered DEF SyncNextInput, Order, IInv, TypeOK
    <3>2. PICK p \in Ports("in") : p = PortOrder["in"][next]
      BY <3>1, Ordered
    <3>3. /\ AreWords(input') /\ Copied(p)'
          /\ \A r \in Ports("in") : Copied(r) => Copied(r)'
          /\ \A e \in Structs, x \in Width..Whole * WordBits - 1 : ~HasBit(input', e, x)
      BY <2>1, <3>1, <3>2, SyncCopies
    <3>4. TypeOK'
      BY <2>1, <3>1, <3>3, Ordered DEF IInv, TypeOK
    <3>5. CleanInv'
      BY <3>3 DEF CleanInv
    <3>6. LoopInv'
      <4> SUFFICES ASSUME NEW n \in 1..next' - 1
                   PROVE  Copied(PortOrder["in"][n])'
        BY <3>1 DEF LoopInv
      <4>1. CASE n = next
        BY <3>2, <3>3, <4>1
      <4>2. CASE n # next
        <5>1. n \in 1..next - 1 /\ n \in 1..Len(PortOrder["in"])
          BY <3>1, <4>2, Ordered
        <5>2. Copied(PortOrder["in"][n])
          BY <3>1, <5>1 DEF IInv, LoopInv
        <5>3. PortOrder["in"][n] \in Ports("in")
          BY <5>1, Ordered
        <5> QED
          BY <3>3, <5>2, <5>3
      <4> QED
        BY <4>1, <4>2
    <3> QED
      BY <3>4, <3>5, <3>6 DEF IInv
  <2>4. CASE EvalTop
    <3>1. /\ \E structs \in [Structs -> Evaluated] : output' = WordsHolding(structs)
          /\ seen' = input /\ evaluating' = "out" /\ next' = 1
          /\ UNCHANGED <<input, signal, value, shown>>
      BY <2>4 DEF EvalTop
    <3>2. AreWords(output')
      BY <3>1 DEF AreWords, WordsHolding
    <3>3. TypeOK' /\ LoopInv'
      BY <2>1, <3>1, <3>2, Ordered DEF IInv, TypeOK, LoopInv
    <3> QED
      BY <2>1, <3>1, <3>3 DEF IInv, CleanInv
  <2>5. CASE SyncNextOutput
    <3>1. /\ evaluating = "out" /\ next \in 1..Len(PortOrder["out"]) /\ next' = next + 1
          /\ shown' = SyncOutput(shown, PortOrder["out"][next])
          /\ UNCHANGED <<input, output, signal, value, evaluating, seen>>
      BY <2>5, Ordered DEF SyncNextOutput, Order, IInv, TypeOK
    <3>2. PICK p \in Ports("out") : p = PortOrder["out"][next]
      BY <3>1, Ordered
    <3> DEFINE new == Extended(GetBits(output, FirstWord(p), PortLsb(p), PortBits(p)), PortBits(p), p.field)
    <3>3. /\ DOMAIN shown' = Ports("out") /\ shown' = [r \in Ports("out") |-> shown'[r]]
          /\ shown'[p] = new /\ \A r \in Ports("out") : r # p => shown'[r] = shown[r]
      <4>1. shown' = [shown EXCEPT ![p] = new]
        BY <3>1, <3>2 DEF SyncOutput
      <4>2. DOMAIN shown = Ports("out") /\ shown = [r \in Ports("out") |-> shown[r]]
        BY <2>1 DEF IInv, TypeOK
      <4> HIDE DEF new
      <4> QED
        BY <4>1, <4>2
    <3>4. TypeOK'
      BY <2>1, <3>1, <3>3, Ordered DEF IInv, TypeOK
    <3>5. LoopInv'
      <4> SUFFICES ASSUME NEW n \in 1..next' - 1
                   PROVE  Extracted(PortOrder["out"][n])'
        BY <3>1 DEF LoopInv
      <4>1. n \in 1..Len(PortOrder["out"]) /\ (n # next => n \in 1..next - 1)
        BY <3>1, Ordered
      <4>2. PortOrder["out"][n] \in Ports("out")
        BY <4>1, Ordered
      <4>3. CASE PortOrder["out"][n] = p
        BY <3>1, <3>3, <4>3 DEF Extracted
      <4>4. CASE PortOrder["out"][n] # p
        <5>1. Extracted(PortOrder["out"][n])
          BY <3>1, <3>2, <4>1, <4>4 DEF IInv, LoopInv
        <5> QED
          BY <3>1, <3>3, <4>2, <4>4, <5>1 DEF Extracted
      <4> QED
        BY <4>3, <4>4
    <3> QED
      BY <2>1, <3>1, <3>4, <3>5 DEF IInv, CleanInv
  <2>6. CASE EndEval
    BY <2>1, <2>6 DEF EndEval, IInv, TypeOK, CleanInv, LoopInv
  <2> QED
    BY <1>6, <2>2, <2>3, <2>4, <2>5, <2>6 DEF Evaluate, Eval
<1> QED
  BY <1>2, <1>3, <1>4, <1>5, <1>6 DEF InterfaceNext

\* In every state the words and the signals of the ports are where the loops of eval() have got.
THEOREM InterfaceCorrect == InterfaceSpec => []IInv
BY InitInvariant, StepInvariant, PTL DEF InterfaceSpec

\* Every variable keeps its type: a word has no bits outside of it, and each loop ends with its ports.
THEOREM InterfaceTypeCorrect == InterfaceSpec => []TypeOK
<1>1. IInv => TypeOK
  BY DEF IInv
<1> QED
  BY <1>1, InterfaceCorrect, PTL

(***************************************************************************)
(* vl_truncate and vl_set_bits (vport.h:37-50, 378-393): whatever the      *)
(* signals hold, the bits above the width of a struct stay 0.              *)
(***************************************************************************)
THEOREM InputStaysClean == InterfaceSpec => []InputIsClean
<1>1. ASSUME IInv
      PROVE  InputIsClean
  <2> SUFFICES ASSUME phase = "run", NEW e \in Structs, NEW x \in Vector(input, e)
               PROVE  x \in 0..Width - 1
    BY DEF InputIsClean
  <2>1. AreWords(input)
    BY <1>1 DEF IInv, TypeOK
  <2>2. x \in 0..Whole * WordBits - 1 /\ HasBit(input, e, x)
    BY <2>1, VectorBits
  <2>3. x \notin Width..Whole * WordBits - 1
    BY <1>1, <2>2 DEF IInv, CleanInv
  <2> QED
    BY <2>2, <2>3, Widths
<1> QED
  BY <1>1, InterfaceCorrect, PTL

(***************************************************************************)
(* The refinement.                                                         *)
(***************************************************************************)
\* After the loop over the inputs the words have the fields that the signals show.
LEMMA InputsTaken ==
  ASSUME IInv, evaluating = "in", next > Len(PortOrder["in"]), NEW e \in Structs, NEW f \in Fields
  PROVE  FieldOf(input, e, f) = Record!Cut(Driven(e, f), f)
<1>1. AreWords(input) /\ next \in Nat
  BY DEF IInv, TypeOK
<1>2. ASSUME NEW b \in 0..Bits[f] - 1
      PROVE  HasBit(input, e, Lsb[f] + b) <=> b \in Driven(e, f)
  <2>1. PICK i \in Pieces(f) : b - Start0(i) \in 0..LengthOf(f, i) - 1
    BY PieceOfBit
  <2> DEFINE p == Port(e, f, i, "in")
             j == b - Start0(i)
             piece == [k \in Pieces(f) |-> value[signal[Port(e, f, k, "in")]]]
  <2>2. p \in Ports("in")
    BY PortOfPiece
  <2>3. p.struct = e /\ p.field = f /\ p.piece = i
    BY DEF Port
  <2>4. PICK n \in 1..Len(PortOrder["in"]) : PortOrder["in"][n] = p
    BY <2>2, Ordered
  <2>5. n \in 1..next - 1
    BY <1>1, <2>4, Ordered
  <2>6. Copied(p)
    BY <2>4, <2>5 DEF IInv, LoopInv
  <2>7. PortLsb(p) = Lsb[f] + Start0(i) /\ PortBits(p) = LengthOf(f, i)
    BY <2>2, <2>3, PortPart
  <2>8. HasBit(input, e, PortLsb(p) + j) <=> j \in value[signal[p]]
    BY <2>1, <2>3, <2>6, <2>7 DEF Copied
  <2>9. PortLsb(p) + j = Lsb[f] + b
    <3>1. Lsb[f] \in Nat /\ Start0(i) \in Nat /\ b \in Int
      BY Widths, PieceBits
    <3> HIDE DEF p
    <3> QED
      BY <2>7, <3>1
  <2>10. b \in Joined(f, piece) <=> j \in piece[i]
    BY <2>1, JoinedBits
  <2>11. piece[i] = value[signal[p]]
    OBVIOUS
  <2>12. Driven(e, f) = Joined(f, piece)
    BY DEF Driven
  <2> HIDE DEF p, j, piece
  <2> QED
    BY <2>8, <2>9, <2>10, <2>11, <2>12
<1>3. \A b : b \in FieldOf(input, e, f) <=> b \in 0..Bits[f] - 1 /\ HasBit(input, e, Lsb[f] + b)
  BY <1>1, FieldBits
<1>4. \A b : b \in Record!Cut(Driven(e, f), f) <=> b \in 0..Bits[f] - 1 /\ b \in Driven(e, f)
  BY DEF Record!Cut
<1> HIDE DEF Record!Cut
<1> QED
  BY <1>2, <1>3, <1>4

\* After the loop over the outputs the signals show the fields of the words.
LEMMA OutputsShown ==
  ASSUME IInv, evaluating = "out", next > Len(PortOrder["out"]), NEW e \in Structs, NEW f \in Fields
  PROVE  Presented(e, f) = Extended(FieldOf(output, e, f), Bits[f], f)
<1>1. AreWords(output) /\ next \in Nat
  BY DEF IInv, TypeOK
<1> DEFINE Of(i) == Port(e, f, i, "out")
           Read(i) == GetBits(output, FirstWord(Of(i)), PortLsb(Of(i)), PortBits(Of(i)))
           piece == [i \in Pieces(f) |-> shown[Of(i)]]
<1>2. ASSUME NEW i \in Pieces(f)
      PROVE  /\ Of(i) \in Ports("out") /\ Of(i).struct = e /\ Of(i).field = f /\ Of(i).piece = i
             /\ PortLsb(Of(i)) = Lsb[f] + Start0(i) /\ PortBits(Of(i)) = LengthOf(f, i)
             /\ piece[i] = Extended(Read(i), LengthOf(f, i), f)
  <2>1. Of(i) \in Ports("out")
    BY PortOfPiece
  <2>2. Of(i).struct = e /\ Of(i).field = f /\ Of(i).piece = i
    BY DEF Port
  <2>3. PortLsb(Of(i)) = Lsb[f] + Start0(i) /\ PortBits(Of(i)) = LengthOf(f, i)
    BY <2>1, <2>2, PortPart
  <2>4. PICK n \in 1..Len(PortOrder["out"]) : PortOrder["out"][n] = Of(i)
    BY <2>1, Ordered
  <2>5. n \in 1..next - 1
    BY <1>1, <2>4, Ordered
  <2>6. Extracted(Of(i))
    BY <2>4, <2>5 DEF IInv, LoopInv
  <2>7. piece[i] = shown[Of(i)]
    OBVIOUS
  <2> HIDE DEF Of, piece
  <2> QED
    BY <2>1, <2>2, <2>3, <2>6, <2>7 DEF Extracted
<1>3. ASSUME NEW i \in Pieces(f), NEW j
      PROVE  j \in Read(i) <=> j \in 0..LengthOf(f, i) - 1 /\ HasBit(output, e, Lsb[f] + (Start0(i) + j))
  <2>1. Of(i) \in Ports("out") /\ Of(i).struct = e /\ Of(i).field = f /\ Of(i).piece = i
    BY <1>2
  <2>2. PortLsb(Of(i)) = Lsb[f] + Start0(i) /\ PortBits(Of(i)) = LengthOf(f, i)
    BY <1>2
  <2> HIDE DEF Of
  <2>3. j \in Read(i) <=> j \in 0..PortBits(Of(i)) - 1 /\ HasBit(output, e, PortLsb(Of(i)) + j)
    BY <1>1, <2>1, PortBitsRead
  <2>4. j \in 0..PortBits(Of(i)) - 1 => PortLsb(Of(i)) + j = Lsb[f] + (Start0(i) + j)
    BY <1>1, <2>1, PortBitsRead
  <2> HIDE DEF Read
  <2> QED
    BY <2>2, <2>3, <2>4
<1>4. \A b : b \in FieldOf(output, e, f) <=> b \in 0..Bits[f] - 1 /\ HasBit(output, e, Lsb[f] + b)
  BY <1>1, FieldBits
<1>5. Presented(e, f) = Joined(f, piece)
  BY DEF Presented
<1> HIDE DEF Read, piece, Of
<1>6. CASE ~IsWide(f)
  <2>1. 0 \in Pieces(f)
    BY <1>6 DEF Pieces
  <2>2. Start0(0) = 0 /\ LengthOf(f, 0) = Bits[f] /\ Lsb[f] \in Nat /\ Bits[f] \in Nat
    BY <1>6, <2>1, PieceBits, Widths
  <2>3. \A j : j \in Read(0) <=> j \in 0..Bits[f] - 1 /\ HasBit(output, e, Lsb[f] + j)
    <3> TAKE j
    <3>1. j \in 0..Bits[f] - 1 => Lsb[f] + (0 + j) = Lsb[f] + j
      BY <2>2
    <3> QED
      BY <1>3, <2>1, <2>2, <3>1
  <2>4. Read(0) = FieldOf(output, e, f)
    BY <1>4, <2>3
  <2>5. piece[0] = Extended(Read(0), Bits[f], f)
    BY <1>2, <2>1, <2>2
  <2> QED
    BY <1>5, <1>6, <2>4, <2>5 DEF Joined
<1>7. CASE IsWide(f)
  <2>1. f \notin Signed
    BY <1>7, PackedAssumption
  <2>2. \A i \in Pieces(f) : piece[i] = Read(i)
    BY <1>2, <2>1 DEF Extended
  <2>3. \A b \in 0..Bits[f] - 1 : b \in Joined(f, piece) <=> HasBit(output, e, Lsb[f] + b)
    <3> TAKE b \in 0..Bits[f] - 1
    <3>1. PICK i \in Pieces(f) : b - Start0(i) \in 0..LengthOf(f, i) - 1
      BY PieceOfBit
    <3>2. b \in Joined(f, piece) <=> b - Start0(i) \in Read(i)
      BY <2>2, <3>1, JoinedBits
    <3>3. Start0(i) + (b - Start0(i)) = b
      BY PieceBits, Widths
    <3> QED
      BY <1>3, <3>1, <3>2, <3>3
  <2>4. \A b \in Joined(f, piece) : b \in 0..Bits[f] - 1
    <3> TAKE b \in Joined(f, piece)
    <3>1. PICK i \in Pieces(f) : \E j \in Read(i) : b = j + i * WordBits
      BY <1>7, <2>2 DEF Joined, ShiftedUp, Truncated
    <3>2. PICK j \in Read(i) : b = j + Start0(i)
      BY <3>1 DEF Start0
    <3>3. j \in 0..LengthOf(f, i) - 1
      BY <1>3
    <3> QED
      BY <3>2, <3>3, PieceBits, Widths
  <2>5. Joined(f, piece) = FieldOf(output, e, f)
    BY <1>4, <2>3, <2>4
  <2> QED
    BY <1>5, <2>1, <2>5 DEF Extended
<1> QED
  BY <1>6, <1>7

RecordVars == <<AllDriven, FieldsOf(seen), FieldsOf(output), AllPresented>>

LEMMA RecordInit == InterfaceInit => Record!Init
BY DEF InterfaceInit, Init, Record!Init, FieldsOf

\* A step that changes nothing that the outside sees, but what is driven.
LEMMA DriveIs ==
  ASSUME FieldsOf(seen)' = FieldsOf(seen), FieldsOf(output)' = FieldsOf(output), AllPresented' = AllPresented
  PROVE  Record!Drive
BY DEF Record!Drive

LEMMA RecordStep == IInv /\ [InterfaceNext]_interfaceVars => [Record!Evaluate \/ Record!Drive]_RecordVars
<1> SUFFICES ASSUME IInv, [InterfaceNext]_interfaceVars
             PROVE  Record!Evaluate \/ Record!Drive
  BY DEF RecordVars
<1>1. ASSUME phase' = "run" <=> phase = "run", UNCHANGED packedVars
      PROVE  Record!Drive
  <2>1. FieldsOf(seen)' = FieldsOf(seen) /\ FieldsOf(output)' = FieldsOf(output)
    BY <1>1 DEF FieldsOf, packedVars
  <2>2. AllPresented' = AllPresented
    BY <1>1 DEF AllPresented, packedVars, Presented
  <2> QED
    BY <2>1, <2>2, DriveIs
<1>2. CASE Rested /\ Next /\ UNCHANGED packedVars
  BY <1>1, <1>2, NextKeepsPhase
<1>3. CASE UNCHANGED interfaceVars
  BY <1>1, <1>3 DEF interfaceVars, vars
<1>4. CASE Elaborate
  <2>1. phase = "use" /\ phase' = "run" /\ output' = Cleared /\ seen' = Cleared /\ evaluating' = evaluating
        /\ shown' = [p \in Ports("out") |-> {}]
    BY <1>4 DEF Elaborate
  <2>2. evaluating = "no"
    BY <2>1 DEF IInv, TypeOK
  <2>3. FieldsOf(seen)' = FieldsOf(seen) /\ FieldsOf(output)' = FieldsOf(output)
    BY <2>1, ClearedWords DEF FieldsOf
  <2>4. ASSUME NEW e \in Structs, NEW f \in Fields
        PROVE  Presented(e, f)' = {}
    <3>1. \A i \in Pieces(f) : shown'[Port(e, f, i, "out")] = {}
      BY <2>1, PortOfPiece
    <3>2. Presented(e, f)' = Joined(f, [i \in Pieces(f) |-> {}])
      BY <3>1 DEF Presented
    <3>3. Joined(f, [i \in Pieces(f) |-> {}]) = {}
      <4>1. CASE IsWide(f)
        BY <4>1 DEF Joined, ShiftedUp, Truncated
      <4>2. CASE ~IsWide(f)
        BY <4>2 DEF Joined, Pieces
      <4> QED
        BY <4>1, <4>2
    <3> QED
      BY <3>2, <3>3
  <2>5. AllPresented = [e \in Structs |-> [f \in Fields |-> {}]]
    BY <2>1 DEF AllPresented
  <2>6. AllPresented' = [e \in Structs |-> [f \in Fields |-> {}]]
    BY <2>1, <2>2, <2>4 DEF AllPresented
  <2> QED
    BY <2>3, <2>5, <2>6, DriveIs
<1>5. ASSUME NEW pattern \in Patterns, WriteArray(pattern)
      PROVE  Record!Drive
  <2>1. UNCHANGED <<phase, output, shown, evaluating, seen>>
    BY <1>5 DEF WriteArray, vars
  <2>2. FieldsOf(seen)' = FieldsOf(seen) /\ FieldsOf(output)' = FieldsOf(output)
    BY <2>1 DEF FieldsOf
  <2>3. AllPresented' = AllPresented
    BY <2>1 DEF AllPresented, Presented
  <2> QED
    BY <2>2, <2>3, DriveIs
<1>6. CASE Evaluate
  <2>1. phase = "run" /\ phase' = "run"
    BY <1>6 DEF Evaluate, vars
  <2>2. ASSUME UNCHANGED <<output, seen>>
        PROVE  FieldsOf(seen)' = FieldsOf(seen) /\ FieldsOf(output)' = FieldsOf(output)
    BY <2>1, <2>2 DEF FieldsOf
  <2>3. CASE StartEval
    <3>1. UNCHANGED <<output, shown, seen>> /\ evaluating = "no" /\ evaluating' = "in"
      BY <2>3 DEF StartEval
    <3>2. AllPresented' = AllPresented
      BY <2>1, <3>1 DEF AllPresented, Presented
    <3> QED
      BY <2>2, <3>1, <3>2, DriveIs
  <2>4. CASE SyncNextInput
    <3>1. UNCHANGED <<output, shown, seen, evaluating>>
      BY <2>4 DEF SyncNextInput
    <3>2. AllPresented' = AllPresented
      BY <2>1, <3>1 DEF AllPresented, Presented
    <3> QED
      BY <2>2, <3>1, <3>2, DriveIs
  <2>5. CASE EvalTop
    <3>1. evaluating = "in" /\ next > Len(PortOrder["in"]) /\ seen' = input /\ evaluating' = "out"
      BY <2>5 DEF EvalTop, Order
    <3>2. FieldsOf(seen)' = [e \in Structs |-> [f \in Fields |-> Record!Cut(AllDriven[e][f], f)]]
      <4>1. FieldsOf(seen)' = [e \in Structs |-> [f \in Fields |-> FieldOf(input, e, f)]]
        BY <2>1, <3>1 DEF FieldsOf
      <4>2. \A e \in Structs, f \in Fields : AllDriven[e][f] = Driven(e, f)
        BY <2>1 DEF AllDriven
      <4>3. \A e \in Structs, f \in Fields : FieldOf(input, e, f) = Record!Cut(AllDriven[e][f], f)
        BY <3>1, <4>2, InputsTaken
      <4> HIDE DEF Record!Cut
      <4> QED
        BY <4>1, <4>3
    <3>3. AllPresented' = [e \in Structs |-> [f \in Fields |-> Record!WithSign(FieldsOf(output)'[e][f], f)]]
      <4>1. AllPresented' = [e \in Structs |-> [f \in Fields |-> Extended(FieldOf(output', e, f), Bits[f], f)]]
        BY <2>1, <3>1 DEF AllPresented
      <4>2. \A e \in Structs, f \in Fields : FieldsOf(output)'[e][f] = FieldOf(output', e, f)
        BY <2>1 DEF FieldsOf
      <4> QED
        BY <4>1, <4>2 DEF Extended, Record!WithSign
    <3> QED
      BY <3>2, <3>3 DEF Record!Evaluate
  <2>6. CASE SyncNextOutput
    <3>1. UNCHANGED <<output, seen, evaluating>> /\ evaluating = "out"
      BY <2>6 DEF SyncNextOutput
    <3>2. AllPresented' = AllPresented
      BY <2>1, <3>1 DEF AllPresented
    <3> QED
      BY <2>2, <3>1, <3>2, DriveIs
  <2>7. CASE EndEval
    <3>1. evaluating = "out" /\ next > Len(PortOrder["out"]) /\ evaluating' = "no" /\ UNCHANGED <<output, shown, seen>>
      BY <2>7 DEF EndEval, Order
    <3>2. AllPresented = [e \in Structs |-> [f \in Fields |-> Extended(FieldOf(output, e, f), Bits[f], f)]]
      BY <2>1, <3>1 DEF AllPresented
    <3>3. AllPresented' = [e \in Structs |-> [f \in Fields |-> Presented(e, f)]]
      BY <2>1, <3>1 DEF AllPresented, Presented
    <3>4. \A e \in Structs, f \in Fields : Presented(e, f) = Extended(FieldOf(output, e, f), Bits[f], f)
      BY <3>1, OutputsShown
    <3>5. AllPresented' = AllPresented
      BY <3>2, <3>3, <3>4
    <3> QED
      BY <2>2, <3>1, <3>5, DriveIs
  <2> QED
    BY <1>6, <2>3, <2>4, <2>5, <2>6, <2>7 DEF Evaluate, Eval
<1> QED
  BY <1>2, <1>3, <1>4, <1>5, <1>6 DEF InterfaceNext

(***************************************************************************)
(* eval() (vmodule.h:29-43) takes the fields of all structs as the inputs  *)
(* show them and shows the fields of its outputs, whatever words they      *)
(* share: Interface implements FieldRecords.                               *)
(***************************************************************************)
THEOREM RecordImplemented == InterfaceSpec => IsRecord
<1>1. IInv /\ [InterfaceNext]_interfaceVars =>
         [Record!Evaluate \/ Record!Drive]_<<AllDriven, FieldsOf(seen), FieldsOf(output), AllPresented>>
  BY RecordStep DEF RecordVars
<1> QED
  BY RecordInit, <1>1, InterfaceCorrect, PTL DEF InterfaceSpec, IsRecord, Record!Spec
=============================================================================
