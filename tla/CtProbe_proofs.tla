----------------------------- MODULE CtProbe_proofs --------------------------
(***************************************************************************)
(* run of ct-probe returns what its documentation promises, for any number  *)
(* of trials, any times, any threshold and any decreasing parts.           *)
(*                                                                         *)
(* The argument: a fraction in lowest terms is one for each value, so the   *)
(* arithmetic of Fractions can be replaced by products of integers; the     *)
(* moments Welch::push keeps are then sums over the set of samples kept,    *)
(* and all that run leaves behind is a function of the samples, of their    *)
(* sorted times and of the number of crops done, which is the invariant Inv. *)
(***************************************************************************)
EXTENDS CtProbe, WellFoundedInduction, FiniteSetTheorems, FunctionTheorems, TLAPS

-----------------------------------------------------------------------------
\* Induction on numbers, and the largest common divisor.

\* A set of numbers has a least one.
LEMMA LeastOfNumbers ==
    ASSUME NEW S \in SUBSET Nat, S # {}
    PROVE  \E u \in S : \A v \in S : u <= v
  <1> DEFINE less == {ss \in Nat \X Nat : ss[1] < ss[2]}
  <1>1. IsWellFoundedOn(less, Nat)
    <2>1. OpToRel(<, Nat) = less
      BY Zenon DEF OpToRel
    <2> QED  BY <2>1, NatLessThanWellFounded, Zenon
  <1> HIDE DEF less
  <1>2. PICK u \in S : \A v \in S : <<v, u>> \notin less
    BY <1>1, WFMin
  <1>3. ASSUME NEW v \in S PROVE u <= v
    <2>1. v < u => <<v, u>> \in less
      BY DEF less
    <2> QED  BY <1>2, <2>1
  <1> QED  BY <1>3

\* Induction, for a set of numbers.
LEMMA Induction ==
    ASSUME NEW S \in SUBSET Nat, 0 \in S, \A n \in S : n + 1 \in S
    PROVE  \A n \in Nat : n \in S
  <1> SUFFICES ASSUME Nat \ S # {} PROVE FALSE
    OBVIOUS
  <1>1. PICK u \in Nat \ S : \A v \in Nat \ S : u <= v
    BY LeastOfNumbers
  <1>2. u - 1 \in S
    BY <1>1
  <1> QED  BY <1>1, <1>2

Positive == Nat \ {0}

Divides(d, a) == \E k \in Int : a = k * d

\* The largest of the numbers that divide a and b.
Gcd(d, a, b) ==
    /\ d \in Positive /\ Divides(d, a) /\ Divides(d, b)
    /\ \A k \in Positive : Divides(k, a) /\ Divides(k, b) => k <= d

LEMMA GcdUnique ==
    ASSUME NEW a, NEW b, NEW d, NEW e, Gcd(d, a, b), Gcd(e, a, b)
    PROVE  d = e
  BY DEF Gcd, Positive

LEMMA DividesLess ==
    ASSUME NEW d \in Positive, NEW b \in Positive, Divides(d, b)
    PROVE  d <= b
  <1>1. PICK k \in Int : b = k * d
    BY DEF Divides
  <1>2. k >= 1
    BY <1>1 DEF Positive
  <1>3. k * d >= 1 * d
    BY <1>1, <1>2 DEF Positive
  <1> QED  BY <1>1, <1>3 DEF Positive

LEMMA DividesSum ==
    ASSUME NEW d \in Int, NEW a \in Int, NEW b \in Int, NEW q \in Int,
           Divides(d, a), Divides(d, b)
    PROVE  Divides(d, b * q + a) /\ Divides(d, a - b * q)
  <1>1. PICK k \in Int : a = k * d
    BY DEF Divides
  <1>2. PICK l \in Int : b = l * d
    BY DEF Divides
  <1>3. b * q = (l * q) * d /\ l * q \in Int
    BY <1>2
  <1> DEFINE m == l * q
  <1>4. m \in Int /\ b * q = m * d
    BY <1>3
  <1> HIDE DEF m
  <1>5. b * q + a = (m + k) * d /\ a - b * q = (k - m) * d
    BY <1>1, <1>4
  <1>6. m + k \in Int /\ k - m \in Int
    BY <1>1, <1>4
  <1> QED  BY <1>5, <1>6 DEF Divides

LEMMA DivMod ==
    ASSUME NEW a \in Nat, NEW b \in Positive
    PROVE  a \div b \in Nat /\ a % b \in 0 .. b - 1 /\ a = b * (a \div b) + (a % b)
  BY DEF Positive

LEMMA GcdExists ==
    ASSUME NEW a \in Int, NEW b \in Positive
    PROVE  \E d \in Nat : Gcd(d, a, b)
  <1> DEFINE S == {n \in Nat : \E d \in Positive : d + n = b /\ Divides(d, a) /\ Divides(d, b)}
  <1>1. S # {}
    <2>1. Divides(1, a) /\ Divides(1, b) /\ 1 \in Positive /\ b - 1 \in Nat /\ 1 + (b - 1) = b
      BY DEF Divides, Positive
    <2>2. b - 1 \in S
      BY <2>1
    <2> QED  BY <2>2
  <1>2. PICK n \in S : \A m \in S : n <= m
    BY <1>1, LeastOfNumbers
  <1>3. PICK d \in Positive : d + n = b /\ Divides(d, a) /\ Divides(d, b)
    BY <1>2
  <1>4. ASSUME NEW k \in Positive, Divides(k, a), Divides(k, b) PROVE k <= d
    <2>1. k <= b /\ b - k \in Nat /\ k + (b - k) = b
      BY <1>4, DividesLess DEF Positive
    <2>2. b - k \in S
      BY <1>4, <2>1
    <2> QED  BY <1>2, <1>3, <2>1, <2>2 DEF Positive
  <1> QED  BY <1>3, <1>4 DEF Gcd, Positive

LEMMA GcdStep ==
    ASSUME NEW a \in Nat, NEW b \in Positive, NEW d, a % b # 0, Gcd(d, b, a % b)
    PROVE  Gcd(d, a, b)
  <1> DEFINE r == a % b
             q == a \div b
  <1>1. q \in Nat /\ r \in Nat /\ a = b * q + r
    <2>1. q \in Nat /\ r \in 0 .. b - 1 /\ a = b * q + r
      BY DivMod
    <2> QED  BY <2>1 DEF Positive
  <1> HIDE DEF r, q
  <1>5. b \in Int /\ q \in Int /\ r \in Int /\ a \in Int /\ a - b * q = r
    BY <1>1 DEF Positive
  <1>2. d \in Positive /\ Divides(d, b) /\ Divides(d, r)
    BY DEF Gcd, r
  <1>3. Divides(d, a)
    <2>1. d \in Int
      BY <1>2 DEF Positive
    <2>2. Divides(d, b * q + r)
      BY <1>2, <1>5, <2>1, DividesSum
    <2> QED  BY <1>1, <2>2
  <1>4. ASSUME NEW k \in Positive, Divides(k, a), Divides(k, b) PROVE k <= d
    <2>1. k \in Int
      BY DEF Positive
    <2>2. Divides(k, a - b * q)
      BY <1>4, <1>5, <2>1, DividesSum
    <2> QED  BY <1>4, <1>5, <2>2 DEF Gcd, r
  <1> QED  BY <1>2, <1>3, <1>4 DEF Gcd

LEMMA GcdEnd ==
    ASSUME NEW a \in Nat, NEW b \in Positive, a % b = 0
    PROVE  Gcd(b, a, b)
  <1> DEFINE q == a \div b
  <1>1. q \in Nat /\ a = b * q + 0
    BY DivMod
  <1> HIDE DEF q
  <1>2. a = q * b /\ b = 1 * b
    BY <1>1 DEF Positive
  <1> QED  BY <1>1, <1>2, DividesLess DEF Gcd, Divides

\* What Divisor computes, and a function that does.
DivisorOf == [p \in Nat \X Nat |-> IF p[2] = 0 THEN p[1] ELSE CHOOSE d \in Nat : Gcd(d, p[1], p[2])]

LEMMA DivisorOfIs ==
    ASSUME NEW a \in Nat, NEW b \in Nat
    PROVE  /\ b = 0 => DivisorOf[<<a, b>>] = a
           /\ b # 0 => Gcd(DivisorOf[<<a, b>>], a, b)
  <1>1. CASE b = 0
    BY <1>1 DEF DivisorOf
  <1>2. CASE b # 0
    <2>1. b \in Positive /\ a \in Int
      BY <1>2 DEF Positive
    <2>2. \E d \in Nat : Gcd(d, a, b)
      BY <2>1, GcdExists
    <2>3. DivisorOf[<<a, b>>] = CHOOSE d \in Nat : Gcd(d, a, b)
      BY <1>2 DEF DivisorOf
    <2> QED  BY <1>2, <2>2, <2>3
  <1> QED  BY <1>1, <1>2

Euclid(f) == f = [p \in Nat \X Nat |-> IF p[2] = 0 THEN p[1] ELSE f[<<p[2], p[1] % p[2]>>]]

LEMMA DivisorOfEuclid == Euclid(DivisorOf)
  <1>1. ASSUME NEW a \in Nat, NEW b \in Nat, b # 0
        PROVE  DivisorOf[<<a, b>>] = DivisorOf[<<b, a % b>>]
    <2>1. b \in Positive /\ a % b \in Nat
      BY <1>1, DivMod DEF Positive
    <2>2. Gcd(DivisorOf[<<a, b>>], a, b)
      BY <1>1, DivisorOfIs
    <2>3. CASE a % b = 0
      BY <1>1, <2>1, <2>2, <2>3, GcdEnd, GcdUnique, DivisorOfIs
    <2>4. CASE a % b # 0
      <3>1. Gcd(DivisorOf[<<b, a % b>>], b, a % b)
        BY <1>1, <2>1, <2>4, DivisorOfIs
      <3> QED  BY <1>1, <2>1, <2>2, <2>4, <3>1, GcdStep, GcdUnique
    <2> QED  BY <2>3, <2>4
  <1>2. \A p \in Nat \X Nat :
            DivisorOf[p] = IF p[2] = 0 THEN p[1] ELSE DivisorOf[<<p[2], p[1] % p[2]>>]
    <2> SUFFICES ASSUME NEW p \in Nat \X Nat
                 PROVE  DivisorOf[p] = IF p[2] = 0 THEN p[1] ELSE DivisorOf[<<p[2], p[1] % p[2]>>]
      OBVIOUS
    <2>1. p[1] \in Nat /\ p[2] \in Nat /\ p = <<p[1], p[2]>>
      OBVIOUS
    <2>2. CASE p[2] = 0
      BY <2>1, <2>2, DivisorOfIs
    <2>3. CASE p[2] # 0
      <3>1. DivisorOf[<<p[1], p[2]>>] = DivisorOf[<<p[2], p[1] % p[2]>>]
        BY <1>1, <2>1, <2>3
      <3> QED  BY <2>1, <2>3, <3>1
    <2> QED  BY <2>2, <2>3
  <1>3. DOMAIN DivisorOf = Nat \X Nat /\ DivisorOf = [p \in DOMAIN DivisorOf |-> DivisorOf[p]]
    BY DEF DivisorOf
  <1> QED  BY <1>2, <1>3 DEF Euclid

LEMMA DivisorEuclid == Euclid(Divisor)
  <1>1. Divisor = CHOOSE f : Euclid(f)
    BY DEF Divisor, Euclid
  <1> QED  BY <1>1, DivisorOfEuclid

LEMMA DivisorIsGcd ==
    ASSUME NEW a \in Nat, NEW b \in Positive
    PROVE  Gcd(Divisor[<<a, b>>], a, b)
  <1> DEFINE S == {n \in Nat : \A k \in 0 .. n : \A j \in Nat :
                       k # 0 => Gcd(Divisor[<<j, k>>], j, k)}
  <1>1. \A j, k \in Nat : Divisor[<<j, k>>] = IF k = 0 THEN j ELSE Divisor[<<k, j % k>>]
    <2>1. \A p \in Nat \X Nat : Divisor[p] = IF p[2] = 0 THEN p[1] ELSE Divisor[<<p[2], p[1] % p[2]>>]
      BY DivisorEuclid, Z3 DEF Euclid
    <2> SUFFICES ASSUME NEW j \in Nat, NEW k \in Nat
                 PROVE  Divisor[<<j, k>>] = IF k = 0 THEN j ELSE Divisor[<<k, j % k>>]
      OBVIOUS
    <2>2. <<j, k>> \in Nat \X Nat
      OBVIOUS
    <2> QED  BY <2>1, <2>2
  <1>2. 0 \in S
    OBVIOUS
  <1>3. ASSUME NEW n \in S PROVE n + 1 \in S
    <2> SUFFICES ASSUME NEW k \in 0 .. n + 1, NEW j \in Nat, k # 0
                 PROVE  Gcd(Divisor[<<j, k>>], j, k)
      OBVIOUS
    <2>1. CASE k \in 0 .. n
      BY <2>1
    <2>2. CASE k = n + 1
      <3>1. k \in Positive /\ j % k \in 0 .. n /\ j % k \in Nat /\ k \in Nat
        BY <2>2, DivMod DEF Positive
      <3>2. Divisor[<<j, k>>] = Divisor[<<k, j % k>>]
        BY <1>1, <3>1
      <3>3. CASE j % k = 0
        <4>1. Divisor[<<k, 0>>] = k
          BY <1>1, <3>1
        <4>2. Gcd(k, j, k)
          BY <3>1, <3>3, GcdEnd
        <4> QED  BY <3>2, <3>3, <4>1, <4>2
      <3>4. CASE j % k # 0
        <4>1. Gcd(Divisor[<<k, j % k>>], k, j % k)
          BY <3>1, <3>4
        <4> QED  BY <3>1, <3>2, <3>4, <4>1, GcdStep
      <3> QED  BY <3>3, <3>4
    <2> QED  BY <2>1, <2>2
  <1> HIDE DEF S
  <1>4. \A n \in Nat : n \in S
    <2>1. S \in SUBSET Nat
      BY DEF S
    <2> QED  BY <1>2, <1>3, <2>1, Induction
  <1>5. b \in Nat /\ b \in 0 .. b /\ b # 0
    BY DEF Positive
  <1> QED  BY <1>4, <1>5 DEF S

-----------------------------------------------------------------------------
\* Fractions in lowest terms: one for each value.

LEMMA ExactDiv ==
    ASSUME NEW k \in Int, NEW g \in Positive
    PROVE  (k * g) \div g = k
  <1> DEFINE q == (k * g) \div g
             m == k * g
  <1>1. m \in Int /\ m = g * k
    BY DEF Positive
  <1> HIDE DEF m
  <1>2. m \div g \in Int /\ g * (m \div g) <= m /\ m < g * (m \div g) + g
    BY <1>1 DEF Positive
  <1> DEFINE d == m \div g
  <1> HIDE DEF d
  <1>3. d \in Int /\ g * d <= g * k /\ g * k < g * d + g
    BY <1>1, <1>2 DEF d
  <1>4. d <= k
    <2> SUFFICES ASSUME d >= k + 1 PROVE FALSE
      BY <1>3
    <2>1. g * d >= g * (k + 1)
      BY <1>3 DEF Positive
    <2> QED  BY <1>3, <2>1 DEF Positive
  <1>5. k <= d
    <2> SUFFICES ASSUME k >= d + 1 PROVE FALSE
      BY <1>3
    <2>1. g * k >= g * (d + 1)
      BY <1>3 DEF Positive
    <2> QED  BY <1>3, <2>1 DEF Positive
  <1> QED  BY <1>3, <1>4, <1>5 DEF d, m

\* What cancels out of a product.
LEMMA Cancel ==
    ASSUME NEW a \in Int, NEW b \in Int, NEW g \in Int, g # 0, a * g = b * g
    PROVE  a = b
  <1>1. (a - b) * g = 0 /\ a - b \in Int
    OBVIOUS
  <1>2. a - b = 0
    BY <1>1
  <1> QED  BY <1>2

\* p is a over b, and no fraction with a smaller denominator is.
Lowest(p, a, b) ==
    /\ p \in Ratio /\ p.num * b = a * p.den
    /\ \A y \in Positive, x \in Int : x * b = a * y => p.den <= y

\* x over y is a over b, which is that times some q, and nothing smaller is.
LowestPair(x, y, a, b) ==
    /\ x * b = a * y
    /\ \A v \in Positive, u \in Int : u * b = a * v => y <= v
    /\ \E q \in Positive : b = q * y /\ a = q * x

LEMMA LowestExists ==
    ASSUME NEW a \in Int, NEW b \in Positive
    PROVE  \E x \in Int, y \in Positive : LowestPair(x, y, a, b)
  <1> DEFINE Y == {v \in Positive : \E u \in Int : u * b = a * v}
  <1>1. b \in Y
    BY DEF Positive
  <1>2. Y \in SUBSET Nat
    BY DEF Positive
  <1>3. PICK y \in Y : \A v \in Y : y <= v
    <2>1. Y # {}
      BY <1>1
    <2> HIDE DEF Y
    <2> QED  BY <1>2, <2>1, LeastOfNumbers
  <1>4. PICK x \in Int : x * b = a * y
    BY <1>3
  <1>5. \A v \in Positive, u \in Int : u * b = a * v => y <= v
    BY <1>3
  <1>6. y \in Positive
    BY <1>3
  <1> DEFINE q == b \div y
             r == b % y
  <1>7. q \in Nat /\ r \in 0 .. y - 1 /\ b = y * q + r
    <2>1. b \in Nat
      BY DEF Positive
    <2> QED  BY <2>1, <1>6, DivMod
  <1> HIDE DEF q, r, Y
  <1>8. r = 0
    <2> SUFFICES ASSUME r # 0 PROVE FALSE
      OBVIOUS
    <2>1. r \in Positive /\ r < y
      BY <1>6, <1>7, <2>1 DEF Positive
    <2>2. a - q * x \in Int
      BY <1>4, <1>7
    <2>3. (a - q * x) * b = a * b - q * (x * b)
      BY <1>4, <1>7 DEF Positive
    <2>4. q * (x * b) = q * (a * y)
      BY <1>4
    <2>5. q * (a * y) = a * (y * q)
      BY <1>6, <1>7 DEF Positive
    <2>6. a * b = a * (y * q) + a * r
      BY <1>6, <1>7 DEF Positive
    <2>7. (a - q * x) * b = a * r
      <3> DEFINE e == a * (y * q)
                 f == a * r
      <3>1. e \in Int /\ f \in Int
        BY <1>6, <1>7 DEF Positive
      <3>2. q * (x * b) = e /\ a * b = e + f
        BY <2>4, <2>5, <2>6
      <3> HIDE DEF e, f
      <3>3. (a - q * x) * b = (e + f) - e
        BY <2>3, <3>2
      <3>4. (e + f) - e = f
        BY <3>1
      <3> QED  BY <3>3, <3>4 DEF f
    <2>8. y <= r
      BY <1>5, <2>1, <2>2, <2>7
    <2> QED  BY <2>1, <2>8, <1>6 DEF Positive
  <1>9. b = q * y /\ q \in Positive
    BY <1>6, <1>7, <1>8 DEF Positive
  <1>10. a = q * x
    <2>1. x * b = (q * x) * y
      BY <1>4, <1>6, <1>9 DEF Positive
    <2>2. q * x \in Int /\ y \in Int /\ y # 0
      BY <1>4, <1>6, <1>7 DEF Positive
    <2> QED  BY <1>4, <2>1, <2>2, Cancel
  <1>11. LowestPair(x, y, a, b)
    BY <1>4, <1>5, <1>9, <1>10 DEF LowestPair
  <1> QED  BY <1>4, <1>6, <1>11

LEMMA FractionIs ==
    ASSUME NEW a \in Int, NEW b \in Positive
    PROVE  Lowest(Fraction(a, b), a, b)
  <1> DEFINE s == IF a < 0 THEN -a ELSE a
             g == Divisor[<<s, b>>]
  <1>1. s \in Nat
    OBVIOUS
  <1>2. Gcd(g, s, b)
    BY <1>1, DivisorIsGcd
  <1>3. Fraction(a, b) = [num |-> a \div g, den |-> b \div g]
    BY DEF Fraction
  <1>4. \A d \in Int : Divides(d, s) <=> Divides(d, a)
    <2> SUFFICES ASSUME NEW d \in Int PROVE Divides(d, s) <=> Divides(d, a)
      OBVIOUS
    <2>1. ASSUME NEW k \in Int PROVE -k \in Int /\ -(k * d) = (-k) * d
      OBVIOUS
    <2>2. CASE a < 0
      <3>1. s = -a /\ a = -s /\ s \in Int
        BY <2>2
      <3> HIDE DEF s
      <3>2. ASSUME Divides(d, s) PROVE Divides(d, a)
        <4>1. PICK k \in Int : s = k * d
          BY <3>2 DEF Divides
        <4>2. a = (-k) * d /\ -k \in Int
          BY <3>1, <4>1
        <4> QED  BY <4>2 DEF Divides
      <3>3. ASSUME Divides(d, a) PROVE Divides(d, s)
        <4>1. PICK k \in Int : a = k * d
          BY <3>3 DEF Divides
        <4>2. s = (-k) * d /\ -k \in Int
          BY <3>1, <4>1
        <4> QED  BY <4>2 DEF Divides
      <3> QED  BY <3>2, <3>3
    <2>3. CASE ~(a < 0)
      BY <2>3
    <2> QED  BY <2>2, <2>3
  <1> HIDE DEF s, g
  <1>5. g \in Positive /\ g \in Int /\ Divides(g, a) /\ Divides(g, b)
    BY <1>2, <1>4 DEF Gcd, Positive
  <1>6. \A k \in Positive : Divides(k, a) /\ Divides(k, b) => k <= g
    BY <1>2, <1>4 DEF Gcd, Positive
  <1>7. PICK m \in Int : a = m * g
    BY <1>5 DEF Divides
  <1>8. PICK n \in Int : b = n * g
    BY <1>5 DEF Divides
  <1>9. Fraction(a, b) = [num |-> m, den |-> n]
    BY <1>3, <1>5, <1>7, <1>8, ExactDiv
  <1>10. n \in Positive
    <2>1. n * g > 0
      BY <1>8 DEF Positive
    <2>2. n > 0
      BY <1>5, <2>1 DEF Positive
    <2> QED  BY <2>2 DEF Positive
  <1>11. m * b = a * n
    BY <1>5, <1>7, <1>8
  <1>12. PICK x \in Int, y \in Positive :
             /\ x * b = a * y
             /\ \A v \in Positive, u \in Int : u * b = a * v => y <= v
             /\ \E q \in Positive : b = q * y /\ a = q * x
    <2>1. PICK x \in Int, y \in Positive : LowestPair(x, y, a, b)
      BY LowestExists
    <2> QED  BY <2>1 DEF LowestPair
  <1>13. PICK q \in Positive : b = q * y /\ a = q * x
    BY <1>12
  <1>14. q <= g
    <2>1. b = y * q /\ a = x * q /\ y \in Int
      BY <1>13 DEF Positive
    <2> QED  BY <1>6, <2>1 DEF Divides
  <1>15. y <= n
    BY <1>10, <1>11, <1>12
  <1>16. n <= y
    <2>1. q * y = n * g
      BY <1>8, <1>13
    <2>2. q * y <= g * y
      BY <1>5, <1>14 DEF Positive
    <2>3. n * g <= y * g
      BY <1>5, <1>10, <2>1, <2>2 DEF Positive
    <2> QED  BY <1>5, <1>10, <2>3 DEF Positive
  <1>17. n = y
    BY <1>10, <1>15, <1>16 DEF Positive
  <1> QED  BY <1>9, <1>10, <1>11, <1>12, <1>17 DEF Lowest, Ratio, Positive

\* What is in lowest terms is so in one way.
LEMMA Same ==
    ASSUME NEW a \in Int, NEW b \in Positive, NEW c \in Int, NEW d \in Positive,
           a * d = c * b
    PROVE  Fraction(a, b) = Fraction(c, d)
  <1> DEFINE p == Fraction(a, b)
             q == Fraction(c, d)
  <1>1. Lowest(p, a, b) /\ Lowest(q, c, d)
    BY FractionIs
  <1> HIDE DEF p, q
  <1>2. /\ p \in Ratio /\ p.num \in Int /\ p.den \in Positive /\ p.num * b = a * p.den
        /\ q \in Ratio /\ q.num \in Int /\ q.den \in Positive /\ q.num * d = c * q.den
    BY <1>1 DEF Lowest, Ratio, Positive
  <1>3. b \in Int /\ b # 0 /\ d \in Int /\ d # 0
    BY DEF Positive
  <1>4. p.num * d = c * p.den
    <2>1. (p.num * d) * b = (p.num * b) * d /\ (a * p.den) * d = (a * d) * p.den
      BY <1>2, <1>3 DEF Positive
    <2>2. (c * b) * p.den = (c * p.den) * b
      BY <1>2, <1>3 DEF Positive
    <2>3. (p.num * d) * b = (c * p.den) * b
      BY <1>2, <2>1, <2>2
    <2>4. p.num * d \in Int /\ c * p.den \in Int
      BY <1>2, <1>3 DEF Positive
    <2> QED  BY <1>3, <2>3, <2>4, Cancel
  <1>5. q.num * b = a * q.den
    <2>1. (q.num * b) * d = (q.num * d) * b /\ (c * q.den) * b = (c * b) * q.den
      BY <1>2, <1>3 DEF Positive
    <2>2. (a * d) * q.den = (a * q.den) * d
      BY <1>2, <1>3 DEF Positive
    <2>3. (q.num * b) * d = (a * q.den) * d
      BY <1>2, <2>1, <2>2
    <2>4. q.num * b \in Int /\ a * q.den \in Int
      BY <1>2, <1>3 DEF Positive
    <2> QED  BY <1>3, <2>3, <2>4, Cancel
  <1>6. p.den = q.den
    <2>1. q.den <= p.den
      BY <1>1, <1>2, <1>4 DEF Lowest
    <2>2. p.den <= q.den
      BY <1>1, <1>2, <1>5 DEF Lowest
    <2> QED  BY <1>2, <2>1, <2>2 DEF Positive
  <1>7. p.num = q.num
    BY <1>2, <1>3, <1>4, <1>6, Cancel
  <1>8. p = [num |-> p.num, den |-> p.den] /\ q = [num |-> q.num, den |-> q.den]
    BY <1>2 DEF Ratio
  <1> QED  BY <1>6, <1>7, <1>8 DEF p, q

-----------------------------------------------------------------------------
\* What the operations of Fractions do, whatever the terms they are given in.

\* The fraction p is worth a over b.
Is(p, a, b) == p \in Ratio /\ p.num * b = a * p.den

LEMMA RatioParts ==
    ASSUME NEW p \in Ratio
    PROVE  p.num \in Int /\ p.den \in Int /\ p.den \in Positive /\ p.den > 0
  BY DEF Ratio, Positive

LEMMA ItsOwn == ASSUME NEW p \in Ratio PROVE Is(p, p.num, p.den)
  BY RatioParts DEF Is

LEMMA FractionIsItself ==
    ASSUME NEW a \in Int, NEW b \in Positive
    PROVE  Is(Fraction(a, b), a, b)
  BY FractionIs DEF Lowest, Is

LEMMA WholeIs ==
    ASSUME NEW x \in Int
    PROVE  Whole(x) \in Ratio /\ Is(Whole(x), x, 1)
  BY DEF Whole, Is, Ratio

LEMMA ProductPositive ==
    ASSUME NEW a \in Positive, NEW b \in Positive
    PROVE  a * b \in Positive
  BY DEF Positive

\* Four numbers in the order the products below need.
LEMMA Swap ==
    ASSUME NEW a \in Int, NEW b \in Int, NEW c \in Int, NEW d \in Int
    PROVE  (a * b) * (c * d) = (a * c) * (b * d) /\ (a * b) * (c * d) = (a * d) * (b * c)
  <1>1. (a * b) * (c * d) = a * (b * (c * d)) /\ (a * c) * (b * d) = a * (c * (b * d))
        /\ (a * d) * (b * c) = a * (d * (b * c))
    OBVIOUS
  <1>2. b * (c * d) = c * (b * d) /\ b * (c * d) = d * (b * c)
    OBVIOUS
  <1> QED  BY <1>1, <1>2

LEMMA PlusMinusIs ==
    ASSUME NEW p, NEW q, NEW a \in Int, NEW b \in Positive, NEW c \in Int, NEW d \in Positive,
           Is(p, a, b), Is(q, c, d)
    PROVE  /\ Plus(p, q) = Fraction(a * d + c * b, b * d)
           /\ Minus(p, q) = Fraction(a * d - c * b, b * d)
           /\ b * d \in Positive /\ a * d + c * b \in Int /\ a * d - c * b \in Int
  <1> DEFINE pn == p.num
             pd == p.den
             qn == q.num
             qd == q.den
  <1>1. /\ pn \in Int /\ qn \in Int /\ pd \in Positive /\ qd \in Positive
        /\ pn * b = a * pd /\ qn * d = c * qd
    BY RatioParts DEF Is
  <1>2. /\ Plus(p, q) = Fraction(pn * qd + qn * pd, pd * qd)
        /\ Minus(p, q) = Fraction(pn * qd - qn * pd, pd * qd)
    BY DEF Plus, Minus
  <1> HIDE DEF pn, pd, qn, qd
  <1>3. pd \in Int /\ qd \in Int /\ b \in Int /\ d \in Int
    BY <1>1 DEF Positive
  <1>4. pd * qd \in Positive /\ b * d \in Positive
    BY <1>1, ProductPositive
  <1>5. (pn * qd) * (b * d) = (a * d) * (pd * qd)
    <2>1. (pn * qd) * (b * d) = (pn * b) * (qd * d)
      BY <1>1, <1>3, Swap
    <2>2. (a * pd) * (qd * d) = (a * d) * (pd * qd)
      BY <1>1, <1>3, Swap
    <2> QED  BY <1>1, <2>1, <2>2
  <1>6. (qn * pd) * (b * d) = (c * b) * (pd * qd)
    <2>1. (qn * pd) * (b * d) = (qn * d) * (pd * b)
      BY <1>1, <1>3, Swap
    <2>2. (c * qd) * (pd * b) = (c * b) * (qd * pd)
      BY <1>1, <1>3, Swap
    <2>3. qd * pd = pd * qd
      BY <1>3
    <2> QED  BY <1>1, <2>1, <2>2, <2>3
  <1> DEFINE e == pn * qd
             f == qn * pd
             g == a * d
             h == c * b
             m == b * d
             n == pd * qd
  <1>7. e \in Int /\ f \in Int /\ g \in Int /\ h \in Int /\ m \in Int /\ n \in Int
    BY <1>1, <1>3
  <1>8. e * m = g * n /\ f * m = h * n
    BY <1>5, <1>6
  <1>9. m \in Positive /\ n \in Positive
    BY <1>4
  <1>10. Plus(p, q) = Fraction(e + f, n) /\ Minus(p, q) = Fraction(e - f, n)
    BY <1>2
  <1> HIDE DEF e, f, g, h, m, n
  <1>11. (e + f) * m = (g + h) * n /\ (e - f) * m = (g - h) * n
    BY <1>7, <1>8
  <1>12. Fraction(e + f, n) = Fraction(g + h, m) /\ Fraction(e - f, n) = Fraction(g - h, m)
    <2>1. e + f \in Int /\ g + h \in Int /\ e - f \in Int /\ g - h \in Int
      BY <1>7
    <2> QED  BY <1>9, <1>11, <2>1, Same
  <1>13. g + h \in Int /\ g - h \in Int
    BY <1>7
  <1> QED  BY <1>9, <1>10, <1>12, <1>13 DEF g, h, m

LEMMA PlusIs ==
    ASSUME NEW p, NEW q, NEW a \in Int, NEW b \in Positive, NEW c \in Int, NEW d \in Positive,
           Is(p, a, b), Is(q, c, d)
    PROVE  Plus(p, q) = Fraction(a * d + c * b, b * d)
  <1>1. /\ Plus(p, q) = Fraction(a * d + c * b, b * d)
        /\ Minus(p, q) = Fraction(a * d - c * b, b * d)
        /\ b * d \in Positive /\ a * d + c * b \in Int /\ a * d - c * b \in Int
    BY PlusMinusIs, Z3
  <1> QED  BY <1>1

LEMMA MinusIs ==
    ASSUME NEW p, NEW q, NEW a \in Int, NEW b \in Positive, NEW c \in Int, NEW d \in Positive,
           Is(p, a, b), Is(q, c, d)
    PROVE  Minus(p, q) = Fraction(a * d - c * b, b * d)
  <1>1. /\ Plus(p, q) = Fraction(a * d + c * b, b * d)
        /\ Minus(p, q) = Fraction(a * d - c * b, b * d)
        /\ b * d \in Positive /\ a * d + c * b \in Int /\ a * d - c * b \in Int
    BY PlusMinusIs, Z3
  <1> QED  BY <1>1

LEMMA ProductsType ==
    ASSUME NEW a \in Int, NEW b \in Positive, NEW c \in Int, NEW d \in Positive
    PROVE  b * d \in Positive /\ a * d + c * b \in Int /\ a * d - c * b \in Int
  BY ProductPositive DEF Positive

LEMMA TimesIs ==
    ASSUME NEW p, NEW q, NEW a \in Int, NEW b \in Positive, NEW c \in Int, NEW d \in Positive,
           Is(p, a, b), Is(q, c, d)
    PROVE  Times(p, q) = Fraction(a * c, b * d) /\ b * d \in Positive /\ a * c \in Int
  <1> DEFINE pn == p.num
             pd == p.den
             qn == q.num
             qd == q.den
  <1>1. /\ pn \in Int /\ qn \in Int /\ pd \in Positive /\ qd \in Positive
        /\ pn * b = a * pd /\ qn * d = c * qd
    BY RatioParts DEF Is
  <1>2. Times(p, q) = Fraction(pn * qn, pd * qd)
    BY DEF Times
  <1> HIDE DEF pn, pd, qn, qd
  <1>3. pd \in Int /\ qd \in Int /\ b \in Int /\ d \in Int
    BY <1>1 DEF Positive
  <1>4. (pn * qn) * (b * d) = (a * c) * (pd * qd)
    <2>1. (pn * qn) * (b * d) = (pn * b) * (qn * d)
      BY <1>1, <1>3, Swap
    <2>2. (a * pd) * (c * qd) = (a * c) * (pd * qd)
      BY <1>1, <1>3, Swap
    <2> QED  BY <1>1, <2>1, <2>2
  <1>5. pd * qd \in Positive /\ b * d \in Positive
    BY <1>1, ProductPositive
  <1>6. pn * qn \in Int /\ a * c \in Int
    BY <1>1
  <1> QED  BY <1>2, <1>4, <1>5, <1>6, Same

LEMMA OverIs ==
    ASSUME NEW p, NEW a \in Int, NEW b \in Positive, NEW n \in Positive, Is(p, a, b)
    PROVE  Over(p, n) = Fraction(a, b * n) /\ b * n \in Positive
  <1> DEFINE pn == p.num
             pd == p.den
  <1>1. pn \in Int /\ pd \in Positive /\ pn * b = a * pd
    BY RatioParts DEF Is
  <1>2. Over(p, n) = Fraction(pn, pd * n)
    BY DEF Over
  <1> HIDE DEF pn, pd
  <1>3. pd \in Int /\ b \in Int /\ n \in Int
    BY <1>1 DEF Positive
  <1>4. pn * (b * n) = a * (pd * n)
    <2>1. pn * (b * n) = (pn * b) * n /\ (a * pd) * n = a * (pd * n)
      BY <1>1, <1>3
    <2> QED  BY <1>1, <2>1
  <1>5. pd * n \in Positive /\ b * n \in Positive
    BY <1>1, ProductPositive
  <1> QED  BY <1>1, <1>2, <1>4, <1>5, Same

LEMMA Scaled ==
    ASSUME NEW a \in Int, NEW b \in Int, NEW g \in Positive
    PROVE  (a < b <=> a * g < b * g) /\ (a <= b <=> a * g <= b * g)
  <1>1. (b - a) * g = b * g - a * g
    BY DEF Positive
  <1>2. b - a > 0 => (b - a) * g > 0
    BY DEF Positive
  <1>3. b - a < 0 => (b - a) * g < 0
    BY DEF Positive
  <1>4. a * g \in Int /\ b * g \in Int
    BY DEF Positive
  <1>5. a = b => a * g = b * g
    OBVIOUS
  <1> QED  BY <1>1, <1>2, <1>3, <1>4, <1>5

LEMMA LessIs ==
    ASSUME NEW p, NEW q, NEW a \in Int, NEW b \in Positive, NEW c \in Int, NEW d \in Positive,
           Is(p, a, b), Is(q, c, d)
    PROVE  Less(p, q) <=> a * d < c * b
  <1> DEFINE pn == p.num
             pd == p.den
             qn == q.num
             qd == q.den
  <1>1. /\ pn \in Int /\ qn \in Int /\ pd \in Positive /\ qd \in Positive
        /\ pn * b = a * pd /\ qn * d = c * qd
    BY RatioParts DEF Is
  <1>2. Less(p, q) <=> pn * qd < qn * pd
    BY DEF Less
  <1> HIDE DEF pn, pd, qn, qd
  <1>3. pd \in Int /\ qd \in Int /\ b \in Int /\ d \in Int
    BY <1>1 DEF Positive
  <1>4. pd * qd \in Positive /\ b * d \in Positive
    BY <1>1, ProductPositive
  <1>5. (pn * qd) * (b * d) = (a * d) * (pd * qd)
    <2>1. (pn * qd) * (b * d) = (pn * b) * (qd * d)
      BY <1>1, <1>3, Swap
    <2>2. (a * pd) * (qd * d) = (a * d) * (pd * qd)
      BY <1>1, <1>3, Swap
    <2> QED  BY <1>1, <2>1, <2>2
  <1>6. (qn * pd) * (b * d) = (c * b) * (pd * qd)
    <2>1. (qn * pd) * (b * d) = (qn * d) * (pd * b)
      BY <1>1, <1>3, Swap
    <2>2. (c * qd) * (pd * b) = (c * b) * (qd * pd)
      BY <1>1, <1>3, Swap
    <2>3. qd * pd = pd * qd
      BY <1>3
    <2> QED  BY <1>1, <2>1, <2>2, <2>3
  <1>7. pn * qd \in Int /\ qn * pd \in Int /\ a * d \in Int /\ c * b \in Int
    BY <1>1, <1>3
  <1>8. pn * qd < qn * pd <=> (pn * qd) * (b * d) < (qn * pd) * (b * d)
    BY <1>4, <1>7, Scaled
  <1>9. a * d < c * b <=> (a * d) * (pd * qd) < (c * b) * (pd * qd)
    BY <1>4, <1>7, Scaled
  <1> QED  BY <1>2, <1>5, <1>6, <1>8, <1>9

LEMMA DivideIs ==
    ASSUME NEW p, NEW q, NEW a \in Int, NEW b \in Positive, NEW c \in Positive, NEW d \in Positive,
           Is(p, a, b), Is(q, c, d)
    PROVE  Divide(p, q) = Fraction(a * d, b * c) /\ b * c \in Positive /\ a * d \in Int
  <1> DEFINE pn == p.num
             pd == p.den
             qn == q.num
             qd == q.den
  <1>1. /\ pn \in Int /\ qn \in Int /\ pd \in Positive /\ qd \in Positive
        /\ pn * b = a * pd /\ qn * d = c * qd
    BY RatioParts DEF Is
  <1>2. Divide(p, q) = Fraction(pn * qd, pd * qn)
    BY DEF Divide
  <1> HIDE DEF pn, pd, qn, qd
  <1>3. pd \in Int /\ qd \in Int /\ b \in Int /\ d \in Int /\ c \in Int
    BY <1>1 DEF Positive
  <1>4. qn \in Positive
    <2>1. c * qd \in Positive
      BY <1>1, ProductPositive
    <2>2. qn * d > 0
      BY <1>1, <2>1 DEF Positive
    <2>3. qn > 0
      BY <1>1, <2>2 DEF Positive
    <2> QED  BY <1>1, <2>3 DEF Positive
  <1>5. (pn * qd) * (b * c) = (a * d) * (pd * qn)
    <2>1. (pn * qd) * (b * c) = (pn * b) * (qd * c)
      BY <1>1, <1>3, Swap
    <2>2. qd * c = d * qn
      BY <1>1, <1>3
    <2>3. (a * pd) * (d * qn) = (a * d) * (pd * qn)
      BY <1>1, <1>3, Swap
    <2> QED  BY <1>1, <2>1, <2>2, <2>3
  <1>6. pd * qn \in Positive /\ b * c \in Positive
    BY <1>1, <1>4, ProductPositive
  <1>7. pn * qd \in Int /\ a * d \in Int
    BY <1>1, <1>3
  <1> QED  BY <1>2, <1>5, <1>6, <1>7, Same

\* A fraction in lowest terms is zero only as Zero.
LEMMA ZeroIs ==
    ASSUME NEW a \in Int, NEW b \in Positive
    PROVE  Fraction(a, b) = Zero <=> a = 0
  <1>1. ASSUME a = 0 PROVE Fraction(a, b) = Zero
    <2> DEFINE p == Fraction(a, b)
    <2>1. Lowest(p, a, b)
      BY FractionIs
    <2> HIDE DEF p
    <2>2. p \in Ratio /\ p.num \in Int /\ p.den \in Positive /\ p.num * b = 0
      BY <1>1, <2>1, RatioParts DEF Lowest
    <2>3. p.num = 0
      BY <2>2 DEF Positive
    <2>4. 0 * b = a * 1 /\ 1 \in Positive /\ 0 \in Int
      BY <1>1 DEF Positive
    <2>5. p.den <= 1
      BY <2>1, <2>4 DEF Lowest
    <2>6. p.den = 1
      BY <2>2, <2>5 DEF Positive
    <2>7. p = [num |-> p.num, den |-> p.den]
      BY <2>2 DEF Ratio
    <2> QED  BY <2>3, <2>6, <2>7 DEF p, Zero, Whole
  <1>2. ASSUME Fraction(a, b) = Zero PROVE a = 0
    <2>1. Is(Zero, a, b)
      BY <1>2, FractionIsItself
    <2>2. 0 * b = a * 1
      BY <2>1 DEF Is, Zero, Whole
    <2> QED  BY <2>2 DEF Positive
  <1> QED  BY <1>1, <1>2

\* Floor is the whole number next below.
LEMMA FloorIs ==
    ASSUME NEW p \in Ratio
    PROVE  /\ Floor(p) \in Int
           /\ Floor(p) * p.den <= p.num /\ p.num < (Floor(p) + 1) * p.den
  <1> DEFINE a == p.num
             b == p.den
             q == a \div b
  <1>1. a \in Int /\ b \in Positive
    BY RatioParts
  <1>2. Floor(p) = q
    BY DEF Floor
  <1> HIDE DEF a, b
  <1>3. q \in Int /\ b * q <= a /\ a < b * q + b
    BY <1>1 DEF Positive
  <1> HIDE DEF q
  <1>4. b * q = q * b /\ b * q + b = (q + 1) * b
    BY <1>1, <1>3 DEF Positive
  <1>5. q * b <= a /\ a < (q + 1) * b
    BY <1>3, <1>4
  <1> QED  BY <1>2, <1>3, <1>5 DEF a, b

-----------------------------------------------------------------------------
\* The loops of the model: sums over a part of the samples, and their laws.

\* What the loops of the model do with what they have, in their mth turn.
Turn(rule, m, v) ==
    CASE rule.does = "add"    -> v + rule.a[m - 1]
      [] rule.does = "larger" -> Larger(v, rule.a[m])

\* A function that follows such a loop as far as n.
Follows(f, rule, base, n) ==
    f = [m \in 0 .. n |-> IF m = 0 THEN base ELSE Turn(rule, m, f[m - 1])]

LEMMA SameTurns ==
    ASSUME NEW rule, NEW base, NEW n \in Nat, NEW m \in Nat, NEW f, NEW g,
           Follows(f, rule, base, n), Follows(g, rule, base, m)
    PROVE  \A l \in 0 .. n : l \in 0 .. m => f[l] = g[l]
  <1> DEFINE S == {l \in Nat : l \in 0 .. n /\ l \in 0 .. m => f[l] = g[l]}
  <1>1. 0 \in S
    BY DEF Follows
  <1>2. ASSUME NEW l \in S PROVE l + 1 \in S
    <2> SUFFICES ASSUME l + 1 \in 0 .. n, l + 1 \in 0 .. m PROVE f[l + 1] = g[l + 1]
      OBVIOUS
    <2>1. f[l + 1] = Turn(rule, l + 1, f[l]) /\ g[l + 1] = Turn(rule, l + 1, g[l])
      BY Z3 DEF Follows
    <2> QED  BY <2>1
  <1> HIDE DEF S
  <1>3. \A l \in Nat : l \in S
    <2>1. S \in SUBSET Nat
      BY DEF S
    <2> QED  BY <1>1, <1>2, <2>1, Induction
  <1> QED  BY <1>3 DEF S

LEMMA TurnsExist == \A rule, base : \A n \in Nat : \E f : Follows(f, rule, base, n)
  <1> SUFFICES ASSUME NEW rule, NEW base PROVE \A n \in Nat : \E f : Follows(f, rule, base, n)
    OBVIOUS
  <1> DEFINE S == {n \in Nat : \E f : Follows(f, rule, base, n)}
  <1>1. 0 \in S
    <2>1. Follows([m \in 0 .. 0 |-> base], rule, base, 0)
      BY DEF Follows
    <2> QED  BY <2>1
  <1>2. ASSUME NEW n \in S PROVE n + 1 \in S
    <2>1. PICK f : Follows(f, rule, base, n)
      OBVIOUS
    <2> DEFINE g == [m \in 0 .. n + 1 |-> IF m = n + 1 THEN Turn(rule, n + 1, f[n]) ELSE f[m]]
    <2>2. \A m \in 0 .. n : f[m] = IF m = 0 THEN base ELSE Turn(rule, m, f[m - 1])
      BY <2>1 DEF Follows
    <2>3. \A m \in 0 .. n + 1 : g[m] = IF m = 0 THEN base ELSE Turn(rule, m, g[m - 1])
      BY <2>2
    <2>4. Follows(g, rule, base, n + 1)
      BY <2>3 DEF Follows
    <2> QED  BY <2>4
  <1> HIDE DEF S
  <1>3. \A n \in Nat : n \in S
    <2>1. S \in SUBSET Nat
      BY DEF S
    <2> QED  BY <1>1, <1>2, <2>1, Induction
  <1> QED  BY <1>3 DEF S

\* So a function defined by such a loop is one that follows it for ever.
Loops(f, rule, base) ==
    f = [m \in Nat |-> IF m = 0 THEN base ELSE Turn(rule, m, f[m - 1])]

LEMMA LoopIsDefined == \A rule, base : \E f : Loops(f, rule, base)
  <1> SUFFICES ASSUME NEW rule, NEW base PROVE \E f : Loops(f, rule, base)
    OBVIOUS
  <1> DEFINE upTo(n) == CHOOSE f : Follows(f, rule, base, n)
             all == [m \in Nat |-> upTo(m)[m]]
  <1>1. \A n \in Nat : Follows(upTo(n), rule, base, n)
    BY TurnsExist
  <1> HIDE DEF upTo
  <1>2. ASSUME NEW m \in Nat
        PROVE  all[m] = IF m = 0 THEN base ELSE Turn(rule, m, all[m - 1])
    <2>1. CASE m = 0
      BY <1>1, <2>1 DEF Follows
    <2>2. CASE m # 0
      <3>1. m - 1 \in Nat /\ m - 1 \in 0 .. m /\ m - 1 \in 0 .. m - 1
        BY <2>2
      <3>2. upTo(m)[m] = Turn(rule, m, upTo(m)[m - 1])
        BY <1>1, <2>2 DEF Follows
      <3>3. upTo(m)[m - 1] = upTo(m - 1)[m - 1]
        BY <1>1, <3>1, SameTurns
      <3> QED  BY <2>2, <3>1, <3>2, <3>3
    <2> QED  BY <2>1, <2>2
  <1>3. all = [m \in Nat |-> IF m = 0 THEN base ELSE Turn(rule, m, all[m - 1])]
    BY <1>2
  <1> HIDE DEF all
  <1> QED  BY <1>3 DEF Loops

-----------------------------------------------------------------------------
LEMMA TotalStep ==
    ASSUME NEW a
    PROVE  /\ Total(a, 0) = 0
           /\ \A n \in Nat : Total(a, n + 1) = Total(a, n) + a[n]
  <1> DEFINE sums(s) == s = [m \in Nat |-> IF m = 0 THEN 0 ELSE s[m - 1] + a[m - 1]]
             s == CHOOSE s : sums(s)
  <1>1. \E f : sums(f)
    <2> DEFINE rule == [does |-> "add", a |-> a]
    <2>1. \A m, v : Turn(rule, m, v) = v + a[m - 1]
      BY DEF Turn
    <2> HIDE DEF rule
    <2>2. PICK f : Loops(f, rule, 0)
      BY LoopIsDefined
    <2> QED  BY <2>1, <2>2 DEF Loops
  <1>2. sums(s)
    BY <1>1
  <1>3. \A n : Total(a, n) = s[n]
    BY DEF Total
  <1> HIDE DEF s
  <1>4. s[0] = 0 /\ \A n \in Nat : s[n + 1] = s[n] + a[n]
    BY <1>2
  <1> QED  BY <1>3, <1>4

\* A function with a whole number for each of 0, 1, 2, ...
Numbers == [Nat -> Int]

LEMMA TotalType == ASSUME NEW a \in Numbers PROVE \A n \in Nat : Total(a, n) \in Int
  <1> DEFINE S == {n \in Nat : Total(a, n) \in Int}
  <1>1. 0 \in S /\ \A n \in S : n + 1 \in S
    BY TotalStep DEF Numbers
  <1> HIDE DEF S
  <1>2. S \in SUBSET Nat
    BY DEF S
  <1>3. \A n \in Nat : n \in S
    BY <1>1, <1>2, Induction
  <1> QED  BY <1>3 DEF S

\* What is added in one place is added to the total.
LEMMA TotalAdds ==
    ASSUME NEW a \in Numbers, NEW b \in Numbers, NEW i \in Nat, NEW v \in Int,
           \A m \in Nat : b[m] = IF m = i THEN a[m] + v ELSE a[m]
    PROVE  \A n \in Nat : Total(b, n) = Total(a, n) + (IF i < n THEN v ELSE 0)
  <1> DEFINE S == {n \in Nat : Total(b, n) = Total(a, n) + (IF i < n THEN v ELSE 0)}
  <1>1. 0 \in S
    BY TotalStep
  <1>2. ASSUME NEW n \in S PROVE n + 1 \in S
    <2>1. /\ Total(b, n + 1) = Total(b, n) + b[n] /\ Total(a, n + 1) = Total(a, n) + a[n]
          /\ Total(b, n) = Total(a, n) + (IF i < n THEN v ELSE 0)
      BY TotalStep
    <2>2. Total(a, n) \in Int /\ a[n] \in Int /\ n \in Nat
      BY TotalType DEF Numbers
    <2>3. b[n] = IF n = i THEN a[n] + v ELSE a[n]
      BY <2>2
    <2>4. Total(b, n + 1) = Total(a, n + 1) + (IF i < n + 1 THEN v ELSE 0)
      BY <2>1, <2>2, <2>3
    <2> QED  BY <2>4
  <1> HIDE DEF S
  <1>3. S \in SUBSET Nat
    BY DEF S
  <1>4. \A n \in Nat : n \in S
    BY <1>1, <1>2, <1>3, Induction
  <1> QED  BY <1>4 DEF S

\* Totals are linear.
Combines(d, x, a, y, b, z, c) == \A m \in Nat : d[m] = x * a[m] + y * b[m] + z * c[m]

LEMMA TotalCombines ==
    ASSUME NEW a \in Numbers, NEW b \in Numbers, NEW c \in Numbers, NEW d \in Numbers,
           NEW x \in Int, NEW y \in Int, NEW z \in Int, Combines(d, x, a, y, b, z, c)
    PROVE  \A n \in Nat : Total(d, n) = x * Total(a, n) + y * Total(b, n) + z * Total(c, n)
  <1> DEFINE S == {n \in Nat : Total(d, n) = x * Total(a, n) + y * Total(b, n) + z * Total(c, n)}
  <1>1. 0 \in S
    BY TotalStep
  <1>2. ASSUME NEW n \in S PROVE n + 1 \in S
    <2> DEFINE A == Total(a, n)
               B == Total(b, n)
               C == Total(c, n)
               p == a[n]
               q == b[n]
               r == c[n]
    <2>1. /\ Total(d, n + 1) = Total(d, n) + d[n] /\ Total(a, n + 1) = A + p
          /\ Total(b, n + 1) = B + q /\ Total(c, n + 1) = C + r
          /\ Total(d, n) = x * A + y * B + z * C
      BY TotalStep
    <2>2. A \in Int /\ B \in Int /\ C \in Int /\ p \in Int /\ q \in Int /\ r \in Int /\ n \in Nat
      BY TotalType DEF Numbers
    <2>3. d[n] = x * p + y * q + z * r
      BY <2>2 DEF Combines
    <2> HIDE DEF A, B, C, p, q, r
    <2>4. x * (A + p) = x * A + x * p /\ y * (B + q) = y * B + y * q /\ z * (C + r) = z * C + z * r
      BY <2>2
    <2> DEFINE xA == x * A
               xp == x * p
               yB == y * B
               yq == y * q
               zC == z * C
               zr == z * r
    <2>5. xA \in Int /\ xp \in Int /\ yB \in Int /\ yq \in Int /\ zC \in Int /\ zr \in Int
      BY <2>2
    <2>6. Total(d, n + 1) = (xA + yB + zC) + (xp + yq + zr)
      BY <2>1, <2>3
    <2>7. x * (A + p) + y * (B + q) + z * (C + r) = (xA + xp) + (yB + yq) + (zC + zr)
      BY <2>4
    <2> HIDE DEF xA, xp, yB, yq, zC, zr
    <2>8. Total(d, n + 1) = x * (A + p) + y * (B + q) + z * (C + r)
      BY <2>5, <2>6, <2>7
    <2> QED  BY <2>1, <2>8
  <1> HIDE DEF S
  <1>3. S \in SUBSET Nat
    BY DEF S
  <1>4. \A n \in Nat : n \in S
    BY <1>1, <1>2, <1>3, Induction
  <1> QED  BY <1>4 DEF S

\* A total of what is never negative is not, and is zero only of zeros.
LEMMA TotalOfNone ==
    ASSUME NEW a \in Numbers, \A m \in Nat : a[m] >= 0
    PROVE  \A n \in Nat : /\ Total(a, n) >= 0
                          /\ Total(a, n) = 0 <=> \A m \in 0 .. n - 1 : a[m] = 0
  <1> DEFINE S == {n \in Nat : /\ Total(a, n) >= 0
                               /\ Total(a, n) = 0 <=> \A m \in 0 .. n - 1 : a[m] = 0}
  <1>1. 0 \in S
    BY TotalStep
  <1>2. ASSUME NEW n \in S PROVE n + 1 \in S
    <2>1. /\ Total(a, n + 1) = Total(a, n) + a[n] /\ Total(a, n) \in Int /\ a[n] \in Int
          /\ Total(a, n) >= 0 /\ a[n] >= 0
          /\ Total(a, n) = 0 <=> \A m \in 0 .. n - 1 : a[m] = 0
      BY TotalStep, TotalType DEF Numbers
    <2>2. Total(a, n + 1) >= 0 /\ (Total(a, n + 1) = 0 <=> Total(a, n) = 0 /\ a[n] = 0)
      BY <2>1
    <2>3. (\A m \in 0 .. (n + 1) - 1 : a[m] = 0) <=> (\A m \in 0 .. n - 1 : a[m] = 0) /\ a[n] = 0
      <3>1. \A m : m \in 0 .. (n + 1) - 1 <=> m \in 0 .. n - 1 \/ m = n
        OBVIOUS
      <3> QED  BY <3>1
    <2> QED  BY <2>1, <2>2, <2>3
  <1> HIDE DEF S
  <1>3. S \in SUBSET Nat
    BY DEF S
  <1>4. \A n \in Nat : n \in S
    BY <1>1, <1>2, <1>3, Induction
  <1> QED  BY <1>4 DEF S

-----------------------------------------------------------------------------
\* Running moments as sums over a set of samples: one more sample.

Sample == [class : Class, t : Nat]

\* One value for each sample of S, and nothing for the others.
At(S, val) == [m \in Nat |-> IF m + 1 \in S THEN val[m + 1] ELSE 0]

EachTime(s) == [m \in 1 .. Len(s) |-> s[m].t]
EachSquare(s) == [m \in 1 .. Len(s) |-> s[m].t * s[m].t]

\* The sums of the times of some of the samples s, and of their squares.
TimesIn(s, S) == Total(At(S, EachTime(s)), Len(s))
SquaresIn(s, S) == Total(At(S, EachSquare(s)), Len(s))

LEMMA SampleTimes ==
    ASSUME NEW s \in Seq(Sample)
    PROVE  /\ Len(s) \in Nat
           /\ \A m \in 1 .. Len(s) : s[m] \in Sample /\ s[m].class \in Class /\ s[m].t \in Nat
           /\ EachTime(s) \in [1 .. Len(s) -> Int] /\ EachSquare(s) \in [1 .. Len(s) -> Int]
           /\ \A m \in 1 .. Len(s) : EachTime(s)[m] = s[m].t /\ EachSquare(s)[m] = s[m].t * s[m].t
  <1>1. Len(s) \in Nat /\ \A m \in 1 .. Len(s) : s[m] \in Sample
    OBVIOUS
  <1>2. \A m \in 1 .. Len(s) : s[m].class \in Class /\ s[m].t \in Nat
    BY <1>1 DEF Sample
  <1>3. \A m \in 1 .. Len(s) : s[m].t \in Int /\ s[m].t * s[m].t \in Int
    BY <1>2
  <1> QED  BY <1>1, <1>2, <1>3 DEF EachTime, EachSquare

LEMMA AtType ==
    ASSUME NEW n \in Nat, NEW S \in SUBSET (1 .. n), NEW val \in [1 .. n -> Int]
    PROVE  At(S, val) \in Numbers
  <1>1. \A m \in Nat : m + 1 \in S => val[m + 1] \in Int
    OBVIOUS
  <1> QED  BY <1>1 DEF At, Numbers

LEMMA AtAdds ==
    ASSUME NEW n \in Nat, NEW S \in SUBSET (1 .. n), NEW val \in [1 .. n -> Int],
           NEW i \in 1 .. n, i \notin S
    PROVE  Total(At(S \cup {i}, val), n) = Total(At(S, val), n) + val[i]
  <1> DEFINE a == At(S, val)
             b == At(S \cup {i}, val)
             v == val[i]
             j == i - 1
  <1>1. S \cup {i} \in SUBSET (1 .. n) /\ j \in Nat /\ j < n /\ v \in Int
    OBVIOUS
  <1>2. a \in Numbers /\ b \in Numbers
    BY <1>1, AtType
  <1>3. \A m \in Nat : b[m] = IF m = j THEN a[m] + v ELSE a[m]
    <2> SUFFICES ASSUME NEW m \in Nat PROVE b[m] = IF m = j THEN a[m] + v ELSE a[m]
      OBVIOUS
    <2>1. m + 1 = i <=> m = j
      BY <1>1
    <2>2. a[m] = IF m + 1 \in S THEN val[m + 1] ELSE 0
      BY DEF At
    <2>3. b[m] = IF m + 1 \in S \/ m + 1 = i THEN val[m + 1] ELSE 0
      BY DEF At
    <2> QED  BY <1>1, <2>1, <2>2, <2>3
  <1> HIDE DEF a, b, v, j
  <1>4. Total(b, n) = Total(a, n) + (IF j < n THEN v ELSE 0)
    BY <1>1, <1>2, <1>3, TotalAdds
  <1> QED  BY <1>1, <1>4 DEF a, b, v

LEMMA SubsetCount ==
    ASSUME NEW n \in Nat, NEW S \in SUBSET (1 .. n)
    PROVE  /\ IsFiniteSet(S) /\ Cardinality(S) \in Nat /\ Cardinality(S) <= n
           /\ Cardinality(S) = 0 <=> S = {}
           /\ \A i \in 1 .. n : i \notin S => Cardinality(S \cup {i}) = Cardinality(S) + 1
  <1>1. IsFiniteSet(1 .. n) /\ Cardinality(1 .. n) = n
    BY FS_Interval
  <1>2. IsFiniteSet(S) /\ Cardinality(S) <= n
    BY <1>1, FS_Subset
  <1> QED  BY <1>2, FS_CardinalityType, FS_EmptySet, FS_AddElement

LEMMA SumsOfSamples ==
    ASSUME NEW s \in Seq(Sample), NEW S \in SUBSET (1 .. Len(s))
    PROVE  /\ TimesIn(s, S) \in Int /\ SquaresIn(s, S) \in Int
           /\ \A i \in 1 .. Len(s) : i \notin S =>
                /\ TimesIn(s, S \cup {i}) = TimesIn(s, S) + s[i].t
                /\ SquaresIn(s, S \cup {i}) = SquaresIn(s, S) + s[i].t * s[i].t
           /\ S = {} => TimesIn(s, S) = 0 /\ SquaresIn(s, S) = 0
  <1>1. /\ Len(s) \in Nat
        /\ At(S, EachTime(s)) \in Numbers /\ At(S, EachSquare(s)) \in Numbers
    BY SampleTimes, AtType
  <1>2. TimesIn(s, S) \in Int /\ SquaresIn(s, S) \in Int
    BY <1>1, TotalType DEF TimesIn, SquaresIn
  <1>3. ASSUME NEW i \in 1 .. Len(s), i \notin S
        PROVE  /\ TimesIn(s, S \cup {i}) = TimesIn(s, S) + s[i].t
               /\ SquaresIn(s, S \cup {i}) = SquaresIn(s, S) + s[i].t * s[i].t
    <2>1. EachTime(s)[i] = s[i].t /\ EachSquare(s)[i] = s[i].t * s[i].t
      BY SampleTimes
    <2>2. Total(At(S \cup {i}, EachTime(s)), Len(s)) = Total(At(S, EachTime(s)), Len(s)) + EachTime(s)[i]
      BY <1>1, <1>3, SampleTimes, AtAdds
    <2>3. Total(At(S \cup {i}, EachSquare(s)), Len(s)) = Total(At(S, EachSquare(s)), Len(s)) + EachSquare(s)[i]
      BY <1>1, <1>3, SampleTimes, AtAdds
    <2> QED  BY <2>1, <2>2, <2>3 DEF TimesIn, SquaresIn
  <1>4. ASSUME S = {} PROVE TimesIn(s, S) = 0 /\ SquaresIn(s, S) = 0
    <2>1. \A m \in Nat : At(S, EachTime(s))[m] = 0 /\ At(S, EachSquare(s))[m] = 0
      BY <1>4 DEF At
    <2>2. Total(At(S, EachTime(s)), Len(s)) = 0 /\ Total(At(S, EachSquare(s)), Len(s)) = 0
      BY <1>1, <2>1, TotalOfNone
    <2> QED  BY <2>2 DEF TimesIn, SquaresIn
  <1> QED  BY <1>2, <1>3, <1>4

-----------------------------------------------------------------------------
\* What Welch::push has for a class after the samples in S.
MomentsIn(s, S) ==
    LET k == Cardinality(S)
        sum == TimesIn(s, S)
    IN  [n |-> k,
         mean |-> IF S = {} THEN Zero ELSE Fraction(sum, k),
         m2 |-> IF S = {} THEN Zero ELSE Fraction(k * SquaresIn(s, S) - sum * sum, k)]

\* One more of x, for k of sum a and sum of squares q: the fractions.
LEMMA OneMore ==
    ASSUME NEW k \in Positive, NEW a \in Int, NEW q \in Int, NEW x \in Int
    PROVE  LET delta == Minus(Whole(x), Fraction(a, k))
               mean == Plus(Fraction(a, k), Over(delta, k + 1))
               m2 == Plus(Fraction(k * q - a * a, k), Times(delta, Minus(Whole(x), mean)))
           IN  /\ mean = Fraction(a + x, k + 1)
               /\ m2 = Fraction((k + 1) * (q + x * x) - (a + x) * (a + x), k + 1)
  <1> DEFINE delta == Minus(Whole(x), Fraction(a, k))
             mean == Plus(Fraction(a, k), Over(delta, k + 1))
             rest == Minus(Whole(x), mean)
             m2 == Plus(Fraction(k * q - a * a, k), Times(delta, rest))
             d == x * k - a
             h == k + 1
             v == k * q - a * a
  <1>1. k \in Int /\ k > 0 /\ 1 \in Positive /\ h \in Positive /\ h \in Int /\ d \in Int /\ v \in Int
    BY DEF Positive
  <1>2. Is(Whole(x), x, 1) /\ Is(Fraction(a, k), a, k) /\ Is(Fraction(v, k), v, k)
    BY <1>1, WholeIs, FractionIsItself
  <1>3. delta = Fraction(d, k)
    <2>1. delta = Fraction(x * k - a * 1, 1 * k)
      BY <1>1, <1>2, MinusIs
    <2>2. x * k - a * 1 = d /\ 1 * k = k
      BY <1>1
    <2> QED  BY <2>1, <2>2
  <1>4. Is(delta, d, k)
    BY <1>1, <1>3, FractionIsItself
  <1> HIDE DEF delta, h, d, v
  <1>5. Over(delta, h) = Fraction(d, k * h) /\ k * h \in Positive
    BY <1>1, <1>4, OverIs
  <1>6. Is(Over(delta, h), d, k * h)
    BY <1>1, <1>5, FractionIsItself
  <1>7. mean = Fraction(a + x, h)
    <2>1. /\ mean = Fraction(a * (k * h) + d * k, k * (k * h))
          /\ k * (k * h) \in Positive /\ a * (k * h) + d * k \in Int
      <3>1. mean = Plus(Fraction(a, k), Over(delta, h))
        BY DEF mean, h
      <3>2. Is(Fraction(a, k), a, k) /\ Is(Over(delta, h), d, k * h)
        BY <1>2, <1>6
      <3> HIDE DEF mean
      <3>3. mean = Fraction(a * (k * h) + d * k, k * (k * h))
        BY <1>1, <1>5, <3>1, <3>2, PlusIs
      <3> QED  BY <1>1, <1>5, <3>3, ProductsType
    <2>2. a + x \in Int /\ k * h = k * k + k
      BY <1>1 DEF h
    <2>3. (a * (k * h) + d * k) * h = (a + x) * (k * (k * h))
      <3>1. a * (k * h) = a * (k * k) + a * k /\ d * k = x * (k * k) - a * k
        BY <1>1, <2>2 DEF d
      <3> DEFINE kk == k * k
      <3>2. kk \in Int /\ a * kk \in Int /\ x * kk \in Int /\ a * k \in Int
        BY <1>1
      <3>3. a * (k * h) + d * k = a * kk + x * kk
        BY <3>1, <3>2
      <3>4. a * kk + x * kk = (a + x) * kk
        BY <3>2
      <3>5. k * (k * h) = kk * h
        BY <1>1
      <3> HIDE DEF kk
      <3>6. ((a + x) * kk) * h = (a + x) * (kk * h)
        BY <1>1, <2>2, <3>2
      <3> QED  BY <3>3, <3>4, <3>5, <3>6
    <2> QED  BY <1>1, <2>1, <2>2, <2>3, Same
  <1> HIDE DEF mean
  <1>8. rest = Fraction(d, h)
    <2>1. a + x \in Int
      OBVIOUS
    <2>2. Is(mean, a + x, h)
      BY <1>1, <1>7, <2>1, FractionIsItself
    <2>3. rest = Fraction(x * h - (a + x) * 1, 1 * h)
      BY <1>1, <1>2, <2>1, <2>2, MinusIs
    <2>4. x * h - (a + x) * 1 = d /\ 1 * h = h
      BY <1>1 DEF h, d
    <2> QED  BY <2>3, <2>4
  <1>9. Is(rest, d, h)
    BY <1>1, <1>8, FractionIsItself
  <1> HIDE DEF rest
  <1>10. Times(delta, rest) = Fraction(d * d, k * h) /\ d * d \in Int
    BY <1>1, <1>4, <1>9, TimesIs
  <1>11. Is(Times(delta, rest), d * d, k * h)
    BY <1>5, <1>10, FractionIsItself
  <1>12. /\ m2 = Fraction(v * (k * h) + (d * d) * k, k * (k * h))
         /\ k * (k * h) \in Positive /\ v * (k * h) + (d * d) * k \in Int
    <2>1. m2 = Plus(Fraction(v, k), Times(delta, rest))
      BY DEF v
    <2> DEFINE dd == d * d
    <2>2. Is(Fraction(v, k), v, k) /\ Is(Times(delta, rest), dd, k * h) /\ dd \in Int
      BY <1>2, <1>10, <1>11
    <2> HIDE DEF m2, dd
    <2>3. m2 = Fraction(v * (k * h) + dd * k, k * (k * h))
      BY <1>1, <1>5, <2>1, <2>2, PlusIs
    <2>4. k * (k * h) \in Positive /\ v * (k * h) + dd * k \in Int
      BY <1>1, <1>5, <2>2, ProductsType
    <2> QED  BY <2>3, <2>4 DEF dd
  <1> DEFINE e == h * (q + x * x) - (a + x) * (a + x)
  <1>13. e \in Int
    BY <1>1
  <1>14. v * h + d * d = e * k
    <2> DEFINE aa == a * a
               xx == x * x
               ax == a * x
               kq == k * q
               kx == k * x
    <2>1. aa \in Int /\ xx \in Int /\ ax \in Int /\ kq \in Int /\ kx \in Int
      BY <1>1
    <2>2. v * h = kq * k + kq - aa * k - aa
      <3>1. v = kq - aa
        BY DEF v
      <3> HIDE DEF kq, aa
      <3>2. (kq - aa) * (k + 1) = kq * k + kq - aa * k - aa
        BY <1>1, <2>1
      <3> QED  BY <3>1, <3>2 DEF h
    <2>3. d * d = kx * kx - 2 * (ax * k) + aa
      <3>1. d = kx - a
        BY <1>1 DEF d
      <3>2. (kx - a) * (kx - a) = kx * kx - 2 * (kx * a) + a * a
        BY <2>1
      <3>3. kx * a = ax * k
        BY <1>1
      <3> QED  BY <3>1, <3>2, <3>3
    <2>4. (a + x) * (a + x) = aa + 2 * ax + xx
      OBVIOUS
    <2>5. h * (q + xx) = kq + k * xx + q + xx
      BY <1>1, <2>1 DEF h
    <2>6. e = kq + k * xx + q - aa - 2 * ax
      BY <1>1, <2>1, <2>4, <2>5
    <2>7. e * k = kq * k + (k * xx) * k + q * k - aa * k - 2 * (ax * k)
      <3> DEFINE kxx == k * xx
      <3>1. kxx \in Int
        BY <1>1
      <3> HIDE DEF kq, aa, ax, kxx, e
      <3>2. e = kq + kxx + q - aa - 2 * ax
        BY <2>6 DEF kxx
      <3>3. (kq + kxx + q - aa - 2 * ax) * k = kq * k + kxx * k + q * k - aa * k - 2 * (ax * k)
        BY <1>1, <2>1, <3>1
      <3> QED  BY <3>2, <3>3 DEF kxx
    <2>8. kx * kx = (k * xx) * k /\ q * k = kq
      BY <1>1
    <2>9. kq * k \in Int /\ aa * k \in Int /\ ax * k \in Int /\ kx * kx \in Int
      BY <1>1, <2>1
    <2> QED  BY <2>1, <2>2, <2>3, <2>7, <2>8, <2>9
  <1> HIDE DEF e
  <1>15. (v * (k * h) + (d * d) * k) * h = e * (k * (k * h))
    <2> DEFINE dd == d * d
    <2>1. dd \in Int
      BY <1>1
    <2>2. v * (k * h) = (v * h) * k
      BY <1>1
    <2>3. v * (k * h) + dd * k = (v * h + dd) * k
      BY <1>1, <2>1, <2>2
    <2>4. v * (k * h) + dd * k = (e * k) * k
      BY <1>14, <2>3
    <2>5. ((e * k) * k) * h = e * (k * (k * h))
      BY <1>1, <1>13
    <2> QED  BY <2>4, <2>5
  <1>16. m2 = Fraction(e, h)
    BY <1>1, <1>12, <1>13, <1>15, Same
  <1> QED  BY <1>7, <1>16 DEF delta, mean, rest, m2, e, h, v

-----------------------------------------------------------------------------
\* The same sums in two passes, and when nothing varies.

\* The first of a class.
LEMMA FirstPush ==
    ASSUME NEW x \in Int
    PROVE  Pushed([n |-> 0, mean |-> Zero, m2 |-> Zero], x)
               = [n |-> 1, mean |-> Fraction(x, 1), m2 |-> Zero]
  <1> DEFINE delta == Minus(Whole(x), Zero)
             mean == Plus(Zero, Over(delta, 1))
             rest == Minus(Whole(x), mean)
             m2 == Plus(Zero, Times(delta, rest))
  <1>1. /\ 1 \in Positive /\ 0 \in Int /\ Is(Whole(x), x, 1) /\ Is(Zero, 0, 1)
    BY WholeIs DEF Positive, Zero
  <1>2. delta = Fraction(x, 1)
    <2>1. delta = Fraction(x * 1 - 0 * 1, 1 * 1)
      BY <1>1, MinusIs
    <2> QED  BY <2>1
  <1>3. Is(delta, x, 1)
    BY <1>1, <1>2, FractionIsItself
  <1> HIDE DEF delta
  <1>4. Over(delta, 1) = Fraction(x, 1)
    <2>1. Over(delta, 1) = Fraction(x, 1 * 1)
      BY <1>1, <1>3, OverIs
    <2> QED  BY <2>1
  <1>5. Is(Over(delta, 1), x, 1)
    BY <1>1, <1>4, FractionIsItself
  <1>6. mean = Fraction(x, 1)
    <2>1. mean = Fraction(0 * 1 + x * 1, 1 * 1)
      BY <1>1, <1>5, PlusIs
    <2> QED  BY <2>1
  <1>7. Is(mean, x, 1)
    BY <1>1, <1>6, FractionIsItself
  <1> HIDE DEF mean
  <1>8. rest = Fraction(0, 1)
    <2>1. rest = Fraction(x * 1 - x * 1, 1 * 1)
      BY <1>1, <1>7, MinusIs
    <2>2. x * 1 - x * 1 = 0 /\ 1 * 1 = 1
      OBVIOUS
    <2> QED  BY <2>1, <2>2
  <1>9. Is(rest, 0, 1)
    BY <1>1, <1>8, FractionIsItself
  <1> HIDE DEF rest
  <1>10. Times(delta, rest) = Fraction(0, 1)
    <2>1. Times(delta, rest) = Fraction(x * 0, 1 * 1)
      BY <1>1, <1>3, <1>9, TimesIs
    <2> QED  BY <2>1
  <1>11. Is(Times(delta, rest), 0, 1)
    BY <1>1, <1>10, FractionIsItself
  <1>12. m2 = Zero
    <2>1. m2 = Fraction(0 * 1 + 0 * 1, 1 * 1)
      BY <1>1, <1>11, PlusIs
    <2> QED  BY <1>1, <2>1, ZeroIs
  <1>13. Pushed([n |-> 0, mean |-> Zero, m2 |-> Zero], x) = [n |-> 1, mean |-> mean, m2 |-> m2]
    BY DEF Pushed, delta, mean, rest
  <1> QED  BY <1>6, <1>12, <1>13

LEMMA PushedIsMoments ==
    ASSUME NEW s \in Seq(Sample), NEW S \in SUBSET (1 .. Len(s)), NEW i \in 1 .. Len(s), i \notin S
    PROVE  Pushed(MomentsIn(s, S), s[i].t) = MomentsIn(s, S \cup {i})
  <1> DEFINE k == Cardinality(S)
             a == TimesIn(s, S)
             q == SquaresIn(s, S)
             x == s[i].t
             U == S \cup {i}
  <1>1. /\ k \in Nat /\ Cardinality(U) = k + 1 /\ (k = 0 <=> S = {})
        /\ a \in Int /\ q \in Int /\ x \in Int
        /\ TimesIn(s, U) = a + x /\ SquaresIn(s, U) = q + x * x
        /\ S = {} => a = 0 /\ q = 0
    <2>1. Len(s) \in Nat /\ s[i].t \in Nat
      BY SampleTimes
    <2> QED  BY <2>1, SubsetCount, SumsOfSamples
  <1>2. U # {}
    OBVIOUS
  <1> HIDE DEF k, a, q, x, U
  <1> DEFINE m == MomentsIn(s, S)
  <1>3. MomentsIn(s, U) = [n |-> k + 1, mean |-> Fraction(a + x, k + 1),
                           m2 |-> Fraction((k + 1) * (q + x * x) - (a + x) * (a + x), k + 1)]
    BY <1>1, <1>2 DEF MomentsIn
  <1>4. CASE S = {}
    <2>1. k = 0 /\ a = 0 /\ q = 0
      BY <1>1, <1>4
    <2>2. m = [n |-> 0, mean |-> Zero, m2 |-> Zero]
      BY <1>4, <2>1 DEF MomentsIn, k
    <2>3. Pushed(m, x) = [n |-> 1, mean |-> Fraction(x, 1), m2 |-> Zero]
      BY <1>1, <2>2, FirstPush
    <2>4. (0 + 1) * (0 + x * x) - (0 + x) * (0 + x) = 0 /\ 0 + x = x /\ 0 + 1 = 1
      BY <1>1
    <2>5. Fraction(0, 1) = Zero
      BY ZeroIs DEF Positive
    <2> QED  BY <1>3, <2>1, <2>3, <2>4, <2>5 DEF U, x
  <1>5. CASE S # {}
    <2>1. k \in Positive
      BY <1>1, <1>5 DEF Positive
    <2>2. m = [n |-> k, mean |-> Fraction(a, k), m2 |-> Fraction(k * q - a * a, k)]
      BY <1>5 DEF MomentsIn, k, a, q
    <2> DEFINE delta == Minus(Whole(x), Fraction(a, k))
               mean == Plus(Fraction(a, k), Over(delta, k + 1))
               m2 == Plus(Fraction(k * q - a * a, k), Times(delta, Minus(Whole(x), mean)))
    <2>3. /\ mean = Fraction(a + x, k + 1)
          /\ m2 = Fraction((k + 1) * (q + x * x) - (a + x) * (a + x), k + 1)
      BY <1>1, <2>1, OneMore
    <2>4. Pushed(m, x) = [n |-> k + 1, mean |-> mean, m2 |-> m2]
      <3>1. m.n = k /\ m.mean = Fraction(a, k) /\ m.m2 = Fraction(k * q - a * a, k)
        BY <2>2
      <3> HIDE DEF m
      <3> QED  BY <3>1 DEF Pushed
    <2> HIDE DEF mean, m2
    <2> QED  BY <1>3, <2>3, <2>4 DEF U, x
  <1> QED  BY <1>4, <1>5

-----------------------------------------------------------------------------
\* The two passes of the model are those sums.
LEMMA OnesCount ==
    ASSUME NEW n \in Nat, NEW S \in SUBSET (1 .. n)
    PROVE  Total(At(S, [m \in 1 .. n |-> 1]), n) = Cardinality(S)
  <1> DEFINE ones == [m \in 1 .. n |-> 1]
             count(k) == Total(At(S \cap 1 .. k, ones), n)
             D == {k \in Nat : k <= n => count(k) = Cardinality(S \cap 1 .. k)}
  <1>1. ones \in [1 .. n -> Int] /\ \A k \in 1 .. n : ones[k] = 1
    OBVIOUS
  <1> HIDE DEF ones
  <1>2. 0 \in D
    <2>1. S \cap 1 .. 0 = {} /\ {} \in SUBSET (1 .. n)
      OBVIOUS
    <2>2. At({}, ones) \in Numbers
      BY <1>1, <2>1, AtType
    <2>3. \A m \in Nat : At({}, ones)[m] = 0
      BY DEF At
    <2>4. Total(At({}, ones), n) = 0
      BY <2>2, <2>3, TotalOfNone
    <2> QED  BY <2>1, <2>4, FS_EmptySet
  <1>3. ASSUME NEW k \in D PROVE k + 1 \in D
    <2> SUFFICES ASSUME k + 1 <= n PROVE count(k + 1) = Cardinality(S \cap 1 .. k + 1)
      OBVIOUS
    <2> DEFINE P == S \cap 1 .. k
    <2>1. count(k) = Cardinality(P) /\ k \in Nat /\ P \in SUBSET (1 .. n) /\ k + 1 \in 1 .. n /\ k + 1 \notin P
      OBVIOUS
    <2>2. CASE k + 1 \in S
      <3>1. S \cap 1 .. k + 1 = P \cup {k + 1}
        BY <2>1, <2>2
      <3> HIDE DEF P
      <3>2. Total(At(P \cup {k + 1}, ones), n) = Total(At(P, ones), n) + 1
        BY <1>1, <2>1, AtAdds
      <3>3. Cardinality(P \cup {k + 1}) = Cardinality(P) + 1
        BY <2>1, SubsetCount
      <3> QED  BY <2>1, <3>1, <3>2, <3>3 DEF P
    <2>3. CASE k + 1 \notin S
      <3>1. S \cap 1 .. k + 1 = P
        BY <2>1, <2>3
      <3> QED  BY <2>1, <3>1
    <2> QED  BY <2>2, <2>3
  <1> HIDE DEF D
  <1>4. D \in SUBSET Nat
    BY DEF D
  <1>5. n \in D
    BY <1>2, <1>3, <1>4, Induction
  <1>6. S \cap 1 .. n = S
    OBVIOUS
  <1>7. Total(At(S \cap 1 .. n, ones), n) = Cardinality(S \cap 1 .. n)
    BY <1>5 DEF D
  <1>8. Total(At(S, ones), n) = Cardinality(S)
    BY <1>6, <1>7
  <1> QED  BY <1>8 DEF ones

\* The squares of the distances from the mean, times as often as S divides them.
Far(s, S) ==
    LET far(m) == Cardinality(S) * s[m].t - TimesIn(s, S)
    IN  [m \in Nat |-> IF m + 1 \in S THEN far(m + 1) * far(m + 1) ELSE 0]

\* What the running moments have of them.
Spread(s, S) == Cardinality(S) * SquaresIn(s, S) - TimesIn(s, S) * TimesIn(s, S)

LEMMA Distances ==
    ASSUME NEW s \in Seq(Sample), NEW S \in SUBSET (1 .. Len(s))
    PROVE  /\ Far(s, S) \in Numbers /\ \A m \in Nat : Far(s, S)[m] >= 0
           /\ Total(Far(s, S), Len(s)) = Cardinality(S) * Spread(s, S)
           /\ Spread(s, S) \in Int
  <1> DEFINE N == Len(s)
             k == Cardinality(S)
             a == TimesIn(s, S)
             q == SquaresIn(s, S)
             x1 == At(S, EachTime(s))
             x2 == At(S, EachSquare(s))
             x0 == At(S, [m \in 1 .. N |-> 1])
             sq == Far(s, S)
             y == 0 - 2 * (k * a)
  <1>1. N \in Nat /\ k \in Nat /\ a \in Int /\ q \in Int
    <2>1. N \in Nat
      BY SampleTimes
    <2> QED  BY <2>1, SubsetCount, SumsOfSamples
  <1>2. \A m \in Nat : m + 1 \in S => s[m + 1].t \in Int
    BY SampleTimes
  <1>4. x0 \in Numbers /\ x1 \in Numbers /\ x2 \in Numbers
    <2>1. [m \in 1 .. N |-> 1] \in [1 .. N -> Int]
      OBVIOUS
    <2> QED  BY <1>1, <2>1, AtType, SampleTimes
  <1>5. Total(x0, N) = k /\ Total(x1, N) = a /\ Total(x2, N) = q
    BY <1>1, OnesCount DEF TimesIn, SquaresIn
  <1>6. /\ \A m \in Nat : m + 1 \in S =>
              x0[m] = 1 /\ x1[m] = s[m + 1].t /\ x2[m] = s[m + 1].t * s[m + 1].t
        /\ \A m \in Nat : m + 1 \notin S => x0[m] = 0 /\ x1[m] = 0 /\ x2[m] = 0
    BY SampleTimes DEF At
  <1>8. /\ \A m \in Nat : m + 1 \in S => sq[m] = (k * s[m + 1].t - a) * (k * s[m + 1].t - a)
        /\ \A m \in Nat : m + 1 \notin S => sq[m] = 0
        /\ sq = [m \in Nat |-> sq[m]]
    BY DEF Far
  <1>13. Spread(s, S) = k * q - a * a
    BY DEF Spread
  <1> HIDE DEF k, a, q, x0, x1, x2, sq, N
  <1>14. \A m \in Nat : sq[m] >= 0
    <2> SUFFICES ASSUME NEW m \in Nat, m + 1 \in S PROVE sq[m] >= 0
      BY <1>8
    <2> DEFINE d == k * s[m + 1].t - a
    <2>1. d \in Int /\ sq[m] = d * d
      BY <1>1, <1>2, <1>8
    <2> HIDE DEF d
    <2>2. d * d >= 0
      BY <2>1
    <2> QED  BY <2>1, <2>2
  <1>9. \A m \in Nat : sq[m] = (k * k) * x2[m] + y * x1[m] + (a * a) * x0[m]
    <2> SUFFICES ASSUME NEW m \in Nat
                 PROVE  sq[m] = (k * k) * x2[m] + y * x1[m] + (a * a) * x0[m]
      OBVIOUS
    <2>1. k \in Int /\ k * k \in Int /\ a * a \in Int /\ y \in Int
      BY <1>1 DEF Positive
    <2>2. CASE m + 1 \in S
      <3> DEFINE t == s[m + 1].t
      <3>1. t \in Int /\ sq[m] = (k * t - a) * (k * t - a) /\ x0[m] = 1 /\ x1[m] = t /\ x2[m] = t * t
        BY <1>2, <1>6, <1>8, <2>2
      <3> HIDE DEF t
      <3> DEFINE kt == k * t
      <3>2. kt \in Int /\ kt * kt = (k * k) * (t * t) /\ kt * a = (k * a) * t
        BY <1>1, <2>1, <3>1
      <3>3. (kt - a) * (kt - a) = kt * kt - 2 * (kt * a) + a * a
        <4> HIDE DEF kt
        <4> QED  BY <1>1, <3>2
      <3>4. y * t = 0 - 2 * ((k * a) * t) /\ (a * a) * 1 = a * a
        BY <1>1, <2>1, <3>1
      <3>5. (k * k) * (t * t) \in Int /\ (k * a) * t \in Int
        BY <1>1, <2>1, <3>1
      <3> DEFINE u == (k * k) * (t * t)
                 v == (k * a) * t
                 w == a * a
      <3>6. sq[m] = u - 2 * v + w /\ y * t = 0 - 2 * v /\ w \in Int /\ u \in Int /\ v \in Int
        BY <2>1, <3>1, <3>2, <3>3, <3>4, <3>5
      <3>7. sq[m] = u + y * t + w
        <4> HIDE DEF u, v, w
        <4> QED  BY <3>6
      <3> QED  BY <3>1, <3>4, <3>7
    <2>3. CASE m + 1 \notin S
      BY <1>6, <1>8, <2>1, <2>3
    <2> QED  BY <2>2, <2>3
  <1>10. sq \in Numbers
    <2>1. \A m \in Nat : sq[m] \in Int
      <3> SUFFICES ASSUME NEW m \in Nat PROVE sq[m] \in Int
        OBVIOUS
      <3>1. x0[m] \in Int /\ x1[m] \in Int /\ x2[m] \in Int
        BY <1>4 DEF Numbers
      <3>2. k * k \in Int /\ a * a \in Int /\ y \in Int
        BY <1>1 DEF Positive
      <3> HIDE DEF y
      <3>3. (k * k) * x2[m] \in Int /\ y * x1[m] \in Int /\ (a * a) * x0[m] \in Int
        BY <3>1, <3>2
      <3> QED  BY <1>9, <3>3
    <2> QED  BY <1>8, <2>1 DEF Numbers
  <1>11. Total(sq, N) = (k * k) * q + y * a + (a * a) * k
    <2> DEFINE kk == k * k
               aa == a * a
    <2>1. kk \in Int /\ aa \in Int /\ y \in Int
      BY <1>1 DEF Positive
    <2>3. Combines(sq, kk, x2, y, x1, aa, x0)
      BY <1>9 DEF Combines
    <2> HIDE DEF y, kk, aa
    <2>4. Total(sq, N) = kk * Total(x2, N) + y * Total(x1, N) + aa * Total(x0, N)
      BY <1>1, <1>4, <1>10, <2>1, <2>3, TotalCombines
    <2>2. Total(sq, N) = (k * k) * Total(x2, N) + y * Total(x1, N) + (a * a) * Total(x0, N)
      BY <2>4 DEF kk, aa
    <2> QED  BY <1>5, <2>2
  <1>12. Total(sq, N) = k * (k * q - a * a)
    <2> DEFINE z == k * q - a * a
    <2>1. k \in Int /\ z \in Int
      BY <1>1
    <2>2. Total(sq, N) = k * z
      <3> DEFINE aa == a * a
                 ka == k * a
      <3>1. aa \in Int /\ ka \in Int
        BY <1>1, <2>1
      <3>2. (k * k) * q = k * (k * q) /\ aa * k = k * aa /\ ka * a = k * aa
        BY <1>1, <2>1
      <3>3. y * a = 0 - 2 * (ka * a)
        BY <1>1, <2>1
      <3>4. k * z = k * (k * q) - k * aa
        BY <1>1, <2>1, <3>1
      <3>5. k * (k * q) \in Int /\ k * aa \in Int
        BY <1>1, <2>1, <3>1
      <3> DEFINE u == k * (k * q)
                 v == k * aa
      <3>6. Total(sq, N) = u + (0 - 2 * v) + v /\ u \in Int /\ v \in Int /\ k * z = u - v
        BY <1>11, <3>2, <3>3, <3>4, <3>5
      <3> HIDE DEF u, v, z
      <3> QED  BY <3>6
    <2> QED  BY <2>2
  <1> QED  BY <1>1, <1>10, <1>12, <1>13, <1>14 DEF sq, N, k

LEMMA TwoPasses ==
    ASSUME samples \in Seq(Sample), NEW S \in SUBSET (1 .. Len(samples)), S # {}
    PROVE  /\ MomentsIn(samples, S) = [n |-> Cardinality(S), mean |-> MeanOf(S), m2 |-> SquaresOf(S)]
           /\ MeanOf(S) = Fraction(TimesIn(samples, S), Cardinality(S))
           /\ SquaresOf(S) = Fraction(Spread(samples, S), Cardinality(S))
  <1> DEFINE N == Len(samples)
             k == Cardinality(S)
             a == TimesIn(samples, S)
             z == Spread(samples, S)
  <1>1. N \in Nat /\ k \in Positive /\ a \in Int /\ z \in Int
    <2>1. N \in Nat
      BY SampleTimes
    <2> QED  BY <2>1, SubsetCount, SumsOfSamples, Distances DEF Positive
  <1>2. TimesOf(S) = a
    <2>1. At(S, [m \in S |-> samples[m].t]) = At(S, EachTime(samples))
      BY DEF At, EachTime
    <2>2. TimesOf(S) = Total(At(S, [m \in S |-> samples[m].t]), N)
      BY DEF TimesOf, SumOver, At
    <2> QED  BY <2>1, <2>2 DEF TimesIn
  <1>3. SquaresOf(S) = Fraction(Total(Far(samples, S), N), k * k)
    <2> DEFINE far == [m \in S |-> k * samples[m].t - a]
    <2>1. At(S, [m \in S |-> far[m] * far[m]]) = Far(samples, S)
      BY DEF At, Far
    <2>2. SquaresOf(S) = Fraction(Total(At(S, [m \in S |-> far[m] * far[m]]), N), k * k)
      BY <1>2 DEF SquaresOf, SumOver, At
    <2> QED  BY <2>1, <2>2
  <1>4. Total(Far(samples, S), N) = k * z
    BY Distances
  <1>5. SquaresOf(S) = Fraction(z, k)
    <2> HIDE DEF k, z
    <2>1. k * z \in Int /\ k * k \in Positive /\ (k * z) * k = z * (k * k)
      BY <1>1, ProductPositive DEF Positive
    <2> QED  BY <1>1, <1>3, <1>4, <2>1, Same
  <1>6. MeanOf(S) = Fraction(a, k)
    BY <1>2 DEF MeanOf
  <1> QED  BY <1>5, <1>6 DEF MomentsIn, Spread

\* The spread is never negative, and none only among equals.
LEMMA NoSpread ==
    ASSUME NEW s \in Seq(Sample), NEW S \in SUBSET (1 .. Len(s)), S # {}
    PROVE  Spread(s, S) >= 0 /\ (Spread(s, S) = 0 <=> \A n, m \in S : s[n].t = s[m].t)
  <1> DEFINE N == Len(s)
             k == Cardinality(S)
             a == TimesIn(s, S)
             z == Spread(s, S)
             sq == Far(s, S)
             T0 == Total(sq, N)
             far(m) == k * s[m].t - a
  <1>1. N \in Nat /\ k \in Int /\ k > 0 /\ a \in Int
    <2>1. N \in Nat
      BY SampleTimes
    <2>2. k \in Nat /\ (k = 0 <=> S = {}) /\ a \in Int
      BY <2>1, SubsetCount, SumsOfSamples
    <2>3. k # 0
      BY <2>2, Zenon
    <2> HIDE DEF k, a, N
    <2> QED  BY <2>1, <2>2, <2>3
  <1>2. sq \in Numbers /\ z \in Int /\ T0 = k * z /\ \A m \in Nat : sq[m] >= 0
    BY Distances
  <1>3. \A m \in Nat : sq[m] = IF m + 1 \in S THEN far(m + 1) * far(m + 1) ELSE 0
    BY DEF Far
  <1>4. \A m \in S : s[m].t \in Int /\ m - 1 \in Nat /\ (m - 1) + 1 = m /\ m - 1 \in 0 .. N - 1
    BY <1>1, SampleTimes
  <1> HIDE DEF sq, z, far
  <1>5. T0 >= 0 /\ (T0 = 0 <=> \A m \in 0 .. N - 1 : sq[m] = 0)
    BY <1>1, <1>2, TotalOfNone
  <1> HIDE DEF T0, k, a
  <1>6. z >= 0 /\ (z = 0 <=> T0 = 0)
    BY <1>1, <1>2, <1>5
  <1>7. ASSUME T0 = 0, NEW n \in S, NEW m \in S PROVE s[n].t = s[m].t
    <2>1. \A l \in S : k * s[l].t = a
      <3> SUFFICES ASSUME NEW l \in S PROVE k * s[l].t = a
        OBVIOUS
      <3>1. sq[l - 1] = far(l) * far(l) /\ sq[l - 1] = 0
        BY <1>3, <1>4, <1>5, <1>7
      <3>2. k * s[l].t \in Int /\ far(l) \in Int
        BY <1>1, <1>4 DEF far
      <3>3. far(l) = 0
        BY <3>1, <3>2
      <3> QED  BY <1>1, <3>2, <3>3 DEF far
    <2>2. s[n].t * k = s[m].t * k
      BY <1>1, <1>4, <2>1
    <2> QED  BY <1>1, <1>4, <2>2, Cancel
  <1>8. ASSUME \A n, m \in S : s[n].t = s[m].t PROVE T0 = 0
    <2>1. PICK i \in S : TRUE
      OBVIOUS
    <2> DEFINE t == s[i].t
               ones == At(S, [m \in 1 .. N |-> 1])
               x1 == At(S, EachTime(s))
    <2>2. t \in Int /\ \A m \in S : s[m].t = t
      BY <1>4, <1>8, <2>1
    <2> HIDE DEF t
    <2>3. ones \in Numbers /\ x1 \in Numbers /\ Total(ones, N) = k /\ Total(x1, N) = a
      <3>1. [m \in 1 .. N |-> 1] \in [1 .. N -> Int]
        OBVIOUS
      <3> QED  BY <1>1, <3>1, AtType, SampleTimes, OnesCount DEF k, a, TimesIn
    <2>4. Combines(x1, t, ones, 0, ones, 0, ones)
      <3> SUFFICES ASSUME NEW m \in Nat PROVE x1[m] = t * ones[m] + 0 * ones[m] + 0 * ones[m]
        BY DEF Combines
      <3>1. CASE m + 1 \in S
        <4>1. x1[m] = s[m + 1].t /\ ones[m] = 1
          BY <3>1, SampleTimes DEF At
        <4> QED  BY <2>2, <3>1, <4>1
      <3>2. CASE m + 1 \notin S
        <4>1. x1[m] = 0 /\ ones[m] = 0
          BY <3>2 DEF At
        <4> QED  BY <2>2, <4>1
      <3> QED  BY <3>1, <3>2
    <2> HIDE DEF ones, x1
    <2>5. a = t * k
      <3>1. Total(x1, N) = t * Total(ones, N) + 0 * Total(ones, N) + 0 * Total(ones, N)
        BY <1>1, <2>2, <2>3, <2>4, TotalCombines
      <3> QED  BY <1>1, <2>2, <2>3, <3>1
    <2>6. \A m \in 0 .. N - 1 : sq[m] = 0
      <3>1. \A l \in S : far(l) = 0
        BY <1>1, <2>2, <2>5 DEF far
      <3> SUFFICES ASSUME NEW m \in 0 .. N - 1 PROVE sq[m] = 0
        OBVIOUS
      <3>2. m \in Nat /\ (m + 1 \in S => far(m + 1) = 0)
        BY <3>1
      <3>3. CASE m + 1 \in S
        <4>1. sq[m] = far(m + 1) * far(m + 1)
          BY <1>3, <3>2, <3>3
        <4> QED  BY <3>2, <3>3, <4>1
      <3>4. CASE m + 1 \notin S
        BY <1>3, <3>2, <3>4
      <3> QED  BY <3>3, <3>4
    <2> QED  BY <1>5, <2>6
  <1> QED  BY <1>6, <1>7, <1>8 DEF z

-----------------------------------------------------------------------------
\* Sorting: every sample has a rank of its own.

\* What sorting promises: each time has its place.
InOrder(s, o) ==
    /\ Len(o) = Len(s) /\ o \in Seq(Nat)
    /\ \A k \in 1 .. Len(s) :
        /\ \E n \in 1 .. Len(s) : o[k] = s[n].t
        /\ Cardinality({m \in 1 .. Len(s) : s[m].t < o[k]}) <= k - 1
        /\ Cardinality({m \in 1 .. Len(s) : s[m].t <= o[k]}) >= k
    /\ \A j, k \in 1 .. Len(s) : j <= k => o[j] <= o[k]

\* One sample comes before another.
Ahead(m, n) == samples[m].t < samples[n].t \/ (samples[m].t = samples[n].t /\ m < n)

AheadOf(n) == {m \in 1 .. Len(samples) : Ahead(m, n)}

LEMMA AheadIsOrder ==
    ASSUME samples \in Seq(Sample)
    PROVE  \A l, m, n \in 1 .. Len(samples) :
               /\ ~Ahead(n, n)
               /\ m # n => Ahead(m, n) \/ Ahead(n, m)
               /\ Ahead(l, m) /\ Ahead(m, n) => Ahead(l, n)
               /\ Ahead(m, n) => samples[m].t <= samples[n].t
               /\ samples[m].t < samples[n].t => Ahead(m, n)
  <1>1. \A n \in 1 .. Len(samples) : samples[n].t \in Nat /\ n \in Nat
    BY SampleTimes
  <1> QED  BY <1>1 DEF Ahead

LEMMA Ranks ==
    ASSUME samples \in Seq(Sample)
    PROVE  \A n \in 1 .. Len(samples) :
               /\ Before(n) = Cardinality(AheadOf(n)) /\ Before(n) \in 0 .. Len(samples) - 1
               /\ \A m \in 1 .. Len(samples) : Ahead(m, n) => Before(m) < Before(n)
  <1> DEFINE N == Len(samples)
  <1>1. N \in Nat
    BY SampleTimes
  <1>2. ASSUME NEW n \in 1 .. N
        PROVE  /\ Before(n) = Cardinality(AheadOf(n)) /\ AheadOf(n) \in SUBSET (1 .. N)
               /\ n \notin AheadOf(n) /\ Cardinality(AheadOf(n) \cup {n}) = Before(n) + 1
    <2>1. Before(n) = Cardinality(AheadOf(n)) /\ AheadOf(n) \in SUBSET (1 .. N)
      BY DEF Before, AheadOf, Ahead
    <2>2. n \notin AheadOf(n)
      BY AheadIsOrder DEF AheadOf
    <2> QED  BY <1>1, <2>1, <2>2, SubsetCount
  <1>3. ASSUME NEW n \in 1 .. N PROVE Before(n) \in 0 .. N - 1
    <2>1. AheadOf(n) \cup {n} \in SUBSET (1 .. N)
      BY <1>2
    <2>2. Cardinality(AheadOf(n) \cup {n}) <= N /\ Cardinality(AheadOf(n)) \in Nat
      BY <1>1, <1>2, <2>1, SubsetCount
    <2> QED  BY <1>1, <1>2, <2>2
  <1>4. ASSUME NEW n \in 1 .. N, NEW m \in 1 .. N, Ahead(m, n) PROVE Before(m) < Before(n)
    <2>1. AheadOf(m) \cup {m} \subseteq AheadOf(n)
      BY <1>4, AheadIsOrder DEF AheadOf
    <2>2. IsFiniteSet(AheadOf(n))
      BY <1>1, <1>2, SubsetCount
    <2>3. Cardinality(AheadOf(m) \cup {m}) <= Cardinality(AheadOf(n))
      BY <2>1, <2>2, FS_Subset
    <2>4. Before(m) \in Nat /\ Before(n) \in Nat
      BY <1>1, <1>3
    <2>5. Cardinality(AheadOf(m) \cup {m}) = Before(m) + 1 /\ Cardinality(AheadOf(n)) = Before(n)
      BY <1>2
    <2>6. Before(m) + 1 <= Before(n)
      BY <2>3, <2>5
    <2> QED  BY <2>4, <2>6
  <1> QED  BY <1>2, <1>3, <1>4

LEMMA EveryRank ==
    ASSUME samples \in Seq(Sample), NEW k \in 1 .. Len(samples)
    PROVE  \E n \in 1 .. Len(samples) : Before(n) = k - 1
  <1> DEFINE N == Len(samples)
             f == [n \in 1 .. N |-> Before(n)]
  <1>1. N \in Nat
    BY SampleTimes
  <1>2. f \in [1 .. N -> 0 .. N - 1]
    BY Ranks
  <1>3. \A m, n \in 1 .. N : m # n => Before(m) # Before(n)
    <2> SUFFICES ASSUME NEW m \in 1 .. N, NEW n \in 1 .. N, m # n PROVE Before(m) # Before(n)
      OBVIOUS
    <2>1. Ahead(m, n) \/ Ahead(n, m)
      BY AheadIsOrder
    <2>2. Before(m) \in Int /\ Before(n) \in Int
      BY Ranks, <1>1
    <2>3. Before(m) < Before(n) \/ Before(n) < Before(m)
      BY <2>1, Ranks
    <2> QED  BY <2>2, <2>3
  <1>4. f \in Injection(1 .. N, 0 .. N - 1)
    BY <1>2, <1>3 DEF Injection, IsInjective
  <1>5. /\ IsFiniteSet(1 .. N) /\ Cardinality(1 .. N) = N
        /\ IsFiniteSet(0 .. N - 1) /\ Cardinality(0 .. N - 1) = N
    <2> DEFINE M == N - 1
    <2>3. M \in Int /\ 0 \in Int /\ (N = 0 => M = -1) /\ (N # 0 => M >= 0)
      BY <1>1
    <2> HIDE DEF M
    <2>1. Cardinality(0 .. M) = (IF 0 > M THEN 0 ELSE M - 0 + 1) /\ IsFiniteSet(0 .. M)
      BY <2>3, FS_Interval
    <2>2. Cardinality(1 .. N) = (IF 1 > N THEN 0 ELSE N - 1 + 1) /\ IsFiniteSet(1 .. N)
      BY <1>1, FS_Interval
    <2>4. Cardinality(0 .. M) = N
      BY <1>1, <2>1, <2>3 DEF M
    <2> QED  BY <1>1, <2>1, <2>2, <2>4 DEF M
  <1>6. f \in Surjection(1 .. N, 0 .. N - 1)
    <2> HIDE DEF f
    <2> QED  BY <1>4, <1>5, FS_Injection
  <1>7. k - 1 \in 0 .. N - 1
    BY <1>1
  <1>8. PICK n \in 1 .. N : f[n] = k - 1
    <2> HIDE DEF f
    <2> QED  BY <1>6, <1>7 DEF Surjection
  <1> QED  BY <1>8

\* What Sort makes of the times.
TimesInOrder ==
    [k \in 1 .. Len(samples) |-> samples[CHOOSE n \in 1 .. Len(samples) : Before(n) = k - 1].t]

LEMMA SortOrders ==
    ASSUME samples \in Seq(Sample)
    PROVE  InOrder(samples, TimesInOrder)
  <1> DEFINE N == Len(samples)
             o == TimesInOrder
             at(k) == CHOOSE n \in 1 .. N : Before(n) = k - 1
  <1>1. N \in Nat
    BY SampleTimes
  <1>2. ASSUME NEW k \in 1 .. N PROVE at(k) \in 1 .. N /\ Before(at(k)) = k - 1
    BY EveryRank
  <1>3. o = [k \in 1 .. N |-> samples[at(k)].t]
    BY DEF TimesInOrder
  <1> HIDE DEF at, o, N
  <1>8. samples \in Seq(Sample) /\ N = Len(samples)
    BY DEF N
  <1>4. \A k \in 1 .. N : o[k] \in Nat /\ samples[at(k)].t \in Nat
    BY <1>2, <1>3, <1>8, SampleTimes
  <1>5. o \in Seq(Nat) /\ Len(o) = N
    <2>1. o \in [1 .. N -> Nat]
      BY <1>3, <1>4
    <2> QED  BY <1>1, <2>1
  <1>6. ASSUME NEW k \in 1 .. N
        PROVE  /\ Cardinality({m \in 1 .. N : samples[m].t < o[k]}) <= k - 1
               /\ Cardinality({m \in 1 .. N : samples[m].t <= o[k]}) >= k
    <2> DEFINE n == at(k)
               F == {m \in 1 .. N : samples[m].t < o[k]}
               L == {m \in 1 .. N : samples[m].t <= o[k]}
    <2>1. n \in 1 .. N /\ Before(n) = k - 1 /\ o[k] = samples[n].t /\ k \in Nat
      BY <1>2, <1>3
    <2> HIDE DEF n
    <2>2. Cardinality(AheadOf(n)) = k - 1 /\ AheadOf(n) \in SUBSET (1 .. N)
      BY <2>1, Ranks DEF AheadOf, N
    <2>3. IsFiniteSet(AheadOf(n)) /\ n \notin AheadOf(n)
      BY <1>1, <2>1, <2>2, SubsetCount, AheadIsOrder DEF AheadOf, N
    <2>4. Cardinality(F) <= k - 1
      <3>1. F \subseteq AheadOf(n)
        BY <2>1, AheadIsOrder DEF AheadOf, N
      <3> QED  BY <2>2, <2>3, <3>1, FS_Subset
    <2>5. Cardinality(L) >= k
      <3>1. AheadOf(n) \cup {n} \subseteq L
        BY <1>4, <2>1, AheadIsOrder DEF AheadOf, N
      <3>2. L \in SUBSET (1 .. N)
        OBVIOUS
      <3> HIDE DEF L
      <3>3. IsFiniteSet(L)
        BY <1>1, <3>2, SubsetCount
      <3>6. Cardinality(AheadOf(n) \cup {n}) = Cardinality(AheadOf(n)) + 1
        BY <1>1, <2>1, <2>2, <2>3, SubsetCount
      <3>4. Cardinality(AheadOf(n) \cup {n}) = k
        BY <2>1, <2>2, <3>6
      <3>5. Cardinality(AheadOf(n) \cup {n}) <= Cardinality(L) /\ Cardinality(L) \in Nat
        BY <3>1, <3>3, FS_Subset, FS_CardinalityType
      <3> QED  BY <2>1, <3>4, <3>5
    <2> QED  BY <2>4, <2>5
  <1>7. ASSUME NEW j \in 1 .. N, NEW k \in 1 .. N, j <= k PROVE o[j] <= o[k]
    <2> SUFFICES ASSUME o[k] < o[j] PROVE FALSE
      BY <1>4
    <2>1. Ahead(at(k), at(j))
      BY <1>2, <1>3, AheadIsOrder DEF N
    <2>2. Before(at(k)) < Before(at(j))
      BY <1>2, <2>1, Ranks DEF N
    <2> QED  BY <1>2, <1>7, <2>2
  <1> QED  BY <1>2, <1>3, <1>5, <1>6, <1>7, <1>8 DEF InOrder, o

-----------------------------------------------------------------------------
\* The parts kept, and where each ends.

PartOf(n, len) == Times(CROPS[n], Whole(len))

LEMMA FloorLess ==
    ASSUME NEW p \in Ratio, NEW k \in Int
    PROVE  k <= Floor(p) <=> ~Less(p, Whole(k))
  <1> DEFINE f == Floor(p)
             a == p.num
             b == p.den
  <1>1. a \in Int /\ b \in Positive /\ b \in Int /\ f \in Int /\ f * b <= a /\ a < (f + 1) * b
    BY RatioParts, FloorIs
  <1>2. Less(p, Whole(k)) <=> a * 1 < k * b
    BY DEF Less, Whole
  <1> HIDE DEF f, a, b
  <1>3. f * b \in Int /\ k * b \in Int /\ (f + 1) * b \in Int /\ f + 1 \in Int
    BY <1>1
  <1>4. k <= f <=> k * b <= f * b
    BY <1>1, Scaled
  <1>5. f + 1 <= k <=> (f + 1) * b <= k * b
    BY <1>1, <1>3, Scaled
  <1>6. k <= f \/ f + 1 <= k
    BY <1>1
  <1> QED  BY <1>1, <1>2, <1>3, <1>4, <1>5, <1>6 DEF f

LEMMA CropFacts ==
    /\ Len(CROPS) \in Nat /\ Len(CROPS) > 1
    /\ \A n \in 1 .. Len(CROPS) :
        /\ CROPS[n] \in Ratio
        /\ n = 1 <=> ~Less(CROPS[n], Whole(1))
        /\ n # 1 => CROPS[n].num >= 0 /\ ~Less(CROPS[n - 1], CROPS[n])
  <1>1. /\ Len(CROPS) \in Nat /\ Len(CROPS) > 1 /\ CROPS[1] = Whole(1)
        /\ \A n \in 1 .. Len(CROPS) : CROPS[n] \in Ratio
    BY CropsAssumption
  <1>2. ~Less(Whole(1), Whole(1))
    BY DEF Less, Whole
  <1>3. \A n \in 1 .. Len(CROPS) : n # 1 => n \in 2 .. Len(CROPS)
    BY <1>1
  <1> QED  BY <1>1, <1>2, <1>3, CropsAssumption

\* A part of len samples as a fraction, and where it ends.
LEMMA PartIs ==
    ASSUME NEW n \in 1 .. Len(CROPS), NEW len \in Nat
    PROVE  /\ PartOf(n, len) \in Ratio
           /\ Is(PartOf(n, len), CROPS[n].num * len, CROPS[n].den)
           /\ CROPS[n].num \in Int /\ CROPS[n].den \in Positive /\ CROPS[n].num * len \in Int
           /\ Is(CROPS[n], CROPS[n].num, CROPS[n].den)
  <1> DEFINE a == CROPS[n].num
             b == CROPS[n].den
  <1>1. a \in Int /\ b \in Positive /\ 1 \in Positive /\ len \in Int
    BY CropFacts, RatioParts DEF Positive
  <1>2. Is(CROPS[n], a, b) /\ Is(Whole(len), len, 1)
    BY <1>1, CropFacts, ItsOwn, WholeIs
  <1> HIDE DEF a, b
  <1>3. PartOf(n, len) = Fraction(a * len, b * 1)
    BY <1>1, <1>2, TimesIs DEF PartOf
  <1>4. b * 1 = b /\ a * len \in Int
    BY <1>1 DEF Positive
  <1>5. Is(PartOf(n, len), a * len, b)
    BY <1>1, <1>3, <1>4, FractionIsItself
  <1> QED  BY <1>1, <1>2, <1>4, <1>5 DEF Is, a, b

LEMMA PartEnds ==
    ASSUME NEW n \in 1 .. Len(CROPS), NEW len \in Nat, len # 0, n # 1
    PROVE  Floor(PartOf(n, len)) \in 0 .. len - 1
  <1> DEFINE a == CROPS[n].num
             b == CROPS[n].den
             p == PartOf(n, len)
             f == Floor(p)
  <1>1. /\ p \in Ratio /\ Is(p, a * len, b) /\ a \in Int /\ b \in Positive /\ a * len \in Int
        /\ Is(CROPS[n], a, b) /\ a >= 0 /\ Less(CROPS[n], Whole(1))
    BY PartIs, CropFacts
  <1>2. f \in Int
    BY <1>1, FloorIs
  <1> HIDE DEF a, b, p, f
  <1>3. /\ 1 \in Positive /\ 1 \in Int /\ len \in Positive /\ len \in Int /\ 0 \in Int /\ b \in Int /\ b > 0
        /\ Is(Whole(1), 1, 1) /\ Is(Whole(len), len, 1) /\ Is(Whole(0), 0, 1)
    BY <1>1, WholeIs DEF Positive
  <1>4. a < b
    <2>1. a * 1 < 1 * b
      BY <1>1, <1>3, LessIs
    <2> QED  BY <1>1, <1>3, <2>1
  <1>5. a * len < b * len /\ a * len >= 0
    <2>1. 0 * len <= a * len
      BY <1>1, <1>3, Scaled
    <2> QED  BY <1>1, <1>3, <1>4, <2>1, Scaled
  <1>6. Less(p, Whole(len))
    <2>1. (a * len) * 1 < len * b
      BY <1>1, <1>3, <1>5
    <2> QED  BY <1>1, <1>3, <2>1, LessIs
  <1>7. ~Less(p, Whole(0))
    <2>1. ~((a * len) * 1 < 0 * b)
      BY <1>1, <1>3, <1>5
    <2> QED  BY <1>1, <1>3, <2>1, LessIs
  <1>8. 0 <= f /\ ~(len <= f)
    BY <1>1, <1>3, <1>6, <1>7, FloorLess DEF f
  <1> QED  BY <1>2, <1>3, <1>8 DEF f, p

\* A smaller part ends no later.
LEMMA SmallerParts ==
    ASSUME NEW n \in 1 .. Len(CROPS), NEW len \in Nat, len # 0, n # 1
    PROVE  Floor(PartOf(n, len)) <= Floor(PartOf(n - 1, len))
  <1> DEFINE a == CROPS[n].num
             b == CROPS[n].den
             c == CROPS[n - 1].num
             d == CROPS[n - 1].den
             p == PartOf(n, len)
             q == PartOf(n - 1, len)
             f == Floor(p)
  <1>0. n - 1 \in 1 .. Len(CROPS)
    BY CropFacts
  <1>1. /\ p \in Ratio /\ Is(p, a * len, b) /\ a \in Int /\ b \in Positive /\ a * len \in Int
        /\ Is(CROPS[n], a, b)
    BY PartIs
  <1>2. /\ q \in Ratio /\ Is(q, c * len, d) /\ c \in Int /\ d \in Positive /\ c * len \in Int
        /\ Is(CROPS[n - 1], c, d) /\ ~Less(CROPS[n - 1], CROPS[n])
    BY <1>0, PartIs, CropFacts
  <1>3. f \in Int
    BY <1>1, FloorIs
  <1> HIDE DEF a, b, c, d, p, q
  <1>4. ~Less(p, Whole(f))
    BY <1>1, <1>3, FloorLess
  <1> HIDE DEF f
  <1>5. /\ 1 \in Positive /\ len \in Positive /\ len \in Int /\ b \in Int /\ d \in Int
        /\ Is(Whole(f), f, 1)
    BY <1>1, <1>2, <1>3, WholeIs DEF Positive
  <1>6. f * b <= a * len
    <2>1. ~((a * len) * 1 < f * b)
      BY <1>1, <1>3, <1>4, <1>5, LessIs
    <2>2. f * b \in Int
      BY <1>3, <1>5
    <2> QED  BY <1>1, <2>1, <2>2
  <1>7. a * d <= c * b
    <2>1. ~(c * b < a * d)
      BY <1>1, <1>2, LessIs
    <2>2. c * b \in Int /\ a * d \in Int
      BY <1>1, <1>2, <1>5
    <2> QED  BY <2>1, <2>2
  <1>8. f * d <= c * len
    <2>1. (f * b) * d <= (a * len) * d
      <3> DEFINE u == f * b
                 v == a * len
      <3>1. u \in Int /\ v \in Int /\ u <= v
        BY <1>1, <1>3, <1>5, <1>6
      <3> HIDE DEF u, v
      <3>2. u * d <= v * d
        BY <1>2, <3>1, Scaled
      <3> QED  BY <3>2 DEF u, v
    <2>2. (a * d) * len <= (c * b) * len
      BY <1>1, <1>2, <1>5, <1>7, Scaled
    <2>3. /\ (a * len) * d = (a * d) * len /\ (f * b) * d = (f * d) * b
          /\ (c * b) * len = (c * len) * b
      BY <1>1, <1>2, <1>3, <1>5
    <2>4. (f * d) * b <= (c * len) * b
      <3>1. (f * b) * d \in Int /\ (a * len) * d \in Int /\ (c * b) * len \in Int
        BY <1>1, <1>2, <1>3, <1>5
      <3> QED  BY <2>1, <2>2, <2>3, <3>1
    <2>5. f * d \in Int /\ c * len \in Int
      BY <1>2, <1>3, <1>5
    <2> QED  BY <1>1, <2>4, <2>5, Scaled
  <1>9. ~Less(q, Whole(f))
    <2>1. ~((c * len) * 1 < f * d)
      BY <1>2, <1>3, <1>5, <1>8
    <2> QED  BY <1>2, <1>3, <1>5, <2>1, LessIs
  <1>10. f <= Floor(q)
    BY <1>2, <1>3, <1>9, FloorLess
  <1> QED  BY <1>10 DEF f, p, q

-----------------------------------------------------------------------------
\* The inductive invariant: what each variable is as a function of the samples and
\* of how many crops are done.

Statistic == [negative : BOOLEAN, square : Ratio]

\* What the samples s, the sorted times o and the crops done so far determine.
UpTo(s, n, limit) == {m \in 1 .. n : s[m].t <= limit}
AmongIn(s, c, n, limit) == {m \in 1 .. n : s[m].class = c /\ s[m].t <= limit}
WelchIn(s, n, limit) == [c \in Class |-> MomentsIn(s, AmongIn(s, c, n, limit))]
LimitIn(o, n) == IF n = 1 THEN Unbounded ELSE o[Floor(PartOf(n, Len(o))) + 1]

ResultIn(s, o, n) ==
    CropResult(CROPS[n], T(WelchIn(s, Len(s), LimitIn(o, n))),
               Cardinality(UpTo(s, Len(s), LimitIn(o, n))))

\* A trial takes no more than the first crop's cut-off.
Types ==
    /\ asked \in Nat
    /\ samples \in Seq(Sample) /\ \A m \in 1 .. Len(samples) : samples[m].t <= Unbounded
    /\ stage \in {"trials", "cut", "push", "done", "panic"}
    /\ next \in 0 .. Len(samples)
    /\ crops \in Seq([keep : Ratio, t : {None} \cup {Some(v) : v \in Statistic}, kept : Nat])

\* How many crops are done at each stage, and what sorting has left.
Stages ==
    /\ Len(crops) \in 0 .. Len(CROPS)
    /\ stage = "trials" => Len(crops) = 0
    /\ stage # "trials" => InOrder(samples, sorted)
    /\ stage \in {"cut", "push"} => Len(crops) < Len(CROPS)
    /\ stage = "done" => Len(crops) = Len(CROPS)
    /\ Len(crops) > 1 \/ (stage = "push" /\ Len(crops) = 1) => Len(samples) # 0
    /\ stage = "panic" => Len(samples) = 0 /\ Len(crops) = 1

\* The crops done have the results the samples give them.
Results == \A n \in 1 .. Len(crops) : crops[n] = ResultIn(samples, sorted, n)

\* The crop being tested has got as far as next says.
Running ==
    /\ stage = "push" =>
        /\ cutoff = LimitIn(sorted, Len(crops) + 1)
        /\ welch = WelchIn(samples, next, cutoff)
        /\ kept = Cardinality(UpTo(samples, next, cutoff))
    /\ stage \in {"cut", "done"} /\ Len(crops) # 0 => cutoff = LimitIn(sorted, Len(crops))

Inv == Types /\ Stages /\ Results /\ Running

-----------------------------------------------------------------------------
\* The statistic t, in terms of the sums.

\* Dividing twice is dividing by the product.
LEMMA OverTwice ==
    ASSUME NEW z \in Int, NEW k \in Positive, k >= 2
    PROVE  /\ (k * (k - 1)) * k \in Positive
           /\ Over(Over(Fraction(z, k), k - 1), k) = Fraction(z, (k * (k - 1)) * k)
           /\ Over(Fraction(z, k), (k - 1) * k) = Fraction(z, (k * (k - 1)) * k)
  <1> DEFINE l == k - 1
  <1>1. k \in Int /\ l \in Positive /\ l \in Int
    BY DEF Positive
  <1> HIDE DEF l
  <1>2. Is(Fraction(z, k), z, k)
    BY FractionIsItself
  <1>3. k * l \in Positive /\ l * k \in Positive /\ (k * l) * k \in Positive
    BY <1>1, ProductPositive
  <1>4. Over(Fraction(z, k), l) = Fraction(z, k * l)
    BY <1>1, <1>2, OverIs
  <1>5. Is(Over(Fraction(z, k), l), z, k * l)
    BY <1>3, <1>4, FractionIsItself
  <1>6. Over(Over(Fraction(z, k), l), k) = Fraction(z, (k * l) * k)
    BY <1>3, <1>5, OverIs
  <1>7. Over(Fraction(z, k), l * k) = Fraction(z, k * (l * k))
    BY <1>2, <1>3, OverIs
  <1>8. k * (l * k) = (k * l) * k
    BY <1>1
  <1> QED  BY <1>3, <1>6, <1>7, <1>8 DEF l

\* Two fractions that are not negative add up to nothing only as nothing.
LEMMA SumOfTwo ==
    ASSUME NEW y \in Int, NEW b \in Positive, NEW z \in Int, NEW d \in Positive, y >= 0, z >= 0
    PROVE  /\ Plus(Fraction(y, b), Fraction(z, d)) \in Ratio
           /\ Plus(Fraction(y, b), Fraction(z, d)) = Zero <=> y = 0 /\ z = 0
           /\ y # 0 \/ z # 0 =>
                \E e \in Positive, f \in Positive : Is(Plus(Fraction(y, b), Fraction(z, d)), e, f)
  <1> DEFINE p == Plus(Fraction(y, b), Fraction(z, d))
             e == y * d + z * b
             f == b * d
             yd == y * d
             zb == z * b
  <1>1. Is(Fraction(y, b), y, b) /\ Is(Fraction(z, d), z, d)
    BY FractionIsItself
  <1>2. p = Fraction(e, f)
    BY <1>1, PlusIs
  <1>3. e \in Int /\ f \in Positive
    BY ProductsType
  <1>4. b \in Int /\ d \in Int /\ b > 0 /\ d > 0
    BY DEF Positive
  <1>5. yd \in Int /\ yd >= 0 /\ (yd = 0 <=> y = 0)
    BY <1>4
  <1>6. zb \in Int /\ zb >= 0 /\ (zb = 0 <=> z = 0)
    BY <1>4
  <1>7. e = yd + zb
    OBVIOUS
  <1> HIDE DEF p, e, f, yd, zb
  <1>8. e >= 0 /\ (e = 0 <=> y = 0 /\ z = 0)
    BY <1>5, <1>6, <1>7
  <1>9. Is(p, e, f)
    BY <1>2, <1>3, FractionIsItself
  <1>10. p = Zero <=> e = 0
    BY <1>2, <1>3, ZeroIs
  <1>11. p \in Ratio
    BY <1>9 DEF Is
  <1>12. y # 0 \/ z # 0 => e \in Positive
    BY <1>3, <1>8 DEF Positive
  <1> QED  BY <1>3, <1>8, <1>9, <1>10, <1>11, <1>12 DEF p

\* Less than a quotient is less after the product.
LEMMA LessDivide ==
    ASSUME NEW r \in Ratio, NEW x \in Ratio, NEW y \in Ratio,
           NEW c \in Positive, NEW d \in Positive, Is(y, c, d)
    PROVE  Divide(x, y) \in Ratio /\ (Less(r, Divide(x, y)) <=> Less(Times(r, y), x))
  <1> DEFINE u == r.num
             v == r.den
             a == x.num
             b == x.den
  <1>1. u \in Int /\ v \in Positive /\ a \in Int /\ b \in Positive /\ Is(r, u, v) /\ Is(x, a, b)
    BY RatioParts, ItsOwn
  <1> HIDE DEF u, v, a, b
  <1>2. v \in Int /\ b \in Int /\ c \in Int /\ d \in Int
    BY <1>1 DEF Positive
  <1>3. Divide(x, y) = Fraction(a * d, b * c) /\ b * c \in Positive /\ a * d \in Int
    BY <1>1, DivideIs
  <1>4. Is(Divide(x, y), a * d, b * c)
    BY <1>3, FractionIsItself
  <1>5. Times(r, y) = Fraction(u * c, v * d) /\ v * d \in Positive /\ u * c \in Int
    BY <1>1, <1>2, TimesIs
  <1>6. Is(Times(r, y), u * c, v * d)
    BY <1>5, FractionIsItself
  <1>7. Less(r, Divide(x, y)) <=> u * (b * c) < (a * d) * v
    BY <1>1, <1>3, <1>4, LessIs
  <1>8. Less(Times(r, y), x) <=> (u * c) * b < a * (v * d)
    BY <1>1, <1>5, <1>6, LessIs
  <1>9. u * (b * c) = (u * c) * b /\ (a * d) * v = a * (v * d)
    BY <1>1, <1>2
  <1> QED  BY <1>4, <1>7, <1>8, <1>9 DEF Is

LEMMA RatioClosed ==
    ASSUME NEW p \in Ratio, NEW q \in Ratio
    PROVE  Plus(p, q) \in Ratio /\ Minus(p, q) \in Ratio /\ Times(p, q) \in Ratio
  <1> DEFINE a == p.num
             b == p.den
             c == q.num
             d == q.den
  <1>1. a \in Int /\ b \in Positive /\ c \in Int /\ d \in Positive /\ Is(p, a, b) /\ Is(q, c, d)
    BY RatioParts, ItsOwn
  <1> HIDE DEF a, b, c, d
  <1>2. Plus(p, q) = Fraction(a * d + c * b, b * d)
    BY <1>1, PlusIs
  <1>3. Minus(p, q) = Fraction(a * d - c * b, b * d)
    BY <1>1, MinusIs
  <1>4. Times(p, q) = Fraction(a * c, b * d)
    BY <1>1, TimesIs
  <1>5. b * d \in Positive /\ a * d + c * b \in Int /\ a * d - c * b \in Int /\ a * c \in Int
    BY <1>1, ProductsType
  <1> QED  BY <1>2, <1>3, <1>4, <1>5, FractionIsItself DEF Is

-----------------------------------------------------------------------------
\* The part a class has in the denominator of t.
Share(s, S) ==
    Over(Fraction(Spread(s, S), Cardinality(S)), (Cardinality(S) - 1) * Cardinality(S))

Mean(s, S) == Fraction(TimesIn(s, S), Cardinality(S))

\* The samples A of one class and B of the other give no t; they give one above r.
Silent(s, A, B) ==
    \/ Cardinality(A) < 2 \/ Cardinality(B) < 2
    \/ Spread(s, A) = 0 /\ Spread(s, B) = 0

Exceeded(r, s, A, B) ==
    Less(Times(r, Plus(Share(s, A), Share(s, B))), Square(Minus(Mean(s, A), Mean(s, B))))

IsT(t, s, A, B) ==
    /\ t = None <=> Silent(s, A, B)
    /\ t # None => /\ t \in {Some(v) : v \in Statistic}
                   /\ \A r \in Ratio : Less(r, t.val.square) <=> Exceeded(r, s, A, B)

LEMMA Shares ==
    ASSUME NEW s \in Seq(Sample), NEW S \in SUBSET (1 .. Len(s)), Cardinality(S) >= 2
    PROVE  /\ MomentsIn(s, S).n = Cardinality(S) /\ MomentsIn(s, S).mean = Mean(s, S)
           /\ Over(variance(MomentsIn(s, S)), MomentsIn(s, S).n) = Share(s, S)
           /\ Mean(s, S) \in Ratio /\ Spread(s, S) \in Int /\ Spread(s, S) >= 0
           /\ \E d \in Positive : Share(s, S) = Fraction(Spread(s, S), d)
  <1> DEFINE k == Cardinality(S)
             z == Spread(s, S)
  <1>1. k \in Nat /\ (k = 0 <=> S = {})
    <2>1. Len(s) \in Nat
      BY SampleTimes
    <2> QED  BY <2>1, SubsetCount
  <1>2. S # {} /\ k \in Positive /\ k >= 2
    BY <1>1 DEF Positive
  <1>3. z \in Int /\ z >= 0 /\ TimesIn(s, S) \in Int
    BY <1>2, Distances, NoSpread, SumsOfSamples
  <1>4. MomentsIn(s, S) = [n |-> k, mean |-> Mean(s, S), m2 |-> Fraction(z, k)]
    BY <1>2 DEF MomentsIn, Mean, Spread
  <1>5. Share(s, S) = Over(Fraction(z, k), (k - 1) * k)
    BY DEF Share
  <1>6. Mean(s, S) \in Ratio
    BY <1>2, <1>3, FractionIsItself DEF Mean, Is
  <1>7. Over(variance(MomentsIn(s, S)), k) = Over(Over(Fraction(z, k), k - 1), k)
    BY <1>4 DEF variance
  <1> HIDE DEF k, z
  <1>8. /\ (k * (k - 1)) * k \in Positive
        /\ Over(Over(Fraction(z, k), k - 1), k) = Fraction(z, (k * (k - 1)) * k)
        /\ Over(Fraction(z, k), (k - 1) * k) = Fraction(z, (k * (k - 1)) * k)
    BY <1>2, <1>3, OverTwice
  <1>9. MomentsIn(s, S).n = k /\ MomentsIn(s, S).mean = Mean(s, S)
    BY <1>4
  <1>10. \E d \in Positive : Share(s, S) = Fraction(z, d)
    BY <1>5, <1>8
  <1> QED  BY <1>3, <1>5, <1>6, <1>7, <1>8, <1>9, <1>10 DEF k, z

LEMMA TIsT ==
    ASSUME NEW s \in Seq(Sample), NEW A \in SUBSET (1 .. Len(s)), NEW B \in SUBSET (1 .. Len(s)),
           NEW w, w["A"] = MomentsIn(s, A), w["B"] = MomentsIn(s, B)
    PROVE  IsT(T(w), s, A, B)
  <1>1. /\ Cardinality(A) \in Nat /\ Cardinality(B) \in Nat
        /\ w["A"].n = Cardinality(A) /\ w["B"].n = Cardinality(B)
    <2>1. Len(s) \in Nat
      BY SampleTimes
    <2> QED  BY <2>1, SubsetCount DEF MomentsIn
  <1>2. (\E c \in Class : w[c].n < 2) <=> Cardinality(A) < 2 \/ Cardinality(B) < 2
    BY <1>1 DEF Class
  <1>3. CASE Cardinality(A) < 2 \/ Cardinality(B) < 2
    <2>1. T(w) = None
      BY <1>2, <1>3 DEF T
    <2> QED  BY <1>3, <2>1 DEF IsT, Silent
  <1>4. CASE Cardinality(A) >= 2 /\ Cardinality(B) >= 2
    <2> DEFINE den == Plus(Share(s, A), Share(s, B))
               diff == Minus(Mean(s, A), Mean(s, B))
               x == Square(diff)
               y == Spread(s, A)
               z == Spread(s, B)
               val == [negative |-> diff.num < 0, square |-> Divide(x, den)]
    <2>1. /\ w["A"].mean = Mean(s, A) /\ Over(variance(w["A"]), w["A"].n) = Share(s, A)
          /\ Mean(s, A) \in Ratio /\ y \in Int /\ y >= 0
          /\ \E d \in Positive : Share(s, A) = Fraction(y, d)
      BY <1>4, Shares
    <2>2. /\ w["B"].mean = Mean(s, B) /\ Over(variance(w["B"]), w["B"].n) = Share(s, B)
          /\ Mean(s, B) \in Ratio /\ z \in Int /\ z >= 0
          /\ \E d \in Positive : Share(s, B) = Fraction(z, d)
      BY <1>4, Shares
    <2>3. T(w) = IF den = Zero THEN None ELSE Some(val)
      <3>1. ~(\E c \in Class : w[c].n < 2)
        BY <1>1, <1>2, <1>4
      <3> QED  BY <2>1, <2>2, <3>1 DEF T
    <2> HIDE DEF y, z, x
    <2>4. PICK b \in Positive : Share(s, A) = Fraction(y, b)
      BY <2>1
    <2>5. PICK d \in Positive : Share(s, B) = Fraction(z, d)
      BY <2>2
    <2>6. /\ den \in Ratio
          /\ den = Zero <=> y = 0 /\ z = 0
          /\ y # 0 \/ z # 0 => \E e \in Positive, f \in Positive : Is(den, e, f)
      BY <2>1, <2>2, <2>4, <2>5, SumOfTwo
    <2>7. diff \in Ratio /\ x \in Ratio
      BY <2>1, <2>2, RatioClosed DEF Square, x
    <2>8. T(w) = None <=> Silent(s, A, B)
      <3>1. Some(val) # None
        BY DEF Some, None
      <3> HIDE DEF den, val
      <3>2. T(w) = None <=> den = Zero
        BY <2>3, <3>1
      <3> QED  BY <1>1, <1>4, <2>6, <3>2 DEF Silent, y, z
    <2>9. ASSUME T(w) # None
          PROVE  /\ T(w) \in {Some(v) : v \in Statistic}
                 /\ \A r \in Ratio : Less(r, T(w).val.square) <=> Exceeded(r, s, A, B)
      <3>1. T(w) = Some(val) /\ den # Zero
        BY <2>3, <2>9
      <3>2. PICK e \in Positive, f \in Positive : Is(den, e, f)
        BY <2>6, <3>1
      <3> HIDE DEF den, diff
      <3>3. Divide(x, den) \in Ratio
        BY <2>6, <2>7, <3>2, LessDivide
      <3>4. val \in Statistic
        BY <3>3 DEF Statistic
      <3>5. T(w).val = val /\ val.square = Divide(x, den)
        BY <3>1 DEF Some
      <3>6. ASSUME NEW r \in Ratio PROVE Less(r, Divide(x, den)) <=> Exceeded(r, s, A, B)
        <4>1. Less(r, Divide(x, den)) <=> Less(Times(r, den), x)
          BY <2>6, <2>7, <3>2, LessDivide
        <4> QED  BY <4>1 DEF Exceeded, den, x, diff
      <3> HIDE DEF val
      <3> QED  BY <3>1, <3>4, <3>5, <3>6
    <2> QED  BY <2>8, <2>9 DEF IsT
  <1> QED  BY <1>1, <1>3, <1>4

-----------------------------------------------------------------------------
\* The steps preserve the invariant.

Entry == [keep : Ratio, t : {None} \cup {Some(v) : v \in Statistic}, kept : Nat]

LEMMA WelchT ==
    ASSUME NEW s \in Seq(Sample), NEW n \in 0 .. Len(s), NEW limit
    PROVE  IsT(T(WelchIn(s, n, limit)), s, AmongIn(s, "A", n, limit), AmongIn(s, "B", n, limit))
  <1>1. Len(s) \in Nat
    BY SampleTimes
  <1>2. /\ AmongIn(s, "A", n, limit) \in SUBSET (1 .. Len(s))
        /\ AmongIn(s, "B", n, limit) \in SUBSET (1 .. Len(s))
    BY <1>1 DEF AmongIn
  <1>3. /\ WelchIn(s, n, limit)["A"] = MomentsIn(s, AmongIn(s, "A", n, limit))
        /\ WelchIn(s, n, limit)["B"] = MomentsIn(s, AmongIn(s, "B", n, limit))
    BY DEF WelchIn, Class
  <1> QED  BY <1>2, <1>3, TIsT

LEMMA ResultType ==
    ASSUME NEW s \in Seq(Sample), NEW o, NEW n \in 1 .. Len(CROPS)
    PROVE  ResultIn(s, o, n) \in Entry
  <1> DEFINE l == LimitIn(o, n)
             t == T(WelchIn(s, Len(s), l))
  <1>1. Len(s) \in Nat /\ Len(s) \in 0 .. Len(s)
    BY SampleTimes
  <1>2. IsT(t, s, AmongIn(s, "A", Len(s), l), AmongIn(s, "B", Len(s), l))
    BY <1>1, WelchT
  <1>3. t \in {None} \cup {Some(v) : v \in Statistic}
    BY <1>2 DEF IsT
  <1> HIDE DEF t, l
  <1>4. UpTo(s, Len(s), l) \in SUBSET (1 .. Len(s))
    BY DEF UpTo
  <1>5. Cardinality(UpTo(s, Len(s), l)) \in Nat
    BY <1>1, <1>4, SubsetCount
  <1>6. ResultIn(s, o, n) = [keep |-> CROPS[n], t |-> t, kept |-> Cardinality(UpTo(s, Len(s), l))]
    BY DEF ResultIn, CropResult, t, l
  <1> QED  BY <1>3, <1>5, <1>6, CropFacts DEF Entry

LEMMA InitInv == Init => Inv
  <1> SUFFICES ASSUME Init PROVE Inv
    OBVIOUS
  <1>1. /\ asked \in Nat /\ samples = <<>> /\ stage = "trials" /\ next = 0 /\ crops = <<>>
    BY TimeAssumption DEF Init, Config
  <1>2. /\ Len(samples) = 0 /\ Len(crops) = 0 /\ samples \in Seq(Sample) /\ crops \in Seq(Entry)
    BY <1>1
  <1>3. Types
    BY <1>1, <1>2 DEF Types, Entry
  <1>4. Stages /\ Results /\ Running
    BY <1>1, <1>2, CropFacts DEF Stages, Results, Running
  <1> QED  BY <1>3, <1>4 DEF Inv

LEMMA TrialInv == Inv /\ Trial => Inv'
  <1> SUFFICES ASSUME Inv, Trial PROVE Inv'
    OBVIOUS
  <1>1. PICK c \in Class, t \in Time : samples' = Append(samples, [class |-> c, t |-> t])
    BY DEF Trial
  <1>2. /\ stage = "trials" /\ asked > 0 /\ asked' = asked - 1
        /\ stage' = stage /\ next' = next /\ crops' = crops
    BY DEF Trial
  <1>3. /\ asked \in Nat /\ samples \in Seq(Sample) /\ next \in 0 .. Len(samples) /\ crops \in Seq(Entry)
        /\ \A m \in 1 .. Len(samples) : samples[m].t <= Unbounded
        /\ Len(crops) = 0
    BY <1>2 DEF Inv, Types, Stages, Entry
  <1>4. t \in Nat /\ t <= Unbounded /\ [class |-> c, t |-> t] \in Sample
    BY TimeAssumption DEF Sample
  <1>5. /\ samples' \in Seq(Sample) /\ Len(samples') = Len(samples) + 1
        /\ \A m \in 1 .. Len(samples') :
             samples'[m] = IF m = Len(samples) + 1 THEN [class |-> c, t |-> t] ELSE samples[m]
    BY <1>1, <1>3, <1>4
  <1>6. \A m \in 1 .. Len(samples') : samples'[m].t <= Unbounded
    <2> SUFFICES ASSUME NEW m \in 1 .. Len(samples') PROVE samples'[m].t <= Unbounded
      OBVIOUS
    <2>1. Len(samples) \in Nat
      BY <1>3
    <2>2. CASE m = Len(samples) + 1
      BY <1>4, <1>5, <2>2
    <2>3. CASE m # Len(samples) + 1
      <3>1. m \in 1 .. Len(samples) /\ samples'[m] = samples[m]
        BY <1>5, <2>1, <2>3
      <3> QED  BY <1>3, <3>1
    <2> QED  BY <2>2, <2>3
  <1>7. next' \in 0 .. Len(samples') /\ asked' \in Nat
    BY <1>2, <1>3, <1>5
  <1>8. Types'
    BY <1>2, <1>3, <1>5, <1>6, <1>7 DEF Types, Entry
  <1>9. Stages' /\ Results' /\ Running'
    BY <1>2, <1>3, CropFacts DEF Stages, Results, Running
  <1> QED  BY <1>8, <1>9 DEF Inv

LEMMA SortInv == Inv /\ Sort => Inv'
  <1> SUFFICES ASSUME Inv, Sort PROVE Inv'
    OBVIOUS
  <1>1. /\ stage = "trials" /\ stage' = "cut" /\ sorted' = TimesInOrder
        /\ UNCHANGED <<asked, samples, next, crops>>
    BY DEF Sort, TimesInOrder
  <1>2. Types' /\ Len(crops) = 0 /\ samples \in Seq(Sample)
    BY <1>1 DEF Inv, Types, Stages
  <1>3. InOrder(samples', sorted')
    BY <1>1, <1>2, SortOrders
  <1>4. Stages' /\ Results' /\ Running'
    BY <1>1, <1>2, <1>3, CropFacts DEF Stages, Results, Running
  <1> QED  BY <1>2, <1>4 DEF Inv

LEMMA KeepIs ==
    ASSUME Inv, stage = "cut"
    PROVE  /\ Len(crops) + 1 \in 1 .. Len(CROPS) /\ Keep = CROPS[Len(crops) + 1] /\ Len(crops) \in Nat
           /\ Less(Keep, Whole(1)) <=> Len(crops) # 0
           /\ Len(sorted) = Len(samples) /\ Len(samples) \in Nat
  <1>1. /\ Len(crops) \in 0 .. Len(CROPS) /\ Len(crops) < Len(CROPS) /\ samples \in Seq(Sample)
        /\ InOrder(samples, sorted)
    BY DEF Inv, Stages, Types
  <1>2. Len(crops) + 1 \in 1 .. Len(CROPS) /\ Len(crops) \in Nat
    BY <1>1, CropFacts
  <1>3. Less(CROPS[Len(crops) + 1], Whole(1)) <=> Len(crops) + 1 # 1
    BY <1>2, CropFacts
  <1> QED  BY <1>1, <1>2, <1>3 DEF Keep, InOrder

LEMMA NoLastInv == Inv /\ NoLast => Inv'
  <1> SUFFICES ASSUME Inv, NoLast PROVE Inv'
    OBVIOUS
  <1>1. /\ stage = "cut" /\ Less(Keep, Whole(1)) /\ Len(sorted) = 0 /\ stage' = "panic"
        /\ UNCHANGED <<asked, samples, sorted, cutoff, next, welch, kept, crops>>
    BY DEF NoLast
  <1>2. Len(samples) = 0 /\ Len(crops) # 0 /\ Len(crops) \in Nat
    BY <1>1, KeepIs
  <1>3. Len(crops) = 1
    <2>1. Len(crops) > 1 => Len(samples) # 0
      BY Zenon DEF Inv, Stages
    <2> DEFINE k == Len(crops)
    <2>2. k \in Nat /\ k # 0 /\ ~(k > 1)
      BY <1>2, <2>1
    <2> HIDE DEF k
    <2>3. k = 1
      BY <2>2
    <2> QED  BY <2>3 DEF k
  <1>4. Types'
    BY <1>1 DEF Inv, Types
  <1>5. Stages' /\ Results' /\ Running'
    BY <1>1, <1>2, <1>3 DEF Inv, Stages, Results, Running
  <1> QED  BY <1>4, <1>5 DEF Inv

LEMMA NothingYet ==
    ASSUME NEW s \in Seq(Sample), NEW limit
    PROVE  WelchIn(s, 0, limit) = New /\ Cardinality(UpTo(s, 0, limit)) = 0
  <1>1. UpTo(s, 0, limit) = {} /\ \A c : AmongIn(s, c, 0, limit) = {}
    BY DEF UpTo, AmongIn
  <1>2. MomentsIn(s, {}) = [n |-> 0, mean |-> Zero, m2 |-> Zero]
    BY FS_EmptySet DEF MomentsIn
  <1> QED  BY <1>1, <1>2, FS_EmptySet DEF WelchIn, New

LEMMA CutInv == Inv /\ Cut => Inv'
  <1> SUFFICES ASSUME Inv, Cut PROVE Inv'
    OBVIOUS
  <1> DEFINE k == Len(crops) + 1
  <1>1. /\ stage = "cut" /\ (Less(Keep, Whole(1)) => Len(sorted) # 0)
        /\ next' = 0 /\ welch' = New /\ kept' = 0
        /\ UNCHANGED <<asked, samples, sorted, crops>>
    BY DEF Cut
  <1>2. /\ k \in 1 .. Len(CROPS) /\ Keep = CROPS[k] /\ (Less(Keep, Whole(1)) <=> Len(crops) # 0)
        /\ Len(sorted) = Len(samples) /\ Len(samples) \in Nat /\ samples \in Seq(Sample)
        /\ Len(crops) \in Nat
    BY <1>1, KeepIs DEF Inv, Types
  <1>3. stage' = "push" /\ cutoff' = LimitIn(sorted, k)
    <2>1. CASE ~Less(Keep, Whole(1))
      BY <1>2, <2>1 DEF Cut, LimitIn
    <2>2. CASE Less(Keep, Whole(1))
      <3> DEFINE part == Floor(PartOf(k, Len(sorted)))
      <3>1. k # 1 /\ Len(sorted) # 0 /\ Len(sorted) \in Nat
        BY <1>1, <1>2, <2>2
      <3>2. part \in 0 .. Len(sorted) - 1
        BY <1>2, <3>1, PartEnds
      <3>3. CutIndex(Len(sorted)) = IF part <= Len(sorted) - 1 THEN part ELSE Len(sorted) - 1
        BY <1>2 DEF CutIndex, PartOf
      <3>4. LimitIn(sorted, k) = sorted[part + 1]
        BY <3>1 DEF LimitIn
      <3> HIDE DEF part, k
      <3>5. CutIndex(Len(sorted)) = part /\ part < Len(sorted)
        BY <3>1, <3>2, <3>3
      <3>6. IF CutIndex(Len(sorted)) < Len(sorted)
            THEN cutoff' = sorted[CutIndex(Len(sorted)) + 1] /\ stage' = "push"
            ELSE cutoff' = cutoff /\ stage' = "panic"
        BY <2>2 DEF Cut
      <3> QED  BY <3>4, <3>5, <3>6
    <2> QED  BY <2>1, <2>2
  <1>4. Types'
    BY <1>1, <1>2, <1>3 DEF Inv, Types
  <1>5. Len(crops) > 1 \/ Len(crops) = 1 => Len(samples) # 0
    BY <1>1, <1>2
  <1>6. Stages'
    <2>1. /\ Len(crops) \in 0 .. Len(CROPS) /\ Len(crops) < Len(CROPS)
          /\ InOrder(samples, sorted)
      BY <1>1 DEF Inv, Stages
    <2> QED  BY <1>1, <1>3, <1>5, <2>1 DEF Stages
  <1>7. Results'
    BY <1>1 DEF Inv, Results
  <1>8. Running'
    BY <1>1, <1>2, <1>3, NothingYet DEF Running
  <1> QED  BY <1>4, <1>6, <1>7, <1>8 DEF Inv

\* One more sample is looked at.
LooksAt(s, n, limit) ==
    LET x == s[n + 1]
        w == WelchIn(s, n, limit)
        counted == Cardinality(UpTo(s, n, limit))
    IN  IF x.t <= limit
        THEN /\ WelchIn(s, n + 1, limit) = [w EXCEPT ![x.class] = Pushed(@, x.t)]
             /\ Cardinality(UpTo(s, n + 1, limit)) = counted + 1
        ELSE /\ WelchIn(s, n + 1, limit) = w
             /\ Cardinality(UpTo(s, n + 1, limit)) = counted

LEMMA OneMoreSample ==
    ASSUME NEW s \in Seq(Sample), NEW n \in 0 .. Len(s) - 1, NEW limit
    PROVE  LooksAt(s, n, limit)
  <1> DEFINE x == s[n + 1]
             w == WelchIn(s, n, limit)
             i == n + 1
  <1>1. /\ Len(s) \in Nat /\ n \in Nat /\ i \in 1 .. Len(s) /\ i \notin 1 .. n
        /\ x.class \in Class /\ x.t \in Nat /\ 1 .. i = (1 .. n) \cup {i}
        /\ 1 .. n \subseteq 1 .. Len(s)
    <2>1. Len(s) \in Nat /\ n \in Nat /\ i \in 1 .. Len(s) /\ i \notin 1 .. n
      BY SampleTimes
    <2> QED  BY <2>1, SampleTimes
  <1> HIDE DEF i
  <1>2. /\ UpTo(s, n, limit) \in SUBSET (1 .. Len(s)) /\ i \notin UpTo(s, n, limit)
        /\ \A c : /\ AmongIn(s, c, n, limit) \in SUBSET (1 .. Len(s))
                  /\ i \notin AmongIn(s, c, n, limit)
    BY <1>1 DEF UpTo, AmongIn
  <1>3. s[i] = x
    BY DEF i
  <1> HIDE DEF x
  <1>4. ASSUME x.t <= limit
        PROVE  /\ WelchIn(s, i, limit) = [w EXCEPT ![x.class] = Pushed(@, x.t)]
               /\ Cardinality(UpTo(s, i, limit)) = Cardinality(UpTo(s, n, limit)) + 1
    <2>1. UpTo(s, i, limit) = UpTo(s, n, limit) \cup {i}
      BY <1>1, <1>3, <1>4 DEF UpTo
    <2>2. AmongIn(s, x.class, i, limit) = AmongIn(s, x.class, n, limit) \cup {i}
      BY <1>1, <1>3, <1>4 DEF AmongIn
    <2>3. \A c : c # x.class => AmongIn(s, c, i, limit) = AmongIn(s, c, n, limit)
      BY <1>1, <1>3 DEF AmongIn
    <2>4. MomentsIn(s, AmongIn(s, x.class, i, limit)) = Pushed(MomentsIn(s, AmongIn(s, x.class, n, limit)), x.t)
      BY <1>1, <1>2, <1>3, <2>2, PushedIsMoments
    <2>5. WelchIn(s, i, limit) = [w EXCEPT ![x.class] = Pushed(@, x.t)]
      BY <1>1, <2>3, <2>4 DEF WelchIn
    <2> QED  BY <1>1, <1>2, <2>1, <2>5, SubsetCount
  <1>5. ASSUME ~(x.t <= limit)
        PROVE  WelchIn(s, i, limit) = w /\ UpTo(s, i, limit) = UpTo(s, n, limit)
    <2>1. \A c : AmongIn(s, c, i, limit) = AmongIn(s, c, n, limit)
      BY <1>1, <1>3, <1>5 DEF AmongIn
    <2>2. UpTo(s, i, limit) = UpTo(s, n, limit)
      BY <1>1, <1>3, <1>5 DEF UpTo
    <2> QED  BY <2>1, <2>2 DEF WelchIn
  <1> QED  BY <1>4, <1>5 DEF x, i, LooksAt

LEMMA PushInv == Inv /\ Push => Inv'
  <1> SUFFICES ASSUME Inv, Push PROVE Inv'
    OBVIOUS
  <1>1. /\ stage = "push" /\ next < Len(samples) /\ next' = next + 1
        /\ IF samples[next + 1].t <= cutoff
           THEN /\ welch' = [welch EXCEPT ![samples[next + 1].class] = Pushed(@, samples[next + 1].t)]
                /\ kept' = kept + 1
           ELSE welch' = welch /\ kept' = kept
        /\ UNCHANGED <<asked, samples, sorted, stage, cutoff, crops>>
    BY DEF Push
  <1>2. /\ samples \in Seq(Sample) /\ next \in 0 .. Len(samples)
        /\ cutoff = LimitIn(sorted, Len(crops) + 1)
        /\ welch = WelchIn(samples, next, cutoff)
        /\ kept = Cardinality(UpTo(samples, next, cutoff))
    BY <1>1 DEF Inv, Types, Running
  <1>3. next \in 0 .. Len(samples) - 1 /\ next' \in 0 .. Len(samples)
    <2>1. Len(samples) \in Nat
      BY <1>2
    <2> QED  BY <1>1, <1>2, <2>1
  <1>4. Types'
    BY <1>1, <1>3 DEF Inv, Types
  <1>5. Stages' /\ Results'
    BY <1>1 DEF Inv, Stages, Results
  <1>6. /\ welch' = WelchIn(samples, next + 1, cutoff)
        /\ kept' = Cardinality(UpTo(samples, next + 1, cutoff))
    <2>1. LooksAt(samples, next, cutoff)
      BY <1>2, <1>3, OneMoreSample
    <2>2. CASE samples[next + 1].t <= cutoff
      BY <1>1, <1>2, <2>1, <2>2 DEF LooksAt
    <2>3. CASE ~(samples[next + 1].t <= cutoff)
      BY <1>1, <1>2, <2>1, <2>3 DEF LooksAt
    <2> QED  BY <2>2, <2>3
  <1>7. Running'
    BY <1>1, <1>2, <1>6 DEF Running
  <1> QED  BY <1>4, <1>5, <1>7 DEF Inv

LEMMA CropInv == Inv /\ Crop => Inv'
  <1> SUFFICES ASSUME Inv, Crop PROVE Inv'
    OBVIOUS
  <1> DEFINE k == Len(crops) + 1
             e == CropResult(Keep, T(welch), kept)
  <1>1. /\ stage = "push" /\ next = Len(samples) /\ crops' = Append(crops, e)
        /\ stage' = (IF Len(crops') = Len(CROPS) THEN "done" ELSE "cut")
        /\ UNCHANGED <<asked, samples, sorted, cutoff, next, welch, kept>>
    BY DEF Crop
  <1>2. /\ samples \in Seq(Sample) /\ crops \in Seq(Entry)
        /\ cutoff = LimitIn(sorted, k) /\ welch = WelchIn(samples, next, cutoff)
        /\ kept = Cardinality(UpTo(samples, next, cutoff))
        /\ Len(crops) < Len(CROPS) /\ InOrder(samples, sorted)
        /\ Len(crops) > 1 \/ Len(crops) = 1 => Len(samples) # 0
    BY <1>1 DEF Inv, Types, Stages, Running, Entry
  <1>3. k \in 1 .. Len(CROPS) /\ Len(crops) \in Nat /\ Len(CROPS) \in Nat
    BY <1>2, CropFacts
  <1>4. e = ResultIn(samples, sorted, k) /\ e \in Entry
    <2>1. e = ResultIn(samples, sorted, k)
      BY <1>1, <1>2 DEF ResultIn, Keep
    <2> HIDE DEF e, k
    <2> QED  BY <1>2, <1>3, <2>1, ResultType
  <1> HIDE DEF e
  <1>5. /\ crops' \in Seq(Entry) /\ Len(crops') = k
        /\ \A n \in 1 .. k : crops'[n] = IF n = k THEN e ELSE crops[n]
    BY <1>1, <1>2, <1>4
  <1>6. Types'
    BY <1>1, <1>5 DEF Inv, Types, Entry
  <1>7. Stages'
    <2>1. Len(crops') > 1 => Len(samples) # 0
      <3> DEFINE l == Len(crops)
      <3>1. l \in Nat /\ Len(crops') = l + 1
        BY <1>3, <1>5
      <3>2. l > 1 \/ l = 1 => Len(samples) # 0
        BY <1>2
      <3> HIDE DEF l
      <3> QED  BY <3>1, <3>2
    <2>2. Len(crops') < Len(CROPS) \/ Len(crops') = Len(CROPS)
      BY <1>3, <1>5
    <2> QED  BY <1>1, <1>2, <1>3, <1>5, <2>1, <2>2 DEF Stages
  <1>8. Results'
    <2> SUFFICES ASSUME NEW n \in 1 .. k PROVE crops'[n] = ResultIn(samples, sorted, n)
      BY <1>1, <1>5 DEF Results
    <2>1. CASE n = k
      BY <1>4, <1>5, <2>1
    <2>2. CASE n # k
      <3>1. n \in 1 .. Len(crops)
        BY <1>3, <2>2
      <3>2. crops'[n] = crops[n]
        BY <1>5, <2>2
      <3> QED  BY <3>1, <3>2 DEF Inv, Results
    <2> QED  BY <2>1, <2>2
  <1>9. Running'
    BY <1>1, <1>2, <1>5 DEF Running
  <1> QED  BY <1>6, <1>7, <1>8, <1>9 DEF Inv

LEMMA InvIsInductive == Spec => []Inv
  <1>1. Inv /\ [Next]_vars => Inv'
    <2> SUFFICES ASSUME Inv, [Next]_vars PROVE Inv'
      OBVIOUS
    <2>1. CASE Next
      BY <2>1, TrialInv, SortInv, NoLastInv, CutInv, PushInv, CropInv DEF Next
    <2>2. CASE UNCHANGED vars
      BY <2>2 DEF vars, Inv, Types, Stages, Results, Running
    <2> QED  BY <2>1, <2>2
  <1> QED  BY <1>1, InitInv, PTL DEF Spec

-----------------------------------------------------------------------------
\* From the invariant: the first three properties.

\* The samples of both classes are all that are no slower.
LEMMA BothClasses ==
    ASSUME NEW s \in Seq(Sample), NEW n \in 0 .. Len(s), NEW limit
    PROVE  Cardinality(UpTo(s, n, limit)) = Counted(WelchIn(s, n, limit))
  <1> DEFINE A == AmongIn(s, "A", n, limit)
             B == AmongIn(s, "B", n, limit)
             U == UpTo(s, n, limit)
  <1>1. Len(s) \in Nat /\ n \in Nat /\ \A m \in 1 .. n : s[m].class \in {"A", "B"}
    BY SampleTimes DEF Class
  <1>2. U = A \cup B /\ A \cap B = {}
    BY <1>1 DEF UpTo, AmongIn
  <1>3. IsFiniteSet(A) /\ IsFiniteSet(B)
    <2>1. A \in SUBSET (1 .. n) /\ B \in SUBSET (1 .. n)
      BY DEF AmongIn
    <2> HIDE DEF A, B
    <2> QED  BY <1>1, <2>1, SubsetCount
  <1>4. /\ WelchIn(s, n, limit)["A"].n = Cardinality(A)
        /\ WelchIn(s, n, limit)["B"].n = Cardinality(B)
    BY DEF WelchIn, Class, MomentsIn
  <1> HIDE DEF A, B, U
  <1>5. Cardinality(U) = Cardinality(A) + Cardinality(B) - Cardinality(A \cap B)
    BY <1>2, <1>3, FS_Union
  <1>6. Cardinality(A \cap B) = 0 /\ Cardinality(A) \in Nat /\ Cardinality(B) \in Nat
    BY <1>2, <1>3, FS_EmptySet, FS_CardinalityType
  <1> QED  BY <1>4, <1>5, <1>6 DEF Counted, U

\* More than the whole part of a fraction is no less than the fraction.
LEMMA AboveFloor ==
    ASSUME NEW p \in Ratio, NEW k \in Int, k > Floor(p)
    PROVE  ~Less(Whole(k), p)
  <1> DEFINE f == Floor(p)
             a == p.num
             b == p.den
  <1>1. a \in Int /\ b \in Positive /\ b \in Int /\ f \in Int /\ a < (f + 1) * b
    BY RatioParts, FloorIs
  <1>2. Less(Whole(k), p) <=> k * b < a * 1
    BY DEF Less, Whole
  <1>3. k > f
    OBVIOUS
  <1> HIDE DEF f, a, b
  <1>4. f + 1 <= k /\ f + 1 \in Int
    BY <1>1, <1>3
  <1>5. (f + 1) * b <= k * b
    BY <1>1, <1>4, Scaled
  <1>6. (f + 1) * b \in Int /\ k * b \in Int
    BY <1>1
  <1> QED  BY <1>1, <1>2, <1>5, <1>6

LEMMA NumberSeq ==
    ASSUME NEW q \in Seq(Nat)
    PROVE  Len(q) \in Nat /\ \A k \in 1 .. Len(q) : q[k] \in Nat
  OBVIOUS

\* A later limit is no larger.
LEMMA LimitsFall ==
    ASSUME NEW s \in Seq(Sample), NEW o, InOrder(s, o), Len(s) # 0,
           \A m \in 1 .. Len(s) : s[m].t <= Unbounded,
           NEW n \in 1 .. Len(CROPS), n # 1
    PROVE  /\ LimitIn(o, n) \in Nat /\ LimitIn(o, n - 1) \in Nat
           /\ LimitIn(o, n) <= LimitIn(o, n - 1)
  <1> DEFINE len == Len(o)
             f == Floor(PartOf(n, len))
             g == Floor(PartOf(n - 1, len))
  <1>1. /\ len = Len(s) /\ len \in Nat /\ len # 0 /\ o \in Seq(Nat)
        /\ \A k \in 1 .. len : o[k] \in Nat /\ o[k] <= Unbounded
        /\ \A j, k \in 1 .. len : j <= k => o[j] <= o[k]
    <2>1. /\ Len(o) = Len(s) /\ o \in Seq(Nat)
          /\ \A j, k \in 1 .. Len(s) : j <= k => o[j] <= o[k]
          /\ \A k \in 1 .. Len(s) : \E m \in 1 .. Len(s) : o[k] = s[m].t
      BY Zenon DEF InOrder
    <2>2. \A k \in 1 .. Len(s) : o[k] <= Unbounded
      BY <2>1
    <2>3. Len(o) \in Nat /\ \A k \in 1 .. Len(o) : o[k] \in Nat
      BY <2>1, NumberSeq
    <2> QED  BY <2>1, <2>2, <2>3
  <1>2. f \in 0 .. len - 1
    BY <1>1, PartEnds
  <1>3. LimitIn(o, n) = o[f + 1]
    BY DEF LimitIn
  <1>4. n - 1 \in 1 .. Len(CROPS)
    BY CropFacts
  <1>5. CASE n - 1 = 1
    <2>1. LimitIn(o, n - 1) = Unbounded
      BY <1>5 DEF LimitIn
    <2> HIDE DEF len, f, g
    <2>2. o[f + 1] \in Nat /\ o[f + 1] <= Unbounded
      BY <1>1, <1>2
    <2> QED  BY <1>3, <2>1, <2>2, TimeAssumption
  <1>6. CASE n - 1 # 1
    <2>1. g \in 0 .. len - 1
      BY <1>1, <1>4, <1>6, PartEnds
    <2>2. f <= g
      BY <1>1, SmallerParts
    <2>3. LimitIn(o, n - 1) = o[g + 1]
      BY <1>6 DEF LimitIn
    <2> HIDE DEF len, f, g
    <2>4. f + 1 \in 1 .. len /\ g + 1 \in 1 .. len /\ f + 1 <= g + 1
      BY <1>1, <1>2, <2>1, <2>2
    <2> QED  BY <1>1, <1>3, <2>3, <2>4
  <1> QED  BY <1>5, <1>6

LEMMA InvPanics == Inv => PanicsOnlyWithoutSamples
  BY DEF Inv, Stages, PanicsOnlyWithoutSamples

LEMMA InvTwoPass == Inv => WelchIsTwoPass
  <1> SUFFICES ASSUME Inv, stage = "push", NEW c \in Class
               PROVE  LET seen == Among(c, next, cutoff) IN
                        /\ welch[c].n = Cardinality(seen)
                        /\ seen # {} => welch[c].mean = MeanOf(seen) /\ welch[c].m2 = SquaresOf(seen)
    BY DEF WelchIsTwoPass
  <1> DEFINE seen == Among(c, next, cutoff)
  <1>1. samples \in Seq(Sample) /\ next \in 0 .. Len(samples) /\ welch = WelchIn(samples, next, cutoff)
    BY DEF Inv, Types, Running
  <1>2. seen \in SUBSET (1 .. Len(samples))
    <2>1. Len(samples) \in Nat
      BY <1>1
    <2> QED  BY <1>1, <2>1 DEF Among
  <1>3. welch[c] = MomentsIn(samples, seen)
    BY <1>1 DEF WelchIn, AmongIn, Among
  <1> HIDE DEF seen
  <1>4. welch[c].n = Cardinality(seen)
    BY <1>3 DEF MomentsIn
  <1>5. ASSUME seen # {} PROVE welch[c].mean = MeanOf(seen) /\ welch[c].m2 = SquaresOf(seen)
    <2>1. welch[c] = [n |-> Cardinality(seen), mean |-> MeanOf(seen), m2 |-> SquaresOf(seen)]
      BY <1>1, <1>2, <1>3, <1>5, TwoPasses
    <2> QED  BY <2>1
  <1> QED  BY <1>4, <1>5 DEF seen

LEMMA InvKeeps == Inv => CropsKeepTheirPart
  <1> SUFFICES ASSUME Inv, stage = "push", next = Len(samples)
               PROVE  LET part == Times(Keep, Whole(Len(samples)))
                          faster == {m \in 1 .. Len(samples) : samples[m].t < cutoff}
                      IN  /\ kept = Counted(welch)
                          /\ ~Less(Whole(kept), part)
                          /\ ~Less(part, Whole(Cardinality(faster)))
                          /\ crops # <<>> => kept <= crops[Len(crops)].kept
    BY DEF CropsKeepTheirPart
  <1> DEFINE N == Len(samples)
             k == Len(crops) + 1
             part == Times(Keep, Whole(N))
             faster == {m \in 1 .. N : samples[m].t < cutoff}
             U == UpTo(samples, N, cutoff)
  <1>1. /\ samples \in Seq(Sample) /\ N \in Nat /\ N \in 0 .. N /\ cutoff = LimitIn(sorted, k)
        /\ welch = WelchIn(samples, N, cutoff) /\ kept = Cardinality(U)
        /\ InOrder(samples, sorted) /\ \A m \in 1 .. N : samples[m].t <= Unbounded
        /\ Len(crops) \in Nat /\ Len(crops) < Len(CROPS) /\ crops \in Seq(Entry)
        /\ Len(crops) = 1 \/ Len(crops) > 1 => N # 0
    <2>1. samples \in Seq(Sample)
      BY DEF Inv, Types
    <2>2. /\ cutoff = LimitIn(sorted, k)
          /\ welch = WelchIn(samples, N, cutoff) /\ kept = Cardinality(U)
      BY DEF Inv, Running
    <2>3. /\ InOrder(samples, sorted) /\ \A m \in 1 .. N : samples[m].t <= Unbounded
          /\ crops \in Seq(Entry) /\ Len(crops) < Len(CROPS)
          /\ Len(crops) = 1 \/ Len(crops) > 1 => N # 0
      BY DEF Inv, Types, Stages, Entry
    <2> QED  BY <2>1, <2>2, <2>3
  <1>2. k \in 1 .. Len(CROPS) /\ (k = 1 <=> Len(crops) = 0) /\ (k # 1 => N # 0)
    <2> DEFINE l == Len(crops)
    <2>1. l \in Nat /\ l < Len(CROPS) /\ k = l + 1 /\ (l = 1 \/ l > 1 => N # 0) /\ Len(CROPS) \in Nat
      BY <1>1, CropFacts
    <2> HIDE DEF l, k, N
    <2>2. k \in 1 .. Len(CROPS) /\ (k = 1 <=> l = 0) /\ (k # 1 => N # 0)
      BY <2>1
    <2> QED  BY <2>2 DEF l
  <1>3. part = PartOf(k, N) /\ part \in Ratio
    BY <1>1, <1>2, PartIs DEF PartOf, Keep
  <1>4. U \in SUBSET (1 .. N) /\ faster \in SUBSET (1 .. N)
    BY DEF UpTo
  <1>5. kept = Counted(welch)
    BY <1>1, BothClasses
  <1> HIDE DEF U, faster, part
  <1>6. Cardinality(U) \in Nat /\ Cardinality(faster) \in Nat /\ Cardinality(faster) <= N
    BY <1>1, <1>4, SubsetCount
  <1>7. ~Less(Whole(kept), part) /\ ~Less(part, Whole(Cardinality(faster)))
    <2>1. CASE k = 1
      <3>1. cutoff = Unbounded
        BY <1>1, <2>1 DEF LimitIn
      <3>2. U = 1 .. N
        BY <1>1, <3>1 DEF UpTo, U
      <3>3. kept = N
        BY <1>1, <3>2, FS_Interval
      <3>4. CROPS[k].num = 1 /\ CROPS[k].den = 1
        BY <2>1, CropsAssumption DEF Whole
      <3>5. Is(part, N, 1)
        <4>1. Is(PartOf(k, N), CROPS[k].num * N, CROPS[k].den)
          BY <1>1, <1>2, PartIs
        <4>2. CROPS[k].num * N = N
          BY <1>1, <3>4
        <4> QED  BY <1>3, <3>4, <4>1, <4>2
      <3> DEFINE r == Cardinality(faster)
      <3>6. /\ 1 \in Positive /\ N \in Int /\ r \in Int
            /\ Is(Whole(N), N, 1) /\ Is(Whole(r), r, 1)
        BY <1>1, <1>6, WholeIs DEF Positive
      <3> HIDE DEF r
      <3>7. (Less(Whole(N), part) <=> N * 1 < N * 1) /\ (Less(part, Whole(r)) <=> N * 1 < r * 1)
        BY <3>5, <3>6, LessIs
      <3>8. ~(N * 1 < N * 1) /\ ~(N * 1 < r * 1)
        BY <1>6, <3>6 DEF r
      <3> QED  BY <3>3, <3>7, <3>8 DEF r
    <2>2. CASE k # 1
      <3> DEFINE f == Floor(part)
      <3>1. f \in 0 .. N - 1
        BY <1>1, <1>2, <1>3, <2>2, PartEnds
      <3>2. cutoff = sorted[f + 1]
        BY <1>1, <1>3, <2>2 DEF LimitIn, InOrder
      <3>3. f + 1 \in 1 .. N /\ f \in Int
        BY <1>1, <3>1
      <3> HIDE DEF f
      <3>4. Cardinality(faster) <= (f + 1) - 1 /\ Cardinality(U) >= f + 1
        BY <1>1, <3>2, <3>3 DEF InOrder, UpTo, U, faster
      <3>5. Cardinality(faster) <= f /\ kept > f /\ kept \in Int /\ Cardinality(faster) \in Int
        BY <1>1, <1>6, <3>3, <3>4
      <3> QED  BY <1>3, <3>5, FloorLess, AboveFloor DEF f
    <2> QED  BY <2>1, <2>2
  <1>8. ASSUME crops # <<>> PROVE kept <= crops[Len(crops)].kept
    <2>1. Len(crops) # 0 /\ Len(crops) \in 1 .. Len(crops) /\ k # 1 /\ k - 1 = Len(crops) /\ N # 0
      BY <1>1, <1>2, <1>8
    <2>2. crops[Len(crops)].kept = Cardinality(UpTo(samples, N, LimitIn(sorted, Len(crops))))
      BY <2>1 DEF Inv, Results, ResultIn, CropResult
    <2>3. /\ LimitIn(sorted, k) \in Nat /\ LimitIn(sorted, k - 1) \in Nat
          /\ LimitIn(sorted, k) <= LimitIn(sorted, k - 1)
      BY <1>1, <1>2, <2>1, LimitsFall
    <2> DEFINE V == UpTo(samples, N, LimitIn(sorted, Len(crops)))
    <2>4. U \subseteq V
      <3>1. \A m \in 1 .. N : samples[m].t \in Nat
        BY <1>1, SampleTimes
      <3> QED  BY <1>1, <2>1, <2>3, <3>1 DEF UpTo, U
    <2>5. IsFiniteSet(V)
      <3>1. V \in SUBSET (1 .. N)
        BY DEF UpTo
      <3> QED  BY <1>1, <3>1, SubsetCount
    <2> HIDE DEF V
    <2>6. Cardinality(U) <= Cardinality(V)
      BY <2>4, <2>5, FS_Subset
    <2> QED  BY <1>1, <2>2, <2>6 DEF V
  <1> QED  BY <1>5, <1>7, <1>8 DEF part, faster

-----------------------------------------------------------------------------
\* From the invariant: what t is silent about, and the largest t.

\* What the crop statistic is silent about, in the words of the model.
LEMMA SilentMeans ==
    ASSUME samples \in Seq(Sample), NEW limit
    PROVE  Silent(samples, Among("A", Len(samples), limit), Among("B", Len(samples), limit))
               <=> \/ \E c \in Class : Cardinality(Among(c, Len(samples), limit)) < 2
                   \/ \A c \in Class : \A n, m \in Among(c, Len(samples), limit) :
                          samples[n].t = samples[m].t
  <1> DEFINE N == Len(samples)
             of(c) == Among(c, N, limit)
             equal(c) == \A n, m \in of(c) : samples[n].t = samples[m].t
  <1>1. N \in Nat
    BY SampleTimes
  <1>2. ASSUME NEW c \in Class
        PROVE  /\ of(c) \in SUBSET (1 .. N) /\ Cardinality(of(c)) \in Nat
               /\ Cardinality(of(c)) >= 2 => (Spread(samples, of(c)) = 0 <=> equal(c))
    <2>1. of(c) \in SUBSET (1 .. N)
      BY DEF Among
    <2> HIDE DEF of
    <2>2. Cardinality(of(c)) \in Nat /\ (Cardinality(of(c)) = 0 <=> of(c) = {})
      BY <1>1, <2>1, SubsetCount
    <2>3. ASSUME Cardinality(of(c)) >= 2 PROVE Spread(samples, of(c)) = 0 <=> equal(c)
      <3>1. of(c) # {}
        BY <2>2, <2>3
      <3> QED  BY <2>1, <3>1, NoSpread
    <2> QED  BY <2>1, <2>2, <2>3
  <1> HIDE DEF of, equal
  <1>3. Silent(samples, of("A"), of("B")) <=>
            (\E c \in Class : Cardinality(of(c)) < 2) \/ (\A c \in Class : equal(c))
    <2> DEFINE kA == Cardinality(of("A"))
               kB == Cardinality(of("B"))
               zA == Spread(samples, of("A"))
               zB == Spread(samples, of("B"))
    <2>1. kA \in Nat /\ kB \in Nat
      BY <1>2 DEF Class
    <2>2. (kA >= 2 => (zA = 0 <=> equal("A"))) /\ (kB >= 2 => (zB = 0 <=> equal("B")))
      BY <1>2 DEF Class
    <2>3. /\ (\E c \in Class : Cardinality(of(c)) < 2) <=> kA < 2 \/ kB < 2
          /\ (\A c \in Class : equal(c)) <=> equal("A") /\ equal("B")
      BY DEF Class
    <2>4. Silent(samples, of("A"), of("B")) <=> kA < 2 \/ kB < 2 \/ (zA = 0 /\ zB = 0)
      BY DEF Silent
    <2> HIDE DEF kA, kB, zA, zB
    <2> QED  BY <2>1, <2>2, <2>3, <2>4
  <1> QED  BY <1>3 DEF of, equal

LEMMA InvBlind == Inv => BlindOnlyWhenConstant
  <1> SUFFICES ASSUME Inv, stage \in {"cut", "done"}, crops # <<>>
               PROVE  crops[Len(crops)].t = None <=>
                        \/ \E c \in Class : Cardinality(Among(c, Len(samples), cutoff)) < 2
                        \/ \A c \in Class : Constant(c)
    BY DEF BlindOnlyWhenConstant
  <1> DEFINE N == Len(samples)
             k == Len(crops)
             t == T(WelchIn(samples, N, cutoff))
  <1>1. samples \in Seq(Sample) /\ N \in Nat /\ N \in 0 .. N /\ crops \in Seq(Entry)
    <2>1. samples \in Seq(Sample) /\ crops \in Seq(Entry)
      BY DEF Inv, Types, Entry
    <2> QED  BY <2>1
  <1>2. k \in 1 .. k /\ k # 0
    BY <1>1
  <1>3. cutoff = LimitIn(sorted, k)
    BY <1>2 DEF Inv, Running
  <1>4. crops[k].t = t
    <2>1. \A n \in 1 .. Len(crops) : crops[n] = ResultIn(samples, sorted, n)
      BY DEF Inv, Results
    <2>2. crops[k] = ResultIn(samples, sorted, k)
      BY <1>2, <2>1
    <2>3. ResultIn(samples, sorted, k).t = t
      BY <1>3 DEF ResultIn, CropResult
    <2> QED  BY <2>2, <2>3
  <1>5. IsT(t, samples, AmongIn(samples, "A", N, cutoff), AmongIn(samples, "B", N, cutoff))
    BY <1>1, WelchT
  <1>6. t = None <=> Silent(samples, Among("A", N, cutoff), Among("B", N, cutoff))
    BY <1>5 DEF IsT, AmongIn, Among
  <1> QED  BY <1>1, <1>4, <1>6, SilentMeans DEF Constant

-----------------------------------------------------------------------------
LEMMA LessOrder ==
    ASSUME NEW p \in Ratio, NEW q \in Ratio, NEW r \in Ratio
    PROVE  /\ Less(p, q) /\ ~Less(r, q) => Less(p, r)
           /\ ~Less(q, p) /\ Less(q, r) => Less(p, r)
           /\ Less(p, q) => ~Less(q, p)
  <1> DEFINE a == p.num
             b == p.den
             c == q.num
             d == q.den
             e == r.num
             f == r.den
  <1>1. /\ a \in Int /\ c \in Int /\ e \in Int /\ b \in Positive /\ d \in Positive /\ f \in Positive
        /\ b \in Int /\ d \in Int /\ f \in Int
    BY RatioParts
  <1>2. /\ Less(p, q) <=> a * d < c * b
        /\ Less(r, q) <=> e * d < c * f
        /\ Less(p, r) <=> a * f < e * b
        /\ Less(q, p) <=> c * b < a * d
        /\ Less(q, r) <=> c * f < e * d
    BY DEF Less
  <1> HIDE DEF a, b, c, d, e, f
  <1> DEFINE ad == a * d
             cb == c * b
             ed == e * d
             cf == c * f
             af == a * f
             eb == e * b
  <1>3. /\ ad \in Int /\ cb \in Int /\ ed \in Int /\ cf \in Int /\ af \in Int /\ eb \in Int
        /\ ad * f = af * d /\ cb * f = cf * b /\ ed * b = eb * d
    BY <1>1
  <1> HIDE DEF ad, cb, ed, cf, af, eb
  <1> DEFINE x == ad * f
             y == cb * f
             z == ed * b
  <1>4. x \in Int /\ y \in Int /\ z \in Int
    BY <1>1, <1>3
  <1>5. /\ ad < cb <=> x < y
        /\ ad <= cb <=> x <= y
    BY <1>1, <1>3, Scaled
  <1>6. /\ cf < ed <=> y < z
        /\ cf <= ed <=> y <= z
    BY <1>1, <1>3, Scaled
  <1>7. af < eb <=> x < z
    BY <1>1, <1>3, Scaled
  <1>8. /\ Less(p, q) <=> ad < cb
        /\ Less(r, q) <=> ed < cf
        /\ Less(p, r) <=> af < eb
        /\ Less(q, p) <=> cb < ad
        /\ Less(q, r) <=> cf < ed
    BY <1>2 DEF ad, cb, ed, cf, af, eb
  <1> HIDE DEF x, y, z
  <1> QED  BY <1>3, <1>4, <1>5, <1>6, <1>7, <1>8

\* The largest of the statistics is the largest of them.
LEMMA MaxIsLargest ==
    ASSUME crops \in Seq(Entry), NEW s \in Ratio, ~Less(s, Zero)
    PROVE  /\ max_abs_t \in Ratio
           /\ Less(s, max_abs_t) <=>
                \E n \in 1 .. Len(crops) : crops[n].t # None /\ Less(s, crops[n].t.val.square)
  <1> DEFINE Seen(f) == f = [n \in Nat |-> IF n = 0 THEN Zero ELSE Larger(f[n - 1], crops[n])]
             largest == CHOOSE f : Seen(f)
             Above(n) == crops[n].t # None /\ Less(s, crops[n].t.val.square)
             D == {n \in Nat : n <= Len(crops) =>
                      /\ largest[n] \in Ratio
                      /\ Less(s, largest[n]) <=> \E m \in 1 .. n : Above(m)}
  <1>1. max_abs_t = largest[Len(crops)]
    BY DEF max_abs_t, Report
  <1>2. Seen(largest)
    <2>1. \E f : Seen(f)
      <3> DEFINE rule == [does |-> "larger", a |-> crops]
      <3>1. \A m, v : Turn(rule, m, v) = Larger(v, crops[m])
        BY DEF Turn
      <3> HIDE DEF rule
      <3>2. PICK f : Loops(f, rule, Zero)
        BY LoopIsDefined
      <3> QED  BY <3>1, <3>2 DEF Loops
    <2> HIDE DEF Seen
    <2> QED  BY <2>1
  <1> HIDE DEF largest
  <1>3. largest[0] = Zero /\ \A n \in Nat : largest[n + 1] = Larger(largest[n], crops[n + 1])
    BY <1>2
  <1>4. Zero \in Ratio /\ Len(crops) \in Nat /\ \A n \in 1 .. Len(crops) : crops[n] \in Entry
    BY WholeIs DEF Zero
  <1> HIDE DEF Seen, Above
  <1>5. 0 \in D
    <2>1. ~(\E m \in 1 .. 0 : Above(m))
      OBVIOUS
    <2> QED  BY <1>3, <1>4, <2>1
  <1>6. ASSUME NEW n \in D PROVE n + 1 \in D
    <2> SUFFICES ASSUME n + 1 <= Len(crops)
                 PROVE  /\ largest[n + 1] \in Ratio
                        /\ Less(s, largest[n + 1]) <=> \E m \in 1 .. n + 1 : Above(m)
      OBVIOUS
    <2> DEFINE a == largest[n]
               c == crops[n + 1]
    <2>1. n \in Nat /\ a \in Ratio /\ (Less(s, a) <=> \E m \in 1 .. n : Above(m))
      BY <1>4
    <2>2. largest[n + 1] = Larger(a, c)
      BY <1>3, <2>1
    <2>3. c.t # None => c.t.val.square \in Ratio
      <3>1. n + 1 \in 1 .. Len(crops)
        BY <1>4, <2>1
      <3>2. c \in Entry
        BY <1>4, <3>1
      <3>3. c.t # None => c.t.val \in Statistic
        BY <3>2 DEF Entry, Some
      <3> QED  BY <3>3 DEF Statistic
    <2>4. Above(n + 1) <=> c.t # None /\ Less(s, c.t.val.square)
      BY DEF Above
    <2> HIDE DEF a, c
    <2>5. Larger(a, c) \in Ratio /\ (Less(s, Larger(a, c)) <=> Less(s, a) \/ Above(n + 1))
      <3>1. CASE c.t # None /\ Less(a, c.t.val.square)
        <4>1. Larger(a, c) = c.t.val.square
          BY <3>1 DEF Larger
        <4>2. c.t.val.square \in Ratio
          BY <2>3, <3>1
        <4>3. Less(s, a) => Less(s, c.t.val.square)
          BY <2>1, <3>1, <4>2, LessOrder
        <4> QED  BY <2>4, <3>1, <4>1, <4>2, <4>3
      <3>2. CASE ~(c.t # None /\ Less(a, c.t.val.square))
        <4>1. Larger(a, c) = a
          BY <3>2 DEF Larger
        <4>2. ASSUME c.t # None, Less(s, c.t.val.square) PROVE Less(s, a)
          <5>1. c.t.val.square \in Ratio /\ ~Less(a, c.t.val.square)
            BY <2>3, <3>2, <4>2
          <5> QED  BY <2>1, <4>2, <5>1, LessOrder
        <4> QED  BY <2>1, <2>4, <4>1, <4>2
      <3> QED  BY <3>1, <3>2
    <2>6. (\E m \in 1 .. n + 1 : Above(m)) <=> (\E m \in 1 .. n : Above(m)) \/ Above(n + 1)
      <3>1. \A m : m \in 1 .. n + 1 <=> m \in 1 .. n \/ m = n + 1
        BY <2>1
      <3> QED  BY <3>1
    <2> QED  BY <2>1, <2>2, <2>5, <2>6
  <1> HIDE DEF D
  <1>7. D \in SUBSET Nat
    BY DEF D
  <1>8. Len(crops) \in D
    BY <1>4, <1>5, <1>6, <1>7, Induction
  <1>9. /\ largest[Len(crops)] \in Ratio
        /\ Less(s, largest[Len(crops)]) <=> \E m \in 1 .. Len(crops) : Above(m)
    BY <1>4, <1>8 DEF D
  <1> QED  BY <1>1, <1>9 DEF Above

-----------------------------------------------------------------------------
\* From the invariant: the report.

\* The thresholds the report is compared with, squared.
LEMMA Thresholds ==
    /\ Square(Threshold) \in Ratio /\ ~Less(Square(Threshold), Zero)
    /\ Square(Times(Threshold, Whole(1))) = Square(Threshold)
    /\ Square(Times(Threshold, Whole(2))) \in Ratio
    /\ ~Less(Square(Times(Threshold, Whole(2))), Square(Threshold))
  <1> DEFINE a == Threshold.num
             b == Threshold.den
             once == Times(Threshold, Whole(1))
             twice == Times(Threshold, Whole(2))
             m == a * a
             n == b * b
  <1>1. a \in Nat /\ a \in Int /\ b \in Positive /\ b \in Int /\ b > 0 /\ Is(Threshold, a, b)
    <2>1. Threshold \in Ratio /\ Threshold.num >= 0
      BY ThresholdAssumption
    <2> QED  BY <2>1, RatioParts, ItsOwn
  <1>2. Is(Whole(1), 1, 1) /\ Is(Whole(2), 2, 1) /\ Is(Zero, 0, 1) /\ 1 \in Positive
    BY WholeIs DEF Zero, Positive
  <1> HIDE DEF a, b
  <1>3. Is(once, a, b)
    <2>1. once = Fraction(a * 1, b * 1)
      BY <1>1, <1>2, TimesIs
    <2>2. a * 1 = a /\ b * 1 = b
      BY <1>1
    <2> QED  BY <1>1, <2>1, <2>2, FractionIsItself
  <1>4. Is(twice, 2 * a, b)
    <2>1. twice = Fraction(a * 2, b * 1)
      BY <1>1, <1>2, TimesIs
    <2>2. a * 2 = 2 * a /\ b * 1 = b /\ 2 * a \in Int
      BY <1>1
    <2> QED  BY <1>1, <2>1, <2>2, FractionIsItself
  <1>5. m \in Nat /\ m \in Int /\ n \in Positive /\ n \in Int
    BY <1>1, ProductPositive
  <1>6. Square(Threshold) = Fraction(m, n) /\ Square(once) = Fraction(m, n)
    <2> HIDE DEF once
    <2> QED  BY <1>1, <1>3, TimesIs DEF Square
  <1>7. Square(twice) = Fraction(4 * m, n)
    <2> HIDE DEF twice
    <2>1. 2 * a \in Int
      BY <1>1
    <2>2. Square(twice) = Fraction((2 * a) * (2 * a), n)
      BY <1>1, <1>4, <2>1, TimesIs DEF Square
    <2>3. (2 * a) * (2 * a) = 4 * m
      BY <1>1
    <2> QED  BY <2>2, <2>3
  <1> HIDE DEF m, n, once, twice
  <1>8. 4 * m \in Int
    BY <1>5
  <1>9. Is(Square(Threshold), m, n) /\ Is(Square(twice), 4 * m, n)
    BY <1>5, <1>6, <1>7, <1>8, FractionIsItself
  <1>10. ~Less(Square(Threshold), Zero)
    <2>1. Less(Square(Threshold), Zero) <=> m * 1 < 0 * n
      BY <1>2, <1>5, <1>9, LessIs
    <2> QED  BY <1>5, <2>1
  <1>11. ~Less(Square(twice), Square(Threshold))
    <2> DEFINE p == m * n
    <2>1. Less(Square(twice), Square(Threshold)) <=> (4 * m) * n < m * n
      BY <1>5, <1>8, <1>9, LessIs
    <2>2. p \in Int /\ p >= 0 /\ (4 * m) * n = 4 * p
      BY <1>5 DEF Positive
    <2>3. ~(4 * p < p)
      <3> HIDE DEF p
      <3> QED  BY <2>2
    <2> QED  BY <2>1, <2>2, <2>3
  <1>12. Square(Threshold) \in Ratio /\ Square(twice) \in Ratio
    BY <1>9 DEF Is
  <1> QED  BY <1>6, <1>10, <1>11, <1>12 DEF once, twice

\* The two passes of the property say what the statistic says.
LEMMA DistinguishesIs ==
    ASSUME samples \in Seq(Sample), NEW limit
    PROVE  LET A == Among("A", Len(samples), limit)
               B == Among("B", Len(samples), limit)
           IN  Distinguishes(limit) <=>
                   ~Silent(samples, A, B) /\ Exceeded(Square(Threshold), samples, A, B)
  <1> DEFINE of(c) == Among(c, Len(samples), limit)
             k(c) == Cardinality(of(c))
             spread(c) == Over(SquaresOf(of(c)), (k(c) - 1) * k(c))
  <1>1. of("A") \in SUBSET (1 .. Len(samples)) /\ of("B") \in SUBSET (1 .. Len(samples))
    BY DEF Among
  <1>2. k("A") \in Nat /\ k("B") \in Nat
    <2>1. Len(samples) \in Nat
      BY SampleTimes
    <2> HIDE DEF of
    <2> QED  BY <1>1, <2>1, SubsetCount
  <1>3. ASSUME NEW c \in Class, k(c) >= 2
        PROVE  /\ spread(c) = Share(samples, of(c)) /\ MeanOf(of(c)) = Mean(samples, of(c))
               /\ spread(c) # Zero <=> Spread(samples, of(c)) # 0
    <2>1. of(c) \in SUBSET (1 .. Len(samples))
      BY DEF Among
    <2> HIDE DEF of
    <2>2. Len(samples) \in Nat
      BY SampleTimes
    <2>3. of(c) # {}
      BY <1>3, <2>1, <2>2, SubsetCount
    <2>4. /\ MeanOf(of(c)) = Fraction(TimesIn(samples, of(c)), k(c))
          /\ SquaresOf(of(c)) = Fraction(Spread(samples, of(c)), k(c))
      BY <2>1, <2>3, TwoPasses
    <2>5. spread(c) = Share(samples, of(c)) /\ MeanOf(of(c)) = Mean(samples, of(c))
      BY <2>4 DEF Share, Mean
    <2>6. /\ Spread(samples, of(c)) \in Int
          /\ \E d \in Positive : Share(samples, of(c)) = Fraction(Spread(samples, of(c)), d)
      BY <1>3, <2>1, Shares
    <2>7. Share(samples, of(c)) # Zero <=> Spread(samples, of(c)) # 0
      BY <2>6, ZeroIs
    <2> HIDE DEF spread
    <2> QED  BY <2>5, <2>7
  <1>4. Distinguishes(limit) <=>
            /\ \A c \in Class : k(c) >= 2
            /\ Less(Times(Square(Threshold), Plus(spread("A"), spread("B"))),
                    Square(Minus(MeanOf(of("A")), MeanOf(of("B")))))
            /\ spread("A") # Zero \/ spread("B") # Zero
    BY DEF Distinguishes
  <1>5. (\A c \in Class : k(c) >= 2) <=> k("A") >= 2 /\ k("B") >= 2
    BY DEF Class
  <1>6. CASE k("A") >= 2 /\ k("B") >= 2
    <2>1. /\ spread("A") = Share(samples, of("A")) /\ MeanOf(of("A")) = Mean(samples, of("A"))
          /\ spread("A") # Zero <=> Spread(samples, of("A")) # 0
      BY <1>3, <1>6 DEF Class
    <2>2. /\ spread("B") = Share(samples, of("B")) /\ MeanOf(of("B")) = Mean(samples, of("B"))
          /\ spread("B") # Zero <=> Spread(samples, of("B")) # 0
      BY <1>3, <1>6 DEF Class
    <2>3. ~Silent(samples, of("A"), of("B"))
              <=> Spread(samples, of("A")) # 0 \/ Spread(samples, of("B")) # 0
      BY <1>2, <1>6 DEF Silent
    <2>4. Exceeded(Square(Threshold), samples, of("A"), of("B")) <=>
              Less(Times(Square(Threshold), Plus(spread("A"), spread("B"))),
                   Square(Minus(MeanOf(of("A")), MeanOf(of("B")))))
      BY <2>1, <2>2 DEF Exceeded
    <2>5. Distinguishes(limit) <=> ~Silent(samples, of("A"), of("B"))
                                       /\ Exceeded(Square(Threshold), samples, of("A"), of("B"))
      <3> HIDE DEF of, k, spread
      <3> QED  BY <1>4, <1>5, <1>6, <2>1, <2>2, <2>3, <2>4
    <2> QED  BY <2>5
  <1>7. CASE ~(k("A") >= 2 /\ k("B") >= 2)
    <2>1. ~Distinguishes(limit)
      BY <1>4, <1>5, <1>7
    <2>2. Silent(samples, of("A"), of("B"))
      BY <1>2, <1>7 DEF Silent
    <2> QED  BY <2>1, <2>2
  <1> QED  BY <1>6, <1>7

LEMMA InvReport == Inv => ReportIsRight
  <1> SUFFICES ASSUME Inv, stage = "done"
               PROVE  /\ leaks <=> Verdict \in {"leaks", "leaks clearly"}
                      /\ leaks <=>
                          \/ Distinguishes(Unbounded)
                          \/ \E n \in 2 .. Len(CROPS) :
                              Distinguishes(sorted[1 + Floor(Times(CROPS[n], Whole(Len(sorted))))])
    BY DEF ReportIsRight
  <1> DEFINE s == Square(Threshold)
             u == Square(Times(Threshold, Whole(2)))
             Above(n) == crops[n].t # None /\ Less(s, crops[n].t.val.square)
  <1>1. /\ samples \in Seq(Sample) /\ crops \in Seq(Entry)
        /\ Len(crops) = Len(CROPS) /\ Len(CROPS) \in Nat /\ Len(CROPS) > 1
        /\ \A n \in 1 .. Len(crops) : crops[n] = ResultIn(samples, sorted, n)
    <2>1. samples \in Seq(Sample) /\ crops \in Seq(Entry)
      BY DEF Inv, Types, Entry
    <2>2. Len(crops) = Len(CROPS)
      BY DEF Inv, Stages
    <2>3. \A n \in 1 .. Len(crops) : crops[n] = ResultIn(samples, sorted, n)
      BY DEF Inv, Results
    <2> QED  BY <2>1, <2>2, <2>3, CropFacts
  <1>2. s \in Ratio /\ ~Less(s, Zero) /\ u \in Ratio /\ ~Less(u, s)
    BY Thresholds
  <1>3. Exceeds(Whole(1)) <=> Less(s, max_abs_t)
    BY Thresholds DEF Exceeds, Report
  <1>4. Exceeds(Whole(2)) <=> Less(u, max_abs_t)
    BY DEF Exceeds, Report
  <1> HIDE DEF s, u
  <1>5. /\ max_abs_t \in Ratio
        /\ Less(s, max_abs_t) <=> \E n \in 1 .. Len(crops) : Above(n)
    BY <1>1, <1>2, MaxIsLargest
  <1>6. Exceeds(Whole(2)) => Exceeds(Whole(1))
    BY <1>2, <1>3, <1>4, <1>5, LessOrder
  <1>7. leaks <=> Verdict \in {"leaks", "leaks clearly"}
    BY <1>6 DEF leaks, Verdict
  <1>8. ASSUME NEW n \in 1 .. Len(CROPS)
        PROVE  Above(n) <=> Distinguishes(LimitIn(sorted, n))
    <2> DEFINE limit == LimitIn(sorted, n)
               N == Len(samples)
               t == T(WelchIn(samples, N, limit))
               A == Among("A", N, limit)
               B == Among("B", N, limit)
    <2>1. crops[n].t = t
      <3>1. crops[n] = ResultIn(samples, sorted, n)
        BY <1>1
      <3> QED  BY <3>1 DEF ResultIn, CropResult
    <2>2. N \in 0 .. N
      BY <1>1
    <2>3. IsT(t, samples, A, B)
      <3>1. IsT(t, samples, AmongIn(samples, "A", N, limit), AmongIn(samples, "B", N, limit))
        BY <1>1, <2>2, WelchT
      <3> QED  BY <3>1 DEF AmongIn, Among
    <2>4. Distinguishes(limit) <=> ~Silent(samples, A, B) /\ Exceeded(s, samples, A, B)
      BY <1>1, DistinguishesIs DEF s
    <2> HIDE DEF limit, t, A, B
    <2>5. /\ t = None <=> Silent(samples, A, B)
          /\ t # None => (Less(s, t.val.square) <=> Exceeded(s, samples, A, B))
      BY <1>2, <2>3 DEF IsT
    <2>6. Above(n) <=> t # None /\ Less(s, t.val.square)
      BY <2>1
    <2> HIDE DEF Above
    <2>7. Above(n) <=> Distinguishes(limit)
      BY <2>4, <2>5, <2>6
    <2> QED  BY <2>7 DEF limit
  <1>9. LimitIn(sorted, 1) = Unbounded
    BY DEF LimitIn
  <1>10. ASSUME NEW n \in 2 .. Len(CROPS)
         PROVE  LimitIn(sorted, n) = sorted[1 + Floor(Times(CROPS[n], Whole(Len(sorted))))]
    <2> DEFINE part == Times(CROPS[n], Whole(Len(sorted)))
    <2>1. n # 1 /\ n \in 1 .. Len(CROPS)
      BY <1>1
    <2>2. CROPS[n] \in Ratio /\ Whole(Len(sorted)) \in Ratio
      <3>1. Len(sorted) \in Int
        BY <1>1 DEF Inv, Stages, InOrder
      <3> QED  BY <2>1, <3>1, CropFacts, WholeIs
    <2>3. Floor(part) \in Int
      BY <2>2, RatioClosed, FloorIs
    <2>4. LimitIn(sorted, n) = sorted[Floor(part) + 1]
      BY <2>1 DEF LimitIn, PartOf
    <2> HIDE DEF part
    <2>5. Floor(part) + 1 = 1 + Floor(part)
      BY <2>3
    <2> QED  BY <2>4, <2>5 DEF part
  <1>11. \A n : n \in 1 .. Len(CROPS) <=> n = 1 \/ n \in 2 .. Len(CROPS)
    BY <1>1
  <1> HIDE DEF Above
  <1>12. leaks <=> \E n \in 1 .. Len(CROPS) : Above(n)
    BY <1>1, <1>3, <1>5 DEF leaks
  <1> QED  BY <1>7, <1>8, <1>9, <1>10, <1>11, <1>12

-----------------------------------------------------------------------------
(***************************************************************************)
(* run can only panic where it takes the last index of no times at all, in  *)
(* the first crop that is a part, and never reads past the sorted times.    *)
(***************************************************************************)
THEOREM OnlyNoSamplesPanic == Spec => []PanicsOnlyWithoutSamples
  <1>1. Spec => []Inv
    BY InvIsInductive
  <1> QED  BY <1>1, InvPanics, PTL

(***************************************************************************)
(* Welch::push never loses the moments: at each step they are what two      *)
(* passes over what the crop kept so far give, whatever the times.          *)
(***************************************************************************)
THEOREM PushIsTwoPass == Spec => []WelchIsTwoPass
  <1>1. Spec => []Inv
    BY InvIsInductive
  <1> QED  BY <1>1, InvTwoPass, PTL

(***************************************************************************)
(* The cut-off run takes from the sorted times keeps the part it is for and *)
(* the ties with its slowest, and no crop keeps more than the one before.   *)
(***************************************************************************)
THEOREM CutoffKeepsPart == Spec => []CropsKeepTheirPart
  <1>1. Spec => []Inv
    BY InvIsInductive
  <1> QED  BY <1>1, InvKeeps, PTL

(***************************************************************************)
(* Welch::t has no statistic for a crop only of too few of a class, or of   *)
(* two classes neither of which varies.                                    *)
(***************************************************************************)
THEOREM TSeesWhatVaries == Spec => []BlindOnlyWhenConstant
  <1>1. Spec => []Inv
    BY InvIsInductive
  <1> QED  BY <1>1, InvBlind, PTL

(***************************************************************************)
(* Report::leaks and Report::verdict say that there is a leak exactly when  *)
(* two passes over some crop tell the classes apart.                       *)
(***************************************************************************)
THEOREM ReportSaysWhatTheCropsShow == Spec => []ReportIsRight
  <1>1. Spec => []Inv
    BY InvIsInductive
  <1> QED  BY <1>1, InvReport, PTL
=============================================================================
