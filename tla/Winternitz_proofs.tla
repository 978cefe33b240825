-------------------------- MODULE Winternitz_proofs --------------------------
(***************************************************************************)
(* Induction over the naturals, for sets of them, and what it gives for    *)
(* the definitions of Winternitz: running totals, powers of two, the       *)
(* coefficients of a digest, the digits of its checksum and the links of   *)
(* its chains.                                                             *)
(***************************************************************************)
EXTENDS Winternitz, LmsTerms, WellFoundedInduction, SequenceTheorems, TLAPS

\* A set of numbers has a least one.
LEMMA LeastOfNumbers ==
    ASSUME NEW S \in SUBSET Nat, S # {}
    PROVE  \E u \in S : \A v \in S : u <= v
  <1> DEFINE less == {ss \in Nat \X Nat : ss[1] < ss[2]}
  <1>1. OpToRel(<, Nat) = less
    BY Zenon DEF OpToRel
  <1>2. IsWellFoundedOn(less, Nat)
    BY <1>1, NatLessThanWellFounded, Zenon
  <1> HIDE DEF less
  <1>3. PICK u \in S : \A v \in S : <<v, u>> \notin less
    BY <1>2, WFMin
  <1>4. ASSUME NEW v \in S PROVE u <= v
    <2>1. v < u => <<v, u>> \in less
      BY DEF less
    <2> QED  BY <2>1, <1>3
  <1> QED  BY <1>4

\* A set of numbers that has 0, and the successor of each, has them all.
LEMMA Induction ==
    ASSUME NEW S \in SUBSET Nat, 0 \in S, \A n \in S : n + 1 \in S
    PROVE  \A n \in Nat : n \in S
  <1> SUFFICES ASSUME Nat \ S # {} PROVE FALSE
    OBVIOUS
  <1>1. PICK u \in Nat \ S : \A v \in Nat \ S : u <= v
    BY LeastOfNumbers
  <1>2. u - 1 \in S
    BY <1>1
  <1> QED  BY <1>1, <1>2

-----------------------------------------------------------------------------
\* Division with remainder.
LEMMA DivMod ==
    ASSUME NEW a \in Nat, NEW b \in Nat \ {0}
    PROVE  a \div b \in Nat /\ a % b \in 0 .. b - 1 /\ a = b * (a \div b) + (a % b)
  OBVIOUS

LEMMA DivIs ==
    ASSUME NEW a \in Nat, NEW b \in Nat \ {0}, NEW q \in Nat, NEW r \in 0 .. b - 1,
           a = b * q + r
    PROVE  a \div b = q /\ a % b = r
  <1> DEFINE p == a \div b
  <1>1. p \in Nat /\ a % b \in 0 .. b - 1 /\ b * p + (a % b) = b * q + r
    BY DivMod
  <1> HIDE DEF p
  <1>2. ASSUME p < q PROVE FALSE
    <2>1. q >= p + 1
      BY <1>1, <1>2
    <2>2. b * q >= b * (p + 1)
      BY <1>1, <2>1
    <2> QED  BY <1>1, <2>2
  <1>3. ASSUME q < p PROVE FALSE
    <2>1. p >= q + 1
      BY <1>1, <1>3
    <2>2. b * p >= b * (q + 1)
      BY <1>1, <2>1
    <2> QED  BY <1>1, <2>2
  <1>4. p = q
    BY <1>1, <1>2, <1>3
  <1> QED  BY <1>1, <1>4 DEF p

\* Dividing by a product is dividing twice, and a remainder splits the same way.
DivSplits(a, b, c) ==
    /\ (a \div b) \div c = a \div (b * c)
    /\ (a % (b * c)) \div b = (a \div b) % c
    /\ (a % (b * c)) % b = a % b

LEMMA DivDiv ==
    ASSUME NEW a \in Nat, NEW b \in Nat \ {0}, NEW c \in Nat \ {0}
    PROVE  DivSplits(a, b, c)
  <1> DEFINE q == a \div b
             r == a % b
             p == q \div c
             t == q % c
  <1>1. q \in Nat /\ r \in 0 .. b - 1 /\ a = b * q + r
    BY DivMod
  <1>2. p \in Nat /\ t \in 0 .. c - 1 /\ q = c * p + t
    BY <1>1, DivMod
  <1> HIDE DEF q, r, p, t
  <1>3. b * c \in Nat \ {0} /\ b * t \in Nat
    BY <1>2
  <1>4. b * t <= b * (c - 1)
    BY <1>2
  <1>5. b * (c - 1) = b * c - b
    OBVIOUS
  <1>6. b * t + r \in 0 .. b * c - 1
    BY <1>1, <1>3, <1>4, <1>5
  <1>7. a = (b * c) * p + (b * t + r)
    <2>1. b * (c * p + t) = (b * c) * p + b * t
      BY <1>2
    <2> QED  BY <1>1, <1>2, <2>1
  <1>8. a \div (b * c) = p /\ a % (b * c) = b * t + r
    BY <1>2, <1>3, <1>6, <1>7, DivIs
  <1>9. b * t + r \in Nat /\ t \in Nat
    BY <1>1, <1>2, <1>3
  <1>10. (b * t + r) \div b = t /\ (b * t + r) % b = r
    BY <1>1, <1>9, DivIs
  <1>11. /\ (a \div b) \div c = p /\ (a \div b) % c = t
         /\ a % b = r
    BY DEF p, q, r, t
  <1> QED  BY <1>8, <1>10, <1>11 DEF DivSplits

\* And division keeps an order.
LEMMA DivMono ==
    ASSUME NEW a \in Nat, NEW b \in Nat, NEW c \in Nat \ {0}, a <= b
    PROVE  a \div c <= b \div c
  <1> DEFINE q == a \div c
             r == a % c
             p == b \div c
             t == b % c
  <1>1. q \in Nat /\ r \in 0 .. c - 1 /\ a = c * q + r
    BY DivMod
  <1>2. p \in Nat /\ t \in 0 .. c - 1 /\ b = c * p + t
    BY DivMod
  <1> HIDE DEF q, r, p, t
  <1>3. ASSUME p < q PROVE FALSE
    <2>1. p + 1 <= q
      BY <1>1, <1>2, <1>3
    <2>2. c * (p + 1) <= c * q
      BY <1>1, <1>2, <2>1
    <2>3. c * (p + 1) = c * p + c /\ c * p \in Nat /\ c * q \in Nat
      BY <1>1, <1>2
    <2> QED  BY <1>1, <1>2, <2>2, <2>3
  <1>4. q <= p
    BY <1>1, <1>2, <1>3
  <1> QED  BY <1>4 DEF q, p

-----------------------------------------------------------------------------
\* What the loops of the models do with what they have, in their mth turn.
Turn(rule, m, v) ==
    CASE rule.does = "add"    -> v + rule.a[m - 1]
      [] rule.does = "double" -> 2 * v
      [] rule.does = "halve"  -> v \div 2
      [] rule.does = "hash"   ->
            Hash(<<rule.id, U32(rule.q), U16(rule.n), U8(rule.from + m - 1), v>>)

\* A function that follows such a loop as far as n.
Follows(f, rule, base, n) ==
    f = [m \in 0 .. n |-> IF m = 0 THEN base ELSE Turn(rule, m, f[m - 1])]

\* Two functions that do agree as far as both go.
LEMMA SameTurns ==
    ASSUME NEW rule, NEW base, NEW n \in Nat, NEW m \in Nat, NEW f, NEW g,
           Follows(f, rule, base, n), Follows(g, rule, base, m)
    PROVE  \A l \in 0 .. n : l \in 0 .. m => f[l] = g[l]
  <1> DEFINE S == {l \in Nat : l \in 0 .. n /\ l \in 0 .. m => f[l] = g[l]}
  <1>1. 0 \in S
    BY DEF Follows
  <1>2. ASSUME NEW l \in S PROVE l + 1 \in S
    <2> SUFFICES ASSUME l + 1 \in 0 .. n, l + 1 \in 0 .. m PROVE f[l + 1] = g[l + 1]
      OBVIOUS
    <2>1. f[l + 1] = Turn(rule, l + 1, f[l]) /\ g[l + 1] = Turn(rule, l + 1, g[l])
      BY Z3 DEF Follows
    <2> QED  BY <2>1
  <1> HIDE DEF S
  <1>3. \A l \in Nat : l \in S
    <2>1. S \in SUBSET Nat
      BY DEF S
    <2> QED  BY <1>1, <1>2, <2>1, Induction
  <1> QED  BY <1>3 DEF S

\* There is one for each n.
LEMMA TurnsExist == \A rule, base : \A n \in Nat : \E f : Follows(f, rule, base, n)
  <1> SUFFICES ASSUME NEW rule, NEW base PROVE \A n \in Nat : \E f : Follows(f, rule, base, n)
    OBVIOUS
  <1> DEFINE S == {n \in Nat : \E f : Follows(f, rule, base, n)}
  <1>1. 0 \in S
    <2>1. Follows([m \in 0 .. 0 |-> base], rule, base, 0)
      BY DEF Follows
    <2> QED  BY <2>1
  <1>2. ASSUME NEW n \in S PROVE n + 1 \in S
    <2>1. PICK f : Follows(f, rule, base, n)
      OBVIOUS
    <2> DEFINE g == [m \in 0 .. n + 1 |-> IF m = n + 1 THEN Turn(rule, n + 1, f[n]) ELSE f[m]]
    <2>2. \A m \in 0 .. n : f[m] = IF m = 0 THEN base ELSE Turn(rule, m, f[m - 1])
      BY <2>1 DEF Follows
    <2>3. \A m \in 0 .. n + 1 : g[m] = IF m = 0 THEN base ELSE Turn(rule, m, g[m - 1])
      BY <2>2
    <2>4. Follows(g, rule, base, n + 1)
      BY <2>3 DEF Follows
    <2> QED  BY <2>4
  <1> HIDE DEF S
  <1>3. \A n \in Nat : n \in S
    <2>1. S \in SUBSET Nat
      BY DEF S
    <2> QED  BY <1>1, <1>2, <2>1, Induction
  <1> QED  BY <1>3 DEF S

\* So a function defined by such a loop is one that follows it for ever.
Loops(f, rule, base) ==
    f = [m \in Nat |-> IF m = 0 THEN base ELSE Turn(rule, m, f[m - 1])]

LEMMA LoopIsDefined == \A rule, base : \E f : Loops(f, rule, base)
  <1> SUFFICES ASSUME NEW rule, NEW base PROVE \E f : Loops(f, rule, base)
    OBVIOUS
  <1> DEFINE upTo(n) == CHOOSE f : Follows(f, rule, base, n)
             all == [m \in Nat |-> upTo(m)[m]]
  <1>1. \A n \in Nat : Follows(upTo(n), rule, base, n)
    BY TurnsExist
  <1> HIDE DEF upTo
  <1>2. ASSUME NEW m \in Nat
        PROVE  all[m] = IF m = 0 THEN base ELSE Turn(rule, m, all[m - 1])
    <2>1. CASE m = 0
      BY <1>1, <2>1 DEF Follows
    <2>2. CASE m # 0
      <3>1. m - 1 \in Nat /\ m - 1 \in 0 .. m /\ m - 1 \in 0 .. m - 1
        BY <2>2
      <3>2. upTo(m)[m] = Turn(rule, m, upTo(m)[m - 1])
        BY <1>1, <2>2 DEF Follows
      <3>3. upTo(m)[m - 1] = upTo(m - 1)[m - 1]
        BY <1>1, <3>1, SameTurns
      <3> QED  BY <2>2, <3>1, <3>2, <3>3
    <2> QED  BY <2>1, <2>2
  <1>3. all = [m \in Nat |-> IF m = 0 THEN base ELSE Turn(rule, m, all[m - 1])]
    BY <1>2
  <1> HIDE DEF all
  <1> QED  BY <1>3 DEF Loops

-----------------------------------------------------------------------------
\* A total is the one before it and one more term.
LEMMA TotalStep ==
    ASSUME NEW a
    PROVE  /\ Total(a, 0) = 0
           /\ \A n \in Nat : Total(a, n + 1) = Total(a, n) + a[n]
  <1> DEFINE sums(s) == s = [m \in Nat |-> IF m = 0 THEN 0 ELSE s[m - 1] + a[m - 1]]
             s == CHOOSE s : sums(s)
  <1>1. \E f : sums(f)
    <2> DEFINE rule == [does |-> "add", a |-> a]
    <2>1. \A m, v : Turn(rule, m, v) = v + a[m - 1]
      BY DEF Turn
    <2> HIDE DEF rule
    <2>2. PICK f : Loops(f, rule, 0)
      BY LoopIsDefined
    <2> QED  BY <2>1, <2>2 DEF Loops
  <1>2. sums(s)
    BY <1>1
  <1>3. \A n : Total(a, n) = s[n]
    BY DEF Total
  <1> HIDE DEF s
  <1>4. s[0] = 0 /\ \A n \in Nat : s[n + 1] = s[n] + a[n]
    BY <1>2
  <1> QED  BY <1>3, <1>4

\* A shift by one more doubles.
LEMMA Pow2Step == Pow2(0) = 1 /\ \A n \in Nat : Pow2(n + 1) = 2 * Pow2(n)
  <1> DEFINE powers(p) == p = [m \in Nat |-> IF m = 0 THEN 1 ELSE 2 * p[m - 1]]
             p == CHOOSE p : powers(p)
  <1>1. \E f : powers(f)
    <2> DEFINE rule == [does |-> "double"]
    <2>1. \A m, v : Turn(rule, m, v) = 2 * v
      BY DEF Turn
    <2> HIDE DEF rule
    <2>2. PICK f : Loops(f, rule, 1)
      BY LoopIsDefined
    <2> QED  BY <2>1, <2>2 DEF Loops
  <1>2. powers(p)
    BY <1>1
  <1>3. \A n : Pow2(n) = p[n]
    BY DEF Pow2
  <1> HIDE DEF p
  <1>4. p[0] = 1 /\ \A n \in Nat : p[n + 1] = 2 * p[n]
    BY <1>2
  <1> QED  BY <1>3, <1>4

LEMMA Pow2Type == \A n \in Nat : Pow2(n) \in Nat \ {0}
  <1> DEFINE S == {n \in Nat : Pow2(n) \in Nat \ {0}}
  <1>1. 0 \in S /\ \A n \in S : n + 1 \in S
    BY Pow2Step
  <1> HIDE DEF S
  <1>2. \A n \in Nat : n \in S
    <2>1. S \in SUBSET Nat
      BY DEF S
    <2> QED  BY <1>1, <2>1, Induction
  <1> QED  BY <1>2 DEF S

\* Shifts add up.
LEMMA Pow2Sum == \A a, b \in Nat : Pow2(a + b) = Pow2(a) * Pow2(b)
  <1> SUFFICES ASSUME NEW a \in Nat PROVE \A b \in Nat : Pow2(a + b) = Pow2(a) * Pow2(b)
    OBVIOUS
  <1> DEFINE S == {b \in Nat : Pow2(a + b) = Pow2(a) * Pow2(b)}
  <1>1. Pow2(a) \in Nat
    BY Pow2Type
  <1>2. 0 \in S
    BY <1>1, Pow2Step
  <1>3. ASSUME NEW b \in S PROVE b + 1 \in S
    <2>1. a + (b + 1) = (a + b) + 1 /\ a + b \in Nat
      OBVIOUS
    <2>2. Pow2((a + b) + 1) = 2 * Pow2(a + b) /\ Pow2(b + 1) = 2 * Pow2(b) /\ Pow2(b) \in Nat
      BY Pow2Step, Pow2Type, <2>1
    <2> HIDE DEF Pow2
    <2>3. 2 * (Pow2(a) * Pow2(b)) = Pow2(a) * (2 * Pow2(b))
      BY <1>1, <2>2
    <2> QED  BY <2>1, <2>2, <2>3
  <1> HIDE DEF S
  <1>4. \A b \in Nat : b \in S
    <2>1. S \in SUBSET Nat
      BY DEF S
    <2> QED  BY <1>2, <1>3, <2>1, Induction
  <1> QED  BY <1>4 DEF S

\* The shifts there are.
LEMMA SmallPowers ==
    /\ Pow2(0) = 1 /\ Pow2(1) = 2 /\ Pow2(2) = 4 /\ Pow2(3) = 8 /\ Pow2(4) = 16
    /\ Pow2(5) = 32 /\ Pow2(6) = 64 /\ Pow2(7) = 128 /\ Pow2(8) = 256
    /\ Pow2(16) = 256 * 256
  <1>1. /\ Pow2(0 + 1) = 2 * Pow2(0) /\ Pow2(1 + 1) = 2 * Pow2(1) /\ Pow2(2 + 1) = 2 * Pow2(2)
        /\ Pow2(3 + 1) = 2 * Pow2(3) /\ Pow2(4 + 1) = 2 * Pow2(4) /\ Pow2(5 + 1) = 2 * Pow2(5)
        /\ Pow2(6 + 1) = 2 * Pow2(6) /\ Pow2(7 + 1) = 2 * Pow2(7) /\ Pow2(8 + 1) = 2 * Pow2(8)
        /\ Pow2(9 + 1) = 2 * Pow2(9) /\ Pow2(10 + 1) = 2 * Pow2(10) /\ Pow2(11 + 1) = 2 * Pow2(11)
        /\ Pow2(12 + 1) = 2 * Pow2(12) /\ Pow2(13 + 1) = 2 * Pow2(13)
        /\ Pow2(14 + 1) = 2 * Pow2(14) /\ Pow2(15 + 1) = 2 * Pow2(15)
    BY Pow2Step
  <1> QED  BY <1>1, Pow2Step

-----------------------------------------------------------------------------
\* A parameter set of the table.
Sets == {Lmots[t] : t \in DOMAIN Lmots}

LEMMA SetFacts ==
    ASSUME NEW set \in Sets
    PROVE  /\ set.w \in {1, 2, 4, 8} /\ set.p \in Nat \ {0} /\ set.ls \in Nat
           /\ Fields(set) \in Nat \ {0} /\ CksCoefs(set) \in Nat
           /\ set.w * Fields(set) = 8 * N /\ set.w * CksCoefs(set) <= 16
           /\ set.p = Fields(set) + CksCoefs(set)
           /\ Pow2(set.w) \in {2, 4, 16, 256} /\ ChainLen(set) \in 1 .. 255
  <1>1. /\ set.w \in {1, 2, 4, 8} /\ set.p \in Nat \ {0}
        /\ CksCoefs(set) \in Nat /\ set.ls \in Nat /\ set.w * CksCoefs(set) + set.ls = 16
        /\ N \in Nat \ {0}
    BY ChecksumAssumption, TableAssumption DEF Sets
  <1>2. Fields(set) \in Nat \ {0} /\ set.w * Fields(set) = 8 * N
    BY <1>1 DEF Fields
  <1>3. Pow2(set.w) \in {2, 4, 16, 256} /\ ChainLen(set) \in 1 .. 255
    BY <1>1, SmallPowers DEF ChainLen
  <1>4. set.w * CksCoefs(set) <= 16
    BY <1>1
  <1>5. set.p = Fields(set) + CksCoefs(set)
    BY <1>1, <1>2 DEF CksCoefs
  <1> QED  BY <1>1, <1>2, <1>3, <1>4, <1>5

\* A coefficient of enough bytes is a link of a chain.
LEMMA CoefType ==
    ASSUME NEW set \in Sets, NEW len \in Nat, NEW s, \A n \in 1 .. len : s[n] \in 0 .. 255,
           NEW n \in Nat, set.w * (n + 1) <= 8 * len
    PROVE  Coef(s, n, set.w) \in 0 .. ChainLen(set)
  <1> DEFINE byte == s[(n * set.w) \div 8 + 1]
             shift == 8 - (set.w * (n % (8 \div set.w)) + set.w)
  <1>1. set.w \in {1, 2, 4, 8} /\ Pow2(set.w) \in {2, 4, 16, 256} /\ ChainLen(set) = Pow2(set.w) - 1
    BY SetFacts DEF ChainLen
  <1>2. (n * set.w) \div 8 + 1 \in 1 .. len
    BY <1>1
  <1>3. byte \in 0 .. 255
    BY <1>2
  <1>4. shift \in 0 .. 7
    BY <1>1
  <1>5. Pow2(shift) \in {1, 2, 4, 8, 16, 32, 64, 128}
    BY <1>4, SmallPowers
  <1>6. Coef(s, n, set.w) = (byte \div Pow2(shift)) % Pow2(set.w)
    BY DEF Coef
  <1> HIDE DEF byte, shift
  <1>7. byte \div Pow2(shift) \in Nat
    BY <1>3, <1>5
  <1> QED  BY <1>1, <1>6, <1>7

LEMMA LinksType ==
    ASSUME NEW set \in Sets, NEW len \in Nat, NEW s, \A n \in 1 .. len : s[n] \in 0 .. 255,
           NEW n \in Nat, set.w * (n + 1) <= 8 * len
    PROVE  /\ Links(s, set)[n] = ChainLen(set) - Coef(s, n, set.w)
           /\ Links(s, set)[n] \in 0 .. ChainLen(set)
  <1>1. Coef(s, n, set.w) \in 0 .. ChainLen(set) /\ ChainLen(set) \in 1 .. 255
    BY CoefType, SetFacts
  <1>2. Links(s, set)[n] = ChainLen(set) - Coef(s, n, set.w)
    BY DEF Links
  <1> QED  BY <1>1, <1>2

\* The terms of a total of numbers can be bounded, and so can the total.
LEMMA TotalType ==
    ASSUME NEW a, NEW b \in Nat, NEW n \in Nat, \A m \in 0 .. n - 1 : a[m] \in 0 .. b
    PROVE  Total(a, n) \in Nat /\ Total(a, n) <= n * b
  <1> DEFINE S == {m \in Nat : m <= n => Total(a, m) \in Nat /\ Total(a, m) <= m * b}
  <1>1. 0 \in S
    BY TotalStep
  <1>2. ASSUME NEW m \in S PROVE m + 1 \in S
    <2> SUFFICES ASSUME m + 1 <= n
                 PROVE  Total(a, m + 1) \in Nat /\ Total(a, m + 1) <= (m + 1) * b
      OBVIOUS
    <2>1. Total(a, m + 1) = Total(a, m) + a[m]
      BY TotalStep
    <2>2. Total(a, m) \in Nat /\ Total(a, m) <= m * b /\ a[m] \in 0 .. b
      OBVIOUS
    <2>3. (m + 1) * b = m * b + b /\ m * b \in Nat
      OBVIOUS
    <2> QED  BY <2>1, <2>2, <2>3
  <1> HIDE DEF S
  <1>3. \A m \in Nat : m \in S
    <2>1. S \in SUBSET Nat
      BY DEF S
    <2> QED  BY <1>1, <1>2, <2>1, Induction
  <1> QED  BY <1>3 DEF S

\* The digest and its checksum, as bytes.
LEMMA WithChecksumType ==
    ASSUME NEW set \in Sets, NEW s \in DigestBytes
    PROVE  /\ Checksum(s, set) \in Nat /\ Checksum(s, set) < 256 * 256
           /\ Len(WithChecksum(s, set)) = N + 2
           /\ \A n \in 1 .. N + 2 : WithChecksum(s, set)[n] \in 0 .. 255
           /\ \A n \in 1 .. N : WithChecksum(s, set)[n] = s[n]
           /\ \A n \in 1 .. 2 :
                WithChecksum(s, set)[N + n] = U16Bytes(Checksum(s, set))[n]
  <1>1. N \in Nat /\ s \in [1 .. N -> 0 .. 255]
    BY ChecksumAssumption DEF DigestBytes
  <1>2. ASSUME NEW n \in 0 .. Fields(set) - 1 PROVE Links(s, set)[n] \in 0 .. 255
    <2>1. n \in Nat /\ n + 1 <= Fields(set) /\ Fields(set) \in Nat /\ ChainLen(set) \in 1 .. 255
      BY SetFacts
    <2>2. set.w * (n + 1) <= 8 * N
      <3>1. set.w \in {1, 2, 4, 8} /\ set.w * Fields(set) = 8 * N
        BY SetFacts
      <3> QED  BY <2>1, <3>1
    <2>3. \A m \in 1 .. N : s[m] \in 0 .. 255
      BY <1>1
    <2> DEFINE a == Links(s, set)
    <2>4. a[n] \in 0 .. ChainLen(set)
      BY <1>1, <2>1, <2>2, <2>3, LinksType
    <2> HIDE DEF a
    <2>5. a[n] \in 0 .. 255
      BY <2>1, <2>4
    <2> QED  BY <2>5 DEF a
  <1> DEFINE sum == Total(Links(s, set), Fields(set))
  <1>3. sum \in Nat
    <2> DEFINE a == Links(s, set)
    <2>1. PICK F \in Nat : F = Fields(set)
      BY SetFacts
    <2>2. \A n \in 0 .. F - 1 : a[n] \in 0 .. 255
      BY <1>2, <2>1
    <2> HIDE DEF a, sum
    <2>3. Total(a, F) \in Nat
      <3>1. 255 \in Nat
        OBVIOUS
      <3> QED  BY ONLY <2>2, <3>1, F \in Nat, TotalType
    <2> QED  BY <2>1, <2>3 DEF a, sum
  <1>4. Checksum(s, set) \in Nat /\ Checksum(s, set) < 256 * 256
    <2>1. Checksum(s, set) = (sum * Pow2(set.ls)) % Pow2(16)
      BY DEF Checksum, ShiftedSum
    <2>2. set.ls \in Nat
      BY SetFacts
    <2>3. Pow2(set.ls) \in Nat
      BY <2>2, Pow2Type
    <2> HIDE DEF sum
    <2>4. sum * Pow2(set.ls) \in Nat
      BY <1>3, <2>3
    <2> DEFINE v == sum * Pow2(set.ls)
    <2>5. v \in Nat /\ Checksum(s, set) = v % Pow2(16) /\ Pow2(16) \in Nat \ {0}
      BY <2>1, <2>4, Pow2Type
    <2> HIDE DEF v
    <2>6. v % Pow2(16) \in 0 .. Pow2(16) - 1
      BY <2>5, DivMod
    <2> QED  BY <2>5, <2>6, SmallPowers
  <1>5. s \in Seq(0 .. 255) /\ Len(s) = N
    BY <1>1
  <1>6. U16Bytes(Checksum(s, set)) \in Seq(0 .. 255) /\ Len(U16Bytes(Checksum(s, set))) = 2
    <2> DEFINE v == Checksum(s, set)
    <2>1. v \in Nat /\ v < 256 * 256
      BY <1>4
    <2> HIDE DEF v
    <2>2. v \div 256 \in Nat /\ v \div 256 < 256 /\ v % 256 \in 0 .. 255
      <3>1. v \div 256 \in Nat /\ v % 256 \in 0 .. 255 /\ v = 256 * (v \div 256) + (v % 256)
        BY <2>1, DivMod
      <3> QED  BY <2>1, <3>1
    <2>3. v \div 256 \in 0 .. 255
      BY <2>2
    <2>4. <<v \div 256, v % 256>> \in Seq(0 .. 255) /\ Len(<<v \div 256, v % 256>>) = 2
      BY <2>2, <2>3
    <2> QED  BY <2>4 DEF U16Bytes, v
  <1> DEFINE t == U16Bytes(Checksum(s, set))
  <1>7. t \in Seq(0 .. 255) /\ Len(t) = 2 /\ WithChecksum(s, set) = s \o t
    BY <1>6 DEF WithChecksum
  <1> HIDE DEF t
  <1>8. /\ Len(s \o t) = N + 2
        /\ \A n \in 1 .. N + 2 : (s \o t)[n] = IF n <= N THEN s[n] ELSE t[n - N]
    <2>1. /\ Len(s \o t) = Len(s) + Len(t)
          /\ \A n \in 1 .. Len(s) + Len(t) : (s \o t)[n] = IF n <= Len(s) THEN s[n] ELSE t[n - Len(s)]
      BY <1>5, <1>7, ConcatProperties
    <2> QED  BY <1>5, <1>7, <2>1
  <1>9. \A n \in 1 .. 2 : t[n] \in 0 .. 255
    BY <1>7, ElementOfSeq
  <1>10. ASSUME NEW n \in 1 .. N + 2 PROVE (s \o t)[n] \in 0 .. 255
    <2>1. CASE n <= N
      BY <1>1, <1>8, <2>1
    <2>2. CASE ~(n <= N)
      <3>1. n - N \in 1 .. 2
        BY <1>1, <2>2
      <3> QED  BY <1>8, <1>9, <2>2, <3>1
    <2> QED  BY <2>1, <2>2
  <1>11. \A n \in 1 .. N : (s \o t)[n] = s[n]
    BY <1>1, <1>8
  <1>12. \A n \in 1 .. 2 : (s \o t)[N + n] = t[n]
    BY <1>1, <1>8
  <1> QED  BY <1>4, <1>7, <1>8, <1>10, <1>11, <1>12 DEF t

\* So every chain starts on one of its links.
LEMMA Coefficients ==
    ASSUME NEW set \in Sets, NEW s \in DigestBytes, NEW n \in 0 .. set.p - 1
    PROVE  Coef(WithChecksum(s, set), n, set.w) \in 0 .. ChainLen(set)
  <1>1. N + 2 \in Nat /\ \A m \in 1 .. N + 2 : WithChecksum(s, set)[m] \in 0 .. 255
    BY WithChecksumType, ChecksumAssumption
  <1>2. set.w * (n + 1) <= 8 * (N + 2)
    <2>1. /\ set.w \in {1, 2, 4, 8} /\ set.w * Fields(set) = 8 * N /\ set.w * CksCoefs(set) <= 16
          /\ set.p = Fields(set) + CksCoefs(set) /\ Fields(set) \in Nat /\ CksCoefs(set) \in Nat
      BY SetFacts
    <2>2. n + 1 <= Fields(set) + CksCoefs(set)
      BY <2>1
    <2>3. set.w * (Fields(set) + CksCoefs(set)) = set.w * Fields(set) + set.w * CksCoefs(set)
      BY <2>1
    <2>4. N \in Nat
      BY ChecksumAssumption
    <2> QED  BY <2>1, <2>2, <2>3, <2>4
  <1>3. n \in Nat
    BY SetFacts
  <1> DEFINE t == WithChecksum(s, set)
  <1> HIDE DEF t
  <1>4. \A m \in 1 .. N + 2 : t[m] \in 0 .. 255
    BY <1>1 DEF t
  <1>5. Coef(t, n, set.w) \in 0 .. ChainLen(set)
    BY <1>1, <1>2, <1>3, <1>4, CoefType
  <1> QED  BY <1>5 DEF t

\* And the links walked add up.
LEMMA LinkTotals ==
    ASSUME NEW set \in Sets, NEW s \in DigestBytes
    PROVE  LET links == Links(WithChecksum(s, set), set)
           IN  /\ \A n \in 0 .. set.p - 1 :
                    /\ links[n] = ChainLen(set) - Coef(WithChecksum(s, set), n, set.w)
                    /\ links[n] \in 0 .. ChainLen(set)
                    /\ Total(links, n + 1) = Total(links, n) + links[n]
               /\ \A n \in 0 .. set.p : Total(links, n) \in Nat /\ Total(links, n) <= n * ChainLen(set)
               /\ Total(links, 0) = 0
  <1> DEFINE t == WithChecksum(s, set)
             links == Links(t, set)
  <1>1. set.p \in Nat /\ ChainLen(set) \in Nat
    BY SetFacts
  <1>2. ASSUME NEW n \in 0 .. set.p - 1
        PROVE  links[n] = ChainLen(set) - Coef(t, n, set.w) /\ links[n] \in 0 .. ChainLen(set)
    <2>1. Coef(t, n, set.w) \in 0 .. ChainLen(set) /\ n \in Nat
      BY <1>1, Coefficients
    <2>2. links[n] = ChainLen(set) - Coef(t, n, set.w)
      BY <2>1 DEF Links
    <2> QED  BY <1>1, <2>1, <2>2
  <1> HIDE DEF links
  <1>3. Total(links, 0) = 0 /\ \A n \in Nat : Total(links, n + 1) = Total(links, n) + links[n]
    BY TotalStep
  <1>4. ASSUME NEW n \in 0 .. set.p PROVE Total(links, n) \in Nat /\ Total(links, n) <= n * ChainLen(set)
    <2>1. n \in Nat /\ \A m \in 0 .. n - 1 : links[m] \in 0 .. ChainLen(set)
      BY <1>1, <1>2
    <2> QED  BY <1>1, <2>1, TotalType
  <1>5. \A n \in 0 .. set.p - 1 : n \in Nat
    BY <1>1
  <1> QED  BY <1>2, <1>3, <1>4, <1>5 DEF links

\* Compressions are counted.
LEMMA CompressionsType == \A len \in Nat : Compressions(len) \in Nat
  BY DEF Compressions

LEMMA LengthsType ==
    /\ \A len \in Nat : MesgLen(len) \in Nat
    /\ \A set \in Sets : PblcLen(set) \in Nat
    /\ LeafLen \in Nat /\ IntrLen \in Nat /\ LinkLen \in Nat
  <1>1. N \in Nat /\ I_LEN \in Nat
    BY ChecksumAssumption
  <1>2. \A set \in Sets : PblcLen(set) \in Nat
    <2> SUFFICES ASSUME NEW set \in Sets PROVE PblcLen(set) \in Nat
      OBVIOUS
    <2>1. set.p \in Nat
      BY SetFacts
    <2>2. N * set.p \in Nat
      BY <1>1, <2>1
    <2> QED  BY <1>1, <2>2 DEF PblcLen
  <1> QED  BY <1>1, <1>2 DEF MesgLen, LeafLen, IntrLen, LinkLen

-----------------------------------------------------------------------------
\* Digit n of the checksum of a sum, as it is read back, and the number the
\* digits before it make.
DigitOf(set, sum, n) == Coef(U16Bytes(ShiftedSum(sum, set)), n, set.w)
Above(set, sum, n) == sum \div Pow2(set.w * (CksCoefs(set) - n))

\* The sums there can be.
SumsOf(set) == 0 .. Fields(set) * ChainLen(set)

LEMMA SumFits ==
    ASSUME NEW set \in Sets, NEW sum \in SumsOf(set)
    PROVE  /\ sum \in Nat /\ sum < Pow2(set.w * CksCoefs(set))
           /\ set.w * CksCoefs(set) \in Nat /\ set.w * CksCoefs(set) + set.ls = 16
           /\ ShiftedSum(sum, set) = sum * Pow2(set.ls)
           /\ sum * Pow2(set.ls) \in Nat /\ sum * Pow2(set.ls) < 256 * 256
  <1>1. /\ set.w \in {1, 2, 4, 8} /\ CksCoefs(set) \in Nat /\ set.ls \in Nat
        /\ set.w * CksCoefs(set) + set.ls = 16
        /\ Fields(set) * ChainLen(set) < Pow2(set.w * CksCoefs(set))
    BY ChecksumAssumption DEF Sets
  <1> DEFINE bits == set.w * CksCoefs(set)
             top == Fields(set) * ChainLen(set)
  <1>2. bits \in Nat /\ bits + set.ls = 16
    BY <1>1
  <1>3. top \in Nat
    BY SetFacts
  <1>4. Pow2(bits) \in Nat \ {0} /\ Pow2(set.ls) \in Nat \ {0}
    BY <1>1, <1>2, Pow2Type
  <1>5. Pow2(bits) * Pow2(set.ls) = 256 * 256
    <2> HIDE DEF bits
    <2>1. Pow2(bits + set.ls) = Pow2(bits) * Pow2(set.ls)
      BY <1>1, <1>2, Pow2Sum
    <2> QED  BY <1>2, <2>1, SmallPowers
  <1>6. sum \in 0 .. top /\ top < Pow2(bits)
    BY <1>1 DEF SumsOf
  <1> HIDE DEF bits, top
  <1>7. sum \in Nat /\ sum < Pow2(bits)
    BY <1>3, <1>4, <1>6
  <1> DEFINE b == Pow2(bits)
             l == Pow2(set.ls)
  <1>8. b \in Nat /\ l \in Nat \ {0} /\ sum < b /\ b * l = 256 * 256
    BY <1>4, <1>5, <1>7
  <1> HIDE DEF b, l
  <1>9. sum * l \in Nat /\ sum * l < b * l
    BY <1>7, <1>8
  <1>10. (sum * l) % (256 * 256) = sum * l
    BY <1>8, <1>9
  <1>11. ShiftedSum(sum, set) = sum * l
    BY <1>10, SmallPowers DEF ShiftedSum, l
  <1> QED  BY <1>2, <1>7, <1>8, <1>9, <1>11 DEF b, l, bits

\* Where field n of two bytes is.
FieldIsAt(w, c, ls, n) ==
    LET e == w * (c - (n + 1))
        shift == 8 - (w * (n % (8 \div w)) + w)
        byte == (n * w) \div 8
    IN  /\ e \in Nat /\ shift \in Nat
        /\ \/ byte = 0 /\ 8 + shift = ls + e
           \/ byte = 1 /\ shift = ls + e /\ 8 - shift - w \in Nat

LEMMA FieldAt ==
    ASSUME NEW w \in {1, 2, 4, 8}, NEW c \in Nat, NEW ls \in Nat, w * c + ls = 16,
           NEW n \in 0 .. c - 1
    PROVE  FieldIsAt(w, c, ls, n)
  <1>1. CASE w = 1
    BY <1>1 DEF FieldIsAt
  <1>2. CASE w = 2
    BY <1>2 DEF FieldIsAt
  <1>3. CASE w = 4
    BY <1>3 DEF FieldIsAt
  <1>4. CASE w = 8
    BY <1>4 DEF FieldIsAt
  <1> QED  BY <1>1, <1>2, <1>3, <1>4

\* The shift loses nothing of a sum, and a field is a digit of it.
LEMMA DigitIs ==
    ASSUME NEW set \in Sets, NEW sum \in SumsOf(set), NEW n \in 0 .. CksCoefs(set) - 1
    PROVE  DigitOf(set, sum, n)
                = (sum \div Pow2(set.w * (CksCoefs(set) - (n + 1)))) % Pow2(set.w)
  <1> DEFINE e == set.w * (CksCoefs(set) - (n + 1))
             v == sum * Pow2(set.ls)
             shift == 8 - (set.w * (n % (8 \div set.w)) + set.w)
             byte == (n * set.w) \div 8
  <1>1. /\ set.w \in {1, 2, 4, 8} /\ CksCoefs(set) \in Nat /\ set.ls \in Nat
        /\ set.w * CksCoefs(set) + set.ls = 16
    BY SetFacts, SumFits
  <1>2. sum \in Nat /\ v \in Nat /\ v < 256 * 256 /\ ShiftedSum(sum, set) = v
    BY SumFits
  <1>3. /\ e \in Nat /\ shift \in Nat
        /\ \/ byte = 0 /\ 8 + shift = set.ls + e
           \/ byte = 1 /\ shift = set.ls + e /\ 8 - shift - set.w \in Nat
    <2>1. FieldIsAt(set.w, CksCoefs(set), set.ls, n)
      BY <1>1, FieldAt
    <2> QED  BY <2>1 DEF FieldIsAt
  <1>4. DigitOf(set, sum, n)
            = (<<v \div 256, v % 256>>[byte + 1] \div Pow2(shift)) % Pow2(set.w)
    BY <1>2 DEF DigitOf, Coef, U16Bytes
  <1> HIDE DEF e, shift, byte
  <1> DEFINE E == Pow2(e)
             L == Pow2(set.ls)
             P == Pow2(shift)
             B == Pow2(set.w)
  <1>5. E \in Nat \ {0} /\ L \in Nat \ {0} /\ P \in Nat \ {0} /\ B \in Nat \ {0}
    BY <1>1, <1>3, Pow2Type
  <1>6. Pow2(set.ls + e) = L * E
    BY <1>1, <1>3, Pow2Sum
  <1>7. v = L * sum + 0
    BY <1>2, <1>5
  <1>8. CASE byte = 0 /\ 8 + shift = set.ls + e
    <2>1. DigitOf(set, sum, n) = ((v \div 256) \div P) % B
      BY <1>4, <1>8
    <2>2. L * E = 256 * P
      <3>1. Pow2(8 + shift) = Pow2(8) * P
        BY <1>3, Pow2Sum
      <3> QED  BY <1>6, <1>8, <3>1, SmallPowers
    <2> HIDE DEF v, E, L, P, B
    <2>3. v \div L = sum
      <3>1. 0 \in 0 .. L - 1
        BY <1>5
      <3> QED  BY <1>2, <1>5, <1>7, <3>1, DivIs
    <2>4. (v \div 256) \div P = v \div (256 * P)
      <3>1. PICK octet \in Nat \ {0} : octet = 256
        OBVIOUS
      <3>2. DivSplits(v, octet, P)
        BY <1>2, <1>5, DivDiv
      <3> QED  BY <3>1, <3>2 DEF DivSplits
    <2>5. (v \div L) \div E = v \div (L * E)
      <3>1. DivSplits(v, L, E)
        BY <1>2, <1>5, DivDiv
      <3> QED  BY <3>1 DEF DivSplits
    <2> QED  BY <2>1, <2>2, <2>3, <2>4, <2>5 DEF E, e, B
  <1>9. CASE byte = 1 /\ shift = set.ls + e /\ 8 - shift - set.w \in Nat
    <2>1. DigitOf(set, sum, n) = ((v % 256) \div P) % B
      BY <1>4, <1>9
    <2> DEFINE rest == 8 - shift - set.w
               Q == Pow2(rest)
    <2>2. rest \in Nat /\ shift + (set.w + rest) = 8
      BY <1>1, <1>3, <1>9
    <2> HIDE DEF rest
    <2>3. Q \in Nat \ {0} /\ 256 = P * (B * Q)
      <3>1. Pow2(set.w + rest) = B * Q /\ set.w + rest \in Nat
        <4>1. set.w \in Nat
          BY <1>1
        <4>2. rest \in Nat
          BY <2>2
        <4>3. Pow2(set.w + rest) = Pow2(set.w) * Pow2(rest)
          BY <4>1, <4>2, Pow2Sum
        <4> QED  BY <4>1, <4>2, <4>3
      <3>2. Pow2(shift + (set.w + rest)) = P * Pow2(set.w + rest)
        BY <1>3, <3>1, Pow2Sum
      <3>3. Q \in Nat \ {0}
        BY <2>2, Pow2Type
      <3> HIDE DEF P, B, Q
      <3> QED  BY <2>2, <3>1, <3>2, <3>3, SmallPowers
    <2>4. P = L * E
      BY <1>6, <1>9
    <2> HIDE DEF v, E, L, P, B, Q
    <2>5. v \div L = sum
      <3>1. 0 \in 0 .. L - 1
        BY <1>5
      <3> QED  BY <1>2, <1>5, <1>7, <3>1, DivIs
    <2>6. (v \div L) \div E = v \div (L * E)
      <3>1. DivSplits(v, L, E)
        BY <1>2, <1>5, DivDiv
      <3> QED  BY <3>1 DEF DivSplits
    <2>7. B * Q \in Nat \ {0} /\ v \div P \in Nat
      BY <1>2, <1>5, <2>3
    <2>8. (v % (P * (B * Q))) \div P = (v \div P) % (B * Q)
      <3>1. DivSplits(v, P, B * Q)
        BY <1>2, <1>5, <2>7, DivDiv
      <3> QED  BY <3>1 DEF DivSplits
    <2>9. ((v \div P) % (B * Q)) % B = (v \div P) % B
      <3>1. DivSplits(v \div P, B, Q)
        BY <1>5, <2>3, <2>7, DivDiv
      <3> QED  BY <3>1 DEF DivSplits
    <2> QED  BY <2>1, <2>3, <2>4, <2>5, <2>6, <2>8, <2>9 DEF E, e, B
  <1> QED  BY <1>3, <1>8, <1>9

\* The digits make up the sum.
LEMMA AboveFacts ==
    ASSUME NEW set \in Sets, NEW sum \in SumsOf(set)
    PROVE  /\ Above(set, sum, 0) = 0 /\ Above(set, sum, CksCoefs(set)) = sum
           /\ \A n \in 0 .. CksCoefs(set) : Above(set, sum, n) \in Nat
           /\ \A n \in 0 .. CksCoefs(set) - 1 :
                /\ DigitOf(set, sum, n) \in 0 .. ChainLen(set)
                /\ Above(set, sum, n + 1) = (ChainLen(set) + 1) * Above(set, sum, n) + DigitOf(set, sum, n)
  <1> DEFINE c == CksCoefs(set)
             w == set.w
             B == Pow2(w)
  <1>1. c \in Nat /\ w \in {1, 2, 4, 8} /\ B \in Nat \ {0} /\ ChainLen(set) = B - 1
    BY SetFacts DEF ChainLen
  <1>2. sum \in Nat /\ sum < Pow2(w * c) /\ w * c \in Nat
    BY SumFits
  <1>3. Above(set, sum, 0) = 0
    <2>1. w * (c - 0) = w * c
      BY <1>1
    <2> DEFINE top == Pow2(w * c)
    <2>2. top \in Nat \ {0}
      BY <1>2, Pow2Type
    <2>3. Above(set, sum, 0) = sum \div top
      BY <2>1 DEF Above
    <2> HIDE DEF top
    <2>4. sum = top * 0 + sum /\ sum \in 0 .. top - 1
      BY <1>2, <2>2 DEF top
    <2> QED  BY <1>2, <2>2, <2>3, <2>4, DivIs
  <1>4. Above(set, sum, c) = sum
    <2>1. w * (c - c) = 0
      BY <1>1
    <2> QED  BY <1>2, <2>1, SmallPowers DEF Above
  <1>5. ASSUME NEW n \in 0 .. c PROVE w * (c - n) \in Nat /\ Above(set, sum, n) \in Nat
    <2>1. w * (c - n) \in Nat
      BY <1>1
    <2>2. Pow2(w * (c - n)) \in Nat \ {0}
      BY <2>1, Pow2Type
    <2> QED  BY <1>2, <2>1, <2>2 DEF Above
  <1>6. ASSUME NEW n \in 0 .. c - 1
        PROVE  /\ DigitOf(set, sum, n) \in 0 .. B - 1
               /\ Above(set, sum, n + 1) = B * Above(set, sum, n) + DigitOf(set, sum, n)
    <2> DEFINE e == w * (c - (n + 1))
               x == sum \div Pow2(e)
    <2>1. e \in Nat /\ w * (c - n) = e + w
      BY <1>1
    <2>2. Above(set, sum, n + 1) = x /\ DigitOf(set, sum, n) = x % B
      BY DigitIs DEF Above
    <2>3. Above(set, sum, n) = sum \div Pow2(e + w)
      BY <2>1 DEF Above
    <2> HIDE DEF e
    <2> DEFINE E == Pow2(e)
    <2>4. E \in Nat \ {0} /\ Pow2(e + w) = E * B
      <3>1. w \in Nat
        BY <1>1
      <3> QED  BY <2>1, <3>1, Pow2Type, Pow2Sum
    <2> HIDE DEF E, B
    <2>5. Above(set, sum, n) = x \div B
      <3>1. DivSplits(sum, E, B)
        BY <1>1, <1>2, <2>4, DivDiv
      <3> QED  BY <2>3, <2>4, <3>1 DEF E, DivSplits
    <2>6. x \in Nat
      BY <1>2, <2>4 DEF E
    <2> HIDE DEF x
    <2> QED  BY <1>1, <2>2, <2>5, <2>6, DivMod
  <1>7. B = ChainLen(set) + 1
    BY <1>1
  <1> HIDE DEF B
  <1> QED  BY <1>1, <1>3, <1>4, <1>5, <1>6, <1>7

\* Totals of numbers compare as their terms do.
LEMMA TotalMono ==
    ASSUME NEW a, NEW b, NEW n \in Nat,
           \A m \in 0 .. n - 1 : a[m] \in Nat /\ b[m] \in Nat /\ a[m] <= b[m]
    PROVE  Total(a, n) \in Nat /\ Total(b, n) \in Nat /\ Total(a, n) <= Total(b, n)
  <1> DEFINE S == {m \in Nat : m <= n => /\ Total(a, m) \in Nat /\ Total(b, m) \in Nat
                                        /\ Total(a, m) <= Total(b, m)}
  <1>1. 0 \in S
    BY TotalStep
  <1>2. ASSUME NEW m \in S PROVE m + 1 \in S
    <2> SUFFICES ASSUME m + 1 <= n
                 PROVE  /\ Total(a, m + 1) \in Nat /\ Total(b, m + 1) \in Nat
                        /\ Total(a, m + 1) <= Total(b, m + 1)
      OBVIOUS
    <2>1. Total(a, m + 1) = Total(a, m) + a[m] /\ Total(b, m + 1) = Total(b, m) + b[m]
      BY TotalStep
    <2>2. Total(a, m) \in Nat /\ Total(b, m) \in Nat /\ Total(a, m) <= Total(b, m)
      OBVIOUS
    <2>3. a[m] \in Nat /\ b[m] \in Nat /\ a[m] <= b[m]
      OBVIOUS
    <2> QED  BY <2>1, <2>2, <2>3
  <1> HIDE DEF S
  <1>3. \A m \in Nat : m \in S
    <2>1. S \in SUBSET Nat
      BY DEF S
    <2> QED  BY <1>1, <1>2, <2>1, Induction
  <1> QED  BY <1>3 DEF S

\* Totals of the same terms are the same.
LEMMA TotalSame ==
    ASSUME NEW a, NEW b, NEW n \in Nat, \A m \in 0 .. n - 1 : a[m] = b[m]
    PROVE  Total(a, n) = Total(b, n)
  <1> DEFINE S == {m \in Nat : m <= n => Total(a, m) = Total(b, m)}
  <1>1. 0 \in S
    BY TotalStep
  <1>2. ASSUME NEW m \in S PROVE m + 1 \in S
    BY TotalStep
  <1> HIDE DEF S
  <1>3. \A m \in Nat : m \in S
    <2>1. S \in SUBSET Nat
      BY DEF S
    <2> QED  BY <1>1, <1>2, <2>1, Induction
  <1> QED  BY <1>3 DEF S

-----------------------------------------------------------------------------
\* The digits, what they stand for, and the links they leave to walk.
DigitsOf(set, sum) == [n \in Nat |-> DigitOf(set, sum, n)]
ValuesOf(set, sum) ==
    [n \in Nat |-> DigitOf(set, sum, n) * Pow2(set.w * (CksCoefs(set) - 1 - n))]
RestOf(set, sum) == [n \in Nat |-> ChainLen(set) - DigitOf(set, sum, n)]
AllAbove(set, sum) == [n \in Nat |-> Above(set, sum, n)]

\* The digits read back are all of the sum.
LEMMA Lossless ==
    ASSUME NEW set \in Sets, NEW sum \in SumsOf(set)
    PROVE  Total(ValuesOf(set, sum), CksCoefs(set)) = sum
  <1> DEFINE c == CksCoefs(set)
             w == set.w
             v == ValuesOf(set, sum)
             up(n) == Above(set, sum, n)
             at(n) == Pow2(w * (c - n))
             S == {n \in Nat : n <= c => Total(v, n) = up(n) * at(n)}
  <1>1. c \in Nat /\ w \in {1, 2, 4, 8} /\ ChainLen(set) \in Nat /\ Pow2(w) = ChainLen(set) + 1
    BY SetFacts DEF ChainLen
  <1>2. /\ up(0) = 0 /\ up(c) = sum /\ \A n \in 0 .. c : up(n) \in Nat
        /\ \A n \in 0 .. c - 1 :
            /\ DigitOf(set, sum, n) \in Nat
            /\ up(n + 1) = (ChainLen(set) + 1) * up(n) + DigitOf(set, sum, n)
    BY <1>1, AboveFacts
  <1>3. \A n \in 0 .. c : at(n) \in Nat
    <2> SUFFICES ASSUME NEW n \in 0 .. c PROVE at(n) \in Nat
      OBVIOUS
    <2>1. w * (c - n) \in Nat
      BY <1>1
    <2> QED  BY <2>1, Pow2Type
  <1>4. ASSUME NEW n \in 0 .. c - 1
        PROVE  at(n) = at(n + 1) * (ChainLen(set) + 1) /\ v[n] = DigitOf(set, sum, n) * at(n + 1)
    <2>1. w * (c - (n + 1)) \in Nat /\ w \in Nat /\ w * (c - n) = w * (c - (n + 1)) + w
          /\ c - 1 - n = c - (n + 1)
      BY <1>1
    <2> DEFINE e == w * (c - (n + 1))
    <2>2. e \in Nat /\ w * (c - n) = e + w
      BY <2>1
    <2> HIDE DEF e
    <2>3. Pow2(e + w) = Pow2(e) * Pow2(w)
      BY <2>1, <2>2, Pow2Sum
    <2>4. v[n] = DigitOf(set, sum, n) * at(n + 1)
      BY <1>1, <2>1 DEF ValuesOf
    <2> QED  BY <1>1, <2>2, <2>3, <2>4 DEF e
  <1> HIDE DEF up, at, v
  <1>5. 0 \in S
    BY <1>1, <1>2, <1>3, TotalStep
  <1>6. ASSUME NEW n \in S PROVE n + 1 \in S
    <2> SUFFICES ASSUME n + 1 <= c PROVE Total(v, n + 1) = up(n + 1) * at(n + 1)
      OBVIOUS
    <2>1. n \in 0 .. c - 1 /\ n + 1 \in 0 .. c /\ n \in 0 .. c
      BY <1>1
    <2>2. Total(v, n + 1) = up(n) * at(n) + v[n]
      BY <2>1, TotalStep
    <2> DEFINE a == up(n)
               d == DigitOf(set, sum, n)
               p == at(n + 1)
               B == ChainLen(set) + 1
    <2>3. a \in Nat /\ d \in Nat /\ p \in Nat /\ B \in Nat
      BY <1>1, <1>2, <1>3, <2>1
    <2>4. Total(v, n + 1) = a * (p * B) + d * p /\ up(n + 1) = B * a + d
      BY <1>2, <1>4, <2>1, <2>2
    <2> HIDE DEF a, d, B
    <2>5. \A q \in Nat : a * (q * B) + d * q = (B * a + d) * q
      BY <2>3
    <2> QED  BY <2>3, <2>4, <2>5
  <1> HIDE DEF S
  <1>7. \A n \in Nat : n \in S
    <2>1. S \in SUBSET Nat
      BY DEF S
    <2> QED  BY <1>5, <1>6, <2>1, Induction
  <1>8. at(c) = 1
    <2>1. w * (c - c) = 0
      BY <1>1
    <2> QED  BY <2>1, SmallPowers DEF at
  <1>9. Total(v, c) = up(c) * at(c)
    BY <1>1, <1>7 DEF S
  <1>10. sum \in Nat
    BY SumFits
  <1> QED  BY <1>2, <1>8, <1>9, <1>10 DEF v

\* A smaller sum has a smaller digit somewhere.
LEMMA SomeDigitIsLess ==
    ASSUME NEW set \in Sets, NEW sum \in SumsOf(set), NEW lower \in 0 .. sum - 1
    PROVE  \E n \in 0 .. CksCoefs(set) - 1 : DigitOf(set, lower, n) < DigitOf(set, sum, n)
  <1> DEFINE c == CksCoefs(set)
  <1> SUFFICES ASSUME \A n \in 0 .. c - 1 : ~(DigitOf(set, lower, n) < DigitOf(set, sum, n)) PROVE FALSE
    OBVIOUS
  <1>1. c \in Nat /\ sum \in Nat /\ lower \in SumsOf(set) /\ set.w \in {1, 2, 4, 8} /\ ChainLen(set) \in Nat
    <2>1. Fields(set) * ChainLen(set) \in Nat
      BY SetFacts
    <2> QED  BY <2>1, SetFacts, SumFits DEF SumsOf
  <1> DEFINE low == ValuesOf(set, lower)
             high == ValuesOf(set, sum)
  <1>2. ASSUME NEW n \in 0 .. c - 1
        PROVE  high[n] \in Nat /\ low[n] \in Nat /\ high[n] <= low[n]
    <2> DEFINE p == Pow2(set.w * (c - 1 - n))
    <2>1. set.w * (c - 1 - n) \in Nat
      BY <1>1
    <2>2. p \in Nat
      BY <2>1, Pow2Type
    <2>3. /\ DigitOf(set, lower, n) \in Nat /\ DigitOf(set, sum, n) \in Nat
          /\ DigitOf(set, sum, n) <= DigitOf(set, lower, n)
      BY <1>1, AboveFacts
    <2>4. high[n] = DigitOf(set, sum, n) * p /\ low[n] = DigitOf(set, lower, n) * p
      BY <1>1 DEF ValuesOf
    <2> HIDE DEF p, high, low
    <2>5. \A x, y \in Nat : x <= y => x * p \in Nat /\ y * p \in Nat /\ x * p <= y * p
      BY <2>2
    <2> QED  BY <2>3, <2>4, <2>5
  <1> HIDE DEF low, high
  <1>3. Total(high, c) <= Total(low, c)
    BY <1>1, <1>2, TotalMono
  <1>4. Total(high, c) = sum /\ Total(low, c) = lower
    BY <1>1, Lossless DEF high, low
  <1> QED  BY <1>1, <1>3, <1>4

\* A sum is its digits and, for each chain but the last, all that is carried
\* past it, once for every link of a chain.
LEMMA DigitTotals ==
    ASSUME NEW set \in Sets, NEW sum \in SumsOf(set)
    PROVE  LET c == CksCoefs(set)
           IN  /\ Total(DigitsOf(set, sum), c) \in Nat /\ Total(AllAbove(set, sum), c) \in Nat
               /\ Total(DigitsOf(set, sum), c) + ChainLen(set) * Total(AllAbove(set, sum), c) = sum
               /\ Total(RestOf(set, sum), c) \in Nat
               /\ Total(RestOf(set, sum), c) + Total(DigitsOf(set, sum), c) = c * ChainLen(set)
  <1> DEFINE c == CksCoefs(set)
             L == ChainLen(set)
             up(n) == Above(set, sum, n)
             d == DigitsOf(set, sum)
             a == AllAbove(set, sum)
             r == RestOf(set, sum)
             S == {n \in Nat : n <= c =>
                    /\ Total(d, n) \in Nat /\ Total(a, n) \in Nat /\ Total(r, n) \in Nat
                    /\ Total(d, n) + L * Total(a, n) = up(n)
                    /\ Total(r, n) + Total(d, n) = n * L}
  <1>1. c \in Nat /\ L \in Nat
    BY SetFacts
  <1>2. /\ up(0) = 0 /\ up(c) = sum /\ \A n \in 0 .. c : up(n) \in Nat
        /\ \A n \in 0 .. c - 1 : d[n] \in 0 .. L /\ up(n + 1) = (L + 1) * up(n) + d[n]
    BY <1>1, AboveFacts DEF DigitsOf
  <1>3. \A n \in 0 .. c - 1 : a[n] = up(n) /\ r[n] = L - d[n]
    BY DEF AllAbove, RestOf, DigitsOf
  <1> HIDE DEF c, L, up, d, a, r
  <1>4. 0 \in S
    BY <1>1, <1>2, TotalStep
  <1>5. ASSUME NEW n \in S PROVE n + 1 \in S
    <2> SUFFICES ASSUME n + 1 <= c
                 PROVE  /\ Total(d, n + 1) \in Nat /\ Total(a, n + 1) \in Nat /\ Total(r, n + 1) \in Nat
                        /\ Total(d, n + 1) + L * Total(a, n + 1) = up(n + 1)
                        /\ Total(r, n + 1) + Total(d, n + 1) = (n + 1) * L
      OBVIOUS
    <2>1. n \in 0 .. c - 1 /\ n \in 0 .. c
      BY <1>1
    <2>2. /\ Total(d, n + 1) = Total(d, n) + d[n] /\ Total(a, n + 1) = Total(a, n) + a[n]
          /\ Total(r, n + 1) = Total(r, n) + r[n]
      BY TotalStep
    <2>3. /\ Total(d, n) \in Nat /\ Total(a, n) \in Nat /\ Total(r, n) \in Nat
          /\ Total(d, n) + L * Total(a, n) = up(n) /\ Total(r, n) + Total(d, n) = n * L
      BY <1>1
    <2>4. /\ d[n] \in 0 .. L /\ a[n] = up(n) /\ up(n) \in Nat /\ r[n] = L - d[n]
          /\ up(n + 1) = (L + 1) * up(n) + d[n]
      BY <1>2, <1>3, <2>1
    <2>6. (n + 1) * L = n * L + L
      BY <1>1
    <2>7. d[n] \in Nat /\ r[n] \in Nat
      BY <1>1, <2>4
    <2>8. (Total(d, n) + d[n]) + L * (Total(a, n) + up(n)) = (L + 1) * up(n) + d[n]
      <3>1. PICK x, y, u, v \in Nat : x = Total(d, n) /\ y = Total(a, n) /\ u = up(n) /\ v = d[n]
        BY <2>3, <2>4, <2>7
      <3>2. x + L * y = u => (x + v) + L * (y + u) = (L + 1) * u + v
        BY <1>1
      <3> QED  BY <2>3, <3>1, <3>2
    <2>9. Total(d, n + 1) + L * Total(a, n + 1) = up(n + 1)
      BY <2>2, <2>4, <2>8
    <2>10. Total(r, n + 1) + Total(d, n + 1) = (n + 1) * L
      BY <1>1, <2>2, <2>3, <2>4, <2>6, <2>7
    <2> QED  BY <2>2, <2>3, <2>4, <2>7, <2>9, <2>10
  <1> HIDE DEF S
  <1>6. \A n \in Nat : n \in S
    <2>1. S \in SUBSET Nat
      BY DEF S
    <2> QED  BY <1>4, <1>5, <2>1, Induction
  <1>7. c \in S
    BY <1>1, <1>6
  <1> QED  BY <1>1, <1>2, <1>7 DEF S, c, L, d, a, r

\* A larger sum is never fewer links in all, its own and its digits'.
LEMMA LinksGrow ==
    ASSUME NEW set \in Sets, NEW sum \in SumsOf(set), NEW more \in SumsOf(set), sum <= more
    PROVE  sum + Total(RestOf(set, sum), CksCoefs(set)) <= more + Total(RestOf(set, more), CksCoefs(set))
  <1> DEFINE c == CksCoefs(set)
             L == ChainLen(set)
             A(s) == Total(AllAbove(set, s), c)
             D(s) == Total(DigitsOf(set, s), c)
             R(s) == Total(RestOf(set, s), c)
  <1>1. c \in Nat /\ L \in Nat /\ set.w \in {1, 2, 4, 8} /\ sum \in Nat /\ more \in Nat
    BY SetFacts, SumFits
  <1>2. \A s \in SumsOf(set) : /\ D(s) \in Nat /\ A(s) \in Nat /\ D(s) + L * A(s) = s
                              /\ R(s) \in Nat /\ R(s) + D(s) = c * L
    BY DigitTotals
  <1>3. A(sum) <= A(more)
    <2> DEFINE a == AllAbove(set, sum)
               b == AllAbove(set, more)
    <2>1. ASSUME NEW n \in 0 .. c - 1 PROVE a[n] \in Nat /\ b[n] \in Nat /\ a[n] <= b[n]
      <3> DEFINE p == Pow2(set.w * (c - n))
      <3>1. set.w * (c - n) \in Nat
        BY <1>1
      <3>2. p \in Nat \ {0}
        BY <3>1, Pow2Type
      <3>3. a[n] = sum \div p /\ b[n] = more \div p
        BY <1>1 DEF AllAbove, Above
      <3> HIDE DEF a, b, p
      <3>4. sum \div p \in Nat /\ more \div p \in Nat
        BY <1>1, <3>2
      <3>5. sum \div p <= more \div p
        BY <1>1, <3>2, DivMono
      <3> QED  BY <3>3, <3>4, <3>5
    <2> HIDE DEF a, b
    <2>2. Total(a, c) <= Total(b, c)
      BY <1>1, <2>1, TotalMono
    <2> QED  BY <2>2 DEF a, b
  <1> HIDE DEF c, L, A, D, R
  <1>4. L * A(sum) <= L * A(more) /\ L * A(sum) \in Nat /\ L * A(more) \in Nat
    <2>1. \A x, y \in Nat : x <= y => L * x <= L * y /\ L * x \in Nat /\ L * y \in Nat
      BY <1>1
    <2> QED  BY <1>2, <1>3, <2>1
  <1>5. sum + R(sum) <= more + R(more)
    BY <1>1, <1>2, <1>4
  <1> QED  BY <1>5 DEF R, c

\* So the largest sum is the worst case.
LEMMA WorstCase ==
    ASSUME NEW set \in Sets, NEW sum \in SumsOf(set)
    PROVE  LET links == sum + Total(RestOf(set, sum), CksCoefs(set))
               max == set.p * ChainLen(set) - MaxChecksumSaving(set)
           IN  /\ links <= max
               /\ sum = Fields(set) * ChainLen(set) => links = max
  <1> DEFINE c == CksCoefs(set)
             L == ChainLen(set)
             top == Fields(set) * ChainLen(set)
             R(s) == Total(RestOf(set, s), c)
             saving == MaxChecksumSaving(set)
  <1>1. /\ c \in Nat /\ L \in Nat /\ Fields(set) \in Nat /\ set.p = Fields(set) + c
    BY SetFacts
  <1>2. top \in SumsOf(set) /\ top \in Nat
    BY <1>1 DEF SumsOf
  <1>3. saving = Total(DigitsOf(set, top), c)
    BY DEF MaxChecksumSaving, DigitsOf, DigitOf
  <1>4. R(top) \in Nat /\ saving \in Nat /\ R(top) + saving = c * L
    BY <1>2, <1>3, DigitTotals
  <1>5. sum + R(sum) <= top + R(top)
    BY <1>2, LinksGrow DEF SumsOf
  <1>6. set.p * L = top + c * L /\ c * L \in Nat
    BY <1>1
  <1>7. R(sum) \in Nat /\ sum \in Nat
    BY DigitTotals, SumFits
  <1> HIDE DEF c, L, top, R, saving
  <1>8. top + R(top) = set.p * L - saving
    BY <1>2, <1>4, <1>6
  <1> QED  BY <1>5, <1>8 DEF c, L, top, R, saving

\* What the checksum always saves is a number of links.
LEMMA SavingType ==
    ASSUME NEW set \in Sets
    PROVE  MaxChecksumSaving(set) \in Nat
  <1> DEFINE top == Fields(set) * ChainLen(set)
  <1>1. top \in SumsOf(set)
    <2>1. top \in Nat
      BY SetFacts
    <2> QED  BY <2>1 DEF SumsOf
  <1>2. MaxChecksumSaving(set) = Total(DigitsOf(set, top), CksCoefs(set))
    BY DEF MaxChecksumSaving, DigitsOf, DigitOf
  <1> QED  BY <1>1, <1>2, DigitTotals

-----------------------------------------------------------------------------
\* The fields of the checksum follow those of the digest.
FieldAfter(w, fields, c, bytes, n) ==
    /\ (n * w) \div 8 + 1 \in 1 .. 2 /\ n \in Nat /\ fields + n \in Nat
    /\ ((fields + n) * w) \div 8 + 1 = bytes + ((n * w) \div 8 + 1)
    /\ (fields + n) % (8 \div w) = n % (8 \div w)

LEMMA FieldsFollow ==
    ASSUME NEW w \in {1, 2, 4, 8}, NEW fields \in Nat, NEW bytes \in Nat, w * fields = 8 * bytes,
           NEW c \in Nat, w * c <= 16, NEW n \in 0 .. c - 1
    PROVE  FieldAfter(w, fields, c, bytes, n)
  <1>1. CASE w = 1
    <2>1. fields = 8 * bytes /\ n \in 0 .. 15
      BY <1>1
    <2> QED  BY <1>1, <2>1 DEF FieldAfter
  <1>2. CASE w = 2
    <2>1. fields = 4 * bytes /\ n \in 0 .. 7
      BY <1>2
    <2> QED  BY <1>2, <2>1 DEF FieldAfter
  <1>3. CASE w = 4
    <2>1. fields = 2 * bytes /\ n \in 0 .. 3
      BY <1>3
    <2> QED  BY <1>3, <2>1 DEF FieldAfter
  <1>4. CASE w = 8
    <2>1. fields = bytes /\ n \in 0 .. 1
      BY <1>4
    <2> QED  BY <1>4, <2>1 DEF FieldAfter
  <1> QED  BY <1>1, <1>2, <1>3, <1>4

\* The links of a digest are those of its sum and of the sum's digits.
LEMMA DigestLinks ==
    ASSUME NEW set \in Sets, NEW s \in DigestBytes
    PROVE  LET sum == Total(Links(s, set), Fields(set))
           IN  /\ sum \in SumsOf(set)
               /\ Total(Links(WithChecksum(s, set), set), set.p)
                        = sum + Total(RestOf(set, sum), CksCoefs(set))
  <1> DEFINE F == Fields(set)
             c == CksCoefs(set)
             w == set.w
             t == WithChecksum(s, set)
             links == Links(t, set)
             sum == Total(Links(s, set), F)
             r == RestOf(set, sum)
             k == U16Bytes(Checksum(s, set))
  <1>1. /\ F \in Nat \ {0} /\ c \in Nat /\ w \in {1, 2, 4, 8} /\ w * F = 8 * N /\ w * c <= 16
        /\ set.p = F + c /\ N \in Nat /\ ChainLen(set) \in Nat
    BY SetFacts, ChecksumAssumption
  <1>2. /\ \A n \in 1 .. N : t[n] = s[n]
        /\ \A n \in 1 .. 2 : t[N + n] = k[n]
    BY WithChecksumType
  <1>3. ASSUME NEW n \in 0 .. F - 1
        PROVE  links[n] = Links(s, set)[n] /\ Links(s, set)[n] \in 0 .. ChainLen(set)
    <2>1. n \in Nat /\ (n * w) \div 8 + 1 \in 1 .. N /\ w * (n + 1) <= 8 * N
      BY <1>1
    <2>2. t[(n * w) \div 8 + 1] = s[(n * w) \div 8 + 1]
      BY <1>2, <2>1
    <2>3. Coef(t, n, w) = Coef(s, n, w)
      BY <2>2 DEF Coef
    <2>4. links[n] = Links(s, set)[n]
      BY <2>1, <2>3 DEF Links
    <2>5. \A m \in 1 .. N : s[m] \in 0 .. 255
      BY DEF DigestBytes
    <2> QED  BY <1>1, <2>1, <2>4, <2>5, LinksType
  <1>4. sum \in SumsOf(set)
    <2> DEFINE a == Links(s, set)
    <2>1. \A n \in 0 .. F - 1 : a[n] \in 0 .. ChainLen(set)
      BY <1>3
    <2> HIDE DEF a
    <2>2. Total(a, F) \in Nat /\ Total(a, F) <= F * ChainLen(set)
      BY <1>1, <2>1, TotalType
    <2>3. F * ChainLen(set) \in Nat
      BY <1>1
    <2> QED  BY <2>2, <2>3 DEF SumsOf, a
  <1>5. Total(links, F) = sum
    <2> DEFINE a == Links(s, set)
    <2>1. \A n \in 0 .. F - 1 : links[n] = a[n]
      BY <1>3
    <2> HIDE DEF a, links
    <2> QED  BY <1>1, <2>1, TotalSame DEF a
  <1>6. ASSUME NEW n \in 0 .. c - 1 PROVE links[F + n] = r[n]
    <2>1. FieldAfter(w, F, c, N, n)
      BY <1>1, FieldsFollow
    <2>a. /\ (n * w) \div 8 + 1 \in 1 .. 2 /\ n \in Nat /\ F + n \in Nat
          /\ ((F + n) * w) \div 8 + 1 = N + ((n * w) \div 8 + 1)
          /\ (F + n) % (8 \div w) = n % (8 \div w)
      BY <2>1 DEF FieldAfter
    <2>2. t[((F + n) * w) \div 8 + 1] = k[(n * w) \div 8 + 1]
      <3>1. PICK m \in 1 .. 2 : m = (n * w) \div 8 + 1
        BY <2>a
      <3>2. t[N + m] = k[m]
        BY <1>2
      <3> QED  BY <2>a, <3>1, <3>2
    <2>3. Coef(t, F + n, w) = Coef(k, n, w)
      BY <2>a, <2>2 DEF Coef
    <2>4. Coef(k, n, w) = DigitOf(set, sum, n)
      BY DEF DigitOf, Checksum
    <2> QED  BY <2>a, <2>3, <2>4 DEF Links, RestOf
  <1> DEFINE S == {n \in Nat : n <= c => Total(links, F + n) = sum + Total(r, n)}
  <1> HIDE DEF links, r, sum
  <1>7. sum \in Nat
    BY <1>4, SumFits
  <1>8. 0 \in S
    BY <1>1, <1>5, <1>7, TotalStep
  <1>9. ASSUME NEW n \in S PROVE n + 1 \in S
    <2> SUFFICES ASSUME n + 1 <= c PROVE Total(links, F + (n + 1)) = sum + Total(r, n + 1)
      OBVIOUS
    <2>1. F + (n + 1) = (F + n) + 1 /\ F + n \in Nat /\ n \in 0 .. c - 1
      BY <1>1
    <2>2. Total(links, (F + n) + 1) = Total(links, F + n) + links[F + n]
      BY <2>1, TotalStep
    <2>3. Total(r, n + 1) = Total(r, n) + r[n]
      BY TotalStep
    <2>4. Total(r, n) \in Nat /\ r[n] \in Nat
      <3>1. \A m \in 0 .. c - 1 : r[m] \in 0 .. ChainLen(set)
        BY <1>1, <1>4, AboveFacts DEF r, RestOf
      <3>2. n \in Nat /\ \A m \in 0 .. n - 1 : r[m] \in 0 .. ChainLen(set)
        BY <1>1, <2>1, <3>1
      <3>3. Total(r, n) \in Nat
        BY <1>1, <3>2, TotalType
      <3> QED  BY <1>1, <2>1, <3>1, <3>3
    <2> QED  BY <1>1, <1>6, <1>7, <2>1, <2>2, <2>3, <2>4
  <1> HIDE DEF S
  <1>10. \A n \in Nat : n \in S
    <2>1. S \in SUBSET Nat
      BY DEF S
    <2> QED  BY <1>8, <1>9, <2>1, Induction
  <1>11. Total(links, F + c) = sum + Total(r, c)
    BY <1>1, <1>10 DEF S
  <1> QED  BY <1>1, <1>4, <1>11 DEF links, r, sum

\* No digest takes more links than a boot budget allows for.
LEMMA LinksBounded ==
    ASSUME NEW set \in Sets, NEW s \in DigestBytes
    PROVE  LET links == Total(Links(WithChecksum(s, set), set), set.p)
           IN  links \in Nat /\ links <= set.p * ChainLen(set) - MaxChecksumSaving(set)
  <1> DEFINE sum == Total(Links(s, set), Fields(set))
             rest == Total(RestOf(set, sum), CksCoefs(set))
  <1>1. sum \in SumsOf(set) /\ Total(Links(WithChecksum(s, set), set), set.p) = sum + rest
    BY DigestLinks
  <1> HIDE DEF sum
  <1>2. sum \in Nat /\ rest \in Nat /\ sum + rest <= set.p * ChainLen(set) - MaxChecksumSaving(set)
    BY <1>1, SumFits, DigitTotals, WorstCase
  <1> HIDE DEF rest
  <1> QED  BY <1>1, <1>2
=============================================================================
