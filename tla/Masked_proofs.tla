---------------------------- MODULE Masked_proofs ----------------------------
(***************************************************************************)
(* For every kind of word with the laws MaskedGadgets assumes: computing on *)
(* shares implements computing on the secrets, and one probe on a gadget,   *)
(* wherever it sits, sees the same whatever the secrets.                    *)
(***************************************************************************)
EXTENDS MaskedWords, Probing, FiniteSetTheorems, FunctionTheorems, TLAPS

\* And distributes over exclusive or, on either side.
LEMMA AndLaws ==
    ASSUME NEW x \in Word, NEW y \in Word, NEW z \in Word
    PROVE  /\ And(x, Xor(y, z)) = Xor(And(x, y), And(x, z))
           /\ And(Xor(y, z), x) = Xor(And(y, x), And(z, x))
  <1>1. And(x, Xor(y, z)) = Xor(And(x, y), And(x, z))
    BY AndAssumption
  <1>2. \A u, v \in Word : And(u, v) = And(v, u)
    BY AndAssumption
  <1>3. Xor(y, z) \in Word
    BY WordAssumption
  <1> QED  BY <1>1, <1>2, <1>3

\* A mask on both sides of an exclusive or falls away.
LEMMA Cancel ==
    ASSUME NEW x \in Word, NEW y \in Word, NEW r \in Word
    PROVE  Xor(Xor(x, r), Xor(y, r)) = Xor(x, y)
  <1>1. Xor(Xor(x, r), Xor(y, r)) = Xor(x, Xor(r, Xor(y, r)))
    BY WordAssumption, XorAssumption
  <1>2. Xor(r, Xor(y, r)) = Xor(Xor(r, r), y)
    BY WordAssumption, XorAssumption
  <1>3. Xor(Xor(r, r), y) = y
    BY WordAssumption, XorAssumption
  <1> QED  BY <1>1, <1>2, <1>3

\* Exclusive or of pairs, regrouped.
LEMMA Interchange ==
    ASSUME NEW x \in Word, NEW y \in Word, NEW u \in Word, NEW v \in Word
    PROVE  Xor(Xor(x, y), Xor(u, v)) = Xor(Xor(x, u), Xor(y, v))
  <1>1. Xor(Xor(x, y), Xor(u, v)) = Xor(x, Xor(y, Xor(u, v)))
    BY WordAssumption, XorAssumption
  <1>2. Xor(y, Xor(u, v)) = Xor(Xor(y, u), v) /\ Xor(Xor(y, u), v) = Xor(Xor(u, y), v)
    BY WordAssumption, XorAssumption
  <1>3. Xor(Xor(u, y), v) = Xor(u, Xor(y, v))
    BY WordAssumption, XorAssumption
  <1>4. Xor(x, Xor(u, Xor(y, v))) = Xor(Xor(x, u), Xor(y, v))
    BY WordAssumption, XorAssumption
  <1> QED  BY <1>1, <1>2, <1>3, <1>4

-----------------------------------------------------------------------------
(***************************************************************************)
(* Each gadget, on any shares: its result is shares, of the right word.    *)
(***************************************************************************)
LEMMA MaskIsRight ==
    ASSUME NEW x \in Word, NEW r \in Word
    PROVE  Mask(x, r) \in Shares /\ Unmask(Mask(x, r)) = x
  <1>1. Xor(r, Xor(r, x)) = Xor(Xor(r, r), x) /\ Xor(Xor(r, r), x) = x
    BY WordAssumption, XorAssumption
  <1> QED  BY <1>1, WordAssumption DEF Mask, Unmask, Shares

LEMMA RefreshIsRight ==
    ASSUME NEW m \in Shares, NEW r \in Word
    PROVE  Refresh(m, r) \in Shares /\ Unmask(Refresh(m, r)) = Unmask(m)
  BY WordAssumption, Cancel DEF Refresh, Unmask, Shares

LEMMA XorIsRight ==
    ASSUME NEW m \in Shares, NEW n \in Shares
    PROVE  /\ XorGadget(m, n) \in Shares
           /\ Unmask(XorGadget(m, n)) = Xor(Unmask(m), Unmask(n))
  BY WordAssumption, Interchange DEF XorGadget, Unmask, Shares

LEMMA XorPublicIsRight ==
    ASSUME NEW m \in Shares, NEW word \in Word
    PROVE  /\ XorPublicGadget(m, word) \in Shares
           /\ Unmask(XorPublicGadget(m, word)) = Xor(Unmask(m), word)
  <1>1. m.a \in Word /\ m.b \in Word
    BY DEF Shares
  <1>2. Xor(Xor(m.a, word), m.b) = Xor(m.a, Xor(word, m.b))
    BY <1>1, XorAssumption
  <1>3. Xor(word, m.b) = Xor(m.b, word) /\ Xor(m.a, Xor(m.b, word)) = Xor(Xor(m.a, m.b), word)
    BY <1>1, XorAssumption
  <1>4. XorPublicGadget(m, word) = [a |-> Xor(m.a, word), b |-> m.b]
    BY DEF XorPublicGadget, Shares
  <1> QED  BY <1>1, <1>2, <1>3, <1>4, WordAssumption DEF Unmask, Shares

LEMMA NotIsRight ==
    ASSUME NEW m \in Shares
    PROVE  NotGadget(m) \in Shares /\ Unmask(NotGadget(m)) = Not(Unmask(m))
  <1>1. NotGadget(m) = [a |-> Not(m.a), b |-> m.b]
    BY DEF NotGadget, Shares
  <1>2. m.a \in Word /\ m.b \in Word
    BY DEF Shares
  <1>3. Xor(Not(m.a), m.b) = Not(Xor(m.a, m.b))
    BY <1>2, NotAssumption
  <1> QED  BY <1>1, <1>2, <1>3, WordAssumption DEF Unmask, Shares

\* The four products of the shares make up the product of the words.
LEMMA AndIsRight ==
    ASSUME NEW m \in Shares, NEW n \in Shares, NEW r \in Word
    PROVE  /\ AndGadget(m, n, r) \in Shares
           /\ Unmask(AndGadget(m, n, r)) = And(Unmask(m), Unmask(n))
  <1> DEFINE aa == And(m.a, n.a)
             ab == And(m.a, n.b)
             ba == And(m.b, n.a)
             bb == And(m.b, n.b)
             z1 == Xor(Xor(Xor(bb, r), ba), ab)
  <1>1. /\ m.a \in Word /\ m.b \in Word /\ n.a \in Word /\ n.b \in Word
        /\ aa \in Word /\ ab \in Word /\ ba \in Word /\ bb \in Word
    BY WordAssumption DEF Shares
  <1>2. AndGadget(m, n, r) = [a |-> Xor(aa, r), b |-> z1]
    BY DEF AndGadget, AndValues
  <1>3. z1 = Xor(Xor(Xor(bb, ba), ab), r)
    <2> HIDE DEF aa, ab, ba, bb
    <2>1. Xor(Xor(bb, r), ba) = Xor(bb, Xor(r, ba)) /\ Xor(r, ba) = Xor(ba, r)
      BY <1>1, XorAssumption
    <2>2. Xor(bb, Xor(ba, r)) = Xor(Xor(bb, ba), r)
      BY <1>1, XorAssumption
    <2>3. Xor(bb, ba) \in Word
      BY <1>1, WordAssumption
    <2>4. Xor(Xor(Xor(bb, ba), r), ab) = Xor(Xor(bb, ba), Xor(r, ab)) /\ Xor(r, ab) = Xor(ab, r)
      BY <1>1, <2>3, XorAssumption
    <2>5. Xor(Xor(bb, ba), Xor(ab, r)) = Xor(Xor(Xor(bb, ba), ab), r)
      BY <1>1, <2>3, XorAssumption
    <2> QED  BY <2>1, <2>2, <2>4, <2>5
  <1>4. Xor(Xor(aa, r), z1) = Xor(aa, Xor(Xor(bb, ba), ab))
    <2> HIDE DEF aa, ab, ba, bb, z1
    <2>1. Xor(Xor(bb, ba), ab) \in Word
      BY <1>1, WordAssumption
    <2> QED  BY <1>1, <1>3, <2>1, Cancel
  <1>5. And(Xor(m.a, m.b), Xor(n.a, n.b)) = Xor(Xor(aa, ba), Xor(ab, bb))
    <2>1. Xor(m.a, m.b) \in Word
      BY <1>1, WordAssumption
    <2>2. And(Xor(m.a, m.b), Xor(n.a, n.b))
            = Xor(And(Xor(m.a, m.b), n.a), And(Xor(m.a, m.b), n.b))
      BY <1>1, <2>1, AndLaws
    <2>3. /\ And(Xor(m.a, m.b), n.a) = Xor(aa, ba)
          /\ And(Xor(m.a, m.b), n.b) = Xor(ab, bb)
      BY <1>1, AndLaws
    <2> QED  BY <2>2, <2>3
  <1>6. Xor(aa, Xor(Xor(bb, ba), ab)) = Xor(Xor(aa, ba), Xor(ab, bb))
    <2> HIDE DEF aa, ab, ba, bb
    <2>1. Xor(bb, ba) = Xor(ba, bb) /\ Xor(Xor(ba, bb), ab) = Xor(ba, Xor(bb, ab))
      BY <1>1, XorAssumption
    <2>2. Xor(bb, ab) = Xor(ab, bb) /\ Xor(ab, bb) \in Word
      BY <1>1, XorAssumption, WordAssumption
    <2>3. Xor(aa, Xor(ba, Xor(ab, bb))) = Xor(Xor(aa, ba), Xor(ab, bb))
      BY <1>1, <2>2, XorAssumption
    <2> QED  BY <2>1, <2>2, <2>3
  <1>7. Xor(aa, r) \in Word /\ z1 \in Word
    <2> HIDE DEF aa, ab, ba, bb
    <2> QED  BY <1>1, WordAssumption
  <1>8. Unmask(AndGadget(m, n, r)) = Xor(Xor(aa, r), z1)
    BY <1>2 DEF Unmask
  <1> QED  BY <1>2, <1>4, <1>5, <1>6, <1>7, <1>8 DEF Unmask, Shares

LEMMA OrIsRight ==
    ASSUME NEW m \in Shares, NEW n \in Shares, NEW r \in Word
    PROVE  /\ OrGadget(m, n, r) \in Shares
           /\ Unmask(OrGadget(m, n, r)) = Or(Unmask(m), Unmask(n))
  <1> DEFINE both == AndGadget(NotGadget(m), NotGadget(n), r)
  <1>1. NotGadget(m) \in Shares /\ NotGadget(n) \in Shares
    BY NotIsRight
  <1>2. /\ both \in Shares
        /\ Unmask(both) = And(Not(Unmask(m)), Not(Unmask(n)))
    BY <1>1, AndIsRight, NotIsRight
  <1>3. Unmask(m) \in Word /\ Unmask(n) \in Word
    BY WordAssumption DEF Unmask, Shares
  <1>4. Or(Unmask(m), Unmask(n)) = Not(And(Not(Unmask(m)), Not(Unmask(n))))
    BY <1>3, NotAssumption
  <1>5. NotGadget(both) \in Shares /\ Unmask(NotGadget(both)) = Not(Unmask(both))
    BY <1>2, NotIsRight
  <1> QED  BY <1>2, <1>4, <1>5 DEF OrGadget

(***************************************************************************)
(* The conversion.  What it computes under the mask gamma and under gamma  *)
(* with r differs, Phi being linear, by what it would compute under r, and *)
(* that is the difference of the word and r.                               *)
(***************************************************************************)
LEMMA ConversionIsSub ==
    ASSUME NEW x \in Word, NEW r \in Word, NEW gamma \in Word
    PROVE  BooleanToArithmetic(x, r, gamma) = Sub(Xor(x, r), r)
  <1> DEFINE mask == Xor(gamma, r)
             S(g) == Sub(Xor(x, g), g)
  <1>1. x \in Word /\ r \in Word /\ mask \in Word
    BY WordAssumption
  <1>2. \A g \in Word : S(g) \in Word /\ Phi(x, g) = Xor(S(g), x) /\ Phi(x, g) \in Word
    BY <1>1, WordAssumption DEF Phi
  <1>3. BooleanToArithmetic(x, r, gamma) = Xor(S(mask), Phi(x, gamma))
    BY DEF BooleanToArithmetic, ConversionValues, Phi
  <1>4. Phi(x, mask) = Xor(Phi(x, gamma), Phi(x, r))
    BY <1>1, GoubinAssumption
  <1>5. S(mask) = Xor(Phi(x, mask), x)
    <2> HIDE DEF S, mask
    <2>1. Xor(Xor(S(mask), x), x) = Xor(S(mask), Xor(x, x))
      BY <1>1, <1>2, XorAssumption
    <2> QED  BY <1>1, <1>2, <2>1, XorAssumption
  <1>6. S(r) = Xor(Phi(x, r), x)
    <2> HIDE DEF S
    <2>1. Xor(Xor(S(r), x), x) = Xor(S(r), Xor(x, x))
      BY <1>1, <1>2, XorAssumption
    <2> QED  BY <1>1, <1>2, <2>1, XorAssumption
  <1>7. Xor(S(mask), Phi(x, gamma)) = S(r)
    <2> DEFINE p == Phi(x, gamma)
               q == Phi(x, r)
    <2>1. p \in Word /\ q \in Word
      BY <1>1, <1>2
    <2>2. S(mask) = Xor(Xor(p, q), x)
      BY <1>4, <1>5
    <2> HIDE DEF p, q, S, mask
    <2>3. Xor(Xor(Xor(p, q), x), p) = Xor(p, Xor(Xor(p, q), x))
      BY <1>1, <2>1, XorAssumption, WordAssumption
    <2>4. Xor(p, Xor(Xor(p, q), x)) = Xor(Xor(p, Xor(p, q)), x)
      BY <1>1, <2>1, XorAssumption, WordAssumption
    <2>5. Xor(p, Xor(p, q)) = q
      <3>1. Xor(p, Xor(p, q)) = Xor(Xor(p, p), q)
        BY <2>1, XorAssumption
      <3>2. Xor(ZERO, q) = q
        BY <2>1, XorAssumption, WordAssumption
      <3> QED  BY <2>1, <3>1, <3>2, XorAssumption
    <2>6. Xor(q, x) = S(r)
      BY <1>6 DEF q
    <2> QED  BY <2>2, <2>3, <2>4, <2>5, <2>6 DEF p
  <1> QED  BY <1>3, <1>7

LEMMA ConversionIsRight ==
    ASSUME NEW m \in Shares, NEW gamma \in Word
    PROVE  /\ BooleanToArithmetic(m.a, m.b, gamma) \in Word
           /\ Add(BooleanToArithmetic(m.a, m.b, gamma), m.b) = Unmask(m)
  <1>1. m.a \in Word /\ m.b \in Word /\ Xor(m.a, m.b) \in Word
    BY WordAssumption DEF Shares
  <1>2. BooleanToArithmetic(m.a, m.b, gamma) = Sub(Xor(m.a, m.b), m.b)
    BY <1>1, ConversionIsSub
  <1>3. /\ Sub(Xor(m.a, m.b), m.b) \in Word
        /\ Add(Sub(Xor(m.a, m.b), m.b), m.b) = Xor(m.a, m.b)
    <2> DEFINE w == Xor(m.a, m.b)
    <2> HIDE DEF w
    <2> QED  BY <1>1, WordAssumption, SubAssumption DEF w
  <1> QED  BY <1>2, <1>3 DEF Unmask

-----------------------------------------------------------------------------
\* Registers keep shares.
LEMMA NextTypeOK == TypeOK /\ [Next]_vars => TypeOK'
  <1> SUFFICES ASSUME TypeOK, Next PROVE TypeOK'
    BY DEF TypeOK, vars
  <1>1. ASSUME NEW d \in Reg, NEW m \in Shares, Set(d, m) PROVE TypeOK'
    BY <1>1 DEF Set, TypeOK
  <1>2. \A s \in Reg : shares[s] \in Shares
    BY DEF TypeOK
  <1>3. PICK d \in Reg, s \in Reg :
            \/ New(d) \/ FromShares(d) \/ RefreshOf(d)
            \/ XorPublic(d, s) \/ NotOf(d, s) \/ Convert(s)
            \/ \E o \in Reg : XorOf(d, s, o) \/ AndOf(d, s, o) \/ OrOf(d, s, o)
    BY DEF Next
  <1>4. CASE New(d)
    BY <1>1, <1>4, MaskIsRight DEF New
  <1>5. CASE FromShares(d)
    BY <1>1, <1>5 DEF FromShares
  <1>6. CASE RefreshOf(d)
    BY <1>1, <1>2, <1>6, RefreshIsRight DEF RefreshOf
  <1>7. CASE XorPublic(d, s)
    BY <1>1, <1>2, <1>7, XorPublicIsRight DEF XorPublic
  <1>8. CASE NotOf(d, s)
    BY <1>1, <1>2, <1>8, NotIsRight DEF NotOf
  <1>9. CASE Convert(s)
    BY <1>9 DEF Convert, TypeOK
  <1>10. ASSUME NEW o \in Reg, XorOf(d, s, o) PROVE TypeOK'
    BY <1>1, <1>2, <1>10, XorIsRight DEF XorOf
  <1>11. ASSUME NEW o \in Reg, AndOf(d, s, o) PROVE TypeOK'
    BY <1>1, <1>2, <1>11, AndIsRight DEF AndOf
  <1>12. ASSUME NEW o \in Reg, OrOf(d, s, o) PROVE TypeOK'
    BY <1>1, <1>2, <1>12, OrIsRight DEF OrOf
  <1> QED
    BY <1>3, <1>4, <1>5, <1>6, <1>7, <1>8, <1>9, <1>10, <1>11, <1>12

\* Setting a register to shares of a word sets the word it stands for.
LEMMA SetRefines ==
    ASSUME TypeOK, NEW d \in Reg, NEW m \in Shares, Set(d, m), NEW x, Unmask(m) = x
    PROVE  Plain!Set(d, x)
  <1>1. shares' = [shares EXCEPT ![d] = m] /\ arith' = {}
    BY DEF Set
  <1>2. Value' = [Value EXCEPT ![d] = x]
    BY <1>1 DEF Value, TypeOK
  <1>3. Sum' = {}
    BY <1>1 DEF Sum
  <1> QED  BY <1>2, <1>3 DEF Plain!Set

\* The words the registers stand for.
LEMMA ValueIsWord ==
    ASSUME TypeOK, NEW s \in Reg
    PROVE  Value[s] = Unmask(shares[s]) /\ Value[s] \in Word /\ shares[s] \in Shares
  BY WordAssumption DEF TypeOK, Value, Unmask, Shares

(***************************************************************************)
(* Every call of a gadget is the call of the plain operation.              *)
(***************************************************************************)
LEMMA NewRefines ==
    ASSUME TypeOK, NEW d \in Reg, New(d)
    PROVE  \E x \in Word : Plain!Load(d, x)
  <1>1. PICK x \in Word, r \in Word : last' = <<"load", d, x>> /\ Set(d, Mask(x, r))
    BY DEF New
  <1>2. Plain!Set(d, x)
    BY <1>1, MaskIsRight, SetRefines
  <1> QED  BY <1>1, <1>2 DEF Plain!Load

LEMMA FromSharesRefines ==
    ASSUME TypeOK, NEW d \in Reg, FromShares(d)
    PROVE  \E x \in Word : Plain!Load(d, x)
  <1>1. PICK m \in Shares : last' = <<"load", d, Unmask(m)>> /\ Set(d, m)
    BY DEF FromShares
  <1>2. Plain!Set(d, Unmask(m)) /\ Unmask(m) \in Word
    BY <1>1, SetRefines, WordAssumption DEF Unmask, Shares
  <1> QED  BY <1>1, <1>2 DEF Plain!Load

LEMMA RefreshRefines ==
    ASSUME TypeOK, NEW d \in Reg, RefreshOf(d)
    PROVE  Plain!Refresh(d)
  <1>1. PICK r \in Word : last' = <<"refresh", d>> /\ Set(d, Refresh(shares[d], r))
    BY DEF RefreshOf
  <1>2. /\ Refresh(shares[d], r) \in Shares
        /\ Unmask(Refresh(shares[d], r)) = Value[d]
    BY RefreshIsRight, ValueIsWord
  <1>3. Plain!Set(d, Value[d])
    BY <1>1, <1>2, SetRefines DEF Set, Plain!Set
  <1> QED  BY <1>1, <1>3 DEF Plain!Refresh

LEMMA XorRefines ==
    ASSUME TypeOK, NEW d \in Reg, NEW s \in Reg, NEW o \in Reg, XorOf(d, s, o)
    PROVE  Plain!XorOf(d, s, o)
  <1>1. /\ XorGadget(shares[s], shares[o]) \in Shares
        /\ Unmask(XorGadget(shares[s], shares[o])) = Xor(Value[s], Value[o])
    BY XorIsRight, ValueIsWord
  <1>2. Set(d, XorGadget(shares[s], shares[o]))
    BY DEF XorOf
  <1>3. Plain!Set(d, Xor(Value[s], Value[o]))
    BY <1>1, <1>2, SetRefines DEF Set, Plain!Set
  <1> QED  BY <1>3 DEF XorOf, Plain!XorOf

LEMMA XorPublicRefines ==
    ASSUME TypeOK, NEW d \in Reg, NEW s \in Reg, XorPublic(d, s)
    PROVE  \E word \in Word : Plain!XorPublic(d, s, word)
  <1>1. PICK word \in Word :
            /\ last' = <<"xorPublic", d, s, word>>
            /\ Set(d, XorPublicGadget(shares[s], word))
    BY DEF XorPublic
  <1>2. /\ XorPublicGadget(shares[s], word) \in Shares
        /\ Unmask(XorPublicGadget(shares[s], word)) = Xor(Value[s], word)
    BY XorPublicIsRight, ValueIsWord
  <1>3. Plain!Set(d, Xor(Value[s], word))
    BY <1>1, <1>2, SetRefines DEF Set, Plain!Set
  <1> QED  BY <1>1, <1>3 DEF Plain!XorPublic

LEMMA NotRefines ==
    ASSUME TypeOK, NEW d \in Reg, NEW s \in Reg, NotOf(d, s)
    PROVE  Plain!NotOf(d, s)
  <1>1. /\ NotGadget(shares[s]) \in Shares
        /\ Unmask(NotGadget(shares[s])) = Not(Value[s])
    BY NotIsRight, ValueIsWord
  <1>2. Set(d, NotGadget(shares[s]))
    BY DEF NotOf
  <1>3. Plain!Set(d, Not(Value[s]))
    BY <1>1, <1>2, SetRefines DEF Set, Plain!Set
  <1> QED  BY <1>3 DEF NotOf, Plain!NotOf

LEMMA AndRefines ==
    ASSUME TypeOK, NEW d \in Reg, NEW s \in Reg, NEW o \in Reg, AndOf(d, s, o)
    PROVE  Plain!AndOf(d, s, o)
  <1>1. PICK r \in Word :
            last' = <<"and", d, s, o>> /\ Set(d, AndGadget(shares[s], shares[o], r))
    BY DEF AndOf
  <1>2. /\ Value[s] = Unmask(shares[s]) /\ shares[s] \in Shares
        /\ Value[o] = Unmask(shares[o]) /\ shares[o] \in Shares
    BY ValueIsWord
  <1>3. /\ AndGadget(shares[s], shares[o], r) \in Shares
        /\ Unmask(AndGadget(shares[s], shares[o], r)) = And(Value[s], Value[o])
    BY <1>2, AndIsRight
  <1>4. Plain!Set(d, And(Value[s], Value[o]))
    BY <1>1, <1>3, SetRefines DEF Set, Plain!Set
  <1> QED  BY <1>1, <1>4 DEF Plain!AndOf

LEMMA OrRefines ==
    ASSUME TypeOK, NEW d \in Reg, NEW s \in Reg, NEW o \in Reg, OrOf(d, s, o)
    PROVE  Plain!OrOf(d, s, o)
  <1>1. PICK r \in Word :
            last' = <<"or", d, s, o>> /\ Set(d, OrGadget(shares[s], shares[o], r))
    BY DEF OrOf
  <1>2. /\ Value[s] = Unmask(shares[s]) /\ shares[s] \in Shares
        /\ Value[o] = Unmask(shares[o]) /\ shares[o] \in Shares
    BY ValueIsWord
  <1>3. /\ OrGadget(shares[s], shares[o], r) \in Shares
        /\ Unmask(OrGadget(shares[s], shares[o], r)) = Or(Value[s], Value[o])
    BY <1>2, OrIsRight
  <1>4. Plain!Set(d, Or(Value[s], Value[o]))
    BY <1>1, <1>3, SetRefines DEF Set, Plain!Set
  <1> QED  BY <1>1, <1>4 DEF Plain!OrOf

LEMMA ConvertRefines ==
    ASSUME TypeOK, NEW s \in Reg, Convert(s)
    PROVE  Plain!Convert(s)
  <1> DEFINE pair(gamma) == [a |-> BooleanToArithmetic(shares[s].a, shares[s].b, gamma),
                             r |-> shares[s].b]
  <1>1. PICK gamma \in Word : arith' = {pair(gamma)}
    BY DEF Convert
  <1>2. Add(pair(gamma).a, pair(gamma).r) = Value[s]
    BY ConversionIsRight, ValueIsWord
  <1>3. Sum' = {Value[s]}
    <2> HIDE DEF pair
    <2> QED  BY <1>1, <1>2 DEF Sum
  <1>4. Value' = Value /\ last' = <<"convert", s>>
    BY DEF Convert, Value
  <1> QED  BY <1>3, <1>4 DEF Plain!Convert

\* Every step is a step of plain computation.
LEMMA NextRefines == TypeOK /\ [Next]_vars => [Plain!Next]_(Plain!vars)
  <1> SUFFICES ASSUME TypeOK, [Next]_vars PROVE [Plain!Next]_(Plain!vars)
    OBVIOUS
  <1>1. CASE UNCHANGED vars
    BY <1>1 DEF vars, Plain!vars, Value, Sum
  <1>2. CASE Next
    <2>1. PICK d \in Reg, s \in Reg :
            \/ New(d) \/ FromShares(d) \/ RefreshOf(d)
            \/ XorPublic(d, s) \/ NotOf(d, s) \/ Convert(s)
            \/ \E o \in Reg : XorOf(d, s, o) \/ AndOf(d, s, o) \/ OrOf(d, s, o)
      BY <1>2 DEF Next
    <2>2. CASE New(d) \/ FromShares(d)
      BY <2>2, NewRefines, FromSharesRefines DEF Plain!Next
    <2>3. CASE RefreshOf(d)
      BY <2>3, RefreshRefines DEF Plain!Next
    <2>4. CASE XorPublic(d, s)
      BY <2>4, XorPublicRefines DEF Plain!Next
    <2>5. CASE NotOf(d, s)
      BY <2>5, NotRefines DEF Plain!Next
    <2>6. CASE Convert(s)
      BY <2>6, ConvertRefines DEF Plain!Next
    <2>7. ASSUME NEW o \in Reg, XorOf(d, s, o) \/ AndOf(d, s, o) \/ OrOf(d, s, o)
          PROVE  Plain!Next
      BY <2>7, XorRefines, AndRefines, OrRefines DEF Plain!Next
    <2> QED  BY <2>1, <2>2, <2>3, <2>4, <2>5, <2>6, <2>7
  <1> QED  BY <1>1, <1>2

\* The start: some words, whatever their shares.
LEMMA InitRefines == Init => TypeOK /\ Plain!Init
  <1> SUFFICES ASSUME Init PROVE TypeOK /\ Plain!Init
    OBVIOUS
  <1>1. TypeOK /\ last = <<"start">> /\ arith = {}
    BY DEF Init, TypeOK
  <1>2. Value \in [Reg -> Word]
    BY <1>1, ValueIsWord DEF Value
  <1>3. Sum = {}
    BY <1>1 DEF Sum
  <1> QED  BY <1>1, <1>2, <1>3 DEF Plain!Init

(***************************************************************************)
(* However the gadgets of the crate are chained, on registers that may be   *)
(* operands and results at once, the words their shares stand for are      *)
(* those plain operations compute, and a conversion's two shares add up.   *)
(***************************************************************************)
THEOREM GadgetsComputeOnSecrets == Spec => ComputesOnSecrets
  <1> QED
    BY InitRefines, NextTypeOK, NextRefines, PTL DEF Spec, ComputesOnSecrets, Plain!Spec

-----------------------------------------------------------------------------
(***************************************************************************)
(* What one probe sees.  Two ways of computing a value from the words drawn *)
(* are seen alike when the words drawn can be exchanged one for one so that *)
(* the values agree: then each word is seen as often in the one as in the   *)
(* other.                                                                   *)
(***************************************************************************)
\* Two functions of the coins between which the coins can be exchanged.
Matched(at, bt) ==
    \E f \in Bijection(Coins, Coins) : \A c \in Coins : at[c] = bt[f[c]]

\* How often each word is seen.
Counts(at) == [w \in Word |-> Cardinality({c \in Coins : at[c] = w})]

\* There are finitely many outcomes of the random generator.
LEMMA CoinsAreFinite == IsFiniteSet(Coins)
  <1> DEFINE T == Word \X Word \X Word
             f == [t \in T |-> [m |-> t[1], n |-> t[2], r |-> t[3]]]
  <1>1. IsFiniteSet(T)
    <2>1. IsFiniteSet((Word \X Word) \X Word)
      BY RoutineAssumption, FS_Product
    <2> DEFINE g == [t \in (Word \X Word) \X Word |-> <<t[1][1], t[1][2], t[2]>>]
    <2>2. g \in Surjection((Word \X Word) \X Word, T)
      <3>1. g \in [(Word \X Word) \X Word -> T]
        OBVIOUS
      <3>2. ASSUME NEW t \in T PROVE \E s \in (Word \X Word) \X Word : g[s] = t
        <4>1. <<<<t[1], t[2]>>, t[3]>> \in (Word \X Word) \X Word /\ g[<<<<t[1], t[2]>>, t[3]>>] = t
          OBVIOUS
        <4> QED BY <4>1
      <3> QED BY <3>1, <3>2, Fun_IsSurj
    <2> QED BY <2>1, <2>2, FS_Surjection
  <1>2. f \in Surjection(T, Coins)
    <2>1. f \in [T -> Coins]
      BY DEF Coins
    <2>2. ASSUME NEW c \in Coins PROVE \E t \in T : f[t] = c
      <3>1. <<c.m, c.n, c.r>> \in T /\ f[<<c.m, c.n, c.r>>] = c
        BY DEF Coins
      <3> QED BY <3>1
    <2> QED BY <2>1, <2>2, Fun_IsSurj
  <1> QED BY <1>1, <1>2, FS_Surjection

\* What is matched is seen equally often.
LEMMA MatchedCounts ==
    ASSUME NEW at, NEW bt, Matched(at, bt)
    PROVE  Counts(at) = Counts(bt)
  <1>1. PICK f \in Bijection(Coins, Coins) : \A c \in Coins : at[c] = bt[f[c]]
    BY DEF Matched
  <1>2. ASSUME NEW w \in Word
        PROVE  Cardinality({c \in Coins : at[c] = w}) = Cardinality({c \in Coins : bt[c] = w})
    <2> DEFINE S == {c \in Coins : at[c] = w}
               T == {c \in Coins : bt[c] = w}
               g == [c \in S |-> f[c]]
    <2>1. /\ f \in [Coins -> Coins]
          /\ \A c, d \in Coins : f[c] = f[d] => c = d
          /\ \A d \in Coins : \E c \in Coins : f[c] = d
      BY Fun_BijectionProperties
    <2>2. g \in [S -> T] /\ \A c, d \in S : g[c] = g[d] => c = d
      BY <1>1, <2>1
    <2>3. \A d \in T : \E c \in S : g[c] = d
      BY <1>1, <2>1
    <2> HIDE DEF g, S, T
    <2>4. g \in Bijection(S, T)
      BY <2>2, <2>3, Fun_IsBij
    <2>5. ExistsBijection(S, T)
      BY <2>4, Fun_ExistsBij
    <2>6. IsFiniteSet(S)
      BY CoinsAreFinite, FS_Subset DEF S
    <2> QED  BY <2>5, <2>6, FS_Bijection DEF S, T
  <1> QED  BY <1>2 DEF Counts

\* The coins exchanged one by one, and back.
LEMMA Exchanged ==
    ASSUME NEW at, NEW bt, NEW f \in [Coins -> Coins], NEW g \in [Coins -> Coins],
           \A c \in Coins : at[c] = bt[f[c]] /\ g[f[c]] = c /\ f[g[c]] = c
    PROVE  Matched(at, bt)
  <1>1. \A c, d \in Coins : f[c] = f[d] => c = d
    OBVIOUS
  <1>2. \A d \in Coins : \E c \in Coins : f[c] = d
    OBVIOUS
  <1>3. f \in Bijection(Coins, Coins)
    BY <1>1, <1>2, Fun_IsBij
  <1> QED  BY <1>3 DEF Matched

\* The words drawn with words added to them.
Shift(c, i, j, k) == [m |-> Xor(c.m, i), n |-> Xor(c.n, j), r |-> Xor(c.r, k)]

\* Adding a word twice undoes itself.
LEMMA XorBack ==
    ASSUME NEW x \in Word, NEW y \in Word
    PROVE  Xor(x, y) \in Word /\ Xor(Xor(x, y), y) = x
  BY XorAssumption, WordAssumption

\* Values that agree once words are added to the words drawn are matched.
LEMMA Shifted ==
    ASSUME NEW at, NEW bt, NEW i \in Word, NEW j \in Word, NEW k \in Word,
           \A c \in Coins : at[c] = bt[Shift(c, i, j, k)]
    PROVE  Matched(at, bt)
  <1> DEFINE f == [c \in Coins |-> Shift(c, i, j, k)]
  <1>1. f \in [Coins -> Coins]
    BY XorBack DEF Shift, Coins
  <1>2. \A c \in Coins : Shift(Shift(c, i, j, k), i, j, k) = c
    BY XorBack DEF Shift, Coins
  <1>3. \A c \in Coins : f[f[c]] = c /\ at[c] = bt[f[c]]
    BY <1>1, <1>2
  <1> HIDE DEF f
  <1> QED  BY <1>1, <1>3, Exchanged

\* Values that do not take the coin x.
Without(x, s) == \A c \in Coins, w \in Word : s[[c EXCEPT ![x] = w]] = s[c]

\* A value into which a coin is folded that nothing else in it depends on.
LEMMA Fresh ==
    ASSUME NEW at, NEW bt, NEW a \in [Coins -> Word], NEW b \in [Coins -> Word],
           NEW x \in {"n", "r"},
           \A c \in Coins : at[c] = Xor(a[c], c[x]) /\ bt[c] = Xor(b[c], c[x]),
           Without(x, a), Without(x, b)
    PROVE  Matched(at, bt)
  <1> DEFINE d(c) == Xor(a[c], b[c])
             f == [c \in Coins |-> [c EXCEPT ![x] = Xor(c[x], d(c))]]
  <1>1. \A c \in Coins, w \in Word :
            [c EXCEPT ![x] = w] \in Coins /\ [c EXCEPT ![x] = w][x] = w
    BY DEF Coins
  <1>2. ASSUME NEW c \in Coins
        PROVE  /\ f[c] \in Coins /\ f[f[c]] = c
               /\ at[c] = bt[f[c]]
    <2> DEFINE p == a[c]
               q == b[c]
               w == Xor(c[x], d(c))
    <2>1. p \in Word /\ q \in Word /\ c[x] \in Word /\ d(c) \in Word /\ w \in Word
      BY WordAssumption DEF Coins
    <2>2. f[c] = [c EXCEPT ![x] = w] /\ f[c] \in Coins /\ f[c][x] = w
      BY <1>1, <2>1
    <2>3. a[f[c]] = p /\ b[f[c]] = q
      BY <2>1, <2>2 DEF Without
    <2>4. at[c] = Xor(p, c[x]) /\ bt[f[c]] = Xor(q, w)
      BY <2>2, <2>3
    <2>5. f[f[c]] = [f[c] EXCEPT ![x] = Xor(f[c][x], d(f[c]))]
      BY <2>2
    <2>6. d(f[c]) = d(c)
      BY <2>3
    <2>7. Xor(w, d(c)) = c[x]
      BY <2>1, XorBack
    <2>8. f[f[c]] = [[c EXCEPT ![x] = w] EXCEPT ![x] = c[x]]
      BY <2>2, <2>5, <2>6, <2>7
    <2>9. f[f[c]] = c
      BY <2>8 DEF Coins
    <2>10. Xor(q, w) = Xor(p, c[x])
      <3> DEFINE e == c[x]
      <3>1. p \in Word /\ q \in Word /\ e \in Word /\ w = Xor(e, Xor(p, q))
        BY <2>1
      <3> HIDE DEF p, q, e, w
      <3>2. Xor(e, Xor(p, q)) = Xor(Xor(e, p), q) /\ Xor(e, p) \in Word
        BY <3>1, XorAssumption, WordAssumption
      <3>3. Xor(q, Xor(Xor(e, p), q)) = Xor(e, p)
        BY <3>1, <3>2, XorBack, XorAssumption
      <3>4. Xor(q, w) = Xor(p, e)
        BY <3>1, <3>2, <3>3, XorAssumption
      <3> QED  BY <3>4 DEF e
    <2> QED  BY <2>2, <2>4, <2>9, <2>10
  <1>3. f \in [Coins -> Coins]
    BY <1>2
  <1> HIDE DEF f
  <1> QED  BY <1>2, <1>3, Exchanged

\* Values pointwise the same are matched alike.
LEMMA MatchedSame ==
    ASSUME NEW at, NEW bt, NEW ct, NEW dt, Matched(at, bt),
           \A c \in Coins : ct[c] = at[c] /\ dt[c] = bt[c]
    PROVE  Matched(ct, dt)
  <1>1. PICK f \in Bijection(Coins, Coins) : \A c \in Coins : at[c] = bt[f[c]]
    BY DEF Matched
  <1>2. f \in [Coins -> Coins]
    BY Fun_BijectionProperties
  <1> QED  BY <1>1, <1>2 DEF Matched

\* The shares of a masked word.
Side == {"a", "b"}

\* A product of a share of one masked word and a share of another.
MulOf(s, t, p, q) == [c \in Coins |-> And(s[c][p], t[c][q])]

\* The value at one place, for all words drawn.
Column(s, p) == [c \in Coins |-> s[c][p]]

\* The values and computes from two masked words with the word drawn x.
Anding(s, t, x) == [c \in Coins |-> AndValues(s[c], t[c], c[x])]

\* Each of the eight values of and: a bare product of two shares, which is matched
\* if all of those are, or covered by the word drawn for it.
LEMMA AndHides ==
    ASSUME NEW x \in {"n", "r"},
           NEW s \in [Coins -> Shares], NEW t \in [Coins -> Shares],
           NEW s0 \in [Coins -> Shares], NEW t0 \in [Coins -> Shares],
           Without(x, s), Without(x, t), Without(x, s0), Without(x, t0),
           \A p, q \in Side : Matched(MulOf(s, t, p, q), MulOf(s0, t0, p, q)),
           NEW k \in 1 .. 8
    PROVE  Matched(Column(Anding(s, t, x), k), Column(Anding(s0, t0, x), k))
  <1> DEFINE of(y, z) == Column(Anding(y, z, x), k)
             part(y, z) ==
                 CASE k = 2 -> MulOf(y, z, "a", "a")
                   [] k = 4 -> MulOf(y, z, "b", "b")
                   [] k = 6 -> [c \in Coins |-> Xor(And(y[c].b, z[c].b), And(y[c].b, z[c].a))]
                   [] k = 8 -> [c \in Coins |->
                        Xor(Xor(And(y[c].b, z[c].b), And(y[c].b, z[c].a)), And(y[c].a, z[c].b))]
  <1>1. ASSUME k \in {1, 3, 5, 7} PROVE Matched(of(s, t), of(s0, t0))
    <2>1. PICK p \in Side, q \in Side :
              \A y, z \in [Coins -> Shares] : \A c \in Coins :
                  of(y, z)[c] = MulOf(y, z, p, q)[c]
      <3>1. CASE k = 1
        <4>1. \A y, z \in [Coins -> Shares] : \A c \in Coins :
                  of(y, z)[c] = MulOf(y, z, "a", "a")[c]
          BY <3>1 DEF AndValues, MulOf, Column, Anding
        <4> QED  BY <4>1 DEF Side
      <3>2. CASE k = 3
        <4>1. \A y, z \in [Coins -> Shares] : \A c \in Coins :
                  of(y, z)[c] = MulOf(y, z, "b", "b")[c]
          BY <3>2 DEF AndValues, MulOf, Column, Anding
        <4> QED  BY <4>1 DEF Side
      <3>3. CASE k = 5
        <4>1. \A y, z \in [Coins -> Shares] : \A c \in Coins :
                  of(y, z)[c] = MulOf(y, z, "b", "a")[c]
          BY <3>3 DEF AndValues, MulOf, Column, Anding
        <4> QED  BY <4>1 DEF Side
      <3>4. CASE k = 7
        <4>1. \A y, z \in [Coins -> Shares] : \A c \in Coins :
                  of(y, z)[c] = MulOf(y, z, "a", "b")[c]
          BY <3>4 DEF AndValues, MulOf, Column, Anding
        <4> QED  BY <4>1 DEF Side
      <3> QED  BY <1>1, <3>1, <3>2, <3>3, <3>4
    <2>2. Matched(MulOf(s, t, p, q), MulOf(s0, t0, p, q))
      OBVIOUS
    <2> HIDE DEF of
    <2> QED  BY <2>1, <2>2, MatchedSame
  <1>2. ASSUME k \in {2, 4, 6, 8} PROVE Matched(of(s, t), of(s0, t0))
    <2>1. ASSUME NEW y \in [Coins -> Shares], NEW z \in [Coins -> Shares],
                 Without(x, y), Without(x, z)
          PROVE  /\ part(y, z) \in [Coins -> Word]
                 /\ \A c \in Coins : of(y, z)[c] = Xor(part(y, z)[c], c[x])
                 /\ Without(x, part(y, z))
      <3>1. ASSUME NEW c \in Coins
            PROVE  /\ c[x] \in Word
                   /\ y[c].a \in Word /\ y[c].b \in Word /\ z[c].a \in Word /\ z[c].b \in Word
        BY DEF Coins, Shares
      <3>2. part(y, z) \in [Coins -> Word]
        BY <1>2, <3>1, WordAssumption DEF MulOf
      <3>3. ASSUME NEW c \in Coins PROVE of(y, z)[c] = Xor(part(y, z)[c], c[x])
        <4> DEFINE aa == And(y[c].a, z[c].a)
                   bb == And(y[c].b, z[c].b)
                   ba == And(y[c].b, z[c].a)
                   ab == And(y[c].a, z[c].b)
                   e == c[x]
        <4>1. aa \in Word /\ bb \in Word /\ ba \in Word /\ ab \in Word /\ e \in Word
          BY <3>1, WordAssumption
        <4>2. AndValues(y[c], z[c], e)
                = <<aa, Xor(aa, e), bb, Xor(bb, e), ba, Xor(Xor(bb, e), ba),
                    ab, Xor(Xor(Xor(bb, e), ba), ab)>>
          BY DEF AndValues
        <4>3. part(y, z)[c] = CASE k = 2 -> aa [] k = 4 -> bb [] k = 6 -> Xor(bb, ba)
                                [] k = 8 -> Xor(Xor(bb, ba), ab)
          BY <1>2 DEF MulOf
        <4> HIDE DEF aa, bb, ba, ab, e, part
        <4>4. Xor(Xor(bb, e), ba) = Xor(Xor(bb, ba), e)
          BY <4>1, XorAssumption
        <4>5. Xor(Xor(Xor(bb, ba), e), ab) = Xor(Xor(Xor(bb, ba), ab), e)
          BY <4>1, XorAssumption, WordAssumption
        <4>6. of(y, z)[c] = AndValues(y[c], z[c], e)[k]
          BY DEF Column, Anding, e
        <4> HIDE DEF of
        <4> QED  BY <1>2, <4>2, <4>3, <4>4, <4>5, <4>6 DEF e
      <3>4. Without(x, part(y, z))
        <4>1. \A c \in Coins, w \in Word : [c EXCEPT ![x] = w] \in Coins
          BY DEF Coins
        <4>2. ASSUME NEW c \in Coins, NEW w \in Word
              PROVE  part(y, z)[[c EXCEPT ![x] = w]] = part(y, z)[c]
          <5> DEFINE d == [c EXCEPT ![x] = w]
          <5>1. d \in Coins /\ y[d] = y[c] /\ z[d] = z[c]
            BY <2>1, <4>1 DEF Without
          <5> HIDE DEF d
          <5>2. part(y, z)[d] = part(y, z)[c]
            BY <1>2, <5>1 DEF MulOf
          <5> QED  BY <5>2 DEF d
        <4> HIDE DEF part
        <4> QED  BY <4>2 DEF Without
      <3> QED  BY <3>2, <3>3, <3>4
    <2> HIDE DEF of, part
    <2>2. /\ part(s, t) \in [Coins -> Word] /\ part(s0, t0) \in [Coins -> Word]
          /\ \A c \in Coins : /\ of(s, t)[c] = Xor(part(s, t)[c], c[x])
                             /\ of(s0, t0)[c] = Xor(part(s0, t0)[c], c[x])
          /\ Without(x, part(s, t)) /\ Without(x, part(s0, t0))
      BY <2>1
    <2> QED  BY <2>2, Fresh
  <1> QED  BY <1>1, <1>2

-----------------------------------------------------------------------------
(***************************************************************************)
(* Sequences of values, each seen alike; one behind the other they still    *)
(* are.                                                                     *)
(***************************************************************************)
\* Two ways of computing n values from the coins, each seen alike in both.
Alike(s, t, n) ==
    /\ s \in [Coins -> Seq(Word)] /\ t \in [Coins -> Seq(Word)]
    /\ \A c \in Coins : Len(s[c]) = n /\ Len(t[c]) = n
    /\ \A p \in 1 .. n : Matched(Column(s, p), Column(t, p))

\* The values of one computation behind those of another.
Then(s, t) == [c \in Coins |-> s[c] \o t[c]]

\* What one sequence behind another has in it.
Appends(f, s, t, n, k) ==
    /\ f \in [Coins -> Seq(Word)]
    /\ \A c \in Coins :
        /\ Len(f[c]) = n + k
        /\ \A p \in 1 .. n : f[c][p] = s[c][p]
        /\ \A p \in n + 1 .. n + k : f[c][p] = t[c][p - n]

\* Where the entries of a concatenation come from.
LEMMA OneAfterAnother ==
    ASSUME NEW a \in Seq(Word), NEW b \in Seq(Word)
    PROVE  /\ a \o b \in Seq(Word) /\ Len(a \o b) = Len(a) + Len(b)
           /\ \A p \in 1 .. Len(a) : (a \o b)[p] = a[p]
           /\ \A p \in Len(a) + 1 .. Len(a) + Len(b) : (a \o b)[p] = b[p - Len(a)]
  OBVIOUS

\* The same for values behind values.
LEMMA ThenAppends ==
    ASSUME NEW s \in [Coins -> Seq(Word)], NEW t \in [Coins -> Seq(Word)],
           NEW n \in Nat, NEW k \in Nat, \A c \in Coins : Len(s[c]) = n /\ Len(t[c]) = k
    PROVE  Appends(Then(s, t), s, t, n, k)
  <1>1. ASSUME NEW c \in Coins
        PROVE  /\ s[c] \o t[c] \in Seq(Word) /\ Len(s[c] \o t[c]) = n + k
               /\ \A p \in 1 .. n : (s[c] \o t[c])[p] = s[c][p]
               /\ \A p \in n + 1 .. n + k : (s[c] \o t[c])[p] = t[c][p - n]
    <2>1. s[c] \in Seq(Word) /\ t[c] \in Seq(Word) /\ Len(s[c]) = n /\ Len(t[c]) = k
      OBVIOUS
    <2> QED  BY <2>1, OneAfterAnother
  <1> QED  BY <1>1 DEF Then, Appends

\* Values seen alike behind values seen alike are seen alike.
LEMMA AlikeThen ==
    ASSUME NEW s, NEW s0, NEW t, NEW t0, NEW n \in Nat, NEW k \in Nat,
           Alike(s, s0, n), Alike(t, t0, k)
    PROVE  Alike(Then(s, t), Then(s0, t0), n + k)
  <1> DEFINE f == Then(s, t)
             g == Then(s0, t0)
  <1>1. Appends(f, s, t, n, k) /\ Appends(g, s0, t0, n, k)
    BY ThenAppends DEF Alike
  <1> HIDE DEF f, g
  <1>2. ASSUME NEW p \in 1 .. n PROVE Matched(Column(f, p), Column(g, p))
    <2>1. \A c \in Coins : /\ Column(f, p)[c] = Column(s, p)[c]
                           /\ Column(g, p)[c] = Column(s0, p)[c]
      BY <1>1 DEF Column, Appends
    <2>2. Matched(Column(s, p), Column(s0, p))
      BY DEF Alike
    <2> QED  BY <2>1, <2>2, MatchedSame
  <1>3. ASSUME NEW p \in n + 1 .. n + k PROVE Matched(Column(f, p), Column(g, p))
    <2>1. \A c \in Coins : /\ Column(f, p)[c] = Column(t, p - n)[c]
                           /\ Column(g, p)[c] = Column(t0, p - n)[c]
      BY <1>1 DEF Column, Appends
    <2>2. Matched(Column(t, p - n), Column(t0, p - n))
      BY DEF Alike
    <2> QED  BY <2>1, <2>2, MatchedSame
  <1>4. \A p \in 1 .. n + k : p \in 1 .. n \/ p \in n + 1 .. n + k
    OBVIOUS
  <1>5. Alike(f, g, n + k)
    BY <1>1, <1>2, <1>3, <1>4 DEF Alike, Appends
  <1> QED  BY <1>5 DEF f, g

\* What Masked::new returns.
LEMMA MaskShares ==
    ASSUME NEW u \in Word, NEW r \in Word
    PROVE  Mask(u, r) \in Shares /\ Mask(u, r).a = r /\ Mask(u, r).b = Xor(r, u)
  BY WordAssumption DEF Mask, Shares

\* Both shares of a masked word, as the values a routine is handed.
Holding(s) == [c \in Coins |-> Held(s[c])]

\* Shares each of which is seen alike.
AlikeShares(s, t) ==
    /\ s \in [Coins -> Shares] /\ t \in [Coins -> Shares]
    /\ \A q \in Side : Matched(Column(s, q), Column(t, q))

\* Both shares are seen alike if each is.
LEMMA AlikeHeld ==
    ASSUME NEW s, NEW t, AlikeShares(s, t)
    PROVE  Alike(Holding(s), Holding(t), 2)
  <1>1. ASSUME NEW y \in [Coins -> Shares]
        PROVE  /\ Holding(y) \in [Coins -> Seq(Word)]
               /\ \A c \in Coins : /\ Len(Holding(y)[c]) = 2
                                   /\ Holding(y)[c][1] = y[c]["a"] /\ Holding(y)[c][2] = y[c]["b"]
    BY DEF Holding, Held, Shares
  <1>2. Matched(Column(Holding(s), 1), Column(Holding(t), 1))
    <2>1. \A c \in Coins : /\ Column(Holding(s), 1)[c] = Column(s, "a")[c]
                           /\ Column(Holding(t), 1)[c] = Column(t, "a")[c]
      BY <1>1 DEF AlikeShares, Column
    <2> QED  BY <2>1, MatchedSame DEF AlikeShares, Side
  <1>3. Matched(Column(Holding(s), 2), Column(Holding(t), 2))
    <2>1. \A c \in Coins : /\ Column(Holding(s), 2)[c] = Column(s, "b")[c]
                           /\ Column(Holding(t), 2)[c] = Column(t, "b")[c]
      BY <1>1 DEF AlikeShares, Column
    <2> QED  BY <2>1, MatchedSame DEF AlikeShares, Side
  <1> QED  BY <1>1, <1>2, <1>3 DEF Alike, AlikeShares

\* The values of an and are seen alike if the products of its operands' shares are.
LEMMA AlikeAnd ==
    ASSUME NEW x \in {"n", "r"},
           NEW s \in [Coins -> Shares], NEW t \in [Coins -> Shares],
           NEW s0 \in [Coins -> Shares], NEW t0 \in [Coins -> Shares],
           Without(x, s), Without(x, t), Without(x, s0), Without(x, t0),
           \A p, q \in Side : Matched(MulOf(s, t, p, q), MulOf(s0, t0, p, q))
    PROVE  Alike(Anding(s, t, x), Anding(s0, t0, x), 8)
  <1>1. ASSUME NEW m \in Shares, NEW n \in Shares, NEW r \in Word
        PROVE  AndValues(m, n, r) \in Seq(Word) /\ Len(AndValues(m, n, r)) = 8
    <2> DEFINE aa == And(m.a, n.a)
               bb == And(m.b, n.b)
               ba == And(m.b, n.a)
               ab == And(m.a, n.b)
               t1 == Xor(bb, r)
               t2 == Xor(t1, ba)
    <2>1. aa \in Word /\ bb \in Word /\ ba \in Word /\ ab \in Word
      BY WordAssumption DEF Shares
    <2>2. t1 \in Word /\ t2 \in Word /\ Xor(t2, ab) \in Word /\ Xor(aa, r) \in Word
      BY <2>1, WordAssumption
    <2>3. AndValues(m, n, r) = <<aa, Xor(aa, r), bb, t1, ba, t2, ab, Xor(t2, ab)>>
      BY DEF AndValues
    <2> HIDE DEF aa, bb, ba, ab, t1, t2
    <2> QED  BY <2>1, <2>2, <2>3
  <1>2. \A c \in Coins : c[x] \in Word
    BY DEF Coins
  <1>3. ASSUME NEW p \in 1 .. 8
        PROVE  Matched(Column(Anding(s, t, x), p), Column(Anding(s0, t0, x), p))
    BY AndHides
  <1> QED  BY <1>1, <1>2, <1>3 DEF Alike, Anding

-----------------------------------------------------------------------------
(***************************************************************************)
(* The operands of the routines.  Any one share of each of two masked       *)
(* words, or of a masked word and of the same refreshed, is as it would be  *)
(* if the words were zero and others drawn.                                 *)
(***************************************************************************)
\* The first operand, the second, and the first refreshed.
First(u) == [c \in Coins |-> Mask(u, c.m)]
Second(v) == [c \in Coins |-> Mask(v, c.n)]
Again(u) == [c \in Coins |-> Refresh(Mask(u, c.m), c.r)]

\* The shares y and z of two masked words come out of the coins as those of
\* other words come out of coins to which i, j and k are added.
AddsUp(s, t, s0, t0, y, z, i, j, k) ==
    \A c \in Coins : s[c][y] = s0[Shift(c, i, j, k)][y] /\ t[c][z] = t0[Shift(c, i, j, k)][z]

\* Words added to words drawn are words drawn.
LEMMA ShiftIn ==
    ASSUME NEW c \in Coins, NEW i \in Word, NEW j \in Word, NEW k \in Word
    PROVE  /\ Shift(c, i, j, k) \in Coins
           /\ Shift(c, i, j, k).m = Xor(c.m, i)
           /\ Shift(c, i, j, k).n = Xor(c.n, j)
           /\ Shift(c, i, j, k).r = Xor(c.r, k)
  BY WordAssumption DEF Shift, Coins

\* What is drawn is words.
LEMMA CoinIs ==
    ASSUME NEW c \in Coins
    PROVE  c.m \in Word /\ c.n \in Word /\ c.r \in Word
  BY DEF Coins

\* The shares of the masked words, coin by coin.
LEMMA FirstIs ==
    ASSUME NEW u \in Word
    PROVE  /\ First(u) \in [Coins -> Shares] /\ Without("n", First(u)) /\ Without("r", First(u))
           /\ \A c \in Coins : First(u)[c]["a"] = c.m /\ First(u)[c]["b"] = Xor(c.m, u)
  BY MaskShares, CoinIs DEF First, Without, Coins

LEMMA SecondIs ==
    ASSUME NEW u \in Word
    PROVE  /\ Second(u) \in [Coins -> Shares] /\ Without("r", Second(u))
           /\ \A c \in Coins : Second(u)[c]["a"] = c.n /\ Second(u)[c]["b"] = Xor(c.n, u)
  BY MaskShares, CoinIs DEF Second, Without, Coins

LEMMA AgainIs ==
    ASSUME NEW u \in Word
    PROVE  /\ Again(u) \in [Coins -> Shares] /\ Without("n", Again(u))
           /\ \A c \in Coins : /\ Again(u)[c]["a"] = Xor(c.m, c.r)
                               /\ Again(u)[c]["b"] = Xor(Xor(c.m, u), c.r)
  <1>1. \A c \in Coins : /\ Refresh(Mask(u, c.m), c.r) \in Shares
                         /\ Refresh(Mask(u, c.m), c.r).a = Xor(c.m, c.r)
                         /\ Refresh(Mask(u, c.m), c.r).b = Xor(Xor(c.m, u), c.r)
    BY MaskShares, CoinIs, WordAssumption DEF Refresh, Shares
  <1>2. Without("n", Again(u))
    BY DEF Again, Without, Coins
  <1> QED  BY <1>1, <1>2 DEF Again

\* Adding zero to a coin leaves it alone.
LEMMA ZeroIs == ZERO \in Word /\ \A x \in Word : Xor(x, ZERO) = x
  BY WordAssumption, XorAssumption

\* Sums regrouped.
LEMMA XorSwap ==
    ASSUME NEW x \in Word, NEW y \in Word, NEW z \in Word
    PROVE  /\ Xor(Xor(x, y), z) = Xor(Xor(x, z), y)
           /\ Xor(x, Xor(y, z)) = Xor(Xor(x, y), z)
           /\ Xor(Xor(x, z), Xor(y, z)) = Xor(x, y)
  <1>1. /\ Xor(y, z) = Xor(z, y) /\ Xor(Xor(x, y), z) = Xor(x, Xor(y, z))
        /\ Xor(Xor(x, z), y) = Xor(x, Xor(z, y))
    BY XorAssumption
  <1> QED  BY <1>1, Cancel

\* So their product is seen alike,
LEMMA MulAlike ==
    ASSUME NEW s, NEW t, NEW s0, NEW t0, NEW y, NEW z,
           NEW i \in Word, NEW j \in Word, NEW k \in Word,
           AddsUp(s, t, s0, t0, y, z, i, j, k)
    PROVE  Matched(MulOf(s, t, y, z), MulOf(s0, t0, y, z))
  <1>1. \A c \in Coins : MulOf(s, t, y, z)[c] = MulOf(s0, t0, y, z)[Shift(c, i, j, k)]
    BY ShiftIn DEF MulOf, AddsUp
  <1> QED  BY <1>1, Shifted

\* and each share.
LEMMA ShareAlike ==
    ASSUME NEW s, NEW s0, NEW y, NEW i \in Word, NEW j \in Word, NEW k \in Word,
           AddsUp(s, s, s0, s0, y, y, i, j, k)
    PROVE  Matched(Column(s, y), Column(s0, y))
  <1>1. \A c \in Coins : Column(s, y)[c] = Column(s0, y)[Shift(c, i, j, k)]
    BY ShiftIn DEF Column, AddsUp
  <1> QED  BY <1>1, Shifted

\* A share of each of two masked words: add the word to a mask where the share
\* is the masked one.
LEMMA TwoMasked ==
    ASSUME NEW u \in Word, NEW v \in Word, NEW y \in Side, NEW z \in Side
    PROVE  \E i, j \in Word : AddsUp(First(u), Second(v), First(ZERO), Second(ZERO), y, z, i, j, ZERO)
  <1> DEFINE i == IF y = "a" THEN ZERO ELSE u
             j == IF z = "a" THEN ZERO ELSE v
  <1>1. i \in Word /\ j \in Word
    BY ZeroIs
  <1>2. ASSUME NEW c \in Coins
        PROVE  /\ First(u)[c][y] = First(ZERO)[Shift(c, i, j, ZERO)][y]
               /\ Second(v)[c][z] = Second(ZERO)[Shift(c, i, j, ZERO)][z]
    <2>1. /\ c.m \in Word /\ c.n \in Word
          /\ Shift(c, i, j, ZERO) \in Coins
          /\ Shift(c, i, j, ZERO).m = Xor(c.m, i)
          /\ Shift(c, i, j, ZERO).n = Xor(c.n, j)
      <3> HIDE DEF i, j
      <3> QED  BY <1>1, ZeroIs, CoinIs, ShiftIn
    <2>2. First(u)[c][y] = Xor(c.m, i) /\ Second(v)[c][z] = Xor(c.n, j)
      BY <2>1, FirstIs, SecondIs, ZeroIs DEF Side
    <2>3. \A d \in Coins : First(ZERO)[d][y] = d.m /\ Second(ZERO)[d][z] = d.n
      BY FirstIs, SecondIs, ZeroIs, CoinIs DEF Side
    <2> QED  BY <2>1, <2>2, <2>3
  <1> QED  BY <1>1, <1>2 DEF AddsUp

\* A share of a masked word and one of the same refreshed: the mask hides the one,
\* the word drawn by the refresh what differs in the other.
LEMMA MaskedAgain ==
    ASSUME NEW u \in Word, NEW y \in Side, NEW z \in Side
    PROVE  \E i, k \in Word : AddsUp(First(u), Again(u), First(ZERO), Again(ZERO), y, z, i, ZERO, k)
  <1> DEFINE i == IF y = "a" THEN ZERO ELSE u
             k == IF y = z THEN ZERO ELSE u
  <1>1. i \in Word /\ k \in Word
    BY ZeroIs
  <1>2. ASSUME NEW c \in Coins
        PROVE  /\ First(u)[c][y] = First(ZERO)[Shift(c, i, ZERO, k)][y]
               /\ Again(u)[c][z] = Again(ZERO)[Shift(c, i, ZERO, k)][z]
    <2>1. /\ c.m \in Word /\ c.r \in Word
          /\ Shift(c, i, ZERO, k) \in Coins
          /\ Shift(c, i, ZERO, k).m = Xor(c.m, i)
          /\ Shift(c, i, ZERO, k).r = Xor(c.r, k)
      <3> HIDE DEF i, k
      <3> QED  BY <1>1, ZeroIs, CoinIs, ShiftIn
    <2>2. First(u)[c][y] = Xor(c.m, i)
      BY <2>1, FirstIs, ZeroIs DEF Side
    <2>3. Again(u)[c][z] = Xor(Xor(c.m, i), Xor(c.r, k))
      <3>1. CASE z = "a"
        BY <2>1, <3>1, AgainIs, ZeroIs, XorSwap
      <3>2. CASE z = "b" /\ y = "b"
        BY <2>1, <3>2, AgainIs, ZeroIs
      <3>3. CASE z = "b" /\ y = "a"
        <4>1. Again(u)[c][z] = Xor(Xor(c.m, u), c.r)
          BY <3>3, AgainIs
        <4>2. Xor(Xor(c.m, u), c.r) = Xor(Xor(c.m, c.r), u) /\ Xor(c.m, Xor(c.r, u)) = Xor(Xor(c.m, c.r), u)
          BY <2>1, XorSwap
        <4> QED  BY <2>1, <3>3, <4>1, <4>2, ZeroIs
      <3> QED  BY <3>1, <3>2, <3>3 DEF Side
    <2>4. \A d \in Coins : First(ZERO)[d][y] = d.m /\ Again(ZERO)[d][z] = Xor(d.m, d.r)
      BY FirstIs, AgainIs, ZeroIs, CoinIs DEF Side
    <2> QED  BY <2>1, <2>2, <2>3, <2>4
  <1> QED  BY <1>1, <1>2 DEF AddsUp

-----------------------------------------------------------------------------
(***************************************************************************)
(* The routines, one by one.                                                *)
(***************************************************************************)
\* The values of a routine, coin by coin.
Running(name, u, v) == [c \in Coins |-> Values(name, u, v, c)]

\* Every share of every operand is seen alike.
LEMMA OperandsAlike ==
    ASSUME NEW u \in Word
    PROVE  /\ AlikeShares(First(u), First(ZERO))
           /\ AlikeShares(Second(u), Second(ZERO))
           /\ AlikeShares(Again(u), Again(ZERO))
  <1>0. ZERO \in Word
    BY ZeroIs
  <1>1. ASSUME NEW q \in Side
        PROVE  /\ Matched(Column(First(u), q), Column(First(ZERO), q))
               /\ Matched(Column(Second(u), q), Column(Second(ZERO), q))
    <2>1. PICK i \in Word, j \in Word :
              AddsUp(First(u), Second(u), First(ZERO), Second(ZERO), q, q, i, j, ZERO)
      BY TwoMasked
    <2>2. /\ AddsUp(First(u), First(u), First(ZERO), First(ZERO), q, q, i, j, ZERO)
          /\ AddsUp(Second(u), Second(u), Second(ZERO), Second(ZERO), q, q, i, j, ZERO)
      BY <2>1 DEF AddsUp
    <2> QED  BY <1>0, <2>2, ShareAlike
  <1>2. ASSUME NEW q \in Side
        PROVE  Matched(Column(Again(u), q), Column(Again(ZERO), q))
    <2>1. PICK i \in Word, k \in Word :
              AddsUp(First(u), Again(u), First(ZERO), Again(ZERO), q, q, i, ZERO, k)
      BY MaskedAgain
    <2>2. AddsUp(Again(u), Again(u), Again(ZERO), Again(ZERO), q, q, i, ZERO, k)
      BY <2>1 DEF AddsUp
    <2> QED  BY <1>0, <2>2, ShareAlike
  <1> QED  BY <1>0, <1>1, <1>2, FirstIs, SecondIs, AgainIs DEF AlikeShares

\* A refresh hides its operand.
LEMMA RefreshAlike ==
    ASSUME NEW u \in Word, NEW v \in Word
    PROVE  Alike(Running("refresh", u, v), Running("refresh", ZERO, ZERO), 4)
  <1>1. \A y, z \in Word : Running("refresh", y, z) = Then(Holding(First(y)), Holding(Again(y)))
    BY DEF Running, Values, Then, Holding, First, Again
  <1>2. /\ Alike(Holding(First(u)), Holding(First(ZERO)), 2)
        /\ Alike(Holding(Again(u)), Holding(Again(ZERO)), 2)
    BY OperandsAlike, AlikeHeld
  <1>3. Alike(Then(Holding(First(u)), Holding(Again(u))),
              Then(Holding(First(ZERO)), Holding(Again(ZERO))), 2 + 2)
    BY <1>2, AlikeThen
  <1> QED  BY <1>1, <1>3, ZeroIs

\* The exclusive or of the two operands.
Added(u, v) == [c \in Coins |-> XorGadget(Mask(u, c.m), Mask(v, c.n))]

\* Its shares are seen alike.
LEMMA SumAlike ==
    ASSUME NEW u \in Word, NEW v \in Word
    PROVE  AlikeShares(Added(u, v), Added(ZERO, ZERO))
  <1>1. ASSUME NEW y \in Word, NEW z \in Word
        PROVE  /\ Added(y, z) \in [Coins -> Shares]
               /\ \A c \in Coins, q \in Side :
                    Added(y, z)[c][q] = Xor(First(y)[c][q], Second(z)[c][q])
    <2>1. ASSUME NEW c \in Coins
          PROVE  /\ Mask(y, c.m) \in Shares /\ Mask(z, c.n) \in Shares
                 /\ First(y)[c] = Mask(y, c.m) /\ Second(z)[c] = Mask(z, c.n)
      BY MaskShares, CoinIs DEF First, Second
    <2> QED  BY <2>1, WordAssumption DEF Added, XorGadget, Shares, Side
  <1>2. ASSUME NEW q \in Side
        PROVE  Matched(Column(Added(u, v), q), Column(Added(ZERO, ZERO), q))
    <2>1. PICK i, j \in Word :
              AddsUp(First(u), Second(v), First(ZERO), Second(ZERO), q, q, i, j, ZERO)
      BY TwoMasked
    <2>2. AddsUp(Added(u, v), Added(u, v), Added(ZERO, ZERO), Added(ZERO, ZERO), q, q, i, j, ZERO)
      <3>1. ASSUME NEW c \in Coins
            PROVE  Added(u, v)[c][q] = Added(ZERO, ZERO)[Shift(c, i, j, ZERO)][q]
        <4>1. Shift(c, i, j, ZERO) \in Coins
          BY ZeroIs, ShiftIn
        <4>2. /\ First(u)[c][q] = First(ZERO)[Shift(c, i, j, ZERO)][q]
              /\ Second(v)[c][q] = Second(ZERO)[Shift(c, i, j, ZERO)][q]
          BY <2>1 DEF AddsUp
        <4> QED  BY <1>1, <4>1, <4>2, ZeroIs
      <3> QED  BY <3>1 DEF AddsUp
    <2> QED  BY <2>2, ShareAlike, ZeroIs
  <1> QED  BY <1>1, <1>2, ZeroIs DEF AlikeShares

\* An xor hides its operands.
LEMMA XorAlike ==
    ASSUME NEW u \in Word, NEW v \in Word
    PROVE  Alike(Running("xor", u, v), Running("xor", ZERO, ZERO), 6)
  <1> DEFINE pair(y, z) == Then(Holding(First(y)), Holding(Second(z)))
  <1>1. \A y, z \in Word : Running("xor", y, z) = Then(pair(y, z), Holding(Added(y, z)))
    BY DEF Running, Values, Then, Holding, First, Second, Added
  <1>2. /\ Alike(Holding(First(u)), Holding(First(ZERO)), 2)
        /\ Alike(Holding(Second(v)), Holding(Second(ZERO)), 2)
        /\ Alike(Holding(Added(u, v)), Holding(Added(ZERO, ZERO)), 2)
    BY OperandsAlike, SumAlike, AlikeHeld
  <1>3. Alike(pair(u, v), pair(ZERO, ZERO), 2 + 2)
    BY <1>2, AlikeThen
  <1> HIDE DEF pair
  <1>4. Alike(Then(pair(u, v), Holding(Added(u, v))),
              Then(pair(ZERO, ZERO), Holding(Added(ZERO, ZERO))), 4 + 2)
    BY <1>2, <1>3, AlikeThen
  <1> QED  BY <1>1, <1>4, ZeroIs

\* An operand with its first share inverted.
Inverted(s) == [c \in Coins |-> NotGadget(s[c])]

\* Inverting touches one share, and takes no word drawn.
LEMMA InvertedIs ==
    ASSUME NEW s \in [Coins -> Shares]
    PROVE  /\ Inverted(s) \in [Coins -> Shares]
           /\ \A c \in Coins : Inverted(s)[c]["a"] = Not(s[c]["a"]) /\ Inverted(s)[c]["b"] = s[c]["b"]
           /\ \A x \in {"n", "r"} : Without(x, s) => Without(x, Inverted(s))
  <1>1. \A c \in Coins : s[c] \in Shares /\ NotGadget(s[c]) \in Shares
                         /\ NotGadget(s[c])["a"] = Not(s[c]["a"]) /\ NotGadget(s[c])["b"] = s[c]["b"]
    BY WordAssumption DEF NotGadget, Shares
  <1>2. ASSUME NEW x \in {"n", "r"}, Without(x, s) PROVE Without(x, Inverted(s))
    <2>1. \A c \in Coins, w \in Word : [c EXCEPT ![x] = w] \in Coins
      BY DEF Coins
    <2> QED  BY <1>2, <2>1 DEF Without, Inverted
  <1> QED  BY <1>1, <1>2 DEF Inverted

\* Inverted operands add up as the operands do.
LEMMA InvertedAddsUp ==
    ASSUME NEW s \in [Coins -> Shares], NEW s0 \in [Coins -> Shares],
           NEW t \in [Coins -> Shares], NEW t0 \in [Coins -> Shares],
           NEW y \in Side, NEW z \in Side,
           NEW i \in Word, NEW j \in Word, NEW k \in Word,
           AddsUp(s, t, s0, t0, y, z, i, j, k)
    PROVE  AddsUp(Inverted(s), Inverted(t), Inverted(s0), Inverted(t0), y, z, i, j, k)
  <1> SUFFICES ASSUME NEW c \in Coins
               PROVE  /\ Inverted(s)[c][y] = Inverted(s0)[Shift(c, i, j, k)][y]
                      /\ Inverted(t)[c][z] = Inverted(t0)[Shift(c, i, j, k)][z]
    BY DEF AddsUp
  <1> DEFINE d == Shift(c, i, j, k)
  <1>1. d \in Coins
    BY ShiftIn
  <1>2. s[c][y] = s0[d][y] /\ t[c][z] = t0[d][z]
    BY DEF AddsUp
  <1> HIDE DEF d
  <1>3. Inverted(s)[c][y] = Inverted(s0)[d][y]
    BY <1>1, <1>2, InvertedIs DEF Side
  <1>4. Inverted(t)[c][z] = Inverted(t0)[d][z]
    BY <1>1, <1>2, InvertedIs DEF Side
  <1> QED  BY <1>3, <1>4 DEF d

\* Shares seen alike are so when inverted.
LEMMA InvertedAlike ==
    ASSUME NEW s, NEW t, AlikeShares(s, t)
    PROVE  AlikeShares(Inverted(s), Inverted(t))
  <1>1. /\ s \in [Coins -> Shares] /\ t \in [Coins -> Shares]
        /\ \A q \in Side : Matched(Column(s, q), Column(t, q))
    BY DEF AlikeShares
  <1>2. ASSUME NEW q \in Side
        PROVE  Matched(Column(Inverted(s), q), Column(Inverted(t), q))
    <2>1. PICK f \in Bijection(Coins, Coins) : \A c \in Coins : s[c][q] = t[f[c]][q]
      <3>1. PICK f \in Bijection(Coins, Coins) : \A c \in Coins : Column(s, q)[c] = Column(t, q)[f[c]]
        BY <1>1 DEF Matched
      <3>2. f \in [Coins -> Coins]
        BY Fun_BijectionProperties
      <3> QED  BY <3>1, <3>2 DEF Column
    <2>2. f \in [Coins -> Coins]
      BY Fun_BijectionProperties
    <2>3. \A c \in Coins : Inverted(s)[c][q] = Inverted(t)[f[c]][q]
      BY <1>1, <2>1, <2>2, InvertedIs DEF Side
    <2>4. \A c \in Coins : Column(Inverted(s), q)[c] = Column(Inverted(t), q)[f[c]]
      BY <2>2, <2>3 DEF Column
    <2> QED  BY <2>4 DEF Matched
  <1> QED  BY <1>1, <1>2, InvertedIs DEF AlikeShares

\* A not hides its operand.
LEMMA NotAlike ==
    ASSUME NEW u \in Word, NEW v \in Word
    PROVE  Alike(Running("not", u, v), Running("not", ZERO, ZERO), 4)
  <1>1. \A y, z \in Word : Running("not", y, z) = Then(Holding(First(y)), Holding(Inverted(First(y))))
    BY DEF Running, Values, Then, Holding, First, Inverted
  <1>2. /\ Alike(Holding(First(u)), Holding(First(ZERO)), 2)
        /\ Alike(Holding(Inverted(First(u))), Holding(Inverted(First(ZERO))), 2)
    BY OperandsAlike, InvertedAlike, AlikeHeld
  <1>3. Alike(Then(Holding(First(u)), Holding(Inverted(First(u)))),
              Then(Holding(First(ZERO)), Holding(Inverted(First(ZERO)))), 2 + 2)
    BY <1>2, AlikeThen
  <1> QED  BY <1>1, <1>3, ZeroIs

\* The products of the shares, of the operands and of what the routines make of them.
LEMMA ProductsAlike ==
    ASSUME NEW u \in Word, NEW v \in Word, NEW y \in Side, NEW z \in Side
    PROVE  /\ Matched(MulOf(First(u), Second(v), y, z), MulOf(First(ZERO), Second(ZERO), y, z))
           /\ Matched(MulOf(First(u), Again(u), y, z), MulOf(First(ZERO), Again(ZERO), y, z))
           /\ Matched(MulOf(Inverted(First(u)), Inverted(Second(v)), y, z),
                      MulOf(Inverted(First(ZERO)), Inverted(Second(ZERO)), y, z))
  <1>0. ZERO \in Word
    BY ZeroIs
  <1>1. PICK i, j \in Word : AddsUp(First(u), Second(v), First(ZERO), Second(ZERO), y, z, i, j, ZERO)
    BY TwoMasked
  <1>2. PICK h, k \in Word : AddsUp(First(u), Again(u), First(ZERO), Again(ZERO), y, z, h, ZERO, k)
    BY MaskedAgain
  <1>3. AddsUp(Inverted(First(u)), Inverted(Second(v)), Inverted(First(ZERO)), Inverted(Second(ZERO)),
               y, z, i, j, ZERO)
    BY <1>0, <1>1, InvertedAddsUp, FirstIs, SecondIs
  <1> QED  BY <1>0, <1>1, <1>2, <1>3, MulAlike

\* An and hides its operands.
LEMMA AndAlike ==
    ASSUME NEW u \in Word, NEW v \in Word
    PROVE  Alike(Running("and", u, v), Running("and", ZERO, ZERO), 12)
  <1> DEFINE pair(y, z) == Then(Holding(First(y)), Holding(Second(z)))
             ands(y, z) == Anding(First(y), Second(z), "r")
  <1>0. ZERO \in Word
    BY ZeroIs
  <1>1. \A y, z \in Word : Running("and", y, z) = Then(pair(y, z), ands(y, z))
    BY DEF Running, Values, Then, Holding, First, Second, Anding
  <1>2. Alike(ands(u, v), ands(ZERO, ZERO), 8)
    <2>1. /\ First(u) \in [Coins -> Shares] /\ First(ZERO) \in [Coins -> Shares]
          /\ Second(v) \in [Coins -> Shares] /\ Second(ZERO) \in [Coins -> Shares]
          /\ Without("r", First(u)) /\ Without("r", First(ZERO))
          /\ Without("r", Second(v)) /\ Without("r", Second(ZERO))
      BY <1>0, FirstIs, SecondIs
    <2>2. \A y, z \in Side :
              Matched(MulOf(First(u), Second(v), y, z), MulOf(First(ZERO), Second(ZERO), y, z))
      BY ProductsAlike
    <2> QED  BY <2>1, <2>2, AlikeAnd
  <1>3. /\ Alike(Holding(First(u)), Holding(First(ZERO)), 2)
        /\ Alike(Holding(Second(v)), Holding(Second(ZERO)), 2)
    BY OperandsAlike, AlikeHeld
  <1>4. Alike(pair(u, v), pair(ZERO, ZERO), 2 + 2)
    BY <1>3, AlikeThen
  <1> HIDE DEF pair, ands
  <1>5. Alike(Then(pair(u, v), ands(u, v)), Then(pair(ZERO, ZERO), ands(ZERO, ZERO)), 4 + 8)
    BY <1>2, <1>4, AlikeThen
  <1> QED  BY <1>0, <1>1, <1>5

\* An and of a value with itself, refreshed in between, hides it.
LEMMA AndItselfAlike ==
    ASSUME NEW u \in Word, NEW v \in Word
    PROVE  Alike(Running("andItself", u, v), Running("andItself", ZERO, ZERO), 10)
  <1> DEFINE ands(y) == Anding(First(y), Again(y), "n")
  <1>0. ZERO \in Word
    BY ZeroIs
  <1>1. \A y, z \in Word : Running("andItself", y, z) = Then(Holding(Again(y)), ands(y))
    BY DEF Running, Values, Then, Holding, First, Again, Anding
  <1>2. Alike(ands(u), ands(ZERO), 8)
    <2>1. /\ First(u) \in [Coins -> Shares] /\ First(ZERO) \in [Coins -> Shares]
          /\ Again(u) \in [Coins -> Shares] /\ Again(ZERO) \in [Coins -> Shares]
          /\ Without("n", First(u)) /\ Without("n", First(ZERO))
          /\ Without("n", Again(u)) /\ Without("n", Again(ZERO))
      BY <1>0, FirstIs, AgainIs
    <2>2. \A y, z \in Side :
              Matched(MulOf(First(u), Again(u), y, z), MulOf(First(ZERO), Again(ZERO), y, z))
      BY ProductsAlike
    <2> QED  BY <2>1, <2>2, AlikeAnd
  <1>3. Alike(Holding(Again(u)), Holding(Again(ZERO)), 2)
    BY OperandsAlike, AlikeHeld
  <1> HIDE DEF ands
  <1>4. Alike(Then(Holding(Again(u)), ands(u)), Then(Holding(Again(ZERO)), ands(ZERO)), 2 + 8)
    BY <1>2, <1>3, AlikeThen
  <1> QED  BY <1>0, <1>1, <1>4

\* The entries of a sequence of words are words.
LEMMA EntryOfSeq ==
    ASSUME NEW q \in Seq(Word), NEW i \in 1 .. Len(q)
    PROVE  q[i] \in Word
  OBVIOUS

\* The shares an and returns, the second and the last of its values.
AndOut(s, t, x) == [c \in Coins |-> AndGadget(s[c], t[c], c[x])]

\* They are seen alike, as values of the and.
LEMMA AndOutAlike ==
    ASSUME NEW s, NEW t, NEW s0, NEW t0, NEW x,
           Alike(Anding(s, t, x), Anding(s0, t0, x), 8)
    PROVE  AlikeShares(AndOut(s, t, x), AndOut(s0, t0, x))
  <1>1. ASSUME NEW y, NEW z, Anding(y, z, x) \in [Coins -> Seq(Word)],
               \A c \in Coins : Len(Anding(y, z, x)[c]) = 8
        PROVE  /\ AndOut(y, z, x) \in [Coins -> Shares]
               /\ \A c \in Coins : /\ AndOut(y, z, x)[c]["a"] = Anding(y, z, x)[c][2]
                                   /\ AndOut(y, z, x)[c]["b"] = Anding(y, z, x)[c][8]
    <2>1. ASSUME NEW c \in Coins
          PROVE  /\ AndGadget(y[c], z[c], c[x]) \in Shares
                 /\ AndGadget(y[c], z[c], c[x])["a"] = Anding(y, z, x)[c][2]
                 /\ AndGadget(y[c], z[c], c[x])["b"] = Anding(y, z, x)[c][8]
      <3> DEFINE q == Anding(y, z, x)[c]
      <3>1. q \in Seq(Word) /\ Len(q) = 8
        BY <1>1
      <3>2. q = AndValues(y[c], z[c], c[x])
        BY DEF Anding
      <3>3. AndGadget(y[c], z[c], c[x]) = [a |-> q[2], b |-> q[8]]
        BY <3>2 DEF AndGadget
      <3> HIDE DEF q
      <3>4. q[2] \in Word /\ q[8] \in Word
        <4>1. 2 \in 1 .. Len(q) /\ 8 \in 1 .. Len(q)
          BY <3>1
        <4>2. \A i \in 1 .. Len(q) : q[i] \in Word
          BY <3>1, EntryOfSeq
        <4> QED  BY <4>1, <4>2
      <3> QED  BY <3>3, <3>4 DEF Shares, q
    <2> QED  BY <2>1 DEF AndOut
  <1>2. /\ Anding(s, t, x) \in [Coins -> Seq(Word)] /\ Anding(s0, t0, x) \in [Coins -> Seq(Word)]
        /\ \A c \in Coins : Len(Anding(s, t, x)[c]) = 8 /\ Len(Anding(s0, t0, x)[c]) = 8
        /\ \A p \in 1 .. 8 : Matched(Column(Anding(s, t, x), p), Column(Anding(s0, t0, x), p))
    BY DEF Alike
  <1>3. Matched(Column(AndOut(s, t, x), "a"), Column(AndOut(s0, t0, x), "a"))
    <2>1. \A c \in Coins : /\ Column(AndOut(s, t, x), "a")[c] = Column(Anding(s, t, x), 2)[c]
                           /\ Column(AndOut(s0, t0, x), "a")[c] = Column(Anding(s0, t0, x), 2)[c]
      BY <1>1, <1>2 DEF Column
    <2> QED  BY <1>2, <2>1, MatchedSame
  <1>4. Matched(Column(AndOut(s, t, x), "b"), Column(AndOut(s0, t0, x), "b"))
    <2>1. \A c \in Coins : /\ Column(AndOut(s, t, x), "b")[c] = Column(Anding(s, t, x), 8)[c]
                           /\ Column(AndOut(s0, t0, x), "b")[c] = Column(Anding(s0, t0, x), 8)[c]
      BY <1>1, <1>2 DEF Column
    <2> QED  BY <1>2, <2>1, MatchedSame
  <1> QED  BY <1>1, <1>2, <1>3, <1>4 DEF AlikeShares, Side

\* An or, by way of the and of the inverted operands, hides them.
LEMMA OrAlike ==
    ASSUME NEW u \in Word, NEW v \in Word
    PROVE  Alike(Running("or", u, v), Running("or", ZERO, ZERO), 10)
  <1> DEFINE fst(y) == Inverted(First(y))
             snd(z) == Inverted(Second(z))
             ands(y, z) == Anding(fst(y), snd(z), "r")
             out(y, z) == AndOut(fst(y), snd(z), "r")
  <1>0. ZERO \in Word
    BY ZeroIs
  <1>1. \A y, z \in Word :
            Running("or", y, z) = Then(ands(y, z), Holding(Inverted(out(y, z))))
    BY DEF Running, Values, Then, Holding, First, Second, Anding, AndOut, Inverted, OrGadget
  <1>2. Alike(ands(u, v), ands(ZERO, ZERO), 8)
    <2>1. \A y \in Word : /\ fst(y) \in [Coins -> Shares] /\ snd(y) \in [Coins -> Shares]
                          /\ Without("r", fst(y)) /\ Without("r", snd(y))
      BY FirstIs, SecondIs, InvertedIs
    <2>2. \A y, z \in Side : Matched(MulOf(fst(u), snd(v), y, z), MulOf(fst(ZERO), snd(ZERO), y, z))
      BY ProductsAlike
    <2> HIDE DEF fst, snd
    <2> QED  BY <1>0, <2>1, <2>2, AlikeAnd
  <1>3. Alike(Holding(Inverted(out(u, v))), Holding(Inverted(out(ZERO, ZERO))), 2)
    <2> HIDE DEF fst, snd
    <2>1. AlikeShares(out(u, v), out(ZERO, ZERO))
      BY <1>2, AndOutAlike
    <2> QED  BY <2>1, InvertedAlike, AlikeHeld
  <1> HIDE DEF ands, out
  <1>4. Alike(Then(ands(u, v), Holding(Inverted(out(u, v)))),
              Then(ands(ZERO, ZERO), Holding(Inverted(out(ZERO, ZERO)))), 8 + 2)
    BY <1>2, <1>3, AlikeThen
  <1> QED  BY <1>0, <1>1, <1>4

\* The values of a conversion.
Converting(u) == [c \in Coins |-> ConversionValues(Mask(u, c.m).b, Mask(u, c.m).a, c.r)]

\* Subtracting twice from the same word undoes itself.
LEMMA SubBack ==
    ASSUME NEW x \in Word, NEW y \in Word
    PROVE  Sub(x, y) \in Word /\ Sub(x, Sub(x, y)) = y
  <1> DEFINE d == Sub(x, y)
  <1>1. d \in Word /\ Sub(x, d) \in Word
    BY WordAssumption
  <1>2. Add(d, y) = x /\ Add(d, y) = Add(y, d)
    BY <1>1, SubAssumption
  <1>3. Sub(Add(y, d), d) = y
    BY <1>1, SubAssumption
  <1> QED  BY <1>1, <1>2, <1>3

\* What they come to: once the mask of the word falls away, the later ones are
\* differences of the word and of a mask.
LEMMA ConvertingIs ==
    ASSUME NEW u \in Word
    PROVE  /\ Converting(u) \in [Coins -> Seq(Word)]
           /\ \A c \in Coins :
                LET x == Xor(c.m, u)
                    t == Sub(Xor(x, c.r), c.r)
                    k == Xor(c.r, c.m)
                IN  /\ Len(Converting(u)[c]) = 7
                    /\ Converting(u)[c][1] = Xor(x, c.r)
                    /\ Converting(u)[c][2] = t
                    /\ Converting(u)[c][3] = Xor(t, x)
                    /\ Converting(u)[c][4] = k
                    /\ Converting(u)[c][5] = Xor(u, c.r)
                    /\ Converting(u)[c][6] = Sub(Xor(u, c.r), k)
                    /\ Converting(u)[c][7] = Sub(u, c.m)
  <1> SUFFICES ASSUME NEW c \in Coins
      PROVE  LET x == Xor(c.m, u)
                 t == Sub(Xor(x, c.r), c.r)
                 k == Xor(c.r, c.m)
                 q == ConversionValues(Mask(u, c.m).b, Mask(u, c.m).a, c.r)
             IN  /\ q \in Seq(Word) /\ Len(q) = 7
                 /\ q[1] = Xor(x, c.r) /\ q[2] = t /\ q[3] = Xor(t, x) /\ q[4] = k
                 /\ q[5] = Xor(u, c.r) /\ q[6] = Sub(Xor(u, c.r), k) /\ q[7] = Sub(u, c.m)
    BY DEF Converting
  <1> DEFINE m == c.m
             r == c.r
             x == Xor(m, u)
             t == Sub(Xor(x, r), r)
             k == Xor(r, m)
             a == Sub(Xor(x, k), k)
             q == ConversionValues(x, m, r)
  <1>1. m \in Word /\ r \in Word /\ x \in Word
    BY CoinIs, WordAssumption
  <1>2. t \in Word /\ k \in Word /\ a \in Word
    BY <1>1, WordAssumption
  <1>3. Xor(x, k) = Xor(u, r)
    <2> HIDE DEF m, r
    <2>1. Xor(m, u) = Xor(u, m) /\ Xor(Xor(u, m), Xor(r, m)) = Xor(u, r)
      BY <1>1, XorAssumption, XorSwap
    <2> QED  BY <2>1
  <1>4. q[7] = Sub(u, m)
    <2>1. q[7] = Sub(Xor(x, m), m)
      BY <1>1, ConversionIsSub DEF BooleanToArithmetic
    <2>2. Xor(Xor(m, u), m) = u
      BY <1>1, XorAssumption, XorSwap, XorBack
    <2> QED  BY <2>1, <2>2
  <1>5. q = <<Xor(x, r), t, Xor(t, x), k, Xor(x, k), a, Xor(a, Xor(t, x))>>
    BY DEF ConversionValues
  <1>6. Mask(u, c.m).b = x /\ Mask(u, c.m).a = m
    BY CoinIs, MaskShares
  <1>7. Xor(x, r) \in Word /\ Xor(t, x) \in Word /\ Xor(x, k) \in Word /\ Xor(a, Xor(t, x)) \in Word
    BY <1>1, <1>2, WordAssumption
  <1> DEFINE o == Xor(t, x)
             l == Xor(a, o)
             f == Xor(x, r)
             e == Xor(x, k)
  <1>8. /\ q \in Seq(Word) /\ Len(q) = 7
        /\ q[1] = f /\ q[2] = t /\ q[3] = o /\ q[4] = k /\ q[5] = e /\ q[6] = a
    <2>1. q = <<f, t, o, k, e, a, l>> /\ f \in Word /\ o \in Word /\ e \in Word /\ l \in Word
      BY <1>5, <1>7
    <2> HIDE DEF q, f, t, o, k, e, a, l
    <2> QED  BY <1>2, <2>1
  <1> QED  BY <1>3, <1>4, <1>6, <1>8

\* What a conversion's values are, for the word u and the words drawn c.
Converted(q, u, c) ==
    /\ q[1] = Xor(Xor(c.m, u), c.r)
    /\ q[2] = Sub(Xor(Xor(c.m, u), c.r), c.r)
    /\ q[3] = Xor(Sub(Xor(Xor(c.m, u), c.r), c.r), Xor(c.m, u))
    /\ q[4] = Xor(c.r, c.m)
    /\ q[5] = Xor(u, c.r)
    /\ q[6] = Sub(Xor(u, c.r), Xor(c.r, c.m))
    /\ q[7] = Sub(u, c.m)

\* The same for a word and for zero.
LEMMA ConvertingAt ==
    \A c \in Coins :
        /\ \A u \in Word : Converted(Converting(u)[c], u, c)
        /\ Converted(Converting(ZERO)[c], ZERO, c)
  BY ConvertingIs, ZeroIs DEF Converted

\* A conversion hides its operand: the first three values under the mask of the
\* word, the next under the other mask, the last two as differences.
LEMMA ConvertAlike ==
    ASSUME NEW u \in Word, NEW v \in Word
    PROVE  Alike(Running("convert", u, v), Running("convert", ZERO, ZERO), 8)
  <1> DEFINE gamma == [c \in Coins |-> <<c.r>>]
             f == Converting(u)
             g == Converting(ZERO)
  <1>0. ZERO \in Word
    BY ZeroIs
  <1>1. \A y, z \in Word : Running("convert", y, z) = Then(gamma, Converting(y))
    BY DEF Running, Values, Then, Converting
  <1>2. Alike(gamma, gamma, 1)
    <2>1. gamma \in [Coins -> Seq(Word)] /\ \A c \in Coins : Len(gamma[c]) = 1 /\ gamma[c][1] = c.r
      BY CoinIs
    <2> HIDE DEF gamma
    <2>2. \A c \in Coins : Column(gamma, 1)[c] = Column(gamma, 1)[Shift(c, ZERO, ZERO, ZERO)]
      BY <1>0, <2>1, ShiftIn, CoinIs, ZeroIs DEF Column
    <2> QED  BY <1>0, <2>1, <2>2, Shifted DEF Alike
  <1>3. ASSUME NEW p \in 1 .. 7 PROVE Matched(Column(f, p), Column(g, p))
    <2> HIDE DEF f, g
    <2>1. ASSUME NEW i \in Word, NEW k \in Word,
                 \A c \in Coins, d \in Coins :
                     d.m = Xor(c.m, i) /\ d.r = Xor(c.r, k) => f[c][p] = g[d][p]
          PROVE  Matched(Column(f, p), Column(g, p))
      <3>1. ASSUME NEW c \in Coins PROVE Column(f, p)[c] = Column(g, p)[Shift(c, i, ZERO, k)]
        <4> DEFINE d == Shift(c, i, ZERO, k)
        <4>1. d \in Coins /\ d.m = Xor(c.m, i) /\ d.r = Xor(c.r, k)
          BY <1>0, ShiftIn
        <4> HIDE DEF d
        <4>2. f[c][p] = g[d][p]
          BY <2>1, <4>1
        <4> QED  BY <4>1, <4>2 DEF Column, d
      <3> QED  BY <1>0, <3>1, Shifted
    <2>2. CASE p \in {1, 2, 3}
      <3>1. ASSUME NEW c \in Coins, NEW d \in Coins, d.m = Xor(c.m, u), d.r = Xor(c.r, ZERO)
            PROVE  f[c][p] = g[d][p]
        <4>1. d.r = c.r /\ Xor(d.m, ZERO) = Xor(c.m, u)
          BY <3>1, CoinIs, ZeroIs
        <4> QED  BY <2>2, <4>1, ConvertingAt DEF f, g, Converted
      <3> QED  BY <1>0, <2>1, <3>1
    <2>3. CASE p \in {5, 6}
      <3>1. ASSUME NEW c \in Coins, NEW d \in Coins, d.m = Xor(c.m, u), d.r = Xor(c.r, u)
            PROVE  f[c][p] = g[d][p]
        <4>1. c.m \in Word /\ c.r \in Word /\ d.r \in Word
          BY CoinIs
        <4>2. Xor(ZERO, d.r) = Xor(u, c.r)
          BY <1>0, <3>1, <4>1, ZeroIs, XorAssumption
        <4>3. Xor(d.r, d.m) = Xor(c.r, c.m)
          BY <3>1, <4>1, XorSwap
        <4> QED  BY <2>3, <4>2, <4>3, ConvertingAt DEF f, g, Converted
      <3> QED  BY <1>0, <2>1, <3>1
    <2>5. CASE p = 4
      <3>1. ASSUME NEW c \in Coins, NEW d \in Coins, d.m = Xor(c.m, ZERO), d.r = Xor(c.r, ZERO)
            PROVE  f[c][p] = g[d][p]
        <4>1. d.r = c.r /\ d.m = c.m
          BY <3>1, CoinIs, ZeroIs
        <4> QED  BY <2>5, <4>1, ConvertingAt DEF f, g, Converted
      <3> QED  BY <1>0, <2>1, <3>1
    <2>4. CASE p = 7
      <3> DEFINE to(c) == [m |-> Sub(ZERO, Sub(u, c.m)), n |-> c.n, r |-> c.r]
                 from(c) == [m |-> Sub(u, Sub(ZERO, c.m)), n |-> c.n, r |-> c.r]
                 there == [c \in Coins |-> to(c)]
                 back == [c \in Coins |-> from(c)]
      <3>1. ASSUME NEW c \in Coins
            PROVE  /\ to(c) \in Coins /\ from(c) \in Coins
                   /\ from(to(c)) = c /\ to(from(c)) = c
                   /\ Sub(ZERO, to(c).m) = Sub(u, c.m)
        <4>1. c.m \in Word /\ c.n \in Word /\ c.r \in Word /\ Sub(u, c.m) \in Word /\ Sub(ZERO, c.m) \in Word
          BY <1>0, CoinIs, WordAssumption
        <4>2. /\ Sub(ZERO, Sub(ZERO, Sub(u, c.m))) = Sub(u, c.m)
              /\ Sub(u, Sub(u, Sub(ZERO, c.m))) = Sub(ZERO, c.m)
              /\ Sub(u, Sub(u, c.m)) = c.m /\ Sub(ZERO, Sub(ZERO, c.m)) = c.m
              /\ Sub(ZERO, Sub(u, c.m)) \in Word /\ Sub(u, Sub(ZERO, c.m)) \in Word
          BY <1>0, <4>1, SubBack
        <4> QED  BY <4>1, <4>2 DEF Coins
      <3>2. ASSUME NEW c \in Coins PROVE Column(f, p)[c] = Column(g, p)[to(c)]
        <4> DEFINE d == to(c)
        <4>1. d \in Coins /\ Sub(ZERO, d.m) = Sub(u, c.m)
          BY <3>1
        <4> HIDE DEF d
        <4>2. f[c][p] = g[d][p]
          BY <2>4, <4>1, ConvertingAt DEF f, g, Converted
        <4>3. Column(f, p)[c] = Column(g, p)[d]
          BY <4>1, <4>2 DEF Column
        <4> QED  BY <4>3 DEF d
      <3> HIDE DEF to, from
      <3>3. /\ there \in [Coins -> Coins] /\ back \in [Coins -> Coins]
            /\ \A c \in Coins : /\ Column(f, p)[c] = Column(g, p)[there[c]]
                                /\ back[there[c]] = c /\ there[back[c]] = c
        BY <3>1, <3>2
      <3> HIDE DEF there, back
      <3> QED  BY <3>3, Exchanged
    <2> QED  BY <2>2, <2>3, <2>4, <2>5
  <1>4. Alike(f, g, 7)
    BY <1>0, <1>3, ConvertingIs DEF Alike
  <1> HIDE DEF gamma
  <1>5. Alike(Then(gamma, Converting(u)), Then(gamma, Converting(ZERO)), 1 + 7)
    BY <1>2, <1>4, AlikeThen
  <1> QED  BY <1>0, <1>1, <1>5

-----------------------------------------------------------------------------
\* The routines Probing knows.
Routines == {"refresh", "xor", "not", "and", "or", "andItself", "convert"}

\* How many values each routine computes.
Size(name) ==
    CASE name = "refresh"   -> 4
      [] name = "xor"       -> 6
      [] name = "not"       -> 4
      [] name = "and"       -> 12
      [] name = "or"        -> 10
      [] name = "andItself" -> 10
      [] name = "convert"   -> 8

\* Every routine computes values seen alike.
LEMMA RunningAlike ==
    ASSUME NEW name \in Routines, NEW u \in Word, NEW v \in Word
    PROVE  Alike(Running(name, u, v), Running(name, ZERO, ZERO), Size(name))
  <1>1. CASE name = "refresh"
    BY <1>1, RefreshAlike DEF Size
  <1>2. CASE name = "xor"
    BY <1>2, XorAlike DEF Size
  <1>3. CASE name = "not"
    BY <1>3, NotAlike DEF Size
  <1>4. CASE name = "and"
    BY <1>4, AndAlike DEF Size
  <1>5. CASE name = "or"
    BY <1>5, OrAlike DEF Size
  <1>6. CASE name = "andItself"
    BY <1>6, AndItselfAlike DEF Size
  <1>7. CASE name = "convert"
    BY <1>7, ConvertAlike DEF Size
  <1> QED  BY <1>1, <1>2, <1>3, <1>4, <1>5, <1>6, <1>7 DEF Routines

\* Some coin is drawn, and as many values computed as the routine has.
LEMMA SizeIsLen ==
    ASSUME NEW name \in Routines, NEW u \in Word, NEW v \in Word
    PROVE  Len(Values(name, u, v, CHOOSE c \in Coins : TRUE)) = Size(name)
  <1> DEFINE drawn == CHOOSE c \in Coins : TRUE
  <1>1. [m |-> ZERO, n |-> ZERO, r |-> ZERO] \in Coins
    BY ZeroIs DEF Coins
  <1>2. drawn \in Coins
    BY <1>1
  <1> HIDE DEF drawn
  <1>3. Running(name, u, v)[drawn] = Values(name, u, v, drawn)
    BY <1>2 DEF Running
  <1>4. Len(Running(name, u, v)[drawn]) = Size(name)
    BY <1>2, RunningAlike DEF Alike
  <1> QED  BY <1>3, <1>4 DEF drawn

\* The probe is on a value of one of the routines.
ProbeInv ==
    /\ routine \in Routines
    /\ secret \in Word /\ other \in Word
    /\ probe \in 1 .. Size(routine)

\* Every state of the probe is on a value the routine computes.
LEMMA ProbeInvHolds == ProbeSpec => []ProbeInv
  <1>1. \A name \in Routines : Size(name) \in Nat \ {0}
    BY DEF Routines, Size
  <1>2. ProbeInit => ProbeInv
    BY <1>1, RoutineAssumption DEF ProbeInit, ProbeInv, Routines
  <1>3. ProbeInv /\ [ProbeNext]_probeVars => ProbeInv'
    <2> SUFFICES ASSUME ProbeInv, [ProbeNext]_probeVars PROVE ProbeInv'
      OBVIOUS
    <2>1. CASE UNCHANGED probeVars
      BY <2>1 DEF ProbeInv, probeVars
    <2>2. CASE MoveOn
      <3>1. Len(Values(routine, secret, other, CHOOSE c \in Coins : TRUE)) = Size(routine)
        BY SizeIsLen DEF ProbeInv
      <3>2. probe < Size(routine) /\ probe' = probe + 1
        BY <2>2, <3>1 DEF MoveOn
      <3> QED  BY <1>1, <2>2, <3>2 DEF ProbeInv, MoveOn
    <2> QED  BY <2>1, <2>2 DEF ProbeNext
  <1> QED  BY <1>2, <1>3, PTL DEF ProbeSpec

\* There it sees what it would see if the words were zero.
LEMMA ProbeInvShows == ProbeInv => OneProbeSeesNothing
  <1> SUFFICES ASSUME ProbeInv PROVE Seen(secret, other) = Seen(ZERO, ZERO)
    BY DEF OneProbeSeesNothing
  <1>1. \A u, v \in Word : Seen(u, v) = Counts(Column(Running(routine, u, v), probe))
    BY DEF Seen, Counts, Column, Running
  <1>2. Matched(Column(Running(routine, secret, other), probe),
                Column(Running(routine, ZERO, ZERO), probe))
    BY RunningAlike DEF ProbeInv, Alike
  <1> QED  BY <1>1, <1>2, MatchedCounts, ZeroIs DEF ProbeInv

(***************************************************************************)
(* Wherever one probe sits in refresh, xor, not, and, or, an and of a value *)
(* with itself refreshed, or the conversion, it sees each word as often as  *)
(* it would if the secrets were zero.                                       *)
(***************************************************************************)
THEOREM ProbeSeesNothing == ProbeSpec => []OneProbeSeesNothing
  <1> QED  BY ProbeInvHolds, ProbeInvShows, PTL
=============================================================================
