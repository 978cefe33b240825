------------------------- MODULE StackProbe_proofs -------------------------
(***************************************************************************)
(* What the watermark and the script's total say, for every binary and     *)
(* every size of the stack, of the window and of the margin; and that the  *)
(* script finds the heaviest path of every graph.                          *)
(***************************************************************************)
EXTENDS StackProbe, StackPaths, FiniteSetTheorems, TLAPS

\* Its lemmas about numbers and their totals, which name no parameter set.
LOCAL W == INSTANCE Winternitz_proofs WITH N <- 1, I_LEN <- 0, Lmots <- <<>>, Lms <- <<>>

LEMMA AnyParameters == W!TableAssumption /\ W!ChecksumAssumption /\ W!OneBlockAssumption
  BY DEF W!TableAssumption, W!ChecksumAssumption, W!OneBlockAssumption, W!Compressions, W!LinkLen

\* A set of numbers has a least one.
LEMMA LeastOfNumbers ==
    ASSUME NEW S \in SUBSET Nat, S # {}
    PROVE  \E u \in S : \A v \in S : u <= v
  BY W!LeastOfNumbers, AnyParameters, Zenon

\* A set of numbers that has 0, and the successor of each, has them all.
LEMMA Induction ==
    ASSUME NEW S \in SUBSET Nat, 0 \in S, \A n \in S : n + 1 \in S
    PROVE  \A n \in Nat : n \in S
  BY W!Induction, AnyParameters, Zenon

\* The totals of Sums.
LEMMA SameTotal == \A a, n : W!Total(a, n) = Total(a, n)
  BY DEF Total, W!Total

LEMMA TotalStep ==
    ASSUME NEW a
    PROVE  Total(a, 0) = 0 /\ \A n \in Nat : Total(a, n + 1) = Total(a, n) + a[n]
  BY SameTotal, W!TotalStep, AnyParameters

LEMMA TotalMono ==
    ASSUME NEW a, NEW b, NEW n \in Nat,
           \A m \in 0 .. n - 1 : a[m] \in Nat /\ b[m] \in Nat /\ a[m] <= b[m]
    PROVE  Total(a, n) \in Nat /\ Total(b, n) \in Nat /\ Total(a, n) <= Total(b, n)
  BY SameTotal, W!TotalMono, AnyParameters

LEMMA TotalSame ==
    ASSUME NEW a, NEW b, NEW n \in Nat, \A m \in 0 .. n - 1 : a[m] = b[m]
    PROVE  Total(a, n) = Total(b, n)
  BY SameTotal, W!TotalSame, AnyParameters

\* A total is its first term and the total of the others.
LEMMA TotalShift ==
    ASSUME NEW a, NEW b, NEW n \in Nat, b[0] \in Nat,
           \A m \in 0 .. n - 1 : a[m] \in Nat /\ b[m + 1] = a[m]
    PROVE  Total(b, n + 1) = b[0] + Total(a, n)
  <1> DEFINE S == {m \in Nat : m <= n => Total(a, m) \in Nat /\ Total(b, m + 1) = b[0] + Total(a, m)}
  <1>1. 0 \in S
    <2>1. Total(b, 0 + 1) = Total(b, 0) + b[0] /\ Total(b, 0) = 0 /\ Total(a, 0) = 0
      BY TotalStep
    <2> QED  BY <2>1
  <1>2. ASSUME NEW m \in S PROVE m + 1 \in S
    <2> SUFFICES ASSUME m + 1 <= n
                 PROVE  /\ Total(a, m + 1) \in Nat
                        /\ Total(b, (m + 1) + 1) = b[0] + Total(a, m + 1)
      OBVIOUS
    <2>1. Total(a, m + 1) = Total(a, m) + a[m]
          /\ Total(b, (m + 1) + 1) = Total(b, m + 1) + b[m + 1]
      <3>1. m \in Nat /\ m + 1 \in Nat
        OBVIOUS
      <3> QED  BY <3>1, TotalStep
    <2>2. a[m] \in Nat /\ b[m + 1] = a[m]
      OBVIOUS
    <2>3. Total(a, m) \in Nat /\ Total(b, m + 1) = b[0] + Total(a, m)
      OBVIOUS
    <2> QED  BY <2>1, <2>2, <2>3
  <1> HIDE DEF S
  <1>3. \A m \in Nat : m \in S
    <2>1. S \in SUBSET Nat
      BY DEF S
    <2> QED  BY <1>1, <1>2, <2>1, Induction
  <1> QED  BY <1>3 DEF S

\* A set of numbers up to n has a largest one: the least of its upper bounds.
LEMMA LargestIsAbove ==
    ASSUME NEW n \in Nat, NEW S \in SUBSET (0 .. n)
    PROVE  /\ Largest(S) \in Nat
           /\ S # {} => Largest(S) \in S
           /\ \A m \in S : m <= Largest(S)
  <1>1. CASE S = {}
    BY <1>1 DEF Largest
  <1>2. CASE S # {}
    <2> DEFINE above == {u \in Nat : \A m \in S : m <= u}
    <2>1. PICK u \in above : \A v \in above : u <= v
      <3>1. above \subseteq Nat /\ n \in above
        OBVIOUS
      <3> HIDE DEF above
      <3> QED  BY <3>1, LeastOfNumbers
    <2>2. u \in S
      <3> SUFFICES ASSUME u \notin S PROVE FALSE
        OBVIOUS
      <3>1. PICK m \in S : TRUE
        BY <1>2
      <3>2. u - 1 \in above
        BY <3>1
      <3> QED  BY <2>1, <3>2
    <2>3. \E v \in S : \A m \in S : m <= v
      BY <2>2
    <2>4. Largest(S) \in S /\ \A m \in S : m <= Largest(S)
      BY <1>2, <2>3, Zenon DEF Largest
    <2>5. S \subseteq Nat
      OBVIOUS
    <2>6. Largest(S) \in Nat
      BY <2>4, <2>5, Zenon
    <2> QED  BY <2>4, <2>6
  <1> QED  BY <1>1, <1>2

LEMMA FramesType ==
    ASSUME IsBinary(bin), NEW f \in Fn
    PROVE  /\ Frames(f) \in Nat
           /\ \A m \in bin.listed[f] : m <= Frames(f)
           /\ Edges(f) \subseteq Fn
  <1>1. bin.listed[f] \in SUBSET (0 .. bin.frame[f]) /\ bin.frame[f] \in Nat
    BY DEF IsBinary
  <1>2. Edges(f) \subseteq Fn
    BY DEF Edges, IsBinary
  <1> QED  BY <1>1, <1>2, LargestIsAbove DEF Frames

\* What is read of the binary is what was read of it before.
LEMMA SameBinary ==
    ASSUME bin' = bin
    PROVE  /\ \A f : Frames(f)' = Frames(f) /\ Edges(f)' = Edges(f)
           /\ IsBinary(bin)' <=> IsBinary(bin)
  BY DEF Frames, Edges, IsBinary
\* The walk in progress: its functions, and the one on top.
LEMMA TopType ==
    ASSUME TypeOK, stack # <<>>
    PROVE  /\ Len(stack) \in 1 .. Len(stack)
           /\ Top \in Fn
           /\ \A n \in 1 .. Len(stack) : stack[n] \in Fn
  <1>1. stack \in Seq(Fn)
    BY DEF TypeOK
  <1>2. Len(stack) \in 1 .. Len(stack) /\ \A n \in 1 .. Len(stack) : stack[n] \in Fn
    BY <1>1
  <1> QED  BY <1>2 DEF Top

-----------------------------------------------------------------------------
LEMMA WalkInit == Init => WalkInv
  <1> SUFFICES ASSUME Init PROVE WalkInv
    OBVIOUS
  <1> USE DEF Init
  <1>1. TypeOK
    BY BinaryAssumption DEF TypeOK
  <1>2. GreyOK
    BY DEF GreyOK
  <1>3. BlackOK
    BY DEF BlackOK
  <1>4. MetOK /\ RootOK
    BY DEF MetOK, RootOK
  <1> QED  BY <1>1, <1>2, <1>3, <1>4 DEF WalkInv

\* Printing and stopping leave what the walk has found alone.
LEMMA WalkRests ==
    ASSUME WalkInv,
           UNCHANGED <<bin, colour, best, stack, todo, deepest>>,
           verdict' \in {verdict, "not found", "recursion"}
    PROVE  WalkInv'
  <1> USE SameBinary
  <1>1. TypeOK'
    BY DEF WalkInv, TypeOK
  <1>2. GreyOK'
    BY DEF WalkInv, GreyOK
  <1>3. BlackOK'
    BY DEF WalkInv, BlackOK
  <1>4. MetOK'
    BY DEF WalkInv, MetOK
  <1>5. RootOK'
    BY DEF WalkInv, RootOK
  <1> QED  BY <1>1, <1>2, <1>3, <1>4, <1>5 DEF WalkInv

LEMMA WalkStart == ASSUME WalkInv, Start PROVE WalkInv'
  <1> USE SameBinary
  <1>0. Root \in Fn /\ stack' = <<Root>> /\ verdict = "none" /\ stack = <<>>
    BY BinaryAssumption DEF Start, Enter
  <1>1. TypeOK'
    BY <1>0, FramesType DEF WalkInv, TypeOK, Start, Enter
  <1>2. \A f \in Fn : colour'[f] = IF f = Root THEN "grey" ELSE "white"
    BY <1>0 DEF WalkInv, TypeOK, RootOK, Start, Enter
  <1>3. GreyOK'
    BY <1>0, <1>2 DEF GreyOK
  <1>4. BlackOK'
    BY <1>2 DEF BlackOK
  <1>5. MetOK'
    <2>1. todo'[Root] = Edges(Root)
      BY <1>0 DEF WalkInv, TypeOK, Start, Enter
    <2> QED  BY <1>0, <2>1 DEF MetOK, Start
  <1>6. RootOK'
    BY <1>0 DEF RootOK, Start
  <1> QED  BY <1>1, <1>3, <1>4, <1>5, <1>6 DEF WalkInv

LEMMA WalkReuse == ASSUME WalkInv, NEW c \in Fn, Reuse(c) PROVE WalkInv'
  <1> USE SameBinary
  <1>0. stack # <<>> /\ c \in todo[Top] /\ colour[c] = "black"
    BY DEF Reuse, Takes
  <1>a. Top \in Fn /\ deepest \in [Fn -> Nat] /\ todo \in [Fn -> SUBSET Fn] /\ best[c] \in Nat
    BY <1>0, TopType DEF WalkInv, TypeOK
  <1>b. /\ deepest' = [deepest EXCEPT ![Top] = Larger(deepest[Top], best[c])]
        /\ todo' = [todo EXCEPT ![Top] = todo[Top] \ {c}]
    BY DEF Reuse
  <1>c. /\ Larger(deepest[Top], best[c]) \in Nat
        /\ best[c] <= Larger(deepest[Top], best[c])
        /\ deepest[Top] <= Larger(deepest[Top], best[c])
    BY <1>a DEF Larger
  <1>d. best[c] <= deepest'[Top] /\ \A f \in Fn : deepest[f] <= deepest'[f] /\ deepest'[f] \in Nat
    BY <1>a, <1>b, <1>c
  <1>1. TypeOK'
    BY <1>a, <1>b, <1>c DEF WalkInv, TypeOK, Reuse
  <1>2. GreyOK'
    BY DEF WalkInv, GreyOK, Reuse
  <1>3. BlackOK'
    BY DEF WalkInv, BlackOK, Reuse
  <1>4. MetOK'
    <2> SUFFICES ASSUME NEW n \in 1 .. Len(stack), NEW d \in Edges(stack[n]),
                        d \notin todo'[stack[n]]
                 PROVE  \/ colour[d] = "black" /\ best[d] <= deepest'[stack[n]]
                        \/ n < Len(stack) /\ d = stack[n + 1]
      BY DEF MetOK, Reuse
    <2>1. stack[n] \in Fn /\ Top \in Fn /\ d \in Fn
      BY <1>0, TopType, FramesType DEF WalkInv, TypeOK
    <2>2. deepest[stack[n]] <= deepest'[stack[n]] /\ best[d] \in Nat /\ deepest[stack[n]] \in Nat
      BY <1>a, <1>d, <2>1 DEF WalkInv, TypeOK
    <2>3. CASE d \notin todo[stack[n]]
      <3>1. \/ colour[d] = "black" /\ best[d] <= deepest[stack[n]]
            \/ n < Len(stack) /\ d = stack[n + 1]
        BY <2>1, <2>3 DEF WalkInv, MetOK
      <3> QED  BY <1>d, <2>1, <2>2, <3>1
    <2>4. CASE d \in todo[stack[n]]
      <3>1. stack[n] = Top /\ d = c
        BY <1>a, <1>b, <2>1, <2>4
      <3> QED  BY <1>0, <1>d, <3>1
    <2> QED  BY <2>3, <2>4
  <1>5. RootOK'
    BY DEF WalkInv, RootOK, Reuse
  <1> QED  BY <1>1, <1>2, <1>3, <1>4, <1>5 DEF WalkInv

LEMMA WalkDescend == ASSUME WalkInv, NEW c \in Fn, Descend(c) PROVE WalkInv'
  <1> USE SameBinary
  <1> DEFINE L == Len(stack)
  <1>0. /\ stack # <<>> /\ c \in todo[Top] /\ colour[c] = "white"
        /\ stack' = Append(stack, c) /\ stack' # <<>>
        /\ stack \in Seq(Fn) /\ L \in Nat \ {0}
    BY DEF Descend, Enter, Takes, WalkInv, TypeOK
  <1>a. Len(stack') = L + 1 /\ stack'[L + 1] = c /\ \A n \in 1 .. L : stack'[n] = stack[n]
    BY <1>0
  <1>b. \A n \in 1 .. L : stack[n] # c /\ stack[n] \in Fn
    BY <1>0, TopType DEF WalkInv, GreyOK
  <1>c. \A f \in Fn : colour'[f] = IF f = c THEN "grey" ELSE colour[f]
    BY DEF WalkInv, TypeOK, Descend, Enter
  <1>d. /\ Top \in Fn /\ todo' = [[todo EXCEPT ![Top] = todo[Top] \ {c}] EXCEPT ![c] = Edges(c)]
        /\ deepest' = [deepest EXCEPT ![c] = 0]
    BY <1>0, TopType DEF WalkInv, Descend, Enter
  <1>1. TypeOK'
    <2>1. todo' \in [Fn -> SUBSET Fn] /\ deepest' \in [Fn -> Nat]
      BY <1>d, FramesType DEF WalkInv, TypeOK
    <2>2. colour' \in [Fn -> {"white", "grey", "black"}] /\ stack' \in Seq(Fn)
      <3>1. stack' \in Seq(Fn)
        BY <1>0
      <3>2. colour' = [colour EXCEPT ![c] = "grey"]
        BY DEF Descend, Enter
      <3> QED  BY <3>1, <3>2 DEF WalkInv, TypeOK
    <2> QED  BY <2>1, <2>2 DEF WalkInv, TypeOK, Descend
  <1>2. GreyOK'
    <2>1. ASSUME NEW f \in Fn
          PROVE  colour'[f] = "grey" <=> \E n \in 1 .. L + 1 : stack'[n] = f
      <3>1. CASE f = c
        BY <1>0, <1>a, <1>c, <3>1
      <3>2. CASE f # c
        <4>1. colour[f] = "grey" <=> \E n \in 1 .. L : stack[n] = f
          BY DEF WalkInv, GreyOK
        <4>2. \A n \in 1 .. L + 1 : n \in 1 .. L \/ n = L + 1
          BY <1>0
        <4> QED  BY <1>0, <1>a, <1>c, <3>2, <4>1, <4>2
      <3> QED  BY <3>1, <3>2
    <2>2. ASSUME NEW m \in 1 .. L + 1, NEW n \in 1 .. L + 1, stack'[m] = stack'[n]
          PROVE  m = n
      <3>1. CASE m \in 1 .. L /\ n \in 1 .. L
        BY <1>a, <2>2, <3>1 DEF WalkInv, GreyOK
      <3>2. CASE m = L + 1 /\ n \in 1 .. L
        BY <1>a, <1>b, <2>2, <3>2
      <3>3. CASE n = L + 1 /\ m \in 1 .. L
        BY <1>a, <1>b, <2>2, <3>3
      <3> QED  BY <1>0, <3>1, <3>2, <3>3
    <2> QED  BY <1>a, <2>1, <2>2 DEF GreyOK
  <1>3. BlackOK'
    BY <1>0, <1>c, FramesType DEF WalkInv, TypeOK, BlackOK, Descend
  <1>4. MetOK'
    <2> SUFFICES ASSUME NEW n \in 1 .. L + 1, NEW d \in Edges(stack'[n]),
                        d \notin todo'[stack'[n]]
                 PROVE  \/ colour'[d] = "black" /\ best[d] <= deepest'[stack'[n]]
                        \/ n < L + 1 /\ d = stack'[n + 1]
      BY <1>a DEF MetOK, Descend
    <2>1. CASE n = L + 1
      BY <1>0, <1>a, <2>1 DEF WalkInv, TypeOK, Descend, Enter
    <2>2. CASE n \in 1 .. L
      <3>1. stack'[n] = stack[n] /\ stack[n] \in Fn /\ stack[n] # c /\ Top \in Fn
        BY <1>0, <1>a, <1>b, <2>2, TopType DEF WalkInv
      <3>2. d \in Fn /\ d \in Edges(stack[n])
        BY <3>1, FramesType DEF WalkInv, TypeOK
      <3>3. deepest'[stack[n]] = deepest[stack[n]]
        BY <3>1 DEF WalkInv, TypeOK, Descend, Enter
      <3>4. CASE d \notin todo[stack[n]]
        <4>1. \/ colour[d] = "black" /\ best[d] <= deepest[stack[n]]
              \/ n < L /\ d = stack[n + 1]
          BY <2>2, <3>2, <3>4 DEF WalkInv, MetOK
        <4>2. CASE colour[d] = "black" /\ best[d] <= deepest[stack[n]]
          BY <1>0, <1>c, <3>1, <3>2, <3>3, <4>2
        <4>3. CASE n < L /\ d = stack[n + 1]
          BY <1>0, <1>a, <2>2, <4>3
        <4> QED  BY <4>1, <4>2, <4>3
      <3>5. CASE d \in todo[stack[n]]
        <4>1. stack[n] = Top /\ d = c
          BY <3>1, <3>2, <3>5 DEF WalkInv, TypeOK, Descend, Enter
        <4>2. n = L
          BY <1>0, <2>2, <4>1 DEF WalkInv, GreyOK, Top
        <4> QED  BY <1>0, <1>a, <4>1, <4>2
      <3> QED  BY <3>4, <3>5
    <2> QED  BY <1>0, <2>1, <2>2
  <1>5. RootOK'
    BY <1>0, <1>a DEF WalkInv, RootOK, Descend
  <1> QED  BY <1>1, <1>2, <1>3, <1>4, <1>5 DEF WalkInv

\* The function on top returns, and the one under it goes on.
LEMMA WalkLeave == ASSUME WalkInv, Leave PROVE WalkInv'
  <1> USE SameBinary
  <1> DEFINE L == Len(stack)
             total == Frames(Top) + deepest[Top]
             under == SubSeq(stack, 1, L - 1)
  <1>0. /\ stack # <<>> /\ todo[Top] = {} /\ verdict = "none"
        /\ stack \in Seq(Fn) /\ L \in Nat \ {0}
        /\ stack' = under /\ bin' = bin /\ todo' = todo
    BY DEF Leave, WalkInv, TypeOK
  <1>i. L = 1 \/ L > 1
    <2>1. L \in Nat \ {0}
      BY <1>0
    <2> HIDE DEF L
    <2> QED  BY <2>1
  <1>a. /\ under \in Seq(Fn) /\ Len(under) = L - 1
        /\ \A n \in 1 .. L - 1 : under[n] = stack[n]
        /\ under = <<>> <=> L = 1
    <2> HIDE DEF under
    <2>1. \A n \in 1 .. L - 1 : stack[n] \in Fn
      BY <1>0
    <2>2. under = [n \in 1 .. L - 1 |-> stack[n]]
      BY <1>0 DEF under
    <2>3. under \in Seq(Fn) /\ Len(under) = L - 1
      BY <1>0, <2>1, <2>2
    <2>4. \A n \in 1 .. L - 1 : under[n] = stack[n]
      BY <2>2
    <2> QED  BY <1>0, <2>3, <2>4
  <1>b. /\ Top \in Fn /\ Frames(Top) \in Nat /\ deepest[Top] \in Nat /\ total \in Nat
        /\ \A n \in 1 .. L : stack[n] \in Fn
        /\ Frames(Top) <= total /\ deepest[Top] <= total
    BY <1>0, TopType, FramesType DEF WalkInv, TypeOK
  <1>c. \A n \in 1 .. L : stack[n] = Top <=> n = L
    BY <1>0 DEF WalkInv, GreyOK, Top
  <1>d. colour[Top] = "grey"
    BY <1>0, <1>b DEF WalkInv, GreyOK, Top
  <1>e. /\ colour' = [colour EXCEPT ![Top] = "black"]
        /\ best' = [best EXCEPT ![Top] = total]
    BY DEF Leave
  <1>f. \A f \in Fn : /\ colour'[f] = IF f = Top THEN "black" ELSE colour[f]
                      /\ best'[f] = IF f = Top THEN total ELSE best[f]
    BY <1>b, <1>e DEF WalkInv, TypeOK
  <1>g. /\ L = 1 => verdict' = "total" /\ deepest' = deepest
        /\ L > 1 => /\ verdict' = "none"
                    /\ deepest' = [deepest EXCEPT ![stack[L - 1]] =
                                      Larger(deepest[stack[L - 1]], total)]
    BY <1>0, <1>a DEF Leave
  <1>h. /\ deepest' \in [Fn -> Nat]
        /\ \A f \in Fn : deepest[f] <= deepest'[f]
        /\ L > 1 => total <= deepest'[stack[L - 1]]
    <2>1. deepest \in [Fn -> Nat]
      BY DEF WalkInv, TypeOK
    <2>2. CASE L = 1
      BY <1>g, <2>1, <2>2
    <2>3. CASE L > 1
      <3>1. stack[L - 1] \in Fn
        BY <1>0, <1>b, <2>3
      <3>2. /\ Larger(deepest[stack[L - 1]], total) \in Nat
            /\ deepest[stack[L - 1]] <= Larger(deepest[stack[L - 1]], total)
            /\ total <= Larger(deepest[stack[L - 1]], total)
        BY <1>b, <2>1, <3>1 DEF Larger
      <3> HIDE DEF total
      <3>3. deepest' = [deepest EXCEPT ![stack[L - 1]] = Larger(deepest[stack[L - 1]], total)]
        BY <1>g, <2>3
      <3>4. \A f \in Fn : deepest'[f] = IF f = stack[L - 1]
                THEN Larger(deepest[stack[L - 1]], total) ELSE deepest[f]
        BY <2>1, <3>3
      <3> QED  BY <2>1, <3>1, <3>2, <3>3, <3>4
    <2> QED  BY <1>i, <2>2, <2>3
  <1>1. TypeOK'
    <2>1. best' \in [Fn -> Nat] /\ colour' \in [Fn -> {"white", "grey", "black"}]
      BY <1>b, <1>e DEF WalkInv, TypeOK
    <2>2. verdict' \in {"none", "total"}
      BY <1>g, <1>i
    <2> HIDE DEF under, total
    <2> QED  BY <1>0, <1>a, <1>h, <2>1, <2>2 DEF WalkInv, TypeOK
  <1>2. GreyOK'
    <2>1. ASSUME NEW f \in Fn
          PROVE  colour'[f] = "grey" <=> \E n \in 1 .. L - 1 : stack[n] = f
      <3>1. CASE f = Top
        BY <1>0, <1>b, <1>c, <1>f, <3>1
      <3>2. CASE f # Top
        <4>1. colour[f] = "grey" <=> \E n \in 1 .. L : stack[n] = f
          BY DEF WalkInv, GreyOK
        <4>2. \A n \in 1 .. L : n \in 1 .. L - 1 \/ n = L
          BY <1>0
        <4>3. \A n \in 1 .. L - 1 : n \in 1 .. L
          BY <1>0
        <4>4. L \in 1 .. L
          BY <1>0
        <4> QED  BY <1>c, <1>f, <3>2, <4>1, <4>2, <4>3, <4>4
      <3> QED  BY <3>1, <3>2
    <2>2. ASSUME NEW m \in 1 .. L - 1, NEW n \in 1 .. L - 1, stack[m] = stack[n]
          PROVE  m = n
      BY <1>0, <2>2 DEF WalkInv, GreyOK
    <2> HIDE DEF under
    <2>3. Len(stack') = L - 1 /\ \A n \in 1 .. L - 1 : stack'[n] = stack[n]
      BY <1>0, <1>a
    <2> QED  BY <2>1, <2>2, <2>3 DEF GreyOK
  <1>3. ASSUME NEW c \in Edges(Top) PROVE colour[c] = "black" /\ best[c] <= deepest[Top] /\ c # Top
    <2>1. L \in 1 .. L /\ Top = stack[L] /\ ~(L < L)
      BY <1>0 DEF Top
    <2> QED  BY <1>0, <1>d, <2>1 DEF WalkInv, MetOK
  <1>4. BlackOK'
    <2> SUFFICES ASSUME NEW f \in Fn, colour'[f] = "black"
                 PROVE  /\ Frames(f) <= best'[f]
                        /\ \A c \in Edges(f) : colour'[c] = "black" /\ Frames(f) + best'[c] <= best'[f]
      BY <1>0 DEF BlackOK
    <2>1. \A c \in Edges(f) : c \in Fn
      BY FramesType DEF WalkInv, TypeOK
    <2>2. CASE f = Top
      <3>1. \A c \in Edges(Top) : best[c] \in Nat /\ best'[c] = best[c] /\ colour'[c] = "black"
        BY <1>3, <1>f, <2>1, <2>2 DEF WalkInv, TypeOK
      <3>2. \A c \in Edges(Top) : Frames(Top) + best'[c] <= total
        BY <1>3, <1>b, <3>1
      <3> HIDE DEF total
      <3> QED  BY <1>b, <1>f, <2>2, <3>1, <3>2
    <2>3. CASE f # Top
      <3>1. colour[f] = "black" /\ best'[f] = best[f]
        BY <1>f, <2>3
      <3>2. \A c \in Edges(f) : colour[c] = "black" /\ c # Top
        BY <1>d, <3>1 DEF WalkInv, BlackOK
      <3>3. \A c \in Edges(f) : best'[c] = best[c] /\ colour'[c] = "black"
        BY <1>f, <2>1, <3>2
      <3> QED  BY <3>1, <3>3 DEF WalkInv, BlackOK
    <2> QED  BY <2>2, <2>3
  <1>5. MetOK'
    <2> SUFFICES ASSUME NEW n \in 1 .. L - 1, NEW c \in Edges(stack[n]), c \notin todo[stack[n]]
                 PROVE  \/ colour'[c] = "black" /\ best'[c] <= deepest'[stack[n]]
                        \/ n < L - 1 /\ c = stack[n + 1]
      <3> HIDE DEF under
      <3>1. /\ Len(stack') = L - 1
            /\ \A n \in 1 .. L - 1 : /\ stack'[n] = stack[n]
                                     /\ n < L - 1 => stack'[n + 1] = stack[n + 1]
        BY <1>0, <1>a
      <3> QED  BY <1>0, <3>1 DEF MetOK
    <2>0. n \in 1 .. L /\ n < L
      BY <1>0
    <2>1. n \in 1 .. L /\ n < L /\ stack[n] \in Fn /\ c \in Fn
      BY <2>0, <1>b, FramesType DEF WalkInv, TypeOK
    <2>2. /\ deepest[stack[n]] <= deepest'[stack[n]]
          /\ best[c] \in Nat /\ deepest[stack[n]] \in Nat /\ deepest'[stack[n]] \in Nat
      BY <1>h, <2>1 DEF WalkInv, TypeOK
    <2>3. \/ colour[c] = "black" /\ best[c] <= deepest[stack[n]]
          \/ c = stack[n + 1]
      BY <2>1 DEF WalkInv, MetOK
    <2>4. CASE colour[c] = "black" /\ best[c] <= deepest[stack[n]]
      BY <1>d, <1>f, <2>1, <2>2, <2>4
    <2>5. CASE c = stack[n + 1] /\ n < L - 1
      BY <2>5
    <2>6. CASE c = stack[n + 1] /\ n = L - 1
      <3>1. c = Top /\ L > 1
        BY <1>0, <2>6 DEF Top
      <3> HIDE DEF total
      <3> QED  BY <1>b, <1>f, <1>h, <2>6, <3>1
    <2> QED  BY <1>0, <2>1, <2>3, <2>4, <2>5, <2>6
  <1>6. RootOK'
    <2> HIDE DEF under, total
    <2>1. L = 1 => Top = Root
      BY <1>0 DEF WalkInv, RootOK, Top
    <2>2. L > 1 => stack'[1] = Root
      BY <1>0, <1>a DEF WalkInv, RootOK
    <2> QED  BY <1>0, <1>a, <1>b, <1>f, <1>g, <1>i, <2>1, <2>2 DEF RootOK
  <1> QED  BY <1>1, <1>2, <1>4, <1>5, <1>6 DEF WalkInv

\* A step of the script keeps WalkInv, and so does what leaves the script alone.
LEMMA WalkStep == WalkInv /\ Walk => WalkInv'
  <1> SUFFICES ASSUME WalkInv, Walk PROVE WalkInv'
    OBVIOUS
  <1>1. CASE NotFound
    BY <1>1, WalkRests DEF NotFound
  <1>2. CASE Start
    BY <1>2, WalkStart
  <1>3. CASE Leave
    BY <1>3, WalkLeave
  <1>4. CASE PrintLine
    BY <1>4, WalkRests DEF PrintLine
  <1>5. ASSUME NEW c \in Fn, Recursion(c) PROVE WalkInv'
    BY <1>5, WalkRests DEF Recursion
  <1>6. ASSUME NEW c \in Fn, Reuse(c) PROVE WalkInv'
    BY <1>6, WalkReuse
  <1>7. ASSUME NEW c \in Fn, Descend(c) PROVE WalkInv'
    BY <1>7, WalkDescend
  <1> QED  BY <1>1, <1>2, <1>3, <1>4, <1>5, <1>6, <1>7 DEF Walk

LEMMA WalkStutter == WalkInv /\ UNCHANGED graphVars => WalkInv'
  BY WalkRests DEF graphVars

-----------------------------------------------------------------------------
Terms(frame, p) == [n \in Nat |-> IF n < Len(p) THEN frame[p[n + 1]] ELSE 0]

\* The weight of a path, and of one that is longer at its end or its beginning.
LEMMA WeightMono ==
    ASSUME NEW g \in [Fn -> Nat], NEW h \in [Fn -> Nat], \A f \in Fn : g[f] <= h[f],
           NEW p \in Seq(Fn)
    PROVE  Weight(g, p) \in Nat /\ Weight(g, p) <= Weight(h, p)
  <1> DEFINE a == Terms(g, p)
             b == Terms(h, p)
  <1>1. \A m \in 0 .. Len(p) - 1 : a[m] \in Nat /\ b[m] \in Nat /\ a[m] <= b[m]
    <2> SUFFICES ASSUME NEW m \in 0 .. Len(p) - 1
                 PROVE  a[m] \in Nat /\ b[m] \in Nat /\ a[m] <= b[m]
      OBVIOUS
    <2>1. m + 1 \in 1 .. Len(p) /\ m < Len(p) /\ m \in Nat
      OBVIOUS
    <2>2. p[m + 1] \in Fn
      BY <2>1
    <2>3. a[m] = g[p[m + 1]] /\ b[m] = h[p[m + 1]]
      BY <2>1 DEF Terms
    <2> QED  BY <2>2, <2>3
  <1>2. Weight(g, p) = Total(a, Len(p)) /\ Weight(h, p) = Total(b, Len(p)) /\ Len(p) \in Nat
    BY DEF Weight, Terms
  <1> HIDE DEF a, b
  <1> QED  BY <1>1, <1>2, TotalMono

LEMMA WeightType ==
    ASSUME NEW g \in [Fn -> Nat], NEW p \in Seq(Fn) PROVE Weight(g, p) \in Nat
  <1>1. \A f \in Fn : g[f] <= g[f]
    OBVIOUS
  <1> QED  BY <1>1, WeightMono

LEMMA WeightAppend ==
    ASSUME NEW g \in [Fn -> Nat], NEW p \in Seq(Fn), NEW c \in Fn
    PROVE  Weight(g, Append(p, c)) = Weight(g, p) + g[c]
  <1> DEFINE L == Len(p)
             a == Terms(g, p)
             b == Terms(g, Append(p, c))
  <1>1. L \in Nat /\ Len(Append(p, c)) = L + 1 /\ Append(p, c)[L + 1] = c
        /\ \A n \in 1 .. L : Append(p, c)[n] = p[n]
    OBVIOUS
  <1>2. \A m \in 0 .. L - 1 : a[m] = b[m]
    <2> SUFFICES ASSUME NEW m \in 0 .. L - 1 PROVE a[m] = b[m]
      OBVIOUS
    <2>1. m \in Nat /\ m < L /\ m < L + 1 /\ m + 1 \in 1 .. L
      BY <1>1
    <2> QED  BY <1>1, <2>1 DEF Terms
  <1>3. b[L] = g[c]
    BY <1>1 DEF Terms
  <1>4. Weight(g, p) = Total(a, L) /\ Weight(g, Append(p, c)) = Total(b, L + 1)
    BY <1>1 DEF Weight, Terms
  <1> HIDE DEF a, b, L
  <1>5. Total(a, L) = Total(b, L)
    BY <1>1, <1>2, TotalSame
  <1>6. Total(b, L + 1) = Total(b, L) + b[L]
    BY <1>1, TotalStep
  <1> QED  BY <1>3, <1>4, <1>5, <1>6

LEMMA WeightPrepend ==
    ASSUME NEW g \in [Fn -> Nat], NEW p \in Seq(Fn), NEW f \in Fn
    PROVE  Weight(g, <<f>> \o p) = g[f] + Weight(g, p)
  <1> DEFINE L == Len(p)
             q == <<f>> \o p
             a == Terms(g, p)
             b == Terms(g, q)
  <1>1. L \in Nat /\ Len(q) = L + 1 /\ q[1] = f /\ \A n \in 1 .. L : q[n + 1] = p[n] /\ p[n] \in Fn
    OBVIOUS
  <1> HIDE DEF q, L
  <1>2. \A m \in 0 .. L - 1 : a[m] \in Nat /\ b[m + 1] = a[m]
    <2> SUFFICES ASSUME NEW m \in 0 .. L - 1 PROVE a[m] \in Nat /\ b[m + 1] = a[m]
      OBVIOUS
    <2>1. m \in Nat /\ m + 1 \in Nat /\ m < L /\ m + 1 < L + 1 /\ m + 1 \in 1 .. L
      BY <1>1
    <2>2. a[m] = g[p[m + 1]]
      BY <2>1 DEF Terms, L
    <2>3. b[m + 1] = g[q[(m + 1) + 1]]
      BY <1>1, <2>1 DEF Terms
    <2> QED  BY <1>1, <2>1, <2>2, <2>3
  <1>3. b[0] = g[f] /\ g[f] \in Nat
    BY <1>1 DEF Terms
  <1>4. Weight(g, p) = Total(a, L) /\ Weight(g, q) = Total(b, L + 1)
    BY <1>1 DEF Weight, Terms, L
  <1> HIDE DEF a, b
  <1>5. Total(b, L + 1) = b[0] + Total(a, L)
    BY <1>1, <1>2, <1>3, TotalShift
  <1> QED  BY <1>3, <1>4, <1>5 DEF q

LEMMA WeightOne ==
    ASSUME NEW g \in [Fn -> Nat], NEW f \in Fn PROVE Weight(g, <<f>>) = g[f]
  <1>1. Weight(g, <<>>) = 0
    BY TotalStep DEF Weight
  <1>2. <<f>> = Append(<<>>, f) /\ <<>> \in Seq(Fn)
    OBVIOUS
  <1>3. Weight(g, Append(<<>>, f)) = Weight(g, <<>>) + g[f]
    BY <1>2, WeightAppend
  <1> QED  BY <1>1, <1>2, <1>3

-----------------------------------------------------------------------------
\* A path from f, however long.
PathFrom(f, p) ==
    /\ p \in Seq(Fn) /\ p # <<>> /\ p[1] = f
    /\ \A n \in 1 .. Len(p) - 1 : p[n + 1] \in Edges(p[n])

LEMMA ScriptFramesType ==
    ASSUME TypeOK
    PROVE  ScriptFrames \in [Fn -> Nat] /\ \A f \in Fn : ScriptFrames[f] = Frames(f)
  <1>1. \A f \in Fn : Frames(f) \in Nat
    BY FramesType DEF TypeOK
  <1> QED  BY <1>1 DEF ScriptFrames

\* One that meets no function twice is no longer than there are functions.
LEMMA OnceIsShort ==
    ASSUME NEW p \in Seq(Fn), ~MeetsTwice(p)
    PROVE  Len(p) <= Cardinality(Fn) /\ Cardinality(Fn) \in Nat
  <1>1. IsFiniteSet(Fn) /\ Cardinality(Fn) \in Nat
    BY BinaryAssumption, FS_CardinalityType
  <1>2. IsFiniteSet(1 .. Len(p)) /\ Cardinality(1 .. Len(p)) = Len(p) /\ Len(p) \in Nat
    <2>1. Len(p) \in Nat
      OBVIOUS
    <2>2. Cardinality(1 .. Len(p)) = IF 1 > Len(p) THEN 0 ELSE Len(p) - 1 + 1
      BY <2>1, FS_Interval
    <2> QED  BY <2>1, <2>2, FS_Interval
  <1>3. p \in [1 .. Len(p) -> Fn]
    OBVIOUS
  <1>4. ASSUME Cardinality(Fn) < Len(p) PROVE FALSE
    <2>1. PICK m \in 1 .. Len(p), n \in 1 .. Len(p) : m # n /\ p[m] = p[n]
      BY <1>1, <1>2, <1>3, <1>4, FS_PigeonHole
    <2>2. m < n \/ n < m
      BY <2>1
    <2> QED  BY <2>1, <2>2 DEF MeetsTwice
  <1> QED  BY <1>1, <1>2, <1>4

\* The paths of the model are those of at most one function more.
LEMMA ScriptPathsAre ==
    ASSUME TypeOK
    PROVE  /\ \A p \in ScriptPaths : PathFrom(Root, p)
           /\ \A p : PathFrom(Root, p) /\ Len(p) <= Cardinality(Fn) + 1 => p \in ScriptPaths
  <1> DEFINE calls == [f \in Fn |-> Edges(f)]
  <1>1. ASSUME NEW p \in ScriptPaths PROVE PathFrom(Root, p)
    <2>1. /\ \E n \in 1 .. Cardinality(Fn) + 1 : p \in [1 .. n -> Fn]
          /\ p[1] = Root /\ \A n \in 1 .. Len(p) - 1 : p[n + 1] \in calls[p[n]]
      BY DEF ScriptPaths, Paths
    <2>2. PICK n \in 1 .. Cardinality(Fn) + 1 : p \in [1 .. n -> Fn]
      BY <2>1
    <2>3. n \in Nat /\ n >= 1
      <3>1. Cardinality(Fn) \in Nat
        BY BinaryAssumption, FS_CardinalityType
      <3> QED  BY <3>1
    <2>4. p \in Seq(Fn) /\ Len(p) = n /\ p # <<>>
      BY <2>2, <2>3
    <2>5. \A m \in 1 .. Len(p) - 1 : p[m] \in Fn
      BY <2>2, <2>3, <2>4
    <2>6. \A m \in 1 .. Len(p) - 1 : p[m + 1] \in Edges(p[m])
      BY <2>1, <2>5
    <2> QED  BY <2>1, <2>4, <2>6 DEF PathFrom
  <1>2. ASSUME NEW p, PathFrom(Root, p), Len(p) <= Cardinality(Fn) + 1
        PROVE  p \in ScriptPaths
    <2>1. p \in Seq(Fn) /\ p # <<>> /\ Len(p) \in Nat \ {0}
      BY <1>2 DEF PathFrom
    <2>2. Len(p) \in 1 .. Cardinality(Fn) + 1
      <3>1. Cardinality(Fn) \in Nat
        BY BinaryAssumption, FS_CardinalityType
      <3> QED  BY <1>2, <2>1, <3>1
    <2>3. p \in [1 .. Len(p) -> Fn]
      BY <2>1
    <2>4. p \in UNION {[1 .. n -> Fn] : n \in 1 .. Cardinality(Fn) + 1}
      BY <2>2, <2>3
    <2>5. \A n \in 1 .. Len(p) - 1 : p[n + 1] \in calls[p[n]]
      <3>1. \A n \in 1 .. Len(p) - 1 : p[n] \in Fn
        BY <2>1
      <3> QED  BY <1>2, <3>1 DEF PathFrom
    <2> QED  BY <1>2, <2>4, <2>5 DEF ScriptPaths, Paths, PathFrom
  <1> QED  BY <1>1, <1>2

\* A path from a black function stays black, and what is added up of it and what
\* is left below do not outweigh the function.
LEMMA BlackPath ==
    ASSUME WalkInv, NEW f \in Fn, colour[f] = "black", NEW p, PathFrom(f, p)
    PROVE  \A n \in 1 .. Len(p) :
              /\ colour[p[n]] = "black"
              /\ Total(Terms(ScriptFrames, p), n - 1) \in Nat
              /\ Total(Terms(ScriptFrames, p), n - 1) + best[p[n]] <= best[f]
  <1> DEFINE a == Terms(ScriptFrames, p)
             L == Len(p)
             Bounded(n) == /\ colour[p[n]] = "black" /\ Total(a, n - 1) \in Nat
                         /\ Total(a, n - 1) + best[p[n]] <= best[f]
             S == {m \in Nat : m + 1 \in 1 .. L => Bounded(m + 1)}
  <1>0. /\ L \in Nat /\ \A n \in 1 .. L : p[n] \in Fn
        /\ p[1] = f /\ \A n \in 1 .. L - 1 : p[n + 1] \in Edges(p[n])
    BY DEF PathFrom
  <1>a. best \in [Fn -> Nat]
    BY DEF WalkInv, TypeOK
  <1>b. \A m \in 0 .. L - 1 : a[m] = Frames(p[m + 1]) /\ a[m] \in Nat
    <2> SUFFICES ASSUME NEW m \in 0 .. L - 1 PROVE a[m] = Frames(p[m + 1]) /\ a[m] \in Nat
      OBVIOUS
    <2>1. m \in Nat /\ m < L /\ m + 1 \in 1 .. L
      BY <1>0
    <2>2. a[m] = ScriptFrames[p[m + 1]]
      BY <2>1 DEF Terms
    <2> QED  BY <1>0, <2>1, <2>2, ScriptFramesType DEF WalkInv
  <1>1. 0 \in S
    <2>1. Total(a, (0 + 1) - 1) = 0
      BY TotalStep
    <2> HIDE DEF a
    <2> QED  BY <1>0, <1>a, <2>1
  <1>2. ASSUME NEW m \in S PROVE m + 1 \in S
    <2> SUFFICES ASSUME (m + 1) + 1 \in 1 .. L PROVE Bounded((m + 1) + 1)
      OBVIOUS
    <2>1. /\ m \in Nat /\ m + 1 \in 1 .. L /\ m + 1 \in 1 .. L - 1 /\ m \in 0 .. L - 1
          /\ (m + 1) - 1 = m /\ ((m + 1) + 1) - 1 = m + 1
      BY <1>0
    <2>2. Bounded(m + 1)
      BY <2>1
    <2> HIDE DEF a, L, S
    <2>3. Total(a, m + 1) = Total(a, m) + a[m]
      BY <2>1, TotalStep
    <2>4. p[(m + 1) + 1] \in Edges(p[m + 1]) /\ p[m + 1] \in Fn /\ p[(m + 1) + 1] \in Fn
      BY <1>0, <2>1
    <2>5. colour[p[(m + 1) + 1]] = "black"
          /\ Frames(p[m + 1]) + best[p[(m + 1) + 1]] <= best[p[m + 1]]
      BY <2>2, <2>4 DEF WalkInv, BlackOK
    <2>6. Total(a, m) \in Nat /\ Total(a, m) + best[p[m + 1]] <= best[f]
      BY <2>1, <2>2
    <2>7. a[m] = Frames(p[m + 1]) /\ a[m] \in Nat
      BY <1>b, <2>1
    <2>8. best[p[m + 1]] \in Nat /\ best[p[(m + 1) + 1]] \in Nat /\ best[f] \in Nat
      BY <1>a, <2>4
    <2>9. /\ Total(a, m + 1) \in Nat
          /\ Total(a, m + 1) + best[p[(m + 1) + 1]] <= best[f]
      BY <2>3, <2>5, <2>6, <2>7, <2>8
    <2> QED  BY <2>1, <2>5, <2>9
  <1> HIDE DEF S
  <1>3. \A m \in Nat : m \in S
    <2>1. S \in SUBSET Nat
      BY DEF S
    <2> QED  BY <1>1, <1>2, <2>1, Induction
  <1>4. ASSUME NEW n \in 1 .. L PROVE Bounded(n)
    <2>1. n - 1 \in Nat /\ (n - 1) + 1 = n
      BY <1>0
    <2>2. n - 1 \in S
      BY <1>3, <2>1
    <2> QED  BY <2>1, <2>2 DEF S
  <1> QED  BY <1>4

\* So it weighs no more,
LEMMA BlackPathWeight ==
    ASSUME WalkInv, NEW f \in Fn, colour[f] = "black", NEW p, PathFrom(f, p)
    PROVE  Weight(ScriptFrames, p) <= best[f]
  <1> DEFINE a == Terms(ScriptFrames, p)
             L == Len(p)
  <1>1. p \in Seq(Fn) /\ L \in Nat /\ L \in 1 .. L /\ L - 1 \in Nat /\ p[L] \in Fn
    BY DEF PathFrom
  <1>2. /\ colour[p[L]] = "black" /\ Total(a, L - 1) \in Nat
        /\ Total(a, L - 1) + best[p[L]] <= best[f]
    BY <1>1, BlackPath
  <1>3. a[L - 1] = Frames(p[L])
    BY <1>1, ScriptFramesType DEF Terms, WalkInv
  <1>4. Weight(ScriptFrames, p) = Total(a, L)
    BY DEF Weight, Terms
  <1>5. Total(a, (L - 1) + 1) = Total(a, L - 1) + a[L - 1]
    BY <1>1, TotalStep
  <1>6. Frames(p[L]) <= best[p[L]] /\ best[p[L]] \in Nat /\ best[f] \in Nat /\ Frames(p[L]) \in Nat
    BY <1>1, <1>2, FramesType DEF WalkInv, BlackOK, TypeOK
  <1> HIDE DEF a, L
  <1>7. (L - 1) + 1 = L
    BY <1>1
  <1> QED  BY <1>2, <1>3, <1>4, <1>5, <1>6, <1>7

\* and meets no function twice: the functions between would call each other.
LEMMA BlackPathOnce ==
    ASSUME WalkInv, AcyclicOK, NEW f \in Fn, colour[f] = "black", NEW p, PathFrom(f, p)
    PROVE  ~MeetsTwice(p)
  <1> SUFFICES ASSUME NEW m \in 1 .. Len(p), NEW n \in 1 .. Len(p), m < n, p[m] = p[n]
               PROVE  FALSE
    BY DEF MeetsTwice
  <1> DEFINE S == {p[i] : i \in m .. n}
  <1>1. \A i \in m .. n : i \in 1 .. Len(p) /\ p[i] \in Fn /\ colour[p[i]] = "black"
    <2>1. \A i \in m .. n : i \in 1 .. Len(p)
      OBVIOUS
    <2>2. \A i \in 1 .. Len(p) : p[i] \in Fn
      BY DEF PathFrom
    <2> QED  BY <2>1, <2>2, BlackPath
  <1>2. m \in m .. n
    OBVIOUS
  <1>3. S \subseteq {g \in Fn : colour[g] = "black"} /\ S # {}
    BY <1>1, <1>2
  <1>4. PICK g \in S : Edges(g) \cap S = {}
    BY <1>3 DEF AcyclicOK
  <1>5. PICK i \in m .. n : g = p[i]
    BY <1>4
  <1>6. PICK j \in m .. n - 1 : g = p[j]
    <2>1. CASE i = n
      BY <1>5, <2>1
    <2>2. CASE i # n
      BY <1>5, <2>2
    <2> QED  BY <2>1, <2>2
  <1>7. p[j + 1] \in Edges(g) /\ p[j + 1] \in S
    <2>1. j \in 1 .. Len(p) - 1 /\ j + 1 \in m .. n
      BY <1>6
    <2> QED  BY <1>6, <2>1 DEF PathFrom
  <1> QED  BY <1>4, <1>7

\* A black function has a path as heavy as it weighs.
LEMMA BlackWeightIsAttained ==
    ASSUME WalkInv, AttainedOK, AcyclicOK
    PROVE  \A f \in Fn : colour[f] = "black" =>
              \E p : PathFrom(f, p) /\ Weight(ScriptFrames, p) = best[f]
  <1> DEFINE Attained(f) == \E p : PathFrom(f, p) /\ Weight(ScriptFrames, p) = best[f]
             S == {f \in Fn : colour[f] = "black" /\ ~Attained(f)}
  <1> SUFFICES ASSUME S # {} PROVE FALSE
    OBVIOUS
  <1>0. ScriptFrames \in [Fn -> Nat] /\ \A f \in Fn : ScriptFrames[f] = Frames(f)
    BY ScriptFramesType DEF WalkInv
  <1>1. PICK f \in S : Edges(f) \cap S = {}
    <2>1. S \subseteq {f \in Fn : colour[f] = "black"}
      OBVIOUS
    <2> HIDE DEF S
    <2> QED  BY <2>1 DEF AcyclicOK
  <1>2. CASE best[f] = Frames(f)
    <2>1. PathFrom(f, <<f>>)
      BY DEF PathFrom
    <2>2. Weight(ScriptFrames, <<f>>) = best[f]
      BY <1>0, <1>2, WeightOne
    <2> QED  BY <2>1, <2>2
  <1>3. ASSUME NEW c \in Edges(f), best[f] = Frames(f) + best[c] PROVE FALSE
    <2>1. c \in Fn /\ colour[c] = "black"
      BY FramesType DEF WalkInv, TypeOK, BlackOK
    <2>2. PICK p : PathFrom(c, p) /\ Weight(ScriptFrames, p) = best[c]
      BY <1>1, <2>1
    <2> DEFINE q == <<f>> \o p
    <2>3. p \in Seq(Fn) /\ p # <<>> /\ p[1] = c /\ \A n \in 1 .. Len(p) - 1 : p[n + 1] \in Edges(p[n])
      BY <2>2 DEF PathFrom
    <2>4. /\ q \in Seq(Fn) /\ q # <<>> /\ q[1] = f /\ Len(q) = Len(p) + 1
          /\ \A n \in 1 .. Len(p) : q[n + 1] = p[n]
      BY <2>3
    <2> HIDE DEF q
    <2>5. ASSUME NEW n \in 1 .. Len(q) - 1 PROVE q[n + 1] \in Edges(q[n])
      <3>1. CASE n = 1
        <4>1. 1 \in 1 .. Len(p)
          BY <2>3
        <4> QED  BY <2>3, <2>4, <3>1, <4>1
      <3>2. CASE n # 1
        <4>1. n - 1 \in 1 .. Len(p) - 1 /\ n - 1 \in 1 .. Len(p) /\ n \in 1 .. Len(p)
              /\ (n - 1) + 1 = n
          BY <2>3, <2>4, <3>2
        <4>2. q[n] = p[n - 1] /\ q[n + 1] = p[n]
          BY <2>4, <4>1
        <4>3. p[(n - 1) + 1] \in Edges(p[n - 1])
          BY <2>3, <4>1
        <4> QED  BY <4>1, <4>2, <4>3
      <3> QED  BY <3>1, <3>2
    <2>6. PathFrom(f, q)
      BY <2>4, <2>5 DEF PathFrom
    <2>7. Weight(ScriptFrames, q) = best[f]
      <3>1. Weight(ScriptFrames, q) = ScriptFrames[f] + Weight(ScriptFrames, p)
        BY <1>0, <2>3, WeightPrepend DEF q
      <3> QED  BY <1>0, <1>3, <2>2, <3>1
    <2> QED  BY <2>6, <2>7
  <1> QED  BY <1>2, <1>3 DEF AttainedOK

-----------------------------------------------------------------------------
LEMMA SameFrames == ASSUME bin' = bin PROVE ScriptFrames' = ScriptFrames
  BY SameBinary DEF ScriptFrames

LEMMA PathInit == Init => PathInv
  <1> SUFFICES ASSUME Init PROVE PathInv
    OBVIOUS
  <1> USE DEF Init
  <1>1. StackOK /\ DeepestOK
    BY DEF StackOK, DeepestOK
  <1>2. AttainedOK /\ AcyclicOK
    BY DEF AttainedOK, AcyclicOK
  <1>3. CycleOK /\ PrintedOK
    BY DEF CycleOK, PrintedOK
  <1> QED  BY <1>1, <1>2, <1>3 DEF PathInv

\* What leaves the walk alone leaves its paths alone.
LEMMA PathRests ==
    ASSUME PathInv, UNCHANGED <<bin, colour, best, stack, todo, deepest>>
    PROVE  StackOK' /\ DeepestOK' /\ AttainedOK' /\ AcyclicOK'
  <1> USE SameBinary
  <1>1. StackOK' /\ DeepestOK'
    BY DEF PathInv, StackOK, DeepestOK
  <1>2. AttainedOK' /\ AcyclicOK'
    BY DEF PathInv, AttainedOK, AcyclicOK
  <1> QED  BY <1>1, <1>2

LEMMA PathStutter == ASSUME PathInv, UNCHANGED graphVars PROVE PathInv'
  <1> USE SameBinary, SameFrames
  <1>1. StackOK' /\ DeepestOK' /\ AttainedOK' /\ AcyclicOK'
    BY PathRests DEF graphVars
  <1>2. CycleOK'
    BY DEF PathInv, CycleOK, Top, graphVars
  <1>3. PrintedOK'
    BY DEF PathInv, PrintedOK, graphVars
  <1> QED  BY <1>1, <1>2, <1>3 DEF PathInv

\* While the script walks nothing is printed, and no cycle was found.
LEMMA NothingPrinted ==
    ASSUME PathInv, verdict = "none", printed' = printed, verdict' # "recursion"
    PROVE  CycleOK' /\ PrintedOK'
  <1>1. printed = <<>>
    BY DEF PathInv, PrintedOK
  <1> QED  BY <1>1 DEF CycleOK, PrintedOK

LEMMA PathNotFound == ASSUME PathInv, NotFound PROVE PathInv'
  <1>1. StackOK' /\ DeepestOK' /\ AttainedOK' /\ AcyclicOK'
    BY PathRests DEF NotFound
  <1>2. CycleOK' /\ PrintedOK'
    BY NothingPrinted DEF NotFound
  <1> QED  BY <1>1, <1>2 DEF PathInv

LEMMA PathRecursion ==
    ASSUME WalkInv, PathInv, NEW c \in Fn, Recursion(c) PROVE PathInv'
  <1>1. StackOK' /\ DeepestOK' /\ AttainedOK' /\ AcyclicOK'
    BY PathRests DEF Recursion
  <1>2. CycleOK'
    <2>1. stack # <<>> /\ c \in todo[Top] /\ colour[c] = "grey"
      BY DEF Recursion, Takes
    <2>2. c \in Edges(Top)
      BY <2>1, TopType DEF WalkInv, PathInv, StackOK, Top
    <2>3. Top' = Top /\ Edges(Top)' = Edges(Top)
      BY SameBinary DEF Recursion, Top, Edges
    <2> QED  BY <2>1, <2>2, <2>3 DEF CycleOK, Recursion
  <1>3. PrintedOK'
    <2>1. printed' = <<>>
      BY DEF PathInv, PrintedOK, Recursion, Takes
    <2> QED  BY <2>1 DEF PrintedOK
  <1> QED  BY <1>1, <1>2, <1>3 DEF PathInv

LEMMA PathStart == ASSUME WalkInv, PathInv, Start PROVE PathInv'
  <1> USE SameBinary
  <1>0. Root \in Fn /\ stack' = <<Root>> /\ verdict = "none" /\ stack = <<>>
    BY BinaryAssumption DEF Start, Enter
  <1>1. \A f \in Fn : colour'[f] # "black"
    BY <1>0 DEF WalkInv, TypeOK, RootOK, Start, Enter
  <1>2. todo'[Root] = Edges(Root) /\ deepest'[Root] = 0
    BY <1>0 DEF WalkInv, TypeOK, Start, Enter
  <1>3. StackOK' /\ DeepestOK'
    BY <1>0, <1>2 DEF StackOK, DeepestOK, Start
  <1>4. AttainedOK' /\ AcyclicOK'
    BY <1>1 DEF AttainedOK, AcyclicOK
  <1>5. CycleOK' /\ PrintedOK'
    BY NothingPrinted DEF Start
  <1> QED  BY <1>3, <1>4, <1>5 DEF PathInv

LEMMA PathReuse == ASSUME WalkInv, PathInv, NEW c \in Fn, Reuse(c) PROVE PathInv'
  <1> USE SameBinary
  <1>0. stack # <<>> /\ c \in todo[Top] /\ colour[c] = "black" /\ UNCHANGED <<bin, colour, best, stack>>
    BY DEF Reuse, Takes
  <1>1. /\ Top \in Fn /\ Len(stack) \in 1 .. Len(stack) /\ Top = stack[Len(stack)]
        /\ \A n \in 1 .. Len(stack) : stack[n] \in Fn
        /\ deepest \in [Fn -> Nat] /\ todo \in [Fn -> SUBSET Fn] /\ best[c] \in Nat
    BY <1>0, TopType DEF WalkInv, TypeOK, Top
  <1>2. /\ deepest' = [deepest EXCEPT ![Top] = Larger(deepest[Top], best[c])]
        /\ todo' = [todo EXCEPT ![Top] = todo[Top] \ {c}]
    BY DEF Reuse
  <1>3. c \in Edges(Top)
    BY <1>0, <1>1 DEF PathInv, StackOK
  <1>4. StackOK'
    <2>1. \A f \in Fn : todo'[f] \subseteq todo[f]
      BY <1>1, <1>2
    <2> QED  BY <1>0, <1>1, <2>1 DEF PathInv, StackOK
  <1>5. DeepestOK'
    <2>0. Larger(deepest[Top], best[c]) \in {deepest[Top], best[c]}
      BY DEF Larger
    <2>1. \A f \in Fn : deepest'[f] = deepest[f] \/ (f = Top /\ deepest'[f] = best[c])
      BY <1>1, <1>2, <2>0
    <2> QED  BY <1>0, <1>1, <1>3, <2>1 DEF PathInv, DeepestOK
  <1>6. AttainedOK' /\ AcyclicOK'
    BY <1>0 DEF PathInv, AttainedOK, AcyclicOK
  <1>7. CycleOK' /\ PrintedOK'
    BY NothingPrinted DEF Reuse, Takes
  <1> QED  BY <1>4, <1>5, <1>6, <1>7 DEF PathInv

LEMMA PathDescend == ASSUME WalkInv, PathInv, NEW c \in Fn, Descend(c) PROVE PathInv'
  <1> USE SameBinary
  <1> DEFINE L == Len(stack)
  <1>0. /\ stack # <<>> /\ c \in todo[Top] /\ colour[c] = "white"
        /\ stack' = Append(stack, c) /\ UNCHANGED <<bin, best>>
        /\ stack \in Seq(Fn) /\ L \in Nat \ {0}
    BY DEF Descend, Enter, Takes, WalkInv, TypeOK
  <1>1. /\ Len(stack') = L + 1 /\ stack'[L + 1] = c /\ \A n \in 1 .. L : stack'[n] = stack[n]
        /\ Top = stack[L] /\ L \in 1 .. L
    BY <1>0 DEF Top
  <1>2. \A n \in 1 .. L : stack[n] # c /\ stack[n] \in Fn
    BY <1>0, TopType DEF WalkInv, GreyOK
  <1>3. \A f \in Fn : colour'[f] = "black" <=> colour[f] = "black"
    BY <1>0 DEF WalkInv, TypeOK, Descend, Enter
  <1>4. /\ todo' = [[todo EXCEPT ![Top] = todo[Top] \ {c}] EXCEPT ![c] = Edges(c)]
        /\ deepest' = [deepest EXCEPT ![c] = 0]
        /\ todo \in [Fn -> SUBSET Fn] /\ deepest \in [Fn -> Nat]
    BY DEF WalkInv, TypeOK, Descend, Enter
  <1>5. /\ todo'[c] = Edges(c) /\ deepest'[c] = 0
        /\ \A f \in Fn : f # c => todo'[f] \subseteq todo[f] /\ deepest'[f] = deepest[f]
    BY <1>4
  <1>s. (\A n \in 1 .. L + 1 : n \in 1 .. L \/ n = L + 1) /\ (L + 1) - 1 = L
    BY <1>0
  <1> HIDE DEF L
  <1>6. StackOK'
    <2>1. ASSUME NEW n \in 1 .. L + 1 PROVE todo'[stack'[n]] \subseteq Edges(stack'[n])
      <3>1. CASE n = L + 1
        BY <1>1, <1>5, <3>1
      <3>2. CASE n \in 1 .. L
        BY <1>1, <1>2, <1>5, <3>2 DEF PathInv, StackOK, L
      <3> QED  BY <1>s, <3>1, <3>2
    <2>2. ASSUME NEW n \in 1 .. L PROVE stack'[n + 1] \in Edges(stack'[n])
      <3>1. CASE n = L
        <4>1. c \in Edges(Top)
          BY <1>0, <1>1 DEF PathInv, StackOK, L
        <4> QED  BY <1>1, <3>1, <4>1
      <3>2. CASE n # L
        <4>1. n \in 1 .. L - 1 /\ n + 1 \in 1 .. L
          BY <1>0, <3>2
        <4>2. stack[n + 1] \in Edges(stack[n])
          BY <4>1 DEF PathInv, StackOK, L
        <4> QED  BY <1>1, <4>1, <4>2
      <3> QED  BY <3>1, <3>2
    <2>3. Len(stack') = L + 1 /\ Len(stack') - 1 = L
      BY <1>1, <1>s
    <2> QED  BY <1>0, <2>1, <2>2, <2>3 DEF StackOK
  <1>7. DeepestOK'
    <2> SUFFICES ASSUME NEW n \in 1 .. L + 1
                 PROVE  \/ deepest'[stack'[n]] = 0
                        \/ \E d \in Edges(stack'[n]) :
                              colour'[d] = "black" /\ best[d] = deepest'[stack'[n]]
      BY <1>0, <1>1 DEF DeepestOK
    <2>1. CASE n = L + 1
      BY <1>1, <1>5, <2>1
    <2>2. CASE n \in 1 .. L
      <3>1. /\ stack'[n] = stack[n] /\ deepest'[stack[n]] = deepest[stack[n]]
            /\ Edges(stack[n]) \subseteq Fn
        BY <1>1, <1>2, <1>5, <2>2, FramesType DEF WalkInv, TypeOK
      <3>2. \/ deepest[stack[n]] = 0
            \/ \E d \in Edges(stack[n]) : colour[d] = "black" /\ best[d] = deepest[stack[n]]
        BY <2>2 DEF PathInv, DeepestOK, L
      <3> QED  BY <1>3, <3>1, <3>2
    <2> QED  BY <1>s, <2>1, <2>2
  <1>8. AttainedOK' /\ AcyclicOK'
    <2>1. {f \in Fn : colour'[f] = "black"} = {f \in Fn : colour[f] = "black"}
      BY <1>3
    <2>2. AcyclicOK'
      BY <1>0, <2>1 DEF PathInv, AcyclicOK
    <2>3. AttainedOK'
      BY <1>0, <1>3 DEF PathInv, AttainedOK
    <2> QED  BY <2>2, <2>3
  <1>9. CycleOK' /\ PrintedOK'
    BY NothingPrinted DEF Descend, Takes
  <1> QED  BY <1>6, <1>7, <1>8, <1>9 DEF PathInv

LEMMA PathLeave == ASSUME WalkInv, PathInv, Leave PROVE PathInv'
  <1> USE SameBinary
  <1> DEFINE L == Len(stack)
             total == Frames(Top) + deepest[Top]
             under == SubSeq(stack, 1, L - 1)
  <1>0. /\ stack # <<>> /\ todo[Top] = {} /\ verdict = "none"
        /\ stack \in Seq(Fn) /\ L \in Nat \ {0}
        /\ stack' = under /\ bin' = bin /\ todo' = todo
    BY DEF Leave, WalkInv, TypeOK
  <1>1. /\ Len(under) = L - 1 /\ \A n \in 1 .. L - 1 : under[n] = stack[n]
        /\ under = <<>> <=> L = 1
    <2> HIDE DEF under
    <2>1. under = [n \in 1 .. L - 1 |-> stack[n]] /\ \A n \in 1 .. L - 1 : stack[n] \in Fn
      BY <1>0 DEF under
    <2>2. under \in Seq(Fn) /\ Len(under) = L - 1
      BY <1>0, <2>1
    <2>3. \A n \in 1 .. L - 1 : under[n] = stack[n]
      BY <2>1
    <2> QED  BY <1>0, <2>2, <2>3
  <1>2. /\ Top \in Fn /\ Top = stack[L] /\ L \in 1 .. L
        /\ \A n \in 1 .. L : stack[n] \in Fn
        /\ \A n \in 1 .. L - 1 : n \in 1 .. L /\ stack[n] # Top
    BY <1>0, TopType DEF WalkInv, GreyOK, Top
  <1>3. /\ colour[Top] = "grey"
        /\ \A f \in Fn : /\ colour'[f] = IF f = Top THEN "black" ELSE colour[f]
                         /\ best'[f] = IF f = Top THEN total ELSE best[f]
    <2>1. colour[Top] = "grey"
      BY <1>2 DEF WalkInv, GreyOK
    <2>2. /\ colour' = [colour EXCEPT ![Top] = "black"]
          /\ best' = [best EXCEPT ![Top] = total]
      BY DEF Leave
    <2> QED  BY <1>2, <2>1, <2>2 DEF WalkInv, TypeOK
  <1>4. /\ L = 1 => deepest' = deepest
        /\ L > 1 => deepest' = [deepest EXCEPT ![stack[L - 1]] =
                                      Larger(deepest[stack[L - 1]], total)]
        /\ verdict' # "recursion"
    <2> HIDE DEF total
    <2> QED  BY <1>0, <1>1 DEF Leave, total
  <1>5. /\ \A f \in Fn : Edges(f) \subseteq Fn
        /\ \A c \in Edges(Top) : colour[c] = "black"
    <2>1. ~(L < L)
      BY <1>0
    <2>2. \A c \in Edges(Top) : colour[c] = "black"
      BY <1>0, <1>2, <2>1 DEF WalkInv, MetOK
    <2> QED  BY <2>2, FramesType DEF WalkInv, TypeOK
  <1>6. ASSUME NEW f \in Fn, colour[f] = "black"
        PROVE  \A c \in Edges(f) : colour[c] = "black"
    BY <1>6 DEF WalkInv, BlackOK
  <1>7. \A c \in Fn : colour[c] = "black" => c # Top /\ colour'[c] = "black" /\ best'[c] = best[c]
    BY <1>3
  <1> HIDE DEF under, L, total
  <1>8. StackOK'
    <2>1. \A n \in 1 .. L - 1 : /\ todo[stack[n]] \subseteq Edges(stack[n])
                                /\ n \in 1 .. (L - 1) - 1 => stack[n + 1] \in Edges(stack[n])
      <3>1. \A n \in 1 .. (L - 1) - 1 : n \in 1 .. L - 1
        BY <1>0
      <3> QED  BY <1>2, <3>1 DEF PathInv, StackOK, L
    <2>2. \A n \in 1 .. (L - 1) - 1 : n \in 1 .. L - 1 /\ n + 1 \in 1 .. L - 1
      BY <1>0
    <2>3. /\ \A n \in 1 .. L - 1 : todo'[stack'[n]] \subseteq Edges(stack'[n])
          /\ \A n \in 1 .. (L - 1) - 1 : stack'[n + 1] \in Edges(stack'[n])
      BY <1>0, <1>1, <2>1, <2>2
    <2>4. Len(stack') = L - 1
      BY <1>0, <1>1
    <2> QED  BY <1>0, <2>3, <2>4 DEF StackOK
  <1>9. DeepestOK'
    <2> SUFFICES ASSUME NEW n \in 1 .. L - 1
                 PROVE  \/ deepest'[stack[n]] = 0
                        \/ \E c \in Edges(stack[n]) :
                              colour'[c] = "black" /\ best'[c] = deepest'[stack[n]]
      BY <1>0, <1>1 DEF DeepestOK
    <2>1. stack[n] \in Fn /\ deepest \in [Fn -> Nat]
      BY <1>2 DEF WalkInv, TypeOK
    <2>2. CASE deepest'[stack[n]] = deepest[stack[n]]
      <3>1. \/ deepest[stack[n]] = 0
            \/ \E c \in Edges(stack[n]) : colour[c] = "black" /\ best[c] = deepest[stack[n]]
        BY <1>2 DEF PathInv, DeepestOK, L
      <3> QED  BY <1>5, <1>7, <2>1, <2>2, <3>1
    <2>3. CASE deepest'[stack[n]] # deepest[stack[n]]
      <3>1. L > 1
        BY <1>0
      <3>2. stack[n] = stack[L - 1] /\ deepest'[stack[n]] = total
        <4>1. stack[L - 1] \in Fn
          BY <1>0, <1>2, <3>1
        <4>2. deepest' = [deepest EXCEPT ![stack[L - 1]] = Larger(deepest[stack[L - 1]], total)]
          BY <1>4, <3>1
        <4>3. Larger(deepest[stack[L - 1]], total) \in {deepest[stack[L - 1]], total}
          BY DEF Larger
        <4> QED  BY <2>1, <2>3, <4>1, <4>2, <4>3
      <3>3. Top \in Edges(stack[L - 1])
        <4>1. L - 1 \in 1 .. L - 1 /\ (L - 1) + 1 = L
          BY <1>0, <3>1
        <4>2. stack[(L - 1) + 1] \in Edges(stack[L - 1])
          BY <4>1 DEF PathInv, StackOK, L
        <4> QED  BY <1>2, <4>1, <4>2
      <3> QED  BY <1>2, <1>3, <3>2, <3>3
    <2> QED  BY <2>2, <2>3
  <1>10. AttainedOK'
    <2> SUFFICES ASSUME NEW f \in Fn, colour'[f] = "black"
                 PROVE  \/ best'[f] = Frames(f)
                        \/ \E c \in Edges(f) : best'[f] = Frames(f) + best'[c]
      BY <1>0 DEF AttainedOK
    <2>1. CASE f = Top
      <3>1. \/ deepest[Top] = 0
            \/ \E c \in Edges(Top) : best[c] = deepest[Top]
        BY <1>2 DEF PathInv, DeepestOK, L
      <3>2. Frames(Top) \in Nat
        BY <1>2, FramesType DEF WalkInv, TypeOK
      <3>3. best'[f] = Frames(f) + deepest[f]
        BY <1>3, <2>1 DEF total
      <3> QED  BY <1>5, <1>7, <2>1, <3>1, <3>2, <3>3
    <2>2. CASE f # Top
      <3>1. colour[f] = "black" /\ best'[f] = best[f]
        BY <1>3, <2>2
      <3> QED  BY <1>5, <1>6, <1>7, <3>1 DEF PathInv, AttainedOK
    <2> QED  BY <2>1, <2>2
  <1>11. AcyclicOK'
    <2> SUFFICES ASSUME NEW S \in SUBSET {f \in Fn : colour'[f] = "black"}, S # {}
                 PROVE  \E f \in S : Edges(f) \cap S = {}
      BY <1>0 DEF AcyclicOK
    <2> DEFINE others == S \ {Top}
    <2>1. others \subseteq {f \in Fn : colour[f] = "black"}
      BY <1>3
    <2>2. CASE others = {}
      <3>1. S = {Top}
        BY <2>2
      <3>2. Top \notin Edges(Top)
        BY <1>3, <1>5
      <3> QED  BY <3>1, <3>2
    <2>3. CASE others # {}
      <3>1. PICK f \in others : Edges(f) \cap others = {}
        BY <2>1, <2>3 DEF PathInv, AcyclicOK
      <3>2. Top \notin Edges(f)
        BY <1>3, <1>6, <2>1, <3>1
      <3> QED  BY <3>1, <3>2
    <2> QED  BY <2>2, <2>3
  <1>12. CycleOK' /\ PrintedOK'
    BY <1>0, <1>4, NothingPrinted DEF Leave
  <1> QED  BY <1>8, <1>9, <1>10, <1>11, <1>12 DEF PathInv

\* The heaviest callee of a black function, if any weighs something, and the
\* function's own frame are what it weighs.
LEMMA HeaviestIs ==
    ASSUME WalkInv, AttainedOK, NEW f \in Fn, colour[f] = "black"
    PROVE  /\ \A c \in Heaviest(f) : /\ c \in Edges(f) /\ c \in Fn /\ colour[c] = "black"
                                     /\ best[f] = Frames(f) + best[c]
           /\ Heaviest(f) = {} => best[f] = Frames(f)
  <1>1. /\ Frames(f) \in Nat /\ best[f] \in Nat
        /\ \A c \in Edges(f) : /\ c \in Fn /\ colour[c] = "black" /\ best[c] \in Nat
                               /\ Frames(f) + best[c] <= best[f]
    BY FramesType DEF WalkInv, TypeOK, BlackOK
  <1>2. ASSUME NEW c \in Heaviest(f)
        PROVE  c \in Edges(f) /\ best[f] = Frames(f) + best[c]
    <2>1. c \in Edges(f) /\ best[c] > 0 /\ \A d \in Edges(f) : best[d] <= best[c]
      BY DEF Heaviest
    <2>2. best[f] = Frames(f) \/ \E d \in Edges(f) : best[f] = Frames(f) + best[d]
      BY DEF AttainedOK
    <2>3. best[f] # Frames(f)
      BY <1>1, <2>1
    <2>4. PICK d \in Edges(f) : best[f] = Frames(f) + best[d]
      BY <2>2, <2>3
    <2>5. best[d] <= best[c] /\ Frames(f) + best[c] <= best[f] /\ best[d] \in Nat /\ best[c] \in Nat
      BY <1>1, <2>1
    <2> QED  BY <1>1, <2>1, <2>4, <2>5
  <1>3. ASSUME best[f] # Frames(f) PROVE Heaviest(f) # {}
    <2>1. PICK d \in Edges(f) : best[f] = Frames(f) + best[d]
      BY <1>3 DEF AttainedOK
    <2>2. best[d] > 0
      BY <1>1, <1>3, <2>1
    <2>3. \A c \in Edges(f) : best[c] <= best[d]
      BY <1>1, <2>1
    <2> QED  BY <2>2, <2>3 DEF Heaviest
  <1> QED  BY <1>1, <1>2, <1>3

LEMMA PathPrint == ASSUME WalkInv, PathInv, PrintLine PROVE PathInv'
  <1> USE SameBinary, SameFrames
  <1>0. verdict = "total" /\ verdict' = "total" /\ UNCHANGED <<bin, colour, best>>
    BY DEF PrintLine
  <1>1. StackOK' /\ DeepestOK' /\ AttainedOK' /\ AcyclicOK' /\ CycleOK'
    BY <1>0, PathRests DEF PrintLine, CycleOK
  <1>2. /\ Root \in Fn /\ colour[Root] = "black" /\ best \in [Fn -> Nat]
        /\ ScriptFrames \in [Fn -> Nat] /\ \A f \in Fn : ScriptFrames[f] = Frames(f)
    BY <1>0, BinaryAssumption, ScriptFramesType DEF WalkInv, RootOK, TypeOK
  <1>3. CASE printed = <<>> /\ printed' = <<Root>>
    <2>1. Weight(ScriptFrames, <<Root>>) = Frames(Root)
      BY <1>2, WeightOne
    <2>2. /\ printed' \in Seq(Fn) /\ printed'[1] = Root /\ Len(printed') = 1
      BY <1>2, <1>3
    <2>3. Frames(Root) \in Nat /\ best[Root] \in Nat
      BY <1>2
    <2>4. Weight(ScriptFrames, printed') + best[Root] = best[Root] + Frames(Root)
      BY <1>3, <2>1, <2>3
    <2> QED  BY <1>0, <1>1, <1>2, <2>2, <2>4 DEF PathInv, PrintedOK
  <1>4. ASSUME printed # <<>>, NEW c \in Heaviest(printed[Len(printed)]),
               printed' = Append(printed, c)
        PROVE  PathInv'
    <2> DEFINE L == Len(printed)
               last == printed[L]
    <2>1. /\ printed \in Seq(Fn) /\ printed[1] = Root
          /\ \A n \in 1 .. L : colour[printed[n]] = "black"
          /\ \A n \in 1 .. L - 1 : printed[n + 1] \in Edges(printed[n])
          /\ Weight(ScriptFrames, printed) + best[last] = best[Root] + Frames(last)
      BY <1>4 DEF PathInv, PrintedOK
    <2>2. L \in Nat \ {0} /\ L \in 1 .. L /\ last \in Fn /\ colour[last] = "black"
      BY <1>4, <2>1
    <2>3. c \in Edges(last) /\ c \in Fn /\ colour[c] = "black" /\ best[last] = Frames(last) + best[c]
      BY <1>4, <2>2, HeaviestIs DEF PathInv
    <2>4. /\ printed' \in Seq(Fn) /\ Len(printed') = L + 1 /\ printed'[L + 1] = c
          /\ \A n \in 1 .. L : printed'[n] = printed[n]
      BY <1>4, <2>1, <2>3
    <2>5. Weight(ScriptFrames, printed') = Weight(ScriptFrames, printed) + Frames(c)
      BY <1>2, <1>4, <2>1, <2>3, WeightAppend
    <2>6. Weight(ScriptFrames, printed) \in Nat
      BY <1>2, <2>1, WeightType
    <2>7. /\ best[last] \in Nat /\ best[c] \in Nat /\ best[Root] \in Nat
          /\ Frames(last) \in Nat /\ Frames(c) \in Nat
      BY <1>2, <2>2, <2>3
    <2>8. Weight(ScriptFrames, printed') + best[c] = best[Root] + Frames(c)
      <3>1. ASSUME NEW w \in Nat, NEW bl \in Nat, NEW bc \in Nat, NEW br \in Nat,
                   NEW fl \in Nat, NEW fc \in Nat, w + bl = br + fl, bl = fl + bc
            PROVE  (w + fc) + bc = br + fc
        BY <3>1
      <3> QED  BY <2>1, <2>3, <2>5, <2>6, <2>7, <3>1
    <2>9. /\ \A n \in 1 .. L + 1 : n \in 1 .. L \/ n = L + 1
          /\ \A n \in 1 .. L : n \in 1 .. L - 1 \/ n = L
          /\ \A n \in 1 .. L - 1 : n \in 1 .. L /\ n + 1 \in 1 .. L
          /\ (L + 1) - 1 = L /\ 1 \in 1 .. L
      BY <2>2
    <2> HIDE DEF L
    <2>10. \A n \in 1 .. L + 1 : colour[printed'[n]] = "black"
      BY <2>1, <2>3, <2>4, <2>9
    <2>11. \A n \in 1 .. L : printed'[n + 1] \in Edges(printed'[n])
      BY <2>1, <2>3, <2>4, <2>9
    <2>12. printed'[1] = Root
      BY <2>1, <2>4, <2>9
    <2>13. PrintedOK'
      BY <1>0, <2>4, <2>8, <2>9, <2>10, <2>11, <2>12 DEF PrintedOK
    <2> QED  BY <1>1, <2>13 DEF PathInv
  <1> QED  BY <1>3, <1>4 DEF PrintLine

LEMMA PathStep == WalkInv /\ PathInv /\ Walk => PathInv'
  <1> SUFFICES ASSUME WalkInv, PathInv, Walk PROVE PathInv'
    OBVIOUS
  <1>1. CASE NotFound
    BY <1>1, PathNotFound
  <1>2. CASE Start
    BY <1>2, PathStart
  <1>3. CASE Leave
    BY <1>3, PathLeave
  <1>4. CASE PrintLine
    BY <1>4, PathPrint
  <1>5. ASSUME NEW c \in Fn, Recursion(c) PROVE PathInv'
    BY <1>5, PathRecursion
  <1>6. ASSUME NEW c \in Fn, Reuse(c) PROVE PathInv'
    BY <1>6, PathReuse
  <1>7. ASSUME NEW c \in Fn, Descend(c) PROVE PathInv'
    BY <1>7, PathDescend
  <1> QED  BY <1>1, <1>2, <1>3, <1>4, <1>5, <1>6, <1>7 DEF Walk

-----------------------------------------------------------------------------
Frame == [fn : Fn, sp : Nat]

BoardTypeOK ==
    /\ bin \in Binary
    /\ phase \in {"warm", "timed", "paint", "measured", "read", "report"}
    /\ round \in Nat
    /\ active \in Seq(Frame)
    /\ low \in Nat /\ low <= SP
    /\ dense \in BOOLEAN

\* The board waits for the script; between verifications nothing is active.
IdleOK ==
    /\ verdict # "total" => active = <<>> /\ low = SP
    /\ ~Verifying => active = <<>>

\* From the painting on: a window, under the pointer.
WindowOK ==
    phase \in {"measured", "read", "report"} =>
        \E bottom, top \in Nat :
            window = Some([bottom |-> bottom, top |-> top]) /\ bottom < top /\ top <= SP

\* A word of it that lost the pattern is one the painted run reached, and that
\* run's lowest word lost it if its frames wrote theirs.
PaintOK ==
    phase \in {"measured", "read", "report"} =>
        /\ \A a \in window.val.bottom .. window.val.top - 1 : a \notin painted => low <= a
        /\ dense /\ low < SP => low \notin painted

\* low is the lowest of the frames.
LowOK == phase = "measured" => \A n \in DOMAIN active : low <= active[n].sp

\* What was read of them.
UsedOK ==
    phase = "report" =>
        /\ used = None => low <= window.val.bottom
        /\ used # None =>
            /\ used.val \in Nat
            /\ used.val = 0 \/ low <= window.val.top - used.val
            /\ dense /\ window.val.bottom < low /\ low < window.val.top
                => window.val.top - low <= used.val

\* What is on the stack above a frame, and what the script found the function
\* to weigh, are within its total.
TotalOK ==
    verdict = "total" /\ Complete =>
        /\ SP - low <= best[Root]
        /\ \A n \in DOMAIN active : LET fn == active[n].fn IN
            /\ colour[fn] = "black"
            /\ (SP - active[n].sp) - Frames(fn) + best[fn] <= best[Root]

BoardInv ==
    /\ BoardTypeOK /\ IdleOK /\ WindowOK /\ PaintOK /\ LowOK /\ UsedOK /\ TotalOK

ProbeInv == WalkInv /\ BoardInv

-----------------------------------------------------------------------------
LEMMA BinaryFacts ==
    ASSUME WalkInv, BoardTypeOK
    PROVE  /\ SP \in Nat /\ MARGIN \in Nat /\ PaintFrame \in Nat /\ Root \in Fn
           /\ bin.frame \in [Fn -> Nat] /\ bin.limit \in Nat /\ bin.rounds \in Seq(Nat)
           /\ best \in [Fn -> Nat]
           /\ \A s \in bin.sites : s.in \in Fn /\ s.to \in Fn
  <1>1. SP \in Nat /\ MARGIN \in Nat /\ PaintFrame \in Nat /\ Root \in Fn
    BY BoardAssumption, BinaryAssumption
  <1>2. bin.limit \in Nat /\ bin.rounds \in Seq(Nat)
    BY BoardAssumption DEF BoardTypeOK
  <1>3. IsBinary(bin) /\ best \in [Fn -> Nat]
    BY DEF WalkInv, TypeOK
  <1>4. bin.frame \in [Fn -> Nat] /\ \A s \in bin.sites : s.in \in Fn /\ s.to \in Fn
    BY <1>3 DEF IsBinary
  <1> QED  BY <1>1, <1>2, <1>3, <1>4

\* Where nothing is hidden, the script has the real frame.
LEMMA FrameIsListed ==
    ASSUME WalkInv, Complete, NEW f \in Fn
    PROVE  Frames(f) = bin.frame[f]
  <1>1. IsBinary(bin)
    BY DEF WalkInv, TypeOK
  <1>2. bin.frame[f] \in Nat /\ bin.listed[f] \in SUBSET (0 .. bin.frame[f])
    BY <1>1 DEF IsBinary
  <1>3. bin.frame[f] \in bin.listed[f]
    BY DEF Complete
  <1>4. Frames(f) \in bin.listed[f] /\ Frames(f) \in Nat /\ bin.frame[f] <= Frames(f)
    BY <1>2, <1>3, LargestIsAbove DEF Frames
  <1>5. Frames(f) <= bin.frame[f]
    BY <1>2, <1>4
  <1> QED  BY <1>2, <1>4, <1>5

\* The search upwards: the first word that lost the pattern, if there is one.
LEMMA WatermarkIs ==
    ASSUME NEW bottom \in Nat, NEW top \in Nat, bottom < top
    PROVE  LET gone == (bottom .. top - 1) \ painted IN
           \/ gone = {} /\ Watermark(bottom, top) = Some(top - top)
           \/ \E p \in gone :
                /\ \A a \in gone : p <= a
                /\ Watermark(bottom, top) = IF p = bottom THEN None ELSE Some(top - p)
  <1> DEFINE gone == (bottom .. top - 1) \ painted
  <1>1. CASE gone = {}
    BY <1>1 DEF Watermark
  <1>2. CASE gone # {}
    <2>1. \E p \in gone : \A a \in gone : p <= a
      <3>1. gone \in SUBSET Nat
        OBVIOUS
      <3> HIDE DEF gone
      <3> QED  BY <1>2, <3>1, LeastOfNumbers
    <2> HIDE DEF gone
    <2>2. Lowest(gone) \in gone /\ \A a \in gone : Lowest(gone) <= a
      BY <2>1, Zenon DEF Lowest
    <2>3. gone \subseteq Int /\ \A p \in gone : p # top
      BY DEF gone
    <2>4. Watermark(bottom, top) =
            IF Lowest(gone) = bottom THEN None ELSE Some(top - Lowest(gone))
      BY <1>2 DEF Watermark, gone
    <2> QED  BY <2>2, <2>4 DEF gone
  <1> QED  BY <1>1, <1>2

LEMMA BoardInit == ProbeInit => BoardInv
  <1> SUFFICES ASSUME ProbeInit PROVE BoardInv
    OBVIOUS
  <1> USE DEF ProbeInit, Init
  <1>1. BoardTypeOK
    BY BoardAssumption DEF BoardTypeOK
  <1>2. IdleOK /\ WindowOK /\ PaintOK /\ LowOK /\ UsedOK /\ TotalOK
    BY DEF IdleOK, WindowOK, PaintOK, LowOK, UsedOK, TotalOK
  <1> QED  BY <1>1, <1>2 DEF BoardInv

-----------------------------------------------------------------------------
\* The script, before its total, has nothing to do with the board; after it, it
\* prints.
LEMMA ScriptKeeps == ASSUME ProbeInv, Script PROVE BoardInv'
  <1> USE SameBinary
  <1>1. bin' = bin /\ UNCHANGED boardVars
    BY DEF Script, Walk, NotFound, Start, Leave, PrintLine, Recursion, Reuse, Descend
  <1>2. BoardTypeOK'
    BY <1>1 DEF ProbeInv, BoardInv, BoardTypeOK, boardVars
  <1>3. \/ UNCHANGED <<colour, best>> /\ verdict' = verdict
        \/ verdict # "total"
    BY DEF Script, Walk, NotFound, Start, Leave, PrintLine, Recursion, Reuse, Descend, Takes
  <1>4. WindowOK' /\ PaintOK' /\ LowOK' /\ UsedOK'
    BY <1>1 DEF ProbeInv, BoardInv, WindowOK, PaintOK, LowOK, UsedOK, boardVars
  <1>5. CASE UNCHANGED <<colour, best>> /\ verdict' = verdict
    <2>1. IdleOK'
      BY <1>1, <1>5 DEF ProbeInv, BoardInv, IdleOK, Verifying, boardVars
    <2>2. Complete' = Complete
      BY <1>1 DEF Complete
    <2>3. TotalOK'
      BY <1>1, <1>5, <2>2 DEF ProbeInv, BoardInv, TotalOK, boardVars
    <2> QED  BY <1>2, <1>4, <2>1, <2>3 DEF BoardInv
  <1>6. CASE verdict # "total"
    <2>1. active' = <<>> /\ low' = SP
      BY <1>1, <1>6 DEF ProbeInv, BoardInv, IdleOK, boardVars
    <2>2. IdleOK'
      BY <2>1 DEF IdleOK
    <2>3. SP - SP = 0
      BY BoardAssumption
    <2>4. WalkInv'
      BY WalkStep DEF ProbeInv, Script
    <2>5. best'[Root] \in Nat
      BY <2>4, BinaryAssumption DEF WalkInv, TypeOK
    <2>6. TotalOK'
      BY <2>1, <2>3, <2>5 DEF TotalOK
    <2> QED  BY <1>2, <1>4, <2>2, <2>6 DEF BoardInv
  <1> QED  BY <1>3, <1>5, <1>6

-----------------------------------------------------------------------------
\* A frame more: base is where it goes, no lower than what runs already, and
\* callers stay as they are.  The total covers f and what is above base.
LEMMA PushKeeps ==
    ASSUME ProbeInv, Verifying, UNCHANGED graphVars, verdict = "total",
           NEW f \in Fn, NEW base \in Nat, NEW callers \in Seq(Frame),
           Len(callers) <= Len(active),
           \A n \in 1 .. Len(callers) : callers[n] = active[n],
           phase = "measured" => low <= base,
           Complete => colour[f] = "black" /\ (SP - base) + best[f] <= best[Root],
           Push(f, base, callers)
    PROVE  BoardInv'
  <1> USE SameBinary
  <1> DEFINE sp == base - bin.frame[f]
             L == Len(callers)
  <1>0. WalkInv /\ BoardTypeOK /\ bin' = bin /\ verdict' = "total" /\ best' = best /\ colour' = colour
    BY DEF ProbeInv, BoardInv, graphVars
  <1>1. bin.frame[f] \in Nat /\ SP \in Nat /\ best[Root] \in Nat /\ best[f] \in Nat /\ sp \in Nat /\ sp <= base
    <2>1. bin.frame[f] \in Nat /\ SP \in Nat /\ best[Root] \in Nat /\ best[f] \in Nat /\ bin.limit \in Nat
      BY <1>0, BinaryFacts
    <2>2. bin.limit <= sp
      BY DEF Push
    <2> QED  BY <2>1, <2>2
  <1>a. sp \in Nat /\ sp + bin.frame[f] = base /\ (bin.frame[f] = 0 => sp = base)
    BY <1>1
  <1>b. (SP - sp) - bin.frame[f] = SP - base
    <2>1. bin.frame[f] \in Int /\ SP \in Int /\ base \in Int
      BY <1>1
    <2> QED  BY <2>1
  <1>2. /\ active' = Append(callers, [fn |-> f, sp |-> sp])
        /\ UNCHANGED <<round, phase, window, used>>
    BY DEF Push
  <1>3. /\ active' \in Seq(Frame) /\ DOMAIN active' = 1 .. L + 1
        /\ active'[L + 1] = [fn |-> f, sp |-> sp]
        /\ \A n \in 1 .. L : active'[n] = callers[n]
    <2>1. [fn |-> f, sp |-> sp] \in Frame
      BY <1>1 DEF Frame
    <2> HIDE DEF sp
    <2> QED  BY <1>2, <2>1
  <1>4. PICK written \in SUBSET (sp .. base - 1) :
            /\ painted' = painted \ written
            /\ IF phase = "measured"
                THEN /\ low' = IF sp < low THEN sp ELSE low
                     /\ dense' = (dense /\ (bin.frame[f] > 0 => sp \in written))
                ELSE UNCHANGED <<low, dense>>
    BY DEF Push
  <1> HIDE DEF sp
  <1>5. low \in Nat /\ low <= SP /\ dense \in BOOLEAN
    BY <1>0 DEF BoardTypeOK
  <1>6. low' \in Nat /\ low' <= low /\ dense' \in BOOLEAN /\ (phase = "measured" => low' <= sp)
    <2>1. CASE phase = "measured"
      <3>1. low' = IF sp < low THEN sp ELSE low
        BY <1>4, <2>1
      <3>2. dense' \in BOOLEAN
        BY <1>4, <2>1
      <3> QED  BY <1>5, <1>a, <3>1, <3>2
    <2>2. CASE phase # "measured"
      BY <1>4, <1>5, <2>2
    <2> QED  BY <2>1, <2>2
  <1>7. BoardTypeOK'
    BY <1>0, <1>1, <1>2, <1>3, <1>5, <1>6 DEF BoardTypeOK
  <1>8. IdleOK'
    BY <1>0, <1>2 DEF IdleOK, Verifying
  <1>9. WindowOK'
    BY <1>2 DEF ProbeInv, BoardInv, WindowOK
  <1>10. PaintOK'
    <2> SUFFICES ASSUME phase = "measured" PROVE PaintOK'
      BY <1>2 DEF PaintOK, Verifying
    <2>0. phase = "measured"
      OBVIOUS
    <2>1. ASSUME NEW a \in window.val.bottom .. window.val.top - 1, a \notin painted'
          PROVE  low' <= a
      <3>1. a \in Int
        BY DEF ProbeInv, BoardInv, WindowOK, Some
      <3>2. CASE a \notin painted
        <4>1. low <= a
          BY <3>2 DEF ProbeInv, BoardInv, PaintOK
        <4> QED  BY <1>5, <1>6, <3>1, <4>1
      <3>3. CASE a \in written
        <4>1. sp <= a
          BY <1>a, <3>1, <3>3
        <4> QED  BY <1>6, <1>a, <3>1, <4>1, <2>0
      <3> QED  BY <1>4, <2>1, <3>2, <3>3
    <2>2. ASSUME dense', low' < SP PROVE low' \notin painted'
      <3>1. dense /\ (bin.frame[f] > 0 => sp \in written) /\ low' = IF sp < low THEN sp ELSE low
        BY <1>4, <2>2
      <3>2. CASE sp < low
        <4>1. bin.frame[f] > 0
          <5>1. low <= base
            BY <2>0
          <5> QED  BY <1>1, <1>5, <1>a, <3>2, <5>1
        <4> QED  BY <1>4, <3>1, <3>2, <4>1
      <3>3. CASE ~(sp < low)
        <4>1. low \notin painted
          BY <2>2, <3>1, <3>3 DEF ProbeInv, BoardInv, PaintOK
        <4> QED  BY <1>4, <3>1, <3>3, <4>1
      <3> QED  BY <3>2, <3>3
    <2> QED  BY <1>2, <2>1, <2>2 DEF PaintOK
  <1>11. LowOK'
    <2> SUFFICES ASSUME phase = "measured", NEW n \in 1 .. L + 1 PROVE low' <= active'[n].sp
      BY <1>2, <1>3 DEF LowOK
    <2>1. CASE n = L + 1
      BY <1>3, <1>6, <2>1
    <2>2. CASE n \in 1 .. L
      <3>0. active \in Seq(Frame) /\ Len(active) \in Nat /\ L \in Nat
        BY <1>0 DEF BoardTypeOK
      <3>1. n \in DOMAIN active /\ active'[n] = active[n] /\ active[n] \in Frame
        BY <1>3, <2>2, <3>0
      <3>2. low <= active[n].sp
        BY <3>1 DEF ProbeInv, BoardInv, LowOK
      <3>3. active[n].sp \in Nat
        BY <3>1 DEF Frame
      <3> QED  BY <1>5, <1>6, <3>1, <3>2, <3>3
    <2> QED  BY <2>1, <2>2
  <1>12. UsedOK'
    BY <1>2 DEF UsedOK, Verifying
  <1>13. TotalOK'
    <2> SUFFICES ASSUME Complete PROVE TotalOK'
      BY <1>0 DEF TotalOK, Complete
    <2>1. Frames(f) = bin.frame[f] /\ bin.frame[f] <= best[f] /\ colour[f] = "black"
      BY <1>0, <1>1, FrameIsListed DEF WalkInv, BlackOK
    <2>2. SP - low' <= best[Root]
      <3>1. SP - sp <= best[Root]
        <4>1. (SP - base) + best[f] <= best[Root]
          OBVIOUS
        <4> QED  BY <1>1, <1>a, <2>1, <4>1
      <3>2. SP - low <= best[Root]
        BY <1>0 DEF ProbeInv, BoardInv, TotalOK
      <3>3. low' \in {sp, low}
        BY <1>4
      <3> QED  BY <3>1, <3>2, <3>3
    <2>3. ASSUME NEW n \in 1 .. L + 1
          PROVE  /\ colour[active'[n].fn] = "black"
                 /\ (SP - active'[n].sp) - Frames(active'[n].fn) + best[active'[n].fn] <= best[Root]
      <3>1. CASE n = L + 1
        <4>1. (SP - base) + best[f] <= best[Root]
          OBVIOUS
        <4>2. active'[n].fn = f /\ active'[n].sp = sp
          BY <1>3, <3>1
        <4>3. (SP - sp) - Frames(f) + best[f] <= best[Root]
          <5>1. Frames(f) = bin.frame[f]
            BY <2>1
          <5> QED  BY <1>b, <4>1, <5>1
        <4> QED  BY <2>1, <4>2, <4>3
      <3>2. CASE n \in 1 .. L
        <4>1. n \in DOMAIN active /\ active'[n] = active[n]
          BY <1>0, <1>3, <3>2 DEF BoardTypeOK
        <4> QED  BY <4>1 DEF ProbeInv, BoardInv, TotalOK
      <3> QED  BY <3>1, <3>2
    <2> QED  BY <1>0, <1>3, <2>2, <2>3 DEF TotalOK
  <1> QED  BY <1>7, <1>8, <1>9, <1>10, <1>11, <1>12, <1>13 DEF BoardInv

\* Main calls the verifier: all the total is still to come.
LEMMA BeginKeeps ==
    ASSUME ProbeInv, verdict = "total", Begin, UNCHANGED graphVars PROVE BoardInv'
  <1>0. WalkInv /\ BoardTypeOK
    BY DEF ProbeInv, BoardInv
  <1>1. /\ Verifying /\ active = <<>> /\ Push(Root, SP, <<>>)
        /\ Root \in Fn /\ SP \in Nat /\ best[Root] \in Nat /\ <<>> \in Seq(Frame)
    BY <1>0, BinaryFacts DEF Begin
  <1>2. low <= SP
    BY <1>0 DEF BoardTypeOK
  <1>3. colour[Root] = "black" /\ (SP - SP) + best[Root] <= best[Root]
    BY <1>0, <1>1 DEF WalkInv, RootOK
  <1>4. Len(<<>>) <= Len(active) /\ \A n \in 1 .. Len(<<>>) : <<>>[n] = active[n]
    BY <1>1
  <1> QED  BY <1>1, <1>2, <1>3, <1>4, PushKeeps

\* The frame that runs.
LEMMA InnermostType ==
    ASSUME BoardTypeOK, active # <<>>
    PROVE  /\ Len(active) \in DOMAIN active /\ Innermost = active[Len(active)]
           /\ Innermost \in Frame /\ Innermost.fn \in Fn /\ Innermost.sp \in Nat
           /\ Callers \in Seq(Frame) /\ Len(Callers) = Len(active) - 1
           /\ \A n \in 1 .. Len(Callers) : n \in DOMAIN active /\ Callers[n] = active[n]
  <1>1. active \in Seq(Frame) /\ Len(active) \in Nat \ {0}
    BY DEF BoardTypeOK
  <1>2. Len(active) \in DOMAIN active /\ Innermost = active[Len(active)] /\ Innermost \in Frame
    BY <1>1 DEF Innermost
  <1>3. Innermost.fn \in Fn /\ Innermost.sp \in Nat
    BY <1>2 DEF Frame
  <1>4. Callers = [n \in 1 .. Len(active) - 1 |-> active[n]]
    BY <1>1 DEF Callers
  <1>5. Callers \in Seq(Frame) /\ Len(Callers) = Len(active) - 1
    BY <1>1, <1>4
  <1>6. \A n \in 1 .. Len(Callers) : n \in DOMAIN active /\ Callers[n] = active[n]
    BY <1>1, <1>4, <1>5
  <1> QED  BY <1>2, <1>3, <1>5, <1>6

\* A call the script has met: the callee is within what its caller weighs.
LEMMA CallsKeeps ==
    ASSUME ProbeInv, verdict = "total", NEW s \in bin.sites, Calls(s), UNCHANGED graphVars
    PROVE  BoardInv'
  <1>0. WalkInv /\ BoardTypeOK
    BY DEF ProbeInv, BoardInv
  <1>1. /\ Verifying /\ active # <<>> /\ s.in = Innermost.fn /\ s.to \in Fn
        /\ Push(s.to, Innermost.sp, active)
    BY <1>0, BinaryFacts DEF Calls
  <1>2. /\ Len(active) \in DOMAIN active /\ Innermost = active[Len(active)]
        /\ Innermost.fn \in Fn /\ Innermost.sp \in Nat /\ active \in Seq(Frame) /\ Len(active) \in Nat
    BY <1>0, <1>1, InnermostType DEF BoardTypeOK
  <1>3. phase = "measured" => low <= Innermost.sp
    BY <1>2 DEF ProbeInv, BoardInv, LowOK
  <1>4. ASSUME Complete
        PROVE  colour[s.to] = "black" /\ (SP - Innermost.sp) + best[s.to] <= best[Root]
    <2>1. s.to \in Edges(Innermost.fn)
      BY <1>1, <1>4 DEF Complete, Edges
    <2>2. colour[Innermost.fn] = "black" /\ (SP - Innermost.sp) - Frames(Innermost.fn) + best[Innermost.fn] <= best[Root]
      BY <1>2, <1>4 DEF ProbeInv, BoardInv, TotalOK
    <2>3. colour[s.to] = "black" /\ Frames(Innermost.fn) + best[s.to] <= best[Innermost.fn]
      BY <1>0, <1>2, <2>1, <2>2 DEF WalkInv, BlackOK
    <2>4. /\ SP \in Nat /\ best[Root] \in Nat /\ best[s.to] \in Nat /\ best[Innermost.fn] \in Nat
          /\ Frames(Innermost.fn) \in Nat
      BY <1>0, <1>1, <1>2, BinaryFacts, FramesType DEF WalkInv, TypeOK
    <2>5. ASSUME NEW w \in Nat, NEW x \in Nat, NEW y \in Nat, NEW z \in Nat, NEW l \in Nat,
                 (SP - l) - w + x <= z, w + y <= x
          PROVE  (SP - l) + y <= z
      BY <2>4, <2>5
    <2> QED  BY <1>2, <2>2, <2>3, <2>4, <2>5
  <1>5. Len(active) <= Len(active)
    BY <1>2
  <1> QED  BY <1>1, <1>2, <1>3, <1>4, <1>5, PushKeeps

\* The callee's frame takes the place of its caller's; the script sees none.
LEMMA TailCallsKeeps ==
    ASSUME ProbeInv, verdict = "total", NEW s \in bin.sites, TailCalls(s), UNCHANGED graphVars
    PROVE  BoardInv'
  <1>0. WalkInv /\ BoardTypeOK
    BY DEF ProbeInv, BoardInv
  <1> DEFINE base == Innermost.sp + bin.frame[Innermost.fn]
  <1>1. /\ Verifying /\ active # <<>> /\ s.in = Innermost.fn /\ s.to \in Fn /\ s.as = "branch"
        /\ Push(s.to, base, Callers)
    BY <1>0, BinaryFacts DEF TailCalls
  <1>2. /\ Len(active) \in DOMAIN active /\ Innermost = active[Len(active)]
        /\ Innermost.fn \in Fn /\ Innermost.sp \in Nat
        /\ Callers \in Seq(Frame) /\ Len(Callers) = Len(active) - 1 /\ Len(active) \in Nat
        /\ \A n \in 1 .. Len(Callers) : Callers[n] = active[n]
    BY <1>0, <1>1, InnermostType DEF BoardTypeOK
  <1>3. bin.frame[Innermost.fn] \in Nat
    BY <1>0, <1>2, BinaryFacts
  <1>4. base \in Nat /\ (phase = "measured" => low <= base)
    <2>1. low \in Nat /\ (phase = "measured" => low <= Innermost.sp)
      BY <1>0, <1>2 DEF ProbeInv, BoardInv, BoardTypeOK, LowOK
    <2> QED  BY <1>2, <1>3, <2>1
  <1>5. ~Complete
    BY <1>1 DEF Complete
  <1>6. Len(Callers) <= Len(active)
    BY <1>2
  <1> HIDE DEF base
  <1> QED  BY <1>1, <1>2, <1>4, <1>5, <1>6, PushKeeps

LEMMA ReturnsKeeps ==
    ASSUME ProbeInv, verdict = "total", Returns, UNCHANGED graphVars PROVE BoardInv'
  <1> USE SameBinary
  <1>0. /\ WalkInv /\ BoardTypeOK /\ bin' = bin /\ verdict' = "total"
        /\ best' = best /\ colour' = colour
    BY DEF ProbeInv, BoardInv, graphVars
  <1>1. /\ active # <<>> /\ active' = Callers
        /\ UNCHANGED <<round, painted, window, low, dense, used>>
    BY DEF Returns
  <1>2. /\ Callers \in Seq(Frame) /\ DOMAIN Callers = 1 .. Len(Callers)
        /\ \A n \in 1 .. Len(Callers) : n \in DOMAIN active /\ Callers[n] = active[n]
    BY <1>0, <1>1, InnermostType
  <1>3. \/ phase' = phase /\ phase \in {"warm", "timed", "measured"}
        \/ /\ active' = <<>>
           /\ \/ phase = "warm" /\ phase' = "timed"
              \/ phase = "timed" /\ phase' = "paint"
              \/ phase = "measured" /\ phase' = "read"
    BY DEF Returns, Verifying, After
  <1>4. BoardTypeOK'
    BY <1>0, <1>1, <1>2, <1>3 DEF BoardTypeOK
  <1>5. IdleOK'
    BY <1>0, <1>3 DEF IdleOK, Verifying
  <1>6. phase' \in {"measured", "read", "report"} => phase = "measured"
    BY <1>3
  <1>7. WindowOK'
    BY <1>1, <1>6 DEF ProbeInv, BoardInv, WindowOK
  <1>8. PaintOK'
    BY <1>1, <1>6 DEF ProbeInv, BoardInv, PaintOK
  <1>9. LowOK'
    BY <1>1, <1>2, <1>3 DEF ProbeInv, BoardInv, LowOK
  <1>10. UsedOK'
    BY <1>3 DEF UsedOK
  <1>11. TotalOK'
    <2> SUFFICES ASSUME Complete PROVE TotalOK'
      BY <1>0 DEF TotalOK, Complete
    <2>1. SP - low <= best[Root]
      BY <1>0 DEF ProbeInv, BoardInv, TotalOK
    <2>2. ASSUME NEW n \in DOMAIN active'
          PROVE  /\ colour[active'[n].fn] = "black"
                 /\ (SP - active'[n].sp) - Frames(active'[n].fn) + best[active'[n].fn] <= best[Root]
      <3>1. n \in DOMAIN active /\ active'[n] = active[n]
        BY <1>1, <1>2
      <3> QED  BY <1>0, <3>1 DEF ProbeInv, BoardInv, TotalOK
    <2> QED  BY <1>0, <1>1, <2>1, <2>2 DEF TotalOK
  <1> QED  BY <1>4, <1>5, <1>7, <1>8, <1>9, <1>10, <1>11 DEF BoardInv

\* What main does between verifications, when nothing is active.
LEMMA BetweenKeeps ==
    ASSUME ProbeInv, verdict = "total", UNCHANGED <<graphVars, active>>, ~Verifying,
           low' = low \/ low' = SP, BoardTypeOK'
    PROVE  IdleOK' /\ LowOK' /\ TotalOK'
  <1> USE SameBinary
  <1>0. /\ WalkInv /\ BoardTypeOK /\ bin' = bin /\ verdict' = "total"
        /\ best' = best /\ colour' = colour /\ active' = <<>>
    BY DEF ProbeInv, BoardInv, IdleOK, graphVars
  <1>1. IdleOK'
    BY <1>0 DEF IdleOK
  <1>2. LowOK'
    BY <1>0 DEF LowOK
  <1>3. TotalOK'
    <2>1. SP - SP = 0 /\ best[Root] \in Nat
      BY <1>0, BinaryFacts
    <2>2. Complete => SP - low' <= best[Root]
      BY <1>0, <2>1 DEF ProbeInv, BoardInv, TotalOK
    <2> QED  BY <1>0, <2>2 DEF TotalOK, Complete
  <1> QED  BY <1>1, <1>2, <1>3

LEMMA PaintKeeps ==
    ASSUME ProbeInv, verdict = "total", round \in DOMAIN bin.rounds, Paint, UNCHANGED graphVars
    PROVE  BoardInv'
  <1> DEFINE bottom == BottomOf(bin.rounds[round])
  <1>0. WalkInv /\ BoardTypeOK /\ bin' = bin
    BY DEF ProbeInv, BoardInv, graphVars
  <1>1. /\ phase = "paint" /\ phase' = "measured" /\ low' = SP /\ dense' = TRUE
        /\ used' = None /\ UNCHANGED <<round, active>>
        /\ TopOf >= 0 /\ bottom < TopOf
        /\ painted' = painted \cup (bottom .. TopOf - 1)
        /\ window' = Some([bottom |-> bottom, top |-> TopOf])
    BY DEF Paint, Pattern
  <1>2. SP \in Nat /\ TopOf \in Nat /\ TopOf <= SP /\ bottom \in Nat
    <2>1. /\ SP \in Nat /\ MARGIN \in Nat /\ PaintFrame \in Nat /\ bin.limit \in Nat
          /\ bin.rounds[round] \in Nat
      BY <1>0, BinaryFacts
    <2>2. TopOf \in Nat /\ TopOf <= SP
      BY <1>1, <2>1 DEF TopOf
    <2> QED  BY <2>1, <2>2 DEF BottomOf, AtLeast
  <1> HIDE DEF bottom
  <1>3. BoardTypeOK'
    BY <1>0, <1>1, <1>2 DEF BoardTypeOK
  <1>4. IdleOK' /\ LowOK' /\ TotalOK'
    BY <1>1, <1>3, BetweenKeeps DEF Verifying
  <1>5. WindowOK'
    BY <1>1, <1>2 DEF WindowOK
  <1>6. PaintOK'
    <2>1. window'.val.bottom = bottom /\ window'.val.top = TopOf
      BY <1>1 DEF Some
    <2>2. ~(low' < SP)
      BY <1>1, <1>2
    <2> QED  BY <1>1, <2>1, <2>2 DEF PaintOK
  <1>7. UsedOK'
    BY <1>1 DEF UsedOK
  <1> QED  BY <1>3, <1>4, <1>5, <1>6, <1>7 DEF BoardInv

LEMMA ReadKeeps ==
    ASSUME ProbeInv, verdict = "total", Read, UNCHANGED graphVars PROVE BoardInv'
  <1>0. WalkInv /\ BoardTypeOK /\ bin' = bin
    BY DEF ProbeInv, BoardInv, graphVars
  <1>1. /\ phase = "read" /\ phase' = "report"
        /\ used' = Watermark(window.val.bottom, window.val.top)
        /\ UNCHANGED <<round, active, painted, window, low, dense>>
    BY DEF Read
  <1>2. BoardTypeOK'
    BY <1>0, <1>1 DEF BoardTypeOK
  <1>3. IdleOK' /\ LowOK' /\ TotalOK'
    BY <1>1, <1>2, BetweenKeeps DEF Verifying
  <1>4. WindowOK' /\ PaintOK'
    BY <1>1 DEF ProbeInv, BoardInv, WindowOK, PaintOK
  <1>5. UsedOK'
    <2>1. PICK bottom \in Nat, top \in Nat :
            window = Some([bottom |-> bottom, top |-> top]) /\ bottom < top /\ top <= SP
      BY <1>1 DEF ProbeInv, BoardInv, WindowOK
    <2>2. window.val.bottom = bottom /\ window.val.top = top
      BY <2>1 DEF Some
    <2> DEFINE gone == (bottom .. top - 1) \ painted
    <2>3. \A a \in gone : low <= a
      BY <1>1, <2>2 DEF ProbeInv, BoardInv, PaintOK
    <2>4. low \in Nat /\ low <= SP /\ SP \in Nat
      BY <1>0, BinaryFacts DEF BoardTypeOK
    <2>5. dense /\ bottom < low /\ low < top => low \in gone
      BY <1>1, <2>1, <2>4 DEF ProbeInv, BoardInv, PaintOK
    <2>6. CASE gone = {} /\ used' = Some(top - top)
      <3>1. used' # None /\ used'.val = 0
        BY <2>1, <2>6 DEF Some, None
      <3> QED  BY <1>1, <2>2, <2>5, <2>6, <3>1 DEF UsedOK
    <2>7. ASSUME NEW p \in gone, \A a \in gone : p <= a,
                 used' = IF p = bottom THEN None ELSE Some(top - p)
          PROVE  UsedOK'
      <3>1. p \in Nat /\ low <= p /\ p < top
        BY <2>1, <2>3
      <3>2. CASE p = bottom
        <4>1. used' = None
          BY <2>7, <3>2
        <4> QED  BY <1>1, <2>2, <3>1, <3>2, <4>1 DEF UsedOK
      <3>3. CASE p # bottom
        <4>1. used' = Some(top - p)
          BY <2>7, <3>3
        <4>2. used'.val = top - p /\ used' # None
          BY <4>1 DEF Some, None
        <4>3. top - p \in Nat /\ low <= top - (top - p)
          BY <2>1, <2>4, <3>1
        <4>4. dense /\ bottom < low /\ low < top => top - low <= top - p
          BY <2>1, <2>4, <2>5, <2>7, <3>1
        <4> QED  BY <1>1, <2>2, <4>2, <4>3, <4>4 DEF UsedOK
      <3> QED  BY <3>2, <3>3
    <2> QED  BY <1>1, <2>1, <2>2, <2>6, <2>7, WatermarkIs
  <1> QED  BY <1>2, <1>3, <1>4, <1>5 DEF BoardInv

\* To the next round, with what there was to report.
LEMMA NextRoundKeeps ==
    ASSUME ProbeInv, verdict = "total", PaintFails \/ Report, UNCHANGED graphVars PROVE BoardInv'
  <1>0. WalkInv /\ BoardTypeOK /\ bin' = bin
    BY DEF ProbeInv, BoardInv, graphVars
  <1>1. /\ ~Verifying /\ phase' = "warm" /\ round' = round + 1
        /\ UNCHANGED <<active, painted, low, dense>>
    BY DEF PaintFails, Report, NextRound, Verifying
  <1>2. BoardTypeOK'
    BY <1>0, <1>1 DEF BoardTypeOK
  <1>3. IdleOK' /\ LowOK' /\ TotalOK'
    BY <1>1, <1>2, BetweenKeeps
  <1>4. WindowOK' /\ PaintOK' /\ UsedOK'
    BY <1>1 DEF WindowOK, PaintOK, UsedOK
  <1> QED  BY <1>2, <1>3, <1>4 DEF BoardInv

-----------------------------------------------------------------------------
LEMMA NextProbeInv == ProbeInv /\ [Next]_vars => ProbeInv'
  <1> SUFFICES ASSUME ProbeInv, [Next]_vars PROVE ProbeInv'
    OBVIOUS
  <1>1. CASE Script
    BY <1>1, ScriptKeeps, WalkStep DEF Script, ProbeInv
  <1>2. CASE Board
    <2>1. verdict = "total" /\ round \in DOMAIN bin.rounds /\ UNCHANGED graphVars
      BY <1>2 DEF Board
    <2>2. \/ Begin \/ Returns \/ PaintFails \/ Paint \/ Read \/ Report
          \/ \E s \in bin.sites : Calls(s) \/ TailCalls(s)
      BY <1>2 DEF Board
    <2>3. BoardInv'
      BY <2>1, <2>2, BeginKeeps, CallsKeeps, TailCallsKeeps, ReturnsKeeps, PaintKeeps,
         ReadKeeps, NextRoundKeeps
    <2> QED  BY <2>1, <2>3, WalkStutter DEF ProbeInv
  <1>3. CASE UNCHANGED vars
    <2>1. UNCHANGED graphVars /\ UNCHANGED boardVars
      BY <1>3 DEF vars
    <2>2. WalkInv'
      BY <2>1, WalkStutter DEF ProbeInv
    <2>3. BoardInv'
      BY <2>1, SameBinary
         DEF ProbeInv, BoardInv, BoardTypeOK, IdleOK, WindowOK, PaintOK, LowOK, UsedOK, TotalOK,
             Complete, Verifying, graphVars, boardVars
    <2> QED  BY <2>2, <2>3 DEF ProbeInv
  <1> QED  BY <1>1, <1>2, <1>3 DEF Next

LEMMA ProbeInvHolds == Spec => []ProbeInv
  <1>1. ProbeInit => ProbeInv
    BY WalkInit, BoardInit DEF ProbeInit, ProbeInv
  <1> QED  BY <1>1, NextProbeInv, PTL DEF Spec

(***************************************************************************)
(* The script's bookkeeping is right for every binary, with cycles and with *)
(* holes, and every order of the callees.                                  *)
(***************************************************************************)
THEOREM WalkHolds == Spec => []WalkInv
  <1>1. ProbeInv => WalkInv
    BY DEF ProbeInv
  <1> QED  BY <1>1, ProbeInvHolds, PTL

(***************************************************************************)
(* What the watermark says is never more than the painted run used of the   *)
(* window, whatever earlier runs left in it.                               *)
(***************************************************************************)
THEOREM NeverOverstates == Spec => []WatermarkNeverOverstates
  <1>1. ProbeInv => WatermarkNeverOverstates
    BY DEF ProbeInv, BoardInv, UsedOK, WatermarkNeverOverstates, Measured
  <1> QED  BY <1>1, ProbeInvHolds, PTL

(***************************************************************************)
(* It says nothing only of a run that went to the bottom of the window.     *)
(***************************************************************************)
THEOREM SilenceIsDepth == Spec => []SilenceMeansTheWindow
  <1>1. ProbeInv => SilenceMeansTheWindow
    BY DEF ProbeInv, BoardInv, UsedOK, SilenceMeansTheWindow, Measured
  <1> QED  BY <1>1, ProbeInvHolds, PTL

(***************************************************************************)
(* A budget made of what it says is right, to what lies above the window.   *)
(***************************************************************************)
THEOREM BudgetIsRight == Spec => []BudgetIsRightToTheMargin
  <1> SUFFICES ProbeInv => BudgetIsRightToTheMargin
    BY ProbeInvHolds, PTL
  <1> SUFFICES ASSUME ProbeInv, Measured, used # None, NEW ram \in 0 .. SP
               PROVE  /\ Fits(Probed, PartOf(ram)) = "RamExceeded" => SP - low > ram
                      /\ Fits(Probed, PartOf(ram)) = "Fits" /\ dense /\ window.val.bottom < low
                          => SP - low <= ram + (SP - window.val.top)
    BY DEF BudgetIsRightToTheMargin
  <1>1. PICK bottom \in Nat, top \in Nat :
          window = Some([bottom |-> bottom, top |-> top]) /\ bottom < top /\ top <= SP
    BY DEF ProbeInv, BoardInv, WindowOK, Measured
  <1>2. window.val.bottom = bottom /\ window.val.top = top
    BY <1>1 DEF Some
  <1>3. /\ used.val \in Nat
        /\ used.val = 0 \/ low <= top - used.val
        /\ dense /\ bottom < low /\ low < top => top - low <= used.val
    BY <1>2 DEF ProbeInv, BoardInv, UsedOK, Measured
  <1>4. low \in Nat /\ low <= SP /\ SP \in Nat
    BY BinaryFacts DEF ProbeInv, BoardInv, BoardTypeOK
  <1>5. Fits(Probed, PartOf(ram)) = IF used.val > ram THEN "RamExceeded" ELSE "Fits"
    BY DEF Fits, Probed, PartOf, ROOT_DIGEST_OTP
  <1>6. ASSUME used.val > ram PROVE SP - low > ram
    BY <1>1, <1>3, <1>4, <1>6
  <1>7. ASSUME ~(used.val > ram), dense, bottom < low PROVE SP - low <= ram + (SP - top)
    BY <1>1, <1>3, <1>4, <1>7
  <1> QED  BY <1>2, <1>5, <1>6, <1>7

(***************************************************************************)
(* Of a binary with nothing hidden from it, the script's total bounds every *)
(* stack, at every moment of every run.                                    *)
(***************************************************************************)
THEOREM TotalBounds == Spec => []CompleteGraphBounds
  <1> SUFFICES ProbeInv => CompleteGraphBounds
    BY ProbeInvHolds, PTL
  <1> SUFFICES ASSUME ProbeInv, verdict = "total", Complete
               PROVE  /\ \A n \in DOMAIN active : SP - active[n].sp <= best[Root]
                      /\ SP - low <= best[Root]
    BY DEF CompleteGraphBounds
  <1>0. WalkInv /\ BoardTypeOK
    BY DEF ProbeInv, BoardInv
  <1>1. SP - low <= best[Root]
    BY DEF ProbeInv, BoardInv, TotalOK
  <1>2. ASSUME NEW n \in DOMAIN active PROVE SP - active[n].sp <= best[Root]
    <2>1. active[n] \in Frame
      BY <1>0 DEF BoardTypeOK
    <2>2. active[n].fn \in Fn /\ active[n].sp \in Nat
      BY <2>1 DEF Frame
    <2>3. colour[active[n].fn] = "black"
          /\ (SP - active[n].sp) - Frames(active[n].fn) + best[active[n].fn] <= best[Root]
      BY DEF ProbeInv, BoardInv, TotalOK
    <2>4. Frames(active[n].fn) <= best[active[n].fn]
      BY <1>0, <2>2, <2>3 DEF WalkInv, BlackOK
    <2>5. /\ SP \in Nat /\ best[Root] \in Nat /\ best[active[n].fn] \in Nat
          /\ Frames(active[n].fn) \in Nat
      BY <1>0, <2>2, BinaryFacts, FramesType DEF WalkInv, TypeOK
    <2>6. ASSUME NEW w \in Nat, NEW x \in Nat, NEW z \in Nat, NEW l \in Nat,
                 (SP - l) - w + x <= z, w <= x
          PROVE  SP - l <= z
      BY <2>5, <2>6
    <2> QED  BY <2>2, <2>3, <2>4, <2>5, <2>6
  <1> QED  BY <1>1, <1>2

LEMMA PathInvHolds == Spec => []PathInv
  <1>1. ProbeInit => PathInv
    BY PathInit DEF ProbeInit
  <1>2. ProbeInv /\ PathInv /\ [Next]_vars => PathInv'
    <2>1. ProbeInv => WalkInv
      BY DEF ProbeInv
    <2>2. Board \/ UNCHANGED vars => UNCHANGED graphVars
      BY DEF Board, vars
    <2> QED  BY <2>1, <2>2, PathStep, PathStutter DEF Next, Script
  <1> QED  BY <1>1, <1>2, ProbeInvHolds, PTL DEF Spec

(***************************************************************************)
(* The script's total is the weight of the heaviest path there is, and it   *)
(* speaks of recursion if and only if the root reaches a cycle, whatever    *)
(* the binary and the order of the callees.                                *)
(***************************************************************************)
THEOREM WalkRight == Spec => []WalkIsRight
  <1>1. WalkInv /\ PathInv => WalkIsRight
    <2> SUFFICES ASSUME WalkInv, PathInv PROVE WalkIsRight
      OBVIOUS
    <2>0. TypeOK /\ Root \in Fn
      BY BinaryAssumption DEF WalkInv
    <2>1. ASSUME verdict = "total"
          PROVE  /\ \A p \in ScriptPaths :
                       ~MeetsTwice(p) /\ Weight(ScriptFrames, p) <= best[Root]
                 /\ \E p \in ScriptPaths : Weight(ScriptFrames, p) = best[Root]
      <3>1. colour[Root] = "black"
        BY <2>1 DEF WalkInv, RootOK
      <3>2. ASSUME NEW p \in ScriptPaths
            PROVE  ~MeetsTwice(p) /\ Weight(ScriptFrames, p) <= best[Root]
        <4>1. PathFrom(Root, p)
          BY <2>0, ScriptPathsAre
        <4> QED  BY <2>0, <3>1, <4>1, BlackPathOnce, BlackPathWeight DEF PathInv
      <3>3. PICK p : PathFrom(Root, p) /\ Weight(ScriptFrames, p) = best[Root]
        BY <2>0, <3>1, BlackWeightIsAttained DEF PathInv
      <3>4. ~MeetsTwice(p) /\ p \in Seq(Fn)
        BY <2>0, <3>1, <3>3, BlackPathOnce DEF PathInv, PathFrom
      <3>5. Len(p) <= Cardinality(Fn) + 1
        <4>1. Len(p) \in Nat
          BY <3>4
        <4> QED  BY <3>4, <4>1, OnceIsShort
      <3>6. p \in ScriptPaths
        BY <2>0, <3>3, <3>5, ScriptPathsAre
      <3> QED  BY <3>2, <3>3, <3>6
    <2>2. ASSUME verdict = "recursion" PROVE \E p \in ScriptPaths : MeetsTwice(p)
      <3> DEFINE L == Len(stack)
      <3>1. PICK c \in Fn : stack # <<>> /\ colour[c] = "grey" /\ c \in Edges(Top)
        BY <2>2 DEF PathInv, CycleOK
      <3>2. /\ stack \in Seq(Fn) /\ L \in Nat \ {0} /\ stack[1] = Root /\ Top = stack[L]
            /\ L \in 1 .. L /\ \A n \in 1 .. L - 1 : stack[n + 1] \in Edges(stack[n])
        <4>0. stack \in Seq(Fn) /\ stack # <<>>
          BY <3>1 DEF WalkInv, TypeOK
        <4>1. stack \in Seq(Fn) /\ L \in Nat \ {0}
          BY <4>0
        <4>2. stack[1] = Root /\ Top = stack[L]
          BY <3>1 DEF WalkInv, RootOK, Top
        <4>3. \A n \in 1 .. L - 1 : stack[n + 1] \in Edges(stack[n])
          BY DEF PathInv, StackOK
        <4>4. L \in 1 .. L
          BY <4>1
        <4> QED  BY <4>1, <4>2, <4>3, <4>4
      <3> DEFINE q == Append(stack, c)
      <3>3. PICK m \in 1 .. L : stack[m] = c
        BY <3>1 DEF WalkInv, GreyOK
      <3>4. /\ q \in Seq(Fn) /\ Len(q) = L + 1 /\ q[L + 1] = c
            /\ \A n \in 1 .. L : q[n] = stack[n]
        BY <3>2
      <3>5. Len(q) <= Cardinality(Fn) + 1
        <4>1. ~MeetsTwice(stack)
          <5>1. \A i, j \in 1 .. Len(stack) : stack[i] = stack[j] => i = j
            BY DEF WalkInv, GreyOK
          <5>2. \A i, j \in 1 .. Len(stack) : i < j => i # j
            OBVIOUS
          <5> QED  BY <5>1, <5>2 DEF MeetsTwice
        <4>2. Len(stack) <= Cardinality(Fn) /\ Cardinality(Fn) \in Nat
          BY <3>2, <4>1, OnceIsShort
        <4> QED  BY <3>2, <3>4, <4>2
      <3> HIDE DEF q, L
      <3>6. PathFrom(Root, q)
        <4>1. \A n \in 1 .. L : n \in 1 .. L - 1 \/ n = L
          BY <3>2
        <4>2. /\ \A n \in 1 .. L - 1 : n \in 1 .. L /\ n + 1 \in 1 .. L
              /\ (L + 1) - 1 = L /\ 1 \in 1 .. L /\ L + 1 # 0
          BY <3>2
        <4>3. \A n \in 1 .. L : q[n + 1] \in Edges(q[n])
          BY <3>1, <3>2, <3>4, <4>1, <4>2
        <4>4. q # <<>> /\ q[1] = Root
          BY <3>2, <3>4, <4>2
        <4> QED  BY <3>4, <4>2, <4>3, <4>4 DEF PathFrom
      <3>7. MeetsTwice(q)
        <4>1. m \in 1 .. L + 1 /\ L + 1 \in 1 .. L + 1 /\ m < L + 1
          BY <3>2
        <4> QED  BY <3>3, <3>4, <4>1 DEF MeetsTwice
      <3> QED  BY <2>0, <3>5, <3>6, <3>7, ScriptPathsAre
    <2> QED  BY <2>1, <2>2 DEF WalkIsRight
  <1>2. ProbeInv => WalkInv
    BY DEF ProbeInv
  <1> QED  BY <1>1, <1>2, ProbeInvHolds, PathInvHolds, PTL

(***************************************************************************)
(* The functions -v prints are a path, and the frames it prints with them   *)
(* add up to the total, however it breaks ties.                            *)
(***************************************************************************)
THEOREM PrintedRight == Spec => []PrintedPathAddsUp
  <1>1. WalkInv /\ PathInv => PrintedPathAddsUp
    <2> SUFFICES ASSUME WalkInv, PathInv, Ended, verdict = "total"
                 PROVE  printed \in ScriptPaths /\ Weight(ScriptFrames, printed) = best[Root]
      BY DEF PrintedPathAddsUp
    <2> DEFINE last == printed[Len(printed)]
    <2>1. printed # <<>> /\ Heaviest(last) = {}
      BY DEF Ended
    <2>2. /\ PathFrom(Root, printed) /\ printed \in Seq(Fn)
          /\ \A n \in 1 .. Len(printed) : colour[printed[n]] = "black"
          /\ Weight(ScriptFrames, printed) + best[last] = best[Root] + Frames(last)
      BY <2>1 DEF PathInv, PrintedOK, PathFrom
    <2>3. last \in Fn /\ colour[last] = "black"
      <3>1. Len(printed) \in 1 .. Len(printed)
        BY <2>1, <2>2
      <3> QED  BY <2>2, <3>1
    <2>4. best[last] = Frames(last)
      BY <2>1, <2>3, HeaviestIs DEF PathInv
    <2>5. TypeOK /\ Root \in Fn /\ colour[Root] = "black"
      BY BinaryAssumption DEF WalkInv, RootOK
    <2>6. /\ Weight(ScriptFrames, printed) \in Nat
          /\ best[Root] \in Nat /\ Frames(last) \in Nat
      BY <2>2, <2>3, <2>5, ScriptFramesType, WeightType, FramesType DEF TypeOK
    <2>7. Weight(ScriptFrames, printed) = best[Root]
      <3>1. ASSUME NEW w \in Nat, NEW b \in Nat, NEW f \in Nat, w + f = b + f PROVE w = b
        BY <3>1
      <3> QED  BY <2>2, <2>4, <2>6, <3>1
    <2>8. Len(printed) <= Cardinality(Fn) + 1
      <3>1. ~MeetsTwice(printed)
        BY <2>2, <2>5, BlackPathOnce DEF PathInv
      <3>2. Len(printed) \in Nat
        BY <2>2
      <3> QED  BY <2>2, <3>1, <3>2, OnceIsShort
    <2> QED  BY <2>2, <2>5, <2>7, <2>8, ScriptPathsAre
  <1>2. ProbeInv => WalkInv
    BY DEF ProbeInv
  <1> QED  BY <1>1, <1>2, ProbeInvHolds, PathInvHolds, PTL

(***************************************************************************)
(* What the script does not see, it leaves out: the binary has a stack as  *)
(* deep as the total, whatever is missing from the listings.               *)
(***************************************************************************)
THEOREM TotalIsReached == Spec => []MissingOnlyLowers
  <1>1. WalkInv /\ PathInv /\ WalkIsRight => MissingOnlyLowers
    <2> SUFFICES ASSUME WalkInv, WalkIsRight, verdict = "total", printed = <<>>
                 PROVE  \E p \in RunPaths : best[Root] <= Weight(bin.frame, p)
      BY DEF MissingOnlyLowers
    <2>1. PICK p \in ScriptPaths : Weight(ScriptFrames, p) = best[Root]
      BY DEF WalkIsRight
    <2>2. IsBinary(bin) /\ TypeOK
      BY DEF WalkInv, TypeOK
    <2>3. PathFrom(Root, p)
      BY <2>1, <2>2, ScriptPathsAre
    <2>4. p \in RunPaths
      <3> DEFINE calls == [f \in Fn |-> Edges(f)]
                 runs == [f \in Fn |-> {s.to : s \in {t \in bin.sites :
                                            t.in = f /\ t.as \in {"call", "register"}}}]
      <3>1. \A f \in Fn : Edges(f) \subseteq runs[f]
        BY DEF Edges
      <3>2. \A n \in 1 .. Len(p) - 1 : p[n] \in Fn
        BY <2>3 DEF PathFrom
      <3>3. p \in UNION {[1 .. n -> Fn] : n \in 1 .. Cardinality(Fn) + 1} /\ p[1] = Root
        BY <2>1 DEF ScriptPaths, Paths
      <3>4. \A n \in 1 .. Len(p) - 1 : p[n + 1] \in runs[p[n]]
        BY <2>3, <3>1, <3>2 DEF PathFrom
      <3> QED  BY <3>3, <3>4 DEF RunPaths, Paths
    <2>5. \A f \in Fn : ScriptFrames[f] <= bin.frame[f]
      <3> SUFFICES ASSUME NEW f \in Fn PROVE Frames(f) <= bin.frame[f]
        BY <2>2, ScriptFramesType
      <3>1. bin.listed[f] \in SUBSET (0 .. bin.frame[f]) /\ bin.frame[f] \in Nat
        BY <2>2 DEF IsBinary
      <3>2. CASE bin.listed[f] = {}
        BY <3>1, <3>2 DEF Frames, Largest
      <3>3. CASE bin.listed[f] # {}
        <4>1. Frames(f) \in bin.listed[f]
          BY <3>1, <3>3, LargestIsAbove, Zenon DEF Frames
        <4> QED  BY <3>1, <4>1
      <3> QED  BY <3>2, <3>3
    <2>6. Weight(ScriptFrames, p) <= Weight(bin.frame, p)
      <3>1. bin.frame \in [Fn -> Nat]
        BY <2>2 DEF IsBinary
      <3> QED  BY <2>2, <2>3, <2>5, <3>1, ScriptFramesType, WeightMono DEF PathFrom
    <2> QED  BY <2>1, <2>4, <2>6
  <1>2. ProbeInv => WalkInv
    BY DEF ProbeInv
  <1> QED  BY <1>1, <1>2, ProbeInvHolds, PathInvHolds, WalkRight, PTL
=============================================================================
