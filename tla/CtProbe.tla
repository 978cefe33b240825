------------------------------ MODULE CtProbe ------------------------------
(***************************************************************************)
(* run of src/crates/ct-probe/src/lib.rs: time trials of two classes drawn *)
(* at random, then a Welch t-test on all of them and on the fastest part,   *)
(* again and again with a smaller part.                                    *)
(*                                                                         *)
(* The moments are exact fractions.  A t statistic is kept as its sign and *)
(* its square, which is a fraction too.  The untimed iterations before the *)
(* trials leave nothing behind.                                            *)
(***************************************************************************)
EXTENDS Fractions, Sums, Sequences, FiniteSets

CONSTANTS
    Samples,       \* bound: the numbers of trials a Config may ask for
    Time,          \* what a trial may take
    Unbounded,     \* u64::MAX
    CROPS,         \* the parts kept, as fractions, in the order they are tried
    Threshold      \* of |t|, as a fraction

ASSUME TimeAssumption ==
    Samples \subseteq Nat /\ Unbounded \in Nat /\ Time \subseteq 0 .. Unbounded

\* All first, then parts of them, each no larger than the last.
ASSUME CropsAssumption ==
    /\ CROPS \in Seq(Ratio) /\ Len(CROPS) > 1
    /\ CROPS[1] = Whole(1)
    /\ \A n \in 2 .. Len(CROPS) :
        CROPS[n].num >= 0 /\ Less(CROPS[n], Whole(1)) /\ ~Less(CROPS[n - 1], CROPS[n])

ASSUME ThresholdAssumption == Threshold \in Ratio /\ Threshold.num >= 0

Class == {"A", "B"}

\* Config, but for the iterations before the trials.
Config == [samples : Samples, threshold : {Threshold}]

VARIABLES
    asked,         \* trials still to be made
    samples,       \* the trials made: [class, t]
    sorted,        \* their times in order
    stage,         \* "trials", "sort", "cut", "push", "done" or "panic"
    cutoff,        \* of the crop being tested
    next,          \* how many samples it has looked at
    welch,         \* for each class the running [n, mean, m2]
    kept,          \* how many it has kept
    crops          \* the results so far: [keep, t, kept]

vars == <<asked, samples, sorted, stage, cutoff, next, welch, kept, crops>>

-----------------------------------------------------------------------------
New == [c \in Class |-> [n |-> 0, mean |-> Zero, m2 |-> Zero]]

\* The second factor of m2 taken from the old mean.
PushedStale(m, x) ==
    LET n == m.n + 1
        delta == Minus(Whole(x), m.mean)
    IN  [n |-> n, mean |-> Plus(m.mean, Over(delta, n)), m2 |-> Plus(m.m2, Times(delta, delta))]

\* Welch::push, on the moments of one class.
Pushed(m, x) ==
    LET n == m.n + 1
        delta == Minus(Whole(x), m.mean)
        mean == Plus(m.mean, Over(delta, n))
    IN  [n |-> n, mean |-> mean, m2 |-> Plus(m.m2, Times(delta, Minus(Whole(x), mean)))]

\* Welch::counts, as their sum.
Counted(w) == w["A"].n + w["B"].n

None == [is |-> "None"]
Some(v) == [is |-> "Some", val |-> v]

variance(m) == Over(m.m2, m.n - 1)

\* The variance of the first class taken for both.
TOfFirst(w) ==
    IF \E c \in Class : w[c].n < 2 THEN None
    ELSE LET denom == Plus(Over(variance(w["A"]), w["A"].n), Over(variance(w["A"]), w["B"].n))
             diff == Minus(w["A"].mean, w["B"].mean)
         IN  IF denom = Zero THEN None
             ELSE Some([negative |-> diff.num < 0, square |-> Divide(Square(diff), denom)])

\* Welch::t
T(w) ==
    IF \E c \in Class : w[c].n < 2 THEN None
    ELSE LET denom == Plus(Over(variance(w["A"]), w["A"].n), Over(variance(w["B"]), w["B"].n))
             diff == Minus(w["A"].mean, w["B"].mean)
         IN  IF denom = Zero THEN None
             ELSE Some([negative |-> diff.num < 0, square |-> Divide(Square(diff), denom)])

-----------------------------------------------------------------------------
Init ==
    /\ \E cfg \in Config : asked = cfg.samples
    /\ samples = <<>> /\ sorted = <<>>
    /\ stage = "trials"
    /\ cutoff = 0 /\ next = 0 /\ welch = New /\ kept = 0 /\ crops = <<>>

\* One trial: its class at random, its time whatever the machine makes it.
Trial ==
    /\ stage = "trials" /\ asked > 0
    /\ \E c \in Class, t \in Time : samples' = Append(samples, [class |-> c, t |-> t])
    /\ asked' = asked - 1
    /\ UNCHANGED <<sorted, stage, cutoff, next, welch, kept, crops>>

\* How many samples come before the nth in order, ties as they were made.
Before(n) ==
    Cardinality({m \in 1 .. Len(samples) :
        samples[m].t < samples[n].t \/ (samples[m].t = samples[n].t /\ m < n)})

Sort ==
    /\ stage = "trials" /\ asked = 0
    /\ sorted' = [k \in 1 .. Len(samples) |->
                     samples[CHOOSE n \in 1 .. Len(samples) : Before(n) = k - 1].t]
    /\ stage' = "cut"
    /\ UNCHANGED <<asked, samples, cutoff, next, welch, kept, crops>>

CropResult(keep, t, n) == [keep |-> keep, t |-> t, kept |-> n]

Keep == CROPS[Len(crops) + 1]

\* The part rounded up; and the last of it taken for the first after it.
CutIndexUp(n) == Floor(Times(Keep, Whole(n))) + 1
CutIndexEarly(n) == LET part == Floor(Times(Keep, Whole(n))) IN IF part = 0 THEN 0 ELSE part - 1

\* The time to cut off at, counted from zero: the first after the part.
CutIndex(n) ==
    LET part == Floor(Times(Keep, Whole(n))) IN IF part <= n - 1 THEN part ELSE n - 1

\* Without samples there is no last one: len() - 1 wraps, or panics.
NoLast ==
    /\ stage = "cut" /\ Less(Keep, Whole(1)) /\ Len(sorted) = 0
    /\ stage' = "panic"
    /\ UNCHANGED <<asked, samples, sorted, cutoff, next, welch, kept, crops>>

\* An index past the samples panics.
Cut ==
    /\ stage = "cut" /\ (Less(Keep, Whole(1)) => Len(sorted) # 0)
    /\ IF ~Less(Keep, Whole(1)) THEN cutoff' = Unbounded /\ stage' = "push"
       ELSE LET n == CutIndex(Len(sorted)) IN
            IF n < Len(sorted) THEN cutoff' = sorted[n + 1] /\ stage' = "push"
            ELSE cutoff' = cutoff /\ stage' = "panic"
    /\ next' = 0 /\ welch' = New /\ kept' = 0
    /\ UNCHANGED <<asked, samples, sorted, crops>>

\* One sample of the crop: kept if it is no slower than the cut-off.
Push ==
    /\ stage = "push" /\ next < Len(samples)
    /\ LET s == samples[next + 1] IN
        IF s.t <= cutoff
        THEN welch' = [welch EXCEPT ![s.class] = Pushed(@, s.t)] /\ kept' = kept + 1
        ELSE UNCHANGED <<welch, kept>>
    /\ next' = next + 1
    /\ UNCHANGED <<asked, samples, sorted, stage, cutoff, crops>>

Crop ==
    /\ stage = "push" /\ next = Len(samples)
    /\ crops' = Append(crops, CropResult(Keep, T(welch), kept))
    /\ stage' = IF Len(crops') = Len(CROPS) THEN "done" ELSE "cut"
    /\ UNCHANGED <<asked, samples, sorted, cutoff, next, welch, kept>>

Next == Trial \/ Sort \/ NoLast \/ Cut \/ Push \/ Crop

Spec == Init /\ [][Next]_vars

-----------------------------------------------------------------------------
\* What run returns.
Report == [crops |-> crops, threshold |-> Threshold]

LargerSigned(a, c) ==
    IF c.t # None /\ ~c.t.val.negative /\ Less(a, c.t.val.square) THEN c.t.val.square ELSE a

Larger(a, c) == IF c.t # None /\ Less(a, c.t.val.square) THEN c.t.val.square ELSE a

\* Report::max_abs_t, squared: from zero, over the crops that have a t.
max_abs_t ==
    LET largest[n \in Nat] ==
            IF n = 0 THEN Zero ELSE Larger(largest[n - 1], Report.crops[n])
    IN  largest[Len(Report.crops)]

Exceeds(factor) == Less(Square(Times(Report.threshold, factor)), max_abs_t)

leaks == Exceeds(Whole(1))

\* Report::verdict
Verdict ==
    IF Exceeds(Whole(2)) THEN "leaks clearly"
    ELSE IF Exceeds(Whole(1)) THEN "leaks"
    ELSE IF Exceeds(Fraction(8, 10)) THEN "borderline"
    ELSE "no evidence"

-----------------------------------------------------------------------------
\* The samples of a class among the first n that are no slower than limit.
Among(c, n, limit) == {m \in 1 .. n : samples[m].class = c /\ samples[m].t <= limit}

\* The sum of a value over some of the samples.
SumOver(S, val) ==
    Total([m \in Nat |-> IF m + 1 \in S THEN val[m + 1] ELSE 0], Len(samples))

TimesOf(S) == SumOver(S, [m \in S |-> samples[m].t])

MeanOf(S) == Fraction(TimesOf(S), Cardinality(S))

\* The squares of the distances from the mean, times as often as it divides them.
SquaresOf(S) ==
    LET n == Cardinality(S)
        sum == TimesOf(S)
        far == [m \in S |-> n * samples[m].t - sum]
    IN  Fraction(SumOver(S, [m \in S |-> far[m] * far[m]]), n * n)

(***************************************************************************)
(* The running moments are those of two passes over what was kept so far:   *)
(* the mean, and the squares of the distances from it.                     *)
(***************************************************************************)
WelchIsTwoPass ==
    stage = "push" =>
        \A c \in Class : LET seen == Among(c, next, cutoff) IN
            /\ welch[c].n = Cardinality(seen)
            /\ seen # {} => welch[c].mean = MeanOf(seen) /\ welch[c].m2 = SquaresOf(seen)

(***************************************************************************)
(* A crop keeps the fastest, and never fewer than its part of them.  What   *)
(* it keeps beyond the part is the sample it cuts off at, which is the     *)
(* first after the part, and what ties with that: those strictly faster    *)
(* are no more than the part.  A smaller part keeps no more than a larger.  *)
(***************************************************************************)
CropsKeepTheirPart ==
    stage = "push" =>
        LET part == Times(Keep, Whole(Len(samples)))
            faster == {m \in 1 .. Len(samples) : samples[m].t < cutoff}
        IN  next = Len(samples) =>
            /\ kept = Counted(welch)
            /\ ~Less(Whole(kept), part)
            /\ ~Less(part, Whole(Cardinality(faster)))
            /\ crops # <<>> => kept <= crops[Len(crops)].kept

(***************************************************************************)
(* A crop is silent exactly when a class is too small or both classes are   *)
(* constant: a class that never varies does not silence one that does.     *)
(* That is what the code of Welch::t does; its comment has it otherwise,    *)
(* and is NoneForZeroVariance below.                                       *)
(***************************************************************************)
Constant(c) ==
    \A n, m \in Among(c, Len(samples), cutoff) : samples[n].t = samples[m].t

BlindOnlyWhenConstant ==
    stage \in {"cut", "done"} /\ crops # <<>> =>
        (crops[Len(crops)].t = None <=>
            \/ \E c \in Class : Cardinality(Among(c, Len(samples), cutoff)) < 2
            \/ \A c \in Class : Constant(c))

(***************************************************************************)
(* The comment of Welch::t: no statistic if either class is too small or   *)
(* has zero variance.                                                      *)
(***************************************************************************)
NoneForZeroVariance ==
    stage \in {"cut", "done"} /\ crops # <<>> =>
        \A c \in Class :
            Cardinality(Among(c, Len(samples), cutoff)) < 2 \/ Constant(c)
                => crops[Len(crops)].t = None

\* Two passes over the samples no slower than limit: does |t| exceed the threshold?
Distinguishes(limit) ==
    LET of(c) == Among(c, Len(samples), limit)
        spread(c) == Over(SquaresOf(of(c)), (Cardinality(of(c)) - 1) * Cardinality(of(c)))
    IN  /\ \A c \in Class : Cardinality(of(c)) >= 2
        /\ Less(Times(Square(Threshold), Plus(spread("A"), spread("B"))),
                Square(Minus(MeanOf(of("A")), MeanOf(of("B")))))
        /\ spread("A") # Zero \/ spread("B") # Zero

(***************************************************************************)
(* The report says that there is a leak when all samples, or the fastest    *)
(* part of them for one of the crops, tell the classes apart, whichever is  *)
(* the slower; and its words say so too.                                   *)
(***************************************************************************)
ReportIsRight ==
    stage = "done" =>
        /\ leaks <=> Verdict \in {"leaks", "leaks clearly"}
        /\ leaks <=>
            \/ Distinguishes(Unbounded)
            \/ \E n \in 2 .. Len(CROPS) :
                Distinguishes(sorted[1 + Floor(Times(CROPS[n], Whole(Len(sorted))))])

(***************************************************************************)
(* Only a run of no trials panics, at the first crop; any other has a      *)
(* sample for each cut-off, whatever its length and the part.              *)
(***************************************************************************)
PanicsOnlyWithoutSamples ==
    stage = "panic" => Len(samples) = 0 /\ Len(crops) = 1
=============================================================================
