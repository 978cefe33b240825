------------------------------ MODULE Checksum ------------------------------
(***************************************************************************)
(* The loops of checksum (src/crates/lms-verify/src/lib.rs) and of         *)
(* verification_cost_with (src/crates/lms-verify/src/cost.rs) over the     *)
(* coefficients of a digest, on any parameter set.  The digest is met one   *)
(* coefficient at a time, each any of Coefs.                               *)
(***************************************************************************)
EXTENDS Winternitz

CONSTANT Coefs(_)     \* the coefficients a digest may have, under a parameter set

ASSUME CoefsAssumption ==
    \A t \in DOMAIN Lmots : Coefs(Lmots[t]) \subseteq 0 .. ChainLen(Lmots[t])

VARIABLES
    set,       \* the parameter set
    field,     \* fields of the digest read, then fields of its checksum
    sum,       \* the checksum so far, before its shift
    links      \* chain links to be walked so far

sumVars == <<set, field, sum, links>>

SumInit ==
    /\ \E t \in DOMAIN Lmots : set = Lmots[t]
    /\ field = 0 /\ sum = 0 /\ links = 0

MessageField(a) ==
    /\ field < Fields(set)
    /\ sum' = sum + (ChainLen(set) - a)
    /\ links' = links + (ChainLen(set) - a)
    /\ field' = field + 1
    /\ UNCHANGED set

\* Digit n of the checksum of a sum, as the verifier reads it back.
Digit(s, n) == Coef(U16Bytes(ShiftedSum(s, set)), n, set.w)

ChecksumField ==
    /\ field \in Fields(set) .. set.p - 1
    /\ links' = links + (ChainLen(set) - Digit(sum, field - Fields(set)))
    /\ field' = field + 1
    /\ UNCHANGED <<set, sum>>

SumNext == (\E a \in Coefs(set) : MessageField(a)) \/ ChecksumField

SumSpec == SumInit /\ [][SumNext]_sumVars

-----------------------------------------------------------------------------
Digits == 0 .. CksCoefs(set) - 1
DigitValue(s, n) == Digit(s, n) * Pow2(set.w * (CksCoefs(set) - 1 - n))

\* The digits the verifier reads back are those of the whole sum: the shift
\* pushes none of it out of the sixteen bits, and no field straddles them.
ChecksumIsLossless ==
    field = Fields(set) =>
        Total([n \in Nat |-> DigitValue(sum, n)], CksCoefs(set)) = sum

\* How far apart the sums compared are, at most.
Apart == 40

(***************************************************************************)
(* Raising coefficients of a digest lowers its checksum, and then some     *)
(* digit of the checksum: no signature can be walked forward into another's.*)
(***************************************************************************)
SomeChainGoesBack ==
    field = Fields(set) =>
        \A lower \in 0 .. sum - 1 :
            sum - lower <= Apart => \E n \in Digits : Digit(lower, n) < Digit(sum, n)

\* The worst case a boot budget uses is one: no digest costs more, and the
\* digest of all zeros costs as much.
MaxIsTheWorstCase ==
    field = set.p =>
        LET max == set.p * ChainLen(set) - MaxChecksumSaving(set) IN
            /\ links <= max
            /\ sum = Fields(set) * ChainLen(set) => links = max

\* The links of a digest whose checksum is s before the shift.
LinksOf(s) == s + Total([n \in Nat |-> ChainLen(set) - Digit(s, n)], CksCoefs(set))
=============================================================================
