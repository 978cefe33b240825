----------------------------- MODULE Winternitz -----------------------------
(***************************************************************************)
(* coef and Cksm of src/crates/lms-verify/src/lib.rs, and the cost model of *)
(* src/crates/lms-verify/src/cost.rs, as operators on sequences of bytes.  *)
(***************************************************************************)
EXTENDS LmsParams, Sums, Sequences

CksCoefs(ots) == ots.p - Fields(ots)

\* What RFC 8554 makes p and ls from: fields do not straddle bytes, the shift
\* puts the checksum at the high end of its sixteen bits, and the checksum of
\* the digest of all zeros, the largest, fits its chains.
ASSUME ChecksumAssumption ==
    /\ N \in Nat \ {0} /\ I_LEN \in Nat
    /\ \A t \in DOMAIN Lmots :
        LET ots == Lmots[t] IN
            /\ ots.w \in {1, 2, 4, 8}
            /\ CksCoefs(ots) \in Nat /\ ots.ls \in Nat
            /\ ots.w * CksCoefs(ots) + ots.ls = 16
            /\ Fields(ots) * ChainLen(ots) < Pow2(ots.w * CksCoefs(ots))

DigestBytes == [1 .. N -> 0 .. 255]

\* coef(S, i, w): the i-th w-bit field of S.
Coef(s, i, w) ==
    LET shift == 8 - (w * (i % (8 \div w)) + w)
    IN  (s[(i * w) \div 8 + 1] \div Pow2(shift)) % Pow2(w)

\* The links from each coefficient of s to the end of its chain.
Links(s, ots) == [n \in Nat |-> ChainLen(ots) - Coef(s, n, ots.w)]

U16Bytes(n) == <<n \div 256, n % 256>>

\* The sum left at the low end of its sixteen bits; and shifted one too far.
UnshiftedSum(sum, ots) == sum % Pow2(16)
OvershiftedSum(sum, ots) == (sum * Pow2(ots.ls + 1)) % Pow2(16)

\* The sum is kept in 32 bits, and cut to 16 after the shift.
ShiftedSum(sum, ots) == (sum * Pow2(ots.ls)) % Pow2(16)

Checksum(s, ots) == ShiftedSum(Total(Links(s, ots), Fields(ots)), ots)

\* Q || Cksm(Q)
WithChecksum(s, ots) == s \o U16Bytes(Checksum(s, ots))

-----------------------------------------------------------------------------
\* SHA-256 compressions a digest of len bytes takes.
Compressions(len) == (len + 8) \div 64 + 1

MesgLen(msgLen) == I_LEN + 4 + 2 + N + msgLen
PblcLen(ots) == I_LEN + 4 + 2 + N * ots.p
LinkLen == I_LEN + 4 + 2 + 1 + N
LeafLen == I_LEN + 4 + 2 + N
IntrLen == I_LEN + 4 + 2 + 2 * N

\* A link is hashed in one block.
ASSUME OneBlockAssumption == Compressions(LinkLen) = 1

FixedCost(ots, lms, msgLen) ==
      Compressions(MesgLen(msgLen))
    + Compressions(PblcLen(ots))
    + Compressions(LeafLen) + lms.h * Compressions(IntrLen)

\* The chains of the checksum forgotten.
MessageChainCost(qc, ots) == Total(Links(qc, ots), Fields(ots))

\* verification_cost_with: one compression for each link of each chain.
ChainCost(qc, ots) == Total(Links(qc, ots), ots.p)

VerificationCost(qc, ots, lms, msgLen) ==
    FixedCost(ots, lms, msgLen) + ChainCost(qc, ots)

\* A checksum of coefficients that are all one too large.
MaxSavingOneOff(ots) ==
    LET bytes == U16Bytes(ShiftedSum(Fields(ots) * Pow2(ots.w), ots))
    IN  Total([n \in Nat |-> Coef(bytes, n, ots.w)], CksCoefs(ots))

MaxChecksumSaving(ots) ==
    LET bytes == U16Bytes(ShiftedSum(Fields(ots) * ChainLen(ots), ots))
    IN  Total([n \in Nat |-> Coef(bytes, n, ots.w)], CksCoefs(ots))

BoundsMin(ots, lms, msgLen) == FixedCost(ots, lms, msgLen)

\* A mean without the chains of the checksum.
MessageTypical(ots, lms, msgLen) ==
    FixedCost(ots, lms, msgLen) + (Fields(ots) * ChainLen(ots)) \div 2

\* Half of every chain.
Typical(ots, lms, msgLen) ==
    FixedCost(ots, lms, msgLen) + (ots.p * ChainLen(ots)) \div 2

\* A worst case without the chains of the checksum.
MessageBoundsMax(ots, lms, msgLen) ==
    FixedCost(ots, lms, msgLen) + Fields(ots) * ChainLen(ots)

BoundsMax(ots, lms, msgLen) ==
      FixedCost(ots, lms, msgLen)
    + ots.p * ChainLen(ots) - MaxChecksumSaving(ots)

Bounds(ots, lms, msgLen) ==
    [min |-> BoundsMin(ots, lms, msgLen), typical |-> Typical(ots, lms, msgLen),
     max |-> BoundsMax(ots, lms, msgLen)]
=============================================================================
