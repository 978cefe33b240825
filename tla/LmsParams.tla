------------------------------ MODULE LmsParams ------------------------------
(***************************************************************************)
(* The parameter sets of src/crates/lms-verify/src/params.rs, and the      *)
(* lengths that follow from them.  N, I_LEN and the two tables are         *)
(* constants, so that the algorithms can be run on small parameter sets as  *)
(* well as on the published ones, which are defined here.                  *)
(***************************************************************************)
EXTENDS Integers, TLC

CONSTANTS
    N,            \* bytes of a hash
    I_LEN,        \* bytes of a key identifier
    Lmots,        \* LM-OTS typecode -> [w, p, ls]
    Lms           \* LMS typecode -> [h]

\* 1 << n
Pow2(n) ==
    LET p[m \in Nat] == IF m = 0 THEN 1 ELSE 2 * p[m - 1]
    IN  p[n]

LmotsPublished == 1 :> [w |-> 1, p |-> 265, ls |-> 7]
               @@ 2 :> [w |-> 2, p |-> 133, ls |-> 6]
               @@ 3 :> [w |-> 4, p |-> 67,  ls |-> 4]
               @@ 4 :> [w |-> 8, p |-> 34,  ls |-> 0]

LmsPublished == [t \in 5 .. 9 |-> [h |-> 5 * (t - 4)]]

\* What the tables are: every set has a chain, and 1 << h fits a u32.
ASSUME TableAssumption ==
    /\ \A t \in DOMAIN Lmots : Lmots[t].p \in Nat \ {0}
    /\ \A t \in DOMAIN Lms : Lms[t].h \in 0 .. 31

\* Message fields of a digest: the chains that are not checksum.
Fields(ots) == (N * 8) \div ots.w

ChainLen(ots) == Pow2(ots.w) - 1
OtsSigLen(ots) == 4 + N * (ots.p + 1)
Capacity(lms) == Pow2(lms.h)

PublicKeyLen == 4 + 4 + I_LEN + N

\* A length that forgets the height of the tree.
SignatureLenFlat(ots, lms) == 4 + OtsSigLen(ots) + 4 + N

SignatureLen(ots, lms) == 4 + OtsSigLen(ots) + 4 + N * lms.h

\* Domain separators.
D_PBLC == 32896
D_MESG == 33153
D_LEAF == 33410
D_INTR == 33667
=============================================================================
