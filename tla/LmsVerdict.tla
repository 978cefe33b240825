----------------------------- MODULE LmsVerdict -----------------------------
(***************************************************************************)
(* What verify promises, in the signer's terms: which signatures it must   *)
(* accept, and what the digest of Kc must have absorbed along the way.     *)
(***************************************************************************)
EXTENDS LmsOnContract, LmsSigner

CONSTANT Keys     \* the key pairs there are

ASSUME KeysAssumption ==
    \A key \in Keys :
        /\ key.otsType \in DOMAIN Lmots /\ key.ots = Lmots[key.otsType]
        /\ key.lmsType \in DOMAIN Lms /\ key.lms = Lms[key.lmsType]
        /\ key.leaf \in 0 .. Capacity(key.lms) - 1

\* A digest taken under this identifier.
HashedUnder(id, v) == v[1] = "H" /\ v[2][1] = id

\* The fields of a signature, and nothing else in it.
FieldsOfSignature(s) ==
    s = [len |-> s.len, q |-> s.q, otsType |-> s.otsType, lmsType |-> s.lmsType, c |-> s.c,
         y |-> [n \in 1 .. Len(s.y) |-> s.y[n]],
         path |-> [d \in 1 .. Len(s.path) |-> s.path[d]]]

\* A public key that parses is one of a key pair, or its root is no digest
\* anyone took under its identifier.  The signature, the message and the
\* digest's bytes are any.
ASSUME CasesAssumption ==
    \A case \in Case :
        /\ FieldsOfSignature(case.sig)
        /\ ParseError(case.pk, case.sig) = "none" =>
            \/ \E key \in Keys : case.pk = PublicKey(key)
            \/ ~HashedUnder(case.pk.id, case.pk.root)

-----------------------------------------------------------------------------
(***************************************************************************)
(* The right verdict, declared rather than computed.  An argument pair is   *)
(* well formed when some parameter sets fit all of it; a well-formed one is *)
(* genuine when it is what the signer makes of this message.               *)
(***************************************************************************)
WellFormed ==
    \E ot \in DOMAIN Lmots, lt \in DOMAIN Lms :
        /\ pk.len = PublicKeyLen /\ sig.len = SignatureLen(Lmots[ot], Lms[lt])
        /\ pk.otsType = ot /\ sig.otsType = ot /\ pk.lmsType = lt /\ sig.lmsType = lt
        /\ sig.q \in 0 .. Capacity(Lms[lt]) - 1

GenuineOf(key) ==
    /\ pk = PublicKey(key)
    /\ sig = Sign(key, sig.c, Bytes(Hash(SignedPreimage(key, sig.c, msg))))

Genuine == \E key \in Keys : GenuineOf(key)

\* verify accepts what the signer makes and nothing else, calls Invalid what
\* is well formed and not genuine, and reports everything else by a parse error.
VerdictIsRight ==
    stage = "done" =>
        /\ verdict = "Ok" <=> Genuine
        /\ verdict = "Invalid" <=> WellFormed /\ ~Genuine

(***************************************************************************)
(* The digest of Kc, parked while the chains are hashed, has absorbed the   *)
(* ends of the chains walked so far and nothing of the hashing in between.  *)
(***************************************************************************)
ChainAt(n, l) == chain(pk.id, sig.q, n, sig.y[n + 1], Coef(qc, n, ots.w), l)

Kc(n) ==
    PblcPrefix(pk.id, sig.q) \o [m \in 1 .. n |-> ChainAt(m - 1, ChainLen(ots))]

KcIsParked == stage = "walk" /\ todo = <<>> => ckpt["kc_state"] = Kc(i)
=============================================================================
