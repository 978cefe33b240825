---------------------------- MODULE BootVerifier ----------------------------
(***************************************************************************)
(* LmsBootVerifier (src/crates/boot-budget/src/verifier.rs): it is made for *)
(* one pair of parameter sets and reports their lengths to the boot stage,  *)
(* but verify is crate::verify, which goes by the typecodes in the key.     *)
(***************************************************************************)
EXTENDS LmsOnContract

\* LmsBootVerifier::new, for any two sets of the tables.
Verifiers == [ots : {Lmots[t] : t \in DOMAIN Lmots}, lms : {Lms[t] : t \in DOMAIN Lms}]

public_key_len(v) == PublicKeyLen
signature_len(v) == SignatureLen(v.ots, v.lms)

\* What a boot stage reads out of flash to hand to verify.
ReadFor(v) == pk.len = public_key_len(v) /\ sig.len = signature_len(v)

\* What it answers, whatever sets it was made for.
verify(v) == verdict

(***************************************************************************)
(* A boot stage that reads as many bytes as its verifier says accepts only  *)
(* images signed under the verifier's own parameter sets, although verify  *)
(* never looks at them: no two pairs of sets share a length.               *)
(***************************************************************************)
AcceptsItsOwnSetsOnly ==
    \A v \in Verifiers : ReadFor(v) /\ verify(v) = "Ok" => ots = v.ots /\ lms = v.lms

\* It rests on the lengths of the tables.
LengthsTellApart ==
    \A v, w \in Verifiers : signature_len(v) = signature_len(w) => v = w
=============================================================================
