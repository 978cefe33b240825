-------------------------- MODULE MCLmsOnContract --------------------------
(***************************************************************************)
(* LmsOnContract on the cases of MCLms, held against the signer.           *)
(***************************************************************************)
EXTENDS BootVerifier, LmsVerdict, MCLms

\* The doc comment on verification_cost_with: it "Returns the same parse errors
\* crate::verify would".
CostParsesAsVerify ==
    stage = "done" /\ verdict \notin {"Ok", "Invalid"} => CostError(pk, sig) = verdict
=============================================================================
