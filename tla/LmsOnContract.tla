---------------------------- MODULE LmsOnContract ----------------------------
(***************************************************************************)
(* LmsVerify over any backend that keeps the contract of Sha256Backend:    *)
(* verify (src/crates/lms-verify/src/lib.rs) with SoftSha256, new or used. *)
(***************************************************************************)
EXTENDS LmsVerify

CONSTANT Leftover     \* what a backend handed to verify_with may be in the middle of

VARIABLES cur, ckpt      \* the backend, as in Sha256Backend

vars == <<lmsVars, todo, out, cur, ckpt>>

\* The one checkpoint a verification has.
Slot == {"kc_state"}
Backend == INSTANCE Sha256Backend
    WITH Input <- {}, Sha256 <- Hash, NoDigest <- <<"none">>

\* The checkpoint is the verification's own, as Default makes it.  The backend
\* is the caller's: nothing says it is not in the middle of a digest.
VerifyInit ==
    /\ Init
    /\ cur \in Leftover
    /\ ckpt = [s \in Slot |-> <<>>]

\* The call at the head of the queue takes effect.
Serve(call) ==
    \/ call.op = "init"    /\ Backend!Begin
    \/ call.op = "update"  /\ Backend!Update(call.data)
    \/ call.op = "finish"  /\ Backend!Finish
    \/ call.op = "save"    /\ Backend!Save("kc_state")
    \/ call.op = "restore" /\ Backend!Restore("kc_state")

Next ==
    \/ Verify /\ UNCHANGED <<cur, ckpt>>
    \/ BackendServes /\ Serve(Head(todo))

Spec == VerifyInit /\ [][Next]_vars
=============================================================================
