------------------------------- MODULE LmsOnHw -------------------------------
(***************************************************************************)
(* LmsVerify over HwSha256: the firmware of src/esp-probe, where Kc and    *)
(* the chain hashes share one peripheral and one buffer.                   *)
(***************************************************************************)
EXTENDS LmsVerify, FiniteSetsExt

CONSTANTS COALESCE, Leftover     \* as in HwSha256 and LmsOnContract

\* A buffer there is, and digests some caller can have left in a backend.
ASSUME DriverAssumption ==
    /\ COALESCE \in Nat \ {0}
    /\ \A used \in Leftover : used \in Seq({used[n] : n \in DOMAIN used})

VARIABLES state, ctx, busy, buf, pc, call, slot, rest, remaining, ckpt

hwVars == <<state, ctx, busy, buf, pc, call, slot, rest, remaining, ckpt>>
vars == <<lmsVars, todo, out, hwVars>>

\* Preimages bound what is hashed: no bound of the backend's own is needed.
Longest == 5 + Max({Lmots[t].p : t \in DOMAIN Lmots})

Hw == INSTANCE HwSha256
    WITH Input <- {}, Byte <- {}, Slot <- {"kc_state"}, Sha256 <- Hash,
         NoDigest <- <<"none">>, MaxLen <- Longest

(***************************************************************************)
(* The firmware verifies three times with one backend: to warm up, to take *)
(* the time and to mark the stack.  Each verification gets the driver and   *)
(* the buffer the way the last one left them, which a verification that     *)
(* failed to parse leaves as they were; here, in the middle of any digest   *)
(* a caller may have left there.                                           *)
(***************************************************************************)
HwInit ==
    /\ Init
    /\ \E used \in Leftover :
        \/ state = "Idle" /\ ctx = <<>> /\ buf = used
        \/ \E n \in 0 .. Len(used) :
            state = "Hashing" /\ ctx = Hw!Take(used, n) /\ buf = Hw!Drop(used, n)
    /\ Len(buf) < COALESCE
    /\ busy \in BOOLEAN
    /\ pc = "caller" /\ call = "none"
    /\ slot = "kc_state" /\ rest = <<>> /\ remaining = <<>>
    /\ ckpt = [s \in {"kc_state"} |-> <<>>]

\* The verifier's next call starts.
Starts(c) ==
    \/ c.op = "init"    /\ Hw!Begin
    \/ c.op = "update"  /\ Hw!Update(c.data)
    \/ c.op = "finish"  /\ Hw!Finish
    \/ c.op = "save"    /\ Hw!Save("kc_state")
    \/ c.op = "restore" /\ Hw!Restore("kc_state")

\* The verifier has one thread: it is in a call or between calls.
VerifierRuns == pc = "caller" /\ Verify /\ UNCHANGED hwVars
CallStarts == BackendServes /\ Starts(Head(todo))
CallRuns == Hw!BackendStep /\ UNCHANGED <<lmsVars, todo>>
PeripheralReady == Hw!Ready /\ UNCHANGED <<lmsVars, todo>>

Next == VerifierRuns \/ CallStarts \/ CallRuns \/ PeripheralReady

Spec ==
    /\ HwInit /\ [][Next]_vars
    /\ WF_vars(VerifierRuns) /\ WF_vars(CallStarts)
    /\ WF_vars(CallRuns) /\ WF_vars(PeripheralReady)

-----------------------------------------------------------------------------
\* A finish or a save takes effect when it returns, and is still to be served
\* until then; the other calls have taken effect when they start.
Unserved ==
    CASE call = "finish" -> <<FinishCall>> \o todo
      [] call = "save"   -> <<SaveCall>> \o todo
      [] OTHER           -> todo

Software == INSTANCE LmsOnContract WITH todo <- Unserved, cur <- Hw!Absorbed

\* A verification on the peripheral is a verification with SoftSha256: the
\* same digests in the same order, the same work and the same verdict.
SameAsSoftware == Software!Spec

\* Nor does the verifier ever meet the driver where a call would panic.
NoPanic == Hw!NoPanic

\* Every verification returns: none is left polling or copying for ever, as
\* long as the peripheral gets ready.
Terminates == <>(stage = "done")
=============================================================================
