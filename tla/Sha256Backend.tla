---------------------------- MODULE Sha256Backend ----------------------------
(***************************************************************************)
(* The contract of the trait Sha256Backend                                 *)
(* (src/crates/lms-verify/src/hasher.rs), as its software implementation   *)
(* SoftSha256 fulfils it: every call takes effect at once.                 *)
(*                                                                         *)
(* A digest in progress is the sequence of bytes it has absorbed, whatever *)
(* engine holds it.  A Checkpoint is such a sequence parked in memory that *)
(* the caller owns; each slot stands for one.                              *)
(***************************************************************************)
EXTENDS Sequences

CONSTANTS
    Input,         \* what a caller may pass to one update: sequences of bytes
    Slot,          \* the checkpoints the caller owns
    Sha256(_),     \* the digest of a finite sequence of bytes
    NoDigest       \* the contents of an output buffer nothing was written to

VARIABLES
    cur,           \* what the digest in progress has absorbed
    ckpt,          \* what each checkpoint holds
    out            \* the buffer the last finish wrote

vars == <<cur, ckpt, out>>

\* A new backend, with a fresh digest, and checkpoints as Default makes them.
Init ==
    /\ cur = <<>>
    /\ ckpt = [s \in Slot |-> <<>>]
    /\ out = NoDigest

\* init: begin a new digest, discarding any state from a previous one.
Begin ==
    /\ cur' = <<>>
    /\ UNCHANGED <<ckpt, out>>

\* update: absorb more input.
Update(data) ==
    /\ cur' = cur \o data
    /\ UNCHANGED <<ckpt, out>>

\* finish: produce the digest and leave the backend ready for init
\* (finalize_reset in the software backend).
Finish ==
    /\ out' = Sha256(cur)
    /\ cur' = <<>>
    /\ UNCHANGED ckpt

\* save: capture the digest in progress, which goes on.
Save(s) ==
    /\ ckpt' = [ckpt EXCEPT ![s] = cur]
    /\ UNCHANGED <<cur, out>>

\* restore: resume a captured digest, discarding whatever was in progress.
\* The checkpoint keeps its contents.
Restore(s) ==
    /\ cur' = ckpt[s]
    /\ UNCHANGED <<ckpt, out>>

Next ==
    \/ Begin
    \/ \E data \in Input : Update(data)
    \/ Finish
    \/ \E s \in Slot : Save(s) \/ Restore(s)

Spec == Init /\ [][Next]_vars
=============================================================================
