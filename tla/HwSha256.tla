------------------------------ MODULE HwSha256 ------------------------------
(***************************************************************************)
(* HwSha256 (src/esp-probe/src/hw_sha.rs): the backend over the ESP32 SHA  *)
(* peripheral.  Input is collected in a buffer of COALESCE bytes.  A digest *)
(* that fits is handed to the peripheral in one go by finish, which only   *)
(* borrows the driver; one that overflows, or is checkpointed, moves the    *)
(* driver into an owned digest (Hashing) and streams.                      *)
(*                                                                         *)
(* A call is a method of the trait.  The peripheral accepts part of what   *)
(* it is offered and may then be busy, so a call is a sequence of steps:   *)
(* pc says where in its body it is.  The caller is single threaded and     *)
(* makes any call, with any data, as soon as the last one returned.        *)
(* Polling a busy peripheral (nb::block!) changes nothing and is the       *)
(* absence of a step.                                                      *)
(***************************************************************************)
EXTENDS Integers, Sequences

CONSTANTS
    Input, Slot, Sha256(_), NoDigest,   \* as in Sha256Backend
    Byte,          \* what the inputs are made of
    COALESCE,      \* capacity of the buffer
    MaxLen         \* bound: no digest is made longer than this

ASSUME ConstantsAssumption ==
    /\ COALESCE \in Nat \ {0}
    /\ Input \subseteq Seq(Byte)

VARIABLES
    state,         \* where the driver is; Moving only inside a call
    ctx,           \* what the digest open in the peripheral has absorbed
    busy,          \* the peripheral would block
    buf,           \* the first len bytes of the buffer
    pc,            \* where in the running call, or "caller" between calls
    call,          \* the method running
    slot,          \* the checkpoint save was given
    rest,          \* update: the input not yet copied into the buffer
    remaining,     \* the slice the peripheral has not yet accepted
    ckpt, out      \* as in Sha256Backend

vars == <<state, ctx, busy, buf, pc, call, slot, rest, remaining, ckpt, out>>

State == {"Idle", "Hashing", "Moving"}

Lesser(a, b) == IF a <= b THEN a ELSE b
Take(s, n) == SubSeq(s, 1, n)
Drop(s, n) == SubSeq(s, n + 1, Len(s))

(***************************************************************************)
(* What a caller of the trait would say the digest in progress has         *)
(* absorbed: the engine's share, then what is on its way to the engine,    *)
(* then what update has still to copy.                                     *)
(***************************************************************************)
Pending == IF pc \in {"push", "digest", "save"} THEN remaining ELSE buf
Absorbed == ctx \o Pending \o rest

Contract == INSTANCE Sha256Backend WITH cur <- Absorbed

-----------------------------------------------------------------------------
\* HwSha256::new
Init ==
    /\ state = "Idle" /\ ctx = <<>> /\ busy = FALSE
    /\ buf = <<>>
    /\ pc = "caller" /\ call = "none"
    /\ slot \in Slot /\ rest = <<>> /\ remaining = <<>>
    /\ ckpt = [s \in Slot |-> <<>>]
    /\ out = NoDigest

\* init that leaves len as it is.
BeginKeepsBuffer ==
    /\ pc = "caller"
    /\ state' = IF state = "Hashing" THEN "Idle" ELSE state
    /\ ctx' = <<>>
    /\ UNCHANGED <<busy, buf, pc, call, slot, rest, remaining, ckpt, out>>

\* init: gives up an owned digest, and does not touch the peripheral.
Begin ==
    /\ pc = "caller"
    /\ state' = IF state = "Hashing" THEN "Idle" ELSE state
    /\ ctx' = <<>>
    /\ buf' = <<>>
    /\ UNCHANGED <<busy, pc, call, slot, rest, remaining, ckpt, out>>

Update(data) ==
    /\ pc = "caller"
    /\ Len(Absorbed) + Len(data) <= MaxLen
    /\ pc' = "copy" /\ call' = "update"
    /\ rest' = data
    /\ UNCHANGED <<state, ctx, busy, buf, slot, remaining, ckpt, out>>

\* The mutated forms of the test for a full buffer.
FullPastTheEnd(len) == len > COALESCE

\* update, the test after each copy: the buffer has to be pushed.
Full(len) == len = COALESCE

\* One turn of update's loop.  A buffer that fills up is pushed, into a
\* digest opened for it if none was.
Copy ==
    /\ pc = "copy" /\ rest # <<>>
    /\ LET n == Lesser(COALESCE - Len(buf), Len(rest)) IN
        /\ buf' = buf \o Take(rest, n)
        /\ rest' = Drop(rest, n)
    /\ IF Full(Len(buf'))
        THEN /\ state' = "Hashing"
             /\ remaining' = buf'
             /\ pc' = "push"
        ELSE UNCHANGED <<state, remaining, pc>>
    /\ UNCHANGED <<ctx, busy, call, slot, ckpt, out>>

UpdateReturns ==
    /\ pc = "copy" /\ rest = <<>>
    /\ pc' = "caller" /\ call' = "none"
    /\ UNCHANGED <<state, ctx, busy, buf, slot, rest, remaining, ckpt, out>>

-----------------------------------------------------------------------------
\* push, and the two loops of finish: offer the slice, keep what is declined.
Offer ==
    /\ pc = "push" /\ remaining # <<>> /\ ~busy
    /\ \E n \in 1 .. Len(remaining) :
        /\ ctx' = ctx \o Take(remaining, n)
        /\ remaining' = Drop(remaining, n)
    /\ busy' \in BOOLEAN
    /\ UNCHANGED <<state, buf, pc, call, slot, rest, ckpt, out>>

\* The slice is in: len = 0, and on with the call that pushed it.
Pushed ==
    /\ pc = "push" /\ remaining = <<>>
    /\ pc' = CASE call = "update" -> "copy"
               [] call = "finish" -> "digest"
               [] call = "save"   -> "save"
    /\ buf' = <<>>
    /\ UNCHANGED <<state, ctx, busy, call, slot, rest, remaining, ckpt, out>>

\* The peripheral, in its own time.
Ready ==
    /\ busy
    /\ busy' = FALSE
    /\ UNCHANGED <<state, ctx, buf, pc, call, slot, rest, remaining, ckpt, out>>

-----------------------------------------------------------------------------
\* finish: an idle driver is borrowed where it is; an owned digest is moved
\* out of self first.
Finish ==
    /\ pc = "caller"
    /\ pc' = "push" /\ call' = "finish"
    /\ state' = IF state = "Idle" THEN "Idle" ELSE "Moving"
    /\ remaining' = buf
    /\ UNCHANGED <<ctx, busy, buf, slot, rest, ckpt, out>>

\* finish that forgets to put the driver back.
DigestKeepsMoving ==
    /\ pc = "digest" /\ ~busy
    /\ out' = Sha256(ctx)
    /\ ctx' = <<>>
    /\ pc' = "caller" /\ call' = "none"
    /\ UNCHANGED <<state, busy, buf, slot, rest, remaining, ckpt>>

\* finish, once everything is in: read the digest out, put the driver back.
Digest ==
    /\ pc = "digest" /\ ~busy
    /\ out' = Sha256(ctx)
    /\ state' = "Idle" /\ ctx' = <<>>
    /\ pc' = "caller" /\ call' = "none"
    /\ UNCHANGED <<busy, buf, slot, rest, remaining, ckpt>>

\* save that captures the engine and forgets the buffer.
SaveUnflushed(s) ==
    /\ pc = "caller"
    /\ pc' = "push" /\ call' = "save" /\ slot' = s
    /\ state' = "Hashing"
    /\ remaining' = <<>>
    /\ UNCHANGED <<ctx, busy, buf, rest, ckpt, out>>

\* save: open a digest if none is, flush the buffer into it.
Save(s) ==
    /\ pc = "caller"
    /\ pc' = "push" /\ call' = "save" /\ slot' = s
    /\ state' = "Hashing"
    /\ remaining' = buf
    /\ UNCHANGED <<ctx, busy, buf, rest, ckpt, out>>

\* save, once everything is in: read the engine's state out.
Capture ==
    /\ pc = "save" /\ ~busy
    /\ ckpt' = [ckpt EXCEPT ![slot] = ctx]
    /\ pc' = "caller" /\ call' = "none"
    /\ UNCHANGED <<state, ctx, busy, buf, slot, rest, remaining, out>>

\* restore: the driver, from wherever it is, into the captured digest.
Restore(s) ==
    /\ pc = "caller"
    /\ state' = "Hashing"
    /\ ctx' = ckpt[s]
    /\ buf' = <<>>
    /\ UNCHANGED <<busy, pc, call, slot, rest, remaining, ckpt, out>>

-----------------------------------------------------------------------------
CallerStep ==
    \/ Begin
    \/ \E data \in Input : Update(data)
    \/ Finish
    \/ \E s \in Slot : Save(s) \/ Restore(s)

BackendStep == Copy \/ UpdateReturns \/ Offer \/ Pushed \/ Digest \/ Capture

Next == CallerStep \/ BackendStep \/ Ready

Spec == Init /\ [][Next]_vars

(***************************************************************************)
(* A call runs to its end unless the peripheral stays busy, and it does    *)
(* not stay busy.  The caller need never call.                             *)
(***************************************************************************)
Fairness == WF_vars(BackendStep) /\ WF_vars(Ready)
FairSpec == Spec /\ Fairness

-----------------------------------------------------------------------------
\* What is held between the caller and the digests is made of these bytes.
MadeOf(bytes) ==
    /\ ctx \in Seq(bytes) /\ buf \in Seq(bytes)
    /\ rest \in Seq(bytes) /\ remaining \in Seq(bytes)
    /\ ckpt \in [Slot -> Seq(bytes)]

\* The types, and that the buffer is never overrun.
TypeOK ==
    /\ state \in State /\ busy \in BOOLEAN
    /\ Len(buf) <= COALESCE
    /\ pc \in {"caller", "copy", "push", "digest", "save"}
    /\ call \in {"none", "update", "finish", "save"}
    /\ slot \in Slot

(***************************************************************************)
(* No call meets the driver where its match arms would panic: a call        *)
(* never starts with the driver in transit ("state left in transit"), and  *)
(* push and save only ever stream into an owned digest ("update before     *)
(* init", "just ensured Hashing").                                         *)
(***************************************************************************)
NoPanic ==
    /\ pc = "caller" => state # "Moving"
    /\ pc \in {"push", "save"} /\ call \in {"update", "save"} => state = "Hashing"

(***************************************************************************)
(* What the invariant needs to be inductive: which method is running where, *)
(* and that nothing is left behind in a place the next step ignores.       *)
(***************************************************************************)
ControlOK ==
    /\ pc = "caller" => call = "none"
    /\ pc = "copy"   => call = "update" /\ state # "Moving"
    /\ pc = "push"   => call \in {"update", "finish", "save"}
    /\ pc = "digest" => call = "finish"
    /\ pc = "save"   => call = "save"

NothingLeftBehind ==
    /\ state = "Idle" /\ pc \in {"caller", "copy"} => ctx = <<>>
    /\ call # "update" => rest = <<>>
    /\ pc # "push" => remaining = <<>>
    /\ pc \in {"digest", "save"} => buf = <<>>
    /\ pc \in {"caller", "copy"} => Len(buf) < COALESCE

\* Inductive, whatever the bytes: no panic, and what that rests on.
InvOver(bytes) ==
    MadeOf(bytes) /\ TypeOK /\ NoPanic /\ ControlOK /\ NothingLeftBehind

Inv == InvOver(Byte)

\* Seen through Absorbed, ckpt and out, the calls do what the trait promises:
\* buffering, partial acceptance and the moves of the driver are invisible.
KeepsContract == Contract!Spec

(***************************************************************************)
(* And each call is its own promise and no other's: an init that forgot to *)
(* discard what was buffered would pass for nothing at all, which          *)
(* KeepsContract allows.  A step in the middle of a call is invisible.     *)
(***************************************************************************)
Invisible == Finish \/ (\E s \in Slot : Save(s))
             \/ Copy \/ UpdateReturns \/ Offer \/ Pushed \/ Ready

Promised ==
    /\ Begin => Contract!Begin
    /\ \A data \in Input : Update(data) => Contract!Update(data)
    /\ Digest => Contract!Finish
    /\ Capture => Contract!Save(slot)
    /\ \A s \in Slot : Restore(s) => Contract!Restore(s)
    /\ Invisible => UNCHANGED Contract!vars

EachCallKeepsItsPromise == [][Promised]_vars

\* Every call returns, whatever the peripheral accepts at a time.
EveryCallReturns == pc # "caller" ~> pc = "caller"
=============================================================================
