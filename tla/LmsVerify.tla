----------------------------- MODULE LmsVerify -----------------------------
(***************************************************************************)
(* verify_with and lmots_public_key_candidate                              *)
(* (src/crates/lms-verify/src/lib.rs): one verification of one signature,   *)
(* driving a Sha256Backend.                                                *)
(*                                                                         *)
(* The backend is not here.  The verifier queues the calls it makes in     *)
(* todo, in order, and goes on when they have returned, with the last      *)
(* finish's output in out.  LmsOnContract and LmsOnHw say who serves them. *)
(*                                                                         *)
(* What is hashed are terms (LmsTerms).  Only the digest Q is ever taken   *)
(* apart into bytes, and which bytes they are is part of the case run.     *)
(***************************************************************************)
EXTENDS LmsParse, LmsTerms

CONSTANTS
    Case           \* the verifications to run: [pk, msg, sig, oracle]

\* A signature of the right length is cut into as many chain values and path
\* nodes as that length leaves room for; a leaf index is a u32.
Layout(key, s) ==
    /\ s.q \in Nat
    /\ ParseError(key, s) = "none" =>
        /\ Len(s.y) = Lmots[key.otsType].p
        /\ Len(s.path) = Lms[key.lmsType].h

ASSUME LayoutAssumption ==
    \A c \in Case :
        /\ Layout(c.pk, c.sig) /\ c.msg.len \in Nat
        /\ c.oracle.then \in DigestBytes /\ c.oracle.else \in DigestBytes

VARIABLES
    pk, msg, sig,  \* the arguments: the public key, the message, the signature
    oracle,        \* the bytes of Q: [of, then, else]
    stage,         \* where the verifier is
    verdict,       \* "none" until it returns: "Ok" or an Error
    todo,          \* the backend calls made and not served yet
    out,           \* the output of the backend's last finish
    qc,            \* Q || Cksm(Q)
    i, j, tmp,     \* chain i, at link j, with value tmp
    node, k,       \* the climb: the node tmp hashes to, and the path entries used
    work           \* compressions noted so far (note_hash)

args == <<pk, msg, sig, oracle>>
walk == <<qc, i, j, tmp>>
climb == <<node, k>>
control == <<stage, verdict, work>>

lmsVars == <<args, walk, climb, control>>

-----------------------------------------------------------------------------
InitCall == [op |-> "init"]
UpdateCall(token) == [op |-> "update", data |-> <<token>>]
FinishCall == [op |-> "finish"]
SaveCall == [op |-> "save"]
RestoreCall == [op |-> "restore"]

Updates(preimage) == [n \in 1 .. Len(preimage) |-> UpdateCall(preimage[n])]

\* init, the fields of the preimage, finish.
HashCalls(preimage) == <<InitCall>> \o Updates(preimage) \o <<FinishCall>>

\* The bytes of a digest.
Bytes(h) == IF h = oracle.of THEN oracle.then ELSE oracle.else

-----------------------------------------------------------------------------
(***************************************************************************)
(* The preimages, as the verifier builds them.                             *)
(***************************************************************************)
MesgPreimage(id, q, c, m) == <<id, U32(q), U16(D_MESG), c, m>>
PblcPrefix(id, q) == <<id, U32(q), U16(D_PBLC)>>
LinkPreimage(id, q, n, l, v) == <<id, U32(q), U16(n), U8(l), v>>
LeafPreimage(id, r, kc) == <<id, U32(r), U16(D_LEAF), kc>>

\* The sibling on the wrong side.
IntrPreimageSwapped(id, r, v, sibling) ==
    <<id, U32(r \div 2), U16(D_INTR)>> \o
        (IF r % 2 = 1 THEN <<v, sibling>> ELSE <<sibling, v>>)

\* A node that is a right child has its sibling on the left.
IntrPreimage(id, r, v, sibling) ==
    <<id, U32(r \div 2), U16(D_INTR)>> \o
        (IF r % 2 = 1 THEN <<sibling, v>> ELSE <<v, sibling>>)

-----------------------------------------------------------------------------
ots == Lmots[pk.otsType]
lms == Lms[pk.lmsType]

-----------------------------------------------------------------------------
Init ==
    /\ \E c \in Case : pk = c.pk /\ msg = c.msg /\ sig = c.sig /\ oracle = c.oracle
    /\ stage = "parse" /\ verdict = "none" /\ work = 0
    /\ todo = <<>> /\ out = <<"none">>
    /\ qc = <<>> /\ i = 0 /\ j = 0 /\ tmp = <<"none">>
    /\ node = 0 /\ k = 0

\* What every step of the verifier waits for and leaves alone.
Returned == todo = <<>> /\ UNCHANGED <<args, out>>

Return(v) ==
    /\ stage' = "done" /\ verdict' = v
    /\ UNCHANGED <<todo, walk, climb, work>>

Call(calls, len) ==
    /\ todo' = calls
    /\ work' = work + Compressions(len)

Reject ==
    /\ stage = "parse" /\ Returned
    /\ ParseError(pk, sig) # "none"
    /\ Return(ParseError(pk, sig))

HashMessage ==
    /\ stage = "parse" /\ Returned
    /\ ParseError(pk, sig) = "none"
    /\ Call(HashCalls(MesgPreimage(pk.id, sig.q, sig.c, msg)), MesgLen(msg.len))
    /\ stage' = "message"
    /\ UNCHANGED <<verdict, walk, climb>>

\* The chain a signature value starts in the middle of: from its coefficient.
StartChain(bytes, n) ==
    /\ i' = n
    /\ j' = Coef(bytes, n, ots.w)
    /\ tmp' = sig.y[n + 1]

\* Q is out: open the digest of Kc, park it, take the first chain.
OpenKc ==
    /\ stage = "message" /\ Returned
    /\ qc' = WithChecksum(Bytes(out), ots)
    /\ StartChain(qc', 0)
    /\ Call(<<InitCall>> \o Updates(PblcPrefix(pk.id, sig.q)) \o <<SaveCall>>, PblcLen(ots))
    /\ stage' = "walk"
    /\ UNCHANGED <<verdict, climb>>

Link ==
    /\ stage = "walk" /\ Returned
    /\ j < ChainLen(ots)
    /\ Call(HashCalls(LinkPreimage(pk.id, sig.q, i, j, tmp)), LinkLen)
    /\ stage' = "link"
    /\ UNCHANGED <<verdict, walk, climb>>

Linked ==
    /\ stage = "link" /\ Returned
    /\ tmp' = out /\ j' = j + 1
    /\ stage' = "walk"
    /\ UNCHANGED <<todo, qc, i, climb, verdict, work>>

\* The digest of Kc left wherever the last link's finish left the backend.
FoldCallsUnrestored == <<UpdateCall(tmp), SaveCall>>

\* Resume Kc, absorb the end of the chain, park Kc again.
FoldCalls == <<RestoreCall, UpdateCall(tmp), SaveCall>>

\* The end of chain i: fold it into Kc, take the next chain.
Fold ==
    /\ stage = "walk" /\ Returned
    /\ j >= ChainLen(ots)
    /\ todo' = FoldCalls
    /\ IF i + 1 < ots.p
        THEN StartChain(qc, i + 1) /\ stage' = "walk"
        ELSE i' = i + 1 /\ UNCHANGED <<j, tmp>> /\ stage' = "fold"
    /\ UNCHANGED <<qc, climb, verdict, work>>

CloseKc ==
    /\ stage = "fold" /\ Returned
    /\ todo' = <<RestoreCall, FinishCall>>
    /\ stage' = "kc"
    /\ UNCHANGED <<walk, climb, verdict, work>>

\* The leaf index taken for the node.
LeafNodeUnmarked(q) == q

\* The node a leaf index has.
LeafNode(q) == Pow2(lms.h) + q

\* Kc is out: hash it into the leaf.
HashLeaf ==
    /\ stage = "kc" /\ Returned
    /\ node' = LeafNode(sig.q) /\ k' = 0
    /\ Call(HashCalls(LeafPreimage(pk.id, node', out)), LeafLen)
    /\ stage' = "climb"
    /\ UNCHANGED <<walk, verdict>>

Climb ==
    /\ stage = "climb" /\ Returned
    /\ node > 1
    /\ Call(HashCalls(IntrPreimage(pk.id, node, out, sig.path[k + 1])), IntrLen)
    /\ node' = node \div 2 /\ k' = k + 1
    /\ UNCHANGED <<walk, stage, verdict>>

Compare ==
    /\ stage = "climb" /\ Returned
    /\ node <= 1
    /\ Return(IF out = pk.root THEN "Ok" ELSE "Invalid")

Verify ==
    \/ Reject \/ HashMessage \/ OpenKc \/ Link \/ Linked
    \/ Fold \/ CloseKc \/ HashLeaf \/ Climb \/ Compare

\* The backend, as far as the verifier can tell: it serves calls.
BackendServes ==
    /\ todo # <<>>
    /\ todo' = Tail(todo)
    /\ UNCHANGED lmsVars

-----------------------------------------------------------------------------
\* The stages, and that nothing is hashed before everything has parsed.
TypeOK ==
    /\ Layout(pk, sig)
    /\ stage \in {"parse", "message", "walk", "link", "fold", "kc", "climb", "done"}
    /\ stage \notin {"parse", "done"} => ParseError(pk, sig) = "none"

\* The chain walked is one of the parameter set's; after k nodes of the path
\* the climb is at depth h - k.
WalkOK == stage \in {"walk", "link"} => i \in 0 .. ots.p - 1

ClimbOK ==
    stage = "climb" =>
        /\ k \in 0 .. lms.h /\ node \in Nat
        /\ Pow2(lms.h - k) <= node /\ node < 2 * Pow2(lms.h - k)

\* Inductive: where the loops are, in terms of the parameter sets.
Inv == TypeOK /\ WalkOK /\ ClimbOK

(***************************************************************************)
(* No slice of the signature is out of range: the chain values and the     *)
(* authentication path are indexed by loops whose bounds come from the     *)
(* public key's parameter set, not from the signature.                     *)
(***************************************************************************)
SlicesInBounds ==
    /\ stage \in {"walk", "link"} => i < Len(sig.y)
    /\ stage = "climb" /\ node > 1 => k < Len(sig.path)

\* The root is compared exactly when the whole path has been used.
PathIsUsedUp == stage = "climb" /\ node <= 1 => node = 1 /\ k = Len(sig.path)

\* The work noted is what verification_cost predicts for the same arguments.
CostIsExact ==
    verdict \in {"Ok", "Invalid"} =>
        work = VerificationCost(WithChecksum(Bytes(Hash(
                    MesgPreimage(pk.id, sig.q, sig.c, msg))), ots), ots, lms, msg.len)

\* The work noted lies between the bounds a boot budget is made with.
CostIsBounded ==
    verdict \in {"Ok", "Invalid"} =>
        LET bounds == Bounds(ots, lms, msg.len) IN work \in bounds.min .. bounds.max
=============================================================================
