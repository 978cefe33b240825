--------------------------- MODULE LmsOnHw_proofs ---------------------------
(***************************************************************************)
(* A verification on the peripheral is a verification with SoftSha256, and *)
(* never meets the driver where a call would panic: what HwSha256_proofs    *)
(* says of each call, for the calls the verifier makes.                    *)
(***************************************************************************)
EXTENDS LmsOnHw, SequenceTheorems, TLAPS

Driver == INSTANCE HwSha256_proofs
    WITH Input <- {}, Byte <- {}, Slot <- {"kc_state"}, Sha256 <- Hash,
         NoDigest <- <<"none">>, MaxLen <- Longest

\* The calls on these tokens.
Calls(tokens) ==
    {InitCall, FinishCall, SaveCall, RestoreCall} \cup {UpdateCall(t) : t \in tokens}

(***************************************************************************)
(* Inductive: the driver's invariant, over whatever bytes have come by so   *)
(* far, and a queue of calls, each update of which passes one token.       *)
(***************************************************************************)
DriverOK == \E B : Driver!InvOver(B)
QueueOK == \E T : todo \in Seq(Calls(T))
HwInv == DriverOK /\ QueueOK

\* What HwSha256 asks of its constants.
LEMMA DriverConstants == COALESCE \in Nat \ {0} /\ {} \subseteq Seq({})
  BY DriverAssumption

-----------------------------------------------------------------------------
\* Sequences over a set are sequences over a larger one.
LEMMA SeqGrows ==
    ASSUME NEW S, NEW T, S \subseteq T, NEW s \in Seq(S)
    PROVE  s \in Seq(T)
  <1>1. Len(s) \in Nat /\ s \in [1 .. Len(s) -> S]
    BY LenProperties
  <1>2. s \in [1 .. Len(s) -> T]
    BY <1>1
  <1> QED  BY <1>1, <1>2, SeqDef

\* So the driver may be said to hold bytes of a larger set.
LEMMA InvGrows ==
    ASSUME NEW S, NEW T, S \subseteq T, Driver!InvOver(S)
    PROVE  Driver!InvOver(T)
  <1> USE DEF Driver!InvOver, Driver!MadeOf
  <1>1. /\ ctx \in Seq(T) /\ buf \in Seq(T) /\ rest \in Seq(T) /\ remaining \in Seq(T)
    BY SeqGrows
  <1>2. Seq(S) \subseteq Seq(T)
    BY SeqGrows
  <1>3. ckpt \in [{"kc_state"} -> Seq(T)]
    BY <1>2
  <1> QED  BY <1>1, <1>3

\* The calls that hash a preimage.
LEMMA HashCallsType ==
    ASSUME NEW T, NEW preimage \in Seq(T)
    PROVE  HashCalls(preimage) \in Seq(Calls(T)) /\ Updates(preimage) \in Seq(Calls(T))
  <1>1. Len(preimage) \in Nat /\ \A n \in 1 .. Len(preimage) : preimage[n] \in T
    BY LenProperties, ElementOfSeq
  <1>2. Updates(preimage) \in [1 .. Len(preimage) -> Calls(T)]
    BY <1>1 DEF Updates, Calls
  <1>3. Updates(preimage) \in Seq(Calls(T))
    BY <1>1, <1>2, SeqDef
  <1>4. <<InitCall>> \in Seq(Calls(T)) /\ <<FinishCall>> \in Seq(Calls(T))
    BY DEF Calls
  <1>5. <<InitCall>> \o Updates(preimage) \in Seq(Calls(T))
    BY <1>3, <1>4, ConcatProperties
  <1> QED  BY <1>3, <1>4, <1>5, ConcatProperties DEF HashCalls

\* The verifier queues such calls and no others.
LEMMA VerifyQueue == Verify /\ QueueOK => QueueOK'
  <1> SUFFICES ASSUME Verify, QueueOK PROVE QueueOK'
    OBVIOUS
  <1>0. PICK T : todo \in Seq(Calls(T))
    BY DEF QueueOK
  <1>1. ASSUME NEW S, todo' \in Seq(Calls(S)) PROVE QueueOK'
    BY <1>1 DEF QueueOK
  <1>2. CASE Reject \/ Linked \/ Compare
    <2>1. todo' = todo
      BY <1>2 DEF Reject, Linked, Compare, Return
    <2> QED  BY <1>0, <1>1, <2>1
  <1>3. CASE HashMessage
    <2> DEFINE p == MesgPreimage(pk.id, sig.q, sig.c, msg)
               S == {pk.id, U32(sig.q), U16(D_MESG), sig.c, msg}
    <2>1. p \in Seq(S)
      BY DEF MesgPreimage
    <2>2. todo' = HashCalls(p)
      BY <1>3 DEF HashMessage, Call
    <2> QED  BY <1>1, <2>1, <2>2, HashCallsType
  <1>4. CASE OpenKc
    <2> DEFINE p == PblcPrefix(pk.id, sig.q)
               S == {pk.id, U32(sig.q), U16(D_PBLC)}
    <2>1. p \in Seq(S)
      BY DEF PblcPrefix
    <2>2. todo' = <<InitCall>> \o Updates(p) \o <<SaveCall>>
      BY <1>4 DEF OpenKc, Call
    <2>3. Updates(p) \in Seq(Calls(S))
      BY <2>1, HashCallsType
    <2>4. <<InitCall>> \in Seq(Calls(S)) /\ <<SaveCall>> \in Seq(Calls(S))
      BY DEF Calls
    <2>5. todo' \in Seq(Calls(S))
      <3> HIDE DEF p, S
      <3>1. <<InitCall>> \o Updates(p) \in Seq(Calls(S))
        BY <2>3, <2>4, ConcatProperties
      <3> QED  BY <2>2, <2>4, <3>1, ConcatProperties
    <2> QED  BY <1>1, <2>5
  <1>5. CASE Link
    <2> DEFINE p == LinkPreimage(pk.id, sig.q, i, j, tmp)
               S == {pk.id, U32(sig.q), U16(i), U8(j), tmp}
    <2>1. p \in Seq(S)
      BY DEF LinkPreimage
    <2>2. todo' = HashCalls(p)
      BY <1>5 DEF Link, Call
    <2> QED  BY <1>1, <2>1, <2>2, HashCallsType
  <1>6. CASE Fold
    <2>1. todo' = FoldCalls
      BY <1>6 DEF Fold
    <2>2. FoldCalls \in Seq(Calls({tmp}))
      BY DEF FoldCalls, Calls
    <2> QED  BY <1>1, <2>1, <2>2
  <1>7. CASE CloseKc
    <2>1. <<RestoreCall, FinishCall>> \in Seq(Calls({}))
      BY DEF Calls
    <2> QED  BY <1>1, <1>7, <2>1 DEF CloseKc
  <1>8. CASE HashLeaf
    <2> DEFINE p == LeafPreimage(pk.id, node', out)
               S == {pk.id, U32(node'), U16(D_LEAF), out}
    <2>1. p \in Seq(S)
      BY DEF LeafPreimage
    <2>2. todo' = HashCalls(p)
      BY <1>8 DEF HashLeaf, Call
    <2> QED  BY <1>1, <2>1, <2>2, HashCallsType
  <1>9. CASE Climb
    <2> DEFINE p == IntrPreimage(pk.id, node, out, sig.path[k + 1])
               S == {pk.id, U32(node \div 2), U16(D_INTR), out, sig.path[k + 1]}
    <2>1. p \in Seq(S)
      <3>1. /\ <<pk.id, U32(node \div 2), U16(D_INTR)>> \in Seq(S)
            /\ <<sig.path[k + 1], out>> \in Seq(S) /\ <<out, sig.path[k + 1]>> \in Seq(S)
        OBVIOUS
      <3> HIDE DEF S
      <3> QED  BY <3>1, ConcatProperties DEF IntrPreimage
    <2>2. todo' = HashCalls(p)
      BY <1>9 DEF Climb, Call
    <2> QED  BY <1>1, <2>1, <2>2, HashCallsType
  <1> QED  BY <1>2, <1>3, <1>4, <1>5, <1>6, <1>7, <1>8, <1>9 DEF Verify

-----------------------------------------------------------------------------
\* The tokens an update passes, and what the other calls are.
LEMMA QueueHead ==
    ASSUME NEW T, todo \in Seq(Calls(T)), todo # <<>>
    PROVE  /\ Head(todo) \in Calls(T) /\ Tail(todo) \in Seq(Calls(T))
           /\ todo = <<Head(todo)>> \o Tail(todo)
           /\ Head(todo).op = "finish" => Head(todo) = FinishCall
           /\ Head(todo).op = "save" => Head(todo) = SaveCall
           /\ Head(todo).op = "update" => \E t \in T : Head(todo).data = <<t>>
  <1>1. Head(todo) \in Calls(T) /\ Tail(todo) \in Seq(Calls(T))
    BY HeadTailProperties
  <1>2. todo = <<Head(todo)>> \o Tail(todo)
    BY HeadTailProperties
  <1> QED  BY <1>1, <1>2 DEF Calls, InitCall, FinishCall, SaveCall, RestoreCall, UpdateCall

\* The driver and the verifier's queue start out as they should.
LEMMA InitOK == HwInit => HwInv
  <1> SUFFICES ASSUME HwInit PROVE HwInv
    OBVIOUS
  <1>1. PICK used \in Leftover :
            \/ state = "Idle" /\ ctx = <<>> /\ buf = used
            \/ \E n \in 0 .. Len(used) :
                state = "Hashing" /\ ctx = Hw!Take(used, n) /\ buf = Hw!Drop(used, n)
    BY DEF HwInit
  <1> DEFINE B == {used[n] : n \in DOMAIN used}
  <1>2. used \in Seq(B)
    BY DriverAssumption
  <1> HIDE DEF B
  <1>3. <<>> \in Seq(B) /\ <<>> \in Seq(Calls({}))
    BY EmptySeq
  <1>4. ctx \in Seq(B) /\ buf \in Seq(B)
    <2>1. ASSUME NEW n \in 0 .. Len(used)
          PROVE  Hw!Take(used, n) \in Seq(B) /\ Hw!Drop(used, n) \in Seq(B)
      BY <1>2, DriverConstants, Driver!SplitAt DEF Driver!SplitAt, Hw!Take, Hw!Drop
    <2> QED  BY <1>1, <1>2, <1>3, <2>1
  <1>5. /\ rest = <<>> /\ remaining = <<>> /\ pc = "caller" /\ call = "none"
        /\ slot = "kc_state" /\ busy \in BOOLEAN /\ Len(buf) < COALESCE
        /\ ckpt = [s \in {"kc_state"} |-> <<>>]
        /\ todo = <<>>
    BY DEF HwInit, Init
  <1>6. ckpt \in [{"kc_state"} -> Seq(B)]
    BY <1>3, <1>5
  <1>7. Driver!MadeOf(B)
    BY <1>3, <1>4, <1>5, <1>6 DEF Driver!MadeOf
  <1>8. Driver!TypeOK
    <2>1. Len(buf) \in Nat
      BY <1>4, LenProperties
    <2> QED  BY <1>1, <1>5, <2>1, DriverAssumption DEF Driver!TypeOK, Driver!State
  <1>9. Driver!NoPanic /\ Driver!ControlOK /\ Driver!NothingLeftBehind
    BY <1>1, <1>5 DEF Driver!NoPanic, Driver!ControlOK, Driver!NothingLeftBehind
  <1>10. DriverOK
    BY <1>7, <1>8, <1>9 DEF DriverOK, Driver!InvOver
  <1>11. QueueOK
    BY <1>3, <1>5 DEF QueueOK
  <1> QED  BY <1>10, <1>11 DEF HwInv

-----------------------------------------------------------------------------
\* The driver's actions are those HwSha256_proofs is about.
LEMMA DriverActions ==
    /\ Hw!Begin => Driver!Begin
    /\ \A data : Hw!Update(data) => Driver!Update(data)
    /\ Hw!Finish => Driver!Finish
    /\ \A s : Hw!Save(s) => Driver!Save(s)
    /\ \A s : Hw!Restore(s) => Driver!Restore(s)
    /\ Hw!Copy => Driver!Copy
    /\ Hw!UpdateReturns => Driver!UpdateReturns
    /\ Hw!Offer => Driver!Offer
    /\ Hw!Pushed => Driver!Pushed
    /\ Hw!Digest => Driver!Digest
    /\ Hw!Capture => Driver!Capture
    /\ Hw!BackendStep => Driver!BackendStep
    /\ Hw!Ready => Driver!Ready
    /\ Hw!Absorbed = Driver!Absorbed
  <1>1. \A s, n : Hw!Take(s, n) = Driver!Take(s, n) /\ Hw!Drop(s, n) = Driver!Drop(s, n)
    BY DEF Hw!Take, Driver!Take, Hw!Drop, Driver!Drop
  <1>2. \A m, n : Hw!Lesser(m, n) = Driver!Lesser(m, n) /\ Hw!Full(m) = Driver!Full(m)
    BY DEF Hw!Lesser, Driver!Lesser, Hw!Full, Driver!Full
  <1>3. Hw!Absorbed = Driver!Absorbed
    BY DEF Hw!Absorbed, Driver!Absorbed, Hw!Pending, Driver!Pending
  <1>4. /\ Hw!Begin => Driver!Begin
        /\ Hw!Finish => Driver!Finish
        /\ \A s : Hw!Save(s) => Driver!Save(s)
        /\ \A s : Hw!Restore(s) => Driver!Restore(s)
        /\ Hw!Ready => Driver!Ready
    BY DEF Hw!Begin, Driver!Begin, Hw!Finish, Driver!Finish, Hw!Save, Driver!Save,
           Hw!Restore, Driver!Restore, Hw!Ready, Driver!Ready
  <1>5. \A data : Hw!Update(data) => Driver!Update(data)
    BY <1>3 DEF Hw!Update, Driver!Update
  <1>6. Hw!Copy => Driver!Copy
    BY <1>1, <1>2 DEF Hw!Copy, Driver!Copy
  <1>7. Hw!Offer => Driver!Offer
    BY <1>1 DEF Hw!Offer, Driver!Offer
  <1>8. /\ Hw!UpdateReturns => Driver!UpdateReturns
        /\ Hw!Pushed => Driver!Pushed
        /\ Hw!Digest => Driver!Digest
        /\ Hw!Capture => Driver!Capture
    BY DEF Hw!UpdateReturns, Driver!UpdateReturns, Hw!Pushed, Driver!Pushed,
           Hw!Digest, Driver!Digest, Hw!Capture, Driver!Capture
  <1> QED  BY <1>3, <1>4, <1>5, <1>6, <1>7, <1>8 DEF Hw!BackendStep, Driver!BackendStep

\* A call the verifier makes is one the driver's invariant is kept by, over
\* the bytes so far and the one it may pass.
LEMMA CallStartsOK ==
    ASSUME HwInv, CallStarts
    PROVE  HwInv'
  <1>1. PICK B : Driver!InvOver(B)
    BY DEF HwInv, DriverOK
  <1>2. PICK T : todo \in Seq(Calls(T))
    BY DEF HwInv, QueueOK
  <1>3. todo # <<>> /\ todo' = Tail(todo) /\ Starts(Head(todo))
    BY DEF CallStarts, BackendServes
  <1>4. QueueOK'
    BY <1>2, <1>3, QueueHead DEF QueueOK
  <1> DEFINE C == B \cup T
  <1>5. Driver!InvOver(C)
    BY <1>1, InvGrows
  <1>6. Driver!StepOver(C)
    <2>1. CASE Head(todo).op = "update" /\ Hw!Update(Head(todo).data)
      <3>1. PICK t \in T : Head(todo).data = <<t>>
        BY <1>2, <1>3, <2>1, QueueHead
      <3>2. t \in C
        OBVIOUS
      <3> HIDE DEF C
      <3>3. <<t>> \in Seq(C)
        BY <3>2
      <3>4. Head(todo).data \in Seq(C)
        BY <3>1, <3>3, Zenon
      <3> QED  BY <2>1, <3>4, DriverActions DEF Driver!StepOver
    <2>2. CASE Hw!Begin \/ Hw!Finish \/ Hw!Save("kc_state") \/ Hw!Restore("kc_state")
      BY <2>2, DriverActions DEF Driver!StepOver
    <2> QED  BY <1>3, <2>1, <2>2 DEF Starts
  <1> HIDE DEF C
  <1>7. Driver!InvOver(C)'
    BY <1>5, <1>6, DriverConstants, Driver!StepKeepsInv DEF Driver!StepKeepsInv
  <1> QED  BY <1>4, <1>7 DEF HwInv, DriverOK

\* Every step keeps the invariant.
LEMMA NextOK == HwInv /\ [Next]_vars => HwInv'
  <1> SUFFICES ASSUME HwInv, [Next]_vars PROVE HwInv'
    OBVIOUS
  <1>1. PICK B : Driver!InvOver(B)
    BY DEF HwInv, DriverOK
  <1>2. ASSUME Driver!StepOver(B) \/ UNCHANGED Driver!vars, QueueOK' PROVE HwInv'
    <2>1. Driver!InvOver(B)'
      BY <1>1, <1>2, DriverConstants, Driver!StepKeepsInv DEF Driver!StepKeepsInv
    <2> QED  BY <1>2, <2>1 DEF HwInv, DriverOK
  <1>3. todo' = todo => QueueOK'
    BY DEF HwInv, QueueOK
  <1>4. CASE VerifierRuns
    <2>1. UNCHANGED out
      BY <1>4 DEF VerifierRuns, Verify, Reject, HashMessage, OpenKc, Link, Linked, Fold, CloseKc,
                  HashLeaf, Climb, Compare, Returned
    <2>2. UNCHANGED Driver!vars
      BY <1>4, <2>1 DEF VerifierRuns, hwVars, Driver!vars
    <2>3. QueueOK'
      BY <1>4, VerifyQueue DEF VerifierRuns, HwInv
    <2> QED  BY <1>2, <2>2, <2>3
  <1>5. CASE CallStarts
    BY <1>5, CallStartsOK
  <1>6. CASE CallRuns \/ PeripheralReady
    BY <1>2, <1>3, <1>6, DriverActions DEF CallRuns, PeripheralReady, Driver!StepOver
  <1>7. CASE UNCHANGED vars
    BY <1>2, <1>3, <1>7 DEF vars, hwVars, Driver!vars
  <1> QED  BY <1>4, <1>5, <1>6, <1>7 DEF Next

(***************************************************************************)
(* The verifier never meets the driver where a call would panic, for every  *)
(* table of parameter sets, every buffer and everything it may hold when    *)
(* the verification starts.                                                *)
(***************************************************************************)
THEOREM PanicFree == Spec => []NoPanic
  <1>1. HwInv => NoPanic
    BY DEF HwInv, DriverOK, Driver!InvOver, Driver!NoPanic, NoPanic, Hw!NoPanic
  <1> QED  BY <1>1, InitOK, NextOK, PTL DEF Spec

-----------------------------------------------------------------------------
\* A verification starts with whatever the backend was left with.
LEMMA InitIsSoftware == HwInit => Software!VerifyInit
  <1> SUFFICES ASSUME HwInit PROVE Software!VerifyInit
    OBVIOUS
  <1>1. PICK used \in Leftover :
            \/ state = "Idle" /\ ctx = <<>> /\ buf = used
            \/ \E n \in 0 .. Len(used) :
                state = "Hashing" /\ ctx = Hw!Take(used, n) /\ buf = Hw!Drop(used, n)
    BY DEF HwInit
  <1> DEFINE B == {used[n] : n \in DOMAIN used}
  <1>2. used \in Seq(B)
    BY DriverAssumption
  <1> HIDE DEF B
  <1>3. Hw!Absorbed = (ctx \o buf) \o <<>>
    BY DEF HwInit, Hw!Absorbed, Hw!Pending
  <1>4. ctx \o buf = used
    <2>1. CASE ctx = <<>> /\ buf = used
      BY <1>2, <2>1, ConcatEmptySeq
    <2>2. ASSUME NEW n \in 0 .. Len(used), ctx = Hw!Take(used, n), buf = Hw!Drop(used, n)
          PROVE  ctx \o buf = used
      BY <1>2, <2>2, DriverConstants, Driver!SplitAt DEF Driver!SplitAt, Hw!Take, Hw!Drop
    <2> QED  BY <1>1, <2>1, <2>2
  <1>5. Hw!Absorbed = used
    BY <1>2, <1>3, <1>4, ConcatEmptySeq
  <1>6. Unserved = <<>>
    BY DEF HwInit, Init, Unserved
  <1>7. Software!Init
    BY <1>6 DEF HwInit, Init, Software!Init
  <1> QED  BY <1>1, <1>5, <1>7 DEF HwInit, Software!VerifyInit, Software!Slot

\* The verifier's own steps are the same over either backend.
LEMMA VerifyIsSoftware ==
    ASSUME Verify, Unserved = todo, Unserved' = todo'
    PROVE  Software!Verify
  <1> USE DEF ots, Software!ots, lms, Software!lms, args, Software!args, walk, Software!walk,
              climb, Software!climb, Returned, Software!Returned
  <1>1. ParseError(pk, sig) = Software!ParseError(pk, sig)
    BY DEF ParseError, Software!ParseError, SizeError, Software!SizeError,
           KeyError, Software!KeyError, SignatureLen, Software!SignatureLen,
           OtsSigLen, Software!OtsSigLen, Capacity, Software!Capacity, Pow2, Software!Pow2,
           PublicKeyLen, Software!PublicKeyLen
  <1>2. \A v : Return(v) = Software!Return(v)
    BY DEF Return, Software!Return
  <1>3. /\ \A calls, len : Call(calls, len) = Software!Call(calls, len)
        /\ \A p : HashCalls(p) = Software!HashCalls(p) /\ Updates(p) = Software!Updates(p)
        /\ InitCall = Software!InitCall /\ FinishCall = Software!FinishCall
        /\ SaveCall = Software!SaveCall /\ RestoreCall = Software!RestoreCall
        /\ FoldCalls = Software!FoldCalls
    BY DEF Call, Software!Call, Compressions, Software!Compressions,
           HashCalls, Software!HashCalls, Updates, Software!Updates, FoldCalls, Software!FoldCalls,
           InitCall, Software!InitCall, FinishCall, Software!FinishCall, SaveCall, Software!SaveCall,
           RestoreCall, Software!RestoreCall, UpdateCall, Software!UpdateCall
  <1>4. \A bytes, n : StartChain(bytes, n) = Software!StartChain(bytes, n)
    BY DEF StartChain, Software!StartChain, Coef, Software!Coef, Pow2, Software!Pow2
  <1>5. WithChecksum(Bytes(out), ots) = Software!WithChecksum(Software!Bytes(out), ots)
    BY DEF WithChecksum, Software!WithChecksum, Bytes, Software!Bytes, U16Bytes, Software!U16Bytes,
           Checksum, Software!Checksum, ShiftedSum, Software!ShiftedSum, Pow2, Software!Pow2,
           Total, Software!Total, Links, Software!Links, Fields, Software!Fields,
           ChainLen, Software!ChainLen, Coef, Software!Coef
  <1> USE DEF Software!Verify
  <1>6. CASE Reject \/ Compare
    BY <1>1, <1>2, <1>6 DEF Reject, Software!Reject, Compare, Software!Compare
  <1>7. CASE HashMessage
    BY <1>1, <1>3, <1>7
    DEF HashMessage, Software!HashMessage, MesgPreimage, Software!MesgPreimage, U32, Software!U32,
        U16, Software!U16, D_MESG, Software!D_MESG, MesgLen, Software!MesgLen
  <1>8. CASE OpenKc
    BY <1>3, <1>4, <1>5, <1>8
    DEF OpenKc, Software!OpenKc, PblcPrefix, Software!PblcPrefix, U32, Software!U32,
        U16, Software!U16, D_PBLC, Software!D_PBLC, PblcLen, Software!PblcLen
  <1>9. CASE Link \/ Linked
    BY <1>3, <1>9
    DEF Link, Software!Link, Linked, Software!Linked, LinkPreimage, Software!LinkPreimage,
        U32, Software!U32, U16, Software!U16, U8, Software!U8, LinkLen, Software!LinkLen,
        ChainLen, Software!ChainLen, Pow2, Software!Pow2
  <1>10. CASE Fold \/ CloseKc
    BY <1>3, <1>4, <1>10
    DEF Fold, Software!Fold, CloseKc, Software!CloseKc,
        ChainLen, Software!ChainLen, Pow2, Software!Pow2
  <1>11. CASE HashLeaf
    BY <1>3, <1>11
    DEF HashLeaf, Software!HashLeaf, LeafPreimage, Software!LeafPreimage, U32, Software!U32,
        U16, Software!U16, D_LEAF, Software!D_LEAF, LeafLen, Software!LeafLen,
        LeafNode, Software!LeafNode, Pow2, Software!Pow2
  <1>12. CASE Climb
    BY <1>3, <1>12
    DEF Climb, Software!Climb, IntrPreimage, Software!IntrPreimage, U32, Software!U32,
        U16, Software!U16, D_INTR, Software!D_INTR, IntrLen, Software!IntrLen
  <1> QED  BY <1>6, <1>7, <1>8, <1>9, <1>10, <1>11, <1>12 DEF Verify

\* Each call of the driver does to Absorbed, ckpt and out what the contract says.
LEMMA CallEffects ==
    ASSUME DriverOK
    PROVE  /\ Hw!Begin => Software!Backend!Begin
           /\ \A data : Hw!Update(data) => Software!Backend!Update(data)
           /\ Hw!Restore("kc_state") => Software!Backend!Restore("kc_state")
           /\ Hw!Digest => Software!Backend!Finish
           /\ Hw!Capture => Software!Backend!Save("kc_state")
           /\ \/ Hw!Finish \/ Hw!Save("kc_state")
              \/ Hw!Copy \/ Hw!UpdateReturns \/ Hw!Offer \/ Hw!Pushed \/ Hw!Ready
              => UNCHANGED <<Hw!Absorbed, ckpt, out>>
  <1>1. PICK B : Driver!InvOver(B)
    BY DEF DriverOK
  <1>2. Driver!Promised
    BY <1>1, DriverConstants, Driver!StepIsPromised DEF Driver!StepIsPromised
  <1>3. \A data : Driver!Update(data) => Driver!Contract!Update(data)
    BY <1>1, DriverConstants, Driver!UpdateIsPromised DEF Driver!UpdateIsPromised
  <1>4. slot = "kc_state"
    BY <1>1 DEF Driver!InvOver, Driver!TypeOK
  <1>5. /\ Driver!Contract!Begin => Software!Backend!Begin
        /\ \A data : Driver!Contract!Update(data) => Software!Backend!Update(data)
        /\ \A s : Driver!Contract!Restore(s) => Software!Backend!Restore(s)
        /\ Driver!Contract!Finish => Software!Backend!Finish
        /\ \A s : Driver!Contract!Save(s) => Software!Backend!Save(s)
    BY DriverActions, Zenon
    DEF Driver!Contract!Begin, Software!Backend!Begin, Driver!Contract!Update, Software!Backend!Update,
        Driver!Contract!Restore, Software!Backend!Restore, Driver!Contract!Finish,
        Software!Backend!Finish, Driver!Contract!Save, Software!Backend!Save,
        Hash, Software!Hash, Driver!Absorbed, Hw!Absorbed, Driver!Pending, Hw!Pending
  <1>6. /\ Hw!Begin => Software!Backend!Begin
        /\ Hw!Restore("kc_state") => Software!Backend!Restore("kc_state")
        /\ Hw!Digest => Software!Backend!Finish
        /\ Hw!Capture => Software!Backend!Save("kc_state")
    BY <1>2, <1>4, <1>5, DriverActions DEF Driver!Promised
  <1>7. ASSUME \/ Hw!Finish \/ Hw!Save("kc_state")
               \/ Hw!Copy \/ Hw!UpdateReturns \/ Hw!Offer \/ Hw!Pushed \/ Hw!Ready
        PROVE  UNCHANGED <<Hw!Absorbed, ckpt, out>>
    <2>1. Driver!Invisible
      BY <1>7, DriverActions DEF Driver!Invisible
    <2>2. UNCHANGED <<Driver!Absorbed, ckpt, out>>
      BY <1>2, <2>1 DEF Driver!Promised, Driver!Contract!vars
    <2> QED  BY <2>2 DEF Driver!Absorbed, Hw!Absorbed, Driver!Pending, Hw!Pending
  <1> QED  BY <1>3, <1>5, <1>6, <1>7, DriverActions

\* A call that starts is served, if it takes effect at its start, or has yet
\* to be.
LEMMA StartIsSoftware ==
    ASSUME HwInv, CallStarts
    PROVE  [Software!Next]_(Software!vars)
  <1>1. PICK T : todo \in Seq(Calls(T))
    BY DEF HwInv, QueueOK
  <1>2. todo # <<>> /\ todo' = Tail(todo) /\ Starts(Head(todo)) /\ UNCHANGED lmsVars
    BY DEF CallStarts, BackendServes
  <1>3. pc = "caller"
    BY <1>2 DEF Starts, Hw!Begin, Hw!Update, Hw!Finish, Hw!Save, Hw!Restore
  <1>4. call = "none"
    BY <1>3 DEF HwInv, DriverOK, Driver!InvOver, Driver!ControlOK
  <1>5. Unserved = todo
    BY <1>4 DEF Unserved
  <1>6. UNCHANGED Software!lmsVars
    BY <1>2 DEF lmsVars, Software!lmsVars, args, Software!args, walk, Software!walk,
                climb, Software!climb, control, Software!control
  <1> DEFINE c == Head(todo)
  <1>7. CASE \/ c.op = "init" /\ Hw!Begin
             \/ c.op = "update" /\ Hw!Update(c.data)
             \/ c.op = "restore" /\ Hw!Restore("kc_state")
    <2>1. call' # "finish" /\ call' # "save"
      BY <1>4, <1>7 DEF Hw!Begin, Hw!Update, Hw!Restore
    <2>2. Unserved' = Tail(Unserved)
      BY <1>2, <1>5, <2>1 DEF Unserved
    <2>3. Software!BackendServes
      BY <1>2, <1>5, <1>6, <2>2 DEF Software!BackendServes
    <2>4. Software!Serve(Head(Unserved))
      BY <1>5, <1>7, CallEffects DEF HwInv, Software!Serve
    <2> QED  BY <2>3, <2>4 DEF Software!Next
  <1>8. CASE \/ c.op = "finish" /\ Hw!Finish
             \/ c.op = "save" /\ Hw!Save("kc_state")
    <2>1. Unserved' = todo
      BY <1>1, <1>2, <1>8, QueueHead DEF Unserved, Hw!Finish, Hw!Save
    <2>2. UNCHANGED <<Hw!Absorbed, ckpt, out>>
      BY <1>8, CallEffects DEF HwInv
    <2> QED  BY <1>5, <1>6, <2>1, <2>2 DEF Software!vars
  <1> QED  BY <1>2, <1>7, <1>8 DEF Starts

\* A call that runs is served when it returns with something; the rest of it
\* is invisible.
LEMMA RunIsSoftware ==
    ASSUME HwInv, CallRuns
    PROVE  [Software!Next]_(Software!vars)
  <1>1. PICK T : todo \in Seq(Calls(T))
    BY DEF HwInv, QueueOK
  <1>2. UNCHANGED <<lmsVars, todo>> /\ Hw!BackendStep
    BY DEF CallRuns
  <1>3. UNCHANGED Software!lmsVars
    BY <1>2 DEF lmsVars, Software!lmsVars, args, Software!args, walk, Software!walk,
                climb, Software!climb, control, Software!control
  <1>4. /\ pc = "copy" => call = "update"
        /\ pc = "digest" => call = "finish"
        /\ pc = "save" => call = "save"
    BY DEF HwInv, DriverOK, Driver!InvOver, Driver!ControlOK
  <1>5. ASSUME NEW c, Unserved = <<c>> \o todo
        PROVE  Unserved # <<>> /\ Head(Unserved) = c /\ Tail(Unserved) = todo
    <2> DEFINE S == Calls(T) \cup {c}
    <2>1. todo \in Seq(S) /\ c \in S
      BY <1>1, SeqGrows
    <2> HIDE DEF S
    <2> QED  BY <1>5, <2>1
  <1>6. CASE Hw!Digest \/ Hw!Capture
    <2>1. Unserved' = todo
      BY <1>2, <1>6 DEF Hw!Digest, Hw!Capture, Unserved
    <2>2. CASE Hw!Digest
      <3>1. Unserved = <<FinishCall>> \o todo
        BY <1>4, <2>2 DEF Hw!Digest, Unserved
      <3>2. Software!BackendServes
        BY <1>3, <1>5, <2>1, <3>1 DEF Software!BackendServes
      <3>3. Software!Serve(Head(Unserved))
        BY <1>5, <2>2, <3>1, CallEffects DEF HwInv, Software!Serve, FinishCall
      <3> QED  BY <3>2, <3>3 DEF Software!Next
    <2>3. CASE Hw!Capture
      <3>1. Unserved = <<SaveCall>> \o todo
        BY <1>4, <2>3 DEF Hw!Capture, Unserved
      <3>2. Software!BackendServes
        BY <1>3, <1>5, <2>1, <3>1 DEF Software!BackendServes
      <3>3. Software!Serve(Head(Unserved))
        BY <1>5, <2>3, <3>1, CallEffects DEF HwInv, Software!Serve, SaveCall
      <3> QED  BY <3>2, <3>3 DEF Software!Next
    <2> QED  BY <1>6, <2>2, <2>3
  <1>7. CASE Hw!Copy \/ Hw!UpdateReturns \/ Hw!Offer \/ Hw!Pushed
    <2>1. call' = call \/ (call = "update" /\ call' = "none")
      BY <1>4, <1>7 DEF Hw!Copy, Hw!UpdateReturns, Hw!Offer, Hw!Pushed
    <2>2. Unserved' = Unserved
      BY <1>2, <2>1 DEF Unserved
    <2>3. UNCHANGED <<Hw!Absorbed, ckpt, out>>
      BY <1>7, CallEffects DEF HwInv
    <2> QED  BY <1>3, <2>2, <2>3 DEF Software!vars
  <1> QED  BY <1>2, <1>6, <1>7 DEF Hw!BackendStep

\* Seen through Unserved, Absorbed and ckpt the hardware is the contract.
LEMMA NextIsSoftware ==
    ASSUME HwInv, [Next]_vars
    PROVE  [Software!Next]_(Software!vars)
  <1>1. CASE VerifierRuns
    <2>1. pc = "caller" /\ Verify /\ UNCHANGED hwVars
      BY <1>1 DEF VerifierRuns
    <2>2. call = "none" /\ call' = "none"
      BY <2>1 DEF HwInv, DriverOK, Driver!InvOver, Driver!ControlOK, hwVars
    <2>3. Unserved = todo /\ Unserved' = todo'
      BY <2>2 DEF Unserved
    <2>4. UNCHANGED <<Hw!Absorbed, ckpt>>
      BY <2>1 DEF hwVars, Hw!Absorbed, Hw!Pending
    <2> QED  BY <2>1, <2>3, <2>4, VerifyIsSoftware DEF Software!Next
  <1>2. CASE CallStarts
    BY <1>2, StartIsSoftware
  <1>3. CASE CallRuns
    BY <1>3, RunIsSoftware
  <1>4. CASE PeripheralReady \/ UNCHANGED vars
    <2>1. UNCHANGED <<lmsVars, todo, call>>
      BY <1>4 DEF PeripheralReady, Hw!Ready, vars, hwVars
    <2>2. UNCHANGED <<Hw!Absorbed, ckpt, out>>
      BY <1>4, CallEffects DEF HwInv, PeripheralReady, vars, hwVars, Hw!Absorbed, Hw!Pending
    <2> QED  BY <2>1, <2>2 DEF Software!vars, Unserved,
                lmsVars, Software!lmsVars, args, Software!args, walk, Software!walk,
                climb, Software!climb, control, Software!control
  <1> QED  BY <1>1, <1>2, <1>3, <1>4 DEF Next

(***************************************************************************)
(* A verification on the peripheral is one with SoftSha256: whatever the    *)
(* buffer's size, whatever the peripheral accepts at a time and whatever    *)
(* digest the driver was left in, the verifier gets the same digests in    *)
(* the same order, notes the same work and returns the same verdict.       *)
(***************************************************************************)
THEOREM HardwareIsSoftware == Spec => SameAsSoftware
  <1>1. HwInv /\ [Next]_vars => [Software!Next]_(Software!vars)
    BY NextIsSoftware
  <1> QED  BY <1>1, InitOK, NextOK, InitIsSoftware, PTL DEF Spec, SameAsSoftware, Software!Spec
=============================================================================
