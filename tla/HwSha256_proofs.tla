-------------------------- MODULE HwSha256_proofs --------------------------
(***************************************************************************)
(* That HwSha256 never meets its panics, and that it implements the        *)
(* contract of the trait, for every size of the buffer, every input and    *)
(* every way the peripheral accepts it.                                    *)
(***************************************************************************)
EXTENDS HwSha256, SequenceTheorems, TLAPS

USE DEF State

\* Splitting a slice where the peripheral stopped, or the buffer ended.
LEMMA SplitAt ==
    ASSUME NEW B, NEW s \in Seq(B), NEW n \in 0 .. Len(s)
    PROVE  /\ SubSeq(s, 1, n) \in Seq(B)
           /\ SubSeq(s, n + 1, Len(s)) \in Seq(B)
           /\ Len(SubSeq(s, 1, n)) = n
           /\ Len(SubSeq(s, n + 1, Len(s))) = Len(s) - n
           /\ SubSeq(s, 1, n) \o SubSeq(s, n + 1, Len(s)) = s
<1>1. Len(s) \in Nat /\ \A i \in 1 .. Len(s) : s[i] \in B
    BY LenProperties, ElementOfSeq
<1>2. /\ SubSeq(s, 1, n) \in Seq(B)
      /\ Len(SubSeq(s, 1, n)) = n
    BY <1>1, SubSeqProperties
<1>3. /\ SubSeq(s, n + 1, Len(s)) \in Seq(B)
      /\ Len(SubSeq(s, n + 1, Len(s))) = Len(s) - n
    BY <1>1, SubSeqProperties
<1>4. SubSeq(s, 1, n) \o SubSeq(s, n + 1, Len(s)) = SubSeq(s, 1, Len(s))
  <2>1. /\ 1 \in 1 .. Len(s) + 1
        /\ n \in 1 - 1 .. Len(s)
        /\ Len(s) \in n .. Len(s)
      BY <1>1
  <2> QED BY ONLY s \in Seq(B), <2>1, ConcatAdjacentSubSeq
<1>5. SubSeq(s, 1, Len(s)) = s
    BY SubSeqFull
<1> QED BY <1>2, <1>3, <1>4, <1>5

\* Concatenation associates, whatever the bytes.
LEMMA Assoc ==
    ASSUME NEW B, NEW s \in Seq(B), NEW t \in Seq(B), NEW u \in Seq(B)
    PROVE  (s \o t) \o u = s \o (t \o u)
BY ConcatAssociative

\* A new backend satisfies the inductive invariant.
LEMMA InitInv == Init => Inv
<1> SUFFICES ASSUME Init PROVE Inv
    OBVIOUS
<1>1. <<>> \in Seq(Byte) /\ Len(<<>>) = 0
    BY EmptySeq
<1>2. MadeOf(Byte)
  <2>1. ckpt \in [Slot -> Seq(Byte)]
      BY <1>1, Zenon DEF Init
  <2> QED BY <1>1, <2>1 DEF Init, MadeOf
<1>4. TypeOK
  <2>2. Len(buf) <= COALESCE
      BY <1>1, ConstantsAssumption DEF Init
  <2> QED BY <2>2 DEF Init, TypeOK
<1>3. NoPanic /\ ControlOK /\ NothingLeftBehind
    BY <1>1, ConstantsAssumption DEF Init, NoPanic, ControlOK, NothingLeftBehind
<1> QED BY <1>2, <1>3, <1>4 DEF Inv, InvOver

\* A turn of update's loop stays inside the buffer and moves bytes, losing none.
LEMMA CopyMoves ==
    ASSUME NEW B, MadeOf(B), TypeOK, Copy
    PROVE  /\ buf' \in Seq(B) /\ rest' \in Seq(B)
           /\ Len(buf') <= COALESCE
           /\ buf' \o rest' = buf \o rest
<1> DEFINE n == Lesser(COALESCE - Len(buf), Len(rest))
<1>1. /\ buf \in Seq(B) /\ rest \in Seq(B)
      /\ Len(buf) \in Nat /\ Len(rest) \in Nat
      /\ COALESCE \in Nat /\ Len(buf) <= COALESCE
    BY ConstantsAssumption, LenProperties DEF MadeOf, TypeOK
<1>2. n \in 0 .. Len(rest) /\ n <= COALESCE - Len(buf)
    BY <1>1 DEF Lesser
<1>3. buf' = buf \o Take(rest, n) /\ rest' = Drop(rest, n)
    BY DEF Copy
<1> HIDE DEF n
<1>4. /\ Take(rest, n) \in Seq(B) /\ Drop(rest, n) \in Seq(B)
      /\ Len(Take(rest, n)) = n
      /\ Take(rest, n) \o Drop(rest, n) = rest
    BY <1>1, <1>2, SplitAt DEF Take, Drop
<1>5. buf' \in Seq(B) /\ Len(buf') = Len(buf) + n
    BY <1>1, <1>3, <1>4, ConcatProperties
<1>6. Len(buf') <= COALESCE
    BY <1>1, <1>2, <1>5
<1>7. (buf \o Take(rest, n)) \o Drop(rest, n) = buf \o (Take(rest, n) \o Drop(rest, n))
  <2>1. \A s, t, u \in Seq(B) : (s \o t) \o u = s \o (t \o u)
      BY Assoc
  <2> QED BY <1>1, <1>4, <2>1, Zenon
<1> QED BY <1>3, <1>4, <1>5, <1>6, <1>7

\* What the peripheral accepts is what the slice loses.
LEMMA OfferMoves ==
    ASSUME NEW B, MadeOf(B), TypeOK, Offer
    PROVE  /\ ctx' \in Seq(B) /\ remaining' \in Seq(B)
           /\ ctx' \o remaining' = ctx \o remaining
<1>1. PICK n \in 1 .. Len(remaining) :
          /\ ctx' = ctx \o Take(remaining, n)
          /\ remaining' = Drop(remaining, n)
    BY DEF Offer
<1>2. ctx \in Seq(B) /\ remaining \in Seq(B) /\ n \in 0 .. Len(remaining)
    BY LenProperties DEF MadeOf, TypeOK
<1>3. /\ Take(remaining, n) \in Seq(B) /\ Drop(remaining, n) \in Seq(B)
      /\ Take(remaining, n) \o Drop(remaining, n) = remaining
    BY <1>2, SplitAt DEF Take, Drop
<1>4. ctx' \in Seq(B)
    BY <1>1, <1>2, <1>3, ConcatProperties
<1>5. (ctx \o Take(remaining, n)) \o Drop(remaining, n)
      = ctx \o (Take(remaining, n) \o Drop(remaining, n))
  <2>1. \A s, t, u \in Seq(B) : (s \o t) \o u = s \o (t \o u)
      BY Assoc
  <2> QED BY <1>2, <1>3, <2>1, Zenon
<1> QED BY <1>1, <1>3, <1>4, <1>5

\* A step whose caller passes these bytes.
StepOver(B) ==
    \/ Begin \/ (\E data \in Seq(B) : Update(data)) \/ Finish
    \/ \E s \in Slot : Save(s) \/ Restore(s)
    \/ BackendStep \/ Ready

\* Every step of a call, of the caller and of the peripheral preserves it.
LEMMA StepKeepsInv ==
    \A B : InvOver(B) /\ (StepOver(B) \/ UNCHANGED vars) => InvOver(B)'
<1> SUFFICES ASSUME NEW B, InvOver(B), StepOver(B) \/ UNCHANGED vars
             PROVE  InvOver(B)'
    OBVIOUS
<1> USE ConstantsAssumption
<1> USE DEF InvOver, MadeOf, TypeOK, NoPanic, ControlOK, NothingLeftBehind
<1>1. CASE Begin
    BY <1>1 DEF Begin
<1>2. ASSUME NEW data \in Seq(B), Update(data) PROVE InvOver(B)'
  <2>2. (MadeOf(B) /\ TypeOK)'
    <3>1. rest' \in Seq(B) /\ pc' = "copy" /\ call' = "update"
        BY <1>2 DEF Update
    <3>2. UNCHANGED <<state, ctx, busy, buf, slot, remaining, ckpt>>
        BY <1>2 DEF Update
    <3> QED BY <3>1, <3>2
  <2>3. (NoPanic /\ ControlOK /\ NothingLeftBehind)'
      BY <1>2 DEF Update
  <2> QED BY <2>2, <2>3
<1>3. CASE Copy
  <2>1. /\ buf' \in Seq(B) /\ rest' \in Seq(B)
        /\ Len(buf') \in Nat /\ Len(buf') <= COALESCE
      BY <1>3, CopyMoves, LenProperties
  <2>2. CASE Full(Len(buf'))
      BY <1>3, <2>1, <2>2 DEF Copy
  <2>3. CASE ~Full(Len(buf'))
    <3>1. Len(buf') < COALESCE
        BY <2>1, <2>3 DEF Full
    <3> QED BY <1>3, <2>1, <2>3, <3>1 DEF Copy
  <2> QED BY <2>2, <2>3
<1>4. CASE UpdateReturns
    BY <1>4 DEF UpdateReturns
<1>5. CASE Offer
  <2>1. ctx' \in Seq(B) /\ remaining' \in Seq(B)
      BY <1>5, OfferMoves
  <2> QED BY <1>5, <2>1 DEF Offer
<1>6. CASE Pushed
    BY <1>6 DEF Pushed
<1>7. CASE Digest
    BY <1>7 DEF Digest
<1>8. CASE Capture
    BY <1>8 DEF Capture
<1>9. CASE Finish
    BY <1>9 DEF Finish
<1>10. ASSUME NEW s \in Slot, Save(s) PROVE InvOver(B)'
    BY <1>10 DEF Save
<1>11. ASSUME NEW s \in Slot, Restore(s) PROVE InvOver(B)'
    BY <1>11 DEF Restore
<1>12. CASE Ready
    BY <1>12 DEF Ready
<1>13. CASE UNCHANGED vars
    BY <1>13 DEF vars
<1> QED
    BY <1>1, <1>2, <1>3, <1>4, <1>5, <1>6, <1>7, <1>8, <1>9, <1>10, <1>11, <1>12, <1>13
    DEF StepOver, BackendStep

LEMMA NextInv == Inv /\ [Next]_vars => Inv'
<1> SUFFICES ASSUME Inv, [Next]_vars PROVE Inv'
    OBVIOUS
<1>1. StepOver(Byte) \/ UNCHANGED vars
    BY ConstantsAssumption DEF StepOver, Next, CallerStep
<1> QED BY <1>1, StepKeepsInv DEF Inv

\* The inductive invariant holds of every behaviour.
THEOREM InvHolds == Spec => []Inv
<1>1. Init => Inv BY InitInv
<1>2. Inv /\ [Next]_vars => Inv' BY NextInv
<1> QED BY <1>1, <1>2, PTL DEF Spec

\* No call panics: none meets the driver in transit, none streams into a
\* digest that is not open (the unreachable! and panic! arms of hw_sha.rs).
THEOREM PanicFree == Spec => []NoPanic
<1>1. Inv => NoPanic BY DEF Inv, InvOver
<1> QED BY <1>1, InvHolds, PTL

-----------------------------------------------------------------------------
\* Between calls the digest in progress is the engine's share and the buffer;
\* with no digest open it is the buffer alone.
LEMMA AbsorbedBetweenCalls ==
    ASSUME NEW B, InvOver(B), pc = "caller"
    PROVE  /\ Absorbed = ctx \o buf
           /\ state = "Idle" => Absorbed = buf
<1>1. /\ ctx \in Seq(B) /\ buf \in Seq(B)
      /\ rest = <<>> /\ (state = "Idle" => ctx = <<>>)
    BY DEF InvOver, MadeOf, ControlOK, NothingLeftBehind
<1>2. ctx \o buf \in Seq(B)
    BY <1>1, ConcatProperties
<1>3. Absorbed = (ctx \o buf) \o <<>>
    BY <1>1 DEF Absorbed, Pending
<1> QED BY <1>1, <1>2, <1>3, ConcatEmptySeq, Zenon

\* A new backend is a new digest.
LEMMA InitRefines == Init => Contract!Init
<1> SUFFICES ASSUME Init PROVE Contract!Init
    OBVIOUS
<1>1. Absorbed = <<>> \o <<>> \o <<>>
    BY DEF Init, Absorbed, Pending
<1>2. <<>> \o <<>> \o <<>> = <<>>
    BY EmptySeq, ConcatEmptySeq
<1> QED BY <1>1, <1>2 DEF Init, Contract!Init

\* Whatever data a caller passes is absorbed, as far as the caller can tell.
LEMMA UpdateIsPromised ==
    \A B, data : InvOver(B) /\ Update(data) => Contract!Update(data)
<1> SUFFICES ASSUME NEW B, InvOver(B), NEW data, Update(data)
             PROVE  Contract!Update(data)
    OBVIOUS
<1>1. /\ pc = "caller" /\ pc' = "copy"
      /\ ctx' = ctx /\ buf' = buf /\ rest' = data
    BY DEF Update
<1>2. Absorbed = ctx \o buf
    BY <1>1, AbsorbedBetweenCalls
<1>3. Absorbed' = (ctx \o buf) \o data
    BY <1>1 DEF Absorbed, Pending
<1> QED BY <1>2, <1>3 DEF Update, Contract!Update

\* Each call takes effect in one step, as its own action of the contract.
LEMMA StepIsPromised == \A B : InvOver(B) => Promised
<1> SUFFICES ASSUME NEW B, InvOver(B) PROVE Promised
    OBVIOUS
<1> USE DEF Contract!vars
<1>t. /\ ctx \in Seq(B) /\ buf \in Seq(B) /\ rest \in Seq(B)
      /\ remaining \in Seq(B) /\ <<>> \in Seq(B)
    BY EmptySeq DEF InvOver, MadeOf
<1>e. \A s \in Seq(B) : s \o <<>> = s /\ <<>> \o s = s
    BY ConcatEmptySeq
<1>c. \A s, t \in Seq(B) : s \o t \in Seq(B)
    BY ConcatProperties
<1>1. ASSUME Begin PROVE Contract!Begin
  <2>1. ctx' = <<>> /\ buf' = <<>> /\ rest' = <<>> /\ pc' = "caller"
      BY <1>1 DEF Begin, InvOver, ControlOK, NothingLeftBehind
  <2>2. Absorbed' = <<>>
      BY <1>t, <1>e, <2>1 DEF Absorbed, Pending
  <2> QED BY <1>1, <2>2 DEF Begin, Contract!Begin
<1>2. ASSUME NEW data \in Input, Update(data)
      PROVE  Contract!Update(data)
    BY <1>2, UpdateIsPromised
<1>3. ASSUME Copy PROVE UNCHANGED Contract!vars
  <2>1. /\ buf' \in Seq(B) /\ rest' \in Seq(B)
        /\ buf' \o rest' = buf \o rest
      BY <1>3, CopyMoves DEF InvOver
  <2>2. Absorbed = (ctx \o buf) \o rest
      BY <1>3 DEF Copy, Absorbed, Pending
  <2>3. Absorbed' = (ctx \o buf') \o rest'
      BY <1>3 DEF Copy, Absorbed, Pending
  <2>4. ASSUME NEW v \in Seq(B), NEW w \in Seq(B), v \o w = buf \o rest
        PROVE  (ctx \o v) \o w = (ctx \o buf) \o rest
    <3>0. ctx \in Seq(B) /\ buf \in Seq(B) /\ rest \in Seq(B)
        BY <1>t
    <3>1. (ctx \o v) \o w = ctx \o (v \o w)
        BY <3>0, Assoc
    <3>2. (ctx \o buf) \o rest = ctx \o (buf \o rest)
        BY <3>0, Assoc
    <3> QED BY <2>4, <3>1, <3>2
  <2>5. Absorbed' = Absorbed
      BY <2>1, <2>2, <2>3, <2>4
  <2> QED BY <1>3, <2>5 DEF Copy
<1>4. ASSUME UpdateReturns PROVE UNCHANGED Contract!vars
  <2>1. Absorbed' = Absorbed
      BY <1>4 DEF UpdateReturns, Absorbed, Pending
  <2> QED BY <1>4, <2>1 DEF UpdateReturns
<1>5. ASSUME Offer PROVE UNCHANGED Contract!vars
  <2>1. ctx' \o remaining' = ctx \o remaining
      BY <1>5, OfferMoves DEF InvOver
  <2>2. Absorbed = (ctx \o remaining) \o rest /\ Absorbed' = (ctx' \o remaining') \o rest
      BY <1>5 DEF Offer, Absorbed, Pending
  <2> QED BY <1>5, <2>1, <2>2 DEF Offer
<1>6. ASSUME Pushed PROVE UNCHANGED Contract!vars
  <2>1. pc = "push" /\ remaining = <<>> /\ buf' = <<>>
      BY <1>6 DEF Pushed
  <2>2. pc' \in {"copy", "digest", "save"}
      BY <1>6 DEF Pushed, InvOver, ControlOK
  <2>3. Absorbed' = Absorbed
      BY <1>6, <2>1, <2>2 DEF Pushed, Absorbed, Pending
  <2> QED BY <1>6, <2>3 DEF Pushed
<1>7. ASSUME Digest PROVE Contract!Finish
  <2>1. /\ pc = "digest" /\ remaining = <<>> /\ rest = <<>> /\ buf = <<>>
        /\ ctx' = <<>> /\ pc' = "caller" /\ buf' = buf /\ rest' = rest
      BY <1>7 DEF Digest, InvOver, ControlOK, NothingLeftBehind
  <2>2. Absorbed = ctx /\ Absorbed' = <<>>
      BY <1>t, <1>e, <2>1 DEF Absorbed, Pending
  <2> QED BY <1>7, <2>2 DEF Digest, Contract!Finish
<1>8. ASSUME Capture PROVE Contract!Save(slot)
  <2>1. /\ pc = "save" /\ remaining = <<>> /\ rest = <<>> /\ buf = <<>>
        /\ ctx' = ctx /\ pc' = "caller" /\ buf' = buf /\ rest' = rest
      BY <1>8 DEF Capture, InvOver, ControlOK, NothingLeftBehind
  <2>2. Absorbed = ctx /\ Absorbed' = ctx
      BY <1>t, <1>e, <2>1 DEF Absorbed, Pending
  <2> QED BY <1>8, <2>2 DEF Capture, Contract!Save
<1>9. ASSUME Finish PROVE UNCHANGED Contract!vars
  <2>1. pc = "caller" /\ pc' = "push" /\ ctx' = ctx /\ remaining' = buf /\ rest' = rest
      BY <1>9 DEF Finish
  <2>2. Absorbed' = Absorbed
      BY <2>1 DEF Absorbed, Pending
  <2> QED BY <1>9, <2>2 DEF Finish
<1>10. ASSUME NEW s \in Slot, Save(s)
       PROVE  UNCHANGED Contract!vars
  <2>1. /\ pc = "caller" /\ pc' = "push"
        /\ ctx' = ctx /\ remaining' = buf /\ rest' = rest
      BY <1>10 DEF Save
  <2>2. Absorbed' = Absorbed
      BY <2>1 DEF Absorbed, Pending
  <2> QED BY <1>10, <2>2 DEF Save
<1>11. ASSUME NEW s \in Slot, Restore(s)
       PROVE  Contract!Restore(s)
  <2>1. /\ ctx' = ckpt[s] /\ buf' = <<>> /\ rest' = <<>> /\ pc' = "caller"
        /\ ckpt[s] \in Seq(B)
      BY <1>11 DEF Restore, InvOver, MadeOf, ControlOK, NothingLeftBehind
  <2>2. Absorbed' = ckpt[s]
      BY <1>t, <1>e, <2>1 DEF Absorbed, Pending
  <2> QED BY <1>11, <2>2 DEF Restore, Contract!Restore
<1>12. ASSUME Ready PROVE UNCHANGED Contract!vars
  <2>1. Absorbed' = Absorbed
      BY <1>12 DEF Ready, Absorbed, Pending
  <2> QED BY <1>12, <2>1 DEF Ready
<1> QED
    BY <1>1, <1>2, <1>3, <1>4, <1>5, <1>6, <1>7, <1>8, <1>9, <1>10, <1>11, <1>12
    DEF Promised, Invisible

\* Each step of the backend is one step of the contract or none.
LEMMA NextRefines ==
    ASSUME Inv, [Next]_vars
    PROVE  [Contract!Next]_(Contract!vars)
<1>1. Promised
    BY StepIsPromised DEF Inv
<1>2. slot \in Slot
    BY DEF Inv, InvOver, TypeOK
<1>3. CASE CallerStep
    BY <1>1, <1>3 DEF CallerStep, Promised, Invisible, Contract!Next
<1>4. CASE BackendStep
    BY <1>1, <1>2, <1>4 DEF BackendStep, Promised, Invisible, Contract!Next
<1>5. CASE Ready
    BY <1>1, <1>5 DEF Promised, Invisible
<1>6. CASE UNCHANGED vars
    BY <1>6 DEF vars, Absorbed, Pending, Contract!vars
<1> QED BY <1>3, <1>4, <1>5, <1>6 DEF Next

\* No call of the hardware backend passes for another: each does, in one step,
\* what the trait says of the method of its name.
THEOREM CallsKeepTheirPromises == Spec => EachCallKeepsItsPromise
<1>1. Inv /\ [Next]_vars => [Promised]_vars
    BY StepIsPromised DEF Inv
<1> QED BY <1>1, InvHolds, PTL DEF Spec, EachCallKeepsItsPromise

\* The hardware backend implements the contract: buffering, partial acceptance
\* and the moves of the driver never change what a digest, a checkpoint or an
\* output holds.
THEOREM HardwareKeepsContract == Spec => KeepsContract
<1>1. Init => Contract!Init
    BY InitRefines
<1>2. Inv /\ [Next]_vars => [Contract!Next]_(Contract!vars)
    BY NextRefines
<1> QED BY <1>1, <1>2, InvHolds, PTL DEF Spec, KeepsContract, Contract!Spec
=============================================================================
