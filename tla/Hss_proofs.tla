----------------------------- MODULE Hss_proofs -----------------------------
(***************************************************************************)
(* The walk of hss::verify_with stays inside the signature's buffer, and   *)
(* implements ChainOfTrust, whatever the parameter sets, the number of     *)
(* levels and the arguments.                                               *)
(***************************************************************************)
EXTENDS HssVerdict, Winternitz_proofs, SequenceTheorems, TLAPS

(***************************************************************************)
(* usize wraps a level count of USIZE - 1 to no level at all; every other  *)
(* sum of the header check is what it looks like.                          *)
(***************************************************************************)
LEMMA CountWraps ==
    ASSUME NEW n \in 0 .. USIZE - 1, NEW m \in 1 .. MAX_LEVELS,
           (n + 1) % USIZE = m
    PROVE  m = n + 1
  <1> USE SizesAssumption
  <1>1. CASE n + 1 = USIZE
    <2>1. (n + 1) % USIZE = 0
      BY <1>1
    <2> QED  BY <2>1
  <1>2. CASE n + 1 < USIZE
    <2>1. (n + 1) % USIZE = n + 1
      BY <1>2
    <2> QED  BY <2>1
  <1> QED  BY <1>1, <1>2

\* A header that passes states the level count twice and leaves room for nspk.
LEMMA HeaderChecked ==
    ASSUME Arguments(pk, msg, sig), HeaderError(pk, sig) = "none"
    PROVE  pk.levels = sig.nspk + 1 /\ pk.levels <= MAX_LEVELS /\ sig.len >= 4
  <1>1. /\ sig.nspk \in 0 .. USIZE - 1 /\ sig.len \in Nat
        /\ pk.levels \in 0 .. USIZE - 1
    BY DEF Arguments
  <1>2. /\ pk.levels # 0 /\ ~(pk.levels > MAX_LEVELS) /\ ~(sig.len < 4)
        /\ (sig.nspk + 1) % USIZE = pk.levels
    BY DEF HeaderError
  <1>3. pk.levels \in 1 .. MAX_LEVELS
    BY <1>1, <1>2, SizesAssumption
  <1> QED  BY <1>1, <1>2, <1>3, CountWraps, SizesAssumption

\* A signature whose length could be read off fits what it was read from.
LEMMA DeclaredFits ==
    ASSUME NEW s, NEW avail \in Int, DeclaredError(s, avail) = "none"
    PROVE  /\ s.otsType \in DOMAIN Lmots /\ s.lmsType \in DOMAIN Lms
           /\ DeclaredLen(s) \in Nat /\ DeclaredLen(s) <= avail
  <1>1. /\ s.otsType \in DOMAIN Lmots /\ s.lmsType \in DOMAIN Lms
        /\ ~(avail < SignatureLen(Lmots[s.otsType], Lms[s.lmsType]))
    BY DEF DeclaredError
  <1>2. SignatureLen(Lmots[s.otsType], Lms[s.lmsType]) \in Nat
    BY <1>1, SizesAssumption
  <1> QED  BY <1>1, <1>2 DEF DeclaredLen

\* The only way to an Ok is a signature the key made.
LEMMA OkIsSigned ==
    ASSUME NEW key, NEW s, NEW len, NEW signed, LmsVerdict(key, s, len, signed) = "Ok"
    PROVE  Signed(key, s, signed)
  <1>1. ParseError(key, Slice(s, len)) # "Ok"
    BY DEF ParseError, SizeError, KeyError
  <1> QED  BY <1>1 DEF LmsVerdict

\* No verdict is the "none" of a walk that goes on.
LEMMA VerdictIsFinal ==
    ASSUME NEW key, NEW s, NEW len, NEW signed
    PROVE  LmsVerdict(key, s, len, signed) # "none"
  BY DEF LmsVerdict

-----------------------------------------------------------------------------
\* The walk starts in the invariant, for every case.
LEMMA InitInv == Init => Inv
  <1> SUFFICES ASSUME Init PROVE Inv
    OBVIOUS
  <1>1. Arguments(pk, msg, sig)
    BY CaseAssumption DEF Init
  <1>2. TypeOK /\ WalkOK /\ SignerOK
    BY <1>1 DEF Init, TypeOK, WalkOK, SignerOK, Arguments
  <1>3. SlicesInBounds
    BY DEF Init, SlicesInBounds
  <1> QED  BY <1>2, <1>3 DEF Inv

\* Returning changes nothing but the stage.
LEMMA ReturnKeepsInv ==
    ASSUME Inv, NEW v, v # "none", Return(v)
    PROVE  Inv'
  <1>1. TypeOK' /\ WalkOK' /\ SignerOK'
    BY DEF Inv, TypeOK, WalkOK, SignerOK, Return, Part, args
  <1>2. SlicesInBounds'
    BY DEF Inv, WalkOK, SlicesInBounds, Return, args
  <1> QED  BY <1>1, <1>2 DEF Inv

\* The header fixes the number of turns.
LEMMA HeaderKeepsInv == Inv /\ Header => Inv'
  <1> SUFFICES ASSUME Inv, Header PROVE Inv'
    OBVIOUS
  <1>1. CASE HeaderError(pk, sig) # "none"
    BY <1>1, ReturnKeepsInv DEF Header
  <1>2. CASE HeaderError(pk, sig) = "none"
    <2>1. /\ stage' = NextTurn(0) /\ stage = "header" /\ verdict = "none"
          /\ level = 0 /\ at = 4
          /\ UNCHANGED <<pk, msg, sig, level, at, signer, keyOffset, verdict>>
      BY <1>2 DEF Header, Inv, WalkOK, TypeOK, args
    <2>2. Arguments(pk, msg, sig) /\ sig.nspk \in Nat /\ sig.len \in Nat
      BY SizesAssumption DEF Inv, TypeOK, Arguments
    <2>3. pk.levels = sig.nspk + 1 /\ pk.levels <= MAX_LEVELS /\ sig.len >= 4
      BY <1>2, <2>2, HeaderChecked
    <2>4. \/ stage' = "walk" /\ 0 < sig.nspk
          \/ stage' = "last" /\ 0 = sig.nspk
      BY <2>1, <2>2 DEF NextTurn
    <2>5. TypeOK'
      BY <2>1, <2>4 DEF Inv, TypeOK
    <2>6. WalkOK' /\ SignerOK'
      BY <2>1, <2>3, <2>4 DEF Inv, WalkOK, SignerOK
    <2>7. SlicesInBounds'
      BY <2>1, <2>2, <2>3, <2>4, SizesAssumption DEF Inv, SlicesInBounds
    <2> QED  BY <2>5, <2>6, <2>7 DEF Inv
  <1> QED  BY <1>1, <1>2

\* What Measure and MeasureLast know of the part they measure.
LEMMA PartMeasured ==
    ASSUME Inv, stage \in {"walk", "last"}, SigError = "none"
    PROVE  /\ Part.sig.otsType \in DOMAIN Lmots /\ Part.sig.lmsType \in DOMAIN Lms
           /\ SigLen \in Nat /\ at + SigLen <= sig.len
  <1>1. /\ at \in Nat /\ sig.len \in Nat
        /\ DeclaredError(Part.sig, sig.len - at) = "none"
    BY DEF Inv, TypeOK, Arguments, SigError
  <1>2. sig.len - at \in Int
    BY <1>1
  <1>3. /\ Part.sig.otsType \in DOMAIN Lmots /\ Part.sig.lmsType \in DOMAIN Lms
        /\ DeclaredLen(Part.sig) \in Nat /\ DeclaredLen(Part.sig) <= sig.len - at
    BY <1>1, <1>2, DeclaredFits
  <1> QED  BY <1>1, <1>3 DEF SigLen

\* A measured signature and the key after it are in the buffer.
LEMMA MeasureKeepsInv == Inv /\ Measure => Inv'
  <1> SUFFICES ASSUME Inv, Measure PROVE Inv'
    OBVIOUS
  <1>1. CASE SigError # "none" \/ ~KeyFits
    BY <1>1, ReturnKeepsInv DEF Measure
  <1>2. CASE SigError = "none" /\ KeyFits
    <2>1. /\ stage = "walk" /\ stage' = "authenticate" /\ at' = at + SigLen
          /\ UNCHANGED <<pk, msg, sig, level, signer, keyOffset, verdict>>
      BY <1>2 DEF Measure, args
    <2>2. /\ Part.sig.otsType \in DOMAIN Lmots /\ Part.sig.lmsType \in DOMAIN Lms
          /\ SigLen \in Nat /\ at + SigLen <= sig.len
      BY <1>2, <2>1, PartMeasured
    <2>3. Part' = Part /\ SigLen' = SigLen
      BY <2>1 DEF Part, SigLen
    <2>4. /\ at \in Nat /\ at >= 4 /\ PublicKeyLen \in Nat /\ sig.len \in Nat
          /\ sig.len >= at + SigLen + PublicKeyLen
      BY <1>2, <2>1, SizesAssumption
      DEF Inv, TypeOK, Arguments, SlicesInBounds, KeyFits
    <2>5. TypeOK'
      BY <2>1, <2>2, <2>4 DEF Inv, TypeOK
    <2>6. WalkOK' /\ SignerOK'
      BY <2>1, <2>2, <2>3 DEF Inv, WalkOK, SignerOK
    <2>7. SlicesInBounds'
      BY <2>1, <2>2, <2>3, <2>4 DEF Inv, SlicesInBounds
    <2> QED  BY <2>5, <2>6, <2>7 DEF Inv
  <1> QED  BY <1>1, <1>2

\* A completed turn moves past the key and makes it the signer.
LEMMA AuthenticateKeepsInv == Inv /\ Authenticate => Inv'
  <1> SUFFICES ASSUME Inv, Authenticate PROVE Inv'
    OBVIOUS
  <1> DEFINE v == LmsVerdict(signer, Part.sig, SigLen, Part.key)
  <1>1. CASE Refused(v)
    BY <1>1, ReturnKeepsInv, VerdictIsFinal DEF Authenticate
  <1>2. CASE ~Refused(v)
    <2>1. /\ stage = "authenticate" /\ stage' = NextTurn(level + 1)
          /\ signer' = Part.key /\ keyOffset' = at
          /\ at' = at + PublicKeyLen /\ level' = level + 1
          /\ UNCHANGED <<pk, msg, sig, verdict>>
      BY <1>2 DEF Authenticate, args
    <2>2. /\ level \in Nat /\ level < sig.nspk /\ sig.nspk \in Nat
          /\ pk.levels = sig.nspk + 1 /\ pk.levels <= MAX_LEVELS
          /\ at \in Nat /\ at >= 4 /\ PublicKeyLen \in Nat /\ sig.len \in Nat
          /\ at + PublicKeyLen <= sig.len
      BY <2>1, SizesAssumption DEF Inv, TypeOK, Arguments, WalkOK, SlicesInBounds
    <2>3. level \in 0 .. MAX_LEVELS - 1
      BY <2>2, SizesAssumption
    <2>4. Part.key \in Key /\ Part.key = sig.part[level].key
      BY <2>3 DEF Inv, TypeOK, Arguments, Part
    <2>5. \/ stage' = "walk" /\ level + 1 < sig.nspk
          \/ stage' = "last" /\ level + 1 = sig.nspk
      BY <2>1, <2>2 DEF NextTurn
    <2>6. TypeOK'
      BY <2>1, <2>2, <2>4, <2>5 DEF Inv, TypeOK
    <2>7. WalkOK'
      BY <2>1, <2>2, <2>5 DEF WalkOK
    <2>8. SignerOK'
      BY <2>1, <2>2, <2>4 DEF SignerOK
    <2>9. SlicesInBounds'
      BY <2>1, <2>2, <2>5, SizesAssumption DEF SlicesInBounds
    <2> QED  BY <2>6, <2>7, <2>8, <2>9 DEF Inv
  <1> QED  BY <1>1, <1>2

\* The last signature ends the buffer.
LEMMA MeasureLastKeepsInv == Inv /\ MeasureLast => Inv'
  <1> SUFFICES ASSUME Inv, MeasureLast PROVE Inv'
    OBVIOUS
  <1>1. CASE SigError # "none" \/ ~EndsHere
    BY <1>1, ReturnKeepsInv DEF MeasureLast
  <1>2. CASE SigError = "none" /\ EndsHere
    <2>1. /\ stage = "last" /\ stage' = "authenticateLast" /\ at + SigLen = sig.len
          /\ UNCHANGED <<pk, msg, sig, level, at, signer, keyOffset, verdict>>
      BY <1>2 DEF MeasureLast, EndsHere, args
    <2>2. Part.sig.otsType \in DOMAIN Lmots /\ Part.sig.lmsType \in DOMAIN Lms
      BY <1>2, <2>1, PartMeasured
    <2>3. Part' = Part /\ SigLen' = SigLen
      BY <2>1 DEF Part, SigLen
    <2>4. TypeOK'
      BY <2>1 DEF Inv, TypeOK
    <2>5. WalkOK' /\ SignerOK'
      BY <2>1, <2>2, <2>3 DEF Inv, WalkOK, SignerOK
    <2>6. SlicesInBounds'
      BY <2>1, <2>3 DEF Inv, SlicesInBounds
    <2> QED  BY <2>4, <2>5, <2>6 DEF Inv
  <1> QED  BY <1>1, <1>2

\* Every step keeps the invariant.
LEMMA NextInv == Inv /\ [Next]_vars => Inv'
  <1> SUFFICES ASSUME Inv, [Next]_vars PROVE Inv'
    OBVIOUS
  <1>1. CASE Header
    BY <1>1, HeaderKeepsInv
  <1>2. CASE Measure
    BY <1>2, MeasureKeepsInv
  <1>3. CASE Authenticate
    BY <1>3, AuthenticateKeepsInv
  <1>4. CASE MeasureLast
    BY <1>4, MeasureLastKeepsInv
  <1>5. CASE AuthenticateLast
    BY <1>5, ReturnKeepsInv, VerdictIsFinal DEF AuthenticateLast
  <1>6. CASE UNCHANGED vars
    <2>1. Part' = Part /\ SigLen' = SigLen
      BY <1>6 DEF vars, args, Part, SigLen
    <2> QED
      BY <1>6, <2>1 DEF Inv, TypeOK, WalkOK, SignerOK, SlicesInBounds, vars, args
  <1> QED  BY <1>1, <1>2, <1>3, <1>4, <1>5, <1>6 DEF Next

(***************************************************************************)
(* Where the walk is, what it has of the signature left and whose key is    *)
(* next go together, for every table of parameter sets and every argument.  *)
(***************************************************************************)
THEOREM WalkKeepsInv == Spec => []Inv
  BY InitInv, NextInv, PTL DEF Spec

(***************************************************************************)
(* Every slice hss::verify_with cuts is inside its buffer.                  *)
(***************************************************************************)
THEOREM WalkInBounds == Spec => []SlicesInBounds
  <1>1. Inv => SlicesInBounds
    BY DEF Inv
  <1> QED  BY InitInv, NextInv, <1>1, PTL DEF Spec

-----------------------------------------------------------------------------
(***************************************************************************)
(* The refinement.  A turn of the loop that is completed trusts a key; a   *)
(* return accepts or rejects; the other steps are invisible.               *)
(***************************************************************************)
LEMMA TrustedIsASequence ==
    ASSUME Inv, stage # "done" \/ level = 0
    PROVE  /\ Trusted \in Seq(Key) /\ Len(Trusted) = level + 1
           /\ Trusted[level + 1] = signer
  <1>1. /\ level \in Nat /\ pk.root \in Key /\ sig.nspk \in Nat
        /\ sig.part \in [0 .. MAX_LEVELS - 1 -> [sig : Signature, key : Key]]
        /\ level = 0 \/ level < MAX_LEVELS
    BY SizesAssumption DEF Inv, TypeOK, Arguments, WalkOK, SlicesInBounds
  <1>2. \A n \in 1 .. level + 1 : n # 1 => n - 2 \in 0 .. MAX_LEVELS - 1
    BY <1>1, SizesAssumption
  <1>3. \A n \in 1 .. level + 1 : n # 1 => sig.part[n - 2].key \in Key
    BY <1>1, <1>2
  <1>4. Trusted \in [1 .. level + 1 -> Key]
    BY <1>1, <1>3 DEF Trusted
  <1>5. Trusted \in Seq(Key) /\ Len(Trusted) = level + 1
    BY <1>1, <1>4
  <1>6. Trusted[level + 1] = IF level = 0 THEN pk.root ELSE sig.part[level - 1].key
    BY <1>1 DEF Trusted
  <1> QED  BY <1>5, <1>6 DEF Inv, SignerOK

\* The walk starts with the root trusted and nothing decided.
LEMMA InitRefines == Init => Chain!Init
  <1> SUFFICES ASSUME Init PROVE Chain!Init
    OBVIOUS
  <1>1. Arguments(pk, msg, sig) /\ level = 0 /\ verdict = "none"
    BY CaseAssumption DEF Init
  <1>2. pk.levels \in Nat /\ msg \in Message /\ pk.root \in Key
    BY <1>1, SizesAssumption DEF Arguments
  <1>3. Trusted = <<pk.root>>
    BY <1>1 DEF Trusted
  <1>4. Outcome = "open"
    BY <1>1 DEF Outcome
  <1>5. Presented \subseteq Signature
    BY <1>1 DEF Arguments, Presented
  <1> QED  BY <1>2, <1>3, <1>4, <1>5 DEF Chain!Init

\* Returning an error is a rejection.
LEMMA ReturnRejects ==
    ASSUME Inv, stage # "done", NEW v, v # "none", v # "Ok", Return(v)
    PROVE  Chain!Reject
  <1>1. /\ UNCHANGED <<pk.levels, msg, Presented, Trusted>>
        /\ verdict = "none" /\ verdict' = v
    BY DEF Return, args, Presented, Trusted, Inv, TypeOK
  <1>2. Outcome = "open" /\ Outcome' = "rejected"
    BY <1>1 DEF Outcome
  <1> QED  BY <1>1, <1>2 DEF Chain!Reject, Chain!question

\* The checks on the format never accept.
LEMMA ErrorsAreNotOk ==
    /\ HeaderError(pk, sig) # "Ok"
    /\ SigError # "Ok"
  BY DEF HeaderError, SigError, DeclaredError

\* Completing a turn trusts the key of the turn, which the last trusted key signed.
LEMMA AuthenticateRefines == Inv /\ Authenticate => [Chain!Next]_(Chain!vars)
  <1> SUFFICES ASSUME Inv, Authenticate PROVE Chain!Next
    OBVIOUS
  <1> DEFINE v == LmsVerdict(signer, Part.sig, SigLen, Part.key)
  <1>1. CASE Refused(v)
    <2>1. stage # "done" /\ Return(v) /\ v # "Ok"
      BY <1>1 DEF Authenticate, Refused
    <2> QED  BY <2>1, ReturnRejects, VerdictIsFinal DEF Chain!Next
  <1>2. CASE ~Refused(v)
    <2>1. /\ stage = "authenticate" /\ level' = level + 1
          /\ UNCHANGED <<pk, msg, sig, verdict>>
          /\ v = "Ok"
      BY <1>2 DEF Authenticate, Refused, args
    <2>2. /\ level \in Nat /\ level < sig.nspk /\ sig.nspk \in Nat
          /\ pk.levels = sig.nspk + 1 /\ pk.levels <= MAX_LEVELS
          /\ sig.part \in [0 .. MAX_LEVELS - 1 -> [sig : Signature, key : Key]]
          /\ verdict = "none"
      BY <2>1, SizesAssumption DEF Inv, TypeOK, Arguments, WalkOK
    <2>3. level \in 0 .. MAX_LEVELS - 1
      BY <2>2, SizesAssumption
    <2>4. Part.key \in Key /\ Part.key = sig.part[level].key /\ Part.sig \in Presented
      BY <2>2, <2>3 DEF Part, Presented
    <2>5. /\ Trusted \in Seq(Key) /\ Len(Trusted) = level + 1
          /\ Trusted[level + 1] = signer
      BY <2>1, TrustedIsASequence
    <2>6. Trusted' = Append(Trusted, Part.key)
      <3>1. Trusted' = [n \in 1 .. level + 2 |->
                            IF n = 1 THEN pk.root ELSE sig.part[n - 2].key]
        BY <2>1, <2>2 DEF Trusted
      <3>2. \A n \in 1 .. level + 1 : Trusted'[n] = Trusted[n]
        <4>1. Trusted = [n \in 1 .. level + 1 |->
                            IF n = 1 THEN pk.root ELSE sig.part[n - 2].key]
          BY DEF Trusted
        <4> HIDE DEF Trusted
        <4> QED  BY <2>2, <3>1, <4>1
      <3>3. Trusted'[level + 2] = Part.key
        BY <2>2, <2>4, <3>1
      <3>4. Append(Trusted, Part.key) \in [1 .. level + 2 -> Key]
        <4>1. /\ Append(Trusted, Part.key) \in Seq(Key)
              /\ Len(Append(Trusted, Part.key)) = level + 2
          BY <2>2, <2>4, <2>5, AppendProperties
        <4> QED  BY <4>1, LenProperties
      <3>5. \A n \in 1 .. level + 2 : Append(Trusted, Part.key)[n] = Trusted'[n]
        BY <2>2, <2>4, <2>5, <3>2, <3>3, AppendProperties
      <3> QED  BY <3>1, <3>4, <3>5
    <2>7. Signed(Trusted[Len(Trusted)], Part.sig, Part.key)
      BY <2>1, <2>5, OkIsSigned
    <2>8. Outcome = "open" /\ UNCHANGED <<pk.levels, msg, Presented, Outcome>>
      BY <2>1, <2>2 DEF Outcome, Presented
    <2>9. Chain!Trust(Part.key)
      BY <2>2, <2>4, <2>5, <2>6, <2>7, <2>8 DEF Chain!Trust, Chain!LastTrusted, Chain!question
    <2> QED  BY <2>4, <2>9 DEF Chain!Next
  <1> QED  BY <1>1, <1>2

\* Returning Ok accepts, under a chain of the length the root states.
LEMMA AuthenticateLastRefines == Inv /\ AuthenticateLast => [Chain!Next]_(Chain!vars)
  <1> SUFFICES ASSUME Inv, AuthenticateLast PROVE Chain!Next
    OBVIOUS
  <1> DEFINE v == LmsVerdict(signer, Part.sig, sig.len - at, msg)
  <1>1. stage = "authenticateLast" /\ Return(v) /\ v # "none"
    BY VerdictIsFinal DEF AuthenticateLast
  <1>2. CASE v # "Ok"
    BY <1>1, <1>2, ReturnRejects DEF Chain!Next
  <1>3. CASE v = "Ok"
    <2>1. /\ UNCHANGED <<pk.levels, msg, Presented, Trusted>>
          /\ verdict = "none" /\ verdict' = "Ok"
      BY <1>1, <1>3 DEF Return, args, Presented, Trusted, Inv, TypeOK
    <2>2. Outcome = "open" /\ Outcome' = "accepted"
      BY <2>1 DEF Outcome
    <2>3. /\ level = sig.nspk /\ pk.levels = level + 1 /\ level \in Nat
          /\ pk.levels <= MAX_LEVELS
          /\ sig.part \in [0 .. MAX_LEVELS - 1 -> [sig : Signature, key : Key]]
      BY <1>1 DEF Inv, TypeOK, Arguments, WalkOK
    <2>4. level \in 0 .. MAX_LEVELS - 1
      BY <2>3, SizesAssumption
    <2>5. Part.sig \in Presented
      BY <2>4 DEF Part, Presented
    <2>6. Len(Trusted) = level + 1 /\ Trusted[level + 1] = signer
      BY <1>1, TrustedIsASequence
    <2>7. Signed(Trusted[Len(Trusted)], Part.sig, msg)
      BY <1>3, <2>6, OkIsSigned
    <2>8. Chain!Accept
      BY <2>1, <2>2, <2>3, <2>5, <2>6, <2>7 DEF Chain!Accept, Chain!LastTrusted, Chain!question
    <2> QED  BY <2>8 DEF Chain!Next
  <1> QED  BY <1>2, <1>3

\* A step that goes on without completing a turn is invisible.
LEMMA Invisible ==
    ASSUME UNCHANGED <<pk, msg, sig, level, verdict>>
    PROVE  UNCHANGED Chain!vars
  <1>1. UNCHANGED <<pk.levels, msg, Presented, Trusted, Outcome>>
    BY DEF Presented, Trusted, Outcome
  <1> QED  BY <1>1 DEF Chain!vars

\* Every step is a step of the chain of trust, or invisible.
LEMMA NextRefines == Inv /\ [Next]_vars => [Chain!Next]_(Chain!vars)
  <1> SUFFICES ASSUME Inv, [Next]_vars PROVE [Chain!Next]_(Chain!vars)
    OBVIOUS
  <1>1. CASE Header
    <2>1. CASE HeaderError(pk, sig) # "none"
      <3>1. stage # "done" /\ Return(HeaderError(pk, sig))
        BY <1>1, <2>1 DEF Header
      <3> QED  BY <2>1, <3>1, ReturnRejects, ErrorsAreNotOk DEF Chain!Next
    <2>2. CASE HeaderError(pk, sig) = "none"
      <3>1. UNCHANGED <<pk, msg, sig, level, verdict>>
        BY <1>1, <2>2 DEF Header, args
      <3> QED  BY <3>1, Invisible
    <2> QED  BY <2>1, <2>2
  <1>2. CASE Measure \/ MeasureLast
    <2>1. CASE SigError # "none"
      <3>1. stage # "done" /\ Return(SigError)
        BY <1>2, <2>1 DEF Measure, MeasureLast
      <3> QED  BY <2>1, <3>1, ReturnRejects, ErrorsAreNotOk DEF Chain!Next
    <2>2. CASE SigError = "none"
      <3>1. \/ stage # "done" /\ Return("BadLength")
            \/ UNCHANGED <<pk, msg, sig, level, verdict>>
        BY <1>2, <2>2 DEF Measure, MeasureLast, args
      <3> QED  BY <3>1, ReturnRejects, Invisible DEF Chain!Next
    <2> QED  BY <2>1, <2>2
  <1>3. CASE Authenticate
    BY <1>3, AuthenticateRefines
  <1>4. CASE AuthenticateLast
    BY <1>4, AuthenticateLastRefines
  <1>5. CASE UNCHANGED vars
    BY <1>5, Invisible DEF vars, args
  <1> QED  BY <1>1, <1>2, <1>3, <1>4, <1>5 DEF Next

(***************************************************************************)
(* hss::verify_with trusts a key only when the last key it trusted signed  *)
(* it, and accepts a message only under the last key of a chain as long as *)
(* the public key says.                                                    *)
(***************************************************************************)
THEOREM WalkIsAChainOfTrust == Spec => OnlyTheRootIsTrusted
  <1> QED
    BY InitInv, NextInv, InitRefines, NextRefines, PTL
    DEF Spec, OnlyTheRootIsTrusted, Chain!Spec
-----------------------------------------------------------------------------
(***************************************************************************)
(* The verdict.  The part that is met is as long as it says and lies where *)
(* the parts before it end, so a genuine buffer has room for it.           *)
(***************************************************************************)
LEMMA TotalGrows ==
    ASSUME NEW a, NEW n \in Nat, NEW m \in 0 .. n, \A k \in 0 .. n - 1 : a[k] \in Nat
    PROVE  Total(a, m) \in Nat /\ Total(a, n) \in Nat /\ Total(a, m) <= Total(a, n)
  <1>0. Total(a, m) \in Nat
    BY TotalMono
  <1> DEFINE S == {k \in Nat : k <= n =>
                        Total(a, k) \in Nat /\ (m <= k => Total(a, m) <= Total(a, k))}
  <1>1. 0 \in S
    BY TotalStep
  <1>2. ASSUME NEW k \in S PROVE k + 1 \in S
    <2> SUFFICES ASSUME k + 1 <= n
                 PROVE  /\ Total(a, k + 1) \in Nat
                        /\ m <= k + 1 => Total(a, m) <= Total(a, k + 1)
      OBVIOUS
    <2>1. Total(a, k + 1) = Total(a, k) + a[k]
      BY TotalStep
    <2>2. Total(a, k) \in Nat /\ a[k] \in Nat /\ (m <= k => Total(a, m) <= Total(a, k))
      OBVIOUS
    <2>3. m <= k + 1 => m <= k \/ m = k + 1
      OBVIOUS
    <2>4. Total(a, k + 1) \in Nat /\ Total(a, k + 1) >= Total(a, k)
      BY <2>1, <2>2
    <2>5. CASE m <= k
      <3>1. Total(a, m) <= Total(a, k)
        BY <2>2, <2>5
      <3>2. Total(a, m) \in Int
        BY <1>0
      <3> QED  BY <2>2, <2>4, <3>1, <3>2
    <2>6. CASE m = k + 1
      BY <2>4, <2>6
    <2> QED  BY <2>3, <2>4, <2>5, <2>6
  <1> HIDE DEF S
  <1>3. \A k \in Nat : k \in S
    <2>1. S \in SUBSET Nat
      BY DEF S
    <2> QED  BY <1>1, <1>2, <2>1, Induction
  <1>4. m \in S /\ n \in S
    BY <1>3
  <1> QED  BY <1>4 DEF S

\* What is sliced as a signature is a signature's length or more.
LEMMA LengthsAdd ==
    ASSUME NEW ots \in {Lmots[t] : t \in DOMAIN Lmots}, NEW lms \in {Lms[t] : t \in DOMAIN Lms}
    PROVE  /\ OtsSigLen(ots) \in Nat /\ SignatureLen(ots, lms) \in Nat
           /\ 4 + OtsSigLen(ots) + 4 <= SignatureLen(ots, lms)
           /\ 8 <= SignatureLen(ots, lms)
  <1>1. N \in Nat /\ ots.p \in Nat /\ lms.h \in Nat
    BY TableAssumption, ChecksumAssumption
  <1>2. N * (ots.p + 1) \in Nat /\ N * lms.h \in Nat
    BY <1>1
  <1>3. OtsSigLen(ots) \in Nat
    BY <1>2 DEF OtsSigLen
  <1> QED  BY <1>2, <1>3 DEF SignatureLen

\* A part under typecodes that exist is refused for want of room only.
LEMMA RoomIsEnough ==
    ASSUME NEW s, NEW avail \in Int,
           s.otsType \in DOMAIN Lmots, s.lmsType \in DOMAIN Lms,
           DeclaredLen(s) <= avail
    PROVE  DeclaredError(s, avail) = "none"
  <1>1. /\ OtsSigLen(Lmots[s.otsType]) \in Nat
        /\ SignatureLen(Lmots[s.otsType], Lms[s.lmsType]) \in Nat
        /\ 4 + OtsSigLen(Lmots[s.otsType]) + 4 <= SignatureLen(Lmots[s.otsType], Lms[s.lmsType])
        /\ 8 <= SignatureLen(Lmots[s.otsType], Lms[s.lmsType])
    BY LengthsAdd
  <1> QED  BY <1>1 DEF DeclaredError, DeclaredLen

\* An LMS verification is Ok when the types agree, the leaf exists and the key
\* signed what follows.
LEMMA OkWhenVouched ==
    ASSUME NEW key \in Key, NEW s \in Signature, NEW over,
           s.otsType \in DOMAIN Lmots, s.lmsType \in DOMAIN Lms
    PROVE  LmsVerdict(key, s, DeclaredLen(s), over) = "Ok"
            <=> /\ s.otsType = key.otsType /\ s.lmsType = key.lmsType
                /\ s.q < Capacity(Lms[s.lmsType])
                /\ Signed(key, s, over)
  <1> DEFINE slice == Slice(s, DeclaredLen(s))
  <1>1. /\ slice.len = SignatureLen(Lmots[s.otsType], Lms[s.lmsType])
        /\ slice.q = s.q /\ slice.otsType = s.otsType /\ slice.lmsType = s.lmsType
    BY DEF Slice, DeclaredLen
  <1> HIDE DEF slice
  <1>2. key.len = PublicKeyLen /\ s.q \in Nat
    BY PartsAssumption
  <1>3. Capacity(Lms[s.lmsType]) \in Nat
    BY TableAssumption, Pow2Type DEF Capacity
  <1>4. /\ ParseError(key, slice) # "Ok"
        /\ ParseError(key, slice) = "none"
            <=> /\ s.otsType = key.otsType /\ s.lmsType = key.lmsType
                /\ ~(s.q >= Capacity(Lms[s.lmsType]))
    BY <1>1, <1>2 DEF ParseError, SizeError, KeyError
  <1>5. ~(s.q >= Capacity(Lms[s.lmsType])) <=> s.q < Capacity(Lms[s.lmsType])
    BY <1>2, <1>3
  <1>6. LmsVerdict(key, s, DeclaredLen(s), over) = "Ok"
            <=> ParseError(key, slice) = "none" /\ Signed(key, s, over)
    BY <1>4 DEF LmsVerdict, slice
  <1> QED  BY <1>4, <1>5, <1>6

\* The length of a part is the one its typecodes declare.
LEMMA LengthIs ==
    ASSUME NEW n \in Nat, Declared(n)
    PROVE  Lengths[n] = DeclaredLen(sig.part[n].sig) /\ Lengths[n] \in Nat
  <1>1. Lengths[n] = DeclaredLen(sig.part[n].sig)
    BY DEF Lengths
  <1>2. DeclaredLen(sig.part[n].sig) \in Nat
    BY SizesAssumption DEF Declared, DeclaredLen
  <1> QED  BY <1>1, <1>2

\* A genuine buffer has room for the part the walk meets, and for the key after
\* it unless it is the last, which ends it.
LEMMA GenuineHasRoom ==
    ASSUME Arguments(pk, msg, sig), Genuine, NEW n \in 0 .. sig.nspk
    PROVE  /\ Declared(n) /\ DeclaredLen(sig.part[n].sig) \in Nat /\ Ahead(n) \in Nat
           /\ sig.len >= 4
           /\ n < sig.nspk =>
                Ahead(n) + DeclaredLen(sig.part[n].sig) + PublicKeyLen <= sig.len
           /\ n = sig.nspk => Ahead(n) + DeclaredLen(sig.part[n].sig) = sig.len
  <1>1. /\ sig.nspk \in Nat /\ sig.len \in Nat /\ PublicKeyLen \in Nat /\ n \in Nat
    BY SizesAssumption DEF Arguments
  <1>2. /\ \A k \in 0 .. sig.nspk : Declared(k)
        /\ sig.len = 4 + sig.nspk * PublicKeyLen + Total(Lengths, sig.nspk + 1)
    BY DEF Genuine, Intact
  <1>3. \A k \in 0 .. sig.nspk : Lengths[k] \in Nat /\ Lengths[k] = DeclaredLen(sig.part[k].sig)
    <2>1. \A k \in 0 .. sig.nspk : k \in Nat
      BY <1>1
    <2> QED  BY <1>2, <2>1, LengthIs
  <1>4. /\ Total(Lengths, n) \in Nat /\ Total(Lengths, sig.nspk + 1) \in Nat
        /\ Total(Lengths, n + 1) <= Total(Lengths, sig.nspk + 1)
    <2>1. \A k \in 0 .. (sig.nspk + 1) - 1 : Lengths[k] \in Nat
      BY <1>1, <1>3
    <2>2. n \in 0 .. sig.nspk + 1 /\ n + 1 \in 0 .. sig.nspk + 1 /\ sig.nspk + 1 \in Nat
      BY <1>1
    <2> QED  BY <2>1, <2>2, TotalGrows
  <1>5. Total(Lengths, n + 1) = Total(Lengths, n) + DeclaredLen(sig.part[n].sig)
    BY <1>1, <1>3, TotalStep
  <1>6. n * PublicKeyLen \in Nat
    BY <1>1
  <1>7. n < sig.nspk => n * PublicKeyLen + PublicKeyLen <= sig.nspk * PublicKeyLen
    <2>1. ASSUME n < sig.nspk PROVE n * PublicKeyLen + PublicKeyLen <= sig.nspk * PublicKeyLen
      <3>1. PICK d \in Nat : sig.nspk = n + 1 + d
        <4>1. sig.nspk - n - 1 \in Nat
          BY <1>1, <2>1
        <4> QED  BY <1>1, <4>1
      <3>2. sig.nspk * PublicKeyLen = n * PublicKeyLen + PublicKeyLen + d * PublicKeyLen
        BY <1>1, <3>1
      <3>3. d * PublicKeyLen \in Nat
        BY <1>1
      <3> QED  BY <1>1, <1>6, <3>2, <3>3
    <2> QED  BY <2>1
  <1>8. sig.nspk * PublicKeyLen \in Nat
    BY <1>1
  <1>9. DeclaredLen(sig.part[n].sig) \in Nat
    BY <1>3
  <1>10. Ahead(n) = 4 + n * PublicKeyLen + Total(Lengths, n)
    BY DEF Ahead
  <1>11. n < sig.nspk => Ahead(n) + DeclaredLen(sig.part[n].sig) + PublicKeyLen <= sig.len
    BY <1>1, <1>2, <1>4, <1>5, <1>6, <1>7, <1>8, <1>9, <1>10
  <1>12. n = sig.nspk => Ahead(n) + DeclaredLen(sig.part[n].sig) = sig.len
    BY <1>1, <1>2, <1>4, <1>5, <1>6, <1>8, <1>9, <1>10
  <1>13. sig.len >= 4
    BY <1>1, <1>2, <1>4, <1>8
  <1> QED  BY <1>2, <1>4, <1>6, <1>9, <1>10, <1>11, <1>12, <1>13

\* What is said of the arguments stays true of them.
LEMMA ArgumentsStay ==
    ASSUME UNCHANGED <<pk, msg, sig>>
    PROVE  /\ Genuine' = Genuine /\ LevelsError(pk)' = LevelsError(pk)
           /\ \A n : Ahead(n)' = Ahead(n) /\ Declared(n)' = Declared(n)
                     /\ Vouched(n)' = Vouched(n)
  <1>1. Lengths' = Lengths
    BY DEF Lengths
  <1>2. /\ \A n : Ahead(n)' = Ahead(n) /\ Declared(n)' = Declared(n)
        /\ \A n : Vouched(n)' = Vouched(n)
    BY <1>1 DEF Ahead, Declared, Vouched, KeyAt, SignedAt
  <1>3. Genuine' = Genuine
    BY <1>1, <1>2 DEF Genuine, Intact
  <1> QED  BY <1>2, <1>3

\* A return is right when what it returns is.
LEMMA RightReturn ==
    ASSUME Inv, NEW v, v # "none", Return(v),
           v = "Ok" <=> Genuine, LevelsError(pk) # "none" => v = LevelsError(pk)
    PROVE  VerdictInv'
  <1>1. Inv'
    BY ReturnKeepsInv
  <1>2. stage' = "done" /\ verdict' = v /\ UNCHANGED <<pk, msg, sig>>
    BY DEF Return, args
  <1>3. Genuine' = Genuine /\ LevelsError(pk)' = LevelsError(pk)
    BY <1>2, ArgumentsStay
  <1>4. SoFar' /\ OkIffGenuine'
    BY <1>2, <1>3 DEF SoFar, OkIffGenuine
  <1> QED  BY <1>1, <1>4 DEF VerdictInv

\* A header that is refused is not a genuine one's, and a key that levels
\* finds fault with is refused for that.
LEMMA HeaderRefused ==
    ASSUME Arguments(pk, msg, sig)
    PROVE  /\ Genuine => HeaderError(pk, sig) = "none"
           /\ LevelsError(pk) # "none" => HeaderError(pk, sig) = LevelsError(pk)
  <1>1. /\ sig.nspk \in Nat /\ sig.len \in Nat /\ pk.levels \in Nat
        /\ MAX_LEVELS \in Nat /\ USIZE \in Nat /\ MAX_LEVELS < USIZE
    BY SizesAssumption DEF Arguments
  <1>2. LevelsError(pk) # "none" => HeaderError(pk, sig) = LevelsError(pk)
    BY <1>1 DEF LevelsError, HeaderError
  <1>3. ASSUME Genuine PROVE HeaderError(pk, sig) = "none"
    <2>1. /\ pk.len = HssPublicKeyLen /\ pk.levels \in 1 .. MAX_LEVELS
          /\ sig.nspk = pk.levels - 1
      BY <1>3 DEF Genuine
    <2>2. 0 \in 0 .. sig.nspk
      BY <1>1
    <2>3. sig.len >= 4
      BY <1>3, <2>2, GenuineHasRoom
    <2>4. sig.nspk + 1 = pk.levels /\ pk.levels < USIZE
      BY <1>1, <2>1
    <2>5. (sig.nspk + 1) % USIZE = pk.levels
      BY <1>1, <2>4
    <2>6. pk.levels # 0 /\ ~(pk.levels > MAX_LEVELS) /\ ~(sig.len < 4)
      BY <1>1, <2>1, <2>3
    <2> QED  BY <2>1, <2>5, <2>6 DEF HeaderError
  <1> QED  BY <1>2, <1>3

LEMMA HeaderKeepsVerdict == VerdictInv /\ Header => VerdictInv'
  <1> SUFFICES ASSUME VerdictInv, Header PROVE VerdictInv'
    OBVIOUS
  <1>1. Inv /\ Arguments(pk, msg, sig)
    BY DEF VerdictInv, Inv, TypeOK
  <1>2. CASE HeaderError(pk, sig) # "none"
    <2>1. Return(HeaderError(pk, sig))
      BY <1>2 DEF Header
    <2> QED  BY <1>1, <1>2, <2>1, HeaderRefused, ErrorsAreNotOk, RightReturn
  <1>3. CASE HeaderError(pk, sig) = "none"
    <2>1. /\ stage = "header" /\ stage' = NextTurn(0)
          /\ UNCHANGED <<pk, msg, sig, level, at, signer, keyOffset, verdict>>
      BY <1>3 DEF Header, args
    <2>2. level = 0 /\ at = 4
      BY <1>1, <2>1 DEF Inv, WalkOK
    <2>3. stage' \in {"walk", "last"}
      BY <2>1 DEF NextTurn
    <2>4. Inv'
      BY <1>1, HeaderKeepsInv
    <2>5. LevelsError(pk)' = "none" /\ Ahead(0)' = Ahead(0)
      BY <1>1, <1>3, <2>1, HeaderRefused, ArgumentsStay
    <2>6. Ahead(0) = 4
      BY TotalStep, SizesAssumption DEF Ahead
    <2>7. SoFar'
      BY <2>1, <2>2, <2>3, <2>5, <2>6 DEF SoFar
    <2>8. OkIffGenuine'
      BY <2>3 DEF OkIffGenuine
    <2> QED  BY <2>4, <2>7, <2>8 DEF VerdictInv
  <1> QED  BY <1>2, <1>3

\* What a step of the walk knows: where it is, and that the key is a key.
LEMMA OnTheWay ==
    ASSUME VerdictInv, stage \notin {"header", "done"}
    PROVE  /\ Inv /\ Arguments(pk, msg, sig) /\ LevelsError(pk) = "none"
           /\ level \in 0 .. sig.nspk /\ sig.nspk \in Nat /\ level \in Nat
           /\ at \in Nat /\ sig.len \in Nat /\ PublicKeyLen \in Nat
           /\ pk.levels = sig.nspk + 1 /\ pk.levels <= MAX_LEVELS
           /\ \A n \in 0 .. level - 1 : Declared(n) /\ Vouched(n)
           /\ at = IF stage = "authenticate" THEN Ahead(level) + SigLen ELSE Ahead(level)
           /\ Part = sig.part[level] /\ Part.sig \in Signature /\ Part.key \in Key
           /\ SigLen = DeclaredLen(Part.sig)
           /\ signer = KeyAt(level) /\ signer \in Key
  <1>1. Inv /\ SoFar /\ TypeOK /\ WalkOK /\ SignerOK /\ Arguments(pk, msg, sig)
    BY DEF VerdictInv, Inv, TypeOK
  <1>2. /\ level \in Nat /\ at \in Nat /\ signer \in Key
        /\ sig.nspk \in Nat /\ sig.len \in Nat /\ PublicKeyLen \in Nat /\ MAX_LEVELS \in Nat
        /\ sig.part \in [0 .. MAX_LEVELS - 1 -> [sig : Signature, key : Key]]
    BY <1>1, SizesAssumption DEF TypeOK, Arguments
  <1>3. /\ stage \in {"walk", "authenticate", "last", "authenticateLast"}
        /\ pk.levels = sig.nspk + 1 /\ pk.levels <= MAX_LEVELS
        /\ level < sig.nspk \/ level = sig.nspk
    BY <1>1 DEF TypeOK, WalkOK
  <1>4. level \in 0 .. sig.nspk /\ level \in 0 .. MAX_LEVELS - 1
    BY <1>2, <1>3
  <1>5. Part = sig.part[level] /\ Part.sig \in Signature /\ Part.key \in Key
    BY <1>2, <1>4 DEF Part
  <1>6. signer = KeyAt(level)
    BY <1>1 DEF SignerOK, KeyAt
  <1>7. /\ LevelsError(pk) = "none"
        /\ \A n \in 0 .. level - 1 : Declared(n) /\ Vouched(n)
        /\ at = IF stage = "authenticate" THEN Ahead(level) + SigLen ELSE Ahead(level)
    BY <1>1, <1>3 DEF SoFar
  <1> QED  BY <1>1, <1>2, <1>3, <1>4, <1>5, <1>6, <1>7 DEF SigLen

\* A measurement that fails is of a buffer that is not genuine.
LEMMA MeasureRefused ==
    ASSUME VerdictInv, stage \in {"walk", "last"}, Genuine
    PROVE  /\ SigError = "none"
           /\ stage = "walk" => KeyFits
           /\ stage = "last" => EndsHere
  <1>1. /\ Arguments(pk, msg, sig) /\ level \in 0 .. sig.nspk /\ at = Ahead(level)
        /\ at \in Nat /\ sig.len \in Nat /\ PublicKeyLen \in Nat
        /\ Part = sig.part[level] /\ SigLen = DeclaredLen(Part.sig)
    BY OnTheWay
  <1>2. (stage = "walk" => level < sig.nspk) /\ (stage = "last" => level = sig.nspk)
    BY DEF VerdictInv, Inv, WalkOK
  <1>3. /\ Declared(level) /\ SigLen \in Nat
        /\ level < sig.nspk => at + SigLen + PublicKeyLen <= sig.len
        /\ level = sig.nspk => at + SigLen = sig.len
    BY <1>1, GenuineHasRoom
  <1>4. DeclaredLen(Part.sig) <= sig.len - at /\ sig.len - at \in Int
    BY <1>1, <1>2, <1>3
  <1>5. SigError = "none"
    BY <1>1, <1>3, <1>4, RoomIsEnough DEF SigError, Declared
  <1>6. stage = "walk" => sig.len >= at + SigLen + PublicKeyLen
    BY <1>1, <1>2, <1>3
  <1> QED  BY <1>2, <1>3, <1>5, <1>6 DEF KeyFits, EndsHere

LEMMA MeasureKeepsVerdict == VerdictInv /\ (Measure \/ MeasureLast) => VerdictInv'
  <1> SUFFICES ASSUME VerdictInv, Measure \/ MeasureLast PROVE VerdictInv'
    OBVIOUS
  <1>1. stage \in {"walk", "last"}
    BY DEF Measure, MeasureLast
  <1>2. Inv /\ LevelsError(pk) = "none"
    BY <1>1, OnTheWay
  <1>3. CASE ~Genuine /\ \E v \in {SigError, "BadLength"} : v # "none" /\ Return(v)
    <2>1. PICK v \in {SigError, "BadLength"} : v # "none" /\ Return(v)
      BY <1>3
    <2>2. v # "Ok"
      BY <2>1, ErrorsAreNotOk
    <2> QED  BY <1>2, <1>3, <2>1, <2>2, RightReturn
  <1>4. CASE /\ stage' = IF stage = "walk" THEN "authenticate" ELSE "authenticateLast"
             /\ at' = IF stage = "walk" THEN at + SigLen ELSE at
             /\ UNCHANGED <<pk, msg, sig, level>>
    <2>1. Inv'
      BY <1>2, MeasureKeepsInv, MeasureLastKeepsInv
    <2>2. /\ at = Ahead(level) /\ \A n \in 0 .. level - 1 : Declared(n) /\ Vouched(n)
      BY <1>1, OnTheWay
    <2>3. /\ SigLen' = SigLen /\ LevelsError(pk)' = LevelsError(pk)
          /\ \A n : Ahead(n)' = Ahead(n) /\ Declared(n)' = Declared(n)
                    /\ Vouched(n)' = Vouched(n)
      BY <1>4, ArgumentsStay DEF SigLen, Part
    <2>4. Ahead(level)' = Ahead(level)
      BY <1>4, <2>3 DEF Ahead, Lengths
    <2>5. SoFar'
      BY <1>1, <1>2, <1>4, <2>2, <2>3, <2>4 DEF SoFar
    <2>6. OkIffGenuine'
      BY <1>4 DEF OkIffGenuine
    <2> QED  BY <2>1, <2>5, <2>6 DEF VerdictInv
  <1>5. CASE SigError # "none"
    <2>1. Return(SigError)
      BY <1>5 DEF Measure, MeasureLast
    <2> QED  BY <1>1, <1>3, <1>5, <2>1, MeasureRefused
  <1>6. CASE SigError = "none"
    <2>1. CASE Measure
      <3>1. CASE KeyFits
        BY <1>4, <1>6, <2>1, <3>1 DEF Measure, args
      <3>2. CASE ~KeyFits
        <4>1. stage = "walk" /\ Return("BadLength")
          BY <1>6, <2>1, <3>2 DEF Measure
        <4> QED  BY <1>3, <3>2, <4>1, MeasureRefused
      <3> QED  BY <3>1, <3>2
    <2>2. CASE MeasureLast
      <3>1. CASE EndsHere
        BY <1>4, <1>6, <2>2, <3>1 DEF MeasureLast, args
      <3>2. CASE ~EndsHere
        <4>1. stage = "last" /\ Return("BadLength")
          BY <1>6, <2>2, <3>2 DEF MeasureLast
        <4> QED  BY <1>3, <3>2, <4>1, MeasureRefused
      <3> QED  BY <3>1, <3>2
    <2> QED  BY <2>1, <2>2
  <1> QED  BY <1>5, <1>6

\* The verdict on the part the walk is at.
LEMMA PartVerdict ==
    ASSUME VerdictInv, stage \in {"authenticate", "authenticateLast"}
    PROVE  /\ Declared(level) /\ SigLen \in Nat
           /\ LmsVerdict(signer, Part.sig, SigLen, SignedAt(level)) = "Ok" <=> Vouched(level)
  <1>1. /\ Part = sig.part[level] /\ Part.sig \in Signature
        /\ SigLen = DeclaredLen(Part.sig) /\ signer = KeyAt(level) /\ signer \in Key
    BY OnTheWay
  <1>2. Part.sig.otsType \in DOMAIN Lmots /\ Part.sig.lmsType \in DOMAIN Lms
    BY DEF VerdictInv, Inv, WalkOK
  <1>3. SigLen \in Nat
    BY <1>1, <1>2, SizesAssumption DEF DeclaredLen
  <1>4. LmsVerdict(signer, Part.sig, DeclaredLen(Part.sig), SignedAt(level)) = "Ok"
            <=> /\ Part.sig.otsType = signer.otsType /\ Part.sig.lmsType = signer.lmsType
                /\ Part.sig.q < Capacity(Lms[Part.sig.lmsType])
                /\ Signed(signer, Part.sig, SignedAt(level))
    BY <1>1, <1>2, OkWhenVouched
  <1> QED  BY <1>1, <1>2, <1>3, <1>4 DEF Declared, Vouched

LEMMA AuthenticateKeepsVerdict == VerdictInv /\ Authenticate => VerdictInv'
  <1> SUFFICES ASSUME VerdictInv, Authenticate PROVE VerdictInv'
    OBVIOUS
  <1> DEFINE v == LmsVerdict(signer, Part.sig, SigLen, Part.key)
  <1>1. stage = "authenticate"
    BY DEF Authenticate
  <1>2. /\ Inv /\ LevelsError(pk) = "none" /\ level \in 0 .. sig.nspk
        /\ sig.nspk \in Nat /\ level \in Nat /\ PublicKeyLen \in Nat /\ at \in Nat
        /\ \A n \in 0 .. level - 1 : Declared(n) /\ Vouched(n)
        /\ at = Ahead(level) + SigLen
        /\ Part = sig.part[level] /\ SigLen = DeclaredLen(Part.sig)
    BY <1>1, OnTheWay
  <1>3. level < sig.nspk
    BY <1>1, <1>2 DEF Inv, WalkOK
  <1>4. Part.key = SignedAt(level)
    BY <1>2, <1>3 DEF SignedAt, KeyAt
  <1>5. Declared(level) /\ SigLen \in Nat /\ (v = "Ok" <=> Vouched(level))
    BY <1>1, <1>4, PartVerdict
  <1>6. CASE Refused(v)
    <2>1. Return(v) /\ v # "Ok" /\ v # "none"
      BY <1>6, VerdictIsFinal DEF Authenticate, Refused
    <2>2. ~Genuine
      BY <1>2, <1>5, <2>1 DEF Genuine
    <2> QED  BY <1>2, <2>1, <2>2, RightReturn
  <1>7. CASE ~Refused(v)
    <2>1. /\ v = "Ok" /\ stage' = NextTurn(level + 1)
          /\ at' = at + PublicKeyLen /\ level' = level + 1
          /\ UNCHANGED <<pk, msg, sig>>
      BY <1>7 DEF Authenticate, Refused, args
    <2>2. Inv' /\ stage' \in {"walk", "last"}
      BY <1>2, <2>1, AuthenticateKeepsInv DEF NextTurn
    <2>3. \A n \in 0 .. level : Declared(n) /\ Vouched(n)
      BY <1>2, <1>5, <2>1
    <2>4. at' = Ahead(level + 1)
      <3>1. Total(Lengths, level + 1) = Total(Lengths, level) + SigLen
        BY <1>2, TotalStep DEF Lengths
      <3>2. (level + 1) * PublicKeyLen = level * PublicKeyLen + PublicKeyLen
            /\ level * PublicKeyLen \in Nat
        BY <1>2
      <3>3. Total(Lengths, level) \in Int
        <4>1. \A n \in 0 .. level - 1 : Lengths[n] \in Nat
          BY <1>2, LengthIs
        <4> QED  BY <1>2, <4>1, TotalMono
      <3> QED  BY <1>2, <1>5, <2>1, <3>1, <3>2, <3>3 DEF Ahead
    <2>5. /\ LevelsError(pk)' = LevelsError(pk)
          /\ \A n : Declared(n)' = Declared(n) /\ Vouched(n)' = Vouched(n)
      BY <2>1, ArgumentsStay
    <2>6. Ahead(level)' = Ahead(level + 1)
      BY <2>1 DEF Ahead, Lengths
    <2>7. \A n \in 0 .. level' - 1 : n \in 0 .. level
      BY <1>2, <2>1
    <2>8. SoFar'
      BY <1>2, <2>2, <2>3, <2>4, <2>5, <2>6, <2>7 DEF SoFar
    <2>9. OkIffGenuine'
      BY <2>2 DEF OkIffGenuine
    <2> QED  BY <2>2, <2>8, <2>9 DEF VerdictInv
  <1> QED  BY <1>6, <1>7

LEMMA AuthenticateLastKeepsVerdict == VerdictInv /\ AuthenticateLast => VerdictInv'
  <1> SUFFICES ASSUME VerdictInv, AuthenticateLast PROVE VerdictInv'
    OBVIOUS
  <1> DEFINE v == LmsVerdict(signer, Part.sig, sig.len - at, msg)
  <1>1. stage = "authenticateLast" /\ Return(v) /\ v # "none"
    BY VerdictIsFinal DEF AuthenticateLast
  <1>2. /\ Inv /\ LevelsError(pk) = "none" /\ Arguments(pk, msg, sig)
        /\ sig.nspk \in Nat /\ PublicKeyLen \in Nat /\ at \in Nat /\ sig.len \in Nat
        /\ pk.levels = sig.nspk + 1 /\ at = Ahead(level)
        /\ \A n \in 0 .. level - 1 : Declared(n) /\ Vouched(n)
        /\ Part = sig.part[level] /\ SigLen = DeclaredLen(Part.sig)
    BY <1>1, OnTheWay
  <1>3. level = sig.nspk /\ at + SigLen = sig.len
    BY <1>1, <1>2 DEF Inv, WalkOK, SlicesInBounds
  <1>4. Declared(level) /\ SigLen \in Nat
    BY <1>1, PartVerdict
  <1>5. msg = SignedAt(level) /\ sig.len - at = SigLen
    BY <1>2, <1>3, <1>4 DEF SignedAt
  <1>6. v = "Ok" <=> Vouched(level)
    BY <1>1, <1>5, PartVerdict
  <1>7. /\ pk.len = HssPublicKeyLen /\ pk.levels \in 1 .. MAX_LEVELS
        /\ sig.nspk = pk.levels - 1
    BY <1>2 DEF LevelsError
  <1>8. \A n \in 0 .. sig.nspk : Declared(n) /\ (n # level => Vouched(n))
    BY <1>2, <1>3, <1>4
  <1>9. sig.len = 4 + sig.nspk * PublicKeyLen + Total(Lengths, sig.nspk + 1)
    <2>1. Total(Lengths, sig.nspk + 1) = Total(Lengths, sig.nspk) + SigLen
      BY <1>2, <1>3, TotalStep DEF Lengths
    <2>2. Total(Lengths, sig.nspk) \in Int
      <3>1. \A n \in 0 .. sig.nspk - 1 : Lengths[n] \in Nat
        BY <1>2, <1>3, LengthIs
      <3> QED  BY <1>2, <3>1, TotalMono
    <2>3. sig.nspk * PublicKeyLen \in Nat
      BY <1>2
    <2> QED  BY <1>2, <1>3, <1>4, <2>1, <2>2, <2>3 DEF Ahead
  <1>10. Genuine <=> Vouched(level)
    <2>1. level \in 0 .. sig.nspk
      BY <1>2, <1>3
    <2>2. Intact
      BY <1>8, <1>9 DEF Intact
    <2> QED  BY <1>7, <1>8, <2>1, <2>2 DEF Genuine
  <1> QED  BY <1>1, <1>2, <1>6, <1>10, RightReturn

\* The verdict's invariant holds to begin with, and every step keeps it.
LEMMA VerdictInvHolds ==
    /\ Init => VerdictInv
    /\ VerdictInv /\ [Next]_vars => VerdictInv'
  <1>1. Init => VerdictInv
    <2> SUFFICES ASSUME Init PROVE VerdictInv
      OBVIOUS
    <2>1. Inv
      BY InitInv
    <2>2. SoFar /\ OkIffGenuine
      BY DEF Init, SoFar, OkIffGenuine
    <2> QED  BY <2>1, <2>2 DEF VerdictInv
  <1>2. ASSUME VerdictInv, UNCHANGED vars PROVE VerdictInv'
    <2>1. Inv'
      BY <1>2, NextInv DEF VerdictInv
    <2>2. /\ UNCHANGED <<pk, msg, sig, stage, level, at, verdict>>
          /\ SigLen' = SigLen /\ Ahead(level)' = Ahead(level)
      BY <1>2 DEF vars, args, SigLen, Part, Ahead, Lengths
    <2>3. /\ Genuine' = Genuine /\ LevelsError(pk)' = LevelsError(pk)
          /\ \A n : Declared(n)' = Declared(n) /\ Vouched(n)' = Vouched(n)
      BY <2>2, ArgumentsStay
    <2>4. SoFar'
      BY <1>2, <2>2, <2>3 DEF VerdictInv, SoFar
    <2>5. OkIffGenuine'
      BY <1>2, <2>2, <2>3 DEF VerdictInv, OkIffGenuine
    <2> QED  BY <2>1, <2>4, <2>5 DEF VerdictInv
  <1> QED
    BY <1>1, <1>2, HeaderKeepsVerdict, MeasureKeepsVerdict, AuthenticateKeepsVerdict,
       AuthenticateLastKeepsVerdict
    DEF Next

(***************************************************************************)
(* hss::verify accepts the genuine signatures and nothing else, in one      *)
(* encoding each, and refuses a key for what levels says of it.            *)
(***************************************************************************)
THEOREM VerdictRight == Spec => []OkIffGenuine
  <1>1. VerdictInv => OkIffGenuine
    BY DEF VerdictInv
  <1> QED  BY VerdictInvHolds, <1>1, PTL DEF Spec
=============================================================================
