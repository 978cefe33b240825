------------------------- MODULE LmsOnContract_proofs -------------------------
(***************************************************************************)
(* A verification with SoftSha256, for every table of parameter sets, every *)
(* argument and every state the backend may have been left in.  Then the    *)
(* checksum, for every parameter set and every digest.                     *)
(***************************************************************************)
EXTENDS BootVerifier, LmsVerdict, Checksum, Winternitz_proofs

\* The parameter sets of a signature that parsed.
LEMMA ParsedSets ==
    ASSUME TypeOK, ParseError(pk, sig) = "none"
    PROVE  /\ pk.otsType \in DOMAIN Lmots /\ pk.lmsType \in DOMAIN Lms
           /\ ots.p \in Nat \ {0} /\ Len(sig.y) = ots.p
           /\ lms.h \in Nat /\ Len(sig.path) = lms.h
           /\ sig.q \in Nat /\ ~(sig.q >= Capacity(lms))
  <1>1. SizeError(pk, sig) = "none"
    BY DEF ParseError
  <1>2. KeyError(pk) = "none" /\ ~(sig.q >= Capacity(Lms[pk.lmsType]))
    BY <1>1 DEF SizeError
  <1>3. pk.otsType \in DOMAIN Lmots /\ pk.lmsType \in DOMAIN Lms
    BY <1>2 DEF KeyError
  <1>4. ots.p \in Nat \ {0} /\ lms.h \in Nat
    BY <1>3, TableAssumption DEF ots, lms
  <1> QED  BY <1>2, <1>3, <1>4 DEF TypeOK, Layout, ots, lms

\* 1 << n, for the heights of the tables.
LEMMA Shift ==
    ASSUME pk.lmsType \in DOMAIN Lms
    PROVE  /\ Pow2(0) = 1
           /\ \A n \in 0 .. lms.h : Pow2(n) \in Nat \ {0} /\ Pow2(n + 1) = 2 * Pow2(n)
  BY TableAssumption, Pow2Step, Pow2Type DEF lms

\* A node that is not the root has a level of the path below it.
LEMMA ClimbIsInPath ==
    ASSUME Inv, stage = "climb"
    PROVE  /\ node > 1 => k < lms.h
           /\ node <= 1 => node = 1 /\ k = lms.h
  <1>1. /\ pk.lmsType \in DOMAIN Lms /\ lms.h \in Nat
        /\ k \in 0 .. lms.h /\ node \in Nat
        /\ Pow2(lms.h - k) <= node /\ node < 2 * Pow2(lms.h - k)
    BY ParsedSets DEF Inv, TypeOK, ClimbOK
  <1>2. CASE k = lms.h
    <2>1. lms.h - k = 0
      BY <1>1, <1>2
    <2>2. Pow2(lms.h - k) = 1
      BY <1>1, <2>1, Shift
    <2> QED  BY <1>1, <1>2, <2>2
  <1>3. CASE k # lms.h
    <2>1. lms.h - k - 1 \in 0 .. lms.h /\ (lms.h - k - 1) + 1 = lms.h - k
      BY <1>1, <1>3
    <2>2. Pow2(lms.h - k - 1) \in Nat \ {0} /\ Pow2(lms.h - k) = 2 * Pow2(lms.h - k - 1)
      BY <1>1, <2>1, Shift
    <2> HIDE DEF Pow2
    <2> QED  BY <1>1, <1>3, <2>2
  <1> QED  BY <1>2, <1>3

\* The invariant bounds both loops.
LEMMA InvImpliesBounds == Inv => SlicesInBounds /\ PathIsUsedUp
  <1> SUFFICES ASSUME Inv PROVE SlicesInBounds /\ PathIsUsedUp
    OBVIOUS
  <1>1. CASE stage \in {"walk", "link"}
    <2>1. i \in 0 .. ots.p - 1 /\ ots.p \in Nat /\ Len(sig.y) = ots.p
      BY <1>1, ParsedSets DEF Inv, TypeOK, WalkOK
    <2> QED  BY <1>1, <2>1 DEF SlicesInBounds, PathIsUsedUp
  <1>2. CASE stage = "climb"
    BY <1>2, ParsedSets, ClimbIsInPath DEF Inv, TypeOK, SlicesInBounds, PathIsUsedUp
  <1>3. CASE stage \notin {"walk", "link", "climb"}
    BY <1>3 DEF SlicesInBounds, PathIsUsedUp
  <1> QED  BY <1>1, <1>2, <1>3

-----------------------------------------------------------------------------
\* Nothing has been parsed yet.
LEMMA InitInv == Init => Inv
  <1> SUFFICES ASSUME Init PROVE Inv
    OBVIOUS
  <1>1. Layout(pk, sig)
    BY LayoutAssumption DEF Init
  <1> QED  BY <1>1 DEF Init, Inv, TypeOK, WalkOK, ClimbOK

\* Every step of the verifier keeps the invariant.
LEMMA StepInv == Inv /\ Verify => Inv'
  <1> SUFFICES ASSUME Inv, Verify PROVE Inv'
    OBVIOUS
  <1> USE DEF Returned
  <1>0. UNCHANGED <<pk, msg, sig>>
    BY DEF Verify, Reject, HashMessage, OpenKc, Link, Linked, Fold, CloseKc, HashLeaf,
           Climb, Compare, args
  <1>a. Layout(pk, sig)' /\ ots' = ots /\ lms' = lms
    BY <1>0 DEF Inv, TypeOK, Layout, ots, lms
  <1>b. stage \notin {"parse", "done"} => ParseError(pk, sig) = "none"
    BY DEF Inv, TypeOK
  <1>c. stage' \notin {"parse", "done"} => ParseError(pk', sig') = "none"
    BY <1>0, <1>b DEF Verify, Reject, HashMessage, OpenKc, Link, Linked, Fold, CloseKc,
           HashLeaf, Climb, Compare, Return
  <1>d. stage' \in {"message", "walk", "link", "fold", "kc", "climb", "done"}
    BY DEF Verify, Reject, HashMessage, OpenKc, Link, Linked, Fold, CloseKc,
           HashLeaf, Climb, Compare, Return
  <1>e. TypeOK'
    BY <1>0, <1>a, <1>c, <1>d DEF TypeOK
  <1>1. CASE Reject \/ Compare
    BY <1>1, <1>e DEF Reject, Compare, Return, Inv, WalkOK, ClimbOK
  <1>2. CASE HashMessage \/ CloseKc
    BY <1>2, <1>e DEF HashMessage, CloseKc, Inv, WalkOK, ClimbOK
  <1>3. CASE OpenKc
    <2>1. stage' = "walk" /\ i' = 0 /\ ots.p \in Nat \ {0}
      BY <1>3, <1>b, ParsedSets DEF OpenKc, StartChain, Inv
    <2> QED  BY <1>a, <1>e, <2>1 DEF Inv, WalkOK, ClimbOK
  <1>4. CASE Link \/ Linked
    BY <1>4, <1>a, <1>e DEF Link, Linked, walk, Inv, WalkOK, ClimbOK
  <1>5. CASE Fold
    <2>1. i \in 0 .. ots.p - 1 /\ ots.p \in Nat
      BY <1>5, <1>b, ParsedSets DEF Fold, Inv, WalkOK
    <2>2. CASE i + 1 < ots.p
      <3>1. stage' = "walk" /\ i' = i + 1
        BY <1>5, <2>2 DEF Fold, StartChain
      <3> QED  BY <1>a, <1>e, <2>1, <2>2, <3>1 DEF Inv, WalkOK, ClimbOK
    <2>3. CASE ~(i + 1 < ots.p)
      <3>1. stage' = "fold"
        BY <1>5, <2>3 DEF Fold
      <3> QED  BY <1>e, <3>1 DEF Inv, WalkOK, ClimbOK
    <2> QED  BY <2>2, <2>3
  <1>6. CASE HashLeaf
    <2>1. stage' = "climb" /\ k' = 0 /\ node' = Pow2(lms.h) + sig.q
      BY <1>6 DEF HashLeaf, LeafNode
    <2>2. /\ pk.lmsType \in DOMAIN Lms /\ lms.h \in Nat
          /\ sig.q \in Nat /\ ~(sig.q >= Pow2(lms.h))
      BY <1>6, <1>b, ParsedSets DEF HashLeaf, Inv, Capacity
    <2>3. Pow2(lms.h) \in Nat
      BY <2>2, Shift
    <2>4. lms.h - 0 = lms.h
      BY <2>2
    <2>5. ClimbOK'
      BY <1>a, <2>1, <2>2, <2>3, <2>4 DEF ClimbOK
    <2> QED  BY <1>e, <2>1, <2>5 DEF Inv, WalkOK
  <1>7. CASE Climb
    <2>1. /\ stage = "climb" /\ stage' = "climb" /\ node > 1
          /\ node' = node \div 2 /\ k' = k + 1
      BY <1>7 DEF Climb
    <2>2. /\ pk.lmsType \in DOMAIN Lms /\ lms.h \in Nat /\ k \in 0 .. lms.h /\ k < lms.h
          /\ node \in Nat /\ Pow2(lms.h - k) <= node /\ node < 2 * Pow2(lms.h - k)
      BY <1>b, <2>1, ParsedSets, ClimbIsInPath DEF Inv, ClimbOK
    <2>3. lms.h - (k + 1) \in 0 .. lms.h /\ (lms.h - (k + 1)) + 1 = lms.h - k
      BY <2>2
    <2>4. /\ Pow2(lms.h - (k + 1)) \in Nat
          /\ Pow2(lms.h - k) = 2 * Pow2(lms.h - (k + 1))
      BY <2>2, <2>3, Shift
    <2>5. /\ node \div 2 \in Nat /\ Pow2(lms.h - (k + 1)) <= node \div 2
          /\ node \div 2 < 2 * Pow2(lms.h - (k + 1))
      <3> HIDE DEF Pow2
      <3> QED  BY <2>2, <2>4
    <2>6. ClimbOK'
      BY <1>a, <2>1, <2>2, <2>5 DEF ClimbOK
    <2> QED  BY <1>e, <2>1, <2>6 DEF Inv, WalkOK
  <1> QED  BY <1>1, <1>2, <1>3, <1>4, <1>5, <1>6, <1>7 DEF Verify

\* While the backend works, the verifier stands still.
LEMMA StutterInv == Inv /\ UNCHANGED lmsVars => Inv'
  BY DEF Inv, TypeOK, WalkOK, ClimbOK, lmsVars, args, walk, climb, control, ots, lms, Layout

-----------------------------------------------------------------------------
\* A step is the verifier's, or the backend's, which leaves the verifier alone.
LEMMA NextInv == Inv /\ [Next]_vars => Inv'
  <1> SUFFICES ASSUME Inv, [Next]_vars PROVE Inv'
    OBVIOUS
  <1>1. CASE Verify
    BY <1>1, StepInv
  <1>2. CASE BackendServes
    BY <1>2, StutterInv DEF BackendServes
  <1>3. CASE UNCHANGED vars
    BY <1>3, StutterInv DEF vars
  <1> QED  BY <1>1, <1>2, <1>3 DEF Next

(***************************************************************************)
(* The loops of verify stay where the parameter sets put them, over any     *)
(* backend that keeps the contract.                                        *)
(***************************************************************************)
THEOREM InvHolds == Spec => []Inv
  <1>1. VerifyInit => Inv
    BY InitInv DEF VerifyInit
  <1> QED  BY <1>1, NextInv, PTL DEF Spec

(***************************************************************************)
(* verify cuts no chain value and no path node outside the signature, for   *)
(* every table of parameter sets and every argument.                       *)
(***************************************************************************)
THEOREM VerifyInBounds == Spec => []SlicesInBounds
  <1>1. Inv => SlicesInBounds
    BY InvImpliesBounds
  <1> QED  BY InvHolds, <1>1, PTL

(***************************************************************************)
(* The root is compared exactly when the whole path has been climbed.       *)
(***************************************************************************)
THEOREM PathIsClimbed == Spec => []PathIsUsedUp
  <1>1. Inv => PathIsUsedUp
    BY InvImpliesBounds
  <1> QED  BY InvHolds, <1>1, PTL

-----------------------------------------------------------------------------
\* There is no verdict on what did not parse.
OkParsed == verdict \in {"Ok", "Invalid"} => ParseError(pk, sig) = "none"

LEMMA ErrorsAreNotOk == ParseError(pk, sig) \notin {"Ok", "Invalid"}
  BY DEF ParseError, SizeError, KeyError

LEMMA OkParsedKept == Inv /\ OkParsed /\ [Next]_vars => OkParsed'
  <1> SUFFICES ASSUME Inv, OkParsed, [Next]_vars, verdict' \in {"Ok", "Invalid"}
               PROVE  ParseError(pk', sig') = "none"
    BY DEF OkParsed
  <1>1. CASE Verify
    <2>0. UNCHANGED <<pk, sig>>
      BY <1>1 DEF Verify, Reject, HashMessage, OpenKc, Link, Linked, Fold, CloseKc, HashLeaf,
                  Climb, Compare, Returned, args
    <2>1. CASE Reject
      BY <2>1, ErrorsAreNotOk DEF Reject, Return
    <2>2. CASE Compare
      BY <2>0, <2>2 DEF Compare, Inv, TypeOK
    <2>3. CASE HashMessage \/ OpenKc \/ Link \/ Linked \/ Fold \/ CloseKc \/ HashLeaf \/ Climb
      BY <2>0, <2>3 DEF HashMessage, OpenKc, Link, Linked, Fold, CloseKc, HashLeaf, Climb, OkParsed
    <2> QED  BY <1>1, <2>1, <2>2, <2>3 DEF Verify
  <1>2. CASE BackendServes
    BY <1>2 DEF BackendServes, lmsVars, args, control, OkParsed
  <1>3. CASE UNCHANGED vars
    BY <1>3 DEF vars, lmsVars, args, control, OkParsed
  <1> QED  BY <1>1, <1>2, <1>3 DEF Next

(***************************************************************************)
(* A boot stage that reads as many bytes as its LmsBootVerifier says        *)
(* accepts only signatures under that verifier's own parameter sets, for    *)
(* every table in which no two pairs of sets have the same length.         *)
(***************************************************************************)
THEOREM OwnSetsOnly == LengthsTellApart => (Spec => []AcceptsItsOwnSetsOnly)
  <1> SUFFICES ASSUME LengthsTellApart PROVE Spec => []AcceptsItsOwnSetsOnly
    OBVIOUS
  <1>1. VerifyInit => OkParsed
    BY DEF VerifyInit, Init, OkParsed
  <1>2. Inv /\ OkParsed => AcceptsItsOwnSetsOnly
    <2> SUFFICES ASSUME Inv, OkParsed, verdict = "Ok", NEW v \in Verifiers, ReadFor(v)
                 PROVE  ots = v.ots /\ lms = v.lms
      BY DEF AcceptsItsOwnSetsOnly, verify
    <2>1. SizeError(pk, sig) = "none"
      BY DEF OkParsed, ParseError
    <2>2. KeyError(pk) = "none" /\ sig.len = SignatureLen(ots, lms)
      BY <2>1 DEF SizeError, ots, lms
    <2>3. pk.otsType \in DOMAIN Lmots /\ pk.lmsType \in DOMAIN Lms
      BY <2>2 DEF KeyError
    <2> DEFINE own == [ots |-> ots, lms |-> lms]
    <2>4. own \in Verifiers /\ signature_len(own) = signature_len(v)
      BY <2>2, <2>3 DEF Verifiers, signature_len, ReadFor, ots, lms
    <2>5. own = v
      BY <2>4 DEF LengthsTellApart
    <2> QED  BY <2>5
  <1> QED  BY <1>1, <1>2, OkParsedKept, InvHolds, PTL DEF Spec
-----------------------------------------------------------------------------
(***************************************************************************)
(* What the backend is doing.  It serves a queue of calls made to absorb    *)
(* the tokens of p and then do the last one: m - 1 of them are served.      *)
(***************************************************************************)
Serving(p, last) ==
    LET calls == <<InitCall>> \o Updates(p) \o <<last>>
    IN  \E m \in 1 .. Len(p) + 2 :
            /\ todo = SubSeq(calls, m, Len(p) + 2)
            /\ m > 1 => cur = SubSeq(p, 1, m - 2)

Parked == ckpt["kc_state"]

\* It hashes p, or has; parks a new digest of p, or has.
Hashing(p) == Serving(p, FinishCall) \/ (todo = <<>> /\ out = Hash(p))
Parking(p) == Serving(p, SaveCall) \/ (todo = <<>> /\ Parked = p)

\* It takes up the parked digest of p again, for v or for good.
Folding(p, v) ==
    \/ todo = <<RestoreCall, UpdateCall(v), SaveCall>> /\ Parked = p
    \/ todo = <<UpdateCall(v), SaveCall>> /\ cur = p
    \/ todo = <<SaveCall>> /\ cur = p \o <<v>>
    \/ todo = <<>> /\ Parked = p \o <<v>>
Closing(p) ==
    \/ todo = <<RestoreCall, FinishCall>> /\ Parked = p
    \/ todo = <<FinishCall>> /\ cur = p
    \/ todo = <<>> /\ out = Hash(p)

-----------------------------------------------------------------------------
\* The digest Q is made of, and the end of a chain.
Mesg == MesgPreimage(pk.id, sig.q, sig.c, msg)
EndOf(n) == ChainAt(n, ChainLen(ots))

(***************************************************************************)
(* Inductive: which digest is in progress in each stage, and which one is   *)
(* parked meanwhile.                                                       *)
(***************************************************************************)
QcOK ==
    stage \in {"walk", "link", "fold", "kc", "climb"} => qc = WithChecksum(Bytes(Hash(Mesg)), ots)
LinksOK ==
    /\ stage \in {"walk", "link"} =>
        /\ j \in Coef(qc, i, ots.w) .. ChainLen(ots)
        /\ tmp = ChainAt(i, j)
    /\ stage = "link" => j < ChainLen(ots)
KcOK ==
    /\ stage = "walk" =>
        \/ i = 0 /\ Parking(Kc(0))
        \/ i > 0 /\ Folding(Kc(i - 1), EndOf(i - 1))
        \/ todo = <<>> /\ Parked = Kc(i)
    /\ stage = "link" => Parked = Kc(i)
    /\ stage = "fold" => Folding(Kc(ots.p - 1), EndOf(ots.p - 1))
    /\ stage = "kc" => Closing(Kc(ots.p))
HashingOK ==
    /\ stage = "message" => Hashing(Mesg)
    /\ stage = "link" => Hashing(LinkPreimage(pk.id, sig.q, i, j, tmp))

DigestInv ==
    /\ DOMAIN ckpt = {"kc_state"}
    /\ QcOK /\ LinksOK /\ KcOK /\ HashingOK

-----------------------------------------------------------------------------
\* The queue, call by call.
LEMMA CallsOf ==
    ASSUME NEW T, NEW p \in Seq(T), NEW last \in {FinishCall, SaveCall}
    PROVE  LET calls == <<InitCall>> \o Updates(p) \o <<last>>
           IN  /\ \E S : calls \in Seq(S)
               /\ Len(calls) = Len(p) + 2
               /\ calls[1] = InitCall /\ calls[Len(p) + 2] = last
               /\ \A m \in 2 .. Len(p) + 1 : calls[m] = UpdateCall(p[m - 1])
  <1> DEFINE S == {InitCall, last} \cup {UpdateCall(t) : t \in T}
             u == Updates(p)
             n == Len(p)
  <1>1. n \in Nat /\ \A m \in 1 .. n : p[m] \in T
    BY LenProperties, ElementOfSeq
  <1>2. u = [m \in 1 .. n |-> UpdateCall(p[m])]
    BY DEF Updates
  <1>3. u \in [1 .. n -> S]
    BY <1>1, <1>2
  <1>4. u \in Seq(S) /\ Len(u) = n /\ InitCall \in S /\ last \in S
    BY <1>1, <1>3, SeqDef, LenProperties
  <1> HIDE DEF S, u, n
  <1>5. <<InitCall>> \in Seq(S) /\ <<last>> \in Seq(S)
    BY <1>4
  <1> DEFINE front == <<InitCall>> \o u
  <1>6. /\ front \in Seq(S) /\ Len(front) = n + 1 /\ front[1] = InitCall
        /\ \A m \in 2 .. n + 1 : front[m] = u[m - 1]
    <2>1. /\ front \in Seq(S) /\ Len(front) = Len(<<InitCall>>) + Len(u)
          /\ \A m \in 1 .. Len(<<InitCall>>) + Len(u) :
                front[m] = IF m <= Len(<<InitCall>>) THEN <<InitCall>>[m] ELSE u[m - Len(<<InitCall>>)]
      BY <1>4, <1>5, ConcatProperties
    <2>2. Len(<<InitCall>>) = 1 /\ <<InitCall>>[1] = InitCall
      OBVIOUS
    <2> HIDE DEF front
    <2> QED  BY <1>1, <1>4, <2>1, <2>2
  <1> HIDE DEF front
  <1> DEFINE calls == front \o <<last>>
  <1>7. /\ calls \in Seq(S) /\ Len(calls) = n + 2 /\ calls[n + 2] = last
        /\ \A m \in 1 .. n + 1 : calls[m] = front[m]
    <2>1. /\ calls \in Seq(S) /\ Len(calls) = Len(front) + Len(<<last>>)
          /\ \A m \in 1 .. Len(front) + Len(<<last>>) :
                calls[m] = IF m <= Len(front) THEN front[m] ELSE <<last>>[m - Len(front)]
      BY <1>5, <1>6, ConcatProperties
    <2>2. Len(<<last>>) = 1 /\ <<last>>[1] = last
      OBVIOUS
    <2> HIDE DEF calls
    <2> QED  BY <1>1, <1>6, <2>1, <2>2
  <1>8. \A m \in 2 .. n + 1 : calls[m] = UpdateCall(p[m - 1])
    <2> SUFFICES ASSUME NEW m \in 2 .. n + 1 PROVE calls[m] = UpdateCall(p[m - 1])
      OBVIOUS
    <2>1. m \in 1 .. n + 1 /\ m - 1 \in 1 .. n
      BY <1>1
    <2>2. u[m - 1] = UpdateCall(p[m - 1])
      BY <1>2, <2>1
    <2> QED  BY <1>6, <1>7, <2>1, <2>2
  <1> QED  BY <1>1, <1>6, <1>7, <1>8 DEF front, u, n

\* Each call is served by what it does.
LEMMA Served ==
    ASSUME BackendServes, Serve(Head(todo))
    PROVE  /\ todo # <<>> /\ todo' = Tail(todo) /\ UNCHANGED lmsVars
           /\ Head(todo) = InitCall => cur' = <<>> /\ UNCHANGED <<ckpt, out>>
           /\ \A t : Head(todo) = UpdateCall(t) => cur' = cur \o <<t>> /\ UNCHANGED <<ckpt, out>>
           /\ Head(todo) = FinishCall => out' = Hash(cur) /\ UNCHANGED ckpt
           /\ Head(todo) = SaveCall =>
                /\ ckpt' = [ckpt EXCEPT !["kc_state"] = cur]
                /\ UNCHANGED <<cur, out>>
           /\ Head(todo) = RestoreCall => cur' = Parked /\ UNCHANGED <<ckpt, out>>
  <1> DEFINE c == Head(todo)
  <1>0. Serve(c) /\ todo # <<>> /\ todo' = Tail(todo) /\ UNCHANGED lmsVars
    BY DEF BackendServes
  <1> HIDE DEF c
  <1> USE DEF Serve
  <1>1. c = InitCall => cur' = <<>> /\ UNCHANGED <<ckpt, out>>
    BY <1>0 DEF InitCall, Backend!Begin
  <1>2. ASSUME NEW t, c = UpdateCall(t) PROVE cur' = cur \o <<t>> /\ UNCHANGED <<ckpt, out>>
    <2>1. c.op = "update" /\ c.data = <<t>>
      BY <1>2 DEF UpdateCall
    <2> QED  BY <1>0, <2>1 DEF Backend!Update
  <1>3. c = FinishCall => out' = Hash(cur) /\ UNCHANGED ckpt
    BY <1>0 DEF FinishCall, Backend!Finish
  <1>4. c = SaveCall => ckpt' = [ckpt EXCEPT !["kc_state"] = cur] /\ UNCHANGED <<cur, out>>
    BY <1>0 DEF SaveCall, Backend!Save
  <1>5. c = RestoreCall => cur' = Parked /\ UNCHANGED <<ckpt, out>>
    BY <1>0 DEF RestoreCall, Backend!Restore, Parked
  <1> QED  BY <1>0, <1>1, <1>2, <1>3, <1>4, <1>5 DEF c

\* A queue on a new digest gets on by a call, until it is about to do the last
\* one, with p absorbed.
LEMMA ServingStep ==
    ASSUME NEW T, NEW p \in Seq(T), NEW last \in {FinishCall, SaveCall}, Serving(p, last),
           BackendServes, Serve(Head(todo))
    PROVE  \/ Serving(p, last)' /\ UNCHANGED <<ckpt, out>>
           \/ todo' = <<>> /\ cur = p /\ Head(todo) = last
  <1> DEFINE calls == <<InitCall>> \o Updates(p) \o <<last>>
             n == Len(p)
  <1>1. PICK m \in 1 .. n + 2 :
            /\ todo = SubSeq(calls, m, n + 2)
            /\ m > 1 => cur = SubSeq(p, 1, m - 2)
    BY DEF Serving
  <1>2. PICK S : calls \in Seq(S)
    BY CallsOf
  <1>3. /\ Len(calls) = n + 2 /\ calls[1] = InitCall /\ calls[n + 2] = last
        /\ \A l \in 2 .. n + 1 : calls[l] = UpdateCall(p[l - 1])
    BY CallsOf
  <1>4. n \in Nat
    BY LenProperties
  <1>5. ASSUME NEW l \in 1 .. n + 2,
               todo' = SubSeq(calls, l, n + 2), cur' = SubSeq(p, 1, l - 2)
        PROVE  Serving(p, last)'
    BY <1>5 DEF Serving
  <1> HIDE DEF calls, n
  <1>6. Head(todo) = calls[m] /\ todo' = SubSeq(calls, m + 1, n + 2)
    <2>1. m \in 1 .. Len(calls) /\ n + 2 \in m .. Len(calls)
      BY <1>3, <1>4
    <2>2. /\ Head(SubSeq(calls, m, n + 2)) = calls[m]
          /\ Tail(SubSeq(calls, m, n + 2)) = SubSeq(calls, m + 1, n + 2)
      BY <1>2, <2>1, HeadTailOfSubSeq
    <2> QED  BY <1>1, <2>2 DEF BackendServes
  <1>7. CASE m = 1
    <2>1. cur' = <<>> /\ UNCHANGED <<ckpt, out>>
      BY <1>3, <1>6, <1>7, Served
    <2>2. SubSeq(p, 1, 2 - 2) = <<>>
      BY SubSeqEmpty
    <2>3. 2 \in 1 .. n + 2 /\ m + 1 = 2
      BY <1>4, <1>7
    <2>4. Serving(p, last)'
      BY <1>5, <1>6, <2>1, <2>2, <2>3
    <2> QED  BY <2>1, <2>4
  <1>8. CASE m \in 2 .. n + 1
    <2>1. cur' = cur \o <<p[m - 1]>> /\ UNCHANGED <<ckpt, out>>
      BY <1>3, <1>6, <1>8, Served
    <2>2. m - 1 \in 1 .. n /\ m + 1 \in 1 .. n + 2 /\ (m - 1) - 1 = m - 2 /\ (m + 1) - 2 = m - 1
      BY <1>4, <1>8
    <2>3. SubSeq(p, 1, m - 1) = SubSeq(p, 1, (m - 1) - 1) \o <<p[m - 1]>>
      BY <1>4, <2>2, SubSeqRecursiveSecond DEF n
    <2>4. cur = SubSeq(p, 1, m - 2)
      BY <1>1, <1>8
    <2>5. cur' = SubSeq(p, 1, (m + 1) - 2)
      BY <2>1, <2>2, <2>3, <2>4
    <2>6. Serving(p, last)'
      BY <1>5, <1>6, <2>2, <2>5
    <2> QED  BY <2>1, <2>6
  <1>9. CASE m = n + 2
    <2>1. todo' = <<>>
      BY <1>4, <1>6, <1>9, SubSeqEmpty
    <2>2. cur = SubSeq(p, 1, n)
      BY <1>1, <1>4, <1>9
    <2>3. cur = p
      BY <2>2, SubSeqFull DEF n
    <2> QED  BY <1>3, <1>6, <1>9, <2>1, <2>3
  <1> QED  BY <1>1, <1>4, <1>7, <1>8, <1>9

\* A queue starts out with nothing served.
LEMMA QueueStarts ==
    ASSUME NEW T, NEW p \in Seq(T)
    PROVE  /\ todo' = HashCalls(p) => Hashing(p)'
           /\ todo' = <<InitCall>> \o Updates(p) \o <<SaveCall>> => Parking(p)'
  <1>1. ASSUME NEW last \in {FinishCall, SaveCall}, todo' = <<InitCall>> \o Updates(p) \o <<last>>
        PROVE  Serving(p, last)'
    <2> DEFINE calls == <<InitCall>> \o Updates(p) \o <<last>>
    <2>1. PICK S : calls \in Seq(S)
      BY CallsOf
    <2>2. Len(calls) = Len(p) + 2
      BY CallsOf
    <2>3. Len(p) \in Nat
      BY LenProperties
    <2> HIDE DEF calls
    <2>4. calls = SubSeq(calls, 1, Len(p) + 2)
      BY <2>1, <2>2, SubSeqFull
    <2>5. todo' = SubSeq(calls, 1, Len(p) + 2)
      BY <1>1, <2>4 DEF calls
    <2>6. 1 \in 1 .. Len(p) + 2
      BY <2>3
    <2>7. \E m \in 1 .. Len(p) + 2 :
            todo' = SubSeq(calls, m, Len(p) + 2) /\ (m > 1 => cur' = SubSeq(p, 1, m - 2))
      <3> WITNESS 1 \in 1 .. Len(p) + 2
      <3> QED  BY <2>5
    <2> QED  BY <2>7 DEF Serving, calls
  <1>2. todo' = HashCalls(p) => Hashing(p)'
    BY <1>1 DEF HashCalls, Hashing
  <1>3. todo' = <<InitCall>> \o Updates(p) \o <<SaveCall>> => Parking(p)'
    BY <1>1 DEF Parking
  <1> QED  BY <1>2, <1>3

\* A queue that is not empty has not been served.
LEMMA ServingIsBusy ==
    ASSUME NEW T, NEW p \in Seq(T), NEW last \in {FinishCall, SaveCall}, Serving(p, last)
    PROVE  todo # <<>>
  <1> DEFINE calls == <<InitCall>> \o Updates(p) \o <<last>>
             n == Len(p)
  <1>1. PICK m \in 1 .. n + 2 : todo = SubSeq(calls, m, n + 2)
    BY DEF Serving
  <1>2. PICK S : calls \in Seq(S) /\ Len(calls) = n + 2
    BY CallsOf
  <1>3. n \in Nat
    BY LenProperties
  <1> HIDE DEF calls, n
  <1>4. \A l \in m .. n + 2 : calls[l] \in S
    BY <1>2, <1>3, ElementOfSeq
  <1>5. Len(SubSeq(calls, m, n + 2)) = (n + 2) - m + 1
    BY <1>3, <1>4, SubSeqProperties
  <1>6. Len(todo) # 0
    BY <1>1, <1>3, <1>5
  <1> QED  BY <1>6

\* What the backend does goes on to the end and then stays done.
LEMMA BackendGoesOn ==
    ASSUME NEW T, NEW p \in Seq(T), BackendServes, Serve(Head(todo)),
           DOMAIN ckpt = {"kc_state"}
    PROVE  /\ Hashing(p) => Hashing(p)' /\ UNCHANGED ckpt
           /\ Parking(p) => Parking(p)'
  <1>1. todo # <<>>
    BY Served
  <1>2. ASSUME Hashing(p) PROVE Hashing(p)' /\ UNCHANGED ckpt
    <2>1. Serving(p, FinishCall)
      BY <1>1, <1>2 DEF Hashing
    <2>2. CASE Serving(p, FinishCall)' /\ UNCHANGED <<ckpt, out>>
      BY <2>2 DEF Hashing
    <2>3. CASE todo' = <<>> /\ cur = p /\ Head(todo) = FinishCall
      BY <2>3, Served DEF Hashing
    <2> QED  BY <2>1, <2>2, <2>3, ServingStep
  <1>3. ASSUME Parking(p) PROVE Parking(p)'
    <2>1. Serving(p, SaveCall)
      BY <1>1, <1>3 DEF Parking
    <2>2. CASE Serving(p, SaveCall)' /\ UNCHANGED <<ckpt, out>>
      BY <2>2 DEF Parking
    <2>3. CASE todo' = <<>> /\ cur = p /\ Head(todo) = SaveCall
      BY <2>3, Served DEF Parking, Parked
    <2> QED  BY <2>1, <2>2, <2>3, ServingStep
  <1> QED  BY <1>2, <1>3

LEMMA KcGoesOn ==
    ASSUME NEW p, NEW v, BackendServes, Serve(Head(todo)), DOMAIN ckpt = {"kc_state"}
    PROVE  /\ Folding(p, v) => Folding(p, v)'
           /\ Closing(p) => Closing(p)'
  <1>1. todo # <<>> /\ todo' = Tail(todo)
    BY Served
  <1>2. ASSUME Folding(p, v) PROVE Folding(p, v)'
    <2>1. CASE todo = <<RestoreCall, UpdateCall(v), SaveCall>> /\ Parked = p
      <3>1. Head(todo) = RestoreCall /\ todo' = <<UpdateCall(v), SaveCall>>
        BY <1>1, <2>1
      <3>2. cur' = p
        BY <2>1, <3>1, Served
      <3> QED  BY <3>1, <3>2 DEF Folding
    <2>2. CASE todo = <<UpdateCall(v), SaveCall>> /\ cur = p
      <3>1. Head(todo) = UpdateCall(v) /\ todo' = <<SaveCall>>
        BY <1>1, <2>2
      <3>2. cur' = p \o <<v>>
        BY <2>2, <3>1, Served
      <3> QED  BY <3>1, <3>2 DEF Folding
    <2>3. CASE todo = <<SaveCall>> /\ cur = p \o <<v>>
      <3>1. Head(todo) = SaveCall /\ todo' = <<>>
        BY <1>1, <2>3
      <3>2. Parked' = p \o <<v>>
        BY <2>3, <3>1, Served DEF Parked
      <3> QED  BY <3>1, <3>2 DEF Folding
    <2> QED  BY <1>1, <1>2, <2>1, <2>2, <2>3 DEF Folding
  <1>3. ASSUME Closing(p) PROVE Closing(p)'
    <2>1. CASE todo = <<RestoreCall, FinishCall>> /\ Parked = p
      <3>1. Head(todo) = RestoreCall /\ todo' = <<FinishCall>>
        BY <1>1, <2>1
      <3>2. cur' = p
        BY <2>1, <3>1, Served
      <3> QED  BY <3>1, <3>2 DEF Closing
    <2>2. CASE todo = <<FinishCall>> /\ cur = p
      <3>1. Head(todo) = FinishCall /\ todo' = <<>>
        BY <1>1, <2>2
      <3>2. out' = Hash(p)
        BY <2>2, <3>1, Served
      <3> QED  BY <3>1, <3>2 DEF Closing
    <2> QED  BY <1>1, <1>3, <2>1, <2>2 DEF Closing
  <1> QED  BY <1>2, <1>3

-----------------------------------------------------------------------------
\* v has the values of a chain, link by link.
IsChain(v, id, q, n, start, from) ==
    /\ v = [m \in Nat |->
                IF m = 0 THEN start
                ELSE Hash(<<id, U32(q), U16(n), U8(from + m - 1), v[m - 1]>>)]
    /\ \A to : chain(id, q, n, start, from, to) = v[to - from]

LEMMA ChainDefined ==
    ASSUME NEW id, NEW q, NEW n, NEW start, NEW from \in Int
    PROVE  \E v : IsChain(v, id, q, n, start, from)
  <1> DEFINE loop(v) == v = [m \in Nat |->
                IF m = 0 THEN start
                ELSE Hash(<<id, U32(q), U16(n), U8(from + m - 1), v[m - 1]>>)]
             v == CHOOSE v : loop(v)
  <1>1. \E f : loop(f)
    <2> DEFINE rule == [does |-> "hash", id |-> id, q |-> q, n |-> n, from |-> from]
    <2>1. \A m, u : Turn(rule, m, u) = Hash(<<id, U32(q), U16(n), U8(from + m - 1), u>>)
      BY DEF Turn
    <2> HIDE DEF rule
    <2>2. PICK f : Loops(f, rule, start)
      BY LoopIsDefined
    <2> QED  BY <2>1, <2>2 DEF Loops
  <1>2. loop(v)
    BY <1>1
  <1>3. \A to : chain(id, q, n, start, from, to) = v[to - from]
    BY DEF chain
  <1> HIDE DEF v
  <1> QED  BY <1>2, <1>3 DEF IsChain

\* A chain starts with its start, and has one link more for each step.
LEMMA ChainStart ==
    ASSUME NEW id, NEW q, NEW n, NEW start, NEW from \in Int
    PROVE  chain(id, q, n, start, from, from) = start
  <1>1. PICK v : IsChain(v, id, q, n, start, from)
    BY ChainDefined
  <1>2. v[0] = start /\ from - from = 0
    BY <1>1 DEF IsChain
  <1> QED  BY <1>1, <1>2 DEF IsChain

LEMMA ChainStep ==
    ASSUME NEW id, NEW q, NEW n, NEW start, NEW from \in Int, NEW to \in Int, to >= from
    PROVE  chain(id, q, n, start, from, to + 1) =
                Hash(<<id, U32(q), U16(n), U8(to), chain(id, q, n, start, from, to)>>)
  <1>1. PICK v : IsChain(v, id, q, n, start, from)
    BY ChainDefined
  <1> DEFINE m == (to + 1) - from
  <1>2. m \in Nat /\ m # 0 /\ m - 1 = to - from /\ from + m - 1 = to
    OBVIOUS
  <1> HIDE DEF m
  <1>3. v[m] = Hash(<<id, U32(q), U16(n), U8(from + m - 1), v[m - 1]>>)
    BY <1>1, <1>2 DEF IsChain
  <1> QED  BY <1>1, <1>2, <1>3 DEF IsChain, m

\* Kc has one chain more after each.
LEMMA KcStep ==
    /\ Kc(0) = PblcPrefix(pk.id, sig.q)
    /\ \A n \in Nat : Kc(n + 1) = Kc(n) \o <<EndOf(n)>>
  <1> DEFINE ends(n) == [m \in 1 .. n |-> EndOf(m - 1)]
             prefix == PblcPrefix(pk.id, sig.q)
  <1>1. \A n : Kc(n) = prefix \o ends(n)
    BY DEF Kc, EndOf
  <1> DEFINE S(n) == {EndOf(m) : m \in 0 .. n} \cup {prefix[1], prefix[2], prefix[3]}
  <1>2. \A n \in Nat : prefix \in Seq(S(n))
    BY DEF PblcPrefix
  <1>3. ASSUME NEW n \in Nat, NEW l \in {n, n + 1}
        PROVE  ends(l) \in Seq(S(n)) /\ Len(ends(l)) = l
    <2>1. ends(l) \in [1 .. l -> S(n)]
      OBVIOUS
    <2> HIDE DEF ends, S
    <2> QED  BY <2>1, SeqDef, LenProperties
  <1>4. ASSUME NEW n \in Nat PROVE ends(n + 1) = ends(n) \o <<EndOf(n)>>
    <2>1. EndOf(n) \in S(n)
      OBVIOUS
    <2>2. /\ ends(n + 1) \in Seq(S(n)) /\ Len(ends(n + 1)) = n + 1
          /\ ends(n) \in Seq(S(n)) /\ Len(ends(n)) = n
      BY <1>3
    <2>3. \A m \in 1 .. n + 1 : ends(n + 1)[m] = IF m <= n THEN ends(n)[m] ELSE EndOf(n)
      OBVIOUS
    <2> HIDE DEF ends, S
    <2>4. <<EndOf(n)>> \in Seq(S(n)) /\ Len(<<EndOf(n)>>) = 1 /\ <<EndOf(n)>>[1] = EndOf(n)
      BY <2>1
    <2> DEFINE s == ends(n)
               t == <<EndOf(n)>>
    <2>5. /\ s \o t \in Seq(S(n)) /\ Len(s \o t) = Len(s) + Len(t)
          /\ \A m \in 1 .. Len(s) + Len(t) : (s \o t)[m] = IF m <= Len(s) THEN s[m] ELSE t[m - Len(s)]
      BY <2>2, <2>4, ConcatProperties
    <2>6. \A m \in 1 .. Len(ends(n + 1)) : ends(n + 1)[m] = (s \o t)[m]
      BY <2>2, <2>3, <2>4, <2>5
    <2>7. Len(ends(n + 1)) = Len(s \o t)
      BY <2>2, <2>4, <2>5
    <2> HIDE DEF s, t
    <2>8. ends(n + 1) = s \o t
      BY <2>2, <2>5, <2>6, <2>7, SeqEqual
    <2> QED  BY <2>8 DEF s, t
  <1>5. ASSUME NEW n \in Nat PROVE Kc(n + 1) = Kc(n) \o <<EndOf(n)>>
    <2>1. EndOf(n) \in S(n)
      OBVIOUS
    <2>2. prefix \in Seq(S(n)) /\ ends(n) \in Seq(S(n)) /\ <<EndOf(n)>> \in Seq(S(n))
      BY <1>2, <1>3, <2>1
    <2> HIDE DEF S, ends, prefix
    <2>3. (prefix \o ends(n)) \o <<EndOf(n)>> = prefix \o (ends(n) \o <<EndOf(n)>>)
      BY <2>2, ConcatAssociative
    <2>4. Kc(n) = prefix \o ends(n) /\ Kc(n + 1) = prefix \o ends(n + 1)
      BY <1>1
    <2> QED  BY <1>4, <2>3, <2>4
  <1>6. Kc(0) = prefix
    <2>1. ends(0) = <<>>
      OBVIOUS
    <2> QED  BY <1>1, <1>2, <2>1, ConcatEmptySeq
  <1> QED  BY <1>5, <1>6

-----------------------------------------------------------------------------
\* The arguments are those of a case to the end.
CaseOK == \E c \in Case : pk = c.pk /\ msg = c.msg /\ sig = c.sig /\ oracle = c.oracle

LEMMA CaseKept == CaseOK /\ UNCHANGED args => CaseOK'
  BY DEF CaseOK, args

\* No step changes them, nor the bytes that follow from them.
LEMMA ArgsKept == [Next]_vars => UNCHANGED args
  BY DEF Next, Verify, Reject, HashMessage, OpenKc, Link, Linked, Fold, CloseKc, HashLeaf,
         Climb, Compare, Returned, BackendServes, lmsVars, vars

LEMMA SameTerms ==
    ASSUME UNCHANGED args
    PROVE  /\ ots' = ots /\ Mesg' = Mesg
           /\ \A h : Bytes(h)' = Bytes(h)
           /\ qc' = qc => \A n, l : /\ ChainAt(n, l)' = ChainAt(n, l)
                                    /\ EndOf(n)' = EndOf(n) /\ Kc(n)' = Kc(n)
  <1>1. /\ pk' = pk /\ msg' = msg /\ sig' = sig /\ oracle' = oracle /\ ots' = ots
        /\ Mesg' = Mesg /\ \A h : Bytes(h)' = Bytes(h)
    BY DEF args, ots, Mesg, Bytes
  <1>2. ASSUME qc' = qc, NEW n, NEW l
        PROVE  ChainAt(n, l)' = ChainAt(n, l) /\ EndOf(n)' = EndOf(n)
    BY <1>1, <1>2 DEF ChainAt, EndOf
  <1>3. ASSUME qc' = qc, NEW n PROVE Kc(n)' = Kc(n)
    BY <1>1, <1>3 DEF Kc, ChainAt
  <1> QED  BY <1>1, <1>2, <1>3

\* What a verification that parsed starts its chains with.
LEMMA CoefOK ==
    ASSUME TypeOK, CaseOK, stage \notin {"parse", "done"}, NEW h
    PROVE  /\ ots \in Sets
           /\ \A n \in 0 .. ots.p - 1 :
                Coef(WithChecksum(Bytes(h), ots), n, ots.w) \in 0 .. ChainLen(ots)
  <1>1. ots \in Sets
    BY ParsedSets DEF TypeOK, Sets, ots
  <1>2. Bytes(h) \in DigestBytes
    BY LayoutAssumption DEF CaseOK, Bytes
  <1> QED  BY <1>1, <1>2, Coefficients

\* The backend is idle with the ends of i chains parked.
LEMMA ParkedWhenIdle ==
    ASSUME DigestInv, todo = <<>>
    PROVE  /\ stage = "walk" /\ i \in Nat => Parked = Kc(i)
           /\ stage = "fold" /\ ots.p \in Nat \ {0} => Parked = Kc(ots.p)
           /\ stage = "kc" => out = Hash(Kc(ots.p))
           /\ stage = "message" => out = Hash(Mesg)
           /\ stage = "link" => out = Hash(LinkPreimage(pk.id, sig.q, i, j, tmp))
  <1>1. ASSUME NEW T, NEW p \in Seq(T)
        PROVE  (Hashing(p) => out = Hash(p)) /\ (Parking(p) => Parked = p)
    BY ServingIsBusy DEF Hashing, Parking
  <1>2. ASSUME NEW p, NEW v
        PROVE  (Folding(p, v) => Parked = p \o <<v>>) /\ (Closing(p) => out = Hash(p))
    BY DEF Folding, Closing
  <1>3. stage = "message" => out = Hash(Mesg)
    <2>1. Mesg \in Seq({pk.id, U32(sig.q), U16(D_MESG), sig.c, msg})
      BY DEF Mesg, MesgPreimage
    <2> QED  BY <1>1, <2>1 DEF DigestInv, HashingOK
  <1>4. stage = "link" => out = Hash(LinkPreimage(pk.id, sig.q, i, j, tmp))
    <2>1. LinkPreimage(pk.id, sig.q, i, j, tmp) \in Seq({pk.id, U32(sig.q), U16(i), U8(j), tmp})
      BY DEF LinkPreimage
    <2> QED  BY <1>1, <2>1 DEF DigestInv, HashingOK
  <1>5. stage = "kc" => out = Hash(Kc(ots.p))
    BY <1>2 DEF DigestInv, KcOK
  <1>6. ASSUME stage = "fold", ots.p \in Nat \ {0} PROVE Parked = Kc(ots.p)
    <2>1. ots.p - 1 \in Nat /\ (ots.p - 1) + 1 = ots.p
      BY <1>6
    <2>2. Kc((ots.p - 1) + 1) = Kc(ots.p - 1) \o <<EndOf(ots.p - 1)>>
      BY <2>1, KcStep
    <2> QED  BY <1>2, <1>6, <2>1, <2>2 DEF DigestInv, KcOK
  <1>7. ASSUME stage = "walk", i \in Nat PROVE Parked = Kc(i)
    <2>1. CASE i = 0 /\ Parking(Kc(0))
      <3>1. PblcPrefix(pk.id, sig.q) \in Seq({pk.id, U32(sig.q), U16(D_PBLC)})
        BY DEF PblcPrefix
      <3>2. Kc(0) = PblcPrefix(pk.id, sig.q)
        BY KcStep
      <3> QED  BY <1>1, <2>1, <3>1, <3>2
    <2>2. CASE i > 0 /\ Folding(Kc(i - 1), EndOf(i - 1))
      <3>1. i - 1 \in Nat /\ (i - 1) + 1 = i
        BY <1>7, <2>2
      <3>2. Kc((i - 1) + 1) = Kc(i - 1) \o <<EndOf(i - 1)>>
        BY <3>1, KcStep
      <3> QED  BY <1>2, <2>2, <3>1, <3>2
    <2> QED  BY <1>7, <2>1, <2>2 DEF DigestInv, KcOK
  <1> QED  BY <1>3, <1>4, <1>5, <1>6, <1>7

\* Nothing is hashed yet.
LEMMA InitDigests == VerifyInit => CaseOK /\ DigestInv
  BY DEF VerifyInit, Init, CaseOK, DigestInv, QcOK, LinksOK, KcOK, HashingOK, Slot

\* Every step of the verifier finds the digests where it left them.
LEMMA VerifyDigests ==
    ASSUME Inv, CaseOK, DigestInv, Verify, UNCHANGED <<cur, ckpt>>
    PROVE  DigestInv'
  <1>1. UNCHANGED args /\ UNCHANGED out /\ todo = <<>> /\ Parked' = Parked
    BY DEF Verify, Reject, HashMessage, OpenKc, Link, Linked, Fold, CloseKc, HashLeaf, Climb,
           Compare, Returned, Parked
  <1>2. DOMAIN ckpt' = {"kc_state"}
    BY DEF DigestInv
  <1>3. pk' = pk /\ sig' = sig /\ msg' = msg /\ ots' = ots /\ Mesg' = Mesg /\ \A h : Bytes(h)' = Bytes(h)
    BY <1>1, SameTerms DEF args
  <1>4. qc' = qc => \A n, l : /\ ChainAt(n, l)' = ChainAt(n, l)
                              /\ EndOf(n)' = EndOf(n) /\ Kc(n)' = Kc(n)
    BY <1>1, SameTerms
  <1>5. CASE Reject \/ Compare
    <2>1. stage' = "done"
      BY <1>5 DEF Reject, Compare, Return
    <2> QED  BY <1>2, <2>1 DEF DigestInv, QcOK, LinksOK, KcOK, HashingOK
  <1>6. CASE HashMessage
    <2>1. stage' = "message" /\ todo' = HashCalls(Mesg)
      BY <1>6 DEF HashMessage, Call, Mesg
    <2>2. Mesg \in Seq({pk.id, U32(sig.q), U16(D_MESG), sig.c, msg})
      BY DEF Mesg, MesgPreimage
    <2>3. PICK p : p = Mesg
      OBVIOUS
    <2>4. Hashing(p)'
      BY <2>1, <2>2, <2>3, QueueStarts
    <2>5. HashingOK'
      BY <1>3, <2>1, <2>3, <2>4 DEF HashingOK
    <2> QED  BY <1>2, <2>1, <2>5 DEF DigestInv, QcOK, LinksOK, KcOK
  <1>7. CASE OpenKc
    <2>1. /\ stage = "message" /\ stage' = "walk" /\ i' = 0
          /\ qc' = WithChecksum(Bytes(out), ots)
          /\ j' = Coef(qc', 0, ots.w) /\ tmp' = sig.y[1]
          /\ todo' = <<InitCall>> \o Updates(PblcPrefix(pk.id, sig.q)) \o <<SaveCall>>
      BY <1>7 DEF OpenKc, Call, StartChain
    <2>2. out = Hash(Mesg)
      BY <1>1, <2>1, ParkedWhenIdle
    <2>3. QcOK'
      BY <1>3, <2>1, <2>2 DEF QcOK
    <2>4. LinksOK'
      <3>1. 0 \in 0 .. ots.p - 1
        BY <2>1, ParsedSets DEF Inv, TypeOK
      <3>2. Coef(qc', 0, ots.w) \in 0 .. ChainLen(ots)
        BY <2>1, <3>1, CoefOK DEF Inv
      <3>3. ots \in Sets
        BY <2>1, CoefOK DEF Inv
      <3>4. ChainLen(ots) \in Nat
        BY <3>3, SetFacts
      <3>5. j' \in Coef(qc', i', ots.w) .. ChainLen(ots)
        BY <2>1, <3>2, <3>4
      <3>6. chain(pk.id, sig.q, 0, sig.y[1], Coef(qc', 0, ots.w), Coef(qc', 0, ots.w)) = sig.y[1]
        BY <3>2, ChainStart
      <3>7. ChainAt(i, j)' = tmp'
        BY <1>3, <2>1, <3>6 DEF ChainAt
      <3> QED  BY <1>3, <2>1, <3>5, <3>7 DEF LinksOK
    <2>5. KcOK'
      <3>1. PblcPrefix(pk.id, sig.q) \in Seq({pk.id, U32(sig.q), U16(D_PBLC)})
        BY DEF PblcPrefix
      <3>2. PICK p : p = PblcPrefix(pk.id, sig.q)
        OBVIOUS
      <3>3. Parking(p)'
        BY <2>1, <3>1, <3>2, QueueStarts
      <3>4. p \o <<>> = p
        BY <3>1, <3>2, ConcatEmptySeq
      <3>5. Kc(0)' = p
        BY <1>3, <3>2, <3>4 DEF Kc
      <3> QED  BY <2>1, <3>3, <3>5 DEF KcOK
    <2> QED  BY <1>2, <2>1, <2>3, <2>4, <2>5 DEF DigestInv, HashingOK
  <1>8. CASE Link
    <2>1. /\ stage = "walk" /\ stage' = "link" /\ j < ChainLen(ots) /\ UNCHANGED walk
          /\ todo' = HashCalls(LinkPreimage(pk.id, sig.q, i, j, tmp))
      BY <1>8 DEF Link, Call
    <2>2. qc' = qc /\ i' = i /\ j' = j /\ tmp' = tmp
      BY <2>1 DEF walk
    <2>3. i \in Nat
      BY <2>1, ParsedSets DEF Inv, TypeOK, WalkOK
    <2>4. Parked = Kc(i)
      BY <1>1, <2>1, <2>3, ParkedWhenIdle
    <2>5. HashingOK'
      <3>1. LinkPreimage(pk.id, sig.q, i, j, tmp) \in Seq({pk.id, U32(sig.q), U16(i), U8(j), tmp})
        BY DEF LinkPreimage
      <3>2. PICK p : p = LinkPreimage(pk.id, sig.q, i, j, tmp)
        OBVIOUS
      <3>3. Hashing(p)'
        BY <2>1, <3>1, <3>2, QueueStarts
      <3>4. LinkPreimage(pk.id, sig.q, i, j, tmp)' = p
        BY <1>3, <2>2, <3>2 DEF LinkPreimage
      <3> QED  BY <2>1, <3>3, <3>4 DEF HashingOK
    <2>6. QcOK' /\ LinksOK'
      <3>1. QcOK /\ LinksOK
        BY DEF DigestInv
      <3> QED  BY <1>3, <1>4, <2>1, <2>2, <3>1 DEF QcOK, LinksOK
    <2>7. KcOK'
      <3>1. Parked' = Kc(i)'
        BY <1>1, <1>4, <2>2, <2>4
      <3> QED  BY <2>1, <3>1 DEF KcOK
    <2> QED  BY <1>2, <2>5, <2>6, <2>7 DEF DigestInv
  <1>9. CASE Linked
    <2>1. /\ stage = "link" /\ stage' = "walk" /\ tmp' = out /\ j' = j + 1
          /\ todo' = <<>> /\ qc' = qc /\ i' = i
      BY <1>1, <1>9 DEF Linked
    <2>2. out = Hash(LinkPreimage(pk.id, sig.q, i, j, tmp))
      BY <1>1, <2>1, ParkedWhenIdle
    <2>3. LinksOK /\ QcOK /\ Parked = Kc(i)
      BY <2>1 DEF DigestInv, KcOK
    <2>4. i \in 0 .. ots.p - 1
      BY <2>1, ParsedSets DEF Inv, TypeOK, WalkOK
    <2>5. Coef(qc, i, ots.w) \in Nat /\ ChainLen(ots) \in Nat
      <3>1. ots \in Sets /\ Coef(qc, i, ots.w) \in 0 .. ChainLen(ots)
        BY <2>1, <2>3, <2>4, CoefOK DEF Inv, QcOK
      <3> QED  BY <3>1, SetFacts
    <2>6. j \in Nat /\ j >= Coef(qc, i, ots.w) /\ j < ChainLen(ots) /\ tmp = ChainAt(i, j)
      BY <2>1, <2>3, <2>5 DEF LinksOK
    <2>7. ChainAt(i, j + 1) = out
      <3>1. Coef(qc, i, ots.w) \in Int /\ j \in Int /\ j >= Coef(qc, i, ots.w)
        BY <2>5, <2>6
      <3>2. ChainAt(i, j + 1) = Hash(<<pk.id, U32(sig.q), U16(i), U8(j), ChainAt(i, j)>>)
        BY <3>1, ChainStep DEF ChainAt
      <3> QED  BY <2>2, <2>6, <3>2 DEF LinkPreimage
    <2>8. LinksOK'
      <3>1. j' \in Coef(qc', i', ots'.w) .. ChainLen(ots')
        BY <1>3, <2>1, <2>5, <2>6
      <3>2. tmp' = ChainAt(i, j)'
        <4>1. PICK m : m = j'
          OBVIOUS
        <4>2. ChainAt(i, m)' = ChainAt(i, m)
          BY <1>4, <2>1
        <4>3. ChainAt(i, j)' = ChainAt(i, m)'
          BY <2>1, <4>1 DEF ChainAt
        <4> QED  BY <2>1, <2>7, <4>1, <4>2, <4>3
      <3> QED  BY <2>1, <3>1, <3>2 DEF LinksOK
    <2>9. QcOK' /\ KcOK' /\ HashingOK'
      <3>1. Parked' = Kc(i)'
        BY <1>1, <1>4, <2>1, <2>3
      <3> QED  BY <1>3, <2>1, <2>3, <3>1 DEF QcOK, KcOK, HashingOK
    <2> QED  BY <1>2, <2>8, <2>9 DEF DigestInv
  <1>10. CASE Fold
    <2>1. /\ stage = "walk" /\ j >= ChainLen(ots) /\ qc' = qc /\ todo' = FoldCalls
          /\ IF i + 1 < ots.p
                THEN /\ i' = i + 1 /\ j' = Coef(qc, i + 1, ots.w) /\ tmp' = sig.y[(i + 1) + 1]
                     /\ stage' = "walk"
                ELSE stage' = "fold" /\ i' = i + 1
      BY <1>10 DEF Fold, StartChain
    <2>2. i \in 0 .. ots.p - 1 /\ ots.p \in Nat
      BY <2>1, ParsedSets DEF Inv, TypeOK, WalkOK
    <2>3. QcOK /\ LinksOK /\ qc = WithChecksum(Bytes(Hash(Mesg)), ots)
      BY <2>1 DEF DigestInv, QcOK
    <2>4. /\ ots \in Sets /\ ChainLen(ots) \in Nat
          /\ \A n \in 0 .. ots.p - 1 : Coef(qc, n, ots.w) \in 0 .. ChainLen(ots)
      <3>1. ots \in Sets /\ \A n \in 0 .. ots.p - 1 : Coef(qc, n, ots.w) \in 0 .. ChainLen(ots)
        BY <2>1, <2>3, CoefOK DEF Inv
      <3> QED  BY <3>1, SetFacts
    <2>5. tmp = EndOf(i)
      <3>1. j \in Coef(qc, i, ots.w) .. ChainLen(ots) /\ tmp = ChainAt(i, j)
        BY <2>1, <2>3 DEF LinksOK
      <3>2. j = ChainLen(ots)
        BY <2>1, <2>2, <2>4, <3>1
      <3> QED  BY <3>1, <3>2 DEF EndOf
    <2>6. Parked = Kc(i)
      BY <1>1, <2>1, <2>2, ParkedWhenIdle
    <2>7. \A n : n = i => Folding(Kc(n), EndOf(n))'
      <3> SUFFICES ASSUME NEW n, n = i PROVE Folding(Kc(n), EndOf(n))'
        OBVIOUS
      <3>1. Kc(n)' = Kc(n) /\ EndOf(n)' = EndOf(n)
        BY <1>4, <2>1
      <3>2. PICK K, v : K = Kc(n) /\ v = EndOf(n)
        OBVIOUS
      <3>3. todo' = <<RestoreCall, UpdateCall(v), SaveCall>> /\ Parked' = K
        BY <1>1, <2>1, <2>5, <2>6, <3>2 DEF FoldCalls
      <3>4. Folding(K, v)'
        BY <3>3 DEF Folding
      <3> QED  BY <3>1, <3>2, <3>4
    <2>8. QcOK'
      BY <1>3, <2>1, <2>3 DEF QcOK
    <2>9. CASE i + 1 < ots.p
      <3>1. i + 1 \in 0 .. ots.p - 1
        BY <2>2, <2>9
      <3>2. chain(pk.id, sig.q, i + 1, sig.y[(i + 1) + 1], Coef(qc, i + 1, ots.w),
                  Coef(qc, i + 1, ots.w)) = sig.y[(i + 1) + 1]
        BY <2>4, <3>1, ChainStart
      <3>3. ChainAt(i, j)' = tmp'
        BY <1>3, <2>1, <2>9, <3>2 DEF ChainAt
      <3>4. j' \in Coef(qc', i', ots'.w) .. ChainLen(ots')
        BY <1>3, <2>1, <2>4, <2>9, <3>1
      <3>5. LinksOK'
        BY <2>1, <2>9, <3>3, <3>4 DEF LinksOK
      <3>6. KcOK'
        <4>1. i' > 0 /\ i' - 1 = i
          BY <2>1, <2>2, <2>9
        <4>2. Folding(Kc(i - 1), EndOf(i - 1))'
          BY <2>7, <4>1
        <4> QED  BY <2>1, <2>9, <4>1, <4>2 DEF KcOK
      <3> QED  BY <1>2, <2>1, <2>8, <2>9, <3>5, <3>6 DEF DigestInv, HashingOK
    <2>10. CASE ~(i + 1 < ots.p)
      <3>1. ots'.p - 1 = i
        BY <1>3, <2>2, <2>10
      <3>2. Folding(Kc(ots.p - 1), EndOf(ots.p - 1))'
        BY <2>7, <3>1
      <3> QED  BY <1>2, <2>1, <2>8, <2>10, <3>2 DEF DigestInv, LinksOK, KcOK, HashingOK
    <2> QED  BY <2>9, <2>10
  <1>11. CASE CloseKc
    <2>1. /\ stage = "fold" /\ stage' = "kc" /\ UNCHANGED walk
          /\ todo' = <<RestoreCall, FinishCall>>
      BY <1>11 DEF CloseKc
    <2>2. qc' = qc
      BY <2>1 DEF walk
    <2>3. ots.p \in Nat \ {0}
      BY <2>1, ParsedSets DEF Inv, TypeOK
    <2>4. Parked' = Kc(ots.p)'
      BY <1>1, <1>3, <1>4, <2>1, <2>2, <2>3, ParkedWhenIdle
    <2>5. KcOK'
      BY <2>1, <2>4 DEF KcOK, Closing
    <2> QED  BY <1>2, <1>3, <2>1, <2>2, <2>5 DEF DigestInv, QcOK, LinksOK, HashingOK
  <1>12. CASE HashLeaf \/ Climb
    <2>1. stage \in {"kc", "climb"} /\ stage' = "climb" /\ UNCHANGED walk
      BY <1>12 DEF HashLeaf, Climb
    <2>2. qc' = qc
      BY <2>1 DEF walk
    <2> QED  BY <1>2, <1>3, <2>1, <2>2 DEF DigestInv, QcOK, LinksOK, KcOK, HashingOK
  <1> QED  BY <1>5, <1>6, <1>7, <1>8, <1>9, <1>10, <1>11, <1>12 DEF Verify

\* So does every call the backend serves.
LEMMA BackendDigests ==
    ASSUME DigestInv, BackendServes, Serve(Head(todo))
    PROVE  DigestInv'
  <1>1. UNCHANGED lmsVars /\ todo # <<>>
    BY Served
  <1>2. /\ UNCHANGED args /\ pk' = pk /\ sig' = sig /\ stage' = stage
        /\ qc' = qc /\ i' = i /\ j' = j /\ tmp' = tmp
    BY <1>1 DEF lmsVars, args, walk, control
  <1>3. ots' = ots /\ Mesg' = Mesg /\ \A h : Bytes(h)' = Bytes(h)
    BY <1>2, SameTerms
  <1>4. \A n, l : ChainAt(n, l)' = ChainAt(n, l) /\ EndOf(n)' = EndOf(n) /\ Kc(n)' = Kc(n)
    BY <1>2, SameTerms
  <1>5. DOMAIN ckpt = {"kc_state"} /\ QcOK /\ LinksOK /\ KcOK /\ HashingOK
    BY DEF DigestInv
  <1>6. DOMAIN ckpt' = {"kc_state"}
    BY <1>5 DEF BackendServes, Serve, Backend!Begin, Backend!Update, Backend!Finish, Backend!Save,
                Backend!Restore
  <1>7. QcOK'
    BY <1>2, <1>3, <1>5 DEF QcOK
  <1>8. LinksOK'
    <2>1. PICK n, m : n = i /\ m = j
      OBVIOUS
    <2>2. ChainAt(n, m)' = ChainAt(i, j)
      BY <1>4, <2>1
    <2>3. ChainAt(i, j)' = ChainAt(n, m)'
      BY <1>2, <2>1 DEF ChainAt
    <2> QED  BY <1>2, <1>3, <1>5, <2>2, <2>3 DEF LinksOK
  <1>9. HashingOK'
    <2>1. ASSUME stage = "message" PROVE Hashing(Mesg)'
      <3>1. Mesg \in Seq({pk.id, U32(sig.q), U16(D_MESG), sig.c, msg})
        BY DEF Mesg, MesgPreimage
      <3>2. PICK p : p = Mesg
        OBVIOUS
      <3>3. Hashing(p)
        BY <1>5, <2>1, <3>2 DEF HashingOK
      <3>4. Hashing(p)'
        BY <1>5, <3>1, <3>2, <3>3, BackendGoesOn
      <3> QED  BY <1>3, <3>2, <3>4
    <2>2. ASSUME stage = "link" PROVE Hashing(LinkPreimage(pk.id, sig.q, i, j, tmp))'
      <3>1. LinkPreimage(pk.id, sig.q, i, j, tmp) \in Seq({pk.id, U32(sig.q), U16(i), U8(j), tmp})
        BY DEF LinkPreimage
      <3>2. PICK p : p = LinkPreimage(pk.id, sig.q, i, j, tmp)
        OBVIOUS
      <3>3. Hashing(p)
        BY <1>5, <2>2, <3>2 DEF HashingOK
      <3>4. Hashing(p)'
        BY <1>5, <3>1, <3>2, <3>3, BackendGoesOn
      <3>5. LinkPreimage(pk.id, sig.q, i, j, tmp)' = p
        BY <1>2, <3>2 DEF LinkPreimage
      <3> QED  BY <3>4, <3>5
    <2> QED  BY <1>2, <2>1, <2>2 DEF HashingOK
  <1>10. KcOK'
    <2>1. ASSUME stage = "link", Parked = Kc(i) PROVE Parked' = Kc(i)'
      <3>1. LinkPreimage(pk.id, sig.q, i, j, tmp) \in Seq({pk.id, U32(sig.q), U16(i), U8(j), tmp})
        BY DEF LinkPreimage
      <3>2. UNCHANGED ckpt
        BY <1>5, <2>1, <3>1, BackendGoesOn DEF HashingOK
      <3> QED  BY <1>2, <1>4, <2>1, <3>2 DEF Parked
    <2>2. ASSUME stage = "kc" PROVE Closing(Kc(ots.p))'
      <3>1. PICK K : K = Kc(ots.p)
        OBVIOUS
      <3>2. Closing(K)'
        BY <1>5, <2>2, <3>1, KcGoesOn DEF KcOK
      <3> QED  BY <1>3, <1>4, <3>1, <3>2
    <2>3. ASSUME NEW n, Folding(Kc(n), EndOf(n)) PROVE Folding(Kc(n), EndOf(n))'
      <3>1. PICK K, v : K = Kc(n) /\ v = EndOf(n)
        OBVIOUS
      <3>2. Folding(K, v)'
        BY <1>5, <2>3, <3>1, KcGoesOn
      <3> QED  BY <1>4, <3>1, <3>2
    <2>4. ASSUME stage = "fold" PROVE Folding(Kc(ots.p - 1), EndOf(ots.p - 1))'
      BY <1>3, <1>5, <2>3, <2>4 DEF KcOK
    <2>5. ASSUME i = 0, Parking(Kc(0)) PROVE Parking(Kc(0))'
      <3>1. PblcPrefix(pk.id, sig.q) \in Seq({pk.id, U32(sig.q), U16(D_PBLC)})
        BY DEF PblcPrefix
      <3>2. Kc(0) = PblcPrefix(pk.id, sig.q)
        BY KcStep
      <3>3. PICK p : p = Kc(0)
        OBVIOUS
      <3>4. Parking(p)'
        BY <1>5, <2>5, <3>1, <3>2, <3>3, BackendGoesOn
      <3> QED  BY <1>4, <3>3, <3>4
    <2>6. ASSUME i > 0, Folding(Kc(i - 1), EndOf(i - 1)) PROVE Folding(Kc(i - 1), EndOf(i - 1))'
      BY <1>2, <2>3, <2>6
    <2> QED  BY <1>1, <1>2, <1>5, <2>1, <2>2, <2>4, <2>5, <2>6 DEF KcOK
  <1> QED  BY <1>6, <1>7, <1>8, <1>9, <1>10 DEF DigestInv

-----------------------------------------------------------------------------
\* What is known of every state.
VerifierInv == Inv /\ CaseOK /\ DigestInv

LEMMA VerifierInvInit == VerifyInit => VerifierInv
  BY InitInv, InitDigests DEF VerifyInit, VerifierInv

LEMMA VerifierInvNext == VerifierInv /\ [Next]_vars => VerifierInv'
  <1> SUFFICES ASSUME VerifierInv, [Next]_vars PROVE VerifierInv'
    OBVIOUS
  <1>1. Inv' /\ CaseOK'
    BY NextInv, ArgsKept, CaseKept DEF VerifierInv
  <1>2. CASE Verify /\ UNCHANGED <<cur, ckpt>>
    BY <1>1, <1>2, VerifyDigests DEF VerifierInv
  <1>3. CASE BackendServes /\ Serve(Head(todo))
    BY <1>1, <1>3, BackendDigests DEF VerifierInv
  <1>4. CASE UNCHANGED vars
    <2>1. UNCHANGED args /\ qc' = qc
      BY <1>4 DEF vars, lmsVars, walk
    <2>2. /\ ots' = ots /\ Mesg' = Mesg /\ \A h : Bytes(h)' = Bytes(h)
          /\ \A n, l : ChainAt(n, l)' = ChainAt(n, l) /\ EndOf(n)' = EndOf(n) /\ Kc(n)' = Kc(n)
      BY <2>1, SameTerms
    <2>3. /\ pk' = pk /\ sig' = sig /\ stage' = stage /\ i' = i /\ j' = j /\ tmp' = tmp
          /\ todo' = todo /\ out' = out /\ cur' = cur /\ ckpt' = ckpt
      BY <1>4 DEF vars, lmsVars, args, walk, control
    <2>4. ASSUME NEW p PROVE Hashing(p)' = Hashing(p) /\ Parking(p)' = Parking(p) /\ Closing(p)' = Closing(p)
      BY <2>3 DEF Hashing, Parking, Closing, Serving, Parked
    <2>5. ASSUME NEW p, NEW v PROVE Folding(p, v)' = Folding(p, v)
      BY <2>3 DEF Folding, Parked
    <2>6. QcOK' = QcOK
      BY <2>1, <2>2, <2>3 DEF QcOK
    <2>7. LinksOK' = LinksOK
      BY <2>1, <2>2, <2>3 DEF LinksOK, ChainAt
    <2>8. HashingOK' = HashingOK
      <3>1. PICK p, m : p = LinkPreimage(pk.id, sig.q, i, j, tmp) /\ m = Mesg
        OBVIOUS
      <3>2. LinkPreimage(pk.id, sig.q, i, j, tmp)' = p /\ Mesg' = m
        BY <2>2, <2>3, <3>1
      <3> QED  BY <2>3, <2>4, <3>1, <3>2 DEF HashingOK
    <2>9. KcOK' = KcOK
      <3>1. PICK zero, here, last, all, end, back, before : 
                /\ zero = Kc(0) /\ here = Kc(i) /\ all = Kc(ots.p)
                /\ last = Kc(ots.p - 1) /\ end = EndOf(ots.p - 1)
                /\ back = Kc(i - 1) /\ before = EndOf(i - 1)
        OBVIOUS
      <3>2. /\ zero = Kc(0)' /\ here = Kc(i)' /\ all = Kc(ots.p)'
            /\ last = Kc(ots.p - 1)' /\ end = EndOf(ots.p - 1)'
            /\ back = Kc(i - 1)' /\ before = EndOf(i - 1)'
        BY <2>2, <2>3, <3>1
      <3> QED  BY <2>3, <2>4, <2>5, <3>1, <3>2 DEF KcOK, Parked
    <2> QED  BY <1>1, <2>3, <2>6, <2>7, <2>8, <2>9 DEF VerifierInv, DigestInv
  <1> QED  BY <1>2, <1>3, <1>4 DEF Next

(***************************************************************************)
(* Kc is parked while the chains are hashed, for every table, every          *)
(* signature and every digest a caller may have left in the backend.        *)
(***************************************************************************)
THEOREM KcParked == Spec => []KcIsParked
  <1>1. VerifierInv => KcIsParked
    <2> SUFFICES ASSUME VerifierInv, stage = "walk", todo = <<>> PROVE Parked = Kc(i)
      BY DEF KcIsParked, Parked
    <2>1. i \in Nat
      BY ParsedSets DEF VerifierInv, Inv, TypeOK, WalkOK
    <2> QED  BY <2>1, ParkedWhenIdle DEF VerifierInv
  <1> QED  BY <1>1, VerifierInvInit, VerifierInvNext, PTL DEF Spec

-----------------------------------------------------------------------------
(***************************************************************************)
(* Inductive: the compressions noted so far, stage by stage.               *)
(***************************************************************************)
LinksOfQc == Links(qc, ots)
HeadCost == Compressions(MesgLen(msg.len)) + Compressions(PblcLen(ots))

WorkOK ==
    /\ stage = "parse" => work = 0
    /\ stage = "message" => work = Compressions(MesgLen(msg.len))
    /\ stage = "walk" => work = HeadCost + Total(LinksOfQc, i) + (j - Coef(qc, i, ots.w))
    /\ stage = "link" => work = HeadCost + Total(LinksOfQc, i) + (j - Coef(qc, i, ots.w)) + 1
    /\ stage \in {"fold", "kc"} => work = HeadCost + Total(LinksOfQc, ots.p)
    /\ stage = "climb" =>
        work = HeadCost + Total(LinksOfQc, ots.p) + Compressions(LeafLen) + k * Compressions(IntrLen)
    /\ stage # "done" => verdict = "none"

CostInv == WorkOK /\ CostIsExact

\* What is added up are numbers.
LEMMA CostTypes ==
    ASSUME VerifierInv, stage \notin {"parse", "done"}
    PROVE  /\ Compressions(MesgLen(msg.len)) \in Nat /\ Compressions(PblcLen(ots)) \in Nat
           /\ HeadCost \in Nat /\ Compressions(LeafLen) \in Nat /\ Compressions(IntrLen) \in Nat
           /\ ots \in Sets /\ ots.p \in Nat /\ ChainLen(ots) \in Nat
  <1>1. msg.len \in Nat
    BY LayoutAssumption DEF VerifierInv, CaseOK
  <1>2. ots \in Sets
    BY CoefOK DEF VerifierInv, Inv
  <1>3. ots.p \in Nat /\ ChainLen(ots) \in Nat
    BY <1>2, SetFacts
  <1> QED  BY <1>1, <1>2, <1>3, LengthsType, CompressionsType DEF HeadCost

LEMMA WalkTypes ==
    ASSUME VerifierInv, stage \in {"walk", "link", "fold", "kc", "climb"}
    PROVE  /\ \A n \in 0 .. ots.p - 1 :
                /\ LinksOfQc[n] = ChainLen(ots) - Coef(qc, n, ots.w)
                /\ Total(LinksOfQc, n + 1) = Total(LinksOfQc, n) + LinksOfQc[n]
                /\ Coef(qc, n, ots.w) \in Nat
           /\ \A n \in 0 .. ots.p : Total(LinksOfQc, n) \in Nat
           /\ Total(LinksOfQc, 0) = 0
  <1>1. ots \in Sets /\ qc = WithChecksum(Bytes(Hash(Mesg)), ots)
    BY CoefOK DEF VerifierInv, Inv, DigestInv, QcOK
  <1>2. Bytes(Hash(Mesg)) \in DigestBytes
    BY LayoutAssumption DEF VerifierInv, CaseOK, Bytes
  <1>3. \A n \in 0 .. ots.p - 1 : Coef(qc, n, ots.w) \in Nat
    <2>1. ChainLen(ots) \in Nat
      BY <1>1, SetFacts
    <2> QED  BY <1>1, <1>2, <2>1, Coefficients
  <1> QED  BY <1>1, <1>2, <1>3, LinkTotals DEF LinksOfQc

\* Each step notes what it has hashed.
LEMMA VerifyCost ==
    ASSUME VerifierInv, CostInv, Verify
    PROVE  CostInv'
  <1>0. /\ UNCHANGED args /\ pk' = pk /\ sig' = sig /\ msg' = msg /\ todo = <<>>
        /\ ots' = ots /\ lms' = lms
    BY DEF Verify, Reject, HashMessage, OpenKc, Link, Linked, Fold, CloseKc, HashLeaf, Climb,
           Compare, Returned, args, ots, lms
  <1>1. HeadCost' = HeadCost /\ (qc' = qc => LinksOfQc' = LinksOfQc)
    BY <1>0 DEF HeadCost, LinksOfQc
  <1>2. ParseError(pk, sig) \notin {"Ok", "Invalid"}
    BY DEF ParseError, SizeError, KeyError
  <1>3. WorkOK
    BY DEF CostInv
  <1>4. CASE Reject
    <2>1. stage' = "done" /\ verdict' = ParseError(pk, sig)
      BY <1>4 DEF Reject, Return
    <2> QED  BY <1>2, <2>1 DEF CostInv, WorkOK, CostIsExact
  <1>5. CASE HashMessage
    <2>1. /\ stage = "parse" /\ stage' = "message" /\ verdict' = verdict
          /\ work' = work + Compressions(MesgLen(msg.len))
      BY <1>5 DEF HashMessage, Call
    <2>2. Compressions(MesgLen(msg.len)) \in Nat
      <3>1. msg.len \in Nat
        BY LayoutAssumption DEF VerifierInv, CaseOK
      <3> QED  BY <3>1, LengthsType, CompressionsType
    <2> QED  BY <1>0, <1>3, <2>1, <2>2 DEF CostInv, WorkOK, CostIsExact
  <1>6. CASE OpenKc
    <2>1. /\ stage = "message" /\ stage' = "walk" /\ verdict' = verdict
          /\ work' = work + Compressions(PblcLen(ots))
          /\ i' = 0 /\ j' = Coef(qc', 0, ots.w)
      BY <1>6 DEF OpenKc, Call, StartChain
    <2>2. HeadCost \in Nat /\ 0 \in 0 .. ots.p - 1
      BY <2>1, CostTypes, ParsedSets DEF VerifierInv, Inv, TypeOK
    <2>3. work' = HeadCost
      BY <1>3, <2>1 DEF WorkOK, HeadCost
    <2>4. Coef(qc', 0, ots.w) \in 0 .. ChainLen(ots) /\ ChainLen(ots) \in Nat
      <3>1. qc' = WithChecksum(Bytes(out), ots)
        BY <1>6 DEF OpenKc
      <3> QED  BY <2>1, <2>2, <3>1, CoefOK, CostTypes DEF VerifierInv, Inv
    <2>5. Coef(qc', 0, ots.w) \in Nat /\ Total(LinksOfQc', 0) = 0
      BY <2>4, TotalStep
    <2>6. work' = HeadCost' + Total(LinksOfQc', i') + (j' - Coef(qc', i', ots'.w))
      BY <1>0, <1>1, <2>1, <2>2, <2>3, <2>5
    <2> QED  BY <1>3, <2>1, <2>6 DEF CostInv, WorkOK, CostIsExact
  <1>7. CASE Link
    <2>1. /\ stage = "walk" /\ stage' = "link" /\ verdict' = verdict /\ UNCHANGED walk
          /\ work' = work + 1
      BY <1>7, OneBlockAssumption DEF Link, Call
    <2>2. work' = HeadCost + Total(LinksOfQc, i) + (j - Coef(qc, i, ots.w)) + 1
      BY <1>3, <2>1 DEF WorkOK
    <2> QED  BY <1>0, <1>1, <1>3, <2>1, <2>2 DEF CostInv, WorkOK, CostIsExact, walk
  <1>8. CASE Linked
    <2>1. /\ stage = "link" /\ stage' = "walk" /\ verdict' = verdict /\ work' = work
          /\ qc' = qc /\ i' = i /\ j' = j + 1
      BY <1>8 DEF Linked
    <2>2. /\ i \in 0 .. ots.p /\ i \in 0 .. ots.p - 1
      BY <2>1, ParsedSets DEF VerifierInv, Inv, TypeOK, WalkOK
    <2>3. HeadCost \in Nat /\ Total(LinksOfQc, i) \in Nat /\ Coef(qc, i, ots.w) \in Nat
          /\ ChainLen(ots) \in Nat
      BY <2>1, <2>2, CostTypes, WalkTypes
    <2>4. j \in Int
      BY <2>1, <2>3 DEF VerifierInv, DigestInv, LinksOK
    <2>5. work' = HeadCost + Total(LinksOfQc, i) + ((j + 1) - Coef(qc, i, ots.w))
      BY <1>3, <2>1, <2>3, <2>4 DEF WorkOK
    <2> QED  BY <1>0, <1>1, <1>3, <2>1, <2>5 DEF CostInv, WorkOK, CostIsExact
  <1>9. CASE Fold
    <2>1. /\ stage = "walk" /\ verdict' = verdict /\ work' = work /\ qc' = qc /\ j >= ChainLen(ots)
          /\ IF i + 1 < ots.p
                THEN i' = i + 1 /\ j' = Coef(qc, i + 1, ots.w) /\ stage' = "walk"
                ELSE stage' = "fold"
      BY <1>9 DEF Fold, StartChain
    <2>2. i \in 0 .. ots.p /\ i \in 0 .. ots.p - 1
      BY <2>1, ParsedSets DEF VerifierInv, Inv, TypeOK, WalkOK
    <2>3. /\ HeadCost \in Nat /\ ChainLen(ots) \in Nat /\ ots.p \in Nat
          /\ Total(LinksOfQc, i) \in Nat /\ Coef(qc, i, ots.w) \in Nat
          /\ LinksOfQc[i] = ChainLen(ots) - Coef(qc, i, ots.w)
          /\ Total(LinksOfQc, i + 1) = Total(LinksOfQc, i) + LinksOfQc[i]
      BY <2>1, <2>2, CostTypes, WalkTypes
    <2>4. j = ChainLen(ots)
      BY <2>1, <2>3 DEF VerifierInv, DigestInv, LinksOK
    <2>5. work' = HeadCost + Total(LinksOfQc, i + 1)
      BY <1>3, <2>1, <2>3, <2>4 DEF WorkOK
    <2>6. CASE i + 1 < ots.p
      <3>1. i + 1 \in 0 .. ots.p /\ i + 1 \in 0 .. ots.p - 1
        BY <2>2, <2>3, <2>6
      <3>2. Total(LinksOfQc, i + 1) \in Nat /\ Coef(qc, i + 1, ots.w) \in Nat
        BY <2>1, <3>1, WalkTypes
      <3>3. work' = HeadCost + Total(LinksOfQc, i') + (j' - Coef(qc, i', ots.w))
        BY <2>1, <2>3, <2>5, <2>6, <3>2
      <3> QED  BY <1>0, <1>1, <1>3, <2>1, <2>6, <3>3 DEF CostInv, WorkOK, CostIsExact
    <2>7. CASE ~(i + 1 < ots.p)
      <3>1. i + 1 = ots.p
        BY <2>2, <2>3, <2>7
      <3> QED  BY <1>0, <1>1, <1>3, <2>1, <2>5, <2>7, <3>1 DEF CostInv, WorkOK, CostIsExact
    <2> QED  BY <2>6, <2>7
  <1>10. CASE CloseKc
    <2>1. /\ stage = "fold" /\ stage' = "kc" /\ verdict' = verdict /\ work' = work /\ qc' = qc
      BY <1>10 DEF CloseKc, walk
    <2> QED  BY <1>0, <1>1, <1>3, <2>1 DEF CostInv, WorkOK, CostIsExact
  <1>11. CASE HashLeaf
    <2>1. /\ stage = "kc" /\ stage' = "climb" /\ verdict' = verdict /\ qc' = qc /\ k' = 0
          /\ work' = work + Compressions(LeafLen)
      BY <1>11 DEF HashLeaf, Call, walk
    <2>2. /\ HeadCost \in Nat /\ Total(LinksOfQc, ots.p) \in Nat
          /\ Compressions(LeafLen) \in Nat /\ Compressions(IntrLen) \in Nat
      <3>1. ots.p \in 0 .. ots.p
        BY <2>1, CostTypes
      <3> QED  BY <2>1, <3>1, CostTypes, WalkTypes
    <2>3. work = HeadCost + Total(LinksOfQc, ots.p)
      BY <1>3, <2>1 DEF WorkOK
    <2>4. work' = HeadCost + Total(LinksOfQc, ots.p) + Compressions(LeafLen) + k' * Compressions(IntrLen)
      BY <2>1, <2>2, <2>3
    <2> QED  BY <1>0, <1>1, <1>3, <2>1, <2>4 DEF CostInv, WorkOK, CostIsExact
  <1>12. CASE Climb
    <2>1. /\ stage = "climb" /\ stage' = "climb" /\ verdict' = verdict /\ qc' = qc /\ k' = k + 1
          /\ work' = work + Compressions(IntrLen)
      BY <1>12 DEF Climb, Call, walk
    <2>2. /\ HeadCost \in Nat /\ Total(LinksOfQc, ots.p) \in Nat
          /\ Compressions(LeafLen) \in Nat /\ Compressions(IntrLen) \in Nat
      <3>1. ots.p \in 0 .. ots.p
        BY <2>1, CostTypes
      <3> QED  BY <2>1, <3>1, CostTypes, WalkTypes
    <2>3. k \in Nat
      BY <2>1, ParsedSets DEF VerifierInv, Inv, TypeOK, ClimbOK
    <2>4. work = HeadCost + Total(LinksOfQc, ots.p) + Compressions(LeafLen) + k * Compressions(IntrLen)
      BY <1>3, <2>1 DEF WorkOK
    <2>5. (k + 1) * Compressions(IntrLen) = k * Compressions(IntrLen) + Compressions(IntrLen)
      BY <2>2, <2>3
    <2>6. k * Compressions(IntrLen) \in Nat
      BY <2>2, <2>3
    <2>7. work' = HeadCost + Total(LinksOfQc, ots.p) + Compressions(LeafLen) + k' * Compressions(IntrLen)
      BY <2>1, <2>2, <2>4, <2>5, <2>6
    <2> QED  BY <1>0, <1>1, <1>3, <2>1, <2>7 DEF CostInv, WorkOK, CostIsExact
  <1>13. CASE Compare
    <2>1. stage = "climb" /\ stage' = "done" /\ node <= 1 /\ work' = work /\ qc' = qc
      BY <1>13 DEF Compare, Return, walk
    <2>2. k = lms.h /\ lms.h \in Nat
      BY <2>1, ClimbIsInPath, ParsedSets DEF VerifierInv, Inv, TypeOK
    <2>3. qc = WithChecksum(Bytes(Hash(Mesg)), ots)
      BY <2>1 DEF VerifierInv, DigestInv, QcOK
    <2>4. work = HeadCost + Total(LinksOfQc, ots.p) + Compressions(LeafLen) + k * Compressions(IntrLen)
      BY <1>3, <2>1 DEF WorkOK
    <2>5. /\ HeadCost \in Nat /\ Total(LinksOfQc, ots.p) \in Nat
          /\ Compressions(LeafLen) \in Nat /\ Compressions(IntrLen) \in Nat
          /\ Compressions(MesgLen(msg.len)) \in Nat /\ Compressions(PblcLen(ots)) \in Nat
      <3>1. ots.p \in 0 .. ots.p
        BY <2>1, CostTypes
      <3> QED  BY <2>1, <3>1, CostTypes, WalkTypes
    <2>6. VerificationCost(qc, ots, lms, msg.len)
            = (HeadCost + Compressions(LeafLen) + lms.h * Compressions(IntrLen)) + Total(LinksOfQc, ots.p)
      BY DEF VerificationCost, FixedCost, ChainCost, LinksOfQc, HeadCost
    <2>7. lms.h * Compressions(IntrLen) \in Nat
      BY <2>2, <2>5
    <2>8. work = VerificationCost(qc, ots, lms, msg.len)
      BY <2>2, <2>4, <2>5, <2>6, <2>7
    <2>9. work' = VerificationCost(WithChecksum(Bytes(Hash(Mesg)), ots), ots, lms, msg.len)
      BY <2>1, <2>3, <2>8
    <2>10. CostIsExact'
      <3>1. Bytes(Hash(Mesg))' = Bytes(Hash(Mesg))
        BY <1>0, SameTerms DEF Bytes, args
      <3> QED  BY <1>0, <2>9, <3>1 DEF CostIsExact, Mesg
    <2> QED  BY <2>1, <2>10 DEF CostInv, WorkOK
  <1> QED  BY <1>4, <1>5, <1>6, <1>7, <1>8, <1>9, <1>10, <1>11, <1>12, <1>13 DEF Verify

(***************************************************************************)
(* A verification takes the compressions verification_cost predicts for it, *)
(* on every parameter set whose links fit a block.                         *)
(***************************************************************************)
THEOREM CostPredicted == Spec => []CostIsExact
  <1>1. VerifyInit => CostInv
    BY DEF VerifyInit, Init, CostInv, WorkOK, CostIsExact
  <1>2. VerifierInv /\ CostInv /\ [Next]_vars => CostInv'
    <2> SUFFICES ASSUME VerifierInv, CostInv, [Next]_vars PROVE CostInv'
      OBVIOUS
    <2>1. CASE Verify
      BY <2>1, VerifyCost
    <2>2. CASE BackendServes \/ UNCHANGED vars
      <3>1. UNCHANGED lmsVars
        BY <2>2 DEF BackendServes, vars
      <3>2. /\ UNCHANGED <<pk, msg, sig, oracle, qc, i, j, k, work, stage, verdict>>
            /\ ots' = ots /\ lms' = lms
        BY <3>1 DEF lmsVars, args, walk, climb, control, ots, lms
      <3>3. HeadCost' = HeadCost /\ LinksOfQc' = LinksOfQc
        BY <3>2 DEF HeadCost, LinksOfQc
      <3>4. WorkOK'
        BY <3>2, <3>3 DEF CostInv, WorkOK
      <3>5. CostIsExact'
        BY <3>2 DEF CostInv, CostIsExact, Bytes
      <3> QED  BY <3>4, <3>5 DEF CostInv
    <2> QED  BY <2>1, <2>2 DEF Next
  <1>3. CostInv => CostIsExact
    BY DEF CostInv
  <1> QED  BY <1>1, <1>2, <1>3, VerifierInvInit, VerifierInvNext, PTL DEF Spec

(***************************************************************************)
(* And what a boot budget allows for is never exceeded: the work lies       *)
(* between the bounds verification_cost_bounds gives, for every table.      *)
(***************************************************************************)
THEOREM CostInBounds == Spec => []CostIsBounded
  <1>1. VerifierInv /\ OkParsed /\ CostIsExact => CostIsBounded
    <2> SUFFICES ASSUME VerifierInv, OkParsed, CostIsExact, verdict \in {"Ok", "Invalid"}
                 PROVE  work \in BoundsMin(ots, lms, msg.len) .. BoundsMax(ots, lms, msg.len)
      BY DEF CostIsBounded, Bounds
    <2>1. ots \in Sets /\ lms.h \in Nat
      BY ParsedSets DEF VerifierInv, Inv, OkParsed, ots, Sets
    <2>2. msg.len \in Nat /\ Bytes(Hash(Mesg)) \in DigestBytes
      BY LayoutAssumption DEF VerifierInv, CaseOK, Bytes
    <2> DEFINE walked == Total(Links(WithChecksum(Bytes(Hash(Mesg)), ots), ots), ots.p)
               fixed == FixedCost(ots, lms, msg.len)
               most == ots.p * ChainLen(ots)
               saving == MaxChecksumSaving(ots)
    <2>3. work = fixed + walked
      BY DEF CostIsExact, VerificationCost, ChainCost, Mesg
    <2>4. walked \in Nat /\ walked <= most - saving
      BY <2>1, <2>2, LinksBounded
    <2>5. fixed \in Nat
      <3>1. /\ Compressions(MesgLen(msg.len)) \in Nat /\ Compressions(PblcLen(ots)) \in Nat
            /\ Compressions(LeafLen) \in Nat /\ Compressions(IntrLen) \in Nat
        BY <2>1, <2>2, LengthsType, CompressionsType
      <3>2. lms.h * Compressions(IntrLen) \in Nat
        BY <2>1, <3>1
      <3> QED  BY <3>1, <3>2 DEF FixedCost
    <2>6. most \in Nat /\ saving \in Int
      <3>1. most \in Nat
        BY <2>1, SetFacts
      <3>2. saving \in Nat
        BY <2>1, SavingType
      <3> QED  BY <3>1, <3>2
    <2>7. BoundsMin(ots, lms, msg.len) = fixed /\ BoundsMax(ots, lms, msg.len) = fixed + most - saving
      BY DEF BoundsMin, BoundsMax
    <2> HIDE DEF walked, fixed, most, saving
    <2> QED  BY <2>3, <2>4, <2>5, <2>6, <2>7
  <1>2. VerifyInit => OkParsed
    BY DEF VerifyInit, Init, OkParsed
  <1> QED  BY <1>1, <1>2, OkParsedKept, InvHolds, CostPredicted, VerifierInvInit, VerifierInvNext, PTL DEF Spec

-----------------------------------------------------------------------------
\* The nodes between a leaf and the root.
LEMMA PathNodeStep ==
    ASSUME NEW key
    PROVE  /\ PathNode(key, 0) = Pow2(key.lms.h) + key.leaf
           /\ \A d \in Nat : PathNode(key, d + 1) = PathNode(key, d) \div 2
  <1> DEFINE base == Pow2(key.lms.h) + key.leaf
             halves(r) == r = [m \in Nat |-> IF m = 0 THEN base ELSE r[m - 1] \div 2]
             r == CHOOSE r : halves(r)
  <1>1. \E f : halves(f)
    <2> HIDE DEF base
    <2> DEFINE rule == [does |-> "halve"]
    <2>1. \A m, v : Turn(rule, m, v) = v \div 2
      BY DEF Turn
    <2> HIDE DEF rule
    <2>2. PICK f : Loops(f, rule, base)
      BY LoopIsDefined
    <2> QED  BY <2>1, <2>2 DEF Loops
  <1>2. halves(r)
    BY <1>1
  <1>3. \A d : PathNode(key, d) = r[d]
    BY DEF PathNode
  <1> HIDE DEF r
  <1>4. r[0] = base /\ \A d \in Nat : r[d + 1] = r[d] \div 2
    BY <1>2
  <1> QED  BY <1>3, <1>4

\* A key of the table.
LEMMA KeyFacts ==
    ASSUME NEW key \in Keys
    PROVE  /\ key.lms.h \in Nat /\ key.leaf \in Nat /\ key.leaf < Pow2(key.lms.h)
           /\ Pow2(key.lms.h) \in Nat \ {0}
  <1>1. key.lms.h \in Nat /\ key.leaf \in 0 .. Pow2(key.lms.h) - 1
    BY KeysAssumption, TableAssumption DEF Capacity
  <1>2. Pow2(key.lms.h) \in Nat \ {0}
    BY <1>1, Pow2Type
  <1> QED  BY <1>1, <1>2

\* Above the leaves they are inner nodes, for as long as there are levels.
LEMMA PathNodeRange ==
    ASSUME NEW key \in Keys
    PROVE  /\ \A d \in 0 .. key.lms.h : PathNode(key, d) \in Nat
           /\ \A d \in 1 .. key.lms.h : PathNode(key, d) < Pow2(key.lms.h)
  <1> DEFINE leaves == Pow2(key.lms.h)
             node_(d) == PathNode(key, d)
             S == {d \in Nat : /\ node_(d) \in Nat
                               /\ IF d = 0 THEN node_(d) < 2 * leaves ELSE node_(d) < leaves}
  <1>1. leaves \in Nat \ {0} /\ node_(0) = leaves + key.leaf /\ key.leaf \in Nat /\ key.leaf < leaves
    BY KeyFacts, PathNodeStep
  <1>2. \A d \in Nat : node_(d + 1) = node_(d) \div 2
    BY PathNodeStep
  <1> HIDE DEF leaves, node_
  <1>3. 0 \in S
    BY <1>1
  <1>4. ASSUME NEW d \in S PROVE d + 1 \in S
    <2>1. node_(d) \in Nat /\ node_(d) < 2 * leaves
      BY <1>1
    <2>2. node_(d + 1) = node_(d) \div 2
      BY <1>2
    <2>3. node_(d) \div 2 \in Nat /\ node_(d) \div 2 < leaves
      BY <1>1, <2>1
    <2> QED  BY <2>2, <2>3
  <1> HIDE DEF S
  <1>5. \A d \in Nat : d \in S
    <2>1. S \in SUBSET Nat
      BY DEF S
    <2> QED  BY <1>3, <1>4, <2>1, Induction
  <1>6. key.lms.h \in Nat
    BY KeyFacts
  <1> QED  BY <1>5, <1>6 DEF S, leaves, node_

\* What a node of the tree is made of, when f has its children.
NodeOf(key, n, f) ==
    IF ~OnPath(key, n) THEN <<"node", n>>
    ELSE IF n >= Pow2(key.lms.h)
        THEN Hash(<<key.id, U32(n), U16(D_LEAF), LeafKey(key)>>)
        ELSE Hash(<<key.id, U32(n), U16(D_INTR), f[2 * n], f[2 * n + 1]>>)

\* The tree can be filled in from its last node to its first.
LEMMA TreeDefined ==
    ASSUME NEW key, Pow2(key.lms.h) \in Nat \ {0}
    PROVE  \E f : f = [n \in 1 .. 2 * Pow2(key.lms.h) - 1 |-> NodeOf(key, n, f)]
  <1> DEFINE leaves == Pow2(key.lms.h)
             D == 1 .. 2 * leaves - 1
             from(b, f) == f = [n \in D |-> f[n]] /\ \A n \in D : n >= b => f[n] = NodeOf(key, n, f)
             S == {l \in Nat : \E f : from(2 * leaves - l, f)}
  <1>1. leaves \in Nat \ {0}
    OBVIOUS
  <1>a. ASSUME NEW f, NEW g, NEW n \in D,
               n < leaves => f[2 * n] = g[2 * n] /\ f[2 * n + 1] = g[2 * n + 1]
        PROVE  NodeOf(key, n, f) = NodeOf(key, n, g)
    BY <1>1, <1>a DEF NodeOf
  <1> HIDE DEF leaves
  <1>2. 0 \in S
    <2>1. from(2 * leaves - 0, [n \in D |-> 0])
      BY <1>1
    <2> QED  BY <2>1
  <1>3. ASSUME NEW l \in S PROVE l + 1 \in S
    <2> DEFINE b == 2 * leaves - (l + 1)
    <2>1. PICK f : from(2 * leaves - l, f)
      OBVIOUS
    <2>2. b \in Int /\ 2 * leaves - l = b + 1
      BY <1>1
    <2> HIDE DEF b
    <2> DEFINE g == [n \in D |-> IF n = b THEN NodeOf(key, b, f) ELSE f[n]]
    <2>3. \A n \in D : n # b => g[n] = f[n]
      OBVIOUS
    <2>4. b \in D => g[b] = NodeOf(key, b, f)
      OBVIOUS
    <2>5. g = [n \in D |-> g[n]]
      OBVIOUS
    <2> HIDE DEF g
    <2>6. ASSUME NEW n \in D, n >= b PROVE NodeOf(key, n, f) = NodeOf(key, n, g)
      <3>1. ASSUME n < leaves PROVE f[2 * n] = g[2 * n] /\ f[2 * n + 1] = g[2 * n + 1]
        <4>1. 2 * n \in D /\ 2 * n + 1 \in D /\ 2 * n # b /\ 2 * n + 1 # b
          BY <1>1, <2>2, <2>6, <3>1
        <4> QED  BY <2>3, <4>1
      <3> QED  BY <1>a, <3>1
    <2>7. ASSUME NEW n \in D, n >= b PROVE g[n] = NodeOf(key, n, g)
      <3>1. CASE n = b
        BY <2>4, <2>6, <2>7, <3>1
      <3>2. CASE n # b
        <4>1. n >= b + 1
          BY <1>1, <2>2, <2>7, <3>2
        <4>2. f[n] = NodeOf(key, n, f)
          BY <2>1, <2>2, <4>1
        <4> QED  BY <2>3, <2>6, <2>7, <3>2, <4>2
      <3> QED  BY <3>1, <3>2
    <2>8. from(b, g)
      BY <2>5, <2>7
    <2>9. l + 1 \in Nat
      OBVIOUS
    <2> QED  BY <2>8, <2>9 DEF b
  <1> HIDE DEF S
  <1>4. \A l \in Nat : l \in S
    <2>1. S \in SUBSET Nat
      BY DEF S
    <2> QED  BY <1>2, <1>3, <2>1, Induction
  <1>5. PICK f : from(2 * leaves - 2 * leaves, f)
    <2>1. 2 * leaves \in S
      BY <1>1, <1>4
    <2> QED  BY <2>1 DEF S
  <1>6. \A n \in D : f[n] = NodeOf(key, n, f)
    BY <1>1, <1>5
  <1>7. f = [n \in D |-> NodeOf(key, n, f)]
    BY <1>5, <1>6
  <1> QED  BY <1>7 DEF leaves

LEMMA TreeNodeIs ==
    ASSUME NEW key, Pow2(key.lms.h) \in Nat \ {0}, NEW n \in 1 .. 2 * Pow2(key.lms.h) - 1
    PROVE  TreeNode(key, n) =
                IF ~OnPath(key, n) THEN <<"node", n>>
                ELSE IF n >= Pow2(key.lms.h)
                    THEN Hash(<<key.id, U32(n), U16(D_LEAF), LeafKey(key)>>)
                    ELSE Hash(<<key.id, U32(n), U16(D_INTR),
                                TreeNode(key, 2 * n), TreeNode(key, 2 * n + 1)>>)
  <1> DEFINE D == 1 .. 2 * Pow2(key.lms.h) - 1
             tree(f) == f = [m \in D |-> NodeOf(key, m, f)]
             f == CHOOSE f : tree(f)
  <1>1. tree(f)
    BY TreeDefined
  <1>2. \A m : TreeNode(key, m) = f[m]
    BY DEF TreeNode, NodeOf
  <1> HIDE DEF f
  <1>3. f[n] = NodeOf(key, n, f)
    BY <1>1
  <1> QED  BY <1>2, <1>3 DEF NodeOf

-----------------------------------------------------------------------------
\* Two chains with the same end met at every link before it: a value that a
\* chain is continued from is the value it has there.
LEMMA ChainBack ==
    ASSUME NEW id, NEW q, NEW n, NEW y, NEW x, NEW c \in Nat, NEW l \in Nat, c <= l
    PROVE  chain(id, q, n, y, c, l) = chain(id, q, n, x, 0, l) <=> y = chain(id, q, n, x, 0, c)
  <1> DEFINE up(m) == chain(id, q, n, y, c, m)
             all(m) == chain(id, q, n, x, 0, m)
             S == {m \in Nat : up(c + m) = all(c + m) <=> y = all(c)}
  <1>1. up(c) = y
    BY ChainStart
  <1>2. ASSUME NEW m \in Nat
        PROVE  /\ up(c + (m + 1)) = Hash(<<id, U32(q), U16(n), U8(c + m), up(c + m)>>)
               /\ all(c + (m + 1)) = Hash(<<id, U32(q), U16(n), U8(c + m), all(c + m)>>)
    <2>1. /\ c + (m + 1) = (c + m) + 1 /\ c + m \in Int /\ c + m >= c /\ c + m >= 0
          /\ c \in Int /\ 0 \in Int
      OBVIOUS
    <2>2. up((c + m) + 1) = Hash(<<id, U32(q), U16(n), U8(c + m), up(c + m)>>)
      BY <2>1, ChainStep
    <2>3. all((c + m) + 1) = Hash(<<id, U32(q), U16(n), U8(c + m), all(c + m)>>)
      BY <2>1, ChainStep
    <2> QED  BY <2>1, <2>2, <2>3
  <1> HIDE DEF up, all
  <1>3. 0 \in S
    BY <1>1
  <1>4. ASSUME NEW m \in S PROVE m + 1 \in S
    BY <1>2 DEF Hash
  <1> HIDE DEF S
  <1>5. \A m \in Nat : m \in S
    <2>1. S \in SUBSET Nat
      BY DEF S
    <2> QED  BY <1>3, <1>4, <2>1, Induction
  <1>6. l - c \in S /\ c + (l - c) = l
    BY <1>5
  <1>7. up(l) = all(l) <=> y = all(c)
    BY <1>6 DEF S
  <1> QED  BY <1>7 DEF up, all

\* So the key of the leaf comes out exactly when every chain was started from
\* a value of its own.
ChainsOf(key) ==
    \A n \in 1 .. ots.p : sig.y[n] = ChainValue(key, n - 1, Coef(qc, n - 1, ots.w))

LEMMA SameSets ==
    ASSUME NEW key \in Keys, pk = PublicKey(key)
    PROVE  ots = key.ots /\ lms = key.lms /\ pk.id = key.id /\ pk.root = TreeNode(key, 1)
  BY KeysAssumption DEF PublicKey, ots, lms

LEMMA LeafIsRight ==
    ASSUME VerifierInv, stage = "kc", NEW key \in Keys, pk = PublicKey(key), sig.q = key.leaf
    PROVE  Hash(Kc(ots.p)) = LeafKey(key) <=> ChainsOf(key)
  <1> DEFINE prefix == <<pk.id, U32(sig.q), U16(D_PBLC)>>
             mine == [m \in 1 .. ots.p |-> ChainAt(m - 1, ChainLen(ots))]
             keys == [m \in 1 .. ots.p |-> ChainValue(key, m - 1, ChainLen(ots))]
  <1>1. ots = key.ots /\ pk.id = key.id
    BY SameSets
  <1>2. ots.p \in Nat /\ ChainLen(ots) \in Nat
    BY CostTypes
  <1>3. Kc(ots.p) = prefix \o mine
    BY DEF Kc, PblcPrefix
  <1>4. LeafKey(key) = Hash(prefix \o keys)
    BY <1>1 DEF LeafKey
  <1>5. prefix \o mine = prefix \o keys <=> mine = keys
    <2> DEFINE S == {mine[m] : m \in 1 .. ots.p} \cup {keys[m] : m \in 1 .. ots.p}
                    \cup {prefix[1], prefix[2], prefix[3]}
    <2>1. prefix \in Seq(S)
      OBVIOUS
    <2>2. mine \in [1 .. ots.p -> S] /\ keys \in [1 .. ots.p -> S]
      OBVIOUS
    <2> HIDE DEF S, mine, keys, prefix
    <2>3. \A s : s \in [1 .. ots.p -> S] => s \in Seq(S)
      BY <1>2, SeqDef
    <2>4. mine \in Seq(S) /\ keys \in Seq(S)
      BY <2>2, <2>3
    <2> QED  BY <2>1, <2>4, ConcatSimplifications
  <1>6. mine = keys <=> \A m \in 1 .. ots.p : mine[m] = keys[m]
    OBVIOUS
  <1>7. ASSUME NEW m \in 1 .. ots.p
        PROVE  mine[m] = keys[m] <=> sig.y[m] = ChainValue(key, m - 1, Coef(qc, m - 1, ots.w))
    <2>1. m - 1 \in 0 .. ots.p - 1 /\ (m - 1) + 1 = m
      BY <1>2
    <2>2. Coef(qc, m - 1, ots.w) \in Nat /\ Coef(qc, m - 1, ots.w) <= ChainLen(ots)
      <3>1. qc = WithChecksum(Bytes(Hash(Mesg)), ots)
        BY DEF VerifierInv, DigestInv, QcOK
      <3>2. Coef(qc, m - 1, ots.w) \in 0 .. ChainLen(ots)
        BY <2>1, <3>1, CoefOK DEF VerifierInv, Inv
      <3> QED  BY <1>2, <3>2
    <2> DEFINE c == Coef(qc, m - 1, ots.w)
               L == ChainLen(ots)
    <2>3. mine[m] = chain(pk.id, sig.q, m - 1, sig.y[m], c, L)
      BY <2>1 DEF ChainAt
    <2>4. /\ keys[m] = chain(pk.id, sig.q, m - 1, Secret(key.leaf, m - 1), 0, L)
          /\ ChainValue(key, m - 1, c) = chain(pk.id, sig.q, m - 1, Secret(key.leaf, m - 1), 0, c)
      BY <1>1 DEF ChainValue
    <2>5. c \in Nat /\ L \in Nat /\ c <= L
      BY <1>2, <2>2
    <2> HIDE DEF c, L, mine, keys
    <2>6. mine[m] = keys[m] <=> sig.y[m] = ChainValue(key, m - 1, c)
      BY <2>3, <2>4, <2>5, ChainBack
    <2> QED  BY <2>6 DEF c, mine, keys
  <1>8. mine = keys <=> ChainsOf(key)
    <2> HIDE DEF mine, keys
    <2> QED  BY <1>6, <1>7 DEF ChainsOf
  <1> HIDE DEF mine, keys, prefix
  <1> QED  BY <1>3, <1>4, <1>5, <1>8 DEF Hash

-----------------------------------------------------------------------------
(***************************************************************************)
(* Inductive: what the climb hashes comes out as the node of a key's tree   *)
(* it has got to exactly when everything used so far is that key's own.     *)
(***************************************************************************)
GoodUpTo(key, d) ==
    /\ sig.q = key.leaf
    /\ ChainsOf(key)
    /\ \A e \in 1 .. d : sig.path[e] = TreeNode(key, Sibling(PathNode(key, e - 1)))

Climbs(key, p) ==
    /\ sig.q = key.leaf => node = PathNode(key, k)
    /\ Hash(p) = TreeNode(key, node) <=> GoodUpTo(key, k)

ClimbRight ==
    stage = "climb" =>
        /\ node \in 1 .. 2 * Pow2(lms.h) - 1
        /\ \E T : \E p \in Seq(T) :
            /\ Hashing(p)
            /\ p[1] = pk.id
            /\ \A key \in Keys : pk = PublicKey(key) => Climbs(key, p)

\* Numbers of nodes.
LEMMA NodeTypes ==
    ASSUME VerifierInv, stage \in {"kc", "climb"}
    PROVE  /\ lms.h \in Nat /\ Pow2(lms.h) \in Nat \ {0}
           /\ sig.q \in Nat /\ sig.q < Pow2(lms.h)
  <1>1. /\ pk.lmsType \in DOMAIN Lms /\ lms.h \in Nat
        /\ sig.q \in Nat /\ ~(sig.q >= Pow2(lms.h))
    BY ParsedSets DEF VerifierInv, Inv, TypeOK, Capacity
  <1>2. Pow2(lms.h) \in Nat \ {0}
    BY <1>1, Pow2Type
  <1> QED  BY <1>1, <1>2

\* The leaf: on a key's own path exactly when it is the key's.
LEMMA StartsRight ==
    ASSUME VerifierInv, stage = "kc", NEW key \in Keys, pk = PublicKey(key),
           NEW r, r = Pow2(lms.h) + sig.q
    PROVE  /\ sig.q = key.leaf => r = PathNode(key, 0)
           /\ Hash(LeafPreimage(pk.id, r, Hash(Kc(ots.p)))) = TreeNode(key, r) <=> GoodUpTo(key, 0)
  <1>1. ots = key.ots /\ lms = key.lms /\ pk.id = key.id
    BY SameSets
  <1>2. /\ lms.h \in Nat /\ Pow2(lms.h) \in Nat \ {0} /\ sig.q \in Nat /\ sig.q < Pow2(lms.h)
    BY NodeTypes
  <1>3. r \in 1 .. 2 * Pow2(lms.h) - 1 /\ r >= Pow2(lms.h)
    BY <1>2
  <1>4. PathNode(key, 0) = Pow2(lms.h) + key.leaf /\ key.leaf \in Nat
    BY <1>1, PathNodeStep, KeyFacts
  <1>5. GoodUpTo(key, 0) <=> sig.q = key.leaf /\ ChainsOf(key)
    BY DEF GoodUpTo
  <1>6. CASE sig.q = key.leaf
    <2>1. OnPath(key, r)
      BY <1>1, <1>2, <1>4, <1>6 DEF OnPath
    <2>2. TreeNode(key, r) = Hash(<<pk.id, U32(r), U16(D_LEAF), LeafKey(key)>>)
      BY <1>1, <1>2, <1>3, <2>1, TreeNodeIs
    <2>3. Hash(Kc(ots.p)) = LeafKey(key) <=> ChainsOf(key)
      BY <1>6, LeafIsRight
    <2> QED  BY <1>4, <1>5, <1>6, <2>2, <2>3 DEF LeafPreimage, Hash
  <1>7. CASE sig.q # key.leaf
    <2>1. ~OnPath(key, r)
      <3> SUFFICES ASSUME NEW d \in 0 .. lms.h, r = PathNode(key, d) PROVE FALSE
        BY <1>1 DEF OnPath
      <3>1. CASE d = 0
        BY <1>2, <1>4, <1>7, <3>1
      <3>2. CASE d # 0
        <4>1. d \in 1 .. key.lms.h
          BY <1>1, <1>2, <3>2
        <4>2. PathNode(key, d) < Pow2(lms.h) /\ PathNode(key, d) \in Nat
          BY <1>1, <4>1, PathNodeRange
        <4> QED  BY <1>2, <1>3, <4>2
      <3> QED  BY <3>1, <3>2
    <2>2. TreeNode(key, r) = <<"node", r>>
      BY <1>1, <1>2, <1>3, <2>1, TreeNodeIs
    <2> QED  BY <1>5, <1>7, <2>2 DEF Hash
  <1> QED  BY <1>6, <1>7

\* The preimage of a parent, field by field.
LEMMA IntrFields ==
    ASSUME NEW id, NEW n, NEW v, NEW s
    PROVE  IntrPreimage(id, n, v, s) =
                <<id, U32(n \div 2), U16(D_INTR),
                  IF n % 2 = 1 THEN s ELSE v, IF n % 2 = 1 THEN v ELSE s>>
  <1>1. ASSUME NEW a, NEW b, NEW c, NEW d, NEW e
        PROVE  <<a, b, c>> \o <<d, e>> = <<a, b, c, d, e>>
    <2> DEFINE S == {a, b, c, d, e}
    <2>1. <<a, b, c>> \in Seq(S) /\ <<d, e>> \in Seq(S) /\ <<a, b, c, d, e>> \in Seq(S)
      OBVIOUS
    <2>2. <<a, b, c>> \o <<d, e>> \in Seq(S) /\ Len(<<a, b, c>> \o <<d, e>>) = 5
      BY <2>1
    <2>3. \A m \in 1 .. 5 : (<<a, b, c>> \o <<d, e>>)[m] = <<a, b, c, d, e>>[m]
      BY <2>1
    <2> QED  BY <2>1, <2>2, <2>3, SeqEqual
  <1>2. CASE n % 2 = 1
    BY <1>1, <1>2 DEF IntrPreimage
  <1>3. CASE n % 2 # 1
    BY <1>1, <1>3 DEF IntrPreimage
  <1> QED  BY <1>2, <1>3

\* A level up: the parent comes out right exactly when the node and the
\* sibling did.
LEMMA GoesOnRight ==
    ASSUME VerifierInv, stage = "climb", node \in 1 .. 2 * Pow2(lms.h) - 1, node > 1,
           NEW key \in Keys, pk = PublicKey(key), NEW p, Climbs(key, p)
    PROVE  /\ sig.q = key.leaf => node \div 2 = PathNode(key, k + 1)
           /\ Hash(IntrPreimage(pk.id, node, Hash(p), sig.path[k + 1])) = TreeNode(key, node \div 2)
                <=> GoodUpTo(key, k + 1)
  <1>1. lms = key.lms /\ pk.id = key.id
    BY SameSets
  <1>2. lms.h \in Nat /\ Pow2(lms.h) \in Nat \ {0}
    BY NodeTypes
  <1>3. k \in Nat /\ k < lms.h
    BY ClimbIsInPath, <1>2 DEF VerifierInv, Inv, ClimbOK
  <1> DEFINE r == node \div 2
  <1>4. /\ r \in Nat /\ r >= 1 /\ r < Pow2(lms.h)
        /\ r \in 1 .. 2 * Pow2(lms.h) - 1
    <2> HIDE DEF Pow2
    <2> QED  BY <1>2
  <1>5. node = IF node % 2 = 1 THEN 2 * r + 1 ELSE 2 * r
    OBVIOUS
  <1>6. Sibling(node) = IF node % 2 = 1 THEN 2 * r ELSE 2 * r + 1
    BY DEF Sibling
  <1> HIDE DEF r
  <1>7. sig.q = key.leaf => r = PathNode(key, k + 1)
    <2>1. PathNode(key, k + 1) = PathNode(key, k) \div 2
      BY <1>3, PathNodeStep
    <2> QED  BY <2>1 DEF Climbs, r
  <1>8. GoodUpTo(key, k + 1) <=>
            GoodUpTo(key, k) /\ sig.path[k + 1] = TreeNode(key, Sibling(PathNode(key, k)))
    <2>1. \A e : e \in 1 .. k + 1 <=> e \in 1 .. k \/ e = k + 1
      BY <1>3
    <2>2. (k + 1) - 1 = k
      BY <1>3
    <2> QED  BY <2>1, <2>2 DEF GoodUpTo
  <1> DEFINE left == IF node % 2 = 1 THEN sig.path[k + 1] ELSE Hash(p)
             right == IF node % 2 = 1 THEN Hash(p) ELSE sig.path[k + 1]
  <1>9. IntrPreimage(pk.id, node, Hash(p), sig.path[k + 1])
            = <<pk.id, U32(r), U16(D_INTR), left, right>>
    BY IntrFields DEF r
  <1>10. CASE OnPath(key, r)
    <2>1. TreeNode(key, r)
            = Hash(<<pk.id, U32(r), U16(D_INTR), TreeNode(key, 2 * r), TreeNode(key, 2 * r + 1)>>)
      <3>1. Pow2(key.lms.h) \in Nat \ {0} /\ r \in 1 .. 2 * Pow2(key.lms.h) - 1 /\ ~(r >= Pow2(key.lms.h))
        BY <1>1, <1>2, <1>4
      <3> HIDE DEF left, right
      <3> QED  BY <1>1, <1>10, <3>1, TreeNodeIs
    <2>2. Hash(<<pk.id, U32(r), U16(D_INTR), left, right>>) = TreeNode(key, r)
            <=> left = TreeNode(key, 2 * r) /\ right = TreeNode(key, 2 * r + 1)
      <3> HIDE DEF left, right
      <3> QED  BY <2>1 DEF Hash
    <2>3. left = TreeNode(key, 2 * r) /\ right = TreeNode(key, 2 * r + 1)
            <=> Hash(p) = TreeNode(key, node) /\ sig.path[k + 1] = TreeNode(key, Sibling(node))
      BY <1>5, <1>6
    <2>4. GoodUpTo(key, k) => node = PathNode(key, k)
      BY DEF Climbs, GoodUpTo
    <2> HIDE DEF left, right
    <2> QED  BY <1>7, <1>8, <1>9, <2>2, <2>3, <2>4 DEF Climbs, r
  <1>11. CASE ~OnPath(key, r)
    <2>1. TreeNode(key, r) = <<"node", r>>
      BY <1>1, <1>2, <1>4, <1>11, TreeNodeIs
    <2>2. ~GoodUpTo(key, k + 1)
      <3>1. k + 1 \in 0 .. key.lms.h
        BY <1>1, <1>2, <1>3
      <3> QED  BY <1>7, <1>11, <3>1 DEF GoodUpTo, OnPath
    <2> QED  BY <1>7, <2>1, <2>2 DEF Hash, r
  <1> QED  BY <1>10, <1>11

\* What the climb claims depends only on the arguments and on how far it is.
LEMMA ClimbsNext ==
    ASSUME UNCHANGED args, qc' = qc, NEW key, NEW p, NEW r, NEW m, r = node', m = k',
           sig.q = key.leaf => r = PathNode(key, m),
           Hash(p) = TreeNode(key, r) <=> GoodUpTo(key, m)
    PROVE  Climbs(key, p)'
  <1>1. pk' = pk /\ sig' = sig /\ ots' = ots
    BY SameTerms DEF args
  <1>2. GoodUpTo(key, m)' <=> GoodUpTo(key, m)
    BY <1>1 DEF GoodUpTo, ChainsOf
  <1>3. GoodUpTo(key, k)' <=> GoodUpTo(key, m)'
    BY DEF GoodUpTo, ChainsOf
  <1> QED  BY <1>1, <1>2, <1>3 DEF Climbs

LEMMA ClimbNext ==
    ASSUME UNCHANGED args, node' \in 1 .. 2 * Pow2(lms.h) - 1,
           NEW T, NEW p \in Seq(T), Hashing(p)', p[1] = pk.id,
           \A key \in Keys : pk = PublicKey(key) => Climbs(key, p)'
    PROVE  ClimbRight'
  <1>1. pk' = pk /\ lms' = lms
    BY DEF args, lms
  <1> QED  BY <1>1 DEF ClimbRight

\* Idle, the backend has hashed what the climb is at.
LEMMA ClimbedTo ==
    ASSUME ClimbRight, stage = "climb", todo = <<>>
    PROVE  \E T : \E p \in Seq(T) :
              /\ out = Hash(p) /\ p[1] = pk.id
              /\ \A key \in Keys : pk = PublicKey(key) => Climbs(key, p)
  <1>a. PICK T : \E p \in Seq(T) :
            /\ Hashing(p) /\ p[1] = pk.id
            /\ \A key \in Keys : pk = PublicKey(key) => Climbs(key, p)
    BY DEF ClimbRight
  <1>1. PICK p \in Seq(T) :
            /\ Hashing(p) /\ p[1] = pk.id
            /\ \A key \in Keys : pk = PublicKey(key) => Climbs(key, p)
    BY <1>a
  <1>2. out = Hash(p)
    BY <1>1, ServingIsBusy DEF Hashing
  <1> QED  BY <1>1, <1>2

LEMMA InitClimb == VerifyInit => ClimbRight
  BY DEF VerifyInit, Init, ClimbRight

LEMMA VerifyClimbs ==
    ASSUME VerifierInv, ClimbRight, Verify, UNCHANGED <<cur, ckpt>>
    PROVE  ClimbRight'
  <1>1. UNCHANGED args /\ todo = <<>>
    BY DEF Verify, Reject, HashMessage, OpenKc, Link, Linked, Fold, CloseKc, HashLeaf, Climb,
           Compare, Returned
  <1>2. CASE Reject \/ HashMessage \/ OpenKc \/ Link \/ Linked \/ Fold \/ CloseKc \/ Compare
    BY <1>2 DEF Reject, HashMessage, OpenKc, Link, Linked, Fold, CloseKc, Compare, Return, ClimbRight
  <1>3. CASE HashLeaf
    <2>1. /\ stage = "kc" /\ UNCHANGED walk /\ node' = Pow2(lms.h) + sig.q /\ k' = 0
          /\ todo' = HashCalls(LeafPreimage(pk.id, node', out))
      BY <1>3 DEF HashLeaf, LeafNode, Call
    <2>2. qc' = qc /\ out = Hash(Kc(ots.p))
      BY <1>1, <2>1, ParkedWhenIdle DEF VerifierInv, walk
    <2>3. PICK r, p : r = node' /\ p = LeafPreimage(pk.id, r, Hash(Kc(ots.p)))
      OBVIOUS
    <2>4. p \in Seq({pk.id, U32(r), U16(D_LEAF), Hash(Kc(ots.p))}) /\ p[1] = pk.id
      BY <2>3 DEF LeafPreimage
    <2>5. Hashing(p)'
      BY <2>1, <2>2, <2>3, <2>4, QueueStarts
    <2>6. r \in 1 .. 2 * Pow2(lms.h) - 1
      BY <2>1, <2>3, NodeTypes
    <2>7. ASSUME NEW key \in Keys, pk = PublicKey(key) PROVE Climbs(key, p)'
      <3>1. /\ sig.q = key.leaf => r = PathNode(key, 0)
            /\ Hash(p) = TreeNode(key, r) <=> GoodUpTo(key, 0)
        BY <2>1, <2>3, <2>7, StartsRight
      <3> QED  BY <1>1, <2>1, <2>2, <2>3, <3>1, ClimbsNext
    <2> QED  BY <1>1, <2>3, <2>4, <2>5, <2>6, <2>7, ClimbNext
  <1>4. CASE Climb
    <2>1. /\ stage = "climb" /\ node > 1 /\ UNCHANGED walk /\ node' = node \div 2 /\ k' = k + 1
          /\ todo' = HashCalls(IntrPreimage(pk.id, node, out, sig.path[k + 1]))
      BY <1>4 DEF Climb, Call
    <2>2. qc' = qc /\ node \in 1 .. 2 * Pow2(lms.h) - 1
      BY <2>1 DEF walk, ClimbRight
    <2>a. PICK T : \E p \in Seq(T) :
            /\ out = Hash(p)
            /\ \A key \in Keys : pk = PublicKey(key) => Climbs(key, p)
      BY <1>1, <2>1, ClimbedTo
    <2>3. PICK p \in Seq(T) :
            /\ out = Hash(p)
            /\ \A key \in Keys : pk = PublicKey(key) => Climbs(key, p)
      BY <2>a
    <2>4. PICK r, m, up : r = node' /\ m = k' /\ up = IntrPreimage(pk.id, node, Hash(p), sig.path[k + 1])
      OBVIOUS
    <2>b. PICK left, right : up = <<pk.id, U32(node \div 2), U16(D_INTR), left, right>>
      BY <2>4, IntrFields
    <2>5. up \in Seq({pk.id, U32(node \div 2), U16(D_INTR), left, right}) /\ up[1] = pk.id
      BY <2>b
    <2>6. Hashing(up)'
      BY <2>1, <2>3, <2>4, <2>5, QueueStarts
    <2>7. r \in 1 .. 2 * Pow2(lms.h) - 1
      <3>1. Pow2(lms.h) \in Nat
        BY <2>1, NodeTypes
      <3> QED  BY <2>1, <2>2, <2>4, <3>1
    <2>8. ASSUME NEW key \in Keys, pk = PublicKey(key) PROVE Climbs(key, up)'
      <3>1. Climbs(key, p)
        BY <2>3, <2>8
      <3>2. /\ sig.q = key.leaf => node \div 2 = PathNode(key, k + 1)
            /\ Hash(IntrPreimage(pk.id, node, Hash(p), sig.path[k + 1])) = TreeNode(key, node \div 2)
                 <=> GoodUpTo(key, k + 1)
        BY <2>1, <2>2, <2>8, <3>1, GoesOnRight
      <3>3. /\ sig.q = key.leaf => r = PathNode(key, m)
            /\ Hash(up) = TreeNode(key, r) <=> GoodUpTo(key, m)
        BY <2>1, <2>4, <3>2
      <3> QED  BY <1>1, <2>2, <2>4, <3>3, ClimbsNext
    <2> QED  BY <1>1, <2>4, <2>5, <2>6, <2>7, <2>8, ClimbNext
  <1> QED  BY <1>2, <1>3, <1>4 DEF Verify

\* The backend only serves the climb.
LEMMA BackendClimbs ==
    ASSUME VerifierInv, ClimbRight, NEW still \in BOOLEAN,
           IF still THEN UNCHANGED vars ELSE BackendServes /\ Serve(Head(todo))
    PROVE  ClimbRight'
  <1> SUFFICES ASSUME stage' = "climb" PROVE ClimbRight'
    BY DEF ClimbRight
  <1>1. UNCHANGED args /\ qc' = qc /\ stage' = stage /\ node' = node /\ k' = k
    BY DEF vars, lmsVars, walk, climb, control, BackendServes
  <1>a. PICK T : \E p \in Seq(T) :
            /\ Hashing(p) /\ p[1] = pk.id
            /\ \A key \in Keys : pk = PublicKey(key) => Climbs(key, p)
    BY <1>1 DEF ClimbRight
  <1>2. PICK p \in Seq(T) :
            /\ Hashing(p) /\ p[1] = pk.id
            /\ \A key \in Keys : pk = PublicKey(key) => Climbs(key, p)
    BY <1>a
  <1>3. Hashing(p)'
    <2>1. CASE still
      <3>1. todo' = todo /\ cur' = cur /\ out' = out
        BY <2>1 DEF vars
      <3> QED  BY <1>2, <3>1 DEF Hashing, Serving
    <2>2. CASE ~still
      <3>1. DOMAIN ckpt = {"kc_state"}
        BY DEF VerifierInv, DigestInv
      <3> QED  BY <1>2, <2>2, <3>1, BackendGoesOn
    <2> QED  BY <2>1, <2>2
  <1>4. ASSUME NEW key \in Keys, pk = PublicKey(key) PROVE Climbs(key, p)'
    <2>1. PICK r, m : r = node' /\ m = k'
      OBVIOUS
    <2>2. /\ sig.q = key.leaf => r = PathNode(key, m)
          /\ Hash(p) = TreeNode(key, r) <=> GoodUpTo(key, m)
      BY <1>1, <1>2, <1>4, <2>1 DEF Climbs
    <2> QED  BY <1>1, <2>1, <2>2, ClimbsNext
  <1>5. node' \in 1 .. 2 * Pow2(lms.h) - 1
    BY <1>1 DEF ClimbRight
  <1> QED  BY <1>1, <1>2, <1>3, <1>4, <1>5, ClimbNext

-----------------------------------------------------------------------------
\* An argument pair is well formed when it parses.
LEMMA ParsesWhenWellFormed ==
    ASSUME Layout(pk, sig)
    PROVE  WellFormed <=> ParseError(pk, sig) = "none"
  <1>1. ASSUME NEW lt \in DOMAIN Lms
        PROVE  Capacity(Lms[lt]) \in Nat /\ (sig.q \in 0 .. Capacity(Lms[lt]) - 1 <=> ~(sig.q >= Capacity(Lms[lt])))
    <2>1. Capacity(Lms[lt]) \in Nat
      BY TableAssumption, Pow2Type DEF Capacity
    <2>2. sig.q \in Nat
      BY DEF Layout
    <2> QED  BY <2>1, <2>2
  <1>2. ParseError(pk, sig) = "none" <=>
            /\ pk.len = PublicKeyLen /\ pk.lmsType \in DOMAIN Lms /\ pk.otsType \in DOMAIN Lmots
            /\ sig.len = SignatureLen(Lmots[pk.otsType], Lms[pk.lmsType])
            /\ ~(sig.q >= Capacity(Lms[pk.lmsType]))
            /\ sig.lmsType = pk.lmsType /\ sig.otsType = pk.otsType
    BY DEF ParseError, SizeError, KeyError
  <1> QED  BY <1>1, <1>2 DEF WellFormed

\* A genuine signature parses.
LEMMA GenuineParses ==
    ASSUME Layout(pk, sig), Genuine
    PROVE  ParseError(pk, sig) = "none"
  <1>1. PICK key \in Keys : pk = PublicKey(key) /\ GenuineOf(key)
    BY DEF Genuine, GenuineOf
  <1>2. /\ pk.len = PublicKeyLen /\ pk.lmsType = key.lmsType /\ pk.otsType = key.otsType
    BY <1>1 DEF PublicKey
  <1>3. PICK Q : sig = Sign(key, sig.c, Q)
    BY <1>1 DEF GenuineOf
  <1>4. /\ sig.len = SignatureLen(key.ots, key.lms) /\ sig.q = key.leaf
        /\ sig.otsType = key.otsType /\ sig.lmsType = key.lmsType
    BY <1>3 DEF Sign
  <1>5. /\ key.otsType \in DOMAIN Lmots /\ key.ots = Lmots[key.otsType]
        /\ key.lmsType \in DOMAIN Lms /\ key.lms = Lms[key.lmsType]
        /\ key.leaf \in 0 .. Capacity(key.lms) - 1
    BY KeysAssumption
  <1>6. WellFormed
    BY <1>2, <1>4, <1>5 DEF WellFormed
  <1> QED  BY <1>6, ParsesWhenWellFormed

\* With the whole path used, everything used was the key's own exactly when
\* the signature is what the signer makes.
LEMMA GoodIsGenuine ==
    ASSUME VerifierInv, stage = "climb", NEW key \in Keys, pk = PublicKey(key)
    PROVE  GoodUpTo(key, lms.h) <=> GenuineOf(key)
  <1>1. ots = key.ots /\ lms = key.lms /\ pk.id = key.id
    BY SameSets
  <1>2. ParseError(pk, sig) = "none" /\ Layout(pk, sig) /\ FieldsOfSignature(sig)
    BY CasesAssumption DEF VerifierInv, Inv, TypeOK, CaseOK
  <1>3. /\ sig.len = SignatureLen(ots, lms) /\ sig.lmsType = key.lmsType /\ sig.otsType = key.otsType
        /\ Len(sig.y) = ots.p /\ Len(sig.path) = lms.h
    BY <1>2 DEF ParseError, SizeError, Layout, PublicKey, ots, lms
  <1>4. qc = WithChecksum(Bytes(Hash(Mesg)), ots)
    BY DEF VerifierInv, DigestInv, QcOK
  <1> DEFINE signed == Sign(key, sig.c, Bytes(Hash(SignedPreimage(key, sig.c, msg))))
  <1>5. ASSUME sig.q = key.leaf
        PROVE  signed = [len |-> sig.len, q |-> sig.q, otsType |-> sig.otsType,
                         lmsType |-> sig.lmsType, c |-> sig.c,
                         y |-> [n \in 1 .. ots.p |-> ChainValue(key, n - 1, Coef(qc, n - 1, ots.w))],
                         path |-> [d \in 1 .. lms.h |-> TreeNode(key, Sibling(PathNode(key, d - 1)))]]
    <2>1. SignedPreimage(key, sig.c, msg) = Mesg
      BY <1>1, <1>5 DEF SignedPreimage, Mesg, MesgPreimage
    <2> QED  BY <1>1, <1>3, <1>4, <1>5, <2>1 DEF Sign
  <1>6. signed.q = key.leaf
    BY DEF Sign
  <1>7. ASSUME sig.q = key.leaf
        PROVE  sig = signed <=>
                 /\ [n \in 1 .. ots.p |-> sig.y[n]]
                        = [n \in 1 .. ots.p |-> ChainValue(key, n - 1, Coef(qc, n - 1, ots.w))]
                 /\ [d \in 1 .. lms.h |-> sig.path[d]]
                        = [d \in 1 .. lms.h |-> TreeNode(key, Sibling(PathNode(key, d - 1)))]
    <2> DEFINE ys == [n \in 1 .. ots.p |-> ChainValue(key, n - 1, Coef(qc, n - 1, ots.w))]
               ps == [d \in 1 .. lms.h |-> TreeNode(key, Sibling(PathNode(key, d - 1)))]
               y0 == [n \in 1 .. ots.p |-> sig.y[n]]
               p0 == [d \in 1 .. lms.h |-> sig.path[d]]
    <2>1. sig = [len |-> sig.len, q |-> sig.q, otsType |-> sig.otsType,
                 lmsType |-> sig.lmsType, c |-> sig.c, y |-> y0, path |-> p0]
      BY <1>2, <1>3 DEF FieldsOfSignature
    <2>2. signed = [len |-> sig.len, q |-> sig.q, otsType |-> sig.otsType,
                    lmsType |-> sig.lmsType, c |-> sig.c, y |-> ys, path |-> ps]
      BY <1>5, <1>7
    <2> HIDE DEF ys, ps, y0, p0, signed
    <2>3. PICK a, b, c, d, e : a = sig.len /\ b = sig.q /\ c = sig.otsType /\ d = sig.lmsType /\ e = sig.c
      OBVIOUS
    <2>4. /\ sig = [len |-> a, q |-> b, otsType |-> c, lmsType |-> d, c |-> e, y |-> y0, path |-> p0]
          /\ signed = [len |-> a, q |-> b, otsType |-> c, lmsType |-> d, c |-> e, y |-> ys, path |-> ps]
      BY <2>1, <2>2, <2>3
    <2>5. /\ sig.y = y0 /\ sig.path = p0 /\ signed.y = ys /\ signed.path = ps
      BY <2>4
    <2>6. sig = signed <=> y0 = ys /\ p0 = ps
      BY <2>4, <2>5
    <2> QED  BY <2>6 DEF ys, ps, y0, p0
  <1> HIDE DEF signed
  <1>8. [n \in 1 .. ots.p |-> sig.y[n]]
            = [n \in 1 .. ots.p |-> ChainValue(key, n - 1, Coef(qc, n - 1, ots.w))]
          <=> ChainsOf(key)
    BY DEF ChainsOf
  <1>9. [d \in 1 .. lms.h |-> sig.path[d]]
            = [d \in 1 .. lms.h |-> TreeNode(key, Sibling(PathNode(key, d - 1)))]
          <=> \A e \in 1 .. lms.h : sig.path[e] = TreeNode(key, Sibling(PathNode(key, e - 1)))
    OBVIOUS
  <1>10. GenuineOf(key) <=> sig = signed
    BY DEF GenuineOf, signed
  <1> QED  BY <1>6, <1>7, <1>8, <1>9, <1>10 DEF GoodUpTo

\* The comparison at the end.
LEMMA CompareIsRight ==
    ASSUME VerifierInv, ClimbRight, stage = "climb", todo = <<>>, node <= 1
    PROVE  out = pk.root <=> Genuine
  <1>1. node = 1 /\ k = lms.h
    BY ClimbIsInPath DEF VerifierInv
  <1>2. PICK T : \E p \in Seq(T) :
              /\ out = Hash(p) /\ p[1] = pk.id
              /\ \A key \in Keys : pk = PublicKey(key) => Climbs(key, p)
    BY ClimbedTo
  <1>3. PICK p \in Seq(T) :
              /\ out = Hash(p) /\ p[1] = pk.id
              /\ \A key \in Keys : pk = PublicKey(key) => Climbs(key, p)
    BY <1>2
  <1>4. ASSUME NEW key \in Keys, pk = PublicKey(key)
        PROVE  out = pk.root <=> GenuineOf(key)
    <2>1. pk.root = TreeNode(key, 1)
      BY <1>4, SameSets
    <2>2. Climbs(key, p)
      BY <1>3, <1>4
    <2> QED  BY <1>1, <1>3, <1>4, <2>1, <2>2, GoodIsGenuine DEF Climbs
  <1>5. CASE \E key \in Keys : pk = PublicKey(key)
    BY <1>4, <1>5 DEF Genuine, GenuineOf
  <1>6. CASE ~\E key \in Keys : pk = PublicKey(key)
    <2>1. ParseError(pk, sig) = "none"
      BY DEF VerifierInv, Inv, TypeOK
    <2>2. ~HashedUnder(pk.id, pk.root)
      BY <1>6, <2>1, CasesAssumption DEF VerifierInv, CaseOK
    <2>3. HashedUnder(pk.id, out)
      BY <1>3 DEF HashedUnder, Hash
    <2> QED  BY <1>6, <2>2, <2>3 DEF Genuine, GenuineOf
  <1> QED  BY <1>5, <1>6

\* The verdict, once there is one, is the right one and stays.
LEMMA VerdictNext ==
    ASSUME VerifierInv, ClimbRight, VerdictIsRight, [Next]_vars
    PROVE  VerdictIsRight'
  <1>1. UNCHANGED args
    BY ArgsKept
  <1>2. WellFormed' = WellFormed /\ Genuine' = Genuine
    BY <1>1 DEF args, WellFormed, Genuine, GenuineOf, Bytes
  <1>3. WellFormed <=> ParseError(pk, sig) = "none"
    BY ParsesWhenWellFormed DEF VerifierInv, Inv, TypeOK
  <1>4. Genuine => WellFormed
    BY <1>3, GenuineParses DEF VerifierInv, Inv, TypeOK
  <1>5. CASE Reject
    <2>1. verdict' = ParseError(pk, sig) /\ ParseError(pk, sig) # "none"
      BY <1>5 DEF Reject, Return
    <2>2. ParseError(pk, sig) \notin {"Ok", "Invalid"}
      BY DEF ParseError, SizeError, KeyError
    <2> QED  BY <1>2, <1>3, <1>4, <2>1, <2>2 DEF VerdictIsRight
  <1>6. CASE Compare
    <2>1. /\ stage = "climb" /\ todo = <<>> /\ node <= 1
          /\ verdict' = IF out = pk.root THEN "Ok" ELSE "Invalid"
      BY <1>6 DEF Compare, Returned, Return
    <2>2. WellFormed
      BY <1>3, <2>1 DEF VerifierInv, Inv, TypeOK
    <2>3. out = pk.root <=> Genuine
      BY <2>1, CompareIsRight
    <2> QED  BY <1>2, <2>1, <2>2, <2>3 DEF VerdictIsRight
  <1>7. CASE HashMessage \/ OpenKc \/ Link \/ Linked \/ Fold \/ CloseKc \/ HashLeaf \/ Climb
    <2>1. stage' # "done"
      BY <1>7 DEF HashMessage, OpenKc, Link, Linked, Fold, CloseKc, HashLeaf, Climb
    <2> QED  BY <2>1 DEF VerdictIsRight
  <1>8. CASE BackendServes \/ UNCHANGED vars
    <2>1. stage' = stage /\ verdict' = verdict
      BY <1>8 DEF BackendServes, vars, lmsVars, control
    <2> QED  BY <1>2, <2>1 DEF VerdictIsRight
  <1> QED  BY <1>5, <1>6, <1>7, <1>8 DEF Next, Verify

(***************************************************************************)
(* verify accepts exactly what the signer makes, whatever the tables, the   *)
(* keys, the message and the signature, and whatever state the backend was  *)
(* handed over in; for a key nobody has it accepts nothing.                 *)
(***************************************************************************)
THEOREM VerdictRight == Spec => []VerdictIsRight
  <1>1. VerifyInit => VerifierInv /\ ClimbRight /\ VerdictIsRight
    <2>1. VerifyInit => VerdictIsRight
      BY DEF VerifyInit, Init, VerdictIsRight
    <2> QED  BY <2>1, VerifierInvInit, InitClimb
  <1>2. VerifierInv /\ ClimbRight /\ VerdictIsRight /\ [Next]_vars
            => (VerifierInv /\ ClimbRight /\ VerdictIsRight)'
    <2> SUFFICES ASSUME VerifierInv, ClimbRight, VerdictIsRight, [Next]_vars
                 PROVE  VerifierInv' /\ ClimbRight' /\ VerdictIsRight'
      OBVIOUS
    <2>1. VerifierInv' /\ VerdictIsRight'
      BY VerifierInvNext, VerdictNext
    <2>2. ClimbRight'
      <3>1. CASE Verify /\ UNCHANGED <<cur, ckpt>>
        BY <3>1, VerifyClimbs
      <3>2. CASE BackendServes /\ Serve(Head(todo))
        BY <3>2, BackendClimbs
      <3>3. CASE UNCHANGED vars
        BY <3>3, BackendClimbs
      <3> QED  BY <3>1, <3>2, <3>3 DEF Next
    <2> QED  BY <2>1, <2>2
  <1> QED  BY <1>1, <1>2, PTL DEF Spec

-----------------------------------------------------------------------------
(***************************************************************************)
(* The checksum and the worst case of the cost, for every range of          *)
(* coefficients and every digest: the loops of Checksum, which know nothing *)
(* of a verification.                                                       *)
(***************************************************************************)
\* Where the loops are.
FieldOK == set \in Sets /\ field \in 0 .. set.p

\* Inductive: the sum is one that fits its digits, and the links are its own
\* and, from then on, those of the digits read back.
SumOK ==
    /\ sum \in Nat
    /\ field <= Fields(set) => sum <= field * ChainLen(set) /\ links = sum
    /\ field >= Fields(set) =>
        /\ sum \in SumsOf(set)
        /\ links = sum + Total(RestOf(set, sum), field - Fields(set))

SumInv == FieldOK /\ SumOK

LEMMA InitSums == SumInit => SumInv
  <1> SUFFICES ASSUME SumInit PROVE SumInv
    OBVIOUS
  <1>1. set \in Sets /\ field = 0 /\ sum = 0 /\ links = 0
    BY DEF SumInit, Sets
  <1>2. /\ set.p \in Nat /\ Fields(set) \in Nat \ {0} /\ ChainLen(set) \in Nat
    BY <1>1, SetFacts
  <1> QED  BY <1>1, <1>2 DEF SumInv, FieldOK, SumOK

LEMMA MessageSums ==
    ASSUME SumInv, NEW a \in Coefs(set), MessageField(a)
    PROVE  SumInv'
  <1> DEFINE F == Fields(set)
             L == ChainLen(set)
             f == field
             add == L - a
  <1>1. /\ set \in Sets /\ f \in Nat /\ f < F /\ set' = set /\ field' = f + 1
        /\ sum' = sum + add /\ links' = links + add
        /\ sum \in Nat /\ sum <= f * L /\ links = sum
    <2>1. set \in Sets /\ field \in 0 .. set.p /\ field < Fields(set)
      BY DEF SumInv, FieldOK, MessageField
    <2>2. set.p \in Nat /\ Fields(set) \in Nat
      BY <2>1, SetFacts
    <2>3. field <= Fields(set)
      BY <2>1, <2>2
    <2> QED  BY <2>1, <2>2, <2>3 DEF SumInv, SumOK, MessageField
  <1>2. F \in Nat \ {0} /\ L \in Nat /\ CksCoefs(set) \in Nat /\ set.p = F + CksCoefs(set)
    BY <1>1, SetFacts
  <1>3. a \in 0 .. L
    BY <1>1, CoefsAssumption DEF Sets
  <1>4. add \in 0 .. L
    BY <1>2, <1>3
  <1>5. Total(RestOf(set, sum'), 0) = 0
    BY TotalStep
  <1>6. /\ Fields(set') = F /\ ChainLen(set') = L
    BY <1>1
  <1> DEFINE t == sum'
  <1>7. Total(RestOf(set, t), 0) = 0 /\ sum' = t
    BY TotalStep
  <1> HIDE DEF F, L, f, add, t
  <1>8. (f + 1) * L = f * L + L /\ f * L \in Nat
    BY <1>1, <1>2
  <1>9. t \in Nat /\ t <= (f + 1) * L /\ links' = t
    BY <1>1, <1>2, <1>4, <1>7, <1>8
  <1>10. ASSUME f + 1 >= F PROVE t \in SumsOf(set) /\ f + 1 = F
    <2>1. f + 1 = F
      BY <1>1, <1>2, <1>10
    <2>2. F * L \in Nat
      BY <1>2
    <2> QED  BY <1>9, <2>1, <2>2 DEF SumsOf, F, L
  <1>11. SumOK'
    <2>1. (f + 1) - F = 0 \/ ~(f + 1 >= F)
      BY <1>1, <1>2, <1>10
    <2>2. t + 0 = t
      BY <1>9
    <2>3. f + 1 >= F => links' = t + Total(RestOf(set, t), (f + 1) - F)
      BY <1>7, <1>9, <2>1, <2>2
    <2> QED  BY <1>1, <1>6, <1>7, <1>9, <1>10, <2>3 DEF SumOK, F, L
  <1>12. FieldOK'
    <2>1. f + 1 \in 0 .. F + CksCoefs(set)
      BY <1>1, <1>2
    <2> QED  BY <1>1, <1>2, <2>1 DEF FieldOK
  <1> QED  BY <1>11, <1>12 DEF SumInv

LEMMA ChecksumSums ==
    ASSUME SumInv, ChecksumField
    PROVE  SumInv'
  <1> DEFINE F == Fields(set)
             n == field - F
             r == RestOf(set, sum)
  <1>1. /\ set \in Sets /\ set' = set /\ sum' = sum /\ field' = field + 1
        /\ field \in F .. set.p - 1
        /\ links' = links + (ChainLen(set) - Digit(sum, n))
    BY DEF SumInv, FieldOK, ChecksumField
  <1>2. F \in Nat \ {0} /\ CksCoefs(set) \in Nat /\ set.p = F + CksCoefs(set) /\ set.p \in Nat
    BY <1>1, SetFacts
  <1>3. sum \in Nat /\ sum \in SumsOf(set) /\ links = sum + Total(r, n)
    BY <1>1, <1>2 DEF SumInv, SumOK
  <1>4. n \in 0 .. CksCoefs(set) - 1 /\ (field + 1) - F = n + 1 /\ n \in Nat
    BY <1>1, <1>2
  <1>5. r[n] = ChainLen(set) - Digit(sum, n)
    BY <1>4 DEF RestOf, DigitOf, Digit
  <1>6. Total(r, n + 1) = Total(r, n) + r[n]
    BY <1>4, TotalStep
  <1>7. Total(r, n) \in Nat /\ r[n] \in Nat
    <2>1. \A m \in 0 .. CksCoefs(set) - 1 : r[m] \in 0 .. ChainLen(set)
      <3>1. ChainLen(set) \in Nat
        BY <1>1, SetFacts
      <3> QED  BY <1>1, <1>3, <3>1, AboveFacts DEF RestOf
    <2>2. ChainLen(set) \in Nat
      BY <1>1, SetFacts
    <2> HIDE DEF r, n
    <2>3. \A m \in 0 .. n - 1 : r[m] \in 0 .. ChainLen(set)
      BY <1>2, <1>4, <2>1
    <2>4. Total(r, n) \in Nat
      BY <1>4, <2>2, <2>3, TotalType
    <2> QED  BY <1>4, <2>1, <2>2, <2>4
  <1> DEFINE x == Total(r, n)
             y == r[n]
             z == Total(r, n + 1)
  <1>8. links' = sum + z
    <2>1. links' = (sum + x) + y /\ x \in Nat /\ y \in Nat /\ z = x + y
      BY <1>1, <1>3, <1>5, <1>6, <1>7
    <2> HIDE DEF x, y, z
    <2> QED  BY <1>3, <2>1
  <1>9. links' = sum + Total(r, (field + 1) - F)
    BY <1>4, <1>8
  <1> HIDE DEF n, r, x, y, z
  <1>10. field + 1 \in 0 .. set.p /\ ~(field + 1 <= F)
    BY <1>1, <1>2
  <1> QED  BY <1>1, <1>3, <1>9, <1>10 DEF SumInv, FieldOK, SumOK, r, F

LEMMA NextSums == SumInv /\ [SumNext]_sumVars => SumInv'
  <1> SUFFICES ASSUME SumInv, [SumNext]_sumVars PROVE SumInv'
    OBVIOUS
  <1>1. CASE \E a \in Coefs(set) : MessageField(a)
    BY <1>1, MessageSums
  <1>2. CASE ChecksumField
    BY <1>2, ChecksumSums
  <1>3. CASE UNCHANGED sumVars
    BY <1>3 DEF sumVars, SumInv, FieldOK, SumOK
  <1> QED  BY <1>1, <1>2, <1>3 DEF SumNext

\* The loops stay inside the parameter set, and add up what they should.
THEOREM SumsAddUp == SumSpec => []SumInv
  BY InitSums, NextSums, PTL DEF SumSpec

\* The sum at the end of the message's fields.
LEMMA SumThere ==
    ASSUME SumInv, field >= Fields(set)
    PROVE  set \in Sets /\ sum \in SumsOf(set) /\ CksCoefs(set) \in Nat
  BY SetFacts DEF SumInv, FieldOK, SumOK

(***************************************************************************)
(* checksum's shift by ls, its cut to sixteen bits and coef give back every *)
(* digit of the sum.                                                       *)
(***************************************************************************)
THEOREM ChecksumKeepsSum == SumSpec => []ChecksumIsLossless
  <1>1. SumInv => ChecksumIsLossless
    <2> SUFFICES ASSUME SumInv, field = Fields(set)
                 PROVE  Total([n \in Nat |-> DigitValue(sum, n)], CksCoefs(set)) = sum
      BY DEF ChecksumIsLossless
    <2>1. set \in Sets /\ sum \in SumsOf(set)
      <3>1. set \in Sets
        BY DEF SumInv, FieldOK
      <3>2. field >= Fields(set)
        BY <3>1, SetFacts
      <3> QED  BY <3>2, SumThere
    <2>2. [n \in Nat |-> DigitValue(sum, n)] = ValuesOf(set, sum)
      BY DEF ValuesOf, DigitValue, Digit, DigitOf
    <2> QED  BY <2>1, <2>2, Lossless
  <1> QED  BY <1>1, SumsAddUp, PTL

(***************************************************************************)
(* No digest's chains can all be walked forward from another's: a smaller   *)
(* sum has a smaller digit, however far below the sum it is.                *)
(***************************************************************************)
THEOREM SomeChainAlwaysGoesBack == SumSpec => []SomeChainGoesBack
  <1>1. SumInv => SomeChainGoesBack
    <2> SUFFICES ASSUME SumInv, field = Fields(set), NEW lower \in 0 .. sum - 1
                 PROVE  \E n \in Digits : Digit(lower, n) < Digit(sum, n)
      BY DEF SomeChainGoesBack
    <2>1. set \in Sets /\ sum \in SumsOf(set)
      <3>1. set \in Sets
        BY DEF SumInv, FieldOK
      <3>2. field >= Fields(set)
        BY <3>1, SetFacts
      <3> QED  BY <3>2, SumThere
    <2> QED  BY <2>1, SomeDigitIsLess DEF Digits, Digit, DigitOf
  <1> QED  BY <1>1, SumsAddUp, PTL

(***************************************************************************)
(* The maximum of verification_cost_bounds is what the digest of all zeros  *)
(* costs, and no digest costs more.                                        *)
(***************************************************************************)
THEOREM WorstCaseIsMax == SumSpec => []MaxIsTheWorstCase
  <1>1. SumInv => MaxIsTheWorstCase
    <2> SUFFICES ASSUME SumInv, field = set.p
                 PROVE  LET max == set.p * ChainLen(set) - MaxChecksumSaving(set)
                        IN  /\ links <= max
                            /\ sum = Fields(set) * ChainLen(set) => links = max
      BY DEF MaxIsTheWorstCase
    <2>1. set \in Sets
      BY DEF SumInv, FieldOK
    <2>2. /\ Fields(set) \in Nat /\ CksCoefs(set) \in Nat /\ set.p = Fields(set) + CksCoefs(set)
      BY <2>1, SetFacts
    <2>3. field >= Fields(set) /\ field - Fields(set) = CksCoefs(set)
      BY <2>2
    <2>4. sum \in SumsOf(set) /\ links = sum + Total(RestOf(set, sum), CksCoefs(set))
      BY <2>3 DEF SumInv, SumOK
    <2> QED  BY <2>1, <2>4, WorstCase
  <1> QED  BY <1>1, SumsAddUp, PTL
=============================================================================
