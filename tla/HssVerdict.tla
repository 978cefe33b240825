----------------------------- MODULE HssVerdict -----------------------------
(***************************************************************************)
(* What hss::verify promises of a whole buffer at once, where the walk     *)
(* meets it one part after the other.                                      *)
(***************************************************************************)
EXTENDS Hss

\* What the parts' own typecodes make the lengths of the signatures.
Lengths == [n \in Nat |-> DeclaredLen(sig.part[n].sig)]

\* A part under typecodes that exist.
Declared(n) ==
    sig.part[n].sig.otsType \in DOMAIN Lmots /\ sig.part[n].sig.lmsType \in DOMAIN Lms

\* Every part of the buffer is there, under typecodes that exist, and nothing else.
Intact ==
    /\ \A n \in 0 .. sig.nspk : Declared(n)
    /\ sig.len = 4 + sig.nspk * PublicKeyLen + Total(Lengths, sig.nspk + 1)

\* The key of the n-th level, and what that level signs.
KeyAt(n) == IF n = 0 THEN pk.root ELSE sig.part[n - 1].key
SignedAt(n) == IF n = sig.nspk THEN msg ELSE KeyAt(n + 1)

Vouched(n) ==
    LET s == sig.part[n].sig IN
    /\ s.otsType = KeyAt(n).otsType /\ s.lmsType = KeyAt(n).lmsType
    /\ s.q < Capacity(Lms[s.lmsType])
    /\ Signed(KeyAt(n), s, SignedAt(n))

\* A genuine HSS signature.
Genuine ==
    /\ pk.len = HssPublicKeyLen /\ pk.levels \in 1 .. MAX_LEVELS
    /\ sig.nspk = pk.levels - 1
    /\ Intact
    /\ \A n \in 0 .. sig.nspk : Vouched(n)

(***************************************************************************)
(* hss::verify accepts the genuine signatures, in their one encoding, and   *)
(* nothing else: no shorter chain, no bytes left over; and a key that levels *)
(* finds fault with is refused for that.                                   *)
(***************************************************************************)
OkIffGenuine ==
    stage = "done" =>
        /\ verdict = "Ok" <=> Genuine
        /\ LevelsError(pk) # "none" => verdict = LevelsError(pk)

-----------------------------------------------------------------------------
\* Where the walk is, counted in whole parts.
Ahead(n) == 4 + n * PublicKeyLen + Total(Lengths, n)

\* Inductive: the turns completed are as they should be, and end where the walk is.
SoFar ==
    stage \notin {"header", "done"} =>
        /\ LevelsError(pk) = "none"
        /\ \A n \in 0 .. level - 1 : Declared(n) /\ Vouched(n)
        /\ at = IF stage = "authenticate" THEN Ahead(level) + SigLen ELSE Ahead(level)

VerdictInv == Inv /\ SoFar /\ OkIffGenuine
=============================================================================
