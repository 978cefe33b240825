--------------------------------- MODULE Hss ---------------------------------
(***************************************************************************)
(* hss::verify_with (src/crates/lms-verify/src/hss.rs): the walk over a    *)
(* buffer that holds several LMS signatures and public keys back to back.  *)
(*                                                                         *)
(* The buffer is its length and what a parse finds in it at the offsets    *)
(* the walk reaches: part n is the signature found at the start of the     *)
(* n-th turn and the public key found right after it.  Any bytes are some  *)
(* such parts; the lengths are kept in bytes.  One LMS verification is one  *)
(* step here and LmsVerify in detail: a parsed signature is genuine when   *)
(* Signed says the key signed what follows it.                             *)
(***************************************************************************)
EXTENDS LmsParse

CONSTANTS
    MAX_LEVELS,
    USIZE,              \* usize counts modulo this
    Key, Message, Signature,
    Signed(_, _, _),    \* LMS itself: key, signature, what was signed
    Case                \* the arguments to run with: [pk, msg, sig]

ASSUME SizesAssumption ==
    /\ MAX_LEVELS \in Nat /\ USIZE \in Nat /\ MAX_LEVELS < USIZE
    /\ PublicKeyLen \in Nat
    /\ \A o \in DOMAIN Lmots, l \in DOMAIN Lms : SignatureLen(Lmots[o], Lms[l]) \in Nat

\* A key is cut out at its length, and a leaf index is a u32.
ASSUME PartsAssumption ==
    /\ \A key \in Key : key.len = PublicKeyLen
    /\ \A s \in Signature : s.q \in Nat

\* The arguments are slices and a u32 that fits usize, each part some bytes.
Arguments(p, m, s) ==
    /\ p.levels \in 0 .. USIZE - 1 /\ p.root \in Key
    /\ s.nspk \in 0 .. USIZE - 1 /\ s.len \in Nat
    /\ s.part \in [0 .. MAX_LEVELS - 1 -> [sig : Signature, key : Key]]
    /\ m \in Message

ASSUME CaseAssumption == \A c \in Case : Arguments(c.pk, c.msg, c.sig)

VARIABLES
    pk, msg, sig,       \* the arguments
    stage,              \* where the walk is
    level,              \* turns of the loop completed
    at,                 \* offset into sig of what is parsed next
    signer, keyOffset,  \* the key that verifies next, and its offset
    verdict             \* "none" until it returns

args == <<pk, msg, sig>>
vars == <<args, stage, level, at, signer, keyOffset, verdict>>

-----------------------------------------------------------------------------
HssPublicKeyLen == 4 + PublicKeyLen

\* What levels says is wrong with a key.
LevelsError(key) ==
    IF key.len # HssPublicKeyLen THEN "BadLength"
    ELSE IF key.levels \notin 1 .. MAX_LEVELS THEN "BadLevels"
    ELSE "none"

\* The level count the signature states left unread.
HeaderErrorUncounted(key, s) ==
    IF key.len # HssPublicKeyLen THEN "BadLength"
    ELSE IF key.levels = 0 \/ key.levels > MAX_LEVELS THEN "BadLevels"
    ELSE IF s.len < 4 THEN "BadLength"
    ELSE "none"

\* The checks before the walk.  The level count is stated by the key and,
\* less one, by the signature; the sum is a usize.
HeaderError(key, s) ==
    IF key.len # HssPublicKeyLen THEN "BadLength"
    ELSE IF key.levels = 0 \/ key.levels > MAX_LEVELS THEN "BadLevels"
    ELSE IF s.len < 4 THEN "BadLength"
    ELSE IF (s.nspk + 1) % USIZE # key.levels THEN "BadLevels"
    ELSE "none"

\* What a parse finds in a slice of this length that starts with s.
Slice(s, len) == [len |-> len, q |-> s.q, otsType |-> s.otsType, lmsType |-> s.lmsType]

\* crate::verify_with on such a slice.
LmsVerdict(key, s, len, signed) ==
    IF ParseError(key, Slice(s, len)) # "none" THEN ParseError(key, Slice(s, len))
    ELSE IF Signed(key, s, signed) THEN "Ok" ELSE "Invalid"

Part == sig.part[level]
SigError == DeclaredError(Part.sig, sig.len - at)
SigLen == DeclaredLen(Part.sig)

Init ==
    /\ \E c \in Case : pk = c.pk /\ msg = c.msg /\ sig = c.sig
    /\ stage = "header" /\ verdict = "none"
    /\ level = 0 /\ at = 4
    /\ signer = pk.root /\ keyOffset = 4

Return(v) ==
    /\ stage' = "done" /\ verdict' = v
    /\ UNCHANGED <<args, level, at, signer, keyOffset>>

\* Where the walk goes after n turns of the loop.
NextTurn(n) == IF n < sig.nspk THEN "walk" ELSE "last"

Header ==
    /\ stage = "header"
    /\ IF HeaderError(pk, sig) # "none"
        THEN Return(HeaderError(pk, sig))
        ELSE /\ stage' = NextTurn(0)
             /\ UNCHANGED <<args, level, at, signer, keyOffset, verdict>>

\* The key after the signature allowed to start before the end of the buffer.
KeyStarts == sig.len >= at + SigLen

\* The first half of a turn: the signature's own length, and the key after it.
KeyFits == sig.len >= at + SigLen + PublicKeyLen

Measure ==
    /\ stage = "walk"
    /\ IF SigError # "none" THEN Return(SigError)
       ELSE IF ~KeyFits THEN Return("BadLength")
       ELSE /\ stage' = "authenticate"
            /\ at' = at + SigLen
            /\ UNCHANGED <<args, level, signer, keyOffset, verdict>>

\* A verdict not looked at (a missing ?).
Unread(v) == FALSE

\* A verdict that ends the walk.
Refused(v) == v # "Ok"

\* The second half: the signer vouches for the key, which becomes the signer.
Authenticate ==
    /\ stage = "authenticate"
    /\ LET v == LmsVerdict(signer, Part.sig, SigLen, Part.key) IN
        IF Refused(v) THEN Return(v)
        ELSE /\ signer' = Part.key /\ keyOffset' = at
             /\ at' = at + PublicKeyLen
             /\ level' = level + 1
             /\ stage' = NextTurn(level')
             /\ UNCHANGED <<args, verdict>>

\* After the loop: the last signature ends where the buffer ends.
EndsHere == at + SigLen = sig.len

MeasureLast ==
    /\ stage = "last"
    /\ IF SigError # "none" THEN Return(SigError)
       ELSE IF ~EndsHere THEN Return("BadLength")
       ELSE /\ stage' = "authenticateLast"
            /\ UNCHANGED <<args, level, at, signer, keyOffset, verdict>>

AuthenticateLast ==
    /\ stage = "authenticateLast"
    /\ Return(LmsVerdict(signer, Part.sig, sig.len - at, msg))

Next == Header \/ Measure \/ Authenticate \/ MeasureLast \/ AuthenticateLast

Spec == Init /\ [][Next]_vars

-----------------------------------------------------------------------------
\* The types; the walk returns when it is done and not before.
TypeOK ==
    /\ Arguments(pk, msg, sig)
    /\ stage \in {"header", "walk", "authenticate", "last", "authenticateLast", "done"}
    /\ level \in Nat /\ at \in Nat /\ keyOffset \in Nat
    /\ signer \in Key
    /\ verdict = "none" <=> stage # "done"

\* The turns left are as many as the header said, and a part that was measured
\* declares parameter sets that exist.
WalkOK ==
    /\ stage = "header" => level = 0 /\ at = 4
    /\ stage \notin {"header", "done"} =>
        pk.levels = sig.nspk + 1 /\ pk.levels <= MAX_LEVELS
    /\ stage \in {"walk", "authenticate"} => level < sig.nspk
    /\ stage \in {"last", "authenticateLast"} => level = sig.nspk
    /\ stage \in {"authenticate", "authenticateLast"} =>
        Part.sig.otsType \in DOMAIN Lmots /\ Part.sig.lmsType \in DOMAIN Lms

\* The signer is the key of the last turn.
SignerOK == signer = IF level = 0 THEN pk.root ELSE sig.part[level - 1].key

(***************************************************************************)
(* No slice is out of range: what is cut out of the signature's buffer at   *)
(* each stage lies inside it, and the walk stays within the parts.          *)
(***************************************************************************)
SlicesInBounds ==
    /\ at >= 4
    /\ stage \in {"walk", "last"} => at <= sig.len
    /\ stage = "authenticate" => at - SigLen >= 4 /\ at + PublicKeyLen <= sig.len
    /\ stage = "authenticateLast" => at + SigLen = sig.len
    /\ stage # "header" /\ level > 0 => keyOffset + PublicKeyLen <= sig.len
    /\ stage \notin {"header", "done"} => level < MAX_LEVELS

\* Inductive: the bounds, and what they rest on.
Inv == TypeOK /\ WalkOK /\ SignerOK /\ SlicesInBounds

(***************************************************************************)
(* The keys of the turns completed are the chain of trust, and what the     *)
(* walk returns is its outcome.                                            *)
(***************************************************************************)
Trusted == [n \in 1 .. level + 1 |-> IF n = 1 THEN pk.root ELSE sig.part[n - 2].key]
Outcome ==
    CASE verdict = "none" -> "open"
      [] verdict = "Ok"   -> "accepted"
      [] OTHER            -> "rejected"

Presented == {sig.part[n].sig : n \in 0 .. MAX_LEVELS - 1}

Chain == INSTANCE ChainOfTrust
    WITH levels <- pk.levels, message <- msg, presented <- Presented,
         trusted <- Trusted, outcome <- Outcome

\* Nothing is verified under a key the root does not vouch for.
OnlyTheRootIsTrusted == Chain!Spec
=============================================================================
