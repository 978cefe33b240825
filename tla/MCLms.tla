------------------------------- MODULE MCLms -------------------------------
(***************************************************************************)
(* The verifications TLC runs: signatures of the test signer, whole or with *)
(* one part changed, on parameter sets for hashes of one byte, whose       *)
(* checksums are as wide as RFC 8554 makes them.                           *)
(***************************************************************************)
EXTENDS Integers, Sequences, TLC

CONSTANTS OtsType, LmsType, Q    \* which of the sets below, and the bytes Q may be

MCN == 1
MCI_LEN == 16
MCLmots == LET All == 1 :> [w |-> 1, p |-> 12, ls |-> 12]
                   @@ 2 :> [w |-> 2, p |-> 6,  ls |-> 12]
                   @@ 3 :> [w |-> 4, p |-> 4,  ls |-> 8]
           IN  [t \in OtsType |-> All[t]]
MCLms == [t \in LmsType |-> [h |-> t - 4]]

Signer == INSTANCE LmsSigner
    WITH N <- MCN, I_LEN <- MCI_LEN, Lmots <- MCLmots, Lms <- MCLms

Id == <<"I", 0>>
Msg == [len |-> 3, text |-> "m"]
Nonce == <<"C", 0>>

Key(ot, lt, leaf) ==
    [id |-> Id, leaf |-> leaf, otsType |-> ot, lmsType |-> lt,
     ots |-> MCLmots[ot], lms |-> MCLms[lt]]

MCKeys == UNION {{Key(ot, lt, leaf) : leaf \in 0 .. Signer!Capacity(MCLms[lt]) - 1} :
                    ot \in OtsType, lt \in LmsType}

\* A verification of a signature over Q = signed, any other Q being other.
Signed(key, signed, other) ==
    [pk |-> Signer!PublicKey(key), msg |-> Msg,
     sig |-> Signer!Sign(key, Nonce, signed),
     oracle |-> [of |-> Signer!Hash(Signer!SignedPreimage(key, Nonce, Msg)),
                 then |-> signed, else |-> other]]

Junk == <<"junk">>

\* Digests abandoned before, inside and after what the buffer holds.
MCLeftover == {<<>>, <<Junk>>, <<Id, Junk, Junk, Junk, Junk, Junk>>}

\* The ways one part of it can be different.
Changed(c, key) ==
    {[c EXCEPT !.msg.text = "other"], [c EXCEPT !.msg.len = 100],
     [c EXCEPT !.sig.c = Junk], [c EXCEPT !.pk.id = <<"I", 1>>],
     [c EXCEPT !.pk.root = Junk], [c EXCEPT !.pk.len = @ - 1],
     [c EXCEPT !.sig.len = @ - 1], [c EXCEPT !.sig.len = @ + 1]}
    \cup {[c EXCEPT !.sig.y[n] = Junk] : n \in 1 .. key.ots.p}
    \cup {[c EXCEPT !.sig.path[n] = Junk] : n \in 1 .. key.lms.h}
    \cup {[c EXCEPT !.sig.q = q] : q \in 0 .. Signer!Capacity(key.lms)}
    \cup {[c EXCEPT !.sig.otsType = t] : t \in 0 .. 4}
    \cup {[c EXCEPT !.sig.lmsType = t] : t \in 4 .. 9}
    \cup {[c EXCEPT !.pk.otsType = t] : t \in 0 .. 4}
    \cup {[c EXCEPT !.pk.lmsType = t] : t \in 4 .. 9}

MCCase ==
    UNION {UNION {{Signed(key, <<a>>, <<b>>)} \cup
                    (IF b = 255 - a THEN Changed(Signed(key, <<a>>, <<b>>), key) ELSE {})
                  : a \in Q, b \in Q} : key \in MCKeys}
=============================================================================
