------------------------------- MODULE MCHss -------------------------------
(***************************************************************************)
(* Hss on signatures of one to three levels, whole or with one part        *)
(* changed, and cut off anywhere or one byte too long; hashes and key      *)
(* identifiers are one byte long, and usize holds sixteen values.          *)
(***************************************************************************)
EXTENDS HssVerdict, FiniteSetsExt

MCLmots == 3 :> [w |-> 4, p |-> 4, ls |-> 8]
MCLms == [t \in {5, 6} |-> [h |-> t - 4]]

Names == {"root", "k1", "k2", "other"}
MCKey == [len : {PublicKeyLen}, lmsType : {0, 5, 6}, otsType : {0, 3}, name : Names]
MCMessage == {[text |-> "m"]}

MCSignature ==
    [q : {0, 9}, otsType : {0, 3}, lmsType : {0, 5, 6},
     by : Names, over : MCKey \cup MCMessage]

MCSigned(key, s, signed) == s.by = key.name /\ s.over = signed

KeyOf(n, t) ==
    [len |-> PublicKeyLen, lmsType |-> t, otsType |-> 3,
     name |-> IF n = 0 THEN "root" ELSE IF n = 1 THEN "k1" ELSE "k2"]
TheMessage == [text |-> "m"]

Signature1(key, over) ==
    [q |-> 0, otsType |-> key.otsType, lmsType |-> key.lmsType,
     by |-> key.name, over |-> over]

\* A signature of length(types) levels, the trees of these types.
Whole(types) ==
    LET last == Len(types) - 1
        key(n) == KeyOf(n, types[IF n <= last THEN n + 1 ELSE last + 1])
        total == 4 + MapThenSumSet(LAMBDA n : SignatureLen(MCLmots[3], MCLms[types[n]]), DOMAIN types)
                   + last * PublicKeyLen
    IN  [pk |-> [len |-> HssPublicKeyLen, levels |-> last + 1, root |-> key(0)],
         msg |-> TheMessage,
         sig |-> [len |-> total, nspk |-> last,
                  part |-> [n \in 0 .. MAX_LEVELS - 1 |->
                    [key |-> key(n + 1),
                     sig |-> Signature1(key(IF n <= last THEN n ELSE last),
                                        IF n < last THEN key(n + 1) ELSE TheMessage)]]]]

Changed(c) ==
    LET Levels == 0 .. c.sig.nspk IN
    {c}
    \cup {[c EXCEPT !.pk.len = @ - 4]}
    \cup {[c EXCEPT !.pk.levels = l] : l \in 0 .. MAX_LEVELS + 1}
    \cup {[c EXCEPT !.sig.nspk = n] : n \in 0 .. MAX_LEVELS \cup {USIZE - 1}}
    \cup {[c EXCEPT !.pk.levels = 0, !.sig.nspk = USIZE - 1]}
    \cup {[c EXCEPT !.pk.levels = MAX_LEVELS + 1, !.sig.nspk = MAX_LEVELS]}
    \cup {[c EXCEPT !.sig.part[n].sig.by = "other"] : n \in Levels}
    \cup {[c EXCEPT !.sig.part[n].sig.q = 9] : n \in Levels}
    \cup {[c EXCEPT !.sig.part[n].sig.otsType = 0] : n \in Levels}
    \cup {[c EXCEPT !.sig.part[n].sig.lmsType = t] : n \in Levels, t \in {0, 5, 6}}
    \cup {[c EXCEPT !.sig.part[n].key.name = "other"] : n \in Levels}
    \cup {[c EXCEPT !.sig.part[n].key = [@ EXCEPT !.otsType = 0],
                    !.sig.part[n].sig.over = [c.sig.part[n].key EXCEPT !.otsType = 0]]
            : n \in Levels \ {c.sig.nspk}}

\* Every length of a whole signature; the changed ones whole, one byte short
\* and without the end of their last signature.
MCCase ==
    LET Wholes == {Whole(types) : types \in UNION {[1 .. n -> {5, 6}] : n \in 1 .. MAX_LEVELS}}
    IN  UNION {{[c EXCEPT !.sig.len = l] : l \in 0 .. c.sig.len + 1} : c \in Wholes}
        \cup UNION {{[d EXCEPT !.sig.len = @ - cut] : cut \in {0, 1, 12}, d \in Changed(c)}
                        : c \in Wholes}

-----------------------------------------------------------------------------
\* The doc comment on Error says of Invalid "Everything parsed", and "the image
\* is intact": an HSS verification that returns it has been through all of it.
InvalidMeansIntact == verdict = "Invalid" => Intact
=============================================================================
