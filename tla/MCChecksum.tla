----------------------------- MODULE MCChecksum -----------------------------
(***************************************************************************)
(* Checksum on the published parameter sets, and the published budget       *)
(* against the model of the cost and the lengths.                          *)
(***************************************************************************)
EXTENDS Checksum, BootBudget

\* The ends of the range and their neighbours: every carry of the sum happens.
MCCoefs(ots) == {0, 1, ChainLen(ots) - 1, ChainLen(ots)}

\* The rows of the table that are computed, with the parameter sets they name.
Published ==
    {[row |-> scheme("LMS w8/h5"),  ots |-> Lmots[4], lms |-> Lms[5]],
     [row |-> scheme("LMS w8/h10"), ots |-> Lmots[4], lms |-> Lms[6]],
     [row |-> scheme("LMS w4/h10"), ots |-> Lmots[3], lms |-> Lms[6]]}

IMAGE == 32 * 1024

(***************************************************************************)
(* What the budget table calls typical, against the digests it is typical   *)
(* of: a digest and its complement, which are equally likely, cost no less  *)
(* between them than twice the typical figure, and no more than that and    *)
(* the chains of the checksum, which are no uniform coefficients.  The      *)
(* published rows give the typical figure for an image of 32 KiB.          *)
(***************************************************************************)
TypicalIsAtMostTheMean ==
    field = set.p =>
        /\ \A t \in DOMAIN Lms :
            LET pair == 2 * FixedCost(set, Lms[t], IMAGE) + links
                            + LinksOf(Fields(set) * ChainLen(set) - sum)
                typical == 2 * Typical(set, Lms[t], IMAGE)
            IN  typical <= pair /\ pair <= typical + CksCoefs(set) * ChainLen(set) + 1
        /\ \A r \in Published :
            r.ots = set => r.row.verify_hashes = Bounds(set, r.lms, IMAGE).typical

\* The rest of the table has not drifted from what it is copied from.
ASSUME \A r \in Published :
    r.row.public_key = PublicKeyLen /\ per_image_overhead(r.row) = SignatureLen(r.ots, r.lms)

\* What AcceptsItsOwnSetsOnly rests on, for the published sets.
ASSUME \A a, b \in DOMAIN Lmots, c, d \in DOMAIN Lms :
    SignatureLen(Lmots[a], Lms[c]) = SignatureLen(Lmots[b], Lms[d]) => a = b /\ c = d

ASSUME LET m == measurement(REPRESENTATIVE) IN \E t \in ON_TARGET :
    /\ t.backend = "software"
    /\ scheme("LMS w8/h5").code = m.code_total
    /\ scheme("LMS w8/h5").ram = total_ram(t)
    /\ m.stack_lower_bound < total_ram(t)

ASSUME \A m \in LMS_MEASUREMENTS : code_marginal(m) < m.code_sha_only
=============================================================================
