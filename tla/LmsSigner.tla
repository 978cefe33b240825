----------------------------- MODULE LmsSigner -----------------------------
(***************************************************************************)
(* A key pair and its signatures, as src/crates/lms-verify/src/test_signer.rs *)
(* makes them: the reference the verifier is held against.  A key is kept  *)
(* with one leaf it signs with; the other leaves, and the secrets, are     *)
(* opaque.                                                                 *)
(***************************************************************************)
EXTENDS Winternitz, LmsTerms

Secret(q, n) == <<"x", q, n>>

\* chain, the links from one to another.
chain(id, q, n, start, from, to) ==
    LET v[m \in Nat] ==
            IF m = 0 THEN start
            ELSE Hash(<<id, U32(q), U16(n), U8(from + m - 1), v[m - 1]>>)
    IN  v[to - from]

ChainValue(key, n, l) == chain(key.id, key.leaf, n, Secret(key.leaf, n), 0, l)

\* The LM-OTS public key of the leaf: the ends of its chains.
LeafKey(key) ==
    Hash(<<key.id, U32(key.leaf), U16(D_PBLC)>> \o
         [n \in 1 .. key.ots.p |-> ChainValue(key, n - 1, ChainLen(key.ots))])

\* node /= 2, d times, from the leaf.
PathNode(key, d) ==
    LET r[m \in Nat] == IF m = 0 THEN Pow2(key.lms.h) + key.leaf ELSE r[m - 1] \div 2
    IN  r[d]

\* nodes[r], from the leaves upwards; off the leaf's path an opaque value.
OnPath(key, r) == \E d \in 0 .. key.lms.h : r = PathNode(key, d)
TreeNode(key, r) ==
    LET leaves == Pow2(key.lms.h)
        nodes[n \in 1 .. 2 * leaves - 1] ==
            IF ~OnPath(key, n) THEN <<"node", n>>
            ELSE IF n >= leaves
                THEN Hash(<<key.id, U32(n), U16(D_LEAF), LeafKey(key)>>)
                ELSE Hash(<<key.id, U32(n), U16(D_INTR), nodes[2 * n], nodes[2 * n + 1]>>)
    IN  nodes[r]

PublicKey(key) ==
    [len |-> PublicKeyLen, lmsType |-> key.lmsType, otsType |-> key.otsType,
     id |-> key.id, root |-> TreeNode(key, 1)]

\* What sign hashes into Q.
SignedPreimage(key, c, m) == <<key.id, U32(key.leaf), U16(D_MESG), c, m>>

\* The sibling of a node: r ^ 1.
Sibling(r) == IF r % 2 = 0 THEN r + 1 ELSE r - 1

\* sign, for a message whose Q has these bytes.
Sign(key, c, bytes) ==
    LET QC == WithChecksum(bytes, key.ots)
    IN  [len |-> SignatureLen(key.ots, key.lms), q |-> key.leaf,
         otsType |-> key.otsType, lmsType |-> key.lmsType, c |-> c,
         y |-> [n \in 1 .. key.ots.p |-> ChainValue(key, n - 1, Coef(QC, n - 1, key.ots.w))],
         path |-> [d \in 1 .. key.lms.h |-> TreeNode(key, Sibling(PathNode(key, d - 1)))]]
=============================================================================
