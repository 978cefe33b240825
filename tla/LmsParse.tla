------------------------------ MODULE LmsParse ------------------------------
(***************************************************************************)
(* How an LMS public key and signature are parsed                          *)
(* (src/crates/lms-verify/src/lib.rs).  A public key is a record with its  *)
(* length in bytes, its two typecodes and the rest; so is a signature,     *)
(* with its leaf index q.  A check that fails returns its Error; "none" is *)
(* a parse that went through.                                              *)
(***************************************************************************)
EXTENDS Winternitz

KeyError(key) ==
    IF key.len # PublicKeyLen THEN "BadLength"
    ELSE IF key.lmsType \notin DOMAIN Lms THEN "UnknownLmsType"
    ELSE IF key.otsType \notin DOMAIN Lmots THEN "UnknownLmotsType"
    ELSE "none"

\* An index one past the last leaf let through.
SizeErrorPastTheEnd(key, s) ==
    IF KeyError(key) # "none" THEN KeyError(key)
    ELSE IF s.len # SignatureLen(Lmots[key.otsType], Lms[key.lmsType]) THEN "BadLength"
    ELSE IF s.q > Capacity(Lms[key.lmsType]) THEN "BadIndex"
    ELSE "none"

\* The lengths and the leaf index, before the signature's own typecodes.
SizeError(key, s) ==
    IF KeyError(key) # "none" THEN KeyError(key)
    ELSE IF s.len # SignatureLen(Lmots[key.otsType], Lms[key.lmsType]) THEN "BadLength"
    ELSE IF s.q >= Capacity(Lms[key.lmsType]) THEN "BadIndex"
    ELSE "none"

\* verification_cost_with checks nothing else.
CostError(key, s) == SizeError(key, s)

\* verify_with, before it hashes anything.
ParseError(key, s) ==
    IF SizeError(key, s) # "none" THEN SizeError(key, s)
    ELSE IF s.lmsType # key.lmsType THEN "TypeMismatch"
    ELSE IF s.otsType # key.otsType THEN "TypeMismatch"
    ELSE "none"

\* declared_signature_len on a buffer that starts with s and holds avail bytes:
\* what is wrong with it, and otherwise the length its own typecodes declare.
DeclaredError(s, avail) ==
    IF avail < 8 THEN "BadLength"
    ELSE IF s.otsType \notin DOMAIN Lmots THEN "UnknownLmotsType"
    ELSE IF avail < 4 + OtsSigLen(Lmots[s.otsType]) + 4 THEN "BadLength"
    ELSE IF s.lmsType \notin DOMAIN Lms THEN "UnknownLmsType"
    ELSE IF avail < SignatureLen(Lmots[s.otsType], Lms[s.lmsType]) THEN "BadLength"
    ELSE "none"

DeclaredLen(s) == SignatureLen(Lmots[s.otsType], Lms[s.lmsType])
=============================================================================
