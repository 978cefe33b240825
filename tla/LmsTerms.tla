------------------------------ MODULE LmsTerms ------------------------------
(***************************************************************************)
(* What LMS hashes, as terms.  A preimage is a sequence of tokens, one for *)
(* each field: an integer with its width, or an opaque value.  SHA-256 is  *)
(* without collisions: a digest is the term of its preimage.               *)
(***************************************************************************)

U32(n) == <<"u32", n>>
U16(n) == <<"u16", n>>
U8(n) == <<"u8", n>>

Hash(preimage) == <<"H", preimage>>
=============================================================================
