----------------------------- MODULE MCHwSha256 -----------------------------
(***************************************************************************)
(* HwSha256 on a buffer of three bytes: updates shorter than the buffer,    *)
(* as long as it, and longer, so that every way an input can straddle the  *)
(* end of the buffer happens.                                              *)
(***************************************************************************)
EXTENDS HwSha256

CONSTANTS a, b

MCByte == {a, b}
MCInput == {<<>>, <<a>>, <<b, a>>, <<a, b, b, a>>}

\* SHA-256 without its collisions.
MCSha256(bytes) == <<"H", bytes>>
=============================================================================
