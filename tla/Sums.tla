-------------------------------- MODULE Sums --------------------------------
(***************************************************************************)
(* Running totals: the loops of src/crates/lms-verify/src that add up what  *)
(* they meet at 0, 1, 2, ..., and the frames of a path of calls.           *)
(***************************************************************************)
EXTENDS Integers

\* a[0] + ... + a[n - 1].
Total(a, n) ==
    LET s[m \in Nat] == IF m = 0 THEN 0 ELSE s[m - 1] + a[m - 1]
    IN  s[n]
=============================================================================
