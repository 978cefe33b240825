------------------------------ MODULE MCLmsOnHw ------------------------------
(***************************************************************************)
(* LmsOnHw on the cases of MCLms.                                          *)
(***************************************************************************)
EXTENDS LmsOnHw, MCLms

\* One genuine and one rejected signature of each key.
MCHwCase ==
    UNION {{Signed(key, <<a>>, <<b>>), [Signed(key, <<a>>, <<b>>) EXCEPT !.sig.c = Junk]} :
                key \in MCKeys, a \in Q, b \in Q}
=============================================================================
