---------------------------- MODULE ChainOfTrust ----------------------------
(***************************************************************************)
(* What an HSS verification promises, without a byte of its format         *)
(* (src/crates/lms-verify/src/hss.rs, "What the verifier does"): only the  *)
(* root is trusted to begin with; a key becomes trusted when one of the    *)
(* signatures that came with the message is the last trusted key's on it;  *)
(* the message is accepted when one of them is that of the last key of a   *)
(* chain as long as the root says.                                         *)
(***************************************************************************)
EXTENDS Naturals, Sequences

CONSTANTS
    Key, Message, Signature,
    Signed(_, _, _)           \* key, signature, what was signed

VARIABLES
    levels,        \* how long the root says the chain is
    message,       \* what is to be accepted
    presented,     \* the signatures that came with it
    trusted,       \* the keys trusted so far, the root first
    outcome        \* "open", "accepted" or "rejected"

vars == <<levels, message, presented, trusted, outcome>>

question == <<levels, message, presented>>

LastTrusted == trusted[Len(trusted)]

Init ==
    /\ levels \in Nat /\ message \in Message /\ presented \subseteq Signature
    /\ \E root \in Key : trusted = <<root>>
    /\ outcome = "open"

\* The next key of the chain, signed by the last.
Trust(key) ==
    /\ outcome = "open"
    /\ trusted' = Append(trusted, key)
    /\ Len(trusted) < levels
    /\ \E signature \in presented : Signed(LastTrusted, signature, key)
    /\ UNCHANGED <<question, outcome>>

Accept ==
    /\ outcome = "open" /\ outcome' = "accepted"
    /\ Len(trusted) = levels
    /\ \E signature \in presented : Signed(LastTrusted, signature, message)
    /\ UNCHANGED <<question, trusted>>

Reject ==
    /\ outcome = "open"
    /\ outcome' = "rejected"
    /\ UNCHANGED <<question, trusted>>

Next ==
    \/ \E key \in Key : Trust(key)
    \/ Accept
    \/ Reject

Spec == Init /\ [][Next]_vars
=============================================================================
