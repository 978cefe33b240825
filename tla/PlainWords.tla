------------------------------ MODULE PlainWords ------------------------------
(***************************************************************************)
(* What the gadgets of src/crates/masked compute, without the masks:        *)
(* registers that hold words, and the operations of the trait Word.  Which  *)
(* call was made last is part of the state, so that a wrong result of one   *)
(* call cannot pass for the right one of another.                          *)
(***************************************************************************)
CONSTANTS Reg, Word, Xor(_, _), And(_, _), Or(_, _), Not(_)

VARIABLES
    value,         \* the word each register holds
    last,          \* the last call, with its registers and public words
    sum            \* what the two arithmetic shares it returned add up to, if any

vars == <<value, last, sum>>

Init == value \in [Reg -> Word] /\ last = <<"start">> /\ sum = {}

Set(d, x) == value' = [value EXCEPT ![d] = x] /\ sum' = {}

Load(d, x) == last' = <<"load", d, x>> /\ Set(d, x)
Refresh(d) == last' = <<"refresh", d>> /\ Set(d, value[d])
XorOf(d, s, o) == last' = <<"xor", d, s, o>> /\ Set(d, Xor(value[s], value[o]))
XorPublic(d, s, word) == last' = <<"xorPublic", d, s, word>> /\ Set(d, Xor(value[s], word))
NotOf(d, s) == last' = <<"not", d, s>> /\ Set(d, Not(value[s]))
AndOf(d, s, o) == last' = <<"and", d, s, o>> /\ Set(d, And(value[s], value[o]))
OrOf(d, s, o) == last' = <<"or", d, s, o>> /\ Set(d, Or(value[s], value[o]))
Convert(s) == last' = <<"convert", s>> /\ sum' = {value[s]} /\ UNCHANGED value

Next ==
    \E d, s \in Reg :
        \/ Refresh(d) \/ NotOf(d, s) \/ Convert(s)
        \/ \E o \in Reg : XorOf(d, s, o) \/ AndOf(d, s, o) \/ OrOf(d, s, o)
        \/ \E word \in Word : Load(d, word) \/ XorPublic(d, s, word)

Spec == Init /\ [][Next]_vars
=============================================================================
