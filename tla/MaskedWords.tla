----------------------------- MODULE MaskedWords -----------------------------
(***************************************************************************)
(* Computing with the gadgets of src/crates/masked/src/lib.rs: registers    *)
(* that hold shares, any gadget on any of them, any randomness.            *)
(***************************************************************************)
EXTENDS MaskedGadgets

CONSTANT Reg

VARIABLES
    shares,        \* the two Boolean shares of each register
    last,          \* the last call, with its registers and public words
    arith          \* the pair of arithmetic shares it returned, if any

vars == <<shares, last, arith>>

Init == shares \in [Reg -> Shares] /\ last = <<"start">> /\ arith = {}

Set(d, m) == shares' = [shares EXCEPT ![d] = m] /\ arith' = {}

New(d) ==
    \E x, r \in Word :
        last' = <<"load", d, x>> /\ Set(d, Mask(x, r))
FromShares(d) ==
    \E m \in Shares :
        last' = <<"load", d, Unmask(m)>> /\ Set(d, m)
RefreshOf(d) ==
    \E r \in Word :
        last' = <<"refresh", d>> /\ Set(d, Refresh(shares[d], r))
XorOf(d, s, o) ==
    last' = <<"xor", d, s, o>> /\ Set(d, XorGadget(shares[s], shares[o]))
XorPublic(d, s) ==
    \E word \in Word :
        last' = <<"xorPublic", d, s, word>> /\ Set(d, XorPublicGadget(shares[s], word))
NotOf(d, s) ==
    last' = <<"not", d, s>> /\ Set(d, NotGadget(shares[s]))
AndOf(d, s, o) ==
    \E r \in Word :
        last' = <<"and", d, s, o>> /\ Set(d, AndGadget(shares[s], shares[o], r))
OrOf(d, s, o) ==
    \E r \in Word :
        last' = <<"or", d, s, o>> /\ Set(d, OrGadget(shares[s], shares[o], r))

\* The first share is the masked word, the second the mask that stays.
Convert(s) ==
    /\ last' = <<"convert", s>>
    /\ \E gamma \in Word :
        arith' = {[a |-> BooleanToArithmetic(shares[s].a, shares[s].b, gamma),
                   r |-> shares[s].b]}
    /\ UNCHANGED shares

Next ==
    \E d, s \in Reg :
        \/ New(d) \/ FromShares(d) \/ RefreshOf(d)
        \/ XorPublic(d, s) \/ NotOf(d, s) \/ Convert(s)
        \/ \E o \in Reg : XorOf(d, s, o) \/ AndOf(d, s, o) \/ OrOf(d, s, o)

Spec == Init /\ [][Next]_vars

-----------------------------------------------------------------------------
TypeOK == shares \in [Reg -> Shares]

Value == [d \in Reg |-> Unmask(shares[d])]
Sum == {Add(t.a, t.r) : t \in arith}
Plain == INSTANCE PlainWords WITH value <- Value, sum <- Sum

\* However the gadgets are chained, aliased and randomised, the words their
\* shares stand for are those the plain operations compute.
ComputesOnSecrets == Plain!Spec
=============================================================================
