---------------------------- MODULE MaskedGadgets ----------------------------
(***************************************************************************)
(* The gadgets of src/crates/masked/src/lib.rs.  A secret is split into two *)
(* shares whose exclusive or it is; a gadget computes on the shares and    *)
(* never joins them.  A gadget that needs randomness takes it as r.        *)
(*                                                                         *)
(* Where it matters which values exist on the way, a gadget is the         *)
(* sequence of all of them, in the order the code computes them, and its   *)
(* result is picked out of that.                                           *)
(***************************************************************************)
EXTENDS Sequences

CONSTANTS      \* the trait Word
    Word, ZERO,
    Xor(_, _), And(_, _), Or(_, _), Not(_),
    Add(_, _), Sub(_, _)

\* What the trait asks for: bitwise operations, and wrapping arithmetic.
ASSUME WordAssumption ==
    /\ ZERO \in Word
    /\ \A x \in Word : Not(x) \in Word
    /\ \A x, y \in Word :
        Xor(x, y) \in Word /\ And(x, y) \in Word /\ Add(x, y) \in Word /\ Sub(x, y) \in Word

ASSUME XorAssumption ==
    /\ \A x \in Word : Xor(x, x) = ZERO /\ Xor(x, ZERO) = x
    /\ \A x, y \in Word : Xor(x, y) = Xor(y, x)
    /\ \A x, y, z \in Word : Xor(Xor(x, y), z) = Xor(x, Xor(y, z))

ASSUME AndAssumption ==
    /\ \A x, y \in Word : And(x, y) = And(y, x)
    /\ \A x, y, z \in Word : And(x, Xor(y, z)) = Xor(And(x, y), And(x, z))

ASSUME NotAssumption ==
    \A x, y \in Word :
        /\ Xor(Not(x), y) = Not(Xor(x, y))
        /\ Or(x, y) = Not(And(Not(x), Not(y)))

ASSUME SubAssumption ==
    \A x, y \in Word :
        Add(Sub(x, y), y) = x /\ Sub(Add(x, y), y) = x /\ Add(x, y) = Add(y, x)

\* What Goubin's conversion rests on: for words of any number of bits this is
\* linear in its mask g.
Phi(x, g) == Xor(Sub(Xor(x, g), g), x)

ASSUME GoubinAssumption ==
    \A x, g, h \in Word : Phi(x, Xor(g, h)) = Xor(Phi(x, g), Phi(x, h))

Shares == [a : Word, b : Word]

-----------------------------------------------------------------------------
\* Masked::new
Mask(x, r) == [a |-> r, b |-> Xor(r, x)]

Unmask(m) == Xor(m.a, m.b)

\* The second share forgotten.
RefreshHalf(m, r) == [m EXCEPT !.a = Xor(m.a, r)]

Refresh(m, r) == [a |-> Xor(m.a, r), b |-> Xor(m.b, r)]

XorGadget(m, n) == [a |-> Xor(m.a, n.a), b |-> Xor(m.b, n.b)]
XorPublicGadget(m, word) == [m EXCEPT !.a = Xor(m.a, word)]
NotGadget(m) == [m EXCEPT !.a = Not(m.a)]

\* The mask folded in after the cross terms.
AndValuesLateMask(m, n, r) ==
    LET z0 == Xor(And(m.a, n.a), r)
        t2 == Xor(And(m.b, n.b), And(m.b, n.a))
        t3 == Xor(t2, And(m.a, n.b))
    IN  <<And(m.a, n.a), z0, And(m.b, n.b), And(m.b, n.a), t2, And(m.a, n.b), t3, Xor(t3, r)>>

\* Every value the and of m and n computes, the two result shares at 2 and 8.
AndValues(m, n, r) ==
    LET z0 == Xor(And(m.a, n.a), r)
        t1 == Xor(And(m.b, n.b), r)
        t2 == Xor(t1, And(m.b, n.a))
    IN  <<And(m.a, n.a), z0, And(m.b, n.b), t1, And(m.b, n.a), t2,
          And(m.a, n.b), Xor(t2, And(m.a, n.b))>>

AndGadget(m, n, r) == [a |-> AndValues(m, n, r)[2], b |-> AndValues(m, n, r)[8]]

OrGadget(m, n, r) == NotGadget(AndGadget(NotGadget(m), NotGadget(n), r))

\* Every value boolean_to_arithmetic computes from the shares x and r.
ConversionValues(x, r, gamma) ==
    LET t    == Sub(Xor(x, gamma), gamma)
        mask == Xor(gamma, r)
        a    == Sub(Xor(x, mask), mask)
    IN  <<Xor(x, gamma), t, Xor(t, x), mask, Xor(x, mask), a, Xor(a, Xor(t, x))>>

BooleanToArithmetic(x, r, gamma) == ConversionValues(x, r, gamma)[7]
=============================================================================
