------------------------------- MODULE Probing -------------------------------
(***************************************************************************)
(* What one probe on a gadget of src/crates/masked/src/lib.rs sees.  A      *)
(* routine is run on two secrets, masked independently; the probe is       *)
(* moved from each value it computes to the next, and sees that value      *)
(* once for each outcome of the random generator.                          *)
(***************************************************************************)
EXTENDS MaskedGadgets, FiniteSets, Naturals

CONSTANT Routine    \* the routines to probe

\* The routines are those below; a word has finitely many bits.
ASSUME RoutineAssumption ==
    /\ Routine \subseteq {"refresh", "xor", "not", "and", "or", "andItself", "convert"}
    /\ IsFiniteSet(Word)

VARIABLES
    routine,
    secret, other,  \* the words it is run on
    probe           \* the place of the value the probe is on

probeVars == <<routine, secret, other, probe>>

\* The words drawn: the masks of the secrets, then the gadgets' own.
Coins == [m : Word, n : Word, r : Word]

Held(m) == <<m.a, m.b>>

\* The values of each routine, in order.
Values(name, u, v, c) ==
    LET m == Mask(u, c.m)
        n == Mask(v, c.n)
        \* an and of a value with itself, refreshed, takes the mask of v for r
        again == Refresh(m, c.r)
    IN  CASE name = "refresh"   -> Held(m) \o Held(again)
          [] name = "xor"       -> Held(m) \o Held(n) \o Held(XorGadget(m, n))
          [] name = "not"       -> Held(m) \o Held(NotGadget(m))
          [] name = "and"       -> Held(m) \o Held(n) \o AndValues(m, n, c.r)
          [] name = "or"        -> AndValues(NotGadget(m), NotGadget(n), c.r)
                                     \o Held(OrGadget(m, n, c.r))
          [] name = "andItself" -> Held(again) \o AndValues(m, again, c.n)
          [] name = "convert"   -> <<c.r>> \o ConversionValues(m.b, m.a, c.r)

ProbeInit ==
    /\ routine \in Routine
    /\ secret \in Word /\ other \in Word
    /\ probe = 1

MoveOn ==
    /\ probe < Len(Values(routine, secret, other, CHOOSE c \in Coins : TRUE))
    /\ probe' = probe + 1
    /\ UNCHANGED <<routine, secret, other>>

ProbeNext == MoveOn

ProbeSpec == ProbeInit /\ [][ProbeNext]_probeVars

-----------------------------------------------------------------------------
\* How often the probe sees each word.
Seen(u, v) ==
    LET at == [c \in Coins |-> Values(routine, u, v, c)[probe]]
    IN  [w \in Word |-> Cardinality({c \in Coins : at[c] = w})]

(***************************************************************************)
(* What is seen at one place does not depend on the secrets: it is seen as *)
(* often as it would be if they were zero.  Each value computed on the way *)
(* is covered, and so is an operand masked twice over by a refresh.        *)
(***************************************************************************)
OneProbeSeesNothing == Seen(secret, other) = Seen(ZERO, ZERO)
=============================================================================
