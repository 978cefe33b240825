----------------------------- MODULE MCCtProbe -----------------------------
(***************************************************************************)
(* CtProbe with the published crops, on a few trials.                      *)
(***************************************************************************)
EXTENDS CtProbe

MCCrops == <<Whole(1), Fraction(95, 100), Fraction(90, 100), Fraction(80, 100),
             Fraction(70, 100), Fraction(60, 100), Fraction(40, 100), Fraction(20, 100)>>

MCThreshold == Fraction(3, 2)
=============================================================================
