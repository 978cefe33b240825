------------------------------ MODULE MCMasked ------------------------------
(***************************************************************************)
(* MaskedWords and Probing on words of a few bits: a behaviour either makes *)
(* calls or moves a probe, and leaves the variables of the other alone.    *)
(***************************************************************************)
EXTENDS MaskedWords, Probing, MCWords

NoCalls == shares = [d \in Reg |-> Mask(ZERO, ZERO)] /\ last = <<"start">>
NoProbe == routine = "refresh" /\ secret = ZERO /\ other = ZERO /\ probe = 1

MCInit == Init /\ ProbeInit /\ (NoCalls \/ NoProbe)

MCNext ==
    \/ NoProbe /\ Next /\ UNCHANGED probeVars
    \/ NoCalls /\ ProbeNext /\ UNCHANGED vars

MCSpec == MCInit /\ [][MCNext]_<<vars, probeVars>>
=============================================================================
