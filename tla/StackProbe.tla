----------------------------- MODULE StackProbe -----------------------------
(***************************************************************************)
(* The stack probe of src/esp-probe/src/main.rs: paint what is below the   *)
(* stack pointer, verify, and read how far the pattern is gone.  It runs a  *)
(* binary whose call graph the script of StackGraph has analysed before.    *)
(*                                                                         *)
(* Addresses and sizes are counted in words; the stack grows down.  Main's  *)
(* own stack pointer is SP; a function with its frame at sp owns the words  *)
(* sp .. sp + frame - 1 and writes any of them.  Verifications go before   *)
(* the painted one, for the caches and for the clock, and leave what they   *)
(* wrote where they wrote it.                                              *)
(***************************************************************************)
EXTENDS StackGraph, BootBudget

CONSTANTS
    SP,            \* main's stack pointer
    MARGIN,        \* the 512 bytes left unpainted under the pointer
    PaintFrame     \* the frame of paint_window, above that margin

\* bin.rounds are the windows painted, one after another, none for a binary that
\* is only analysed; bin.limit is its _stack_end, the stack's lowest address.
ASSUME BoardAssumption ==
    /\ SP \in Nat /\ MARGIN \in Nat /\ PaintFrame \in 0 .. SP
    /\ \A b \in Binary : b.rounds \in Seq(Nat) /\ b.limit \in 0 .. SP

VARIABLES
    round, phase,  \* which window, and what main is doing with it
    active,        \* the frames of the verification running, the outermost first
    painted,       \* the words that hold PAINT
    window,        \* [bottom, top] of what was painted, or None
    low,           \* the lowest the stack pointer got in the measured run
    dense,         \* each frame of that run wrote its lowest word
    used           \* what stack_watermark answered

boardVars == <<round, phase, active, painted, window, low, dense, used>>
vars == <<graphVars, boardVars>>

None == [is |-> "None"]
Some(v) == [is |-> "Some", val |-> v]

-----------------------------------------------------------------------------
ProbeInit ==
    /\ Init
    /\ round = 1 /\ phase = "warm" /\ active = <<>>
    /\ painted = {} /\ window = None
    /\ low = SP /\ dense = TRUE /\ used = None

Verifying == phase \in {"warm", "timed", "measured"}

\* A frame for f under the address base, of which it writes some words.  What
\* is remembered of a run is of the measured one only.
Push(f, base, callers) ==
    LET sp == base - bin.frame[f] IN
        /\ sp >= bin.limit                 \* bound: the stack does not overflow
        /\ active' = Append(callers, [fn |-> f, sp |-> sp])
        /\ \E written \in SUBSET (sp .. base - 1) :
            /\ painted' = painted \ written
            /\ IF phase = "measured"
                THEN /\ low' = IF sp < low THEN sp ELSE low
                     /\ dense' = (dense /\ (bin.frame[f] > 0 => sp \in written))
                ELSE UNCHANGED <<low, dense>>
        /\ UNCHANGED <<round, phase, window, used>>

Innermost == active[Len(active)]
Callers == SubSeq(active, 1, Len(active) - 1)

\* Main calls the verifier.
Begin == Verifying /\ active = <<>> /\ Push(Root, SP, <<>>)

\* A function calls another, by name or through a register.
Calls(s) ==
    /\ Verifying /\ active # <<>>
    /\ s.in = Innermost.fn /\ s.as \in {"call", "register"}
    /\ Push(s.to, Innermost.sp, active)

\* A tail call gives up the caller's frame first.
TailCalls(s) ==
    /\ Verifying /\ active # <<>>
    /\ s.in = Innermost.fn /\ s.as = "branch"
    /\ Push(s.to, Innermost.sp + bin.frame[Innermost.fn], Callers)

\* What main does when the verifier returns.
After == [warm |-> "timed", timed |-> "paint", measured |-> "read"]

Returns ==
    /\ Verifying /\ active # <<>>
    /\ active' = Callers
    /\ phase' = IF Callers = <<>> THEN After[phase] ELSE phase
    /\ UNCHANGED <<round, painted, window, low, dense, used>>

-----------------------------------------------------------------------------
AtLeast(a, b) == IF a >= b THEN a ELSE b

\* paint_window: top and bottom of the window, which may not fit.
TopOf == SP - PaintFrame - MARGIN
BottomOf(size) == AtLeast(AtLeast(TopOf - size, 0), bin.limit)

NextRound == round' = round + 1 /\ phase' = "warm"

PaintFails ==
    /\ phase = "paint"
    /\ TopOf < 0 \/ BottomOf(bin.rounds[round]) >= TopOf
    /\ NextRound
    /\ window' = None /\ used' = None
    /\ UNCHANGED <<active, painted, low, dense>>

\* A window painted once for all rounds.
PatternOnce(bottom, top) == IF round = 1 THEN bottom .. top - 1 ELSE {}

\* Every word of the window, whatever it holds.
Pattern(bottom, top) == bottom .. top - 1

Paint ==
    /\ phase = "paint"
    /\ LET bottom == BottomOf(bin.rounds[round]) IN
        /\ TopOf >= 0 /\ bottom < TopOf
        /\ painted' = painted \cup Pattern(bottom, TopOf)
        /\ window' = Some([bottom |-> bottom, top |-> TopOf])
    /\ phase' = "measured"
    /\ low' = SP /\ dense' = TRUE /\ used' = None
    /\ UNCHANGED <<round, active>>

Lowest(S) == CHOOSE a \in S : \A b \in S : a <= b

\* The other end taken for the bottom; and the search made from the top down.
WatermarkSwapped(bottom, top) ==
    LET gone == (bottom .. top - 1) \ painted
        p == IF gone = {} THEN top ELSE Lowest(gone)
    IN  IF p = top THEN None ELSE Some(top - p)

WatermarkFromTop(bottom, top) ==
    LET kept == (bottom .. top - 1) \cap painted
        p == IF kept = {} THEN bottom ELSE 1 + CHOOSE a \in kept : \A b \in kept : a >= b
    IN  IF p = bottom THEN None ELSE Some(top - p)

\* stack_watermark: up from the bottom to the first word that is not PAINT.
Watermark(bottom, top) ==
    LET gone == (bottom .. top - 1) \ painted
        p == IF gone = {} THEN top ELSE Lowest(gone)
    IN  IF p = bottom THEN None ELSE Some(top - p)

Read ==
    /\ phase = "read"
    /\ used' = Watermark(window.val.bottom, window.val.top)
    /\ phase' = "report"
    /\ UNCHANGED <<round, active, painted, window, low, dense>>

\* The answer is printed, and the next round starts.
Report ==
    /\ phase = "report"
    /\ NextRound
    /\ UNCHANGED <<active, painted, window, low, dense, used>>

\* One round after another, once the script is done.
Board ==
    /\ Ended /\ verdict = "total" /\ round \in DOMAIN bin.rounds
    /\ \/ Begin \/ Returns \/ PaintFails \/ Paint \/ Read \/ Report
       \/ \E s \in bin.sites : Calls(s) \/ TailCalls(s)
    /\ UNCHANGED graphVars

Script == Walk /\ UNCHANGED boardVars

Next == Script \/ Board

Spec == ProbeInit /\ [][Next]_vars /\ WF_vars(Script)

-----------------------------------------------------------------------------
Measured == phase = "report" /\ window # None

(***************************************************************************)
(* An answer is no more than the painted run used of the window: what runs *)
(* before it left in the window is painted over.                           *)
(***************************************************************************)
WatermarkNeverOverstates ==
    Measured /\ used # None => used.val = 0 \/ low <= window.val.top - used.val

\* And no answer means that the run went to the bottom of the window.
SilenceMeansTheWindow ==
    Measured /\ used = None => low <= window.val.bottom

(***************************************************************************)
(* The budget made of a measurement: a part it refuses really is too small, *)
(* and one it accepts is too small by no more than what lies above the      *)
(* window, if each frame wrote its last word and the window was not left.  *)
(***************************************************************************)
Probed == [public_key |-> 0, code |-> 0, ram |-> used.val]
PartOf(ram) == [otp |-> ROOT_DIGEST_OTP, flash |-> 0, ram |-> ram]

BudgetIsRightToTheMargin ==
    Measured /\ used # None =>
        \A ram \in 0 .. SP :
            /\ Fits(Probed, PartOf(ram)) = "RamExceeded" => SP - low > ram
            /\ Fits(Probed, PartOf(ram)) = "Fits" /\ dense /\ window.val.bottom < low
                => SP - low <= ram + (SP - window.val.top)

\* Nothing is hidden from the script: it bounds every stack the binary has.
Complete ==
    /\ \A s \in bin.sites : s.as = "call" /\ s.in \in bin.dumped
    /\ \A f \in Fn : bin.frame[f] \in bin.listed[f]

CompleteGraphBounds ==
    verdict = "total" /\ Complete =>
        /\ \A n \in DOMAIN active : SP - active[n].sp <= best[Root]
        /\ SP - low <= best[Root]

(***************************************************************************)
(* measurements.rs: stack_frames is the "Peak stack of the verification's   *)
(* own frames"; here, of runs that write every frame's last word and stay   *)
(* inside the window.                                                      *)
(***************************************************************************)
MeasuredIsThePeak ==
    Measured /\ used # None /\ dense /\ window.val.bottom < low => used.val = SP - low
=============================================================================
