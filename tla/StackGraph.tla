----------------------------- MODULE StackGraph -----------------------------
(***************************************************************************)
(* src/size-probe/stackgraph.py: the heaviest path of a binary's call      *)
(* graph, by a walk that colours the functions it has met.                 *)
(*                                                                         *)
(* A binary has more calls than its disassembly shows the script: a call    *)
(* through a register names no target, and a tail call is a plain branch.  *)
(* Its functions may have no entry among the frame sizes, or several.      *)
(***************************************************************************)
EXTENDS Integers, Sequences, FiniteSets

CONSTANTS
    Fn,            \* the functions
    Root,          \* the entry point asked for
    Binary         \* the binaries to analyse

IsBinary(b) ==
    /\ b.frame \in [Fn -> Nat]                     \* the frames there really are
    /\ b.listed \in [Fn -> SUBSET Nat]             \* the sizes .stack_sizes gives
    /\ \A f \in Fn : b.listed[f] \subseteq 0 .. b.frame[f]
    /\ b.dumped \subseteq Fn                       \* those the disassembly has
    /\ b.sites \subseteq [in : Fn, as : {"call", "register", "branch"}, to : Fn]

ASSUME BinaryAssumption ==
    IsFiniteSet(Fn) /\ Root \in Fn /\ \A b \in Binary : IsBinary(b)

VARIABLES
    bin,           \* the binary, which nothing changes
    colour, best,  \* of each function
    stack,         \* the calls of walk in progress, the outermost first
    todo, deepest, \* of each function on the stack: callees left, heaviest met
    verdict,       \* "none", or what the script ends with
    printed        \* the functions -v has printed

graphVars == <<bin, colour, best, stack, todo, deepest, verdict, printed>>

\* Sizes under one name added up.
FramesSummed(f) ==
    LET sum[S \in SUBSET bin.listed[f]] ==
            IF S = {} THEN 0 ELSE LET n == CHOOSE n \in S : TRUE IN n + sum[S \ {n}]
    IN  sum[bin.listed[f]]

Largest(S) == IF S = {} THEN 0 ELSE CHOOSE n \in S : \A m \in S : m <= n

\* The sizes are gathered under one name: the largest counts, no size is 0.
Frames(f) == Largest(bin.listed[f])

\* The calls whose target the line names.
Edges(f) ==
    IF f \in bin.dumped
    THEN {s.to : s \in {t \in bin.sites : t.in = f /\ t.as = "call"}}
    ELSE {}

Larger(a, b) == IF a >= b THEN a ELSE b

Top == stack[Len(stack)]

-----------------------------------------------------------------------------
Init ==
    /\ bin \in Binary
    /\ colour = [f \in Fn |-> "white"] /\ best = [f \in Fn |-> 0]
    /\ stack = <<>>
    /\ todo = [f \in Fn |-> {}] /\ deepest = [f \in Fn |-> 0]
    /\ verdict = "none" /\ printed = <<>>

\* walk(f), up to its first callee; left is what the other walks have to do.
Enter(f, left) ==
    /\ stack' = Append(stack, f)
    /\ colour' = [colour EXCEPT ![f] = "grey"]
    /\ todo' = [left EXCEPT ![f] = Edges(f)]
    /\ deepest' = [deepest EXCEPT ![f] = 0]

NotFound ==
    /\ verdict = "none" /\ stack = <<>>
    /\ Root \notin bin.dumped /\ bin.listed[Root] = {}
    /\ verdict' = "not found"
    /\ UNCHANGED <<bin, colour, best, stack, todo, deepest, printed>>

Start ==
    /\ verdict = "none" /\ stack = <<>>
    /\ Root \in bin.dumped \/ bin.listed[Root] # {}
    /\ Enter(Root, todo)
    /\ UNCHANGED <<bin, best, verdict, printed>>

\* The next callee of the function on top; a set gives them in any order.
Takes(c) ==
    /\ verdict = "none" /\ stack # <<>>
    /\ c \in todo[Top]

\* A callee that is being walked taken for one that is done.
RecursionPassed(c) ==
    /\ Takes(c) /\ colour[c] = "grey"
    /\ todo' = [todo EXCEPT ![Top] = @ \ {c}]
    /\ UNCHANGED <<bin, colour, best, stack, deepest, verdict, printed>>

Recursion(c) ==
    /\ Takes(c) /\ colour[c] = "grey"
    /\ verdict' = "recursion"
    /\ UNCHANGED <<bin, colour, best, stack, todo, deepest, printed>>

\* A callee that is done forgotten; and met again and again.
ReuseUnweighed(c) ==
    /\ Takes(c) /\ colour[c] = "black"
    /\ todo' = [todo EXCEPT ![Top] = @ \ {c}]
    /\ UNCHANGED <<bin, colour, best, stack, deepest, verdict, printed>>

ReuseAgain(c) ==
    /\ Takes(c) /\ colour[c] = "black"
    /\ deepest' = [deepest EXCEPT ![Top] = Larger(@, best[c])]
    /\ UNCHANGED <<bin, colour, best, stack, todo, verdict, printed>>

\* A callee that is done is not walked again.
Reuse(c) ==
    /\ Takes(c) /\ colour[c] = "black"
    /\ todo' = [todo EXCEPT ![Top] = @ \ {c}]
    /\ deepest' = [deepest EXCEPT ![Top] = Larger(@, best[c])]
    /\ UNCHANGED <<bin, colour, best, stack, verdict, printed>>

Descend(c) ==
    /\ Takes(c) /\ colour[c] = "white"
    /\ Enter(c, [todo EXCEPT ![Top] = @ \ {c}])
    /\ UNCHANGED <<bin, best, verdict, printed>>

\* walk returns: to the walk that called it, or with the total.
Leave ==
    /\ verdict = "none" /\ stack # <<>>
    /\ todo[Top] = {}
    /\ LET total == Frames(Top) + deepest[Top]
           under == SubSeq(stack, 1, Len(stack) - 1)
       IN  /\ best' = [best EXCEPT ![Top] = total]
           /\ colour' = [colour EXCEPT ![Top] = "black"]
           /\ stack' = under
           /\ IF under = <<>>
                THEN verdict' = "total" /\ UNCHANGED deepest
                ELSE /\ deepest' = [deepest EXCEPT ![under[Len(under)]] = Larger(@, total)]
                     /\ UNCHANGED verdict
    /\ UNCHANGED <<bin, todo, printed>>

\* The callee with the largest frame of its own.
LargestFrame(f) ==
    {c \in Edges(f) : best[c] > 0 /\ \A d \in Edges(f) : Frames(d) <= Frames(c)}

\* The callees -v goes on with: the heaviest, unless it weighs nothing.
Heaviest(f) ==
    {c \in Edges(f) : best[c] > 0 /\ \A d \in Edges(f) : best[d] <= best[c]}

\* -v, once the total is known: the root, then the heaviest callee of the last.
PrintLine ==
    /\ verdict = "total"
    /\ \/ printed = <<>> /\ printed' = <<Root>>
       \/ /\ printed # <<>>
          /\ \E c \in Heaviest(printed[Len(printed)]) : printed' = Append(printed, c)
    /\ UNCHANGED <<bin, colour, best, stack, todo, deepest, verdict>>

Ended ==
    \/ verdict \in {"not found", "recursion"}
    \/ printed # <<>> /\ Heaviest(printed[Len(printed)]) = {}

Walk ==
    \/ NotFound \/ Start \/ Leave \/ PrintLine
    \/ \E c \in Fn : Recursion(c) \/ Reuse(c) \/ Descend(c)

-----------------------------------------------------------------------------
TypeOK ==
    /\ IsBinary(bin)
    /\ colour \in [Fn -> {"white", "grey", "black"}]
    /\ best \in [Fn -> Nat] /\ deepest \in [Fn -> Nat]
    /\ stack \in Seq(Fn) /\ todo \in [Fn -> SUBSET Fn]
    /\ verdict \in {"none", "not found", "recursion", "total"}

\* The grey functions are those being walked, each once.
GreyOK ==
    /\ \A f \in Fn : colour[f] = "grey" <=> \E n \in 1 .. Len(stack) : stack[n] = f
    /\ \A m, n \in 1 .. Len(stack) : stack[m] = stack[n] => m = n

\* A black function outweighs its frame and its callees, which are black.
BlackOK ==
    \A f \in Fn : colour[f] = "black" =>
        /\ Frames(f) <= best[f]
        /\ \A c \in Edges(f) : colour[c] = "black" /\ Frames(f) + best[c] <= best[f]

\* A grey one has met its callees, but for those left and the one being walked.
MetOK ==
    \A n \in 1 .. Len(stack) : \A c \in Edges(stack[n]) \ todo[stack[n]] :
        \/ colour[c] = "black" /\ best[c] <= deepest[stack[n]]
        \/ n < Len(stack) /\ c = stack[n + 1]

\* The walk starts once, of the root, which is black when there is a total.
RootOK ==
    /\ verdict = "none" /\ stack = <<>> => \A f \in Fn : colour[f] = "white"
    /\ stack # <<>> => stack[1] = Root
    /\ verdict = "total" => stack = <<>> /\ colour[Root] = "black"

\* Inductive: the weights of the functions walked bound those below them.
WalkInv == TypeOK /\ GreyOK /\ BlackOK /\ MetOK /\ RootOK
=============================================================================
