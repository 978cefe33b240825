----------------------------- MODULE StackPaths -----------------------------
(***************************************************************************)
(* What src/size-probe/stackgraph.py promises of its walk, in terms of the *)
(* paths of the call graph, which the walk never lists.                    *)
(***************************************************************************)
EXTENDS StackGraph, Sums

\* From the root, call by call.  A path that meets a function twice has done so
\* among its first functions, one more than there are.
Paths(callees) ==
    {p \in UNION {[1 .. n -> Fn] : n \in 1 .. Cardinality(Fn) + 1} :
        p[1] = Root /\ \A n \in 1 .. Len(p) - 1 : p[n + 1] \in callees[p[n]]}

MeetsTwice(p) == \E m, n \in 1 .. Len(p) : m < n /\ p[m] = p[n]

\* The frames of a path added up.
Weight(frame, p) ==
    Total([n \in Nat |-> IF n < Len(p) THEN frame[p[n + 1]] ELSE 0], Len(p))

\* As the script sees the binary: "the heaviest path from the entry point".
ScriptFrames == [f \in Fn |-> Frames(f)]
ScriptPaths == Paths([f \in Fn |-> Edges(f)])

\* As the binary runs, whatever else may be on its stack.
RunPaths ==
    Paths([f \in Fn |->
        {s.to : s \in {t \in bin.sites : t.in = f /\ t.as \in {"call", "register"}}}])

(***************************************************************************)
(* The total is the weight of the heaviest path, and there is a total      *)
(* unless the root reaches a cycle, in whatever order callees are walked.  *)
(***************************************************************************)
WalkIsRight ==
    /\ verdict = "total" /\ printed = <<>> =>
        /\ \A p \in ScriptPaths : ~MeetsTwice(p) /\ Weight(ScriptFrames, p) <= best[Root]
        /\ \E p \in ScriptPaths : Weight(ScriptFrames, p) = best[Root]
    /\ verdict = "recursion" => \E p \in ScriptPaths : MeetsTwice(p)

\* The functions -v lists call each other, and their frames are the total.
PrintedPathAddsUp ==
    Ended /\ verdict = "total" =>
        printed \in ScriptPaths /\ Weight(ScriptFrames, printed) = best[Root]

\* The script's doc: "every missing edge can only make the answer smaller": the
\* binary really has a stack that deep.
MissingOnlyLowers ==
    verdict = "total" /\ printed = <<>> =>
        \E p \in RunPaths : best[Root] <= Weight(bin.frame, p)

-----------------------------------------------------------------------------
\* The stack is a path, and what is left to walk are callees.
StackOK ==
    /\ \A n \in 1 .. Len(stack) : todo[stack[n]] \subseteq Edges(stack[n])
    /\ \A n \in 1 .. Len(stack) - 1 : stack[n + 1] \in Edges(stack[n])

\* What a function on it has met is the weight of one of its callees.
DeepestOK ==
    \A n \in 1 .. Len(stack) :
        \/ deepest[stack[n]] = 0
        \/ \E c \in Edges(stack[n]) : colour[c] = "black" /\ best[c] = deepest[stack[n]]

\* What a black function weighs is its frame, and the weight of one callee if any.
AttainedOK ==
    \A f \in Fn : colour[f] = "black" =>
        best[f] = Frames(f) \/ \E c \in Edges(f) : best[f] = Frames(f) + best[c]

\* Among black functions one calls none of the others: there is no cycle.
AcyclicOK ==
    \A S \in SUBSET {f \in Fn : colour[f] = "black"} :
        S # {} => \E f \in S : Edges(f) \cap S = {}

\* A cycle was found on the stack.
CycleOK ==
    verdict = "recursion" =>
        \E c \in Fn : /\ stack # <<>> /\ colour[c] = "grey" /\ c \in Edges(Top)

\* What is printed is a path, and what it leaves of the total is what the last
\* function's callees weigh.
PrintedOK ==
    printed # <<>> =>
        /\ verdict = "total"
        /\ printed \in Seq(Fn) /\ printed[1] = Root
        /\ \A n \in 1 .. Len(printed) : colour[printed[n]] = "black"
        /\ \A n \in 1 .. Len(printed) - 1 : printed[n + 1] \in Edges(printed[n])
        /\ LET last == printed[Len(printed)] IN
            Weight(ScriptFrames, printed) + best[last] = best[Root] + Frames(last)

\* Inductive with WalkInv: what the walk finds is on a path.
PathInv == StackOK /\ DeepestOK /\ AttainedOK /\ AcyclicOK /\ CycleOK /\ PrintedOK
=============================================================================
