---------------------------- MODULE MCStackProbe ----------------------------
(***************************************************************************)
(* StackProbe on small binaries.                                           *)
(***************************************************************************)
EXTENDS StackProbe, StackPaths

MCFn == {"r", "a", "b", "c"}
MCFrame == [r |-> 1, a |-> 2, b |-> 2, c |-> 1]

Site(as, pair) == [in |-> pair[1], as |-> as, to |-> pair[2]]
Calling(pairs) == {Site("call", pair) : pair \in pairs}

Exactly == [f \in MCFn |-> {MCFrame[f]}]

ABinary(sites, listed, dumped) ==
    [frame |-> MCFrame, listed |-> listed, dumped |-> dumped, sites |-> sites,
     rounds |-> <<>>, limit |-> 0]

\* In words: 32 KiB does not hold every verification, 192 KiB does if it fits.
WINDOW == 2
WIDE_WINDOW == 5

\* For the board: with a narrow and a wide window, and more or less of a stack.
Flashed(sites, limit) ==
    [ABinary(sites, Exactly, MCFn) EXCEPT
        !.rounds = <<WINDOW, WIDE_WINDOW>>, !.limit = limit]

\* Every graph of three functions, every one of four without a cycle.
Graphs ==
    SUBSET ({"r", "a", "b"} \X {"r", "a", "b"})
    \cup SUBSET {<<"r", "a">>, <<"r", "b">>, <<"r", "c">>, <<"a", "b">>, <<"a", "c">>, <<"b", "c">>}

\* Three functions, each call in any of its forms or not there.
Down == {<<"r", "a">>, <<"r", "b">>, <<"a", "b">>}
Forms == {{Site(form[pair], pair) : pair \in {d \in Down : form[d] # "none"}} :
            form \in [Down -> {"none", "call", "register", "branch"}]}

\* Sizes that are missing, double or all there, and a hole in the disassembly.
Listings == {Exactly, [Exactly EXCEPT !["a"] = {}], [Exactly EXCEPT !["b"] = {1, 2}],
             [f \in MCFn |-> {}]}

MCBinary ==
    {ABinary(Calling(g), Exactly, MCFn) : g \in Graphs}
    \cup {ABinary(s, l, d) : s \in Forms, l \in Listings, d \in {MCFn, {"r", "b"}, {}}}
    \cup {Flashed(s, limit) : s \in Forms, limit \in {1, 4, 6}}

-----------------------------------------------------------------------------
\* The script ends.
ScriptEnds == <>Ended
=============================================================================
