----------------------------- MODULE MCWordEdits -----------------------------
(***************************************************************************)
(* WordEdits for TLC: two documents, each with one struck character, and   *)
(* targets of one to four.  In the first, the struck character stands      *)
(* before the live one that is like it; in the second it is in the middle  *)
(* of what a head finds, and n, t and x are in two paragraphs.  "x" is a   *)
(* special character, so of <<n, t, x>> the head <<n, t>> is tried too.    *)
(***************************************************************************)
EXTENDS WordEdits, TLC

Plain(c)  == [c |-> c, mark |-> "plain"]
Gone(c)   == [c |-> c, mark |-> "struck"]

MCDocuments == {<<Gone("t"), Plain("|"), Plain("t")>>,
                <<Plain("n"), Gone("x"), Plain("t"), Plain("|"), Plain("x"), Plain("t")>>}

MCProposals == {[action |-> "replace", target |-> <<"t">>, new |-> <<"n">>],
                [action |-> "replace", target |-> <<"n", "t", "x">>, new |-> <<"n">>],
                [action |-> "replace_all", target |-> <<"t">>, new |-> <<"n">>],
                [action |-> "insert", target |-> <<"t">>, new |-> <<"n">>, position |-> "after"],
                [action |-> "insert", target |-> <<"t">>, new |-> <<"n">>, position |-> "before"],
                [action |-> "delete", target |-> <<"t">>],
                [action |-> "delete", target |-> <<"n", "t", "x">>],
                [action |-> "delete", target |-> <<"n", "t", "x", "t">>],
                [action |-> "redline", target |-> <<"t">>, new |-> <<"t", "n">>]}

MCHeads     == <<3>>
MCHeadWords == <<1>>
MCTails     == <<2>>
MCTailWords == <<1>>

Symmetry == Permutations(Cards)
=============================================================================
