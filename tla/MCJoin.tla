------------------------------- MODULE MCJoin -------------------------------
(***************************************************************************)
(* Join over the trees of module Scheduler's instances.  The smaller: two  *)
(* leaves fused as a span, and a third leaf.  The larger: two spans of two *)
(* leaves fused as one, whose numbers are too long for the exact form, and *)
(* a fifth leaf.  Neither root is a span.                                  *)
(***************************************************************************)
EXTENDS Join, TLC

MCNode5 == {<< >>, <<0>>, <<1>>, <<0, 0>>, <<0, 1>>}
MCNode9 == MCNode5 \cup {<<0, 0, 0>>, <<0, 0, 1>>, <<0, 1, 0>>, <<0, 1, 1>>}

MCSpan == Node \ {Root}
MCFits5 == {<<0>>}
MCFits9 == {<<0, 0>>, <<0, 1>>}

\* What other runs may have left, whole or half made.
MCShared5 == {<<0>>, <<0, 1>>}
MCShared9 == {<<0>>, <<0, 0>>, <<0, 1>>}
MCNone == {}

\* Workers are interchangeable; only runs without liveness may use it.
MCSymmetry == Permutations(Worker)

=============================================================================
