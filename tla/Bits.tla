-------------------------------- MODULE Bits --------------------------------
(***************************************************************************)
(* Powers of two, which both the program and the dashboard measure their   *)
(* trees in.                                                               *)
(***************************************************************************)
EXTENDS Integers

Powers[k \in Nat] == IF k = 0 THEN 1 ELSE 2 * Powers[k - 1]

\* One shifted by k: the macro B of the program, 1 << k in the dashboard.
B(k) == Powers[k]

=============================================================================
