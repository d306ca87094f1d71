----------------------------- MODULE MCIngress -----------------------------
(* A program of ten halfwords for Ingress: 32-bit instructions at 0, 3 and *)
(* 7; the second half of the one at 3 looks like the first half of another;*)
(* jumps at 2 and 5.                                                       *)
EXTENDS Ingress

MCWide == {0, 3, 4, 7}
MCStarts == {0, 2, 3, 5, 6, 7, 9}
MCJumps == [pc \in {2, 5} |-> IF pc = 2 THEN 7 ELSE 0]

\* The compressed branch at 2 goes to the instruction behind it.
NextJumps == [pc \in {2, 5} |-> IF pc = 2 THEN 3 ELSE 0]
=============================================================================
