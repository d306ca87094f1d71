------------------------------ MODULE MCFetch ------------------------------
(* Instances of Fetch for TLC; the bounds are in the configurations.       *)
EXTENDS Fetch

TwoPcs == 0 .. 1
Translated == {TRUE}
Either == BOOLEAN
Bare == {FALSE}
=============================================================================
