---------------------------- MODULE MCLoadStore ----------------------------
(* Instances of LoadStore for TLC; the bounds are in the configurations.   *)
EXTENDS LoadStore

TwoWords == 0 .. 1
OneWord == {0}
Translated == {TRUE}
Bare == {FALSE}
Either == BOOLEAN
=============================================================================
