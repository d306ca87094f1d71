------------------------------- MODULE MCRob -------------------------------
EXTENDS RobInOrder, TLC

U(f, j, s, h, a) == [fu |-> f, is_jump |-> j, is_store |-> s, has_rd |-> h, areg |-> a]

Branch == U("BRANCH", FALSE, FALSE, FALSE, 1)
Load(a) == U("LSU", FALSE, FALSE, TRUE, a)
Csr(a) == U("CSR", FALSE, FALSE, TRUE, a)

MCUops == {Load(1), Branch, Csr(2)}
MCRegs == 0 .. 2
=============================================================================
