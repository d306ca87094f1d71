---------------------------- MODULE MCOperands ----------------------------
EXTENDS Operands, TLC

U(f, h, a, s, z) == [fu |-> f, is_jump |-> FALSE, is_store |-> FALSE, has_rd |-> h, areg |-> a,
                     src |-> [p \in Ports |-> s], is_sfence |-> z]

Alu == U("ALU", TRUE, 1, 1, FALSE)
Load == U("LSU", TRUE, 1, 1, FALSE)
Mul == U("MUL", TRUE, 1, 1, FALSE)
Branch == U("BRANCH", FALSE, 0, 1, FALSE)
Sfence == U("CSR", FALSE, 0, 0, TRUE)

MCUops == {Alu, Load, Branch}
MCUopsSfence == {Alu, Mul, Sfence}
MCRegs == 0 .. 1
=============================================================================
