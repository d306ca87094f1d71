----------------------------- MODULE RobInOrder -----------------------------
(***************************************************************************)
(* The refinement mapping from the reorder buffer to program order: the    *)
(* window of live entries, oldest first, is what InOrder calls its queue.  *)
(***************************************************************************)
EXTENDS Rob

Dest(u) == IF WritesRd(u) THEN u.areg ELSE 0
LiveQueue == [i \in 1 .. count |-> [id |-> rob_ram[Slot(i - 1)].id,
                                    areg |-> Dest(rob_ram[Slot(i - 1)].uop)]]
InOrderSpec == INSTANCE InOrder WITH queue <- LiveQueue,
                                     Insts <- [id : Ids, areg : Regs],
                                     MaxBundle <- DW, MaxRetire <- CW

\* To the program the out-of-order back end is an in-order machine: instructions enter and leave
\* in program order, each retires its own result, and a redirect or a trap forgets exactly what
\* has not retired (rob.sv 294-452, arf.sv 37-49).
ImplementsInOrder == InOrderSpec!ISpec
=============================================================================
