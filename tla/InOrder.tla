------------------------------ MODULE InOrder ------------------------------
(***************************************************************************)
(* What the back end promises its program: instructions enter in program   *)
(* order, leave from the old end in that same order, each leaving its own  *)
(* result in its destination register, and a redirect or a trap forgets    *)
(* every instruction that has not left yet and nothing else.               *)
(*                                                                         *)
(* A result is the identity of the instruction that computed it.           *)
(***************************************************************************)
EXTENDS Integers, Sequences

CONSTANTS Regs, Insts, MaxBundle, MaxRetire

VARIABLES
    queue,      \* instructions in flight, oldest first: [id, areg] with areg 0 for no result
    regs        \* architectural registers

ivars == <<queue, regs>>

IInit == queue = <<>> /\ regs = [r \in Regs |-> 0]

\* Registers after the k oldest instructions have written their results in order.
Retired(k) ==
    [r \in Regs |->
        LET js == {j \in 1 .. k : r # 0 /\ queue[j].areg = r}
        IN  IF js = {} THEN regs[r]
            ELSE queue[CHOOSE j \in js : \A i \in js : i <= j].id]

Retire(k) == k <= Len(queue) /\ regs' = Retired(k)

\* A cycle retires up to MaxRetire instructions and lets a bundle in behind the rest.
Cycle == \E k \in 0 .. MaxRetire :
            /\ Retire(k)
            /\ LET kept == Len(queue) - k
               IN  /\ Len(queue') - kept \in 0 .. MaxBundle
                   /\ \A j \in 1 .. kept : queue'[j] = queue[j + k]
                   /\ \A j \in kept + 1 .. Len(queue') : queue'[j] \in Insts

\* A redirect retires up to MaxRetire instructions, the redirecting one last, and drops the rest.
Squash == \E k \in 0 .. MaxRetire : Retire(k) /\ queue' = <<>>

INext == Cycle \/ Squash
ISpec == IInit /\ [][INext]_ivars
=============================================================================
