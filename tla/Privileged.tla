----------------------------- MODULE Privileged -----------------------------
(***************************************************************************)
(* What the privileged architecture of the core promises to software,      *)
(* without a pipeline: one instruction, one trap or one return at a time.  *)
(*                                                                         *)
(* A trap into level l saves where the program was, with its privilege and *)
(* its interrupt enable, in the context of l and touches no other context; *)
(* a return from l restores exactly that; a CSR write reaches only state   *)
(* of levels up to the writer's own.                                       *)
(*                                                                         *)
(* torn is raised by a trap the core takes at a point that is not between  *)
(* two instructions.  From then on nothing more is promised.               *)
(***************************************************************************)
EXTENDS Integers

CONSTANTS Pcs, Succ(_), ResetPc

U == 0
S == 1
M == 3
Levels == {S, M}        \* the levels that take traps

VARIABLES
    pc, priv,
    ctx,            \* per level: the program a trap into it interrupted
    ie,             \* per level: its interrupt enable
    tvec,           \* per level: its handler
    cause,          \* per level: why it was last entered
    deleg,          \* exceptions that S handles itself
    mie,            \* interrupts M listens to
    torn

avars == <<pc, priv, ctx, ie, tvec, cause, deleg, mie, torn>>

Init ==
    /\ pc = ResetPc
    /\ priv = M
    /\ ctx = [l \in Levels |-> [pc |-> {}, priv |-> IF l = M THEN M ELSE U, ie |-> FALSE]]
    /\ ie = [l \in Levels |-> FALSE]
    /\ tvec = [l \in Levels |-> {}]
    /\ cause = [l \in Levels |-> {}]
    /\ deleg = {} /\ mie = {}
    /\ torn = FALSE

Step(p) ==
    /\ pc' = p
    /\ UNCHANGED <<priv, ctx, ie, tvec, cause, deleg, mie>>

Write ==
    /\ pc' = Succ(pc)
    /\ priv' = priv
    /\ \A l \in Levels : l > priv => /\ ctx'[l] = ctx[l] /\ ie'[l] = ie[l]
                                     /\ tvec'[l] = tvec[l] /\ cause'[l] = cause[l]
    /\ priv < M => UNCHANGED <<deleg, mie>>

TrapInto(l, p, c) ==
    /\ ctx' = [ctx EXCEPT ![l] = [pc |-> p, priv |-> priv, ie |-> ie[l]]]
    /\ ie' = [ie EXCEPT ![l] = FALSE]
    /\ cause' = [cause EXCEPT ![l] = {c}]
    /\ pc' = tvec[l]
    /\ priv' = l
    /\ UNCHANGED <<tvec, deleg, mie>>

\* Misaligned accesses are always S's own business, whatever medeleg says.
HandledBy(c) == IF priv < M /\ (c \in deleg \/ c = "misaligned") THEN S ELSE M

Interrupts == {"ext", "timer"}

Exception(c) == c \notin Interrupts /\ TrapInto(HandledBy(c), pc, c)

Interrupt(c) == c \in Interrupts /\ ie[M] /\ c \in mie /\ TrapInto(M, pc, c)

Return(l) ==
    /\ priv = l
    /\ pc' = ctx[l].pc
    /\ priv' = ctx[l].priv
    /\ ie' = [ie EXCEPT ![l] = ctx[l].ie]
    /\ ctx' = [ctx EXCEPT ![l] = [@ EXCEPT !.priv = U, !.ie = TRUE]]
    /\ UNCHANGED <<tvec, cause, deleg, mie>>

Next ==
    \/ torn'
    \/ \E p \in Pcs : Step(p)
    \/ Write
    \/ \E l \in Levels : \E c \in cause'[l] : Exception(c) \/ Interrupt(c)
    \/ \E l \in Levels : Return(l)

Spec == Init /\ [][Next]_avars
=============================================================================
