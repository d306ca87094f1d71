-------------------------------- MODULE Csr --------------------------------
(***************************************************************************)
(* The CSR unit (backend/execute/csr.sv) with what the back end puts in    *)
(* front of it (backend.sv): the arbiter that hands the unit a CSR or      *)
(* system instruction, a latched exception, an instruction fetch fault or  *)
(* an interrupt.  Of the reorder buffer only the head is kept: Rob shows   *)
(* that instructions reach it and leave it in program order, and a CSR or  *)
(* system instruction executes nowhere else.                               *)
(*                                                                         *)
(* One step is one clock cycle.  A register is the set of its bits that    *)
(* are 1, bits are named by what they mean, and an address is such a set   *)
(* too.  Counters, the tval registers and registers that are only stored   *)
(* and read back (sie, sip, mideleg, ...) are left out.                    *)
(***************************************************************************)
EXTENDS Integers, FiniteSets

CONSTANTS
    Pcs, Succ(_), ResetPc,      \* Succ(p) is p + 4
    Ops,                        \* the instructions programs are made of
    Faults                      \* what an instruction outside the CSR unit may raise

VARIABLES
    csr,            \* the stored registers
    current_priv,
    pc,             \* of the oldest instruction that has not retired
    head,           \* the head of the ROB
    pending,        \* rob_sync_exception_pending_q
    torn            \* a trap was taken between the effect and the retirement of an
                    \* instruction, or past one that had not retired (history)

vars == <<csr, current_priv, pc, head, pending, torn>>

PRIV_LVL_U == 0
PRIV_LVL_S == 1
PRIV_LVL_M == 3

Csrs == {"mstatus", "mie", "medeleg", "mtvec", "stvec", "mepc", "sepc",
         "mcause", "scause", "mscratch", "sscratch", "satp"}
MRegs == {"mstatus", "mie", "medeleg", "mtvec", "mepc", "mcause", "mscratch", "mhartid"}
SRegs == {"sstatus", "stvec", "sepc", "scause", "sscratch", "satp"}
StatusBits == {"MIE", "MPIE", "MPP0", "MPP1", "SIE", "SPIE", "SPP"}
csr_sstatus_mask == {"SIE", "SPIE", "SPP"}

Interrupts == {"ext", "timer"}
Exceptions == {"illegal", "breakpoint", "ecall_u", "ecall_s", "ecall_m", "misaligned",
               "load_page", "ifetch"}
Causes == Exceptions \cup Interrupts

\* Addresses are words of bits, so CSRRS and CSRRC make addresses of addresses.
ASSUME CsrAssumption ==
    /\ ResetPc \in Pcs /\ {} \in Pcs
    /\ \A p \in Pcs : Succ(p) \in Pcs
    /\ \A p, q \in Pcs : p \cup q \in Pcs /\ p \ q \in Pcs
    /\ Faults \subseteq Exceptions

\* Software's part of the bargain: it keeps addresses where addresses belong and causes where
\* causes do, and never stores the reserved privilege 2 in MPP, which the unit would not refuse.
ASSUME ProgramAssumption ==
    \A op \in Ops : op.kind = "csr" =>
        /\ op.csr_op \in {"RW", "RS", "RC"}
        /\ op.addr \in {"mepc", "sepc", "mtvec", "stvec"} => op.src \in Pcs
        /\ op.addr \in {"mcause", "scause"} =>
                op.csr_op = "RW" /\ op.src \subseteq Causes /\ Cardinality(op.src) <= 1
        /\ op.addr = "mstatus" =>
                /\ op.src \subseteq StatusBits
                /\ IF op.csr_op = "RC" THEN "MPP0" \in op.src => "MPP1" \in op.src
                   ELSE "MPP1" \in op.src => "MPP0" \in op.src

Bit(b) == b \in csr["mstatus"]
mret_target_priv ==
    (IF Bit("MPP0") THEN 1 ELSE 0) + (IF Bit("MPP1") THEN 2 ELSE 0)
sret_target_priv == IF Bit("SPP") THEN PRIV_LVL_S ELSE PRIV_LVL_U

----------------------------------------------------------------------------
(* CSR instructions.                                                        *)

\* Bits 9:8 of the address name the lowest privilege that may access it.
csr_priv_valid(a) ==
    /\ a \in MRegs => current_priv >= PRIV_LVL_M
    /\ a \in SRegs => current_priv >= PRIV_LVL_S
csr_addr_valid(a) == a \in MRegs \cup SRegs /\ csr_priv_valid(a)

csr_read_val(a) ==
    CASE a \in Csrs -> csr[a]
      [] a = "sstatus" -> csr["mstatus"] \cap csr_sstatus_mask
      [] OTHER -> {}

\* CSRRS and CSRRC from x0, here an empty source, do not write.
csr_write_en(op) == csr_addr_valid(op.addr) /\ (op.csr_op = "RW" \/ op.src # {})
csr_write_val(op) ==
    CASE op.csr_op = "RW" -> op.src
      [] op.csr_op = "RS" -> csr_read_val(op.addr) \cup op.src
      [] op.csr_op = "RC" -> csr_read_val(op.addr) \ op.src

sanitize_satp(v) == v \ {"ASID"}

MaskedStatus(v) ==
    (csr["mstatus"] \ csr_sstatus_mask) \cup (v \cap csr_sstatus_mask)

CsrWritten(op) ==
    LET v == csr_write_val(op)
    IN  CASE op.addr = "sstatus" -> [csr EXCEPT !["mstatus"] = MaskedStatus(v)]
          [] op.addr = "satp" -> [csr EXCEPT !["satp"] = sanitize_satp(v)]
          [] op.addr \in Csrs \ {"satp"} -> [csr EXCEPT ![op.addr] = v]
          [] OTHER -> csr

----------------------------------------------------------------------------
(* System instructions: what they raise, and what they do to mstatus.       *)

sys_raises(op) ==
    CASE op.kind = "illegal" -> {"illegal"}
      [] op.kind = "csr" -> IF csr_addr_valid(op.addr) THEN {} ELSE {"illegal"}
      [] op.kind = "ecall" -> {CASE current_priv = PRIV_LVL_M -> "ecall_m"
                                 [] current_priv = PRIV_LVL_S -> "ecall_s"
                                 [] OTHER -> "ecall_u"}
      [] op.kind = "ebreak" -> {"breakpoint"}
      [] op.kind = "mret" -> IF current_priv = PRIV_LVL_M THEN {} ELSE {"illegal"}
      [] op.kind = "sret" -> IF current_priv = PRIV_LVL_S THEN {} ELSE {"illegal"}
      [] op.kind = "sfence_vma" -> IF current_priv = PRIV_LVL_U THEN {"illegal"} ELSE {}
      [] OTHER -> {}

\* csr["mstatus"] with the bits of on set and those of off cleared.
Status(on, off) == (csr["mstatus"] \ off) \cup on
If(b, x) == IF b THEN {x} ELSE {}

PrivBits(p) == If(p \in {1, 3}, "MPP0") \cup If(p \in {2, 3}, "MPP1")
mstatus_trap_next ==
    Status(If(Bit("MIE"), "MPIE") \cup PrivBits(current_priv), {"MPIE", "MIE", "MPP0", "MPP1"})
mstatus_s_trap_next ==
    Status(If(Bit("SIE"), "SPIE") \cup If(current_priv = PRIV_LVL_S, "SPP"),
           {"SPIE", "SIE", "SPP"})
mstatus_mret_next ==
    Status(If(Bit("MPIE"), "MIE") \cup {"MPIE"}, {"MIE", "MPP0", "MPP1"})
mstatus_sret_next == Status(If(Bit("SPIE"), "SIE") \cup {"SPIE"}, {"SIE", "SPP"})

----------------------------------------------------------------------------
(* Traps.                                                                   *)

trap_delegate_to_s(c) == c \in csr["medeleg"] \/ c = "misaligned"
trap_to_s_mode(c, interrupt) ==
    current_priv # PRIV_LVL_M /\ ~interrupt /\ trap_delegate_to_s(c)

NoHead == [valid |-> FALSE]

\* backend_flush empties the ROB and drops the latched exception.
FlushKeepsPending == head' = NoHead /\ UNCHANGED pending
FlushHead == head' = NoHead /\ pending' = FALSE

\* irq_trap_o: the unit records the trap and the ROB is flushed to the handler.
TakeTrap(c, interrupt, trap_pc) ==
    /\ IF trap_to_s_mode(c, interrupt)
       THEN /\ csr' = [csr EXCEPT !["sepc"] = trap_pc, !["scause"] = {c},
                                  !["mstatus"] = mstatus_s_trap_next]
            /\ current_priv' = PRIV_LVL_S
            /\ pc' = csr["stvec"]
       ELSE /\ csr' = [csr EXCEPT !["mepc"] = trap_pc, !["mcause"] = {c},
                                  !["mstatus"] = mstatus_trap_next]
            /\ current_priv' = PRIV_LVL_M
            /\ pc' = csr["mtvec"]
    /\ FlushHead

\* The instruction at the head has changed a CSR or the privilege and has not retired.
Effective ==
    /\ head.valid /\ head.state = "done"
    /\ head.op.kind \in {"mret", "sret"} \/ head.wrote

----------------------------------------------------------------------------
(* One action per thing that can happen to the head in a cycle.             *)

\* The next instruction in program order reaches the head.
Arrive ==
    /\ ~head.valid
    /\ \E op \in Ops : head' = [valid |-> TRUE, op |-> op, state |-> "waiting"]
    /\ UNCHANGED <<csr, current_priv, pc, pending, torn>>

Done(op, npc, wrote) ==
    [valid |-> TRUE, op |-> op, state |-> "done", npc |-> npc, wrote |-> wrote]
Raised(op, c) == [valid |-> TRUE, op |-> op, state |-> "exception", cause |-> c]

\* csr_en: the instruction executes, once, at the head, with its source operand.
Execute ==
    /\ head.valid /\ head.state = "waiting" /\ head.op.kind # "other"
    /\ LET op == head.op
       IN  IF sys_raises(op) # {}
           THEN /\ \E c \in sys_raises(op) : head' = Raised(op, c)
                /\ UNCHANGED <<csr, current_priv>>
           ELSE CASE op.kind = "csr" /\ csr_write_en(op) ->
                        /\ csr' = CsrWritten(op)
                        /\ head' = Done(op, Succ(pc), TRUE)
                        /\ UNCHANGED current_priv
                  [] op.kind = "mret" ->
                        /\ csr' = [csr EXCEPT !["mstatus"] = mstatus_mret_next]
                        /\ current_priv' = mret_target_priv
                        /\ head' = Done(op, csr["mepc"], FALSE)
                  [] op.kind = "sret" ->
                        /\ csr' = [csr EXCEPT !["mstatus"] = mstatus_sret_next]
                        /\ current_priv' = sret_target_priv
                        /\ head' = Done(op, csr["sepc"], FALSE)
                  [] OTHER ->
                        /\ head' = Done(op, Succ(pc), FALSE)
                        /\ UNCHANGED <<csr, current_priv>>
    /\ UNCHANGED <<pc, pending, torn>>

\* Another unit finishes the instruction at the head.
Complete ==
    /\ head.valid /\ head.state = "waiting" /\ head.op.kind = "other"
    /\ \/ \E p \in Pcs : head' = Done(head.op, p, FALSE)
       \/ \E c \in Faults : head' = Raised(head.op, c)
    /\ UNCHANGED <<csr, current_priv, pc, pending, torn>>

\* The head retires; a return or a satp write redirects the front end as it does.
Retire ==
    /\ head.valid /\ head.state = "done"
    /\ pc' = head.npc
    /\ head' = NoHead
    /\ UNCHANGED <<csr, current_priv, pending, torn>>

\* The ROB reports the exception at its head and the back end latches it.
Latch ==
    /\ head.valid /\ head.state = "exception" /\ ~pending
    /\ pending' = TRUE
    /\ UNCHANGED <<csr, current_priv, pc, head, torn>>

\* csr_rob_exception_inject: a latched exception goes before every other trap.
ExceptionTrap ==
    /\ pending
    /\ TakeTrap(head.cause, FALSE, pc)
    /\ UNCHANGED torn

\* csr_ifetch_fault_inject: a fault of the fetch unit at p, whatever the ROB still holds.
IfetchTrap(p) ==
    /\ ~pending
    /\ TakeTrap("ifetch", FALSE, p)
    /\ torn' = (torn \/ head.valid \/ p # pc)

\* csr_irq_inject with interrupt_pending: needs an instruction at the head to interrupt.
IrqWheneverPending(lines) == lines \cap csr["mie"] # {}
interrupt_pending(lines) == Bit("MIE") /\ lines \cap csr["mie"] # {}
interrupt_cause(lines) == IF "ext" \in lines \cap csr["mie"] THEN "ext" ELSE "timer"

IrqTrap(lines) ==
    /\ ~pending /\ head.valid
    /\ interrupt_pending(lines)
    /\ TakeTrap(interrupt_cause(lines), TRUE, pc)
    /\ torn' = (torn \/ Effective)

Init ==
    /\ csr = [a \in Csrs |-> IF a = "mstatus" THEN {"MPP0", "MPP1"} ELSE {}]
    /\ current_priv = PRIV_LVL_M
    /\ pc = ResetPc
    /\ head = NoHead
    /\ pending = FALSE
    /\ torn = FALSE

Next ==
    \/ Arrive \/ Execute \/ Complete \/ Retire \/ Latch \/ ExceptionTrap
    \/ \E p \in Pcs : IfetchTrap(p)
    \/ \E lines \in SUBSET Interrupts : IrqTrap(lines)

Spec == Init /\ [][Next]_vars

----------------------------------------------------------------------------
(* Properties.                                                              *)

\* The registers, the privilege and the head of the ROB are well formed; the privilege is never
\* the reserved encoding 2, and a latched exception is that of the head.
CsrTypeOK ==
    /\ DOMAIN csr = Csrs
    /\ csr["mstatus"] \subseteq StatusBits
    /\ \A a \in {"mepc", "sepc", "mtvec", "stvec"} : csr[a] \in Pcs
    /\ \A a \in {"mcause", "scause"} : csr[a] \subseteq Causes /\ Cardinality(csr[a]) <= 1
    /\ current_priv \in {PRIV_LVL_U, PRIV_LVL_S, PRIV_LVL_M}
    /\ pc \in Pcs /\ torn \in BOOLEAN
    /\ head.valid => head.op \in Ops
    /\ pending => head.valid /\ head.state = "exception"

\* The context a trap into level l saved, as the registers hold it.
Saved(l) ==
    IF l = PRIV_LVL_M
    THEN [pc |-> csr["mepc"], priv |-> mret_target_priv, ie |-> Bit("MPIE")]
    ELSE [pc |-> csr["sepc"], priv |-> sret_target_priv, ie |-> Bit("SPIE")]

Levels == {PRIV_LVL_S, PRIV_LVL_M}

\* An instruction with an effect on this state counts as done once it has executed; every other
\* one when it retires.
AbsPc == IF Effective THEN head.npc ELSE pc
AbsCtx == [l \in Levels |-> Saved(l)]
AbsIe == [l \in Levels |-> IF l = PRIV_LVL_M THEN Bit("MIE") ELSE Bit("SIE")]
AbsTvec == [l \in Levels |-> IF l = PRIV_LVL_M THEN csr["mtvec"] ELSE csr["stvec"]]
AbsCause == [l \in Levels |-> IF l = PRIV_LVL_M THEN csr["mcause"] ELSE csr["scause"]]

Arch == INSTANCE Privileged WITH
    pc <- AbsPc, priv <- current_priv, ctx <- AbsCtx, ie <- AbsIe,
    tvec <- AbsTvec, cause <- AbsCause, deleg <- csr["medeleg"], mie <- csr["mie"]

\* Until a trap tears an instruction apart, the unit behind its arbiter is the privileged
\* architecture: through nested traps of both levels every handler finds the program, the
\* privilege and the interrupt enable that were interrupted, returns to exactly those, and no CSR
\* write reaches a level above the writer's.
Architectural == Arch!Spec
=============================================================================
