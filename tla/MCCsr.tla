------------------------------- MODULE MCCsr -------------------------------
(* Small programs for Csr: one address bit, firmware that configures delegation and enables,   *)
(* a kernel and a user program.                                                                 *)
EXTENDS Csr

AllPcs == {{}, {"b2"}}
Plus4(p) == {"b2"} \ p

Sys(k) == [kind |-> k]
Csrr(o, a, s) == [kind |-> "csr", csr_op |-> o, addr |-> a, src |-> s]

Programs ==
    {Sys(k) : k \in {"other", "ecall", "mret", "sret", "sfence_vma"}}
    \cup {Csrr("RS", "mstatus", {"MPIE"}), Csrr("RC", "mstatus", {"MPP0", "MPP1"}),
          Csrr("RC", "mstatus", {"MPP1"}), Csrr("RW", "sstatus", {"SPIE", "MIE"}),
          Csrr("RS", "sepc", {}), Csrr("RW", "mepc", {"b2"}), Csrr("RW", "medeleg", {"ecall_u", "ifetch"}),
          Csrr("RW", "mie", {"timer"}), Csrr("RW", "stvec", {"b2"}),
          Csrr("RW", "mhartid", {"b2"})}
=============================================================================
