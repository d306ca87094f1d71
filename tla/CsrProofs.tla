----------------------------- MODULE CsrProofs -----------------------------
(***************************************************************************)
(* Proofs about Csr.tla, for every set of addresses and instructions that  *)
(* meets its assumptions: the types, and that the unit behind its arbiter  *)
(* implements the privileged architecture.                                 *)
(***************************************************************************)
EXTENDS Csr, FiniteSetTheorems, TLAPS

----------------------------------------------------------------------------
(* The inductive invariant.                                                 *)

MppLegal == "MPP1" \in csr["mstatus"] => "MPP0" \in csr["mstatus"]

\* The registers are a function, and what they hold is of the kind they are for.
RegsOK ==
    /\ csr = [a \in Csrs |-> csr[a]]
    /\ csr["mstatus"] \subseteq StatusBits
    /\ MppLegal
    /\ \A a \in {"mepc", "sepc", "mtvec", "stvec"} : csr[a] \in Pcs
    /\ \A a \in {"mcause", "scause"} : csr[a] \subseteq Causes /\ Cardinality(csr[a]) <= 1

\* The head is empty, waiting, done with an address to go on at, or has raised an exception.
HeadOK ==
    \/ head = NoHead
    \/ \E op \in Ops : head = [valid |-> TRUE, op |-> op, state |-> "waiting"]
    \/ \E op \in Ops, npc \in Pcs, wrote \in BOOLEAN : head = Done(op, npc, wrote)
    \/ \E op \in Ops, c \in Exceptions : head = Raised(op, c)

CsrInv ==
    /\ RegsOK /\ HeadOK
    /\ current_priv \in {PRIV_LVL_U, PRIV_LVL_S, PRIV_LVL_M}
    /\ pc \in Pcs /\ torn \in BOOLEAN /\ pending \in BOOLEAN
    /\ pending => \E op \in Ops, c \in Exceptions : head = Raised(op, c)

\* What the invariant says of the head, by the state it is in.
LEMMA HeadCases ==
    ASSUME HeadOK
    PROVE  /\ head.valid \in BOOLEAN
           /\ head.valid /\ head.state = "waiting" => head.op \in Ops
           /\ head.valid /\ head.state = "done" =>
                head.op \in Ops /\ head.npc \in Pcs /\ head.wrote \in BOOLEAN
           /\ head.valid /\ head.state = "exception" => head.op \in Ops /\ head.cause \in Exceptions
           /\ head.valid => head.state \in {"waiting", "done", "exception"} /\ head.op \in Ops
<1>1. CASE head = NoHead
  BY <1>1 DEF NoHead
<1>2. CASE \E op \in Ops : head = [valid |-> TRUE, op |-> op, state |-> "waiting"]
  BY <1>2
<1>3. CASE \E op \in Ops, npc \in Pcs, wrote \in BOOLEAN : head = Done(op, npc, wrote)
  BY <1>3 DEF Done
<1>4. CASE \E op \in Ops, c \in Exceptions : head = Raised(op, c)
  BY <1>4 DEF Raised
<1> QED BY <1>1, <1>2, <1>3, <1>4 DEF HeadOK

----------------------------------------------------------------------------
(* Writes to the registers.                                                 *)

\* Setting one register changes that register and no other.
LEMMA SetOne ==
    ASSUME csr = [a \in Csrs |-> csr[a]], NEW r \in Csrs, NEW v,
           csr' = [csr EXCEPT ![r] = v]
    PROVE  /\ csr' = [a \in Csrs |-> csr'[a]]
           /\ csr'[r] = v
           /\ \A a \in Csrs : a # r => csr'[a] = csr[a]
  OBVIOUS

\* A CSR instruction that may write keeps every register of its kind.
LEMMA WriteKeepsRegs ==
    ASSUME RegsOK, NEW op \in Ops, op.kind = "csr", csr' = CsrWritten(op)
    PROVE  RegsOK'
<1> DEFINE v == csr_write_val(op)
<1>0. /\ op.csr_op \in {"RW", "RS", "RC"}
      /\ op.addr \in {"mepc", "sepc", "mtvec", "stvec"} => op.src \in Pcs
      /\ op.addr \in {"mcause", "scause"} =>
            op.csr_op = "RW" /\ op.src \subseteq Causes /\ Cardinality(op.src) <= 1
      /\ op.addr = "mstatus" =>
            /\ op.src \subseteq StatusBits
            /\ IF op.csr_op = "RC" THEN "MPP0" \in op.src => "MPP1" \in op.src
               ELSE "MPP1" \in op.src => "MPP0" \in op.src
  BY ProgramAssumption
<1>1. op.addr \in Csrs => v \in {op.src, csr[op.addr] \cup op.src, csr[op.addr] \ op.src}
                          /\ (op.csr_op = "RW" => v = op.src)
                          /\ (op.csr_op = "RS" => v = csr[op.addr] \cup op.src)
                          /\ (op.csr_op = "RC" => v = csr[op.addr] \ op.src)
  <2>1. op.addr \in Csrs => csr_read_val(op.addr) = csr[op.addr]
    BY DEF csr_read_val, Csrs
  <2>2. /\ op.csr_op = "RW" => v = op.src
        /\ op.csr_op = "RS" => v = csr_read_val(op.addr) \cup op.src
        /\ op.csr_op = "RC" => v = csr_read_val(op.addr) \ op.src
    BY DEF csr_write_val
  <2> HIDE DEF v
  <2> QED BY <1>0, <2>1, <2>2
<1>2. CASE op.addr = "sstatus"
  <2>1. csr' = [csr EXCEPT !["mstatus"] = MaskedStatus(v)]
    BY <1>2 DEF CsrWritten, Csrs
  <2>2. /\ csr' = [a \in Csrs |-> csr'[a]] /\ csr'["mstatus"] = MaskedStatus(v)
        /\ \A a \in Csrs : a # "mstatus" => csr'[a] = csr[a]
    BY <2>1, SetOne DEF RegsOK, Csrs
  <2>3. /\ MaskedStatus(v) \subseteq StatusBits
        /\ "MPP1" \in MaskedStatus(v) => "MPP1" \in csr["mstatus"]
        /\ "MPP0" \in csr["mstatus"] => "MPP0" \in MaskedStatus(v)
    BY DEF MaskedStatus, RegsOK, csr_sstatus_mask, StatusBits
  <2> QED BY <2>2, <2>3 DEF RegsOK, MppLegal, Csrs
<1>3. CASE op.addr = "satp"
  <2>1. csr' = [csr EXCEPT !["satp"] = sanitize_satp(v)]
    BY <1>3 DEF CsrWritten
  <2>2. /\ csr' = [a \in Csrs |-> csr'[a]]
        /\ \A a \in Csrs : a # "satp" => csr'[a] = csr[a]
    BY <2>1, SetOne DEF RegsOK, Csrs
  <2> QED BY <2>2 DEF RegsOK, MppLegal, Csrs
<1>4. CASE op.addr \in Csrs \ {"satp"}
  <2>1. csr' = [csr EXCEPT ![op.addr] = v]
    BY <1>4 DEF CsrWritten, Csrs
  <2>2. /\ csr' = [a \in Csrs |-> csr'[a]] /\ csr'[op.addr] = v
        /\ \A a \in Csrs : a # op.addr => csr'[a] = csr[a]
    BY <1>4, <2>1, SetOne DEF RegsOK
  <2>3. csr'["mstatus"] \subseteq StatusBits /\ MppLegal'
    <3>1. CASE op.addr = "mstatus"
      <4> HIDE DEF v
      <4>1. v \subseteq StatusBits
        BY <1>0, <1>1, <1>4, <3>1 DEF RegsOK
      <4>2. "MPP1" \in v => "MPP0" \in v
        BY <1>0, <1>1, <1>4, <3>1 DEF RegsOK, MppLegal
      <4> QED BY <2>2, <3>1, <4>1, <4>2 DEF MppLegal
    <3>2. CASE op.addr # "mstatus"
      BY <2>2, <3>2 DEF RegsOK, MppLegal, Csrs
    <3> QED BY <3>1, <3>2
  <2>4. ASSUME NEW a \in {"mepc", "sepc", "mtvec", "stvec"} PROVE csr'[a] \in Pcs
    <3>0. a \in Csrs
      BY DEF Csrs
    <3>1. CASE op.addr = a
      <4>1. op.src \in Pcs /\ csr[a] \in Pcs
        BY <1>0, <3>1 DEF RegsOK
      <4>2. v \in Pcs
        BY <1>1, <1>4, <3>1, <4>1, CsrAssumption
      <4> QED BY <2>2, <3>1, <4>2
    <3>2. CASE op.addr # a
      BY <2>2, <3>0, <3>2 DEF RegsOK
    <3> QED BY <3>1, <3>2
  <2>5. ASSUME NEW a \in {"mcause", "scause"}
        PROVE  csr'[a] \subseteq Causes /\ Cardinality(csr'[a]) <= 1
    <3>0. a \in Csrs
      BY DEF Csrs
    <3>1. CASE op.addr = a
      <4>1. v = op.src /\ op.src \subseteq Causes /\ Cardinality(op.src) <= 1
        BY <1>0, <1>1, <1>4, <3>1
      <4> QED BY <2>2, <3>1, <4>1
    <3>2. CASE op.addr # a
      BY <2>2, <3>0, <3>2 DEF RegsOK
    <3> QED BY <3>1, <3>2
  <2> QED BY <2>2, <2>3, <2>4, <2>5 DEF RegsOK
<1>5. CASE op.addr \notin Csrs /\ op.addr # "sstatus"
  <2>1. csr' = csr
    BY <1>5 DEF CsrWritten, Csrs
  <2> QED BY <2>1 DEF RegsOK, MppLegal
<1> QED BY <1>2, <1>3, <1>4, <1>5

\* What the trap does to the status word, bit by bit.
LEMMA TrapStatus ==
    /\ "MIE" \notin mstatus_trap_next
    /\ "MPIE" \in mstatus_trap_next <=> Bit("MIE")
    /\ "MPP0" \in mstatus_trap_next <=> current_priv \in {1, 3}
    /\ "MPP1" \in mstatus_trap_next <=> current_priv \in {2, 3}
    /\ \A b \in csr_sstatus_mask : b \in mstatus_trap_next <=> Bit(b)
    /\ "SIE" \notin mstatus_s_trap_next
    /\ "SPIE" \in mstatus_s_trap_next <=> Bit("SIE")
    /\ "SPP" \in mstatus_s_trap_next <=> current_priv = PRIV_LVL_S
    /\ \A b \in {"MIE", "MPIE", "MPP0", "MPP1"} : b \in mstatus_s_trap_next <=> Bit(b)
    /\ mstatus_trap_next \subseteq csr["mstatus"] \cup StatusBits
    /\ mstatus_s_trap_next \subseteq csr["mstatus"] \cup StatusBits
  BY DEF mstatus_trap_next, mstatus_s_trap_next, Status, If, PrivBits, Bit, csr_sstatus_mask,
         StatusBits

\* What a return does to the status word, bit by bit.
LEMMA ReturnStatus ==
    /\ "MIE" \in mstatus_mret_next <=> Bit("MPIE")
    /\ "MPIE" \in mstatus_mret_next
    /\ "MPP0" \notin mstatus_mret_next /\ "MPP1" \notin mstatus_mret_next
    /\ \A b \in csr_sstatus_mask : b \in mstatus_mret_next <=> Bit(b)
    /\ "SIE" \in mstatus_sret_next <=> Bit("SPIE")
    /\ "SPIE" \in mstatus_sret_next
    /\ "SPP" \notin mstatus_sret_next
    /\ \A b \in {"MIE", "MPIE", "MPP0", "MPP1"} : b \in mstatus_sret_next <=> Bit(b)
    /\ mstatus_mret_next \subseteq csr["mstatus"] \cup StatusBits
    /\ mstatus_sret_next \subseteq csr["mstatus"] \cup StatusBits
  BY DEF mstatus_mret_next, mstatus_sret_next, Status, If, Bit, csr_sstatus_mask, StatusBits

\* A trap keeps every register of its kind.
LEMMA TrapKeepsRegs ==
    ASSUME CsrInv, NEW c \in Causes, NEW i \in BOOLEAN, NEW p \in Pcs, TakeTrap(c, i, p)
    PROVE  RegsOK' /\ current_priv' \in {PRIV_LVL_S, PRIV_LVL_M} /\ pc' \in Pcs
           /\ head' = NoHead /\ pending' = FALSE
<1>0. RegsOK /\ current_priv \in {PRIV_LVL_U, PRIV_LVL_S, PRIV_LVL_M}
  BY DEF CsrInv
<1>1. Cardinality({c}) <= 1 /\ {c} \subseteq Causes
  <2>1. Cardinality({c}) = 1
    BY FS_Singleton
  <2> QED BY <2>1
<1>2. head' = NoHead /\ pending' = FALSE
  BY DEF TakeTrap, FlushHead
<1>3. CASE trap_to_s_mode(c, i)
  <2>1. /\ csr' = [csr EXCEPT !["sepc"] = p, !["scause"] = {c}, !["mstatus"] = mstatus_s_trap_next]
        /\ current_priv' = PRIV_LVL_S /\ pc' = csr["stvec"]
    BY <1>3 DEF TakeTrap
  <2>2. /\ csr' = [a \in Csrs |-> csr'[a]]
        /\ csr'["sepc"] = p /\ csr'["scause"] = {c} /\ csr'["mstatus"] = mstatus_s_trap_next
        /\ \A a \in Csrs : a \notin {"sepc", "scause", "mstatus"} => csr'[a] = csr[a]
    <3>1. csr = [a \in Csrs |-> csr[a]]
      BY <1>0 DEF RegsOK
    <3>2. /\ "mepc" \in Csrs /\ "sepc" \in Csrs /\ "mcause" \in Csrs /\ "scause" \in Csrs
          /\ "mstatus" \in Csrs
      BY DEF Csrs
    <3> QED BY <2>1, <3>1, <3>2
  <2>3. mstatus_s_trap_next \subseteq StatusBits /\ MppLegal'
    BY <1>0, <2>2, TrapStatus DEF RegsOK, MppLegal, Bit
  <2>4. \A a \in {"mepc", "sepc", "mtvec", "stvec"} : csr'[a] \in Pcs
    BY <1>0, <2>2 DEF RegsOK, Csrs
  <2>5. \A a \in {"mcause", "scause"} : csr'[a] \subseteq Causes /\ Cardinality(csr'[a]) <= 1
    <3>1. csr'["scause"] \subseteq Causes /\ Cardinality(csr'["scause"]) <= 1
      BY <1>1, <2>2
    <3>2. csr'["mcause"] = csr["mcause"]
      BY <2>2 DEF Csrs
    <3> QED BY <1>0, <3>1, <3>2 DEF RegsOK
  <2>6. RegsOK'
    BY <2>2, <2>3, <2>4, <2>5 DEF RegsOK
  <2> QED BY <1>0, <1>2, <2>1, <2>6 DEF RegsOK
<1>4. CASE ~trap_to_s_mode(c, i)
  <2>1. /\ csr' = [csr EXCEPT !["mepc"] = p, !["mcause"] = {c}, !["mstatus"] = mstatus_trap_next]
        /\ current_priv' = PRIV_LVL_M /\ pc' = csr["mtvec"]
    BY <1>4 DEF TakeTrap
  <2>2. /\ csr' = [a \in Csrs |-> csr'[a]]
        /\ csr'["mepc"] = p /\ csr'["mcause"] = {c} /\ csr'["mstatus"] = mstatus_trap_next
        /\ \A a \in Csrs : a \notin {"mepc", "mcause", "mstatus"} => csr'[a] = csr[a]
    <3>1. csr = [a \in Csrs |-> csr[a]]
      BY <1>0 DEF RegsOK
    <3>2. /\ "mepc" \in Csrs /\ "sepc" \in Csrs /\ "mcause" \in Csrs /\ "scause" \in Csrs
          /\ "mstatus" \in Csrs
      BY DEF Csrs
    <3> QED BY <2>1, <3>1, <3>2
  <2>3. mstatus_trap_next \subseteq StatusBits /\ MppLegal'
    BY <1>0, <2>2, TrapStatus
    DEF RegsOK, MppLegal, Bit, PRIV_LVL_U, PRIV_LVL_S, PRIV_LVL_M
  <2>4. \A a \in {"mepc", "sepc", "mtvec", "stvec"} : csr'[a] \in Pcs
    BY <1>0, <2>2 DEF RegsOK, Csrs
  <2>5. \A a \in {"mcause", "scause"} : csr'[a] \subseteq Causes /\ Cardinality(csr'[a]) <= 1
    <3>1. csr'["mcause"] \subseteq Causes /\ Cardinality(csr'["mcause"]) <= 1
      BY <1>1, <2>2
    <3>2. csr'["scause"] = csr["scause"]
      BY <2>2 DEF Csrs
    <3> QED BY <1>0, <3>1, <3>2 DEF RegsOK
  <2>6. RegsOK'
    BY <2>2, <2>3, <2>4, <2>5 DEF RegsOK
  <2> QED BY <1>0, <1>2, <2>1, <2>6 DEF RegsOK
<1> QED BY <1>3, <1>4

----------------------------------------------------------------------------
(* Types.                                                                   *)

\* The target of mret is one of the three privileges, as MPP never holds the reserved one.
LEMMA MretTarget ==
    ASSUME MppLegal
    PROVE  mret_target_priv \in {PRIV_LVL_U, PRIV_LVL_S, PRIV_LVL_M}
  BY DEF MppLegal, mret_target_priv, Bit, PRIV_LVL_U, PRIV_LVL_S, PRIV_LVL_M

\* A return keeps every register of its kind.
LEMMA ReturnKeepsRegs ==
    ASSUME RegsOK, csr' = [csr EXCEPT !["mstatus"] = mstatus_mret_next]
                   \/ csr' = [csr EXCEPT !["mstatus"] = mstatus_sret_next]
    PROVE  RegsOK'
<1> DEFINE w == csr'["mstatus"]
<1>1. csr = [a \in Csrs |-> csr[a]] /\ "mstatus" \in Csrs
  BY DEF RegsOK, Csrs
<1>2. /\ csr' = [a \in Csrs |-> csr'[a]]
      /\ csr'["mstatus"] = mstatus_mret_next \/ csr'["mstatus"] = mstatus_sret_next
      /\ \A a \in Csrs : a # "mstatus" => csr'[a] = csr[a]
  BY <1>1, SetOne
<1>3. csr'["mstatus"] \subseteq StatusBits /\ MppLegal'
  BY <1>2, ReturnStatus DEF RegsOK, MppLegal, Bit
<1>4. \A a \in {"mepc", "sepc", "mtvec", "stvec", "mcause", "scause"} : csr'[a] = csr[a]
  BY <1>2 DEF Csrs
<1> QED BY <1>2, <1>3, <1>4 DEF RegsOK

\* What an instruction raises is an exception, never an interrupt.
LEMMA RaisesException ==
    ASSUME NEW op
    PROVE  sys_raises(op) \subseteq Exceptions
  BY DEF sys_raises, Exceptions

\* The invariant holds at reset.
LEMMA CsrInvInit == Init => CsrInv
<1> SUFFICES ASSUME Init PROVE CsrInv
  OBVIOUS
<1>1. csr = [a \in Csrs |-> IF a = "mstatus" THEN {"MPP0", "MPP1"} ELSE {}]
  BY DEF Init
<1>2. Cardinality({}) = 0
  BY FS_EmptySet
<1>3. /\ csr["mstatus"] = {"MPP0", "MPP1"}
      /\ \A a \in {"mepc", "sepc", "mtvec", "stvec", "mcause", "scause"} : csr[a] = {}
  BY <1>1 DEF Csrs
<1>4. csr = [a \in Csrs |-> csr[a]]
  BY <1>1
<1>5. RegsOK
  <2>1. \A a \in {"mepc", "sepc", "mtvec", "stvec"} : csr[a] \in Pcs
    BY <1>3, CsrAssumption
  <2>2. ASSUME NEW a \in {"mcause", "scause"}
        PROVE  csr[a] \subseteq Causes /\ Cardinality(csr[a]) <= 1
    <3>1. csr[a] = {}
      BY <1>3
    <3> QED BY <1>2, <3>1
  <2>3. csr["mstatus"] \subseteq StatusBits /\ MppLegal
    BY <1>3 DEF MppLegal, StatusBits
  <2> QED BY <1>4, <2>1, <2>2, <2>3 DEF RegsOK
<1> QED BY <1>5, CsrAssumption DEF Init, CsrInv, HeadOK

\* Executing the instruction at the head.
LEMMA ExecuteKeeps ==
    ASSUME CsrInv, Execute
    PROVE  CsrInv'
<1> DEFINE op == head.op
<1>1. /\ RegsOK /\ HeadOK /\ pc \in Pcs /\ torn \in BOOLEAN /\ pending \in BOOLEAN
      /\ current_priv \in {PRIV_LVL_U, PRIV_LVL_S, PRIV_LVL_M}
  BY DEF CsrInv
<1>2. head.valid /\ head.state = "waiting" /\ op \in Ops
  BY <1>1, HeadCases DEF Execute
<1>3. pending = FALSE
  <2>1. \A o \in Ops, c \in Exceptions : head # Raised(o, c)
    BY <1>2 DEF Raised
  <2> QED BY <2>1, <1>1 DEF CsrInv
<1>4. pc' = pc /\ pending' = pending /\ torn' = torn
  BY DEF Execute
<1>5. CASE sys_raises(op) # {}
  <2>1. csr' = csr /\ current_priv' = current_priv /\ \E c \in sys_raises(op) : head' = Raised(op, c)
    BY <1>5 DEF Execute
  <2>2. HeadOK'
    BY <1>2, <2>1, RaisesException DEF HeadOK
  <2>3. RegsOK'
    BY <1>1, <2>1 DEF RegsOK, MppLegal
  <2> QED BY <1>1, <1>3, <1>4, <2>1, <2>2, <2>3 DEF CsrInv
<1>6. CASE sys_raises(op) = {} /\ op.kind = "csr" /\ csr_write_en(op)
  <2>1. csr' = CsrWritten(op) /\ head' = Done(op, Succ(pc), TRUE) /\ current_priv' = current_priv
    BY <1>6 DEF Execute
  <2>2. HeadOK'
    BY <1>1, <1>2, <2>1, CsrAssumption DEF HeadOK
  <2>3. RegsOK'
    BY <1>1, <1>2, <1>6, <2>1, WriteKeepsRegs
  <2> QED BY <1>1, <1>3, <1>4, <2>1, <2>2, <2>3 DEF CsrInv
<1>7. CASE sys_raises(op) = {} /\ op.kind = "mret"
  <2>1. /\ csr' = [csr EXCEPT !["mstatus"] = mstatus_mret_next]
        /\ current_priv' = mret_target_priv /\ head' = Done(op, csr["mepc"], FALSE)
    BY <1>7 DEF Execute
  <2>2. HeadOK'
    BY <1>1, <1>2, <2>1 DEF HeadOK, RegsOK
  <2>3. RegsOK'
    BY <1>1, <2>1, ReturnKeepsRegs
  <2>4. current_priv' \in {PRIV_LVL_U, PRIV_LVL_S, PRIV_LVL_M}
    BY <1>1, <2>1, MretTarget DEF RegsOK
  <2> QED BY <1>1, <1>3, <1>4, <2>2, <2>3, <2>4 DEF CsrInv
<1>8. CASE sys_raises(op) = {} /\ op.kind = "sret"
  <2>1. /\ csr' = [csr EXCEPT !["mstatus"] = mstatus_sret_next]
        /\ current_priv' = sret_target_priv /\ head' = Done(op, csr["sepc"], FALSE)
    BY <1>8 DEF Execute
  <2>2. HeadOK'
    BY <1>1, <1>2, <2>1 DEF HeadOK, RegsOK
  <2>3. RegsOK'
    BY <1>1, <2>1, ReturnKeepsRegs
  <2>4. current_priv' \in {PRIV_LVL_U, PRIV_LVL_S, PRIV_LVL_M}
    BY <2>1 DEF sret_target_priv
  <2> QED BY <1>1, <1>3, <1>4, <2>2, <2>3, <2>4 DEF CsrInv
<1>9. CASE /\ sys_raises(op) = {} /\ ~(op.kind = "csr" /\ csr_write_en(op))
           /\ op.kind \notin {"mret", "sret"}
  <2>1. csr' = csr /\ head' = Done(op, Succ(pc), FALSE) /\ current_priv' = current_priv
    BY <1>9 DEF Execute
  <2>2. HeadOK'
    BY <1>1, <1>2, <2>1, CsrAssumption DEF HeadOK
  <2>3. RegsOK'
    BY <1>1, <2>1 DEF RegsOK, MppLegal
  <2> QED BY <1>1, <1>3, <1>4, <2>1, <2>2, <2>3 DEF CsrInv
<1> QED BY <1>5, <1>6, <1>7, <1>8, <1>9

\* Every cycle preserves the invariant.
LEMMA CsrInvNext == CsrInv /\ [Next]_vars => CsrInv'
<1> SUFFICES ASSUME CsrInv, [Next]_vars PROVE CsrInv'
  OBVIOUS
<1>0. /\ RegsOK /\ HeadOK /\ pc \in Pcs /\ torn \in BOOLEAN /\ pending \in BOOLEAN
      /\ current_priv \in {PRIV_LVL_U, PRIV_LVL_S, PRIV_LVL_M}
      /\ pending => \E op \in Ops, c \in Exceptions : head = Raised(op, c)
  BY DEF CsrInv
<1>1. csr' = csr => RegsOK'
  BY <1>0 DEF RegsOK, MppLegal
<1>2. ASSUME NEW c \in Causes, NEW i \in BOOLEAN, NEW p \in Pcs, TakeTrap(c, i, p),
             torn' \in BOOLEAN
      PROVE  CsrInv'
  BY <1>2, TrapKeepsRegs DEF CsrInv, HeadOK
<1>3. CASE Arrive
  <2>1. pending = FALSE
    BY <1>0, <1>3 DEF Arrive, Raised
  <2> QED BY <1>0, <1>1, <1>3, <2>1 DEF Arrive, CsrInv, HeadOK
<1>4. CASE Execute
  BY <1>4, ExecuteKeeps
<1>5. CASE Complete
  <2>1. head.op \in Ops
    BY <1>0, <1>5, HeadCases DEF Complete
  <2>2. pending = FALSE
    BY <1>0, <1>5 DEF Complete, Raised
  <2>3. HeadOK'
    BY <1>5, <2>1, CsrAssumption DEF Complete, HeadOK
  <2> QED BY <1>0, <1>1, <1>5, <2>2, <2>3 DEF Complete, CsrInv
<1>6. CASE Retire
  <2>1. head.npc \in Pcs
    BY <1>0, <1>6, HeadCases DEF Retire
  <2>2. pending = FALSE
    BY <1>0, <1>6 DEF Retire, Raised
  <2> QED BY <1>0, <1>1, <1>6, <2>1, <2>2 DEF Retire, CsrInv, HeadOK
<1>7. CASE Latch
  <2>1. \E op \in Ops, c \in Exceptions : head = Raised(op, c)
    BY <1>0, <1>7 DEF Latch, HeadOK, NoHead, Done
  <2> QED BY <1>0, <1>1, <1>7, <2>1 DEF Latch, CsrInv, HeadOK
<1>8. CASE ExceptionTrap
  <2>1. head.cause \in Causes
    BY <1>0, <1>8 DEF ExceptionTrap, Raised, Causes
  <2> QED BY <1>0, <1>2, <1>8, <2>1 DEF ExceptionTrap
<1>9. CASE \E p \in Pcs : IfetchTrap(p)
  <2>1. PICK p \in Pcs : IfetchTrap(p)
    BY <1>9
  <2>2. "ifetch" \in Causes
    BY DEF Causes, Exceptions
  <2>3. TakeTrap("ifetch", FALSE, p) /\ torn' \in BOOLEAN
    BY <1>0, <2>1, HeadCases DEF IfetchTrap
  <2> QED BY <1>2, <2>2, <2>3
<1>10. CASE \E lines \in SUBSET Interrupts : IrqTrap(lines)
  <2>1. PICK lines \in SUBSET Interrupts : IrqTrap(lines)
    BY <1>10
  <2>2. interrupt_cause(lines) \in Causes
    BY DEF interrupt_cause, Causes, Interrupts
  <2>3. TakeTrap(interrupt_cause(lines), TRUE, pc)
    BY <2>1 DEF IrqTrap
  <2>4. Effective \in BOOLEAN
    BY <1>0, HeadCases DEF Effective
  <2>5. torn' \in BOOLEAN
    BY <1>0, <2>1, <2>4 DEF IrqTrap
  <2> QED BY <1>0, <1>2, <2>2, <2>3, <2>5
<1>11. CASE UNCHANGED vars
  BY <1>0, <1>1, <1>11 DEF vars, CsrInv, HeadOK
<1> QED BY <1>3, <1>4, <1>5, <1>6, <1>7, <1>8, <1>9, <1>10, <1>11 DEF Next

\* The inductive invariant holds in every reachable state.
THEOREM CsrInvariant == Spec => []CsrInv
  BY CsrInvInit, CsrInvNext, PTL DEF Spec

\* The registers, the privilege and the head are well formed (csr.sv 478-571): the privilege is
\* never the reserved encoding 2 as long as software does not store it in MPP.
THEOREM CsrTypeCorrect == Spec => []CsrTypeOK
<1>1. CsrInv => CsrTypeOK
  <2> SUFFICES ASSUME CsrInv PROVE CsrTypeOK
    OBVIOUS
  <2>1. DOMAIN csr = Csrs
    BY DEF CsrInv, RegsOK
  <2>2. head.valid => head.op \in Ops
    BY HeadCases DEF CsrInv
  <2>3. pending => head.valid /\ head.state = "exception"
    BY DEF CsrInv, Raised
  <2> QED BY <2>1, <2>2, <2>3 DEF CsrInv, RegsOK, CsrTypeOK
<1> QED BY <1>1, CsrInvariant, PTL

----------------------------------------------------------------------------
(* The unit implements the privileged architecture.                         *)

\* The abstract state but for the program counter depends on the registers alone.
LEMMA AbsOfCsr ==
    csr' = csr => UNCHANGED <<AbsCtx, AbsIe, AbsTvec, AbsCause, csr["medeleg"], csr["mie"]>>
  BY DEF AbsCtx, AbsIe, AbsTvec, AbsCause, Saved, Bit, mret_target_priv, sret_target_priv

\* The abstract contexts, level by level.
LEMMA AbsAt ==
    /\ PRIV_LVL_S \in Levels /\ PRIV_LVL_M \in Levels /\ PRIV_LVL_S # PRIV_LVL_M
    /\ \A l \in Levels : l = PRIV_LVL_S \/ l = PRIV_LVL_M
    /\ AbsCtx[PRIV_LVL_M] = [pc |-> csr["mepc"], priv |-> mret_target_priv, ie |-> Bit("MPIE")]
    /\ AbsCtx[PRIV_LVL_S] = [pc |-> csr["sepc"], priv |-> sret_target_priv, ie |-> Bit("SPIE")]
    /\ AbsIe[PRIV_LVL_M] = Bit("MIE") /\ AbsIe[PRIV_LVL_S] = Bit("SIE")
    /\ AbsTvec[PRIV_LVL_M] = csr["mtvec"] /\ AbsTvec[PRIV_LVL_S] = csr["stvec"]
    /\ AbsCause[PRIV_LVL_M] = csr["mcause"] /\ AbsCause[PRIV_LVL_S] = csr["scause"]
  BY DEF Levels, PRIV_LVL_S, PRIV_LVL_M, AbsCtx, AbsIe, AbsTvec, AbsCause, Saved

\* The same of the next state.
LEMMA AbsAtNext ==
    /\ AbsCtx'[PRIV_LVL_M] = [pc |-> csr'["mepc"], priv |-> mret_target_priv', ie |-> Bit("MPIE")']
    /\ AbsCtx'[PRIV_LVL_S] = [pc |-> csr'["sepc"], priv |-> sret_target_priv', ie |-> Bit("SPIE")']
    /\ AbsIe'[PRIV_LVL_M] = Bit("MIE")' /\ AbsIe'[PRIV_LVL_S] = Bit("SIE")'
    /\ AbsTvec'[PRIV_LVL_M] = csr'["mtvec"] /\ AbsTvec'[PRIV_LVL_S] = csr'["stvec"]
    /\ AbsCause'[PRIV_LVL_M] = csr'["mcause"] /\ AbsCause'[PRIV_LVL_S] = csr'["scause"]
  BY DEF Levels, PRIV_LVL_S, PRIV_LVL_M, AbsCtx, AbsIe, AbsTvec, AbsCause, Saved

\* A trap into M: its context is the interrupted program, S's is untouched.
LEMMA TrapIntoM ==
    ASSUME CsrInv, NEW c \in Causes, NEW i \in BOOLEAN, NEW p \in Pcs, TakeTrap(c, i, p),
           ~trap_to_s_mode(c, i)
    PROVE  Arch!TrapInto(PRIV_LVL_M, p, c)
<1>0. RegsOK /\ current_priv \in {0, 1, 3}
  BY DEF CsrInv, PRIV_LVL_U, PRIV_LVL_S, PRIV_LVL_M
<1>1. /\ csr' = [csr EXCEPT !["mepc"] = p, !["mcause"] = {c}, !["mstatus"] = mstatus_trap_next]
      /\ current_priv' = PRIV_LVL_M /\ pc' = csr["mtvec"] /\ head' = NoHead
  BY DEF TakeTrap, FlushHead
<1>2. /\ csr'["mepc"] = p /\ csr'["mcause"] = {c} /\ csr'["mstatus"] = mstatus_trap_next
      /\ \A a \in Csrs : a \notin {"mepc", "mcause", "mstatus"} => csr'[a] = csr[a]
  <2>1. csr = [a \in Csrs |-> csr[a]]
    BY <1>0 DEF RegsOK
  <2>2. "mepc" \in Csrs /\ "mcause" \in Csrs /\ "mstatus" \in Csrs
    BY DEF Csrs
  <2> QED BY <1>1, <2>1, <2>2
<1>3. /\ csr'["mtvec"] = csr["mtvec"] /\ csr'["stvec"] = csr["stvec"]
      /\ csr'["sepc"] = csr["sepc"] /\ csr'["scause"] = csr["scause"]
      /\ csr'["medeleg"] = csr["medeleg"] /\ csr'["mie"] = csr["mie"]
  BY <1>2 DEF Csrs
<1>4. AbsPc' = AbsTvec[PRIV_LVL_M]
  BY <1>1, AbsAt DEF AbsPc, Effective, NoHead
<1>5. /\ mret_target_priv' = current_priv /\ sret_target_priv' = sret_target_priv
      /\ Bit("MPIE")' = Bit("MIE") /\ Bit("MIE")' = FALSE
      /\ Bit("SPIE")' = Bit("SPIE") /\ Bit("SIE")' = Bit("SIE")
  BY <1>0, <1>2, TrapStatus DEF mret_target_priv, sret_target_priv, Bit, csr_sstatus_mask
<1>6. AbsCtx' = [AbsCtx EXCEPT ![PRIV_LVL_M] = [pc |-> p, priv |-> current_priv,
                                                ie |-> AbsIe[PRIV_LVL_M]]]
  <2>1. AbsCtx'[PRIV_LVL_M] = [pc |-> p, priv |-> current_priv, ie |-> AbsIe[PRIV_LVL_M]]
    BY <1>2, <1>5, AbsAt, AbsAtNext
  <2>2. AbsCtx'[PRIV_LVL_S] = AbsCtx[PRIV_LVL_S]
    BY <1>3, <1>5, AbsAt, AbsAtNext
  <2>3. AbsCtx = [m \in Levels |-> AbsCtx[m]] /\ AbsCtx' = [m \in Levels |-> AbsCtx'[m]]
    BY DEF AbsCtx
  <2> QED BY <2>1, <2>2, <2>3, AbsAt
<1>7. AbsIe' = [AbsIe EXCEPT ![PRIV_LVL_M] = FALSE]
  <2>1. AbsIe'[PRIV_LVL_M] = FALSE /\ AbsIe'[PRIV_LVL_S] = AbsIe[PRIV_LVL_S]
    BY <1>5, AbsAt, AbsAtNext
  <2>2. AbsIe = [m \in Levels |-> AbsIe[m]] /\ AbsIe' = [m \in Levels |-> AbsIe'[m]]
    BY DEF AbsIe
  <2> QED BY <2>1, <2>2, AbsAt
<1>8. AbsCause' = [AbsCause EXCEPT ![PRIV_LVL_M] = {c}]
  <2>1. AbsCause'[PRIV_LVL_M] = {c} /\ AbsCause'[PRIV_LVL_S] = AbsCause[PRIV_LVL_S]
    BY <1>2, <1>3, AbsAt, AbsAtNext
  <2>2. AbsCause = [m \in Levels |-> AbsCause[m]] /\ AbsCause' = [m \in Levels |-> AbsCause'[m]]
    BY DEF AbsCause
  <2> QED BY <2>1, <2>2, AbsAt
<1>9. AbsTvec' = AbsTvec
  BY <1>3 DEF AbsTvec
<1> QED BY <1>1, <1>3, <1>4, <1>6, <1>7, <1>8, <1>9 DEF Arch!TrapInto

\* A trap into S: its context is the interrupted program, of U or S; M's is untouched.
LEMMA TrapIntoS ==
    ASSUME CsrInv, NEW c \in Causes, NEW i \in BOOLEAN, NEW p \in Pcs, TakeTrap(c, i, p),
           trap_to_s_mode(c, i)
    PROVE  Arch!TrapInto(PRIV_LVL_S, p, c)
<1>0. RegsOK /\ current_priv \in {PRIV_LVL_U, PRIV_LVL_S}
  BY DEF CsrInv, trap_to_s_mode
<1>1. /\ csr' = [csr EXCEPT !["sepc"] = p, !["scause"] = {c}, !["mstatus"] = mstatus_s_trap_next]
      /\ current_priv' = PRIV_LVL_S /\ pc' = csr["stvec"] /\ head' = NoHead
  BY DEF TakeTrap, FlushHead
<1>2. /\ csr'["sepc"] = p /\ csr'["scause"] = {c} /\ csr'["mstatus"] = mstatus_s_trap_next
      /\ \A a \in Csrs : a \notin {"sepc", "scause", "mstatus"} => csr'[a] = csr[a]
  <2>1. csr = [a \in Csrs |-> csr[a]]
    BY <1>0 DEF RegsOK
  <2>2. "sepc" \in Csrs /\ "scause" \in Csrs /\ "mstatus" \in Csrs
    BY DEF Csrs
  <2> QED BY <1>1, <2>1, <2>2
<1>3. /\ csr'["mtvec"] = csr["mtvec"] /\ csr'["stvec"] = csr["stvec"]
      /\ csr'["mepc"] = csr["mepc"] /\ csr'["mcause"] = csr["mcause"]
      /\ csr'["medeleg"] = csr["medeleg"] /\ csr'["mie"] = csr["mie"]
  BY <1>2 DEF Csrs
<1>4. AbsPc' = AbsTvec[PRIV_LVL_S]
  BY <1>1, AbsAt DEF AbsPc, Effective, NoHead
<1>5. /\ sret_target_priv' = current_priv /\ mret_target_priv' = mret_target_priv
      /\ Bit("SPIE")' = Bit("SIE") /\ Bit("SIE")' = FALSE
      /\ Bit("MPIE")' = Bit("MPIE") /\ Bit("MIE")' = Bit("MIE")
  BY <1>0, <1>2, TrapStatus
  DEF mret_target_priv, sret_target_priv, Bit, PRIV_LVL_U, PRIV_LVL_S
<1>6. AbsCtx' = [AbsCtx EXCEPT ![PRIV_LVL_S] = [pc |-> p, priv |-> current_priv,
                                                ie |-> AbsIe[PRIV_LVL_S]]]
  <2>1. AbsCtx'[PRIV_LVL_S] = [pc |-> p, priv |-> current_priv, ie |-> AbsIe[PRIV_LVL_S]]
    BY <1>2, <1>5, AbsAt, AbsAtNext
  <2>2. AbsCtx'[PRIV_LVL_M] = AbsCtx[PRIV_LVL_M]
    BY <1>3, <1>5, AbsAt, AbsAtNext
  <2>3. AbsCtx = [m \in Levels |-> AbsCtx[m]] /\ AbsCtx' = [m \in Levels |-> AbsCtx'[m]]
    BY DEF AbsCtx
  <2> QED BY <2>1, <2>2, <2>3, AbsAt
<1>7. AbsIe' = [AbsIe EXCEPT ![PRIV_LVL_S] = FALSE]
  <2>1. AbsIe'[PRIV_LVL_S] = FALSE /\ AbsIe'[PRIV_LVL_M] = AbsIe[PRIV_LVL_M]
    BY <1>5, AbsAt, AbsAtNext
  <2>2. AbsIe = [m \in Levels |-> AbsIe[m]] /\ AbsIe' = [m \in Levels |-> AbsIe'[m]]
    BY DEF AbsIe
  <2> QED BY <2>1, <2>2, AbsAt
<1>8. AbsCause' = [AbsCause EXCEPT ![PRIV_LVL_S] = {c}]
  <2>1. AbsCause'[PRIV_LVL_S] = {c} /\ AbsCause'[PRIV_LVL_M] = AbsCause[PRIV_LVL_M]
    BY <1>2, <1>3, AbsAt, AbsAtNext
  <2>2. AbsCause = [m \in Levels |-> AbsCause[m]] /\ AbsCause' = [m \in Levels |-> AbsCause'[m]]
    BY DEF AbsCause
  <2> QED BY <2>1, <2>2, AbsAt
<1>9. AbsTvec' = AbsTvec
  BY <1>3 DEF AbsTvec
<1> QED BY <1>1, <1>3, <1>4, <1>6, <1>7, <1>8, <1>9 DEF Arch!TrapInto

\* An exception that is taken where the program stands is one of the architecture.
LEMMA ExceptionIsArch ==
    ASSUME CsrInv, NEW c \in Exceptions, TakeTrap(c, FALSE, pc), ~Effective
    PROVE  Arch!Next
<1>1. c \in Causes /\ c \notin Interrupts
  BY DEF Causes, Exceptions, Interrupts
<1>2. AbsPc = pc /\ pc \in Pcs
  BY DEF AbsPc, CsrInv
<1>3. current_priv \in {0, 1, 3}
  BY DEF CsrInv, PRIV_LVL_U, PRIV_LVL_S, PRIV_LVL_M
<1>4. c \notin Arch!Interrupts
  BY <1>1 DEF Interrupts, Arch!Interrupts
<1>5. CASE trap_to_s_mode(c, FALSE)
  <2>1. Arch!TrapInto(PRIV_LVL_S, AbsPc, c)
    BY <1>1, <1>2, <1>5, TrapIntoS
  <2>2. Arch!HandledBy(c) = PRIV_LVL_S
    BY <1>3, <1>5
    DEF Arch!HandledBy, Arch!S, Arch!M, PRIV_LVL_S, PRIV_LVL_M, trap_to_s_mode, trap_delegate_to_s
  <2>3. Arch!Exception(c)
    BY <1>4, <2>1, <2>2 DEF Arch!Exception
  <2>4. c \in AbsCause'[PRIV_LVL_S]
    BY <2>1, AbsAt DEF Arch!TrapInto, AbsCause
  <2>5. PRIV_LVL_S \in Arch!Levels
    BY DEF Arch!Levels, Arch!S, PRIV_LVL_S
  <2> QED BY <2>3, <2>4, <2>5 DEF Arch!Next
<1>6. CASE ~trap_to_s_mode(c, FALSE)
  <2>1. Arch!TrapInto(PRIV_LVL_M, AbsPc, c)
    BY <1>1, <1>2, <1>6, TrapIntoM
  <2>2. Arch!HandledBy(c) = PRIV_LVL_M
    BY <1>3, <1>6
    DEF Arch!HandledBy, Arch!S, Arch!M, PRIV_LVL_S, PRIV_LVL_M, trap_to_s_mode, trap_delegate_to_s
  <2>3. Arch!Exception(c)
    BY <1>4, <2>1, <2>2 DEF Arch!Exception
  <2>4. c \in AbsCause'[PRIV_LVL_M]
    BY <2>1, AbsAt DEF Arch!TrapInto, AbsCause
  <2>5. PRIV_LVL_M \in Arch!Levels
    BY DEF Arch!Levels, Arch!M, PRIV_LVL_M
  <2> QED BY <2>3, <2>4, <2>5 DEF Arch!Next
<1> QED BY <1>5, <1>6

\* So is an interrupt taken between two instructions.
LEMMA InterruptIsArch ==
    ASSUME CsrInv, NEW lines \in SUBSET Interrupts, IrqTrap(lines), ~Effective
    PROVE  Arch!Next
<1> DEFINE c == interrupt_cause(lines)
<1>1. TakeTrap(c, TRUE, pc) /\ Bit("MIE") /\ lines \cap csr["mie"] # {}
  BY DEF IrqTrap, interrupt_pending
<1>2. c \in Interrupts /\ c \in csr["mie"]
  BY <1>1 DEF interrupt_cause, Interrupts
<1>3. ~trap_to_s_mode(c, TRUE)
  BY DEF trap_to_s_mode
<1>4. AbsPc = pc /\ pc \in Pcs /\ c \in Causes
  BY <1>2 DEF AbsPc, CsrInv, Causes
<1>5. Arch!TrapInto(PRIV_LVL_M, AbsPc, c)
  BY <1>1, <1>3, <1>4, TrapIntoM
<1>6. AbsIe[PRIV_LVL_M]
  BY <1>1, AbsAt
<1>7. Arch!Interrupt(c)
  BY <1>2, <1>5, <1>6 DEF Arch!Interrupt, Arch!Interrupts, Interrupts, Arch!M, PRIV_LVL_M
<1>8. c \in AbsCause'[PRIV_LVL_M]
  BY <1>5, AbsAt DEF Arch!TrapInto, AbsCause
<1>9. PRIV_LVL_M \in Arch!Levels
  BY DEF Arch!Levels, Arch!M, PRIV_LVL_M
<1> HIDE DEF c
<1> QED BY <1>7, <1>8, <1>9 DEF Arch!Next

\* What a return leaves of the context it used.
LEMMA ContextReturned ==
    ASSUME NEW p, NEW r, r = [f \in {"pc", "priv", "ie"} |-> r[f]], r.pc = p
    PROVE  [r EXCEPT !.priv = 0, !.ie = TRUE] = [pc |-> p, priv |-> 0, ie |-> TRUE]
<1> DEFINE q == [r EXCEPT !.priv = 0, !.ie = TRUE]
           t == [pc |-> p, priv |-> 0, ie |-> TRUE]
<1>1. DOMAIN q = {"pc", "priv", "ie"} /\ DOMAIN t = {"pc", "priv", "ie"}
  BY Zenon
<1>2. q.pc = p /\ q.priv = 0 /\ q.ie = TRUE /\ t.pc = p /\ t.priv = 0 /\ t.ie = TRUE
  BY Zenon
<1>3. q = [f \in {"pc", "priv", "ie"} |-> q[f]] /\ t = [f \in {"pc", "priv", "ie"} |-> t[f]]
  BY <1>1, Zenon
<1>4. \A f \in {"pc", "priv", "ie"} : q[f] = t[f]
  BY <1>2, Zenon
<1>5. q = t
  <2> HIDE DEF q, t
  <2> QED BY <1>3, <1>4
<1> QED BY <1>5, Zenon

\* mret returns to the program whose trap into M came last, and leaves S's context alone.
LEMMA ReturnFromM ==
    ASSUME CsrInv, NEW op \in Ops, op.kind = "mret", current_priv = PRIV_LVL_M,
           csr' = [csr EXCEPT !["mstatus"] = mstatus_mret_next],
           current_priv' = mret_target_priv, head' = Done(op, csr["mepc"], FALSE)
    PROVE  Arch!Next
<1>1. /\ csr'["mstatus"] = mstatus_mret_next
      /\ \A a \in Csrs : a # "mstatus" => csr'[a] = csr[a]
  <2>1. csr = [a \in Csrs |-> csr[a]] /\ "mstatus" \in Csrs
    BY DEF CsrInv, RegsOK, Csrs
  <2> QED BY <2>1
<1>2. /\ csr'["mtvec"] = csr["mtvec"] /\ csr'["stvec"] = csr["stvec"]
      /\ csr'["mepc"] = csr["mepc"] /\ csr'["mcause"] = csr["mcause"]
      /\ csr'["sepc"] = csr["sepc"] /\ csr'["scause"] = csr["scause"]
      /\ csr'["medeleg"] = csr["medeleg"] /\ csr'["mie"] = csr["mie"]
  BY <1>1 DEF Csrs
<1>3. AbsPc' = AbsCtx[PRIV_LVL_M].pc /\ current_priv' = AbsCtx[PRIV_LVL_M].priv
  BY AbsAt DEF AbsPc, Effective, Done
<1>4. /\ mret_target_priv' = 0 /\ sret_target_priv' = sret_target_priv
      /\ Bit("MPIE")' = TRUE /\ Bit("MIE")' = Bit("MPIE")
      /\ Bit("SPIE")' = Bit("SPIE") /\ Bit("SIE")' = Bit("SIE")
  BY <1>1, ReturnStatus
  DEF mret_target_priv, sret_target_priv, Bit, PRIV_LVL_U, csr_sstatus_mask
<1>5. AbsCtx' = [AbsCtx EXCEPT ![PRIV_LVL_M] = [@ EXCEPT !.priv = 0, !.ie = TRUE]]
  <2>1. AbsCtx'[PRIV_LVL_M] = [AbsCtx[PRIV_LVL_M] EXCEPT !.priv = 0, !.ie = TRUE]
    <3>1. AbsCtx'[PRIV_LVL_M] = [pc |-> csr["mepc"], priv |-> 0, ie |-> TRUE]
      BY <1>2, <1>4, AbsAtNext, Zenon
    <3>2. /\ AbsCtx[PRIV_LVL_M] = [f \in {"pc", "priv", "ie"} |-> AbsCtx[PRIV_LVL_M][f]]
          /\ AbsCtx[PRIV_LVL_M].pc = csr["mepc"]
      BY AbsAt
    <3>3. [AbsCtx[PRIV_LVL_M] EXCEPT !.priv = 0, !.ie = TRUE]
          = [pc |-> csr["mepc"], priv |-> 0, ie |-> TRUE]
      BY <3>2, ContextReturned, Zenon
    <3> QED BY <3>1, <3>3, Zenon
  <2>2. AbsCtx'[PRIV_LVL_S] = AbsCtx[PRIV_LVL_S]
    BY <1>2, <1>4, AbsAt, AbsAtNext
  <2>3. AbsCtx = [m \in Levels |-> AbsCtx[m]] /\ AbsCtx' = [m \in Levels |-> AbsCtx'[m]]
    BY DEF AbsCtx
  <2> QED BY <2>1, <2>2, <2>3, AbsAt
<1>6. AbsIe' = [AbsIe EXCEPT ![PRIV_LVL_M] = AbsCtx[PRIV_LVL_M].ie]
  <2>1. /\ AbsIe'[PRIV_LVL_M] = AbsCtx[PRIV_LVL_M].ie
        /\ AbsIe'[PRIV_LVL_S] = AbsIe[PRIV_LVL_S]
    BY <1>4, AbsAt, AbsAtNext
  <2>2. AbsIe = [m \in Levels |-> AbsIe[m]] /\ AbsIe' = [m \in Levels |-> AbsIe'[m]]
    BY DEF AbsIe
  <2> QED BY <2>1, <2>2, AbsAt
<1>7. AbsTvec' = AbsTvec /\ AbsCause' = AbsCause
  BY <1>2 DEF AbsTvec, AbsCause
<1>8. Arch!Return(PRIV_LVL_M)
  BY <1>2, <1>3, <1>5, <1>6, <1>7 DEF Arch!Return, Arch!U
<1>9. PRIV_LVL_M \in Arch!Levels
  BY DEF Arch!Levels, Arch!S, Arch!M, PRIV_LVL_S, PRIV_LVL_M
<1> QED BY <1>8, <1>9 DEF Arch!Next

\* sret returns to the program whose trap into S came last, and leaves M's context alone.
LEMMA ReturnFromS ==
    ASSUME CsrInv, NEW op \in Ops, op.kind = "sret", current_priv = PRIV_LVL_S,
           csr' = [csr EXCEPT !["mstatus"] = mstatus_sret_next],
           current_priv' = sret_target_priv, head' = Done(op, csr["sepc"], FALSE)
    PROVE  Arch!Next
<1>1. /\ csr'["mstatus"] = mstatus_sret_next
      /\ \A a \in Csrs : a # "mstatus" => csr'[a] = csr[a]
  <2>1. csr = [a \in Csrs |-> csr[a]] /\ "mstatus" \in Csrs
    BY DEF CsrInv, RegsOK, Csrs
  <2> QED BY <2>1
<1>2. /\ csr'["mtvec"] = csr["mtvec"] /\ csr'["stvec"] = csr["stvec"]
      /\ csr'["mepc"] = csr["mepc"] /\ csr'["mcause"] = csr["mcause"]
      /\ csr'["sepc"] = csr["sepc"] /\ csr'["scause"] = csr["scause"]
      /\ csr'["medeleg"] = csr["medeleg"] /\ csr'["mie"] = csr["mie"]
  BY <1>1 DEF Csrs
<1>3. AbsPc' = AbsCtx[PRIV_LVL_S].pc /\ current_priv' = AbsCtx[PRIV_LVL_S].priv
  BY AbsAt DEF AbsPc, Effective, Done
<1>4. /\ sret_target_priv' = 0 /\ mret_target_priv' = mret_target_priv
      /\ Bit("SPIE")' = TRUE /\ Bit("SIE")' = Bit("SPIE")
      /\ Bit("MPIE")' = Bit("MPIE") /\ Bit("MIE")' = Bit("MIE")
  BY <1>1, ReturnStatus
  DEF mret_target_priv, sret_target_priv, Bit, PRIV_LVL_U, csr_sstatus_mask
<1>5. AbsCtx' = [AbsCtx EXCEPT ![PRIV_LVL_S] = [@ EXCEPT !.priv = 0, !.ie = TRUE]]
  <2>1. AbsCtx'[PRIV_LVL_S] = [AbsCtx[PRIV_LVL_S] EXCEPT !.priv = 0, !.ie = TRUE]
    <3>1. AbsCtx'[PRIV_LVL_S] = [pc |-> csr["sepc"], priv |-> 0, ie |-> TRUE]
      BY <1>2, <1>4, AbsAtNext, Zenon
    <3>2. /\ AbsCtx[PRIV_LVL_S] = [f \in {"pc", "priv", "ie"} |-> AbsCtx[PRIV_LVL_S][f]]
          /\ AbsCtx[PRIV_LVL_S].pc = csr["sepc"]
      BY AbsAt
    <3>3. [AbsCtx[PRIV_LVL_S] EXCEPT !.priv = 0, !.ie = TRUE]
          = [pc |-> csr["sepc"], priv |-> 0, ie |-> TRUE]
      BY <3>2, ContextReturned, Zenon
    <3> QED BY <3>1, <3>3, Zenon
  <2>2. AbsCtx'[PRIV_LVL_M] = AbsCtx[PRIV_LVL_M]
    BY <1>2, <1>4, AbsAt, AbsAtNext
  <2>3. AbsCtx = [m \in Levels |-> AbsCtx[m]] /\ AbsCtx' = [m \in Levels |-> AbsCtx'[m]]
    BY DEF AbsCtx
  <2> QED BY <2>1, <2>2, <2>3, AbsAt
<1>6. AbsIe' = [AbsIe EXCEPT ![PRIV_LVL_S] = AbsCtx[PRIV_LVL_S].ie]
  <2>1. /\ AbsIe'[PRIV_LVL_S] = AbsCtx[PRIV_LVL_S].ie
        /\ AbsIe'[PRIV_LVL_M] = AbsIe[PRIV_LVL_M]
    BY <1>4, AbsAt, AbsAtNext
  <2>2. AbsIe = [m \in Levels |-> AbsIe[m]] /\ AbsIe' = [m \in Levels |-> AbsIe'[m]]
    BY DEF AbsIe
  <2> QED BY <2>1, <2>2, AbsAt
<1>7. AbsTvec' = AbsTvec /\ AbsCause' = AbsCause
  BY <1>2 DEF AbsTvec, AbsCause
<1>8. Arch!Return(PRIV_LVL_S)
  BY <1>2, <1>3, <1>5, <1>6, <1>7 DEF Arch!Return, Arch!U
<1>9. PRIV_LVL_S \in Arch!Levels
  BY DEF Arch!Levels, Arch!S, Arch!M, PRIV_LVL_S, PRIV_LVL_M
<1> QED BY <1>8, <1>9 DEF Arch!Next

\* A CSR write leaves the state of every level above the writer's alone: csr_priv_valid keeps U
\* and S from M's registers, and the sstatus mask keeps S from M's bits of mstatus.
LEMMA WriteIsArch ==
    ASSUME CsrInv, NEW op \in Ops, op.kind = "csr", csr_write_en(op), csr' = CsrWritten(op),
           head' = Done(op, Succ(pc), TRUE), current_priv' = current_priv, ~Effective
    PROVE  Arch!Next
<1>1. AbsPc = pc /\ AbsPc' = Succ(pc)
  BY DEF AbsPc, Effective, Done
<1>2. current_priv \in {0, 1, 3} /\ csr = [a \in Csrs |-> csr[a]]
  BY DEF CsrInv, RegsOK, PRIV_LVL_U, PRIV_LVL_S, PRIV_LVL_M
<1>3. CASE current_priv = 3
  <2>1. \A l \in Arch!Levels : ~(l > current_priv)
    BY <1>3 DEF Arch!Levels, Arch!S, Arch!M
  <2>2. Arch!Write
    BY <1>1, <1>3, <2>1 DEF Arch!Write, Arch!M
  <2> QED BY <2>2 DEF Arch!Next
<1>4. CASE current_priv # 3
  <2>1. op.addr \in SRegs /\ op.addr \notin MRegs /\ current_priv = 1
    BY <1>2, <1>4
    DEF csr_write_en, csr_addr_valid, csr_priv_valid, PRIV_LVL_S, PRIV_LVL_M, MRegs, SRegs
  <2>2. /\ \A a \in Csrs : a \notin {"mstatus", "stvec", "sepc", "scause", "sscratch", "satp"}
                              => csr'[a] = csr[a]
        /\ \A b \in {"MIE", "MPIE", "MPP0", "MPP1"} : Bit(b)' = Bit(b)
    <3>1. CASE op.addr = "sstatus"
      <4>1. csr' = [csr EXCEPT !["mstatus"] = MaskedStatus(csr_write_val(op))]
        BY <3>1 DEF CsrWritten, Csrs
      <4>2. /\ csr'["mstatus"] = MaskedStatus(csr_write_val(op))
            /\ \A a \in Csrs : a # "mstatus" => csr'[a] = csr[a]
        <5>1. "mstatus" \in Csrs
          BY DEF Csrs
        <5> QED BY <1>2, <4>1, <5>1
      <4> QED BY <4>2 DEF Bit, MaskedStatus, csr_sstatus_mask
    <3>2. CASE op.addr = "satp"
      <4>1. csr' = [csr EXCEPT !["satp"] = sanitize_satp(csr_write_val(op))]
        BY <3>2 DEF CsrWritten
      <4>2. \A a \in Csrs : a # "satp" => csr'[a] = csr[a]
        BY <1>2, <4>1
      <4>3. "mstatus" \in Csrs
        BY DEF Csrs
      <4> QED BY <4>2, <4>3 DEF Bit
    <3>3. CASE op.addr \in {"stvec", "sepc", "scause", "sscratch"}
      <4>1. csr' = [csr EXCEPT ![op.addr] = csr_write_val(op)]
        BY <3>3 DEF CsrWritten, Csrs
      <4>2. \A a \in Csrs : a # op.addr => csr'[a] = csr[a]
        BY <1>2, <4>1
      <4>3. "mstatus" \in Csrs /\ op.addr # "mstatus"
        BY <3>3 DEF Csrs
      <4> QED BY <3>3, <4>2, <4>3 DEF Bit
    <3> QED BY <2>1, <3>1, <3>2, <3>3 DEF SRegs
  <2>3. /\ csr'["mepc"] = csr["mepc"] /\ csr'["mtvec"] = csr["mtvec"]
        /\ csr'["mcause"] = csr["mcause"]
        /\ csr'["medeleg"] = csr["medeleg"] /\ csr'["mie"] = csr["mie"]
    BY <2>2 DEF Csrs
  <2>4. mret_target_priv' = mret_target_priv
    BY <2>2 DEF mret_target_priv
  <2>5. Bit("MPIE")' = Bit("MPIE") /\ Bit("MIE")' = Bit("MIE")
    BY <2>2
  <2>6. /\ AbsCtx'[PRIV_LVL_M] = AbsCtx[PRIV_LVL_M] /\ AbsIe'[PRIV_LVL_M] = AbsIe[PRIV_LVL_M]
        /\ AbsTvec'[PRIV_LVL_M] = AbsTvec[PRIV_LVL_M]
        /\ AbsCause'[PRIV_LVL_M] = AbsCause[PRIV_LVL_M]
    BY <2>3, <2>4, <2>5, AbsAt, AbsAtNext
  <2>7. \A l \in Arch!Levels : l > current_priv => l = PRIV_LVL_M
    BY <2>1 DEF Arch!Levels, Arch!S, Arch!M, PRIV_LVL_M
  <2>8. Arch!Write
    BY <1>1, <2>3, <2>6, <2>7 DEF Arch!Write
  <2> QED BY <2>8 DEF Arch!Next
<1> QED BY <1>3, <1>4

\* Every cycle of the unit is a step of the architecture or none at all.
LEMMA CsrStepIsArch == CsrInv /\ [Next]_vars => [Arch!Next]_(Arch!avars)
<1> SUFFICES ASSUME CsrInv, [Next]_vars PROVE Arch!Next \/ UNCHANGED Arch!avars
  OBVIOUS
<1>0. RegsOK /\ HeadOK /\ pc \in Pcs
  BY DEF CsrInv
<1>1. ASSUME csr' = csr, current_priv' = current_priv, torn' = torn, AbsPc' = AbsPc
      PROVE  UNCHANGED Arch!avars
  BY <1>1, AbsOfCsr DEF Arch!avars
<1>2. CASE Arrive
  <2>1. AbsPc' = AbsPc
    BY <1>2 DEF Arrive, AbsPc, Effective
  <2> QED BY <1>1, <1>2, <2>1 DEF Arrive
<1>3. CASE Execute
  <2> DEFINE op == head.op
  <2>1. /\ head.valid /\ head.state = "waiting" /\ op \in Ops /\ ~Effective
        /\ pc' = pc /\ torn' = torn
    BY <1>0, <1>3, HeadCases DEF Execute, Effective
  <2>2. CASE sys_raises(op) # {}
    <3>1. csr' = csr /\ current_priv' = current_priv
          /\ \E c \in sys_raises(op) : head' = Raised(op, c)
      BY <1>3, <2>2 DEF Execute
    <3>2. AbsPc' = AbsPc
      BY <2>1, <3>1 DEF AbsPc, Effective, Raised
    <3> QED BY <1>1, <2>1, <3>1, <3>2
  <2>3. CASE sys_raises(op) = {} /\ op.kind = "csr" /\ csr_write_en(op)
    <3>1. csr' = CsrWritten(op) /\ head' = Done(op, Succ(pc), TRUE) /\ current_priv' = current_priv
      BY <1>3, <2>3 DEF Execute
    <3> QED BY <2>1, <2>3, <3>1, WriteIsArch
  <2>4. CASE sys_raises(op) = {} /\ op.kind = "mret"
    <3>1. /\ csr' = [csr EXCEPT !["mstatus"] = mstatus_mret_next]
          /\ current_priv' = mret_target_priv /\ head' = Done(op, csr["mepc"], FALSE)
      BY <1>3, <2>4 DEF Execute
    <3>2. current_priv = PRIV_LVL_M
      BY <2>4 DEF sys_raises
    <3> QED BY <2>1, <2>4, <3>1, <3>2, ReturnFromM
  <2>5. CASE sys_raises(op) = {} /\ op.kind = "sret"
    <3>1. /\ csr' = [csr EXCEPT !["mstatus"] = mstatus_sret_next]
          /\ current_priv' = sret_target_priv /\ head' = Done(op, csr["sepc"], FALSE)
      BY <1>3, <2>5 DEF Execute
    <3>2. current_priv = PRIV_LVL_S
      BY <2>5 DEF sys_raises
    <3> QED BY <2>1, <2>5, <3>1, <3>2, ReturnFromS
  <2>6. CASE /\ sys_raises(op) = {} /\ ~(op.kind = "csr" /\ csr_write_en(op))
             /\ op.kind \notin {"mret", "sret"}
    <3>1. csr' = csr /\ head' = Done(op, Succ(pc), FALSE) /\ current_priv' = current_priv
      BY <1>3, <2>6 DEF Execute
    <3>2. AbsPc' = AbsPc
      BY <2>1, <2>6, <3>1 DEF AbsPc, Effective, Done
    <3> QED BY <1>1, <2>1, <3>1, <3>2
  <2> QED BY <2>2, <2>3, <2>4, <2>5, <2>6
<1>4. CASE Complete
  <2>1. ~Effective'
    BY <1>4 DEF Complete, Effective, Done, Raised
  <2>2. AbsPc' = AbsPc
    BY <1>4, <2>1 DEF Complete, AbsPc, Effective
  <2> QED BY <1>1, <1>4, <2>2 DEF Complete
<1>5. CASE Retire
  <2>1. AbsPc' = head.npc /\ head.npc \in Pcs
    BY <1>0, <1>5, HeadCases DEF Retire, AbsPc, Effective, NoHead
  <2>2. CASE Effective
    <3>1. AbsPc' = AbsPc
      BY <2>1, <2>2 DEF AbsPc
    <3> QED BY <1>1, <1>5, <3>1 DEF Retire
  <2>3. CASE ~Effective
    <3>1. Arch!Step(head.npc)
      BY <1>5, <2>1, AbsOfCsr DEF Retire, Arch!Step
    <3> QED BY <2>1, <3>1 DEF Arch!Next
  <2> QED BY <2>2, <2>3
<1>6. CASE Latch
  <2>1. AbsPc' = AbsPc
    BY <1>6 DEF Latch, AbsPc, Effective
  <2> QED BY <1>1, <1>6, <2>1 DEF Latch
<1>7. CASE ExceptionTrap
  <2>1. head.cause \in Exceptions /\ ~Effective
    BY <1>7 DEF ExceptionTrap, CsrInv, Raised, Effective
  <2>2. TakeTrap(head.cause, FALSE, pc)
    BY <1>7 DEF ExceptionTrap
  <2> QED BY <2>1, <2>2, ExceptionIsArch
<1>8. CASE \E p \in Pcs : IfetchTrap(p)
  <2>1. PICK p \in Pcs : IfetchTrap(p)
    BY <1>8
  <2>2. CASE torn'
    BY <2>2 DEF Arch!Next
  <2>3. CASE ~torn'
    <3>1. ~head.valid /\ p = pc
      BY <2>1, <2>3 DEF IfetchTrap
    <3>2. TakeTrap("ifetch", FALSE, pc) /\ ~Effective /\ "ifetch" \in Exceptions
      BY <2>1, <3>1 DEF IfetchTrap, Effective, Exceptions
    <3> QED BY <3>2, ExceptionIsArch
  <2> QED BY <2>2, <2>3
<1>9. CASE \E lines \in SUBSET Interrupts : IrqTrap(lines)
  <2>1. PICK lines \in SUBSET Interrupts : IrqTrap(lines)
    BY <1>9
  <2>2. CASE torn'
    BY <2>2 DEF Arch!Next
  <2>3. CASE ~torn'
    <3>1. ~Effective
      BY <2>1, <2>3 DEF IrqTrap
    <3> QED BY <2>1, <3>1, InterruptIsArch
  <2> QED BY <2>2, <2>3
<1>10. CASE UNCHANGED vars
  <2>1. AbsPc' = AbsPc
    BY <1>10 DEF vars, AbsPc, Effective
  <2> QED BY <1>1, <1>10, <2>1 DEF vars
<1> QED BY <1>2, <1>3, <1>4, <1>5, <1>6, <1>7, <1>8, <1>9, <1>10 DEF Next

\* The unit behind its arbiter (csr.sv 333-571, backend.sv 1855-1880) is the privileged
\* architecture, through nested traps of both levels, until a trap tears an instruction apart.
THEOREM CsrIsArchitectural == Spec => Architectural
<1>1. Init => Arch!Init
  <2> SUFFICES ASSUME Init PROVE Arch!Init
    OBVIOUS
  <2>1. csr = [a \in Csrs |-> IF a = "mstatus" THEN {"MPP0", "MPP1"} ELSE {}]
    BY DEF Init
  <2>2. /\ csr["mstatus"] = {"MPP0", "MPP1"}
        /\ csr["mepc"] = {} /\ csr["sepc"] = {} /\ csr["mtvec"] = {} /\ csr["stvec"] = {}
        /\ csr["mcause"] = {} /\ csr["scause"] = {} /\ csr["medeleg"] = {} /\ csr["mie"] = {}
    BY <2>1 DEF Csrs
  <2>3. /\ mret_target_priv = 3 /\ sret_target_priv = 0
        /\ Bit("MPIE") = FALSE /\ Bit("SPIE") = FALSE /\ Bit("MIE") = FALSE /\ Bit("SIE") = FALSE
    BY <2>2 DEF mret_target_priv, sret_target_priv, Bit, PRIV_LVL_U
  <2>4. AbsPc = ResetPc
    BY DEF Init, AbsPc, Effective, NoHead
  <2>5. AbsCtx = [l \in Arch!Levels |-> [pc |-> {}, priv |-> IF l = Arch!M THEN Arch!M ELSE Arch!U,
                                         ie |-> FALSE]]
    BY <2>2, <2>3
    DEF AbsCtx, Saved, Levels, PRIV_LVL_S, PRIV_LVL_M, Arch!Levels, Arch!S, Arch!M, Arch!U
  <2>6. /\ AbsIe = [l \in Arch!Levels |-> FALSE]
        /\ AbsTvec = [l \in Arch!Levels |-> {}] /\ AbsCause = [l \in Arch!Levels |-> {}]
    BY <2>2, <2>3
    DEF AbsIe, AbsTvec, AbsCause, Levels, PRIV_LVL_S, PRIV_LVL_M, Arch!Levels, Arch!S, Arch!M
  <2> QED BY <2>2, <2>4, <2>5, <2>6 DEF Init, Arch!Init, Arch!M, PRIV_LVL_M
<1> QED BY <1>1, CsrStepIsArch, CsrInvariant, PTL DEF Spec, Architectural, Arch!Spec
=============================================================================
