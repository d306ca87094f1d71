------------------------------ MODULE Operands ------------------------------
(***************************************************************************)
(* Where a dispatched micro-op gets its source operands: rename's RAT      *)
(* lookup and intra-bundle dependency check (rename/rename.sv), the read   *)
(* of the ROB query port, the ARF and the commit bypass (backend.sv        *)
(* 851-954), and capture from the common data bus by the reservation       *)
(* stations (issue/rs.sv, issue/rs_lsu.sv).                                *)
(*                                                                         *)
(* It adds to Rob the operand fields of the stations and the fetch epoch   *)
(* every micro-op carries.  The stations are indexed by ROB tag; which of  *)
(* the RS_DEPTH entries a micro-op occupies makes no difference here.      *)
(***************************************************************************)
EXTENDS Rob

CONSTANTS
    Ports,      \* source operands of a micro-op: uop.src[p] is a register
    EPOCHS      \* 2 ^ FETCH_EPOCH_W

ASSUME OperandsAssumption ==
    /\ EPOCHS \in Nat \ {0}
    /\ \A u \in Uops : u.src \in [Ports -> Regs] /\ u.is_sfence \in BOOLEAN

VARIABLES
    opnd,           \* per ROB tag and port: ready bit r, awaited tag q, value v
    fetch_epoch,    \* per ROB tag: the epoch the micro-op was fetched in
    fe_epoch,       \* the front end's current epoch
    disp_epoch,     \* the epoch of the micro-ops now reaching rename
    want            \* per ROB tag and port: the value program order calls for (history)

ovars == <<opnd, fetch_epoch, fe_epoch, disp_epoch, want>>
allvars == <<vars, ovars>>

\* Epochs are FETCH_EPOCH_W bits and wrap by truncation.
EpochGrows(e) == e + 1
NextEpoch(e) == IF e + 1 = EPOCHS THEN 0 ELSE e + 1

----------------------------------------------------------------------------
(* Rename of source p of the i-th micro-op of the bundle D.                 *)
InBundle(D, i, p) == {j \in DispWriters(D[i + 1].src[p], D) : j < i}

in_rob(D, i, p) == InBundle(D, i, p) # {} \/ map_table[D[i + 1].src[p]].in_rob

src_tag(D, i, p) ==
    IF InBundle(D, i, p) # {} THEN NewTag(Last(InBundle(D, i, p)))
    ELSE map_table[D[i + 1].src[p]].tag

(* The ROB query port: a valid, complete entry, or a tag on the ALU / BRU fast paths. *)
OnFastPath(t, S, out) ==
    /\ t \in S
    /\ \/ rob_ram[t].uop.fu \in {"ALU", "MUL"}
       \/ rob_ram[t].uop.fu = "BRANCH" /\ (rob_ram[t].uop.is_jump => out[t] # "mispred")
query_ready(t, S, out) == (rob_ram[t].valid /\ rob_ram[t].complete) \/ OnFastPath(t, S, out)
query_stored(t, S, out) == rob_ram[t].data
query_data(t, S, out) == IF OnFastPath(t, S, out) THEN rs[t].id ELSE rob_ram[t].data

tag_allocated(t, D) == Dist(tail_ptr, t) < Len(D)

\* The register file with the writes of the entries retiring in this very cycle.
arf_bypass(r, n, S, out) == RegsAfter(n, S, out)[r]

(* The tags and values on the common data bus are those of the write-backs S.  A consumer takes *)
(* one only if its producer is older in ROB age.                                               *)
cdb_hit(t, x, S) == t \in S /\ Dist(head_ptr, t) < Dist(head_ptr, x)

\* Operand p of the i-th micro-op of D as read at dispatch, its fetch epoch being e.
ReadOperand(D, i, p, e, n, S, out) ==
    LET r == D[i + 1].src[p]
        t == src_tag(D, i, p)
        hit == query_ready(t, S, out) /\ ~tag_allocated(t, D)
    IN  IF in_rob(D, i, p) /\ ~hit
        THEN [r |-> FALSE, q |-> t, v |-> 0]
        ELSE [r |-> TRUE, q |-> 0,
              v |-> IF in_rob(D, i, p) /\ fetch_epoch[t] = e THEN query_data(t, S, out)
                    ELSE arf_bypass(r, n, S, out)]

\* What a station does with an operand at the clock edge, in the cycle its micro-op is dispatched
\* too: forward from the bus if it is still waiting.
NoForward(o, x, S) == o
AtEdge(o, x, S) == IF ~o.r /\ cdb_hit(o.q, x, S) THEN [r |-> TRUE, q |-> 0, v |-> rs[o.q].id] ELSE o

NoOperand == [r |-> FALSE, q |-> 0, v |-> 0]

----------------------------------------------------------------------------
(* The value program order calls for, computed without the RAT: that of the youngest older     *)
(* instruction, in flight or retired, that writes the register.                                *)
LiveWriters(r) == {k \in 0 .. count - 1 : WriterAt(k, r)}
ProgramValue(D, i, p) ==
    LET r == D[i + 1].src[p]
    IN  IF InBundle(D, i, p) # {} THEN next_id + Last(InBundle(D, i, p))
        ELSE IF LiveWriters(r) # {} THEN rob_ram[Slot(Last(LiveWriters(r)))].id
        ELSE regs[r]

----------------------------------------------------------------------------
Ready(x) == \A p \in Ports : opnd[x][p].r

\* Micro-ops enter rename in fetch order: the first k of the bundle were fetched before the last
\* local flush of the front end, the others after it.
EpochOf(i, k) == IF i < k THEN disp_epoch ELSE fe_epoch

\* SFENCE.VMA restarts the front end in a new epoch and leaves the back end alone.
LocalFlush(S, out) == \E x \in S : rob_ram[x].uop.is_sfence /\ out[x] # "exception"

FlushOperands ==
    /\ opnd' = [x \in Slots |-> [p \in Ports |-> NoOperand]]
    /\ want' = [x \in Slots |-> [p \in Ports |-> 0]]
    /\ fe_epoch' = NextEpoch(fe_epoch)
    /\ disp_epoch' = NextEpoch(fe_epoch)
    /\ UNCHANGED fetch_epoch

DispatchOperands(n, D, S, out, k) ==
    LET new(x) == Dist(tail_ptr, x) < Len(D)
        i(x) == Dist(tail_ptr, x)
    IN  /\ opnd' = [x \in Slots |-> [p \in Ports |->
                      IF new(x)
                      THEN AtEdge(ReadOperand(D, i(x), p, EpochOf(i(x), k), n, S, out), x, S)
                      ELSE IF rs[x].busy /\ x \notin S THEN AtEdge(opnd[x][p], x, S)
                      ELSE NoOperand]]
        /\ want' = [x \in Slots |-> [p \in Ports |->
                      IF new(x) THEN ProgramValue(D, i(x), p)
                      ELSE IF x \in S THEN 0 ELSE want[x][p]]]
        /\ fetch_epoch' = [x \in Slots |-> IF new(x) THEN EpochOf(i(x), k) ELSE fetch_epoch[x]]
        /\ disp_epoch' = IF k < Len(D) THEN fe_epoch ELSE disp_epoch
        /\ fe_epoch' = IF LocalFlush(S, out) THEN NextEpoch(fe_epoch) ELSE fe_epoch

\* One cycle without a trap; only micro-ops whose operands have arrived write back.
OCycle(S) ==
    \E out \in ReportsOf(S) : \E n \in 0 .. CW :
        /\ pend.valid => csr_en(S)
        /\ IsCommitCount(n, S, out)
        /\ \/ \E D \in Bundles : /\ Advance(n, D, S, out)
                                 /\ \E k \in 0 .. Len(D) : DispatchOperands(n, D, S, out, k)
           \/ RedirectFlush(n, S, out) /\ FlushOperands

OClock == \E S \in WriteBacks : (\A x \in S : Ready(x)) /\ OCycle(S)

OTrap == (ExceptionTrap \/ IrqTrap \/ IfetchTrap) /\ FlushOperands

OInit ==
    /\ Init
    /\ opnd = [x \in Slots |-> [p \in Ports |-> NoOperand]]
    /\ fetch_epoch = [x \in Slots |-> 0]
    /\ fe_epoch = 0 /\ disp_epoch = 0
    /\ want = [x \in Slots |-> [p \in Ports |-> 0]]

ONext == OClock \/ OTrap
OSpec == OInit /\ [][ONext]_allvars

----------------------------------------------------------------------------
(* Properties.                                                              *)

\* Operands, tags and epochs are well formed.
OTypeOK ==
    /\ opnd \in [Slots -> [Ports -> [r : BOOLEAN, q : Slots, v : Ids]]]
    /\ fetch_epoch \in [Slots -> 0 .. EPOCHS - 1]
    /\ fe_epoch \in 0 .. EPOCHS - 1 /\ disp_epoch \in 0 .. EPOCHS - 1
    /\ want \in [Slots -> [Ports -> Ids]]

\* Every operand a station holds is the value of the youngest older writer of its register,
\* whichever of the RAT, the bundle, the ROB query port, the commit bypass, the ARF or the data
\* bus it came from (backend.sv 906-952, rs.sv 166-209).
OperandIsProgramValue ==
    \A x \in Slots, p \in Ports :
        rs[x].busy /\ opnd[x][p].r => opnd[x][p].v = want[x][p]

\* No wake-up is lost: a station that still waits for a tag waits for a live, older, unfinished
\* instruction, the very one whose result program order calls for.
WaitsForLiveProducer ==
    \A x \in Slots, p \in Ports :
        rs[x].busy /\ ~opnd[x][p].r =>
            LET q == opnd[x][p].q
            IN  /\ rs[q].busy /\ rs[q].id = want[x][p]
                /\ Dist(head_ptr, q) < Dist(head_ptr, x)
=============================================================================
