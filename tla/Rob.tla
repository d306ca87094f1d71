-------------------------------- MODULE Rob --------------------------------
(***************************************************************************)
(* The in-order spine of the out-of-order back end: the reorder buffer     *)
(* (backend/retire/rob.sv), the register alias table (rename/rat.sv), the  *)
(* dispatch side of rename (rename/rename.sv) and the architectural        *)
(* register file (regfile/arf.sv), clocked together.                       *)
(*                                                                         *)
(* One step is one clock cycle.  The inputs of a cycle are the bundle the  *)
(* rename stage dispatches, the set of reservation-station entries whose   *)
(* functional unit writes back, what each reports, and whether the CSR     *)
(* unit takes a trap.  A result value is abstracted to the identity of the *)
(* instruction that computed it, so a register holds the name of its last  *)
(* writer and a stale or misrouted value is visible as a wrong name.       *)
(***************************************************************************)
EXTENDS Integers, Sequences, FiniteSets

CONSTANTS
    DEPTH,          \* ROB_DEPTH
    DW,             \* DISPATCH_WIDTH
    CW,             \* COMMIT_WIDTH
    MAX_COMMIT_BR, MAX_COMMIT_ST, MAX_COMMIT_LD,
    Regs,           \* architectural register numbers, 0 is x0
    Uops,           \* the decoded micro-operations a bundle is made of
    MaxId           \* bound on the number of instructions dispatched

FuTypes == {"ALU", "MUL", "BRANCH", "LSU", "CSR"}

ASSUME RobAssumption ==
    /\ DEPTH \in Nat /\ DW \in Nat /\ CW \in Nat
    /\ 1 <= DW /\ DW <= DEPTH /\ 1 <= CW /\ CW <= DEPTH
    /\ MAX_COMMIT_BR \in Nat /\ MAX_COMMIT_ST \in Nat /\ MAX_COMMIT_LD \in Nat
    /\ 0 \in Regs /\ Regs \subseteq Nat
    /\ MaxId \in Nat
    /\ Uops # {}
    /\ \A u \in Uops : /\ u.fu \in FuTypes
                       /\ u.is_jump \in BOOLEAN
                       /\ u.is_store \in BOOLEAN
                       /\ u.has_rd \in BOOLEAN
                       /\ u.areg \in Regs

VARIABLES
    rob_ram,        \* the entries, indexed by ROB tag
    head_ptr, tail_ptr, count,
    map_table,      \* RAT: register -> in_rob bit and ROB tag
    regs,           \* ARF
    pend,           \* rob_sync_exception_pending_q and the instruction it names
    rs,             \* per ROB tag: is its micro-op waiting or executing, and which one is it
    next_id         \* identity of the next instruction dispatched (history)

vars == <<rob_ram, head_ptr, tail_ptr, count, map_table, regs, pend, rs, next_id>>

Slots == 0 .. DEPTH - 1
Ids == 0 .. MaxId           \* 0 names the reset value of a register
Outcomes == {"ok", "exception", "mispred"}

----------------------------------------------------------------------------
(* Ring arithmetic.  Pointers are PTR_WIDTH bits and wrap by truncation.    *)
Wrap(x) == IF x >= DEPTH THEN x - DEPTH ELSE x
Dist(p, x) == IF x >= p THEN x - p ELSE x + DEPTH - p
Slot(i) == Wrap(head_ptr + i)

rob_ready == count <= DEPTH - DW

WritesRd(u) == u.has_rd /\ u.areg # 0

(***************************************************************************)
(* Commit.  Slot i of the commit window retires when it and every older    *)
(* slot is in the buffer, permitted by the per-class port limits, complete *)
(* (or completing this very cycle on a fast path) and free of an           *)
(* exception, and no older slot is a mispredicted branch.                  *)
(*                                                                         *)
(* S is the set of tags written back in this cycle, out what each reports. *)
(***************************************************************************)
IsBr(u) == u.fu = "BRANCH"
IsSt(u) == u.is_store
IsLd(u) == u.fu = "LSU" /\ ~u.is_store

Older(i, Class(_)) ==
    Cardinality({j \in 0 .. i - 1 : j < count /\ Class(rob_ram[Slot(j)].uop)})

(* Mutant: a branch counts itself against the port limit.               *)
CountsItself(i) ==
    LET u == rob_ram[Slot(i)].uop
    IN  IsBr(u) => Older(i + 1, IsBr) < MAX_COMMIT_BR

commit_permitted(i) ==
    LET u == rob_ram[Slot(i)].uop
    IN  /\ IsBr(u) => Older(i, IsBr) < MAX_COMMIT_BR
        /\ IsSt(u) => Older(i, IsSt) < MAX_COMMIT_ST
        /\ IsLd(u) => Older(i, IsLd) < MAX_COMMIT_LD

\* ALU results and correctly predicted branches are visible in the cycle they are written.
head_fast(x, S, out) ==
    /\ x \in S
    /\ \/ rob_ram[x].uop.fu = "ALU"
       \/ rob_ram[x].uop.fu = "BRANCH" /\ out[x] # "mispred"

commit_data(x, S, out) == IF head_fast(x, S, out) THEN rs[x].id ELSE rob_ram[x].data

Finished(i, S, out) ==
    /\ i < count
    /\ commit_permitted(i)
    /\ rob_ram[Slot(i)].complete \/ head_fast(Slot(i), S, out)

Retirable(i, S, out) == Finished(i, S, out) /\ ~rob_ram[Slot(i)].exception

\* n is the number of slots the commit loop retires.
IsCommitCount(n, S, out) ==
    /\ \A i \in 0 .. n - 1 : Retirable(i, S, out)
    /\ \A i \in 0 .. n - 2 : ~rob_ram[Slot(i)].is_mispred
    /\ \/ n = CW
       \/ ~Retirable(n, S, out)
       \/ n > 0 /\ rob_ram[Slot(n - 1)].is_mispred

\* flush_o with flush_is_mispred_o: the youngest retiring slot is a mispredicted branch.
MispredFlush(n) == n > 0 /\ rob_ram[Slot(n - 1)].is_mispred

\* sync_exception_valid_o: the loop stopped at a finished slot that carries an exception.
sync_exception_valid(n, S, out) ==
    /\ n < CW
    /\ ~MispredFlush(n)
    /\ Finished(n, S, out)
    /\ rob_ram[Slot(n)].exception

(* The last element of a set of offsets: of several writers the youngest wins. *)
First(js) == CHOOSE j \in js : \A k \in js : k >= j
Last(js) == CHOOSE j \in js : \A k \in js : k <= j

\* The register file after the n oldest entries have written it in order.
CommitWriters(r, n) ==
    {j \in 0 .. n - 1 : WritesRd(rob_ram[Slot(j)].uop) /\ rob_ram[Slot(j)].uop.areg = r}
RegsAfter(n, S, out) ==
    [r \in Regs |->
        LET js == CommitWriters(r, n)
        IN  IF js = {} THEN regs[r] ELSE commit_data(Slot(Last(js)), S, out)]

----------------------------------------------------------------------------
(* Dispatch of the bundle D, a sequence of at most DW micro-ops.            *)
NewTag(i) == Wrap(tail_ptr + i)
DispWriters(r, D) == {i \in 0 .. Len(D) - 1 : WritesRd(D[i + 1]) /\ D[i + 1].areg = r}

\* Commit releases a mapping, but only if it still names the retiring entry.
ReleasedByReg(r, n) ==
    \E i \in 0 .. n - 1 : r # 0 /\ rob_ram[Slot(i)].uop.areg = r /\ map_table[r].in_rob
Released(r, n) ==
    \E i \in 0 .. n - 1 : /\ r # 0
                          /\ rob_ram[Slot(i)].uop.areg = r
                          /\ map_table[r].in_rob
                          /\ map_table[r].tag = Slot(i)

\* Dispatch overrides what commit does to the same mapping in the same cycle.
RatAfter(n, D) ==
    [r \in Regs |->
        LET js == DispWriters(r, D)
        IN  IF js # {}
            THEN [in_rob |-> TRUE, tag |-> NewTag(Last(js))]
            ELSE [map_table[r] EXCEPT !.in_rob = @ /\ ~Released(r, n)]]

FreshKeepsFlags(u, id, e) ==
    [e EXCEPT !.valid = TRUE, !.complete = FALSE, !.uop = u, !.id = id]
Fresh(u, id, e) ==
    [e EXCEPT !.valid = TRUE, !.complete = FALSE, !.exception = FALSE,
              !.is_mispred = FALSE, !.uop = u, !.id = id]

WrittenBack(e, id, o) ==
    [e EXCEPT !.complete = TRUE, !.exception = (o = "exception"),
              !.is_mispred = (o = "mispred"), !.data = id]

KeepEntry(e) == e
Retire(e) == [e EXCEPT !.valid = FALSE]

\* Non-blocking assignments of one clock edge in program order: dispatch, write-back, commit.
RobAfter(n, D, S, out) ==
    [x \in Slots |->
        LET i == Dist(tail_ptr, x)
            d == IF i < Len(D) THEN Fresh(D[i + 1], next_id + i, rob_ram[x]) ELSE rob_ram[x]
            w == IF x \in S THEN WrittenBack(d, rs[x].id, out[x]) ELSE d
        IN  IF Dist(head_ptr, x) < n THEN Retire(w) ELSE w]

Idle == [busy |-> FALSE, id |-> 0]

\* The micro-op leaves its reservation station or functional unit when it writes back.
RsAfter(D, S) ==
    [x \in Slots |->
        LET i == Dist(tail_ptr, x)
        IN  IF i < Len(D) THEN [busy |-> TRUE, id |-> next_id + i]
            ELSE IF x \in S THEN Idle ELSE rs[x]]

----------------------------------------------------------------------------
(* What a functional unit may report, and when it may.                      *)
Reports(u) == CASE u.fu \in {"ALU", "MUL"} -> {"ok"}
                [] u.fu = "BRANCH" -> {"ok", "mispred"}
                [] u.fu = "LSU" -> {"ok", "exception"}
                [] u.fu = "CSR" -> Outcomes

\* A CSR or system micro-op issues only from the head of the ROB.
MayWriteBack(x) == rs[x].busy /\ (rob_ram[x].uop.fu = "CSR" => x = head_ptr)

csr_en(S) == \E x \in S : rob_ram[x].uop.fu = "CSR"

NoPend == [valid |-> FALSE, id |-> 0]

StationsSurvive == rs
StationsFlushed == [x \in Slots |-> Idle]
PendSurvives == pend
PendFlushed == NoPend

\* backend_flush: ring, RAT, reservation stations, units and the latched exception are emptied.
Flush ==
    /\ head_ptr' = 0 /\ tail_ptr' = 0 /\ count' = 0
    /\ rob_ram' = [x \in Slots |-> [rob_ram[x] EXCEPT !.valid = FALSE]]
    /\ map_table' = [r \in Regs |-> [map_table[r] EXCEPT !.in_rob = FALSE]]
    /\ rs' = StationsFlushed
    /\ pend' = PendFlushed
    /\ UNCHANGED next_id

\* A cycle that retires n entries, none of them mispredicted, and dispatches D.
Advance(n, D, S, out) ==
    /\ ~MispredFlush(n)
    /\ D # <<>> => rob_ready
    /\ rob_ram' = RobAfter(n, D, S, out)
    /\ head_ptr' = Wrap(head_ptr + n)
    /\ tail_ptr' = Wrap(tail_ptr + Len(D))
    /\ count' = count + Len(D) - n
    /\ map_table' = RatAfter(n, D)
    /\ regs' = RegsAfter(n, S, out)
    /\ pend' = IF ~pend.valid /\ sync_exception_valid(n, S, out)
               THEN [valid |-> TRUE, id |-> rob_ram[Slot(n)].id]
               ELSE pend
    /\ rs' = RsAfter(D, S)
    /\ next_id' = next_id + Len(D)

\* A cycle that retires n entries, the last of them a mispredicted branch: retire, then flush.
RedirectFlush(n, S, out) ==
    /\ MispredFlush(n)
    /\ regs' = RegsAfter(n, S, out)
    /\ Flush

\* csr_irq_trap: the trap flushes everything and nothing retires in its cycle.
TrapFlush == Flush /\ UNCHANGED regs

WriteBacks == SUBSET {x \in Slots : MayWriteBack(x)}
ReportsOf(S) == {out \in [S -> Outcomes] : \A x \in S : out[x] \in Reports(rob_ram[x].uop)}
Bundles == UNION {[1 .. k -> Uops] : k \in {k \in 0 .. DW : next_id + k <= MaxId + 1}}

\* A latched exception is injected into the CSR unit in the first cycle no CSR op uses it.
ExceptionTrap == pend.valid /\ TrapFlush
\* An interrupt needs an instruction at the head to report as the interrupted one.
IrqTrap == ~pend.valid /\ count # 0 /\ TrapFlush
\* An instruction page fault the front end reports.
IfetchTrap == ~pend.valid /\ TrapFlush

\* One clock cycle without a trap, in which the tags S write back.
Cycle(S) ==
    \E out \in ReportsOf(S) : \E n \in 0 .. CW :
        /\ pend.valid => csr_en(S)
        /\ IsCommitCount(n, S, out)
        /\ \/ \E D \in Bundles : Advance(n, D, S, out)
           \/ RedirectFlush(n, S, out)

\* Reset clears only the valid bits; what the other fields hold is never looked at.
ResetUop == CHOOSE u \in Uops : TRUE

Init ==
    /\ rob_ram = [x \in Slots |-> [valid |-> FALSE, complete |-> FALSE, exception |-> FALSE,
                                   is_mispred |-> FALSE, uop |-> ResetUop, id |-> 0, data |-> 0]]
    /\ head_ptr = 0 /\ tail_ptr = 0 /\ count = 0
    /\ map_table = [r \in Regs |-> [in_rob |-> FALSE, tag |-> 0]]
    /\ regs = [r \in Regs |-> 0]
    /\ pend = NoPend
    /\ rs = [x \in Slots |-> Idle]
    /\ next_id = 1

Clock == \E S \in WriteBacks : Cycle(S)

Next == Clock \/ ExceptionTrap \/ IrqTrap \/ IfetchTrap
Spec == Init /\ [][Next]_vars

\* The clock keeps ticking, and no micro-op stays in its station or unit for ever: the oldest
\* ready entry is always issued in the end and no unit withholds its answer.
Fairness ==
    /\ WF_vars(Clock)
    /\ WF_vars(ExceptionTrap)
    /\ \A x \in Slots : WF_vars(\E S \in WriteBacks : x \in S /\ Cycle(S))

FairSpec == Spec /\ Fairness

----------------------------------------------------------------------------
(* Properties.                                                              *)

Entry == [valid : BOOLEAN, complete : BOOLEAN, exception : BOOLEAN, is_mispred : BOOLEAN,
          uop : Uops, id : Ids, data : Ids]

\* The state of the ROB, the RAT, the ARF and the stations is well formed.
TypeOK ==
    /\ rob_ram \in [Slots -> Entry]
    /\ head_ptr \in Slots /\ tail_ptr \in Slots /\ count \in 0 .. DEPTH
    /\ map_table \in [Regs -> [in_rob : BOOLEAN, tag : Slots]]
    /\ regs \in [Regs -> Ids]
    /\ pend \in [valid : BOOLEAN, id : Ids]
    /\ rs \in [Slots -> [busy : BOOLEAN, id : Ids]]
    /\ next_id \in 1 .. MaxId + 1

Live(x) == Dist(head_ptr, x) < count

\* The ring: the tail is count entries ahead of the head, and exactly the entries between them
\* are valid, so the operand query port (query_ready needs valid) never answers for an entry that
\* has retired or was flushed.
Window ==
    /\ tail_ptr = Wrap(head_ptr + count)
    /\ \A x \in Slots : rob_ram[x].valid <=> Live(x)

\* Every live entry is either waiting in a station or a unit, which then holds this very
\* instruction, or complete with its own result; nothing else is executing.  A write-back can
\* therefore never land on an entry that was flushed and dispatched again.
ExecutedOnce ==
    \A x \in Slots :
        /\ rs[x].busy <=> Live(x) /\ ~rob_ram[x].complete
        /\ rs[x].busy => rs[x].id = rob_ram[x].id
        /\ Live(x) /\ rob_ram[x].complete => rob_ram[x].data = rob_ram[x].id

WriterAt(i, r) == WritesRd(rob_ram[Slot(i)].uop) /\ rob_ram[Slot(i)].uop.areg = r

\* The RAT always names the youngest live writer of a register, and points to the ARF exactly
\* when the register has no live writer: commit releases a mapping only if no younger writer took
\* it over, in whatever cycle that writer was dispatched.
RatExact ==
    \A r \in Regs :
        IF map_table[r].in_rob
        THEN \E i \in 0 .. count - 1 :
                /\ map_table[r].tag = Slot(i)
                /\ WriterAt(i, r)
                /\ \A j \in i + 1 .. count - 1 : ~WriterAt(j, r)
        ELSE \A i \in 0 .. count - 1 : ~WriterAt(i, r)

\* A latched synchronous exception belongs to the instruction at the head of the ROB, which has
\* not retired and cannot be passed by a younger one: the trap it raises is precise.
ExceptionAtHead ==
    pend.valid =>
        /\ count > 0
        /\ rob_ram[head_ptr].complete
        /\ rob_ram[head_ptr].exception
        /\ pend.id = rob_ram[head_ptr].id

\* Registers hold results of instructions older than every live one, and x0 stays zero: no
\* instruction writes the register file before it is its turn to leave.
RegsCommitted ==
    \A r \in Regs : /\ r = 0 => regs[r] = 0
                    /\ \A x \in Slots : Live(x) => regs[r] < rob_ram[x].id

\* Live instructions are in program order from head to tail.
ProgramOrder ==
    /\ \A i, j \in 0 .. count - 1 : i < j => rob_ram[Slot(i)].id < rob_ram[Slot(j)].id
    /\ \A i \in 0 .. count - 1 : rob_ram[Slot(i)].id < next_id
    /\ \A r \in Regs : regs[r] < next_id

\* An entry reports an exception or a misprediction only once it is complete.
CleanUntilDone ==
    \A x \in Slots : rs[x].busy => ~rob_ram[x].exception /\ ~rob_ram[x].is_mispred

\* The inductive invariant of this specification.
RobInv ==
    /\ TypeOK /\ Window /\ ExecutedOnce /\ CleanUntilDone
    /\ RatExact /\ ExceptionAtHead /\ ProgramOrder /\ RegsCommitted

\* Every dispatched instruction leaves: it retires, or a redirect or trap squashes it.
HeadLeaves == \A k \in Ids : (count > 0 /\ rob_ram[head_ptr].id = k) ~>
                                ~(count > 0 /\ rob_ram[head_ptr].id = k)
=============================================================================
