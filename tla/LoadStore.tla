----------------------------- MODULE LoadStore -----------------------------
(***************************************************************************)
(* Memory instructions from dispatch to retirement: the LSU reservation    *)
(* station (issue/rs_lsu.sv, issue/issue_lsu.sv), the LSU group with its   *)
(* translation stage, store queue, load lanes, LR/SC reservation and       *)
(* write-back arbitration (execute/lsu_group.sv, lsu_lane.sv, sq.sv), and  *)
(* the store buffer.  The data cache is external: it takes the stores one  *)
(* by one and answers a load with what memory holds when it accepts it.    *)
(*                                                                         *)
(* The ROB is the window "rob" of the memory instructions in flight, in    *)
(* program order; other instructions only show as the operands that arrive *)
(* late (an instruction may wait in the station for any time) and as the   *)
(* flushes.  One step is one clock cycle.                                  *)
(***************************************************************************)
EXTENDS StoreBuffer, FiniteSetsExt

CONSTANTS
    ROB_DEPTH,     \* ROB entries
    Width,         \* DISPATCH_WIDTH and COMMIT_WIDTH
    Words,         \* word addresses, a set of naturals with 0
    MemOps,        \* the instructions of the program
    N_LSU,         \* load lanes
    Translation,   \* the address translation modes of the run, a subset of BOOLEAN
    MaxOps         \* bound: memory instructions dispatched in a behaviour

ASSUME LsAssumption ==
    /\ {ROB_DEPTH, Width, N_LSU, MaxOps} \subseteq Nat \ {0}
    /\ 0 \in Words /\ Words \subseteq Nat
    /\ MemOps \subseteq {"LW", "LB", "SW", "SB", "LR", "SC", "AMO"}
    /\ Translation \subseteq BOOLEAN

VARIABLES
    rob,        \* memory instructions in flight, oldest first
    rob_head,   \* ROB tag of rob[1]
    sb,         \* the store buffer
    sq,         \* the store queue: executed stores not written back yet
    store_wb,   \* the store write-back queue: tags of executed stores
    front,      \* the instruction in the translation stage (mmu_*_q, pend_*_q), or none
    res,        \* LR reservation: a set with the reserved word, or empty
    xlate,      \* translation_active
    memory,     \* bytes the data cache serves
    arch,       \* history: memory after the committed stores, in program order
    dispatched  \* memory instructions dispatched so far

vars == <<rob, rob_head, sb, sq, store_wb, front, res, xlate, memory, arch, dispatched>>

RobTags == 0 .. ROB_DEPTH - 1
NoVal == <<>>

is_load(op) == op \in {"LW", "LB", "LR", "AMO"}
is_store(op) == op \in {"SW", "SB", "SC", "AMO"}

(* Stages of an instruction: in the reservation station, in the            *)
(* translation stage, a load lane's S_LD_REQ, S_LD_RSP and S_RESP, a store *)
(* waiting in the write-back queue, complete in the ROB.                   *)
Stages == {"rs", "front", "S_LD_REQ", "S_LD_RSP", "S_RESP", "store_wb", "complete"}
InLane == {"S_LD_REQ", "S_LD_RSP", "S_RESP"}

Positions == 1 .. Len(rob)
Tag(i) == (rob_head + i - 1) % ROB_DEPTH
Pos(t) == ((t - rob_head) % ROB_DEPTH) + 1
OlderTags(i) == {t \in RobTags : (t - rob_head) % ROB_DEPTH < (Tag(i) - rob_head) % ROB_DEPTH}

(* The addresses an instruction can have: words are aligned.               *)
NewOps == {o \in [op : MemOps, word : Words, off : Offsets] : o.op \in ByteOps \/ o.off = 0}

Dispatched(o, id, s) ==
    [op |-> o.op, word |-> o.word, off |-> o.off, id |-> id, sb |-> s,
     stage |-> "rs", exc |-> FALSE, val |-> NoVal, sc_fail |-> FALSE]

(* The lane of an AMO keeps the LSU front closed until it writes back.     *)
amo_inflight == \E i \in Positions : rob[i].op = "AMO" /\ rob[i].stage \in InLane

(* Nothing in the lanes, the queues or waiting for write-back.             *)
amo_order_clear ==
    (\A i \in Positions : rob[i].stage \notin InLane) /\ sq = <<>> /\ store_wb = <<>>

(* Mutant: the age comparison includes the instruction itself, and an AMO  *)
(* is both a load and a store.                                             *)
BlocksItself(i) ==
    is_load(rob[i].op) /\ \E j \in 1 .. i : rob[j].stage = "rs" /\ is_store(rob[j].op)

(* rs_lsu.sv: a load waits until every older store has left the station.   *)
block_load(i) ==
    is_load(rob[i].op) /\ \E j \in 1 .. i - 1 : rob[j].stage = "rs" /\ is_store(rob[j].op)

(* A lane that is idle, or hands its result over in this cycle (wb).       *)
lane_req_ready(wb) ==
    Cardinality({i \in Positions : rob[i].stage \in InLane} \ wb) < N_LSU

load_req_ready(i, wb) ==
    lane_req_ready(wb) /\ (rob[i].op \in {"LR", "AMO"} => amo_order_clear)

(* The write-back queue always drains (wb_ready_i is tied high), and the   *)
(* queues are as deep as the ROB: a store is admitted at once.             *)
Admitted(i, wb) == is_load(rob[i].op) => load_req_ready(i, wb)

(* Bytes of the store queue's data: the data register aligned to its word. *)
SqEntry(i) == [tag |-> Tag(i), word |-> rob[i].word, data |->
                [b \in Touches(rob[i].op, rob[i].off) |-> <<rob[i].id, b - rob[i].off>>]]

(* sq.sv: for every byte of the load, the youngest entry of the queue that *)
(* has it and is older than the load; a hit covers all the load's bytes.   *)
SqFor(i, b) == {n \in 1 .. Len(sq) : /\ sq[n].word = rob[i].word
                                     /\ sq[n].tag \in OlderTags(i)
                                     /\ b \in DOMAIN sq[n].data}
fwd_query_hit(i) == \A b \in Touches(rob[i].op, rob[i].off) : SqFor(i, b) # {}
fwd_query_byte(i, b) == sq[Max(SqFor(i, b))].data[b]

(* The data a load is accepted with, or NoVal: the store queue's, else the *)
(* store buffer's (the low bytes of the matching store's data register),   *)
(* else the cache must be asked.                                           *)
Forwarded(i) ==
    LET o == rob[i]
    IN  IF fwd_query_hit(i)
        THEN [j \in 1 .. Size(o.op) |-> fwd_query_byte(i, o.off + j - 1)]
        ELSE IF load_hit(sb, o.word, o.off, OlderTags(i))
        THEN [j \in 1 .. Size(o.op) |-> <<load_entry(sb, o.word, o.off, OlderTags(i)).data, j - 1>>]
        ELSE NoVal

Loaded(i) == [j \in 1 .. Size(rob[i].op) |-> memory[rob[i].word][rob[i].off + j - 1]]

sc_success(i) == rob[i].op = "SC" /\ rob[i].word \in res

(* Instruction i leaves the LSU front: a load gets a lane, a store its     *)
(* place in the queues.  An address fault shows here.                      *)
Fired(i, fault) ==
    LET o == [rob[i] EXCEPT !.exc = fault]
    IN  IF ~is_load(o.op)
        THEN [o EXCEPT !.stage = "store_wb", !.sc_fail = (o.op = "SC" /\ ~sc_success(i))]
        ELSE IF fault THEN [o EXCEPT !.stage = "S_RESP"]
        ELSE IF Forwarded(i) = NoVal THEN [o EXCEPT !.stage = "S_LD_REQ"]
        ELSE [o EXCEPT !.stage = "S_RESP", !.val = Forwarded(i)]

(* The write into the store buffer: a store's when it fires, an AMO's when *)
(* it writes back.                                                         *)
StoreOp(i) == CASE rob[i].op \in {"AMO"} -> "SW"
                [] rob[i].op = "SC" -> IF sc_success(i) THEN "SW" ELSE "SC_FAIL"
                [] OTHER -> rob[i].op
ExWrite(i) == [sb |-> rob[i].sb, word |-> rob[i].word, off |-> rob[i].off,
               op |-> StoreOp(i), data |-> rob[i].id, tag |-> Tag(i)]

(* What the LSU does in a cycle is a record of the instructions concerned, *)
(* each a set with at most one position: the one issued into translation,  *)
(* the one that fires (and whether it faults), the load the cache accepts, *)
(* the load or the store that writes back.                                 *)
Issuable(i) == rob[i].stage = "rs" /\ ~block_load(i) /\ front = {} /\ ~amo_inflight
MayIssue == {i \in Positions : /\ xlate /\ Issuable(i)
                               /\ rob[i].op = "AMO" => amo_order_clear}

(* Without translation, or with a misaligned address (a fault), it fires   *)
(* straight from the station.                                              *)
MayFire(wb, fault) ==
    {i \in Positions : /\ Admitted(i, wb)
                       /\ Tag(i) \in front \/ ((xlate => fault) /\ Issuable(i))}
MayAccept == {i \in Positions : rob[i].stage = "S_LD_REQ"}
StoreWb == IF store_wb = <<>> THEN {} ELSE {Pos(Head(store_wb))}
LaneWb == {i \in Positions : rob[i].stage \in {"S_LD_RSP", "S_RESP"}}

AtMostOne(S) == {{}} \cup {{i} : i \in S}

(* Stores write back first.  A lane in S_RESP always does when no store    *)
(* is in its way; the cache answers a lane in S_LD_RSP when it likes.      *)
WriteBackChoices ==
    IF store_wb # <<>> THEN {StoreWb}
    ELSE {w \in AtMostOne(LaneWb) :
            w = {} => \A i \in LaneWb : rob[i].stage = "S_LD_RSP"}

After(i, issue, fire, fault, accept, wb) ==
    CASE i \in wb -> [rob[i] EXCEPT !.stage = "complete"]
      [] i \in fire -> Fired(i, fault)
      [] i \in issue -> [rob[i] EXCEPT !.stage = "front"]
      [] i \in accept -> [rob[i] EXCEPT !.stage = "S_LD_RSP", !.val = Loaded(i)]
      [] OTHER -> rob[i]

StoresFired(fire, fault) == {i \in fire : ~is_load(rob[i].op) /\ ~fault}
AmosDone(wb) == {i \in wb : rob[i].op = "AMO" /\ ~rob[i].exc}

(* The reservation: taken by an LR, lost by every SC, store and AMO.       *)
ResAfter(fire, fault, wb) ==
    IF \E i \in fire : rob[i].op = "LR" THEN {rob[i].word : i \in fire}
    ELSE IF (\E i \in fire : rob[i].op = "SC") \/ StoresFired(fire, fault) # {} \/ AmosDone(wb) # {}
    THEN {} ELSE res

(* Retirement, in order: the first k instructions.                         *)
Retirable(k) == \A i \in 1 .. k : rob[i].stage = "complete" /\ ~rob[i].exc
StoresOf(k) == {i \in 1 .. k : is_store(rob[i].op)}
Retired(k) == {rob[i].sb : i \in StoresOf(k)}
ArchAfter(k) ==
    LET f[n \in 0 .. k] ==
          IF n = 0 THEN arch
          ELSE IF is_store(rob[n].op) /\ ~rob[n].sc_fail
          THEN Written(f[n - 1], [op |-> rob[n].op, word |-> rob[n].word, off |-> rob[n].off,
                                  data |-> rob[n].id])
          ELSE f[n - 1]
    IN  f[k]

(* Dispatch of a bundle: it needs room in the ROB and, for its stores, in  *)
(* the store buffer.                                                       *)
StoreCount(bundle) == Cardinality({n \in 1 .. Len(bundle) : is_store(bundle[n].op)})
Room(bundle) == /\ Len(rob) + Len(bundle) <= ROB_DEPTH
                /\ alloc_ready(sb, StoreCount(bundle))
                /\ dispatched + Len(bundle) <= MaxOps
Entry(bundle, n) == alloc_id(sb, StoreCount(SubSeq(bundle, 1, n)))
NewEntries(bundle) ==
    [n \in 1 .. Len(bundle) |->
        Dispatched(bundle[n], dispatched + n,
                   IF is_store(bundle[n].op) THEN Entry(bundle, n) ELSE 0)]

(* A clock cycle without a flush.                                          *)
Cycle(bundle, issue, fire, fault, accept, wb, k, dcache_ready) ==
    LET moved == [i \in Positions |-> After(i, issue, fire, fault, accept, wb)]
        ex == {ExWrite(i) : i \in StoresFired(fire, fault) \cup AmosDone(wb)}
        pop == wb_fire(sb, dcache_ready)
        sqPop == \E i \in wb : ~is_load(rob[i].op) /\ ~rob[i].exc
        sqRest == IF sqPop THEN Tail(sq) ELSE sq
        stores == {i \in fire : ~is_load(rob[i].op)}
        wbRest == IF store_wb = <<>> THEN <<>> ELSE Tail(store_wb)
    IN  /\ rob' = SubSeq(moved, k + 1, Len(rob)) \o NewEntries(bundle)
        /\ rob_head' = (rob_head + k) % ROB_DEPTH
        /\ sb' = Edge(sb, ex, StoreCount(bundle), Retired(k), pop)
        /\ sq' = sqRest \o [n \in 1 .. Cardinality(StoresFired(fire, fault)) |->
                              SqEntry(CHOOSE i \in fire : TRUE)]
        /\ store_wb' = wbRest \o [n \in 1 .. Cardinality(stores) |-> Tag(CHOOSE i \in fire : TRUE)]
        /\ front' = ({Tag(i) : i \in issue} \cup front) \ {Tag(i) : i \in fire}
        /\ res' = ResAfter(fire, fault, wb)
        /\ memory' = IF dcache_req_valid(sb) /\ dcache_ready
                     THEN Written(memory, AtHead(sb)) ELSE memory
        /\ arch' = ArchAfter(k)
        /\ dispatched' = dispatched + Len(bundle)
        /\ UNCHANGED xlate

(* A flush, of a mispredicted branch or a trap: the instructions before it *)
(* retire, all the others are dropped.                                     *)
Flush(k) ==
    /\ rob' = <<>>
    /\ rob_head' = 0
    /\ sb' = Flushed(sb, Retired(k))
    /\ sq' = <<>> /\ store_wb' = <<>> /\ front' = {} /\ res' = {}
    /\ arch' = ArchAfter(k)
    /\ UNCHANGED <<xlate, memory, dispatched>>

Init ==
    /\ rob = <<>> /\ rob_head = 0
    /\ sb = Reset
    /\ sq = <<>> /\ store_wb = <<>> /\ front = {} /\ res = {}
    /\ xlate \in Translation
    /\ memory = [w \in Words |-> [b \in Offsets |-> <<0, b>>]]
    /\ arch = memory
    /\ dispatched = 0

Bundles == UNION {[1 .. n -> NewOps] : n \in 0 .. Width}

RetireChoices == {k \in 0 .. Min({Width, Len(rob)}) : Retirable(k)}

(* The cycles in which retirement, write-back, the cache and the issue     *)
(* logic make one of the given choices.                                    *)
Steps(retires, writebacks, accepts, moves, readies) ==
    \E k \in retires, wb \in writebacks, accept \in accepts, dcache_ready \in readies :
    \E fault \in BOOLEAN :
    \E fire \in AtMostOne(MayFire(wb, fault)), issue \in AtMostOne(MayIssue) :
        /\ fire = {} => ~fault
        /\ issue = {} \/ fire = {}
        /\ (fire \cup issue # {}) \in moves
        /\ \E bundle \in {b \in Bundles : Room(b)} :
              Cycle(bundle, issue, fire, fault, accept, wb, k, dcache_ready)

Clock == Steps(RetireChoices, WriteBackChoices, AtMostOne(MayAccept), BOOLEAN, BOOLEAN)

Squash == \E k \in RetireChoices : Flush(k)

Next == Clock \/ Squash

Spec == Init /\ [][Next]_vars

(* What is not stuck moves on: the ROB retires what is complete and traps  *)
(* on a fault at its head, write-back and the store buffer drain, the      *)
(* cache answers, and the operands and translations of an instruction that *)
(* may go arrive in the end.                                               *)
Some(S) == S \ {{}}
Trap == rob # <<>> /\ rob[1].stage = "complete" /\ rob[1].exc /\ Flush(0)
Progress ==
    /\ WF_vars(Steps(RetireChoices \ {0}, WriteBackChoices, AtMostOne(MayAccept), BOOLEAN, BOOLEAN))
    /\ WF_vars(Steps(RetireChoices, Some(WriteBackChoices), AtMostOne(MayAccept), BOOLEAN, BOOLEAN))
    /\ WF_vars(Steps(RetireChoices, WriteBackChoices, Some(AtMostOne(MayAccept)), BOOLEAN, BOOLEAN))
    /\ WF_vars(Steps(RetireChoices, WriteBackChoices, AtMostOne(MayAccept), {TRUE}, BOOLEAN))
    /\ WF_vars(Steps(RetireChoices, WriteBackChoices, AtMostOne(MayAccept), BOOLEAN, {TRUE}))
    /\ WF_vars(Trap)

FairSpec == Spec /\ Progress

-----------------------------------------------------------------------------
(* Type correctness of the load/store path.                                *)
Byte == (0 .. MaxOps) \X Offsets
LsTypeOK ==
    /\ Len(rob) <= ROB_DEPTH /\ rob_head \in RobTags
    /\ \A i \in Positions : rob[i].stage \in Stages /\ rob[i].sb \in SbId
    /\ sb.head \in SbId /\ sb.tail \in SbId /\ sb.count \in 0 .. SB_DEPTH
    /\ memory \in [Words -> [Offsets -> Byte]] /\ arch \in [Words -> [Offsets -> Byte]]
    /\ res \subseteq Words /\ front \subseteq RobTags
    /\ Cardinality(res) <= 1 /\ Cardinality(front) <= 1
    /\ Len(sq) <= 1 /\ Len(store_wb) <= 1

(* The store buffer is the stores of the program in order: from the head,  *)
(* committed entries, filled, then one entry per store in flight, in       *)
(* program order, under the index that store carries; no entry is lost,    *)
(* shared or out of place through full, wrap-around, dequeue and flush.    *)
StoresInFlight == {i \in Positions : is_store(rob[i].op)}
Committed == {n \in 0 .. SB_DEPTH - 1 : sb.mem[SbSlot(sb.head, n)].committed}
StoresInOrder ==
    LET c == Cardinality(Committed)
    IN  /\ Committed = 0 .. c - 1
        /\ \A n \in Committed : sb.mem[SbSlot(sb.head, n)].ready
        /\ sb.count = c + Cardinality(StoresInFlight)
        /\ sb.tail = SbSlot(sb.head, sb.count)
        /\ \A n \in 0 .. SB_DEPTH - 1 : sb.mem[SbSlot(sb.head, n)].valid <=> n < sb.count
        /\ \A i \in StoresInFlight :
             rob[i].sb = SbSlot(sb.head, c + Cardinality({j \in StoresInFlight : j < i}))

(* Every committed store reaches memory once and in program order: what    *)
(* the cache holds, with the committed entries of the buffer written after *)
(* it from the head on, is the memory the committed program has made.      *)
MemoryIsArchitectural ==
    LET f[n \in 0 .. SB_DEPTH] ==
          IF n = 0 THEN memory
          ELSE LET e == sb.mem[SbSlot(sb.head, n - 1)]
               IN  IF e.committed /\ e.op # "SC_FAIL" THEN Written(f[n - 1], e) ELSE f[n - 1]
    IN  f[SB_DEPTH] = arch

(* The byte that program order gives a load: of the youngest older store   *)
(* to it that is in flight, or of the committed memory.                    *)
Effective(j) == is_store(rob[j].op) /\ ~rob[j].exc /\ ~rob[j].sc_fail
ProgramByte(i, w, b) ==
    LET S == {j \in 1 .. i - 1 : Effective(j) /\ rob[j].word = w /\ b \in Touches(rob[j].op, rob[j].off)}
    IN  IF S = {} THEN arch[w][b] ELSE <<rob[Max(S)].id, b - rob[Max(S)].off>>

(* A load that has its data has the bytes program order gives it, whether  *)
(* they came from the store queue, the store buffer or the cache, and      *)
(* however the stores before it were issued, committed and drained.        *)
LoadIsProgramOrder ==
    \A i \in Positions :
        (rob[i].val # NoVal /\ \A j \in 1 .. i : ~rob[j].exc)
        => rob[i].val = [j \in 1 .. Size(rob[i].op) |-> ProgramByte(i, rob[i].word, rob[i].off + j - 1)]

(* No instruction waits for ever: the memory pipeline empties again and    *)
(* again, and then every committed store has reached memory.  An LR or AMO *)
(* that waits for the others, a load behind a store and a full store       *)
(* buffer never wait on each other.                                        *)
Drains == []<>(rob = <<>> /\ memory = arch)
=============================================================================
