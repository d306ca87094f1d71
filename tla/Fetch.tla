------------------------------- MODULE Fetch -------------------------------
(***************************************************************************)
(* Instruction fetch: the fetch unit with its request, in-flight and fetch *)
(* queues (frontend/ifu.sv, frontend/ftq.sv, common/bundle_fifo.sv), the   *)
(* instruction cache it asks (cache/icache.sv) and the page walker in      *)
(* front of it (mmu/sv32_mmu.sv).                                          *)
(*                                                                         *)
(* A fetch bundle is its address, the address predicted to follow it, and  *)
(* the address whose code it holds: what makes a bundle right is that the  *)
(* first and the last are the same.  The branch predictor, the memory, the *)
(* page tables and the back end answer as they like.  One step is one      *)
(* clock cycle: an ordinary one, one with a redirect (flush_i), or one     *)
(* with a local flush (SFENCE.VMA or a new satp).                          *)
(***************************************************************************)
EXTENDS Integers, Sequences, FiniteSets, FiniteSetsExt

CONSTANTS
    Pcs,               \* fetch addresses, a set of naturals with RESET_VECTOR 0
    REQ_DEPTH,         \* request queue
    INF_DEPTH,         \* in-flight queue and fetch target queue (FTQ_DEPTH)
    FQ_DEPTH,          \* fetch queue
    EPOCHS,            \* 2 ^ EPOCH_W
    HIT_PIPELINE_EN,   \* the cache takes a request while it answers a hit
    BYPASS_EN,         \* the fetch queue passes a bundle on in the cycle it comes
    MaxLines,          \* bound: cache lines of a request that can be missing
    Translation,       \* the translation modes of the run, a subset of BOOLEAN
    PageFaults,        \* whether a walk may find a fault, a subset of BOOLEAN
    Fences             \* whether local flushes happen

ASSUME FetchAssumption ==
    /\ 0 \in Pcs /\ Pcs \subseteq Nat
    /\ {REQ_DEPTH, INF_DEPTH, FQ_DEPTH, EPOCHS} \subseteq Nat \ {0, 1}
    /\ {HIT_PIPELINE_EN, BYPASS_EN, Fences} \subseteq BOOLEAN
    /\ MaxLines \in Nat /\ Translation \subseteq BOOLEAN /\ PageFaults \subseteq BOOLEAN

VARIABLES
    pc_reg,        \* next address to predict from
    fetch_epoch,
    req,           \* requests waiting to go to the cache
    inf,           \* requests the cache has
    fq,            \* fetch queue: bundles waiting for the instruction buffer
    ftq,           \* identifiers in use
    ic,            \* the instruction cache
    mmu,           \* translation of the oldest request
    walker,        \* the page walker
    fault,         \* instruction page fault
    xlate,         \* translation_active
    next,          \* history: address of the next bundle the back end is to get
    trap           \* history: of the last fault taken, the address saved and the one wanted

vars == <<pc_reg, fetch_epoch, req, inf, fq, ftq, ic, mmu, walker, fault, xlate, next, trap>>

FtqIds == 0 .. INF_DEPTH - 1
AtMostOne(S) == {{}} \cup {{x} : x \in S}

NoFault == [pending |-> FALSE, wait_flush |-> FALSE, pc |-> 0]
IdleMmu == [state |-> "MMU_ST_IDLE", paddr |-> 0]
IdleWalker == [walk |-> {}, resp |-> {}]

-----------------------------------------------------------------------------
(* The instruction cache: "lines" of the request's cache lines are not in  *)
(* the arrays, "context" says the miss registers belong to this request,   *)
(* "rsp" is the response register (rsp_valid_q).                           *)
ResetIc == [state |-> "IDLE", pc |-> 0, lines |-> 0, context |-> FALSE,
            req_killed |-> FALSE, rsp |-> {}]

hit_all == ic.lines = 0

icache_ready(flush) ==
    \/ ic.state = "IDLE"
    \/ HIT_PIPELINE_EN /\ ic.state = "LOOKUP" /\ hit_all /\ ~flush

(* Mutant: a flush forgets the request the cache is working on.            *)
NeverKilled(flush) == ic.req_killed

Killed(flush) == ic.req_killed \/ (flush /\ ic.state # "IDLE")
Kept(flush) == IF flush THEN {} ELSE ic.rsp

(* Mutant: a new request starts out killed if the one before was.          *)
StaysKilled(pc, lines, rsp) ==
    [state |-> "LOOKUP", pc |-> pc, lines |-> lines, context |-> FALSE,
     req_killed |-> ic.req_killed, rsp |-> rsp]

Latched(pc, lines, rsp) ==
    [state |-> "LOOKUP", pc |-> pc, lines |-> lines, context |-> FALSE,
     req_killed |-> FALSE, rsp |-> rsp]

(* One clock edge.  "accept" is none or one request [pc, lines]; "mem"     *)
(* says that the memory side takes the miss, or delivers the line.  A miss *)
(* in a flush cycle is sent with the registers of an earlier one, and its  *)
(* refill brings the earlier line.                                         *)
IcAfter(accept, mem, flush) ==
    LET killed == Killed(flush)
        answer == IF flush \/ ic.req_killed THEN {} ELSE {ic.pc}
        Take(rsp) == LET r == CHOOSE x \in accept : TRUE IN Latched(r.pc, r.lines, rsp)
    IN  CASE ic.state = "IDLE" ->
               IF accept # {} THEN Take({}) ELSE [ic EXCEPT !.rsp = Kept(flush)]
          [] ic.state = "LOOKUP" /\ hit_all ->
               IF accept # {} THEN Take(answer)
               ELSE [ic EXCEPT !.state = "IDLE", !.req_killed = killed, !.rsp = answer]
          [] ic.state = "LOOKUP" /\ ~hit_all ->
               [ic EXCEPT !.state = "MISS_REQ", !.context = ~flush, !.req_killed = killed, !.rsp = {}]
          [] ic.state = "MISS_REQ" ->
               [ic EXCEPT !.state = IF mem THEN "MISS_WAIT_REFILL" ELSE @,
                          !.req_killed = killed, !.rsp = Kept(flush)]
          [] ic.state = "MISS_WAIT_REFILL" ->
               [ic EXCEPT !.state = IF mem THEN "REFILL_RECOVER" ELSE @,
                          !.lines = IF mem /\ ic.context THEN @ - 1 ELSE @,
                          !.req_killed = killed, !.rsp = IF mem THEN {} ELSE Kept(flush)]
          [] ic.state = "REFILL_RECOVER" ->
               [ic EXCEPT !.state = "LOOKUP", !.req_killed = killed, !.rsp = {}]

MemChoices == IF ic.state \in {"MISS_REQ", "MISS_WAIT_REFILL"} THEN BOOLEAN ELSE {FALSE}

-----------------------------------------------------------------------------
(* The page walker takes a request when idle, and answers at once (TLB) or *)
(* some cycles later, in a pulse of one cycle.                             *)
mmu_req_ready == walker.walk = {}

WalkerChoices ==
    LET target == IF ~mmu_req_ready THEN walker.walk
                  ELSE IF mmu.state = "MMU_ST_REQ" THEN {Head(req).pc} ELSE {}
    IN  {[walk |-> target, resp |-> {}]}
        \cup {[walk |-> {}, resp |-> {[pc |-> p, page_fault |-> f]}] : p \in target, f \in PageFaults}

-----------------------------------------------------------------------------
(* The signals of the fetch unit in a cycle without a flush.               *)
rsp_capture == inf # <<>> /\ ic.rsp # {} /\ Head(inf).epoch = fetch_epoch

(* Mutant: the budget is checked too late by one.                          *)
OverBudget ==
    /\ ~fault.pending /\ ~fault.wait_flush
    /\ req # <<>> /\ Len(inf) < INF_DEPTH
    /\ Len(fq) + Len(inf) <= FQ_DEPTH

can_issue_req ==
    /\ ~fault.pending /\ ~fault.wait_flush
    /\ req # <<>> /\ Len(inf) < INF_DEPTH
    /\ Len(fq) + Len(inf) < FQ_DEPTH

req_issue_fire ==
    can_issue_req /\ (xlate => mmu.state = "MMU_ST_READY") /\ icache_ready(FALSE)
issue_paddr == IF xlate THEN mmu.paddr ELSE Head(req).pc

fault_consume(ready) == fault.pending /\ ready /\ ~rsp_capture

ftq_alloc_ready == ftq # FtqIds
can_accept_bpu(pop) ==
    /\ ~fault.pending /\ ~fault.wait_flush
    /\ Len(req) < REQ_DEPTH \/ pop
    /\ ftq_alloc_ready

(* Mutant: a redirect predicts from the old address.                       *)
OldPc(redirect) == pc_reg

(* The address predicted from: of the redirect, if there is one.           *)
bpu_query_pc(redirect) == IF redirect = {} THEN pc_reg ELSE CHOOSE p \in redirect : TRUE

(* A request for address pc, predicted to go on at npc.                    *)
Request(pc, npc, id, epoch) == [pc |-> pc, npc |-> npc, id |-> id, epoch |-> epoch]

(* Mutant: the epoch counter does not wrap.                                *)
EpochGrows == fetch_epoch + 1

flush_next_epoch == (fetch_epoch + 1) % EPOCHS

(* Mutant: a captured response keeps its identifier.                       *)
FreeFaultOnly(ready) == IF fault_consume(ready) THEN {Head(req).id} ELSE {}

ftq_free(ready) == IF fault_consume(ready) THEN {Head(req).id}
                   ELSE IF rsp_capture THEN {Head(inf).id} ELSE {}

MmuAfter ==
    IF ~xlate THEN [mmu EXCEPT !.state = "MMU_ST_IDLE"]
    ELSE CASE mmu.state = "MMU_ST_IDLE" /\ can_issue_req -> [mmu EXCEPT !.state = "MMU_ST_REQ"]
           [] mmu.state = "MMU_ST_REQ" /\ mmu_req_ready -> [mmu EXCEPT !.state = "MMU_ST_WAIT"]
           [] mmu.state = "MMU_ST_WAIT" /\ walker.resp # {} ->
                LET r == CHOOSE x \in walker.resp : TRUE
                IN  IF r.page_fault THEN [mmu EXCEPT !.state = "MMU_ST_IDLE"]
                    ELSE [state |-> "MMU_ST_READY", paddr |-> r.pc]
           [] mmu.state = "MMU_ST_READY" /\ req_issue_fire -> [mmu EXCEPT !.state = "MMU_ST_IDLE"]
           [] OTHER -> mmu

mmu_page_fault ==
    xlate /\ mmu.state = "MMU_ST_WAIT" /\ \E r \in walker.resp : r.page_fault

FaultAfter(ready) ==
    IF mmu_page_fault THEN [pending |-> TRUE, wait_flush |-> TRUE, pc |-> Head(req).pc]
    ELSE [fault EXCEPT !.pending = @ /\ ~fault_consume(ready)]

(* The trap of an accepted fault, with or without its flush in the cycle.  *)
TrapAfter(ready) ==
    IF fault.pending /\ ready THEN {[saved |-> fault.pc, wanted |-> next]} ELSE trap

(* The fetch queue: "in" is the bundle captured, if any.  One that finds   *)
(* the queue full is lost ($fatal in simulation).                          *)
Captured == IF ~rsp_capture THEN <<>>
            ELSE <<[pc |-> Head(inf).pc, npc |-> Head(inf).npc, code |-> CHOOSE d \in ic.rsp : TRUE]>>
Offered == IF BYPASS_EN \/ fq # <<>> THEN fq \o Captured ELSE <<>>
deq_fire(ready) == ready /\ Offered # <<>>
enq_ready(ready) == Len(fq) < FQ_DEPTH \/ deq_fire(ready)
Queued(ready) ==
    LET all == IF enq_ready(ready) THEN fq \o Captured ELSE fq
    IN  IF deq_fire(ready) THEN Tail(all) ELSE all

(* An ordinary cycle.  bpu: the prediction offered, if any; lines: of the  *)
(* request issued, the cache lines that are missing; mode: whether the     *)
(* next cycle translates.                                                  *)
Fetch(bpu, lines, mem, w, deq_ready, fault_ready, mode) ==
    LET pop == req_issue_fire \/ fault_consume(fault_ready)
        enq == can_accept_bpu(pop) /\ bpu # {}
        npc == CHOOSE p \in bpu : TRUE
        id == Min(FtqIds \ ftq)
        rest == IF pop THEN Tail(req) ELSE req
        waiting == IF rsp_capture THEN Tail(inf) ELSE inf
    IN  /\ req' = IF enq THEN Append(rest, Request(bpu_query_pc({}), npc, id, fetch_epoch)) ELSE rest
        /\ pc_reg' = IF enq THEN npc ELSE pc_reg
        /\ inf' = IF req_issue_fire THEN Append(waiting, Head(req)) ELSE waiting
        /\ ic' = IcAfter(IF req_issue_fire THEN {[pc |-> issue_paddr, lines |-> lines]} ELSE {},
                         mem, FALSE)
        /\ ftq' = (ftq \ ftq_free(fault_ready)) \cup (IF enq THEN {id} ELSE {})
        /\ fq' = Queued(deq_ready)
        /\ next' = IF deq_fire(deq_ready) THEN Head(Offered).npc ELSE next
        /\ mmu' = MmuAfter
        /\ walker' = w
        /\ fault' = FaultAfter(fault_ready)
        /\ trap' = TrapAfter(fault_ready)
        /\ xlate' = mode
        /\ UNCHANGED fetch_epoch

(* What both flushes do to the queues, the cache and the fault.            *)
FlushQueues(mem) ==
    /\ inf' = <<>> /\ fq' = <<>>
    /\ ic' = IcAfter({}, mem, TRUE)
    /\ mmu' = IdleMmu
    /\ fault' = NoFault
    /\ fetch_epoch' = flush_next_epoch

(* A redirect: the request for the new address may be queued at once.  The *)
(* walker goes on.  A trap for a pending fault is one such redirect.       *)
Redirect(redirect_pc, bpu, mem, w, fault_ready, mode) ==
    LET enq == ~fault.pending /\ ~fault.wait_flush /\ bpu # {}
        npc == CHOOSE p \in bpu : TRUE
    IN  /\ FlushQueues(mem)
        /\ req' = IF enq THEN <<Request(bpu_query_pc({redirect_pc}), npc, 0, flush_next_epoch)>>
                  ELSE <<>>
        /\ pc_reg' = IF enq THEN npc ELSE redirect_pc
        /\ ftq' = IF enq THEN {0} ELSE {}
        /\ walker' = w
        /\ next' = redirect_pc
        /\ trap' = TrapAfter(fault_ready)
        /\ xlate' = mode

(* SFENCE.VMA or a new satp, by which the mode may change: everything is   *)
(* dropped and fetched again from the oldest request the cache or the      *)
(* queue had; the walker starts over.                                      *)
(* The history takes the replay address for the one wanted.                *)
local_mmu_replay_pc == IF inf # <<>> THEN Head(inf).pc
                       ELSE IF req # <<>> THEN Head(req).pc ELSE pc_reg
LocalFlush(mem, mode) ==
    /\ FlushQueues(mem)
    /\ req' = <<>>
    /\ pc_reg' = local_mmu_replay_pc
    /\ ftq' = {}
    /\ walker' = IdleWalker
    /\ next' = pc_reg'
    /\ xlate' = mode
    /\ UNCHANGED trap

Init ==
    /\ pc_reg = 0 /\ fetch_epoch = 0
    /\ req = <<>> /\ inf = <<>> /\ fq = <<>> /\ ftq = {}
    /\ ic = ResetIc
    /\ mmu = IdleMmu /\ walker = IdleWalker
    /\ fault = NoFault
    /\ xlate \in Translation
    /\ next = 0 /\ trap = {}

(* Inputs that no signal looks at in a state are not varied in it.         *)
LineChoices == IF req_issue_fire THEN 0 .. MaxLines ELSE {0}
ReadyChoices == IF fault.pending THEN BOOLEAN ELSE {FALSE}

(* MRET may turn translation on some cycles before its redirect; a trap    *)
(* turns it off with the redirect, a write of satp with the local flush.   *)
Modes == {xlate} \cup (Translation \cap {TRUE})

Cycles(predictions, mems, walks, deqs) ==
    \E bpu \in predictions, mem \in mems, w \in walks, deq_ready \in deqs :
    \E lines \in LineChoices, fault_ready \in ReadyChoices, mode \in Modes :
        Fetch(bpu, lines, mem, w, deq_ready, fault_ready, mode)

Clock == Cycles(AtMostOne(Pcs), MemChoices, WalkerChoices, BOOLEAN)
FlushClock == \E redirect_pc \in Pcs, bpu \in AtMostOne(Pcs), mode \in Translation :
              \E mem \in MemChoices, w \in WalkerChoices, fault_ready \in ReadyChoices :
                 Redirect(redirect_pc, bpu, mem, w, fault_ready, mode)
FenceClock == Fences /\ \E mem \in MemChoices, mode \in Translation : LocalFlush(mem, mode)

Next == Clock \/ FlushClock \/ FenceClock

Spec == Init /\ [][Next]_vars

(* The predictor always has a prediction, memory answers, walks end, and   *)
(* the instruction buffer takes bundles again and again.                   *)
Answers == {w \in WalkerChoices : w.walk = {}}
Predicts == Cycles(AtMostOne(Pcs) \ {{}}, MemChoices, WalkerChoices, BOOLEAN)
MemoryAnswers == Cycles(AtMostOne(Pcs), MemChoices \ {FALSE}, WalkerChoices, BOOLEAN)
WalkerAnswers == Cycles(AtMostOne(Pcs), MemChoices, Answers, BOOLEAN)
BufferTakes == Cycles(AtMostOne(Pcs), MemChoices, WalkerChoices, {TRUE})
FairSpec == Spec /\ WF_vars(Predicts) /\ WF_vars(MemoryAnswers)
                 /\ WF_vars(WalkerAnswers) /\ WF_vars(BufferTakes)

-----------------------------------------------------------------------------
(* Type correctness of the front end.                                      *)
Requests == [pc : Pcs, npc : Pcs, id : FtqIds, epoch : 0 .. EPOCHS - 1]
Bundle == [pc : Pcs, npc : Pcs, code : Pcs]
Elements(s) == {s[i] : i \in 1 .. Len(s)}
FTypeOK ==
    /\ pc_reg \in Pcs /\ next \in Pcs /\ fetch_epoch \in 0 .. EPOCHS - 1
    /\ Len(req) <= REQ_DEPTH /\ Elements(req) \subseteq Requests
    /\ Len(inf) <= INF_DEPTH /\ Elements(inf) \subseteq Requests
    /\ Len(fq) <= FQ_DEPTH /\ Elements(fq) \subseteq Bundle
    /\ ftq \subseteq FtqIds
    /\ ic.state \in {"IDLE", "LOOKUP", "MISS_REQ", "MISS_WAIT_REFILL", "REFILL_RECOVER"}
    /\ ic.pc \in Pcs /\ ic.lines \in 0 .. MaxLines /\ ic.rsp \subseteq Pcs
    /\ mmu.state \in {"MMU_ST_IDLE", "MMU_ST_REQ", "MMU_ST_WAIT", "MMU_ST_READY"}

(* A bundle holds the code of its own address: through flushes that        *)
(* overtake a cache miss or a page walk, no late answer for an abandoned   *)
(* request is taken for a new one.                                         *)
CodeIsOfItsPc == \A b \in Elements(fq) : b.code = b.pc

(* The bundles queued, in flight and waiting follow each other from the    *)
(* address the program wants next to the address the predictor goes on     *)
(* from: none is lost, repeated, reordered or left over from before a      *)
(* flush.  After a fault was taken they end at the faulting address.       *)
Path == [i \in 1 .. Len(fq) |-> [pc |-> fq[i].pc, npc |-> fq[i].npc]]
        \o [i \in 1 .. Len(inf) |-> [pc |-> inf[i].pc, npc |-> inf[i].npc]]
        \o (IF fault.wait_flush THEN <<>>
            ELSE [i \in 1 .. Len(req) |-> [pc |-> req[i].pc, npc |-> req[i].npc]])
PathEnd == IF fault.wait_flush THEN fault.pc ELSE pc_reg
StreamUnbroken ==
    \A i \in 0 .. Len(Path) :
        (IF i = 0 THEN next ELSE Path[i].npc) = (IF i = Len(Path) THEN PathEnd ELSE Path[i + 1].pc)

(* Every request the cache has can be stored when it is answered, however  *)
(* long the instruction buffer stalls: the $fatal of the fetch unit about  *)
(* a response drop never fires.                                            *)
RoomForEveryAnswer == Len(fq) + Len(inf) <= FQ_DEPTH

(* The fetch target queue holds exactly the identifiers of the requests    *)
(* waiting or in flight, each of them once: none leaks, none is reused     *)
(* while its request is alive, and all of those are of the current epoch.  *)
FtqExact ==
    LET live == req \o inf
    IN  /\ ftq = {live[i].id : i \in 1 .. Len(live)}
        /\ Cardinality(ftq) = Len(live)
        /\ \A i \in 1 .. Len(live) : live[i].epoch = fetch_epoch

(* A local flush goes on from the bundle the back end is to get next: it   *)
(* skips no instruction and repeats none.                                  *)
FenceReplaysOldest == [][FenceClock => pc_reg' = next]_vars

(* A fetch fault is taken as a precise exception: the address it saves is  *)
(* the first one the program has not received.                             *)
FaultIsPrecise == \A t \in trap : t.saved = t.wanted

(* Once redirects and fences stop, fetch never stalls for good: code keeps *)
(* arriving unless the unit waits for the trap of a fault.                 *)
FetchContinues ==
    <>[][fetch_epoch' = fetch_epoch]_vars => []<>(rsp_capture \/ fault.wait_flush)
=============================================================================
