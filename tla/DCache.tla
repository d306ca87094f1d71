------------------------------- MODULE DCache -------------------------------
(***************************************************************************)
(* The data cache (vsrc/cache/dcache.sv, mshr.sv): write-back, loads that  *)
(* miss wait in the MSHRs while others hit, stores block, and a flush of   *)
(* the back end drops every load but no store.  Below it, the memory of    *)
(* the simulator: DCacheModel in csrc/include/memory_models.h, and the     *)
(* main loop's copy of accepted stores into memory (csrc/npc_main.cpp).    *)
(*                                                                         *)
(* One step is one clock cycle.  The simulator reads the outputs of a      *)
(* cycle just after the edge that begins it, before it drives that cycle's *)
(* inputs (memory_models.h tick): it sees the new state, but the refill of *)
(* the cycle before, and a flush caused by an interrupt it has yet to      *)
(* raise it does not see.                                                  *)
(*                                                                         *)
(* The bypass of the last write (dcache.sv 1207-1236) is left out: it      *)
(* covers an array read in the cycle of a write, and no state does both.   *)
(* So are misaligned requests, which the LSU never sends.                  *)
(***************************************************************************)
EXTENDS Integers, Sequences, FiniteSets

CONSTANTS
    Lines,      \* line addresses
    SETS,       \* sets of the cache
    Ways,       \* 0 .. DCACHE_SET_ASSOC - 1
    Stored,     \* the lines the program stores to
    Words,      \* words of a line
    Vals,       \* contents of a word
    N_MSHR,     \* entries of the MSHR file
    Lanes,      \* load lanes of the LSU; each has one load in flight
    DELAY       \* cycles DCacheModel counts down for a miss

ASSUME DCacheAssumption ==
    /\ Lines \subseteq Nat /\ Stored \subseteq Lines /\ SETS \in Nat \ {0} /\ Ways \subseteq Nat /\ 0 \in Ways
    /\ Lines # {} /\ Words # {} /\ Vals # {} /\ Lanes # {} /\ DELAY \in Nat \ {0}
    /\ N_MSHR \in Nat /\ IsFiniteSet(Lanes) /\ Cardinality(Lanes) <= N_MSHR

VARIABLES
    state,      \* state_q
    req,        \* the request registers
    pend,       \* pending_ld: a load taken while a response waits
    mshr,       \* the MSHR file
    cache,      \* tag, meta and data arrays
    victim,     \* victim registers of a store miss
    store_hit_way,
    rsp,        \* response registers
    q,          \* DCacheModel.pending_q
    mem,        \* UnifiedMem
    pulsed,     \* refill_valid_i was high in the cycle before
    st_req,     \* the committed store the store buffer presents
    live,       \* per lane: the load it waits for (LSU)
    arch        \* memory as the accepted stores make it (history)

fsm == <<state, req, pend, cache, victim, store_hit_way, rsp>>
dvars == <<fsm, mshr, q, mem, pulsed, st_req, live, arch>>

None == [valid |-> FALSE]
NoReq == [is_store |-> FALSE]
MshrIds == 1 .. N_MSHR
Index(l) == l % SETS
Loads == [valid : {TRUE}, line : Lines, word : Words, lane : Lanes]
Min(S) == CHOOSE x \in S : \A y \in S : x <= y
Merge(data, r) == [data EXCEPT ![r.word] = r.val]

-----------------------------------------------------------------------------
(* The MSHR file.                                                          *)
Valid == {i \in MshrIds : mshr[i].valid}
mshr_empty == Valid = {}
OnLine(l) == {i \in Valid : mshr[i].line = l}
WbCandidates == {i \in Valid : ~mshr[i].wb_done}
MissCandidates == {i \in Valid : mshr[i].wb_done /\ ~mshr[i].miss_sent}

\* One entry a cycle writes its victim back, or else sends its miss; memory is always ready.
MshrAdvanced ==
    IF state # "WB_REQ" /\ WbCandidates # {}
    THEN [mshr EXCEPT ![Min(WbCandidates)].wb_done = TRUE]
    ELSE IF state # "MISS_REQ" /\ WbCandidates = {} /\ MissCandidates # {}
    THEN [mshr EXCEPT ![Min(MissCandidates)].miss_sent = TRUE]
    ELSE mshr

(* Mutant: a flush also drops the store that is being worked on.         *)
KillsStores(flush) == flush

\* A flush drops everything except a store that is being worked on.
Killed(flush) == flush /\ ~(state # "IDLE" /\ req.is_store)

-----------------------------------------------------------------------------
(* The memory's side: the outputs it sees, the refill it drives.           *)
wb_req(seen) ==
    IF Killed(seen) THEN None
    ELSE IF state = "WB_REQ" THEN [valid |-> TRUE, line |-> victim.line, data |-> victim.data]
    ELSE IF WbCandidates # {}
    THEN [valid |-> TRUE, line |-> mshr[Min(WbCandidates)].vline, data |-> mshr[Min(WbCandidates)].vdata]
    ELSE None

miss_req(seen) ==
    IF Killed(seen) THEN None
    ELSE IF state = "MISS_REQ" THEN [valid |-> TRUE, line |-> req.line, way |-> victim.way]
    ELSE IF WbCandidates = {} /\ MissCandidates # {}
    THEN [valid |-> TRUE, line |-> mshr[Min(MissCandidates)].line, way |-> mshr[Min(MissCandidates)].way]
    ELSE None

refill_ready(flush) == ~Killed(flush) /\ state \in {"WAIT_REFILL", "IDLE"}

\* The queue with the miss of this cycle and one cycle gone; its head is driven when it is due
\* and the cache looks ready.
Queued(seen) ==
    LET m == miss_req(seen)
        new == IF m.valid THEN <<[valid |-> TRUE, line |-> m.line, way |-> m.way,
                                  data |-> mem[m.line], delay |-> DELAY]>> ELSE <<>>
        all == q \o new
    IN  [i \in 1 .. Len(all) |-> [all[i] EXCEPT !.delay = IF @ > 0 THEN @ - 1 ELSE 0]]
Due(seen) == LET s == Queued(seen) IN s # <<>> /\ s[1].delay = 0 /\ refill_ready(seen)
Refill(seen) == IF Due(seen) THEN Queued(seen)[1] ELSE None

\* The main loop writes a store to memory if it looked accepted, with the refill of the last cycle.
LooksAccepted(ld, seen) ==
    /\ st_req.valid /\ state = "IDLE" /\ ~pend.valid /\ ~ld.valid /\ mshr_empty /\ ~seen /\ ~pulsed
WrittenBack(seen) ==
    LET w == wb_req(seen) IN IF w.valid THEN [mem EXCEPT ![w.line] = w.data] ELSE mem
Memory(ld, seen) ==
    /\ q' = IF Due(seen) THEN Tail(Queued(seen)) ELSE Queued(seen)
    /\ pulsed' = Due(seen)
    /\ mem' = IF LooksAccepted(ld, seen)
              THEN [WrittenBack(seen) EXCEPT ![st_req.line] = Merge(@, st_req)]
              ELSE WrittenBack(seen)

-----------------------------------------------------------------------------
(* Hits and victims.                                                       *)
Set(l) == cache[Index(l)]
HitWays(l) == {w \in Ways : Set(l)[w].valid /\ Set(l)[w].line = l}
hit == HitWays(req.line) # {}
hit_way == Min(HitWays(req.line))
InvalidWays(l) == {w \in Ways : ~Set(l)[w].valid}
\* The first invalid way, or whichever the shift register points at.
VictimWays(l) == IF InvalidWays(l) # {} THEN {Min(InvalidWays(l))} ELSE Ways
Dirty(e) == e.valid /\ e.dirty
WriteWay(s, w, l, dirty, data) ==
    cache' = [cache EXCEPT ![s][w] = [valid |-> TRUE, dirty |-> dirty, line |-> l, data |-> data]]

(* Mutant: a load is taken although its line is in an MSHR.              *)
SecondMiss(ld, flush, refill) ==
    state \in {"IDLE", "RESP"} /\ ~pend.valid /\ ~flush /\ ~refill.valid

ld_req_ready(ld, flush, refill) ==
    /\ state \in {"IDLE", "RESP"} /\ ~pend.valid /\ ~flush /\ ~refill.valid
    /\ OnLine(ld.line) = {}
st_req_ready(ld, flush, refill) ==
    /\ state = "IDLE" /\ ~pend.valid /\ ~ld.valid /\ mshr_empty /\ ~flush /\ ~refill.valid

LoadReq(ld) == [is_store |-> FALSE, line |-> ld.line, word |-> ld.word, lane |-> ld.lane]
StoreReq == [is_store |-> TRUE, line |-> st_req.line, word |-> st_req.word, val |-> st_req.val]
(* Mutant: the response names the first lane.                            *)
FirstLane(lane, val) == [lane |-> CHOOSE i \in Lanes : TRUE, val |-> val]

Response(lane, val) == [lane |-> lane, val |-> val]
NoVictim == [way |-> 0, line |-> Min(Lines), data |-> [w \in Words |-> CHOOSE v \in Vals : TRUE]]
NoRsp == [lane |-> CHOOSE i \in Lanes : TRUE, val |-> CHOOSE v \in Vals : TRUE]

\* The registers of a request that is over hold nothing that is used, except whether it was a store.
Over == req' = [is_store |-> req.is_store]

-----------------------------------------------------------------------------
(* What a cycle does in each state.                                        *)
TakesLoad(ld) ==
    /\ live' = [live EXCEPT ![ld.lane] = ld]
    /\ UNCHANGED <<st_req, arch>>
KeepsRequests == UNCHANGED <<st_req, live, arch>>

\* The refill of an MSHR, or of a load that a flush has dropped: the latter is ignored.
IdleRefill(r) ==
    /\ state = "IDLE" /\ r.valid
    /\ IF OnLine(r.line) # {}
       THEN LET i == Min(OnLine(r.line))
                m == mshr[i]
            IN  /\ WriteWay(Index(m.line), m.way, r.line, FALSE, r.data)
                /\ mshr' = [MshrAdvanced EXCEPT ![i] = None]
                /\ rsp' = Response(m.lane, r.data[m.word])
                /\ state' = "RESP"
       ELSE UNCHANGED <<cache, rsp, state>> /\ mshr' = MshrAdvanced
    /\ KeepsRequests /\ UNCHANGED <<req, pend, victim, store_hit_way>>

\* A new request: a load first, the one that already waits before any other.
IdleAccept(ld, flush, r) ==
    /\ state = "IDLE" /\ ~r.valid
    /\ mshr' = MshrAdvanced
    /\ CASE pend.valid -> /\ req' = LoadReq(pend) /\ pend' = None /\ state' = "LOOKUP"
                          /\ KeepsRequests
         [] ~pend.valid /\ ld.valid /\ ld_req_ready(ld, flush, r) ->
              req' = LoadReq(ld) /\ state' = "LOOKUP" /\ TakesLoad(ld) /\ UNCHANGED pend
         [] st_req.valid /\ st_req_ready(ld, flush, r) ->
              /\ req' = StoreReq /\ state' = "LOOKUP"
              /\ arch' = [arch EXCEPT ![st_req.line] = Merge(@, st_req)]
              /\ st_req' = None
              /\ UNCHANGED <<live, pend>>
         [] OTHER -> UNCHANGED <<req, state, pend>> /\ KeepsRequests
    /\ UNCHANGED <<cache, victim, store_hit_way, rsp>>

LookupHit ==
    /\ state = "LOOKUP" /\ hit
    /\ IF req.is_store
       THEN /\ store_hit_way' = hit_way /\ state' = "STORE_WRITE"
            /\ UNCHANGED <<rsp, req>>
       ELSE /\ rsp' = Response(req.lane, Set(req.line)[hit_way].data[req.word])
            /\ state' = "RESP" /\ Over /\ UNCHANGED store_hit_way
    /\ mshr' = MshrAdvanced
    /\ KeepsRequests /\ UNCHANGED <<pend, cache, victim>>

\* A store that misses keeps the cache; a load goes to an MSHR, or waits in LOOKUP for one.
LookupMiss(w) ==
    /\ state = "LOOKUP" /\ ~hit /\ w \in VictimWays(req.line)
    /\ LET v == Set(req.line)[w]
           free == MshrIds \ Valid
       IN  IF OnLine(req.line) # {} \/ (~req.is_store /\ free = {})
           THEN mshr' = MshrAdvanced /\ UNCHANGED <<victim, state, req>>
           ELSE IF req.is_store
           THEN /\ victim' = [way |-> w, line |-> v.line, data |-> v.data]
                /\ state' = IF Dirty(v) THEN "WB_REQ" ELSE "MISS_REQ"
                /\ mshr' = MshrAdvanced /\ UNCHANGED req
           ELSE /\ mshr' = [MshrAdvanced EXCEPT ![Min(free)] =
                             [valid |-> TRUE, wb_done |-> ~Dirty(v), miss_sent |-> FALSE, way |-> w,
                              vline |-> v.line, vdata |-> v.data,
                              line |-> req.line, word |-> req.word, lane |-> req.lane]]
                /\ state' = "IDLE" /\ Over /\ UNCHANGED victim
    /\ KeepsRequests /\ UNCHANGED <<pend, cache, store_hit_way, rsp>>

StoreWrite ==
    /\ state = "STORE_WRITE"
    /\ WriteWay(Index(req.line), store_hit_way, req.line, TRUE,
                Merge(Set(req.line)[store_hit_way].data, req))
    /\ state' = "IDLE" /\ Over
    /\ mshr' = MshrAdvanced
    /\ KeepsRequests /\ UNCHANGED <<pend, victim, store_hit_way, rsp>>

WbOrMissReq ==
    /\ state \in {"WB_REQ", "MISS_REQ"}
    /\ state' = IF state = "WB_REQ" THEN "MISS_REQ" ELSE "WAIT_REFILL"
    /\ mshr' = MshrAdvanced
    /\ KeepsRequests /\ UNCHANGED <<req, pend, cache, victim, store_hit_way, rsp>>

\* The refill of a store miss is merged and written, whichever line it is of.
WaitRefill(r) ==
    /\ state = "WAIT_REFILL"
    /\ IF r.valid
       THEN /\ WriteWay(Index(req.line), r.way, r.line, TRUE, Merge(r.data, req))
            /\ state' = "IDLE" /\ Over
       ELSE UNCHANGED <<cache, state, req>>
    /\ mshr' = MshrAdvanced
    /\ KeepsRequests /\ UNCHANGED <<pend, victim, store_hit_way, rsp>>

\* The response waits for the LSU; meanwhile one more load may be taken, and is looked up next.
Respond(ld, flush, r, ready) ==
    /\ state = "RESP"
    /\ mshr' = MshrAdvanced
    /\ LET take == ld.valid /\ ld_req_ready(ld, flush, r)
           answered == [live EXCEPT ![rsp.lane] = None]
       IN  IF ready
           THEN /\ live' = IF take THEN [answered EXCEPT ![ld.lane] = ld] ELSE answered
                /\ req' = IF pend.valid /\ ~r.valid THEN LoadReq(pend)
                          ELSE IF take THEN LoadReq(ld) ELSE req
                /\ state' = IF take \/ (pend.valid /\ ~r.valid) THEN "LOOKUP" ELSE "IDLE"
                /\ pend' = IF r.valid THEN pend ELSE None
           ELSE /\ live' = IF take THEN [live EXCEPT ![ld.lane] = ld] ELSE live
                /\ pend' = IF take THEN ld ELSE pend
                /\ UNCHANGED <<req, state>>
    /\ UNCHANGED <<st_req, arch, cache, victim, store_hit_way, rsp>>

(* Mutant: a flush leaves the MSHRs alone.                               *)
MshrsSurvive ==
    /\ state' = "IDLE" /\ req' = NoReq /\ pend' = None
    /\ mshr' = MshrAdvanced
    /\ live' = [i \in Lanes |-> None]
    /\ rsp' = NoRsp /\ victim' = NoVictim /\ store_hit_way' = 0
    /\ UNCHANGED <<cache, st_req, arch>>

\* A flush forgets every load, in the cache and in the LSU; the arrays stay as they are.
Flushed ==
    /\ state' = "IDLE" /\ req' = NoReq /\ pend' = None
    /\ mshr' = [i \in MshrIds |-> None]
    /\ live' = [i \in Lanes |-> None]
    /\ rsp' = NoRsp /\ victim' = NoVictim /\ store_hit_way' = 0
    /\ UNCHANGED <<cache, st_req, arch>>

\* A flush while a store is worked on empties only the MSHRs (which are empty then).
InState(ld, flush, r, ready) ==
    \/ IdleRefill(r)
    \/ IdleAccept(ld, flush, r)
    \/ LookupHit
    \/ \E w \in Ways : LookupMiss(w)
    \/ StoreWrite
    \/ WbOrMissReq
    \/ WaitRefill(r)
    \/ Respond(ld, flush, r, ready)

DCycle(ld, flush, seen, ready) ==
    /\ seen => flush
    /\ ld.valid => ~live[ld.lane].valid
    /\ Memory(ld, seen)
    /\ IF Killed(flush) THEN Flushed ELSE InState(ld, flush, Refill(seen), ready)

\* The store buffer presents its next committed store.
NewStore ==
    /\ ~st_req.valid
    /\ \E l \in Stored, w \in Words, v \in Vals :
         /\ v # arch[l][w]
         /\ st_req' = [valid |-> TRUE, line |-> l, word |-> w, val |-> v]
    /\ UNCHANGED <<fsm, mshr, q, mem, pulsed, live, arch>>

DInit ==
    /\ state = "IDLE" /\ req = NoReq /\ pend = None
    /\ mshr = [i \in MshrIds |-> None]
    /\ mem = [l \in Lines |-> [w \in Words |-> CHOOSE v \in Vals : TRUE]]
    /\ arch = mem
    /\ cache = [s \in 0 .. SETS - 1 |-> [w \in Ways |->
                  [valid |-> FALSE, dirty |-> FALSE, line |-> Min(Lines), data |-> mem[Min(Lines)]]]]
    /\ victim = NoVictim
    /\ store_hit_way = 0
    /\ rsp = NoRsp
    /\ q = <<>> /\ pulsed = FALSE
    /\ st_req = None /\ live = [i \in Lanes |-> None]

DClock ==
    \E ld \in Loads \cup {None} : \E flush, seen, ready \in BOOLEAN : DCycle(ld, flush, seen, ready)

DNext == DClock \/ NewStore
DSpec == DInit /\ [][DNext]_dvars

-----------------------------------------------------------------------------
(* Type correctness of the cache, its memory and the LSU's side.           *)
Datas == [Words -> Vals]
Mshrs == [valid : {TRUE}, wb_done : BOOLEAN, miss_sent : BOOLEAN, way : Ways, vline : Lines,
          vdata : Datas, line : Lines, word : Words, lane : Lanes]
DTypeOK ==
    /\ state \in {"IDLE", "LOOKUP", "STORE_WRITE", "WB_REQ", "MISS_REQ", "WAIT_REFILL", "RESP"}
    /\ req \in [is_store : BOOLEAN] \cup [is_store : {FALSE}, line : Lines, word : Words, lane : Lanes]
               \cup [is_store : {TRUE}, line : Stored, word : Words, val : Vals]
    /\ pend \in Loads \cup {None} /\ mshr \in [MshrIds -> Mshrs \cup {None}]
    /\ cache \in [0 .. SETS - 1 ->
                    [Ways -> [valid : BOOLEAN, dirty : BOOLEAN, line : Lines, data : Datas]]]
    /\ victim \in [way : Ways, line : Lines, data : Datas] /\ store_hit_way \in Ways
    /\ rsp \in [lane : Lanes, val : Vals] /\ pulsed \in BOOLEAN
    /\ \A i \in 1 .. Len(q) : q[i] \in [valid : {TRUE}, line : Lines, way : Ways, data : Datas,
                                        delay : 0 .. DELAY]
    /\ mem \in [Lines -> Datas] /\ arch \in [Lines -> Datas]
    /\ st_req \in [valid : {TRUE}, line : Stored, word : Words, val : Vals] \cup {None}
    /\ live \in [Lanes -> Loads \cup {None}]

\* The value of a word: of the last store accepted, or of the committed one that waits at the port,
\* which the simulator may have copied to memory before the cache takes it.
Current(l, w) ==
    {arch[l][w]} \cup
    (IF st_req.valid /\ st_req.line = l /\ st_req.word = w THEN {st_req.val} ELSE {})

\* No two ways hold the same line, and what the cache holds, with the store it is working on, or
\* else what memory holds, is what the stores have made: no store is lost to a flush, an eviction,
\* a refill that was asked for before it, or the simulator's copy of it.
Working == state # "IDLE" /\ req.is_store
Held(l) == IF HitWays(l) # {} THEN Set(l)[Min(HitWays(l))].data ELSE mem[l]
StoresKept ==
    \A l \in Lines :
        /\ Cardinality(HitWays(l)) <= 1
        /\ LET now == IF Working /\ req.line = l THEN Merge(Held(l), req) ELSE Held(l)
           IN  \A w \in Words : now[w] \in Current(l, w)

\* A response is for the load its lane waits for now and has the current value.
ResponseIsLoads ==
    state = "RESP" => /\ live[rsp.lane].valid
                      /\ rsp.val \in Current(live[rsp.lane].line, live[rsp.lane].word)

\* Every load in flight is in exactly one place, so it gets one response, and none comes for a
\* load that a flush has dropped.
CopiesOf(i) ==
    Cardinality({j \in Valid : mshr[j].lane = i})
    + (IF pend.valid /\ pend.lane = i THEN 1 ELSE 0)
    + (IF state = "RESP" /\ rsp.lane = i THEN 1 ELSE 0)
    + (IF state = "LOOKUP" /\ ~req.is_store /\ req.lane = i THEN 1 ELSE 0)
OnePlacePerLoad == \A i \in Lanes : CopiesOf(i) = IF live[i].valid THEN 1 ELSE 0

\* A load that misses always finds an MSHR, and never one of its own line: it would wait in LOOKUP,
\* where the cache takes no refill, for an entry that only a refill frees.
LookupNeverWaits ==
    (state = "LOOKUP" /\ ~req.is_store /\ ~hit) => (OnLine(req.line) = {} /\ Valid # MshrIds)
=============================================================================
