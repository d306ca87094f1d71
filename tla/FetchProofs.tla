---------------------------- MODULE FetchProofs ----------------------------
(***************************************************************************)
(* Proofs about Fetch, for queues of every depth, every number of epochs   *)
(* and every set of addresses.  A bundle is right because of three links   *)
(* that every cycle keeps: the requests in flight are exactly those the    *)
(* cache still answers, in its order (CacheLink); the address the cache is *)
(* given is that of the oldest request, although the walker may still be   *)
(* busy with one that a redirect has abandoned (WalkLink); and the         *)
(* identifiers in use are those of the requests alive (IdLink).            *)
(***************************************************************************)
EXTENDS Fetch, FiniteSetTheorems, WellFoundedInduction, TLAPS

IcStates == {"IDLE", "LOOKUP", "MISS_REQ", "MISS_WAIT_REFILL", "REFILL_RECOVER"}
MmuStates == {"MMU_ST_IDLE", "MMU_ST_REQ", "MMU_ST_WAIT", "MMU_ST_READY"}
Answered == [pc : Pcs, page_fault : BOOLEAN]

\* The types of the state, queues as sequences within their depths.
Types ==
    /\ pc_reg \in Pcs /\ next \in Pcs /\ fetch_epoch \in 0 .. EPOCHS - 1
    /\ req \in Seq(Requests) /\ Len(req) <= REQ_DEPTH
    /\ inf \in Seq(Requests) /\ Len(inf) <= INF_DEPTH
    /\ fq \in Seq(Bundle)
    /\ ftq \subseteq FtqIds
    /\ ic \in [state : IcStates, pc : Pcs, lines : 0 .. MaxLines, context : BOOLEAN,
               req_killed : BOOLEAN, rsp : SUBSET Pcs]
    /\ mmu \in [state : MmuStates, paddr : Pcs]
    /\ walker \in [walk : SUBSET Pcs, resp : SUBSET Answered]
    /\ fault \in [pending : BOOLEAN, wait_flush : BOOLEAN, pc : Pcs]
    /\ xlate \in BOOLEAN

\* A request whose miss is being served has a line missing.
MissHasLine == ic.state \in {"MISS_REQ", "MISS_WAIT_REFILL"} => ic.lines > 0

\* The requests in flight are the one whose answer is in the response register and the one the
\* cache works on.  A request a flush has killed is not in flight, and gets no answer.
CacheLink ==
    /\ ic.state = "IDLE" => inf = <<>> \/ (Len(inf) = 1 /\ ic.rsp = {inf[1].pc})
    /\ ic.state # "IDLE" /\ ic.req_killed => inf = <<>> /\ ic.rsp = {}
    /\ ic.state # "IDLE" /\ ~ic.req_killed =>
         \/ Len(inf) = 1 /\ inf[1].pc = ic.pc /\ ic.rsp = {}
         \/ ic.state = "LOOKUP" /\ Len(inf) = 2 /\ inf[2].pc = ic.pc /\ ic.rsp = {inf[1].pc}

\* A translation under way, and the walk it waits for, are those of the oldest request.
WalkLink ==
    /\ mmu.state # "MMU_ST_IDLE" => xlate /\ req # <<>> /\ ~fault.wait_flush
    /\ mmu.state = "MMU_ST_WAIT" =>
         \/ walker.walk = {req[1].pc} /\ walker.resp = {}
         \/ /\ walker.walk = {}
            /\ \E f \in BOOLEAN : walker.resp = {[pc |-> req[1].pc, page_fault |-> f]}
    /\ mmu.state = "MMU_ST_READY" => mmu.paddr = req[1].pc

\* A pending fault is that of the oldest request.
FaultLink == fault.pending => fault.wait_flush /\ req # <<>> /\ fault.pc = req[1].pc

\* The identifiers in use are those of the requests waiting or in flight, which differ.
IdLink ==
    /\ ftq = {req[i].id : i \in 1 .. Len(req)} \cup {inf[i].id : i \in 1 .. Len(inf)}
    /\ \A i, j \in 1 .. Len(req) : i # j => req[i].id # req[j].id
    /\ \A i, j \in 1 .. Len(inf) : i # j => inf[i].id # inf[j].id
    /\ \A i \in 1 .. Len(req), j \in 1 .. Len(inf) : req[i].id # inf[j].id
    /\ Cardinality(ftq) = Len(req) + Len(inf)
    /\ \A i \in 1 .. Len(req) : req[i].epoch = fetch_epoch
    /\ \A i \in 1 .. Len(inf) : inf[i].epoch = fetch_epoch

\* Path by position, without building the sequence.
PathLen == Len(fq) + Len(inf) + (IF fault.wait_flush THEN 0 ELSE Len(req))
PathPc(i) == IF i <= Len(fq) THEN fq[i].pc
             ELSE IF i <= Len(fq) + Len(inf) THEN inf[i - Len(fq)].pc
             ELSE req[i - Len(fq) - Len(inf)].pc
PathNpc(i) == IF i <= Len(fq) THEN fq[i].npc
              ELSE IF i <= Len(fq) + Len(inf) THEN inf[i - Len(fq)].npc
              ELSE req[i - Len(fq) - Len(inf)].npc
ArrivesAt(i) == IF i = 0 THEN next ELSE PathNpc(i)
GoesOnAt(i) == IF i = PathLen THEN PathEnd ELSE PathPc(i + 1)
Chain == \A i \in 0 .. PathLen : ArrivesAt(i) = GoesOnAt(i)

\* The inductive invariant.
FetchInv ==
    /\ Types /\ MissHasLine /\ CacheLink /\ WalkLink /\ FaultLink /\ IdLink
    /\ Chain /\ CodeIsOfItsPc /\ RoomForEveryAnswer

-----------------------------------------------------------------------------
(* Facts about the operators of the model.                                 *)

LEMMA ChooseOnly == \A x : (CHOOSE y \in {x} : TRUE) = x
  OBVIOUS

\* The parameters, one by one.
LEMMA Depths ==
    /\ 0 \in Pcs /\ Pcs \subseteq Nat
    /\ REQ_DEPTH \in Nat /\ REQ_DEPTH > 1 /\ INF_DEPTH \in Nat /\ INF_DEPTH > 1
    /\ FQ_DEPTH \in Nat /\ FQ_DEPTH > 1 /\ EPOCHS \in Nat /\ EPOCHS > 1
    /\ HIT_PIPELINE_EN \in BOOLEAN /\ BYPASS_EN \in BOOLEAN
    /\ MaxLines \in Nat /\ Translation \subseteq BOOLEAN /\ PageFaults \subseteq BOOLEAN
  BY FetchAssumption

\* The identifier given out is one that is not in use.
LEMMA FreshId ==
    ASSUME ftq \subseteq FtqIds, ftq_alloc_ready
    PROVE  Min(FtqIds \ ftq) \in FtqIds \ ftq
<1> DEFINE T == FtqIds \ ftq
           R == OpToRel(<, Nat)
<1>1. T \subseteq Nat /\ T # {}
  <2>1. FtqIds \subseteq Nat
    BY Depths DEF FtqIds
  <2> QED BY <2>1, Zenon DEF ftq_alloc_ready
<1>2. IsWellFoundedOn(R, Nat)
  BY NatLessThanWellFounded
<1>3. \A x, y \in Nat : ~ (<<y, x>> \in R) => x =< y
  BY DEF OpToRel
<1> HIDE DEF T, R
<1>4. PICK x \in T : \A y \in T : ~ (<<y, x>> \in R)
  BY <1>1, <1>2, WFMin
<1>5. \A y \in T : x =< y
  BY <1>1, <1>3, <1>4, Zenon
<1>6. \E z \in T : \A y \in T : z =< y
  BY <1>5
<1>7. Min(T) \in T
  BY <1>6 DEF Min
<1> QED BY <1>7 DEF T

\* The initial state.
LEMMA FetchInvInit == Init => FetchInv
<1> SUFFICES ASSUME Init PROVE FetchInv
  OBVIOUS
<1> USE DEF Init
<1>1. Types
  BY Depths DEF Types, ResetIc, IdleMmu, IdleWalker, NoFault, IcStates, MmuStates
<1>2. MissHasLine /\ CacheLink /\ WalkLink /\ FaultLink
  BY DEF MissHasLine, CacheLink, WalkLink, FaultLink, ResetIc, IdleMmu, NoFault
<1>3. IdLink
  BY FS_EmptySet DEF IdLink
<1>4. Chain
  BY DEF Chain, ArrivesAt, GoesOnAt, PathLen, PathEnd, NoFault
<1>5. CodeIsOfItsPc /\ RoomForEveryAnswer
  BY Depths DEF CodeIsOfItsPc, RoomForEveryAnswer, Elements
<1> QED BY <1>1, <1>2, <1>3, <1>4, <1>5 DEF FetchInv

-----------------------------------------------------------------------------
(* Sequences.                                                              *)

LEMMA TailOf ==
    ASSUME NEW S, NEW s \in Seq(S), s # <<>>
    PROVE  /\ Tail(s) \in Seq(S) /\ Len(Tail(s)) = Len(s) - 1 /\ Len(s) \in Nat \ {0}
           /\ Head(s) = s[1] /\ s[1] \in S
           /\ \A i \in 1 .. Len(s) - 1 : Tail(s)[i] = s[i + 1]
  OBVIOUS

LEMMA AppendOf ==
    ASSUME NEW S, NEW s \in Seq(S), NEW e \in S
    PROVE  /\ Append(s, e) \in Seq(S) /\ Len(Append(s, e)) = Len(s) + 1
           /\ Append(s, e)[Len(s) + 1] = e
           /\ \A i \in 1 .. Len(s) : Append(s, e)[i] = s[i]
  OBVIOUS

LEMMA SeqOf ==
    ASSUME NEW S, NEW n \in Nat, NEW f, f = [i \in 1 .. n |-> f[i]], \A i \in 1 .. n : f[i] \in S
    PROVE  f \in Seq(S) /\ Len(f) = n
  OBVIOUS

-----------------------------------------------------------------------------
(* The signals of an ordinary cycle.                                       *)

Count(b) == IF b THEN 1 ELSE 0
Pop(fault_ready) == req_issue_fire \/ fault_consume(fault_ready)
Enq(bpu, fault_ready) == can_accept_bpu(Pop(fault_ready)) /\ bpu # {}
NewRequest(bpu) ==
    Request(pc_reg, CHOOSE p \in bpu : TRUE, Min(FtqIds \ ftq), fetch_epoch)

\* An answer is captured when there is one; it is for the oldest request in flight.
LEMMA CaptureIs ==
    ASSUME FetchInv
    PROVE  /\ rsp_capture <=> inf # <<>> /\ ic.rsp # {}
           /\ rsp_capture => ic.rsp = {inf[1].pc} /\ Len(inf) > 0
           /\ Captured = IF rsp_capture
                         THEN <<[pc |-> inf[1].pc, npc |-> inf[1].npc, code |-> inf[1].pc]>>
                         ELSE <<>>
<1>1. inf \in Seq(Requests)
  BY DEF FetchInv, Types
<1>2. inf # <<>> => Head(inf) = inf[1] /\ Len(inf) > 0 /\ Head(inf).epoch = fetch_epoch
  BY <1>1 DEF FetchInv, IdLink
<1>3. rsp_capture <=> inf # <<>> /\ ic.rsp # {}
  BY <1>2 DEF rsp_capture
<1>4. rsp_capture => ic.rsp = {inf[1].pc}
  BY <1>3 DEF FetchInv, CacheLink
<1>5. rsp_capture => (CHOOSE d \in ic.rsp : TRUE) = inf[1].pc
  BY <1>4, ChooseOnly
<1> QED BY <1>2, <1>3, <1>4, <1>5 DEF Captured

\* A request goes to the cache with its own address, and only when an answer can be kept.
LEMMA IssueIs ==
    ASSUME FetchInv, req_issue_fire
    PROVE  /\ req # <<>> /\ issue_paddr = req[1].pc /\ icache_ready(FALSE)
           /\ ~fault.pending /\ ~fault.wait_flush
           /\ Len(inf) < INF_DEPTH /\ Len(fq) + Len(inf) < FQ_DEPTH
           /\ xlate => mmu.state = "MMU_ST_READY"
<1>1. /\ req # <<>> /\ icache_ready(FALSE) /\ ~fault.pending /\ ~fault.wait_flush
      /\ Len(inf) < INF_DEPTH /\ Len(fq) + Len(inf) < FQ_DEPTH
      /\ xlate => mmu.state = "MMU_ST_READY"
  BY DEF req_issue_fire, can_issue_req
<1>2. issue_paddr = req[1].pc
  BY <1>1 DEF issue_paddr, FetchInv, WalkLink, Types
<1> QED BY <1>1, <1>2

\* A fault is consumed with the request it is of, when nothing else moves at that end.
LEMMA ConsumeIs ==
    ASSUME FetchInv, NEW fault_ready \in BOOLEAN, fault_consume(fault_ready)
    PROVE  /\ fault.pending /\ fault.wait_flush /\ req # <<>> /\ ~rsp_capture /\ ~req_issue_fire
  BY IssueIs DEF fault_consume, FetchInv, FaultLink

\* A prediction is accepted when no fault is outstanding, there is room and an identifier is free.
LEMMA EnqIs ==
    ASSUME FetchInv, NEW bpu \in AtMostOne(Pcs), NEW fault_ready \in BOOLEAN, Enq(bpu, fault_ready)
    PROVE  /\ ~fault.pending /\ ~fault.wait_flush
           /\ Len(req) < REQ_DEPTH \/ Pop(fault_ready)
           /\ (CHOOSE p \in bpu : TRUE) \in Pcs
           /\ Min(FtqIds \ ftq) \in FtqIds \ ftq
           /\ NewRequest(bpu) \in Requests
           /\ NewRequest(bpu).pc = pc_reg /\ NewRequest(bpu).npc = (CHOOSE p \in bpu : TRUE)
           /\ NewRequest(bpu).id = Min(FtqIds \ ftq) /\ NewRequest(bpu).epoch = fetch_epoch
<1>1. ~fault.pending /\ ~fault.wait_flush /\ (Len(req) < REQ_DEPTH \/ Pop(fault_ready))
  BY DEF Enq, can_accept_bpu
<1>2. (CHOOSE p \in bpu : TRUE) \in Pcs
  <2>1. PICK p \in Pcs : bpu = {p}
    BY DEF Enq, AtMostOne
  <2> QED BY <2>1, ChooseOnly
<1>3. Min(FtqIds \ ftq) \in FtqIds \ ftq
  BY FreshId DEF Enq, can_accept_bpu, FetchInv, Types
<1>4. pc_reg \in Pcs /\ fetch_epoch \in 0 .. EPOCHS - 1
  BY DEF FetchInv, Types
<1> QED BY <1>1, <1>2, <1>3, <1>4 DEF NewRequest, Request, Requests

-----------------------------------------------------------------------------
(* How the queues move in an ordinary cycle.                               *)

\* The request queue: its head may leave, a new request may be added.
LEMMA ReqMoves ==
    ASSUME FetchInv, NEW bpu \in AtMostOne(Pcs), NEW lines, NEW mem, NEW w, NEW deq_ready,
           NEW fault_ready \in BOOLEAN, NEW mode, Fetch(bpu, lines, mem, w, deq_ready, fault_ready, mode)
    PROVE  LET p == Count(Pop(fault_ready))
               n == Len(req) - p
           IN  /\ req' \in Seq(Requests) /\ n \in Nat
               /\ Len(req') = n + Count(Enq(bpu, fault_ready))
               /\ \A i \in 1 .. n : req'[i] = req[i + p]
               /\ Enq(bpu, fault_ready) => req'[n + 1] = NewRequest(bpu)
<1> DEFINE rest == IF Pop(fault_ready) THEN Tail(req) ELSE req
<1>1. req \in Seq(Requests)
  BY DEF FetchInv, Types
<1>2. Pop(fault_ready) => req # <<>>
  BY IssueIs, ConsumeIs DEF Pop
<1>3. /\ rest \in Seq(Requests) /\ Len(rest) = Len(req) - Count(Pop(fault_ready))
      /\ Len(rest) \in Nat
      /\ \A i \in 1 .. Len(rest) : rest[i] = req[i + Count(Pop(fault_ready))]
  BY <1>1, <1>2, TailOf DEF Count
<1>4. req' = IF Enq(bpu, fault_ready) THEN Append(rest, NewRequest(bpu)) ELSE rest
  BY DEF Fetch, Pop, Enq, NewRequest, bpu_query_pc
<1>5. Enq(bpu, fault_ready) => NewRequest(bpu) \in Requests
  BY EnqIs
<1> HIDE DEF rest
<1>6. CASE Enq(bpu, fault_ready)
  <2>1. req' = Append(rest, NewRequest(bpu)) /\ NewRequest(bpu) \in Requests
    BY <1>4, <1>5, <1>6
  <2> HIDE DEF NewRequest, Enq
  <2> QED BY <2>1, <1>3, <1>6, AppendOf DEF Count
<1>7. CASE ~Enq(bpu, fault_ready)
  BY <1>3, <1>4, <1>7 DEF Count
<1> QED BY <1>6, <1>7

\* The in-flight queue: an answer removes its head, the request issued is added.
LEMMA InfMoves ==
    ASSUME FetchInv, NEW bpu, NEW lines, NEW mem, NEW w, NEW deq_ready, NEW fault_ready, NEW mode,
           Fetch(bpu, lines, mem, w, deq_ready, fault_ready, mode)
    PROVE  LET c == Count(rsp_capture)
               n == Len(inf) - c
           IN  /\ inf' \in Seq(Requests) /\ n \in Nat
               /\ Len(inf') = n + Count(req_issue_fire)
               /\ \A i \in 1 .. n : inf'[i] = inf[i + c]
               /\ req_issue_fire => inf'[n + 1] = req[1]
<1> DEFINE waiting == IF rsp_capture THEN Tail(inf) ELSE inf
<1>1. inf \in Seq(Requests) /\ req \in Seq(Requests)
  BY DEF FetchInv, Types
<1>2. rsp_capture => inf # <<>>
  BY CaptureIs
<1>3. /\ waiting \in Seq(Requests) /\ Len(waiting) = Len(inf) - Count(rsp_capture)
      /\ Len(waiting) \in Nat
      /\ \A i \in 1 .. Len(waiting) : waiting[i] = inf[i + Count(rsp_capture)]
  BY <1>1, <1>2, TailOf DEF Count
<1>4. inf' = IF req_issue_fire THEN Append(waiting, Head(req)) ELSE waiting
  BY DEF Fetch
<1>5. req_issue_fire => Head(req) = req[1] /\ req[1] \in Requests
  BY <1>1, IssueIs, TailOf
<1> HIDE DEF waiting
<1>6. CASE req_issue_fire
  <2>1. inf' = Append(waiting, req[1]) /\ req[1] \in Requests
    BY <1>4, <1>5, <1>6
  <2>2. Count(req_issue_fire) = 1
    BY <1>6 DEF Count
  <2>3. /\ inf' \in Seq(Requests) /\ Len(inf') = Len(waiting) + 1
        /\ inf'[Len(waiting) + 1] = req[1]
        /\ \A i \in 1 .. Len(waiting) : inf'[i] = waiting[i]
    BY <1>3, <2>1, AppendOf
  <2> QED BY <1>3, <2>2, <2>3
<1>7. CASE ~req_issue_fire
  BY <1>3, <1>4, <1>7 DEF Count
<1> QED BY <1>6, <1>7

\* The fetch queue: what is captured is never lost, and what leaves is the oldest of all.
LEMMA FqMoves ==
    ASSUME FetchInv, NEW bpu, NEW lines, NEW mem, NEW w, NEW deq_ready \in BOOLEAN, NEW fault_ready, NEW mode,
           Fetch(bpu, lines, mem, w, deq_ready, fault_ready, mode)
    PROVE  LET d == Count(deq_fire(deq_ready))
               n == Len(fq) + Count(rsp_capture) - d
           IN  /\ fq' \in Seq(Bundle) /\ n \in Nat /\ Len(fq') = n
               /\ \A i \in 1 .. n :
                    IF i + d <= Len(fq) THEN fq'[i] = fq[i + d]
                    ELSE /\ rsp_capture /\ i + d = Len(fq) + 1
                         /\ fq'[i].pc = inf[1].pc /\ fq'[i].npc = inf[1].npc
                         /\ fq'[i].code = inf[1].pc
               /\ next' = IF ~deq_fire(deq_ready) THEN next
                          ELSE IF fq # <<>> THEN fq[1].npc ELSE inf[1].npc
               /\ deq_fire(deq_ready) /\ fq = <<>> => rsp_capture
<1> DEFINE e == [pc |-> inf[1].pc, npc |-> inf[1].npc, code |-> inf[1].pc]
           all == fq \o Captured
<1>1. fq \in Seq(Bundle) /\ inf \in Seq(Requests) /\ FQ_DEPTH \in Nat
  BY Depths DEF FetchInv, Types
<1>2. Captured = IF rsp_capture THEN <<e>> ELSE <<>>
  BY CaptureIs
<1>3. rsp_capture => Len(inf) > 0 /\ inf[1] \in Requests
  BY <1>1, CaptureIs
<1>4. rsp_capture => e \in Bundle
  BY <1>3 DEF Requests, Bundle
<1>5. enq_ready(deq_ready) \/ ~rsp_capture
  BY <1>1, <1>3 DEF enq_ready, FetchInv, RoomForEveryAnswer
<1>6. (IF enq_ready(deq_ready) THEN fq \o Captured ELSE fq) = all
  BY <1>1, <1>2, <1>5
<1>7. fq' = IF deq_fire(deq_ready) THEN Tail(all) ELSE all
  BY <1>6 DEF Fetch, Queued
<1>8. /\ all \in Seq(Bundle) /\ Len(all) = Len(fq) + Count(rsp_capture)
      /\ \A i \in 1 .. Len(fq) : all[i] = fq[i]
      /\ rsp_capture => all[Len(fq) + 1] = e
  <2> HIDE DEF e
  <2>1. CASE rsp_capture
    <3>1. all = fq \o <<e>> /\ e \in Bundle
      BY <2>1, <1>2, <1>4
    <3>2. Len(all) = Len(fq) + 1 /\ all[Len(fq) + 1] = e /\ all \in Seq(Bundle)
      BY <3>1, <1>1
    <3> HIDE DEF all
    <3> QED BY <2>1, <3>2, <1>1, <3>1 DEF Count
  <2>2. CASE ~rsp_capture
    <3>1. all = fq
      BY <2>2, <1>1, <1>2
    <3> QED BY <2>2, <3>1, <1>1 DEF Count
  <2> QED BY <2>1, <2>2
<1>9. deq_fire(deq_ready) => all # <<>> /\ Offered = all
  BY <1>1, <1>2 DEF deq_fire, Offered
<1>10. e.pc = inf[1].pc /\ e.npc = inf[1].npc /\ e.code = inf[1].pc
  OBVIOUS
<1>11. next' = IF deq_fire(deq_ready) THEN Head(Offered).npc ELSE next
  BY DEF Fetch
<1> HIDE DEF e, all
<1>12. deq_fire(deq_ready) /\ fq = <<>> => rsp_capture
  BY <1>8, <1>9, <1>1 DEF Count
<1>13. CASE deq_fire(deq_ready)
  <2>1. /\ Tail(all) \in Seq(Bundle) /\ Len(Tail(all)) = Len(all) - 1 /\ Len(all) \in Nat \ {0}
        /\ Head(all) = all[1] /\ \A i \in 1 .. Len(all) - 1 : Tail(all)[i] = all[i + 1]
    BY <1>8, <1>9, <1>13, TailOf
  <2>2. fq' = Tail(all) /\ next' = all[1].npc
    BY <1>7, <1>9, <1>11, <1>13, <2>1
  <2>3. all[1].npc = IF fq # <<>> THEN fq[1].npc ELSE inf[1].npc
    BY <1>1, <1>8, <1>10, <1>12, <1>13
  <2>4. Count(deq_fire(deq_ready)) = 1
    BY <1>13 DEF Count
  <2>5. \A i \in 1 .. Len(all) - 1 :
          IF i + 1 <= Len(fq) THEN fq'[i] = fq[i + 1]
          ELSE /\ rsp_capture /\ i + 1 = Len(fq) + 1
               /\ fq'[i].pc = inf[1].pc /\ fq'[i].npc = inf[1].npc /\ fq'[i].code = inf[1].pc
    BY <1>1, <1>8, <1>10, <2>1, <2>2 DEF Count
  <2>6. Len(fq) + Count(rsp_capture) - Count(deq_fire(deq_ready)) = Len(all) - 1
    <3>1. Count(rsp_capture) \in Nat /\ Len(fq) \in Nat
      BY <1>1 DEF Count
    <3> QED BY <3>1, <1>8, <2>4
  <2>7. fq' \in Seq(Bundle) /\ Len(fq') = Len(all) - 1 /\ Len(all) - 1 \in Nat
    BY <2>1, <2>2
  <2>8. next' = IF ~deq_fire(deq_ready) THEN next ELSE IF fq # <<>> THEN fq[1].npc ELSE inf[1].npc
    BY <1>13, <2>2, <2>3
  <2> DEFINE d == Count(deq_fire(deq_ready))
             n == Len(fq) + Count(rsp_capture) - d
  <2>9. d = 1 /\ n = Len(all) - 1
    BY <2>4, <2>6
  <2> HIDE DEF d, n
  <2>10. \A i \in 1 .. n :
          IF i + d <= Len(fq) THEN fq'[i] = fq[i + d]
          ELSE /\ rsp_capture /\ i + d = Len(fq) + 1
               /\ fq'[i].pc = inf[1].pc /\ fq'[i].npc = inf[1].npc /\ fq'[i].code = inf[1].pc
    BY <2>5, <2>9
  <2>11. fq' \in Seq(Bundle) /\ n \in Nat /\ Len(fq') = n
    BY <2>7, <2>9
  <2> QED BY <1>12, <2>8, <2>10, <2>11 DEF d, n
<1>14. CASE ~deq_fire(deq_ready)
  <2>1. fq' = all /\ next' = next /\ Count(deq_fire(deq_ready)) = 0
    BY <1>7, <1>11, <1>14 DEF Count
  <2>2. \A i \in 1 .. Len(all) :
          IF i <= Len(fq) THEN fq'[i] = fq[i]
          ELSE /\ rsp_capture /\ i = Len(fq) + 1
               /\ fq'[i].pc = inf[1].pc /\ fq'[i].npc = inf[1].npc /\ fq'[i].code = inf[1].pc
    BY <1>1, <1>8, <1>10, <2>1 DEF Count
  <2>3. Len(fq) + Count(rsp_capture) - Count(deq_fire(deq_ready)) = Len(all)
    <3>1. Count(rsp_capture) \in Nat /\ Len(fq) \in Nat
      BY <1>1 DEF Count
    <3> QED BY <3>1, <1>8, <2>1
  <2> DEFINE d == Count(deq_fire(deq_ready))
             n == Len(fq) + Count(rsp_capture) - d
  <2>4. d = 0 /\ n = Len(all)
    BY <2>1, <2>3
  <2> HIDE DEF d, n
  <2>5. \A i \in 1 .. n :
          IF i + d <= Len(fq) THEN fq'[i] = fq[i + d]
          ELSE /\ rsp_capture /\ i + d = Len(fq) + 1
               /\ fq'[i].pc = inf[1].pc /\ fq'[i].npc = inf[1].npc /\ fq'[i].code = inf[1].pc
    BY <1>8, <2>2, <2>4
  <2>6. fq' \in Seq(Bundle) /\ n \in Nat /\ Len(fq') = n
    BY <1>8, <2>1, <2>4
  <2> QED BY <1>12, <1>14, <2>1, <2>5, <2>6 DEF d, n
<1> QED BY <1>13, <1>14

-----------------------------------------------------------------------------
(* The instruction cache.                                                  *)

IcRecords == [state : IcStates, pc : Pcs, lines : 0 .. MaxLines, context : BOOLEAN,
              req_killed : BOOLEAN, rsp : SUBSET Pcs]

\* A cycle in which the cache takes request [pc, lines].
LEMMA IcTakes ==
    ASSUME FetchInv, icache_ready(FALSE), NEW pc \in Pcs, NEW lines \in 0 .. MaxLines,
           NEW mem \in BOOLEAN, ic' = IcAfter({[pc |-> pc, lines |-> lines]}, mem, FALSE)
    PROVE  /\ ic' \in IcRecords
           /\ ic'.state = "LOOKUP" /\ ic'.pc = pc /\ ~ic'.req_killed
           /\ ic'.rsp = IF ic.state = "IDLE" \/ ic.req_killed THEN {} ELSE {ic.pc}
           /\ ic.state = "IDLE" \/ ic.state = "LOOKUP"
<1> DEFINE r == [pc |-> pc, lines |-> lines]
           rsp == IF ic.state = "IDLE" \/ ic.req_killed THEN {} ELSE {ic.pc}
<1>1. (CHOOSE x \in {r} : TRUE) = r /\ {r} # {} /\ r.pc = pc /\ r.lines = lines
  BY ChooseOnly
<1>2. ic.state = "IDLE" \/ (ic.state = "LOOKUP" /\ hit_all)
  BY DEF icache_ready
<1>3. ic' = Latched(pc, lines, rsp)
  <2> HIDE DEF r
  <2>1. CASE ic.state = "IDLE"
    BY <1>1, <2>1 DEF IcAfter, r
  <2>2. CASE ic.state = "LOOKUP" /\ hit_all
    BY <1>1, <2>2 DEF IcAfter, r
  <2> QED BY <1>2, <2>1, <2>2
<1>4. rsp \in SUBSET Pcs
  BY DEF FetchInv, Types
<1> HIDE DEF rsp
<1>5. ic'.state = "LOOKUP" /\ ic'.pc = pc /\ ic'.rsp = rsp
  <2>1. LET l == Latched(pc, lines, rsp) IN l.state = "LOOKUP" /\ l.pc = pc /\ l.rsp = rsp
    BY DEF Latched
  <2> QED BY <1>3, <2>1
<1>6. ~ic'.req_killed
  <2>1. ~Latched(pc, lines, rsp).req_killed
    BY DEF Latched
  <2> QED BY <1>3, <2>1
<1>7. ic' \in IcRecords
  <2>1. \A s \in IcStates, k \in BOOLEAN :
            [state |-> s, pc |-> pc, lines |-> lines, context |-> k,
             req_killed |-> k, rsp |-> rsp] \in IcRecords
    BY <1>4 DEF IcRecords
  <2>2. "LOOKUP" \in IcStates /\ FALSE \in BOOLEAN
    BY DEF IcStates
  <2> QED BY <1>3, <2>1, <2>2, Zenon DEF Latched
<1> QED BY <1>2, <1>5, <1>6, <1>7 DEF rsp

\* A cycle in which it takes none.
LEMMA IcWorks ==
    ASSUME FetchInv, NEW mem \in BOOLEAN, ic' = IcAfter({}, mem, FALSE)
    PROVE  /\ ic' \in IcRecords /\ MissHasLine'
           /\ ic'.pc = ic.pc /\ ic'.req_killed = ic.req_killed
           /\ ic.state = "IDLE" => ic'.state = "IDLE" /\ ic'.rsp = ic.rsp
           /\ ic.state = "LOOKUP" /\ hit_all =>
                ic'.state = "IDLE" /\ ic'.rsp = IF ic.req_killed THEN {} ELSE {ic.pc}
           /\ ic.state # "IDLE" /\ ~(ic.state = "LOOKUP" /\ hit_all) =>
                ic'.state # "IDLE" /\ ic'.rsp = {}
<1>1. ic \in IcRecords /\ MissHasLine
  BY DEF FetchInv, Types, IcRecords
<1>2. ic.state \in IcStates
  BY <1>1 DEF IcRecords
<1>3. ic.state # "LOOKUP" /\ ic.state # "IDLE" => ic.rsp = {}
  BY <1>1 DEF FetchInv, CacheLink, IcRecords
<1> USE DEF IcRecords, MissHasLine
<1>4. CASE ic.state = "IDLE"
  <2>1. ic' = [ic EXCEPT !.rsp = ic.rsp]
    BY <1>4 DEF IcAfter, Kept
  <2> QED BY <1>1, <1>4, <2>1
<1>5. CASE ic.state = "LOOKUP" /\ hit_all
  <2>1. ic' = [ic EXCEPT !.state = "IDLE", !.req_killed = ic.req_killed,
                         !.rsp = IF ic.req_killed THEN {} ELSE {ic.pc}]
    BY <1>1, <1>5 DEF IcAfter, Killed
  <2> DEFINE a == IF ic.req_killed THEN {} ELSE {ic.pc}
  <2>2. a \in SUBSET Pcs
    BY <1>1
  <2> HIDE DEF a
  <2>3. ic' = [ic EXCEPT !.state = "IDLE", !.req_killed = ic.req_killed, !.rsp = a]
    BY <2>1 DEF a
  <2>4. /\ ic' \in IcRecords /\ ic'.state = "IDLE" /\ ic'.pc = ic.pc
        /\ ic'.req_killed = ic.req_killed /\ ic'.rsp = a
    BY <1>1, <2>2, <2>3 DEF IcStates
  <2> QED BY <1>5, <2>4 DEF a
<1>6. CASE ic.state = "LOOKUP" /\ ~hit_all
  <2> DEFINE r == [ic EXCEPT !.state = "MISS_REQ", !.context = TRUE]
  <2>1. ic' = [r EXCEPT !.req_killed = ic.req_killed, !.rsp = {}]
    BY <1>1, <1>6 DEF IcAfter, Killed
  <2>2. r \in IcRecords /\ r.state = "MISS_REQ" /\ r.pc = ic.pc /\ r.lines = ic.lines
    BY <1>1 DEF IcStates
  <2> HIDE DEF r
  <2>3. /\ ic' \in IcRecords /\ ic'.state = "MISS_REQ" /\ ic'.lines = ic.lines
        /\ ic'.rsp = {} /\ ic'.pc = ic.pc /\ ic'.req_killed = ic.req_killed
    BY <1>1, <2>1, <2>2
  <2>4. ic.lines > 0
    BY <1>1, <1>6, Depths DEF hit_all
  <2> QED BY <1>6, <2>3, <2>4
<1>7. CASE ic.state = "MISS_REQ"
  <2>1. ic' = [ic EXCEPT !.state = IF mem THEN "MISS_WAIT_REFILL" ELSE @,
                         !.req_killed = ic.req_killed, !.rsp = {}]
    BY <1>1, <1>3, <1>7 DEF IcAfter, Killed, Kept
  <2> QED BY <1>1, <1>7, <2>1 DEF IcStates
<1>8. CASE ic.state = "MISS_WAIT_REFILL"
  <2> DEFINE r == [ic EXCEPT !.state = IF mem THEN "REFILL_RECOVER" ELSE @,
                             !.lines = IF mem /\ ic.context THEN @ - 1 ELSE @]
  <2>1. ic' = [r EXCEPT !.req_killed = ic.req_killed, !.rsp = {}]
    BY <1>1, <1>3, <1>8 DEF IcAfter, Killed, Kept
  <2>2. ic.lines - 1 \in 0 .. MaxLines
    BY <1>1, <1>8, Depths
  <2>3. /\ r \in IcRecords /\ r.state \in {"MISS_WAIT_REFILL", "REFILL_RECOVER"} /\ r.pc = ic.pc
        /\ r.state = "MISS_WAIT_REFILL" => r.lines = ic.lines
    BY <1>1, <1>8, <2>2 DEF IcStates
  <2> HIDE DEF r
  <2>4. ic' \in IcRecords /\ ic'.state = r.state /\ ic'.lines = r.lines /\ ic'.rsp = {} /\ ic'.pc = ic.pc /\ ic'.req_killed = ic.req_killed
    BY <1>1, <2>1, <2>3
  <2> QED BY <1>1, <1>8, <2>3, <2>4
<1>9. CASE ic.state = "REFILL_RECOVER"
  <2>1. ic' = [ic EXCEPT !.state = "LOOKUP", !.req_killed = ic.req_killed, !.rsp = {}]
    BY <1>1, <1>9 DEF IcAfter, Killed
  <2> QED BY <1>1, <1>9, <2>1 DEF IcStates
<1> QED BY <1>2, <1>4, <1>5, <1>6, <1>7, <1>8, <1>9 DEF IcStates

\* A flush: nothing is taken, no answer is left, and what the cache works on is killed.
LEMMA IcFlushed ==
    ASSUME FetchInv, NEW mem \in BOOLEAN, ic' = IcAfter({}, mem, TRUE)
    PROVE  ic' \in IcRecords /\ MissHasLine' /\ ic'.rsp = {} /\ (ic'.state # "IDLE" => ic'.req_killed)
<1>1. ic \in IcRecords /\ MissHasLine
  BY DEF FetchInv, Types, IcRecords
<1>2. ic.state \in IcStates
  BY <1>1 DEF IcRecords
<1> USE DEF IcRecords, MissHasLine
<1>4. CASE ic.state = "IDLE"
  <2>1. ic' = [ic EXCEPT !.rsp = {}]
    BY <1>4 DEF IcAfter, Kept
  <2> QED BY <1>1, <1>4, <2>1
<1>5. CASE ic.state = "LOOKUP" /\ hit_all
  <2>1. ic' = [ic EXCEPT !.state = "IDLE", !.req_killed = TRUE, !.rsp = {}]
    BY <1>1, <1>5 DEF IcAfter, Killed
  <2> QED BY <1>1, <1>5, <2>1 DEF IcStates
<1>6. CASE ic.state = "LOOKUP" /\ ~hit_all
  <2> DEFINE r == [ic EXCEPT !.state = "MISS_REQ", !.context = FALSE]
  <2>1. ic' = [r EXCEPT !.req_killed = TRUE, !.rsp = {}]
    BY <1>1, <1>6 DEF IcAfter, Killed
  <2>2. r \in IcRecords /\ r.state = "MISS_REQ" /\ r.pc = ic.pc /\ r.lines = ic.lines
    BY <1>1 DEF IcStates
  <2> HIDE DEF r
  <2>3. /\ ic' \in IcRecords /\ ic'.state = "MISS_REQ" /\ ic'.lines = ic.lines
        /\ ic'.rsp = {} /\ ic'.req_killed
    BY <1>1, <2>1, <2>2
  <2>4. ic.lines > 0
    BY <1>1, <1>6, Depths DEF hit_all
  <2> QED BY <1>6, <2>3, <2>4
<1>7. CASE ic.state = "MISS_REQ"
  <2>1. ic' = [ic EXCEPT !.state = IF mem THEN "MISS_WAIT_REFILL" ELSE @,
                         !.req_killed = TRUE, !.rsp = {}]
    BY <1>1, <1>7 DEF IcAfter, Killed, Kept
  <2> QED BY <1>1, <1>7, <2>1 DEF IcStates
<1>8. CASE ic.state = "MISS_WAIT_REFILL"
  <2> DEFINE r == [ic EXCEPT !.state = IF mem THEN "REFILL_RECOVER" ELSE @,
                             !.lines = IF mem /\ ic.context THEN @ - 1 ELSE @]
  <2>1. ic' = [r EXCEPT !.req_killed = TRUE, !.rsp = {}]
    BY <1>1, <1>8 DEF IcAfter, Killed, Kept
  <2>2. ic.lines - 1 \in 0 .. MaxLines
    BY <1>1, <1>8, Depths
  <2>3. /\ r \in IcRecords /\ r.state \in {"MISS_WAIT_REFILL", "REFILL_RECOVER"} /\ r.pc = ic.pc
        /\ r.state = "MISS_WAIT_REFILL" => r.lines = ic.lines
    BY <1>1, <1>8, <2>2 DEF IcStates
  <2> HIDE DEF r
  <2>4. ic' \in IcRecords /\ ic'.state = r.state /\ ic'.lines = r.lines /\ ic'.rsp = {} /\ ic'.req_killed
    BY <1>1, <2>1, <2>3
  <2> QED BY <1>1, <1>8, <2>3, <2>4
<1>9. CASE ic.state = "REFILL_RECOVER"
  <2>1. ic' = [ic EXCEPT !.state = "LOOKUP", !.req_killed = TRUE, !.rsp = {}]
    BY <1>1, <1>9 DEF IcAfter, Killed
  <2> QED BY <1>1, <1>9, <2>1 DEF IcStates
<1> QED BY <1>2, <1>4, <1>5, <1>6, <1>7, <1>8, <1>9 DEF IcStates

-----------------------------------------------------------------------------
(* An ordinary cycle keeps each link.                                      *)

OneCycle(bpu, lines, mem, w, deq_ready, fault_ready, mode) ==
    /\ bpu \in AtMostOne(Pcs) /\ lines \in 0 .. MaxLines /\ mem \in BOOLEAN
    /\ w \in WalkerChoices /\ deq_ready \in BOOLEAN /\ fault_ready \in BOOLEAN
    /\ mode \in BOOLEAN /\ (xlate => mode)
    /\ Fetch(bpu, lines, mem, w, deq_ready, fault_ready, mode)

\* The cache and the in-flight queue move together.
LEMMA CycleCache ==
    ASSUME FetchInv, NEW bpu, NEW lines, NEW mem, NEW w, NEW deq_ready, NEW fault_ready, NEW mode,
           OneCycle(bpu, lines, mem, w, deq_ready, fault_ready, mode)
    PROVE  ic' \in IcRecords /\ MissHasLine' /\ CacheLink'
<1> DEFINE c == Count(rsp_capture)
           n == Len(inf) - c
<1>1. /\ inf' \in Seq(Requests) /\ n \in Nat /\ Len(inf') = n + Count(req_issue_fire)
      /\ \A i \in 1 .. n : inf'[i] = inf[i + c]
      /\ req_issue_fire => inf'[n + 1] = req[1]
  BY InfMoves DEF OneCycle
<1>2. ic \in IcRecords /\ inf \in Seq(Requests)
  BY DEF FetchInv, Types, IcRecords
<1>3. /\ ic.state = "IDLE" \/ ic.req_killed => n = 0
      /\ ic.state # "IDLE" /\ ~ic.req_killed => n = 1 /\ inf[1 + c].pc = ic.pc
  <2>1. /\ rsp_capture <=> inf # <<>> /\ ic.rsp # {}
        /\ CacheLink /\ Len(inf) \in Nat /\ (inf = <<>> <=> Len(inf) = 0)
    BY <1>2, CaptureIs DEF FetchInv
  <2>2. CASE ic.state = "IDLE"
    <3>1. CASE Len(inf) = 0
      <4>1. Count(rsp_capture) = 0
        BY <2>1, <3>1 DEF Count
      <4> QED BY <2>2, <3>1, <4>1
    <3>2. CASE Len(inf) = 1 /\ ic.rsp = {inf[1].pc}
      BY <2>1, <2>2, <3>2 DEF Count
    <3> QED BY <2>1, <2>2, <3>1, <3>2 DEF CacheLink
  <2>3. CASE ic.state # "IDLE" /\ ic.req_killed
    BY <2>1, <2>3 DEF CacheLink, Count
  <2>4. CASE ic.state # "IDLE" /\ ~ic.req_killed
    <3>1. CASE Len(inf) = 1 /\ inf[1].pc = ic.pc /\ ic.rsp = {}
      BY <2>1, <2>4, <3>1 DEF Count
    <3>2. CASE Len(inf) = 2 /\ inf[2].pc = ic.pc /\ ic.rsp = {inf[1].pc}
      BY <2>1, <2>4, <3>2 DEF Count
    <3> QED BY <2>1, <2>4, <3>1, <3>2 DEF CacheLink
  <2> QED BY <2>2, <2>3, <2>4
<1>4. ic.state # "IDLE" /\ ~ic.req_killed => n = 1 /\ inf'[1].pc = ic.pc
  BY <1>1, <1>3
<1>5. Len(inf') = 0 => inf' = <<>>
  BY <1>1
<1>6. CASE req_issue_fire
  <2>1. /\ req # <<>> /\ issue_paddr = req[1].pc /\ icache_ready(FALSE)
    BY <1>6, IssueIs
  <2>2. req[1].pc \in Pcs
    <3>1. req \in Seq(Requests)
      BY DEF FetchInv, Types
    <3>2. req[1] \in Requests
      BY <2>1, <3>1, TailOf
    <3> QED BY <3>2 DEF Requests
  <2>3. ic' = IcAfter({[pc |-> req[1].pc, lines |-> lines]}, mem, FALSE)
    BY <1>6, <2>1 DEF OneCycle, Fetch
  <2>4. /\ ic' \in IcRecords
        /\ ic'.state = "LOOKUP" /\ ic'.pc = req[1].pc /\ ~ic'.req_killed
        /\ ic'.rsp = IF ic.state = "IDLE" \/ ic.req_killed THEN {} ELSE {ic.pc}
    BY <2>1, <2>2, <2>3, IcTakes DEF OneCycle
  <2>5. Len(inf') = n + 1 /\ inf'[n + 1].pc = ic'.pc
    BY <1>1, <1>6, <2>4 DEF Count
  <2> HIDE DEF c, n
  <2>6. CacheLink'
    <3>1. CASE ic.state = "IDLE" \/ ic.req_killed
      BY <3>1, <1>3, <2>4, <2>5 DEF CacheLink
    <3>2. CASE ~(ic.state = "IDLE" \/ ic.req_killed)
      BY <3>2, <1>4, <2>4, <2>5 DEF CacheLink
    <3> QED BY <3>1, <3>2
  <2>7. MissHasLine'
    BY <2>4 DEF MissHasLine
  <2> QED BY <2>4, <2>6, <2>7
<1>7. CASE ~req_issue_fire
  <2>1. ic' = IcAfter({}, mem, FALSE) /\ mem \in BOOLEAN
    BY <1>7 DEF OneCycle, Fetch
  <2>2. /\ ic' \in IcRecords /\ MissHasLine'
        /\ ic'.pc = ic.pc /\ ic'.req_killed = ic.req_killed
        /\ ic.state = "IDLE" => ic'.state = "IDLE" /\ ic'.rsp = ic.rsp
        /\ ic.state = "LOOKUP" /\ hit_all =>
             ic'.state = "IDLE" /\ ic'.rsp = IF ic.req_killed THEN {} ELSE {ic.pc}
        /\ ic.state # "IDLE" /\ ~(ic.state = "LOOKUP" /\ hit_all) =>
             ic'.state # "IDLE" /\ ic'.rsp = {}
    BY <2>1, IcWorks
  <2>3. Len(inf') = n
    BY <1>1, <1>7 DEF Count
  <2> HIDE DEF c, n
  <2>4. CacheLink'
    <3>1. CASE ic.state = "IDLE"
      BY <3>1, <1>3, <1>5, <2>2, <2>3 DEF CacheLink
    <3>2. CASE ic.state # "IDLE" /\ ic.req_killed
      BY <3>2, <1>3, <1>5, <2>2, <2>3 DEF CacheLink
    <3>3. CASE ic.state # "IDLE" /\ ~ic.req_killed
      BY <3>3, <1>4, <2>2, <2>3 DEF CacheLink
    <3> QED BY <3>1, <3>2, <3>3
  <2> QED BY <2>2, <2>4
<1> QED BY <1>6, <1>7

\* The oldest request stays the oldest unless it is issued or its fault is consumed.
LEMMA OldestStays ==
    ASSUME FetchInv, NEW bpu, NEW lines, NEW mem, NEW w, NEW deq_ready, NEW fault_ready, NEW mode,
           OneCycle(bpu, lines, mem, w, deq_ready, fault_ready, mode), req # <<>>, ~Pop(fault_ready)
    PROVE  req' # <<>> /\ req'[1] = req[1]
<1>1. /\ req' \in Seq(Requests)
      /\ Len(req') = Len(req) - Count(Pop(fault_ready)) + Count(Enq(bpu, fault_ready))
      /\ \A i \in 1 .. Len(req) - Count(Pop(fault_ready)) : req'[i] = req[i + Count(Pop(fault_ready))]
  BY ReqMoves DEF OneCycle
<1>2. Count(Pop(fault_ready)) = 0 /\ Count(Enq(bpu, fault_ready)) \in Nat
  BY DEF Count
<1>3. req \in Seq(Requests) /\ Len(req) \in Nat \ {0}
  BY DEF FetchInv, Types
<1>4. Len(req') > 0
  BY <1>1, <1>2, <1>3
<1>5. req'[1] = req[1]
  BY <1>1, <1>2, <1>3
<1> QED BY <1>1, <1>4, <1>5

\* The walker's answer is for the walk under way, or for the request just made.
LEMMA WalkerMoves ==
    ASSUME FetchInv, NEW w \in WalkerChoices
    PROVE  /\ w \in [walk : SUBSET Pcs, resp : SUBSET Answered]
           /\ \A p : walker.walk = {p} \/ (walker.walk = {} /\ mmu.state = "MMU_ST_REQ" /\ p = req[1].pc) =>
                \/ w.walk = {p} /\ w.resp = {}
                \/ w.walk = {} /\ \E f \in BOOLEAN : w.resp = {[pc |-> p, page_fault |-> f]}
<1> DEFINE target == IF ~mmu_req_ready THEN walker.walk
                     ELSE IF mmu.state = "MMU_ST_REQ" THEN {Head(req).pc} ELSE {}
<1>1. \/ w = [walk |-> target, resp |-> {}]
      \/ \E p \in target, f \in PageFaults : w = [walk |-> {}, resp |-> {[pc |-> p, page_fault |-> f]}]
  BY DEF WalkerChoices
<1>2. target \in SUBSET Pcs
  <2>1. walker.walk \in SUBSET Pcs /\ req \in Seq(Requests)
    BY DEF FetchInv, Types
  <2>2. mmu.state = "MMU_ST_REQ" => Head(req).pc \in Pcs
    <3>1. mmu.state = "MMU_ST_REQ" => req # <<>>
      BY DEF FetchInv, WalkLink
    <3>2. mmu.state = "MMU_ST_REQ" => Head(req) \in Requests
      BY <2>1, <3>1, TailOf
    <3> QED BY <3>2 DEF Requests
  <2> QED BY <2>1, <2>2
<1>3. \A p : walker.walk = {p} \/ (walker.walk = {} /\ mmu.state = "MMU_ST_REQ" /\ p = req[1].pc)
             => target = {p}
  <2>1. Head(req) = req[1] \/ mmu.state # "MMU_ST_REQ"
    <3>1. mmu.state = "MMU_ST_REQ" => req # <<>> /\ req \in Seq(Requests)
      BY DEF FetchInv, WalkLink, Types
    <3> QED BY <3>1, TailOf
  <2> QED BY <2>1 DEF mmu_req_ready
<1>4. PageFaults \subseteq BOOLEAN
  BY Depths
<1> HIDE DEF target
<1>5. CASE w = [walk |-> target, resp |-> {}]
  <2>1. w.walk = target /\ w.resp = {} /\ w \in [walk : SUBSET Pcs, resp : SUBSET Answered]
    BY <1>2, <1>5
  <2> QED BY <1>3, <2>1
<1>6. ASSUME NEW p \in target, NEW f \in PageFaults,
             w = [walk |-> {}, resp |-> {[pc |-> p, page_fault |-> f]}]
      PROVE  /\ w \in [walk : SUBSET Pcs, resp : SUBSET Answered]
             /\ \A q : target = {q} => w.walk = {} /\ w.resp = {[pc |-> q, page_fault |-> f]}
  <2>1. [pc |-> p, page_fault |-> f] \in Answered
    BY <1>2, <1>4 DEF Answered
  <2>2. {[pc |-> p, page_fault |-> f]} \in SUBSET Answered
    BY <2>1
  <2>3. w.walk = {} /\ w.resp = {[pc |-> p, page_fault |-> f]}
    BY <1>6
  <2>4. w \in [walk : SUBSET Pcs, resp : SUBSET Answered]
    BY <1>6, <2>2
  <2> QED BY <2>3, <2>4
<1> QED BY <1>1, <1>3, <1>4, <1>5, <1>6

\* Translation and fault: an abandoned walk is never taken for that of the oldest request.
LEMMA CycleWalk ==
    ASSUME FetchInv, NEW bpu, NEW lines, NEW mem, NEW w, NEW deq_ready, NEW fault_ready, NEW mode,
           OneCycle(bpu, lines, mem, w, deq_ready, fault_ready, mode)
    PROVE  /\ mmu' \in [state : MmuStates, paddr : Pcs]
           /\ walker' \in [walk : SUBSET Pcs, resp : SUBSET Answered]
           /\ fault' \in [pending : BOOLEAN, wait_flush : BOOLEAN, pc : Pcs]
           /\ WalkLink' /\ FaultLink'
<1>1. /\ mmu' = MmuAfter /\ walker' = w /\ fault' = FaultAfter(fault_ready)
      /\ xlate' = mode /\ (xlate => mode)
      /\ w \in WalkerChoices /\ fault_ready \in BOOLEAN
  BY DEF OneCycle, Fetch
<1>2. /\ mmu \in [state : MmuStates, paddr : Pcs] /\ xlate \in BOOLEAN /\ req \in Seq(Requests)
      /\ fault \in [pending : BOOLEAN, wait_flush : BOOLEAN, pc : Pcs] /\ WalkLink /\ FaultLink
  BY DEF FetchInv, Types
<1>3. /\ w \in [walk : SUBSET Pcs, resp : SUBSET Answered]
      /\ \A p : walker.walk = {p} \/ (walker.walk = {} /\ mmu.state = "MMU_ST_REQ" /\ p = req[1].pc) =>
           \/ w.walk = {p} /\ w.resp = {}
           \/ w.walk = {} /\ \E f \in BOOLEAN : w.resp = {[pc |-> p, page_fault |-> f]}
  BY <1>1, WalkerMoves
<1>4. req # <<>> => Head(req) = req[1] /\ req[1].pc \in Pcs
  <2>1. req # <<>> => Head(req) = req[1] /\ req[1] \in Requests
    BY <1>2, TailOf
  <2> QED BY <2>1 DEF Requests
<1>5. req # <<>> /\ ~Pop(fault_ready) => req' # <<>> /\ req'[1] = req[1]
  BY OldestStays
<1>6. Pop(fault_ready) => \/ ~fault.pending /\ ~fault.wait_flush /\ (xlate => mmu.state = "MMU_ST_READY")
                          \/ fault.pending /\ fault.wait_flush
  BY <1>1, IssueIs, ConsumeIs DEF Pop
<1>7. ~mmu_page_fault =>
        /\ fault' \in [pending : BOOLEAN, wait_flush : BOOLEAN, pc : Pcs]
        /\ fault'.wait_flush = fault.wait_flush /\ fault'.pc = fault.pc
        /\ fault'.pending => fault.pending /\ ~fault_consume(fault_ready)
  <2> SUFFICES ASSUME ~mmu_page_fault
               PROVE  /\ fault' \in [pending : BOOLEAN, wait_flush : BOOLEAN, pc : Pcs]
                      /\ fault'.wait_flush = fault.wait_flush /\ fault'.pc = fault.pc
                      /\ fault'.pending => fault.pending /\ ~fault_consume(fault_ready)
    OBVIOUS
  <2> DEFINE b == fault.pending /\ ~fault_consume(fault_ready)
  <2>1. fault' = [fault EXCEPT !.pending = b]
    BY <1>1 DEF FaultAfter
  <2>2. b \in BOOLEAN
    OBVIOUS
  <2> HIDE DEF b
  <2>3. /\ fault' \in [pending : BOOLEAN, wait_flush : BOOLEAN, pc : Pcs]
        /\ fault'.wait_flush = fault.wait_flush /\ fault'.pc = fault.pc /\ fault'.pending = b
    BY <1>2, <2>1, <2>2
  <2> QED BY <2>3 DEF b
<1>8. ~mmu_page_fault => FaultLink'
  <2> SUFFICES ASSUME ~mmu_page_fault, fault'.pending
               PROVE  fault'.wait_flush /\ req' # <<>> /\ fault'.pc = req'[1].pc
    BY DEF FaultLink
  <2>1. fault.pending /\ ~fault_consume(fault_ready)
    BY <1>7
  <2>2. fault.wait_flush /\ req # <<>> /\ fault.pc = req[1].pc
    BY <1>2, <2>1 DEF FaultLink
  <2>3. ~Pop(fault_ready)
    BY <2>1, IssueIs DEF Pop
  <2> QED BY <1>5, <1>7, <2>2, <2>3
<1>9. CASE mmu.state = "MMU_ST_IDLE" \/ ~xlate
  <2>1. ~mmu_page_fault
    BY <1>9 DEF mmu_page_fault
  <2>2. mmu.state = "MMU_ST_IDLE"
    BY <1>2, <1>9 DEF WalkLink
  <2>3. CASE xlate /\ can_issue_req
    <3>1. mmu' = [mmu EXCEPT !.state = "MMU_ST_REQ"]
      BY <1>1, <2>2, <2>3 DEF MmuAfter
    <3>2. mmu' \in [state : MmuStates, paddr : Pcs] /\ mmu'.state = "MMU_ST_REQ"
      BY <1>2, <3>1 DEF MmuStates
    <3>3. ~fault.wait_flush /\ ~fault.pending /\ req # <<>>
      BY <2>3 DEF can_issue_req
    <3>4. ~Pop(fault_ready)
      BY <1>6, <2>2, <2>3, <3>3
    <3>5. WalkLink'
      BY <1>1, <1>5, <1>7, <2>1, <2>3, <3>2, <3>3, <3>4 DEF WalkLink
    <3> QED BY <1>1, <1>3, <1>7, <1>8, <2>1, <3>2, <3>5
  <2>4. CASE ~(xlate /\ can_issue_req)
    <3>1. mmu' = [mmu EXCEPT !.state = "MMU_ST_IDLE"] \/ mmu' = mmu
      BY <1>1, <2>2, <2>4 DEF MmuAfter
    <3>2. mmu' \in [state : MmuStates, paddr : Pcs] /\ mmu'.state = "MMU_ST_IDLE"
      BY <1>2, <2>2, <3>1 DEF MmuStates
    <3>3. WalkLink'
      BY <3>2 DEF WalkLink
    <3> QED BY <1>1, <1>3, <1>7, <1>8, <2>1, <3>2, <3>3
  <2> QED BY <2>3, <2>4
<1>10. CASE mmu.state = "MMU_ST_REQ" /\ xlate
  <2>1. ~mmu_page_fault
    BY <1>10 DEF mmu_page_fault
  <2>2. req # <<>> /\ ~fault.wait_flush /\ ~fault.pending
    BY <1>2, <1>10 DEF WalkLink, FaultLink
  <2>3. ~Pop(fault_ready)
    BY <1>6, <1>10, <2>2
  <2>4. CASE mmu_req_ready
    <3>1. mmu' = [mmu EXCEPT !.state = "MMU_ST_WAIT"]
      BY <1>1, <1>10, <2>4 DEF MmuAfter
    <3>2. mmu' \in [state : MmuStates, paddr : Pcs] /\ mmu'.state = "MMU_ST_WAIT"
      BY <1>2, <3>1 DEF MmuStates
    <3>3. \/ w.walk = {req[1].pc} /\ w.resp = {}
          \/ w.walk = {} /\ \E f \in BOOLEAN : w.resp = {[pc |-> req[1].pc, page_fault |-> f]}
      BY <1>3, <1>10, <2>4 DEF mmu_req_ready
    <3>4. WalkLink'
      BY <1>1, <1>5, <1>7, <1>10, <2>1, <2>2, <2>3, <3>2, <3>3 DEF WalkLink
    <3> QED BY <1>1, <1>3, <1>7, <1>8, <2>1, <3>2, <3>4
  <2>5. CASE ~mmu_req_ready
    <3>1. mmu' = mmu
      BY <1>1, <1>10, <2>5 DEF MmuAfter
    <3>2. WalkLink'
      BY <1>1, <1>5, <1>7, <1>10, <2>1, <2>2, <2>3, <3>1 DEF WalkLink
    <3> QED BY <1>1, <1>2, <1>3, <1>7, <1>8, <2>1, <3>1, <3>2
  <2> QED BY <2>4, <2>5
<1>11. CASE mmu.state = "MMU_ST_WAIT" /\ xlate
  <2>1. req # <<>> /\ ~fault.wait_flush /\ ~fault.pending
    BY <1>2, <1>11 DEF WalkLink, FaultLink
  <2>2. ~Pop(fault_ready)
    BY <1>6, <1>11, <2>1
  <2>3. CASE walker.walk = {req[1].pc} /\ walker.resp = {}
    <3>1. ~mmu_page_fault
      BY <2>3 DEF mmu_page_fault
    <3>2. mmu' = mmu
      BY <1>1, <1>11, <2>3 DEF MmuAfter
    <3>3. \/ w.walk = {req[1].pc} /\ w.resp = {}
          \/ w.walk = {} /\ \E f \in BOOLEAN : w.resp = {[pc |-> req[1].pc, page_fault |-> f]}
      BY <1>3, <2>3
    <3>4. WalkLink'
      BY <1>1, <1>5, <1>7, <1>11, <2>1, <2>2, <3>1, <3>2, <3>3 DEF WalkLink
    <3> QED BY <1>1, <1>2, <1>3, <1>7, <1>8, <3>1, <3>2, <3>4
  <2>4. ASSUME NEW f \in BOOLEAN, walker.walk = {}, walker.resp = {[pc |-> req[1].pc, page_fault |-> f]}
        PROVE  /\ mmu' \in [state : MmuStates, paddr : Pcs]
               /\ fault' \in [pending : BOOLEAN, wait_flush : BOOLEAN, pc : Pcs]
               /\ WalkLink' /\ FaultLink'
    <3> DEFINE r == [pc |-> req[1].pc, page_fault |-> f]
    <3>1. (CHOOSE x \in walker.resp : TRUE) = r /\ walker.resp # {} /\ r.pc = req[1].pc
      BY <2>4, ChooseOnly
    <3>2. r.page_fault <=> f
      OBVIOUS
    <3>3. mmu_page_fault <=> f
      BY <1>11, <2>4, <3>2 DEF mmu_page_fault
    <3> HIDE DEF r
    <3>4. CASE f
      <4>1. mmu' = [mmu EXCEPT !.state = "MMU_ST_IDLE"]
        BY <1>1, <1>11, <3>1, <3>2, <3>4 DEF MmuAfter
      <4>2. mmu' \in [state : MmuStates, paddr : Pcs] /\ mmu'.state = "MMU_ST_IDLE"
        BY <1>2, <4>1 DEF MmuStates
      <4>3. fault' = [pending |-> TRUE, wait_flush |-> TRUE, pc |-> req[1].pc]
        BY <1>1, <1>4, <2>1, <3>3, <3>4 DEF FaultAfter
      <4>4. /\ fault' \in [pending : BOOLEAN, wait_flush : BOOLEAN, pc : Pcs]
            /\ fault'.wait_flush /\ fault'.pc = req[1].pc
        BY <1>4, <2>1, <4>3
      <4> QED BY <1>5, <2>1, <2>2, <4>2, <4>4 DEF WalkLink, FaultLink
    <3>5. CASE ~f
      <4>1. mmu' = [state |-> "MMU_ST_READY", paddr |-> r.pc]
        BY <1>1, <1>11, <3>1, <3>2, <3>5 DEF MmuAfter
      <4>2. /\ mmu' \in [state : MmuStates, paddr : Pcs] /\ mmu'.state = "MMU_ST_READY"
            /\ mmu'.paddr = req[1].pc
        BY <1>4, <2>1, <3>1, <4>1 DEF MmuStates
      <4>3. WalkLink'
        BY <1>1, <1>5, <1>7, <1>11, <2>1, <2>2, <3>3, <3>5, <4>2 DEF WalkLink
      <4> QED BY <1>7, <1>8, <3>3, <3>5, <4>2, <4>3
    <3> QED BY <3>4, <3>5
  <2> QED BY <1>1, <1>2, <1>3, <1>11, <2>3, <2>4 DEF WalkLink
<1>12. CASE mmu.state = "MMU_ST_READY" /\ xlate
  <2>1. ~mmu_page_fault
    BY <1>12 DEF mmu_page_fault
  <2>2. req # <<>> /\ ~fault.wait_flush /\ ~fault.pending /\ mmu.paddr = req[1].pc
    BY <1>2, <1>12 DEF WalkLink, FaultLink
  <2>3. CASE req_issue_fire
    <3>1. mmu' = [mmu EXCEPT !.state = "MMU_ST_IDLE"]
      BY <1>1, <1>12, <2>3 DEF MmuAfter
    <3>2. mmu' \in [state : MmuStates, paddr : Pcs] /\ mmu'.state = "MMU_ST_IDLE"
      BY <1>2, <3>1 DEF MmuStates
    <3>3. WalkLink'
      BY <3>2 DEF WalkLink
    <3> QED BY <1>1, <1>3, <1>7, <1>8, <2>1, <3>2, <3>3
  <2>4. CASE ~req_issue_fire
    <3>1. mmu' = mmu
      BY <1>1, <1>12, <2>4 DEF MmuAfter
    <3>2. ~Pop(fault_ready)
      BY <2>2, <2>4, ConsumeIs, <1>1 DEF Pop
    <3>3. WalkLink'
      BY <1>1, <1>5, <1>7, <1>12, <2>1, <2>2, <3>1, <3>2 DEF WalkLink
    <3> QED BY <1>1, <1>2, <1>3, <1>7, <1>8, <2>1, <3>1, <3>3
  <2> QED BY <2>3, <2>4
<1> QED BY <1>2, <1>9, <1>10, <1>11, <1>12 DEF MmuStates

\* How many leave and come: p and c of the heads, e and s at the ends, f with a fault.
LEMMA CycleCounts ==
    ASSUME FetchInv, NEW fault_ready \in BOOLEAN
    PROVE  /\ Count(Pop(fault_ready)) = Count(req_issue_fire) + Count(fault_consume(fault_ready))
           /\ Count(rsp_capture) + Count(fault_consume(fault_ready)) <= 1
<1>1. CASE fault_consume(fault_ready)
  BY <1>1, ConsumeIs DEF Pop, Count
<1>2. CASE ~fault_consume(fault_ready)
  BY <1>2 DEF Pop, Count
<1> QED BY <1>1, <1>2

\* The identifiers: one is freed as its request leaves, and a fresh one is given out.
LEMMA CycleIds ==
    ASSUME FetchInv, NEW bpu, NEW lines, NEW mem, NEW w, NEW deq_ready, NEW fault_ready, NEW mode,
           OneCycle(bpu, lines, mem, w, deq_ready, fault_ready, mode)
    PROVE  ftq' \subseteq FtqIds /\ IdLink'
<1> DEFINE p == Count(Pop(fault_ready))
           c == Count(rsp_capture)
           e == Count(Enq(bpu, fault_ready))
           s == Count(req_issue_fire)
           f == Count(fault_consume(fault_ready))
<1>a. /\ p = 0 \/ p = 1
      /\ c = 0 \/ c = 1
      /\ e = 0 \/ e = 1
      /\ s = 0 \/ s = 1
      /\ f = 0 \/ f = 1
  BY DEF Count
<1>b. /\ (p = 1 <=> Pop(fault_ready)) /\ (c = 1 <=> rsp_capture)
      /\ (e = 1 <=> Enq(bpu, fault_ready)) /\ (s = 1 <=> req_issue_fire)
      /\ (f = 1 <=> fault_consume(fault_ready))
  BY DEF Count
<1>c. p = s + f /\ c + f <= 1
  BY CycleCounts DEF OneCycle
<1>d. /\ req' \in Seq(Requests) /\ Len(req) - p \in Nat /\ Len(req') = Len(req) - p + e
      /\ \A i \in 1 .. Len(req) - p : req'[i] = req[i + p]
      /\ Enq(bpu, fault_ready) => req'[Len(req) - p + 1] = NewRequest(bpu)
  BY ReqMoves DEF OneCycle
<1>e. /\ inf' \in Seq(Requests) /\ Len(inf) - c \in Nat /\ Len(inf') = Len(inf) - c + s
      /\ \A i \in 1 .. Len(inf) - c : inf'[i] = inf[i + c]
      /\ req_issue_fire => inf'[Len(inf) - c + 1] = req[1]
  BY InfMoves DEF OneCycle
<1> HIDE DEF p, c, e, s, f
<1>n. p \in Nat /\ c \in Nat /\ e \in Nat /\ s \in Nat /\ f \in Nat
  BY <1>a
<1>g. Len(req') = Len(req) - p + e /\ Len(inf') = Len(inf) - c + s
  BY <1>d, <1>e
<1>2. Len(req) \in Nat /\ Len(inf) \in Nat
  BY DEF FetchInv, Types
<1> DEFINE id == Min(FtqIds \ ftq)
           free == IF f = 1 THEN {req[1].id} ELSE IF c = 1 THEN {inf[1].id} ELSE {}
<1>3. e = 1 => /\ id \in FtqIds /\ id \notin ftq
               /\ NewRequest(bpu).id = id /\ NewRequest(bpu).epoch = fetch_epoch
  <2>1. e = 1 => Enq(bpu, fault_ready)
    BY <1>b
  <2> QED BY <2>1, EnqIs DEF OneCycle
<1>4. ftq' = (ftq \ free) \cup (IF e = 1 THEN {id} ELSE {})
  <2>1. ftq' = (ftq \ ftq_free(fault_ready)) \cup (IF Enq(bpu, fault_ready) THEN {id} ELSE {})
    BY DEF OneCycle, Fetch, Enq, Pop
  <2>2. /\ (e = 1 <=> Enq(bpu, fault_ready)) /\ (c = 1 <=> rsp_capture)
        /\ (f = 1 <=> fault_consume(fault_ready))
    BY <1>b
  <2>3. (f = 1 => Head(req) = req[1]) /\ (c = 1 => Head(inf) = inf[1])
    BY <1>a, <1>c, <1>d, <1>e, <1>2
  <2>4. ftq_free(fault_ready) = free
    BY <2>2, <2>3 DEF ftq_free
  <2> QED BY <2>1, <2>2, <2>4
<1>5. /\ ftq = {req[i].id : i \in 1 .. Len(req)} \cup {inf[i].id : i \in 1 .. Len(inf)}
      /\ \A i, j \in 1 .. Len(req) : i # j => req[i].id # req[j].id
      /\ \A i, j \in 1 .. Len(inf) : i # j => inf[i].id # inf[j].id
      /\ \A i \in 1 .. Len(req), j \in 1 .. Len(inf) : req[i].id # inf[j].id
      /\ Cardinality(ftq) = Len(req) + Len(inf)
      /\ \A i \in 1 .. Len(req) : req[i].epoch = fetch_epoch
      /\ \A i \in 1 .. Len(inf) : inf[i].epoch = fetch_epoch
      /\ ftq \subseteq FtqIds
  BY DEF FetchInv, IdLink, Types
<1> HIDE DEF id
<1>5c. Cardinality(ftq) = Len(req) + Len(inf)
  BY <1>5
<1>5d. /\ \A i, j \in 1 .. Len(req) : i # j => req[i].id # req[j].id
       /\ \A i, j \in 1 .. Len(inf) : i # j => inf[i].id # inf[j].id
       /\ \A i \in 1 .. Len(req), j \in 1 .. Len(inf) : req[i].id # inf[j].id
  BY <1>5
<1>6. /\ \A i \in 1 .. Len(req) : req[i].id \in ftq
      /\ \A i \in 1 .. Len(inf) : inf[i].id \in ftq
      /\ \A x \in ftq : \/ \E i \in 1 .. Len(req) : x = req[i].id
                        \/ \E i \in 1 .. Len(inf) : x = inf[i].id
  BY <1>5
\* Where each request after the cycle comes from.
<1>7. \A i \in 1 .. Len(req') :
        \/ i + p \in 1 .. Len(req) /\ i + p > p /\ req'[i] = req[i + p]
        \/ e = 1 /\ i = Len(req') /\ req'[i] = NewRequest(bpu)
  <2> SUFFICES ASSUME NEW i \in 1 .. Len(req')
               PROVE  \/ i + p \in 1 .. Len(req) /\ i + p > p /\ req'[i] = req[i + p]
                      \/ e = 1 /\ i = Len(req') /\ req'[i] = NewRequest(bpu)
    OBVIOUS
  <2>1. CASE i <= Len(req) - p
    <3>1. i \in 1 .. Len(req) - p
      BY <1>d, <2>1
    <3>2. req'[i] = req[i + p]
      BY <1>d, <3>1
    <3> QED BY <1>n, <1>2, <2>1, <3>2
  <2>2. CASE ~(i <= Len(req) - p)
    <3>1. e = 1 /\ i = Len(req) - p + 1 /\ i = Len(req')
      BY <1>a, <1>n, <1>g, <1>2, <2>2
    <3> QED BY <1>b, <1>d, <3>1
  <2> QED BY <2>1, <2>2
<1>8. \A i \in 1 .. Len(inf') :
        \/ i + c \in 1 .. Len(inf) /\ i + c > c /\ inf'[i] = inf[i + c]
        \/ s = 1 /\ p = 1 /\ f = 0 /\ i = Len(inf') /\ 1 \in 1 .. Len(req) /\ inf'[i] = req[1]
  <2>1. s = 1 => p = 1 /\ f = 0 /\ 1 \in 1 .. Len(req)
    BY <1>a, <1>c, <1>d, <1>2
  <2> SUFFICES ASSUME NEW i \in 1 .. Len(inf')
               PROVE  \/ i + c \in 1 .. Len(inf) /\ i + c > c /\ inf'[i] = inf[i + c]
                      \/ s = 1 /\ i = Len(inf') /\ inf'[i] = req[1]
    BY <2>1
  <2>2. CASE i \in 1 .. Len(inf) - c
    BY <1>a, <1>e, <1>2, <2>2
  <2>3. CASE s = 1 /\ i = Len(inf) - c + 1
    BY <1>b, <1>e, <2>3
  <2> QED BY <1>a, <1>e, <1>2, <2>2, <2>3
<1>9. \A i, j \in 1 .. Len(req') : i # j => req'[i].id # req'[j].id
  <2> SUFFICES ASSUME NEW i \in 1 .. Len(req'), NEW j \in 1 .. Len(req'), i # j
               PROVE  req'[i].id # req'[j].id
    OBVIOUS
  <2>1. CASE i + p \in 1 .. Len(req) /\ req'[i] = req[i + p] /\ j + p \in 1 .. Len(req) /\ req'[j] = req[j + p]
    <3>1. i + p # j + p
      BY <1>a
    <3> QED BY <2>1, <3>1, <1>5d
  <2>2. CASE i + p \in 1 .. Len(req) /\ req'[i] = req[i + p] /\ e = 1 /\ req'[j] = NewRequest(bpu)
    BY <2>2, <1>3, <1>6
  <2>3. CASE j + p \in 1 .. Len(req) /\ req'[j] = req[j + p] /\ e = 1 /\ req'[i] = NewRequest(bpu)
    BY <2>3, <1>3, <1>6
  <2> QED BY <1>7, <2>1, <2>2, <2>3
<1>10. \A i, j \in 1 .. Len(inf') : i # j => inf'[i].id # inf'[j].id
  <2> SUFFICES ASSUME NEW i \in 1 .. Len(inf'), NEW j \in 1 .. Len(inf'), i # j
               PROVE  inf'[i].id # inf'[j].id
    OBVIOUS
  <2>1. CASE i + c \in 1 .. Len(inf) /\ inf'[i] = inf[i + c] /\ j + c \in 1 .. Len(inf) /\ inf'[j] = inf[j + c]
    <3>1. i + c # j + c
      BY <1>a
    <3> QED BY <2>1, <3>1, <1>5d
  <2>2. CASE i + c \in 1 .. Len(inf) /\ inf'[i] = inf[i + c] /\ 1 \in 1 .. Len(req) /\ inf'[j] = req[1]
    BY <2>2, <1>5d
  <2>3. CASE j + c \in 1 .. Len(inf) /\ inf'[j] = inf[j + c] /\ 1 \in 1 .. Len(req) /\ inf'[i] = req[1]
    BY <2>3, <1>5d
  <2> QED BY <1>8, <2>1, <2>2, <2>3
<1>11. \A i \in 1 .. Len(req'), j \in 1 .. Len(inf') : req'[i].id # inf'[j].id
  <2> SUFFICES ASSUME NEW i \in 1 .. Len(req'), NEW j \in 1 .. Len(inf')
               PROVE  req'[i].id # inf'[j].id
    OBVIOUS
  <2>1. \/ i + p \in 1 .. Len(req) /\ i + p > p /\ req'[i] = req[i + p]
        \/ e = 1 /\ req'[i] = NewRequest(bpu)
    BY <1>7
  <2>2. \/ j + c \in 1 .. Len(inf) /\ inf'[j] = inf[j + c]
        \/ p = 1 /\ 1 \in 1 .. Len(req) /\ inf'[j] = req[1]
    BY <1>8
  <2>3. CASE e = 1 /\ req'[i] = NewRequest(bpu)
    BY <1>3, <1>6, <2>2, <2>3
  <2>4. CASE i + p \in 1 .. Len(req) /\ i + p > p /\ req'[i] = req[i + p]
    <3>1. CASE j + c \in 1 .. Len(inf) /\ inf'[j] = inf[j + c]
      BY <1>5d, <2>4, <3>1
    <3>2. CASE p = 1 /\ 1 \in 1 .. Len(req) /\ inf'[j] = req[1]
      <4>1. i + p # 1
        BY <2>4, <3>2
      <4> QED BY <1>5d, <2>4, <3>2, <4>1
    <3> QED BY <2>2, <3>1, <3>2
  <2> QED BY <2>1, <2>3, <2>4
<1>12. /\ \A i \in 1 .. Len(req') : req'[i].epoch = fetch_epoch'
       /\ \A i \in 1 .. Len(inf') : inf'[i].epoch = fetch_epoch'
  <2>1. fetch_epoch' = fetch_epoch
    BY DEF OneCycle, Fetch
  <2>2. /\ \A i \in 1 .. Len(req) : req[i].epoch = fetch_epoch
        /\ \A i \in 1 .. Len(inf) : inf[i].epoch = fetch_epoch
    BY <1>5
  <2>3. \A i \in 1 .. Len(req') : req'[i].epoch = fetch_epoch
    BY <1>3, <1>7, <2>2
  <2>4. \A i \in 1 .. Len(inf') : inf'[i].epoch = fetch_epoch
    BY <1>8, <2>2
  <2> QED BY <2>1, <2>3, <2>4
<1>13. \A i \in 1 .. Len(req') : req'[i].id \in ftq'
  <2> SUFFICES ASSUME NEW i \in 1 .. Len(req') PROVE req'[i].id \in ftq'
    OBVIOUS
  <2>1. CASE i + p \in 1 .. Len(req) /\ i + p > p /\ req'[i] = req[i + p]
    <3>1. req[i + p].id \in ftq
      BY <1>6, <2>1
    <3>2. req[i + p].id \notin free
      <4>1. CASE f = 1
        <5>1. p = 1 /\ 1 \in 1 .. Len(req) /\ i + p # 1 /\ free = {req[1].id}
          BY <1>a, <1>c, <1>d, <1>2, <2>1, <4>1
        <5> HIDE DEF free
        <5> QED BY <1>5d, <2>1, <5>1
      <4>2. CASE f # 1 /\ c = 1
        BY <1>5d, <1>e, <1>2, <1>a, <1>c, <2>1, <4>2
      <4> QED BY <4>1, <4>2
    <3> QED BY <1>4, <2>1, <3>1, <3>2
  <2>2. CASE e = 1 /\ req'[i] = NewRequest(bpu)
    BY <1>3, <1>4, <2>2
  <2> QED BY <1>7, <2>1, <2>2
<1>14. \A i \in 1 .. Len(inf') : inf'[i].id \in ftq'
  <2> SUFFICES ASSUME NEW i \in 1 .. Len(inf') PROVE inf'[i].id \in ftq'
    OBVIOUS
  <2>1. CASE i + c \in 1 .. Len(inf) /\ i + c > c /\ inf'[i] = inf[i + c]
    <3>1. inf[i + c].id \in ftq
      BY <1>6, <2>1
    <3>2. inf[i + c].id \notin free
      <4>1. CASE f = 1
        BY <1>5d, <1>d, <1>2, <1>a, <1>c, <2>1, <4>1
      <4>2. CASE f # 1 /\ c = 1
        BY <1>5d, <1>e, <1>2, <1>a, <1>c, <2>1, <4>2
      <4> QED BY <4>1, <4>2
    <3> QED BY <1>4, <2>1, <3>1, <3>2
  <2>2. CASE f = 0 /\ 1 \in 1 .. Len(req) /\ inf'[i] = req[1]
    <3>1. req[1].id \in ftq
      BY <1>6, <2>2
    <3>2. req[1].id \notin free
      <4>1. CASE c = 1
        BY <1>5d, <1>e, <1>2, <2>2, <4>1
      <4> QED BY <2>2, <4>1
    <3> QED BY <1>4, <2>2, <3>1, <3>2
  <2> QED BY <1>8, <2>1, <2>2
<1>15. \A x \in ftq' : \/ \E i \in 1 .. Len(req') : x = req'[i].id
                       \/ \E i \in 1 .. Len(inf') : x = inf'[i].id
  <2> SUFFICES ASSUME NEW x \in ftq'
               PROVE  \/ \E i \in 1 .. Len(req') : x = req'[i].id
                      \/ \E i \in 1 .. Len(inf') : x = inf'[i].id
    OBVIOUS
  <2>1. CASE e = 1 /\ x = id
    <3>1. Len(req) - p + 1 \in 1 .. Len(req') /\ req'[Len(req) - p + 1].id = x
      BY <1>b, <1>d, <1>2, <1>3, <2>1
    <3> QED BY <3>1
  <2>2. ASSUME x \notin free, NEW i \in 1 .. Len(req), x = req[i].id
        PROVE  \/ \E j \in 1 .. Len(req') : x = req'[j].id
               \/ \E j \in 1 .. Len(inf') : x = inf'[j].id
    <3>1. CASE i > p
      <4>1. i - p \in 1 .. Len(req') /\ req'[i - p] = req[i]
        <5>1. i - p \in 1 .. Len(req) - p /\ i - p + p = i
          BY <1>a, <1>2, <3>1
        <5>2. req'[i - p] = req[i - p + p]
          BY <1>d, <5>1
        <5>3. Len(req') >= Len(req) - p
          BY <1>a, <1>d
        <5> QED BY <1>a, <1>2, <1>d, <5>1, <5>2, <5>3
      <4> QED BY <2>2, <4>1
    <3>2. CASE ~(i > p)
      <4>1. p = 1 /\ i = 1
        BY <1>a, <3>2
      <4>2. f # 1
        BY <2>2, <4>1
      <4>3. s = 1
        BY <1>a, <1>c, <4>1, <4>2
      <4>4. Len(inf) - c + 1 \in 1 .. Len(inf') /\ inf'[Len(inf) - c + 1] = req[1]
        BY <1>b, <1>e, <1>2, <4>3
      <4> QED BY <2>2, <4>1, <4>4
    <3> QED BY <3>1, <3>2
  <2>3. ASSUME x \notin free, NEW i \in 1 .. Len(inf), x = inf[i].id
        PROVE  \E j \in 1 .. Len(inf') : x = inf'[j].id
    <3>1. i > c
      <4>1. SUFFICES ASSUME ~(i > c) PROVE FALSE
        OBVIOUS
      <4>2. c = 1 /\ i = 1 /\ f # 1
        BY <1>a, <1>c, <4>1
      <4> QED BY <2>3, <4>2
    <3>2. i - c \in 1 .. Len(inf') /\ inf'[i - c] = inf[i]
      BY <1>a, <1>e, <1>2, <3>1
    <3> QED BY <2>3, <3>2
  <2>4. (e = 1 /\ x = id) \/ (x \in ftq /\ x \notin free)
    BY <1>4
  <2> QED BY <1>6, <2>1, <2>2, <2>3, <2>4
<1>16. ftq' = {req'[i].id : i \in 1 .. Len(req')} \cup {inf'[i].id : i \in 1 .. Len(inf')}
  BY <1>13, <1>14, <1>15
<1>17. ftq' \subseteq FtqIds
  BY <1>3, <1>4, <1>5
<1>18. Cardinality(ftq') = Len(req') + Len(inf')
  <2>1. IsFiniteSet(ftq)
    <3>1. IsFiniteSet(FtqIds)
      BY Depths, FS_Interval DEF FtqIds
    <3> QED BY <1>5, <3>1, FS_Subset
  <2>2. IsFiniteSet(ftq \ free) /\ Cardinality(ftq \ free) = Len(req) + Len(inf) - f - c
    <3>1. CASE f = 1
      <4>1. free = {req[1].id} /\ req[1].id \in ftq /\ c = 0
        BY <1>a, <1>c, <1>d, <1>2, <1>6, <3>1
      <4> HIDE DEF free
      <4>2. IsFiniteSet(ftq \ free) /\ Cardinality(ftq \ free) = Cardinality(ftq) - 1
        BY <2>1, <4>1, FS_RemoveElement
      <4> QED BY <1>n, <1>2, <1>5c, <3>1, <4>1, <4>2
    <3>2. CASE f = 0 /\ c = 1
      <4>1. free = {inf[1].id} /\ inf[1].id \in ftq
        BY <1>a, <1>e, <1>2, <1>6, <3>2
      <4> HIDE DEF free
      <4>2. IsFiniteSet(ftq \ free) /\ Cardinality(ftq \ free) = Cardinality(ftq) - 1
        BY <2>1, <4>1, FS_RemoveElement
      <4> QED BY <1>n, <1>2, <1>5c, <3>2, <4>1, <4>2
    <3>3. CASE f = 0 /\ c = 0
      <4>1. ftq \ free = ftq
        BY <3>3
      <4> HIDE DEF free
      <4>2. Len(req) + Len(inf) - f - c = Len(req) + Len(inf)
        BY <1>n, <3>3
      <4>3. IsFiniteSet(ftq \ free) /\ Cardinality(ftq \ free) = Cardinality(ftq)
        BY <2>1, <4>1, Zenon
      <4> QED BY <1>5c, <4>2, <4>3
    <3> QED BY <1>a, <3>1, <3>2, <3>3
  <2> HIDE DEF free
  <2>3. Cardinality(ftq') = Len(req) + Len(inf) - f - c + e
    <3>1. CASE e = 1
      <4>1. ftq' = (ftq \ free) \cup {id} /\ id \notin ftq \ free
        BY <1>3, <1>4, <3>1
      <4> QED BY <1>a, <1>2, <2>2, <3>1, <4>1, FS_AddElement
    <3>2. CASE e = 0
      <4>1. ftq' = ftq \ free
        BY <1>4, <3>2
      <4> QED BY <1>a, <1>2, <2>2, <3>2, <4>1
    <3> QED BY <1>a, <3>1, <3>2
  <2> QED BY <1>n, <1>c, <1>g, <1>2, <2>3
<1> QED BY <1>9, <1>10, <1>11, <1>12, <1>16, <1>17, <1>18 DEF IdLink

\* A fault is found only while the oldest request waits for its walk, and then it is that one's.
LEMMA FaultMoves ==
    ASSUME FetchInv, NEW bpu, NEW lines, NEW mem, NEW w, NEW deq_ready, NEW fault_ready, NEW mode,
           OneCycle(bpu, lines, mem, w, deq_ready, fault_ready, mode)
    PROVE  \/ /\ fault'.wait_flush = fault.wait_flush /\ fault'.pc = fault.pc
              /\ fault.wait_flush => ~req_issue_fire
           \/ /\ fault'.wait_flush /\ ~fault.wait_flush /\ req # <<>> /\ fault'.pc = req[1].pc
              /\ ~Pop(fault_ready)
<1>1. fault' = FaultAfter(fault_ready) /\ fault_ready \in BOOLEAN
  BY DEF OneCycle, Fetch
<1>2. /\ fault \in [pending : BOOLEAN, wait_flush : BOOLEAN, pc : Pcs] /\ WalkLink /\ FaultLink
      /\ req \in Seq(Requests)
  BY DEF FetchInv, Types
<1>3. CASE mmu_page_fault
  <2>1. xlate /\ req # <<>> /\ ~fault.wait_flush /\ ~fault.pending /\ mmu.state = "MMU_ST_WAIT"
    BY <1>2, <1>3 DEF mmu_page_fault, WalkLink, FaultLink
  <2>2. Head(req) = req[1]
    BY <1>2, <2>1, TailOf
  <2>3. fault' = [pending |-> TRUE, wait_flush |-> TRUE, pc |-> req[1].pc]
    BY <1>1, <1>3, <2>2 DEF FaultAfter
  <2>4. fault'.wait_flush /\ fault'.pc = req[1].pc
    BY <2>3
  <2>5. ~Pop(fault_ready)
    BY <1>1, <2>1, IssueIs, ConsumeIs DEF Pop
  <2> QED BY <2>1, <2>4, <2>5
<1>4. CASE ~mmu_page_fault
  <2> DEFINE b == fault.pending /\ ~fault_consume(fault_ready)
  <2>1. fault' = [fault EXCEPT !.pending = b]
    BY <1>1, <1>4 DEF FaultAfter
  <2> HIDE DEF b
  <2>2. fault'.wait_flush = fault.wait_flush /\ fault'.pc = fault.pc
    BY <1>2, <2>1
  <2> QED BY <2>2, IssueIs
<1> QED BY <1>3, <1>4

\* The three parts of the path.
LEMMA PathParts ==
    ASSUME NEW k \in Nat, Len(fq) \in Nat, Len(inf) \in Nat
    PROVE  /\ k <= Len(fq) => PathPc(k) = fq[k].pc /\ PathNpc(k) = fq[k].npc
           /\ \A j \in Nat : k = Len(fq) + j /\ 1 <= j /\ j <= Len(inf) =>
                PathPc(k) = inf[j].pc /\ PathNpc(k) = inf[j].npc
           /\ \A j \in Nat : k = Len(fq) + Len(inf) + j /\ 1 <= j =>
                PathPc(k) = req[j].pc /\ PathNpc(k) = req[j].npc
<1>1. ASSUME NEW j \in Nat, k = Len(fq) + j, 1 <= j, j <= Len(inf)
      PROVE  PathPc(k) = inf[j].pc /\ PathNpc(k) = inf[j].npc
  <2>1. ~(k <= Len(fq)) /\ k <= Len(fq) + Len(inf) /\ k - Len(fq) = j
    BY <1>1
  <2> QED BY <2>1 DEF PathPc, PathNpc
<1>2. ASSUME NEW j \in Nat, k = Len(fq) + Len(inf) + j, 1 <= j
      PROVE  PathPc(k) = req[j].pc /\ PathNpc(k) = req[j].npc
  <2>1. ~(k <= Len(fq)) /\ ~(k <= Len(fq) + Len(inf)) /\ k - Len(fq) - Len(inf) = j
    BY <1>2
  <2> QED BY <2>1 DEF PathPc, PathNpc
<1>3. k <= Len(fq) => PathPc(k) = fq[k].pc /\ PathNpc(k) = fq[k].npc
  BY DEF PathPc, PathNpc
<1> QED BY <1>1, <1>2, <1>3

\* Position i of the path after the cycle was position i + d before, d = 1 if a bundle left.  First
\* the bundles queued and in flight ...
LEMMA QueuedShift ==
    ASSUME FetchInv, NEW bpu, NEW lines, NEW mem, NEW w, NEW deq_ready, NEW fault_ready, NEW mode,
           OneCycle(bpu, lines, mem, w, deq_ready, fault_ready, mode)
    PROVE  LET d == Count(deq_fire(deq_ready))
               s == Count(req_issue_fire)
           IN  /\ Len(fq') + Len(inf') = Len(fq) + Len(inf) + s - d
               /\ Len(fq') + Len(inf') \in Nat
               /\ \A i \in 1 .. Len(fq') + Len(inf') :
                    PathPc(i)' = PathPc(i + d) /\ PathNpc(i)' = PathNpc(i + d)
               /\ next' = IF d = 1 THEN PathNpc(1) ELSE next
               /\ d = 1 => Len(fq) + Len(inf) >= 1
<1> DEFINE d == Count(deq_fire(deq_ready))
           s == Count(req_issue_fire)
           c == Count(rsp_capture)
<1>1. /\ (d = 0 \/ d = 1) /\ (s = 0 \/ s = 1) /\ (c = 0 \/ c = 1)
      /\ d \in Nat /\ s \in Nat /\ c \in Nat
      /\ (d = 1 <=> deq_fire(deq_ready)) /\ (s = 1 <=> req_issue_fire) /\ (c = 1 <=> rsp_capture)
  BY DEF Count
<1>2. /\ Len(fq) \in Nat /\ Len(inf) \in Nat /\ Len(req) \in Nat
      /\ (fq = <<>> <=> Len(fq) = 0) /\ (req # <<>> => Len(req) > 0)
  BY DEF FetchInv, Types
<1>3. /\ Len(fq) + c - d \in Nat /\ Len(fq') = Len(fq) + c - d
      /\ \A i \in 1 .. Len(fq) + c - d :
           IF i + d <= Len(fq) THEN fq'[i] = fq[i + d]
           ELSE /\ rsp_capture /\ i + d = Len(fq) + 1
                /\ fq'[i].pc = inf[1].pc /\ fq'[i].npc = inf[1].npc
                /\ fq'[i].code = inf[1].pc
      /\ next' = IF ~deq_fire(deq_ready) THEN next
                 ELSE IF fq # <<>> THEN fq[1].npc ELSE inf[1].npc
      /\ deq_fire(deq_ready) /\ fq = <<>> => rsp_capture
  BY FqMoves DEF OneCycle
<1>4. /\ Len(inf) - c \in Nat /\ Len(inf') = Len(inf) - c + s
      /\ \A i \in 1 .. Len(inf) - c : inf'[i] = inf[i + c]
      /\ req_issue_fire => inf'[Len(inf) - c + 1] = req[1]
  BY InfMoves DEF OneCycle
<1> HIDE DEF d, s, c
<1>5. /\ Len(fq') + Len(inf') = Len(fq) + Len(inf) + s - d
      /\ Len(fq') \in Nat /\ Len(inf') \in Nat /\ Len(fq') + Len(inf') \in Nat
  BY <1>1, <1>2, <1>3, <1>4
<1>6. next' = IF d = 1 THEN PathNpc(1) ELSE next
  <2>1. CASE d = 1 /\ fq # <<>>
    BY <1>1, <1>2, <1>3, <2>1 DEF PathNpc
  <2>2. CASE d = 1 /\ fq = <<>>
    <3>1. c = 1 /\ Len(fq) = 0 /\ Len(inf) >= 1
      BY <1>1, <1>2, <1>3, <1>4, <2>2
    <3>2. next' = inf[1].npc
      BY <1>1, <1>3, <2>2
    <3> QED BY <2>2, <3>1, <3>2 DEF PathNpc
  <2>3. CASE d # 1
    BY <1>1, <1>3, <2>3
  <2> QED BY <2>1, <2>2, <2>3
<1>7. d = 1 => Len(fq) + Len(inf) >= 1
  BY <1>1, <1>2, <1>3, <1>4
<1>8. ASSUME NEW i \in 1 .. Len(fq') + Len(inf')
      PROVE  PathPc(i)' = PathPc(i + d) /\ PathNpc(i)' = PathNpc(i + d)
  <2>1. CASE i <= Len(fq')
    <3>1. i \in 1 .. Len(fq) + c - d /\ PathPc(i)' = fq'[i].pc /\ PathNpc(i)' = fq'[i].npc
      BY <1>3, <1>5, <2>1 DEF PathPc, PathNpc
    <3>2. CASE i + d <= Len(fq)
      BY <1>3, <3>1, <3>2 DEF PathPc, PathNpc
    <3>3. CASE ~(i + d <= Len(fq))
      <4>1. rsp_capture /\ i + d = Len(fq) + 1 /\ fq'[i].pc = inf[1].pc /\ fq'[i].npc = inf[1].npc
        BY <1>3, <3>1, <3>3
      <4>2. Len(inf) >= 1
        BY <1>1, <1>4, <4>1
      <4>3. PathPc(i + d) = inf[1].pc /\ PathNpc(i + d) = inf[1].npc
        BY <1>1, <1>2, <4>1, <4>2, PathParts
      <4> QED BY <3>1, <4>1, <4>3
    <3> QED BY <3>2, <3>3
  <2>2. CASE ~(i <= Len(fq'))
    <3> DEFINE j == i - Len(fq')
    <3>1. j \in 1 .. Len(inf') /\ PathPc(i)' = inf'[j].pc /\ PathNpc(i)' = inf'[j].npc
      BY <1>5, <2>2 DEF PathPc, PathNpc
    <3>2. i + d = Len(fq) + j + c
      BY <1>1, <1>2, <1>3
    <3>3. j \in Nat /\ j >= 1
      BY <1>5, <3>1
    <3> HIDE DEF j
    <3>4. CASE j <= Len(inf) - c
      <4>1. inf'[j] = inf[j + c]
        BY <1>4, <3>3, <3>4
      <4>2. PathPc(i + d) = inf[j + c].pc /\ PathNpc(i + d) = inf[j + c].npc
        BY <1>1, <1>2, <3>2, <3>3, <3>4, PathParts
      <4> QED BY <3>1, <4>1, <4>2
    <3>5. CASE ~(j <= Len(inf) - c)
      <4>1. s = 1 /\ j = Len(inf) - c + 1
        <5>1. j <= Len(inf) - c + s
          BY <1>4, <1>5, <3>1
        <5>2. (s = 0 \/ s = 1) /\ c \in Nat /\ Len(inf) \in Nat
          BY <1>1, <1>2
        <5> QED BY <3>3, <3>5, <5>1, <5>2
      <4>2. inf'[j] = req[1]
        BY <1>1, <1>4, <4>1
      <4>3. PathPc(i + d) = req[1].pc /\ PathNpc(i + d) = req[1].npc
        BY <1>1, <1>2, <3>2, <4>1, PathParts
      <4> QED BY <3>1, <4>2, <4>3
    <3> QED BY <3>4, <3>5
  <2> QED BY <2>1, <2>2
<1> QED BY <1>5, <1>6, <1>7, <1>8 DEF d, s

\* ... then, while no fault holds the requests back, those that wait, and the new one.
LEMMA WaitingShift ==
    ASSUME FetchInv, NEW bpu, NEW lines, NEW mem, NEW w, NEW deq_ready, NEW fault_ready, NEW mode,
           OneCycle(bpu, lines, mem, w, deq_ready, fault_ready, mode), ~fault.wait_flush
    PROVE  LET d == Count(deq_fire(deq_ready))
               e == Count(Enq(bpu, fault_ready))
               n == Len(fq) + Len(inf) + Len(req)
           IN  /\ Len(fq') + Len(inf') + Len(req') = n - d + e
               /\ \A i \in 1 .. n - d : PathPc(i)' = PathPc(i + d) /\ PathNpc(i)' = PathNpc(i + d)
               /\ \A k \in Nat : e = 1 /\ k = n - d + 1 => PathPc(k)' = pc_reg /\ PathNpc(k)' = pc_reg'
               /\ e = 0 => pc_reg' = pc_reg
<1> DEFINE d == Count(deq_fire(deq_ready))
           s == Count(req_issue_fire)
           p == Count(Pop(fault_ready))
           e == Count(Enq(bpu, fault_ready))
           n == Len(fq) + Len(inf) + Len(req)
           m == Len(fq) + Len(inf) + s - d
<1>1. /\ d \in Nat /\ s \in Nat /\ p \in Nat /\ e \in Nat /\ (e = 0 \/ e = 1)
      /\ (e = 1 <=> Enq(bpu, fault_ready))
  BY DEF Count
<1>2. Len(fq) \in Nat /\ Len(inf) \in Nat /\ Len(req) \in Nat
  BY DEF FetchInv, Types
<1>3. p = s
  <2>1. ~fault_consume(fault_ready)
    BY ConsumeIs DEF OneCycle
  <2>2. p = s + Count(fault_consume(fault_ready))
    BY CycleCounts DEF OneCycle
  <2>3. Count(fault_consume(fault_ready)) = 0
    BY <2>1 DEF Count
  <2> HIDE DEF p, s
  <2> QED BY <1>1, <2>2, <2>3
<1>4. /\ Len(fq') + Len(inf') = m /\ m \in Nat
      /\ \A i \in 1 .. m : PathPc(i)' = PathPc(i + d) /\ PathNpc(i)' = PathNpc(i + d)
  BY QueuedShift
<1>5. /\ req' \in Seq(Requests) /\ Len(req) - p \in Nat /\ Len(req') = Len(req) - p + e
      /\ \A i \in 1 .. Len(req) - p : req'[i] = req[i + p]
      /\ Enq(bpu, fault_ready) => req'[Len(req) - p + 1] = NewRequest(bpu)
  BY ReqMoves DEF OneCycle
<1>6. Len(fq') \in Nat /\ Len(inf') \in Nat
  <2>1. fq' \in Seq(Bundle) /\ inf' \in Seq(Requests)
    BY FqMoves, InfMoves DEF OneCycle
  <2> QED BY <2>1
<1>7. ASSUME NEW j \in Nat, 1 <= j, NEW k \in Nat, k = m + j
      PROVE  PathPc(k)' = req'[j].pc /\ PathNpc(k)' = req'[j].npc
  <2>1. k = Len(fq') + Len(inf') + j
    BY <1>4, <1>7
  <2>2. ~(k <= Len(fq')) /\ ~(k <= Len(fq') + Len(inf')) /\ k - Len(fq') - Len(inf') = j
    BY <1>6, <1>7, <2>1
  <2> QED BY <2>2 DEF PathPc, PathNpc
<1>8. pc_reg' = IF Enq(bpu, fault_ready) THEN CHOOSE x \in bpu : TRUE ELSE pc_reg
  BY DEF OneCycle, Fetch, Enq, Pop
<1>9. Enq(bpu, fault_ready) =>
        NewRequest(bpu).pc = pc_reg /\ NewRequest(bpu).npc = (CHOOSE x \in bpu : TRUE)
  BY DEF NewRequest, Request
<1>10. n - d = m + (Len(req) - p) /\ n - d \in Int /\ n \in Nat
  BY <1>1, <1>2, <1>3
<1> HIDE DEF d, s, p, e, m, n
<1>11. Len(fq') + Len(inf') + Len(req') = n - d + e
  <2>1. Len(fq') + Len(inf') = m /\ m \in Nat /\ Len(req) - p \in Nat
    BY <1>4, <1>5
  <2>2. Len(req') = (Len(req) - p) + e
    BY <1>5
  <2>3. d \in Nat /\ p \in Nat /\ e \in Nat
    BY <1>1
  <2> QED BY <1>2, <1>6, <1>10, <2>1, <2>2, <2>3
<1>12. ASSUME NEW k \in Nat, e = 1, k = n - d + 1
       PROVE  PathPc(k)' = pc_reg /\ PathNpc(k)' = pc_reg'
  <2>1. PICK j \in Nat : j = Len(req) - p + 1
    BY <1>5
  <2>2. req'[j].pc = pc_reg /\ req'[j].npc = pc_reg'
    BY <1>1, <1>5, <1>8, <1>9, <1>12, <2>1
  <2>3. 1 <= j /\ k = m + j
    <3>1. m \in Nat /\ Len(req) - p \in Nat /\ d \in Nat /\ p \in Nat
      BY <1>1, <1>4, <1>5
    <3> QED BY <1>2, <1>10, <1>12, <2>1, <3>1
  <2>4. PathPc(k)' = req'[j].pc /\ PathNpc(k)' = req'[j].npc
    BY <1>7, <2>3
  <2> QED BY <2>2, <2>4
<1>13. ASSUME NEW i \in 1 .. n - d
       PROVE  PathPc(i)' = PathPc(i + d) /\ PathNpc(i)' = PathNpc(i + d)
  <2>1. CASE i <= m
    BY <1>4, <1>10, <2>1
  <2>2. CASE ~(i <= m)
    <3>1. PICK j \in Nat : j = i - m
      BY <1>4, <1>10, <2>2
    <3>2. 1 <= j /\ i \in Nat /\ i = m + j /\ j \in 1 .. Len(req) - p
      BY <1>4, <1>5, <1>10, <2>2, <3>1
    <3>3. i + d = Len(fq) + Len(inf) + (j + p)
      BY <1>1, <1>2, <1>3, <3>1 DEF m
    <3>4. i + d \in Nat /\ j + p \in Nat /\ 1 <= j + p
      BY <1>1, <3>2
    <3>5. PathPc(i)' = req'[j].pc /\ PathNpc(i)' = req'[j].npc
      BY <1>7, <3>2
    <3>6. req'[j] = req[j + p]
      BY <1>5, <3>2
    <3>7. PathPc(i + d) = req[j + p].pc /\ PathNpc(i + d) = req[j + p].npc
      BY <1>2, <3>3, <3>4, PathParts
    <3> QED BY <3>5, <3>6, <3>7
  <2> QED BY <2>1, <2>2
<1>14. e = 0 => pc_reg' = pc_reg
  BY <1>1, <1>8
<1> QED BY <1>11, <1>12, <1>13, <1>14 DEF d, e, n

\* What is kept of the path is still joined up.
LEMMA ChainShift ==
    ASSUME Chain, PathLen \in Nat, NEW d \in Nat, NEW q \in Nat, d <= 1, q + d <= PathLen,
           next' = IF d = 1 THEN PathNpc(1) ELSE next,
           \A i \in 1 .. q : PathPc(i)' = PathPc(i + d) /\ PathNpc(i)' = PathNpc(i + d)
    PROVE  /\ \A i \in 0 .. q : ArrivesAt(i)' = GoesOnAt(i + d)
           /\ \A i \in 0 .. q - 1 : PathPc(i + 1)' = GoesOnAt(i + d)
<1>1. ASSUME NEW i \in 0 .. q
      PROVE  ArrivesAt(i)' = GoesOnAt(i + d)
  <2>1. ArrivesAt(i)' = ArrivesAt(i + d)
    <3>1. CASE i = 0
      <4>1. ArrivesAt(i)' = next'
        BY <3>1 DEF ArrivesAt
      <4>2. CASE d = 0
        BY <3>1, <4>1, <4>2 DEF ArrivesAt
      <4>3. CASE d = 1
        BY <3>1, <4>1, <4>3 DEF ArrivesAt
      <4> QED BY <4>2, <4>3
    <3>2. CASE i # 0
      <4>1. i \in 1 .. q /\ i + d # 0
        BY <3>2
      <4>2. PathNpc(i)' = PathNpc(i + d)
        BY <4>1
      <4>3. ArrivesAt(i)' = PathNpc(i)' /\ ArrivesAt(i + d) = PathNpc(i + d)
        BY <3>2, <4>1 DEF ArrivesAt
      <4> QED BY <4>2, <4>3
    <3> QED BY <3>1, <3>2
  <2>2. i + d \in 0 .. PathLen
    OBVIOUS
  <2> QED BY <2>1, <2>2 DEF Chain
<1>2. ASSUME NEW i \in 0 .. q - 1
      PROVE  PathPc(i + 1)' = GoesOnAt(i + d)
  <2>1. PICK k \in 1 .. q : k = i + 1
    OBVIOUS
  <2>2. PathPc(k)' = PathPc(k + d)
    BY <2>1
  <2>3. i + d # PathLen /\ k + d = i + d + 1
    BY <2>1
  <2>4. GoesOnAt(i + d) = PathPc(k + d)
    BY <2>3 DEF GoesOnAt
  <2> QED BY <2>1, <2>2, <2>4
<1> QED BY <1>1, <1>2

\* An ordinary cycle keeps the path whole, one in which a fault is found included.
LEMMA CycleChain ==
    ASSUME FetchInv, NEW bpu, NEW lines, NEW mem, NEW w, NEW deq_ready, NEW fault_ready, NEW mode,
           OneCycle(bpu, lines, mem, w, deq_ready, fault_ready, mode)
    PROVE  Chain'
<1> DEFINE d == Count(deq_fire(deq_ready))
           s == Count(req_issue_fire)
           e == Count(Enq(bpu, fault_ready))
           h == Len(fq) + Len(inf)
           r == Len(req)
           n == Len(fq) + Len(inf) + Len(req)
<1>1. /\ (d = 0 \/ d = 1) /\ (s = 0 \/ s = 1) /\ (e = 0 \/ e = 1)
      /\ (~req_issue_fire => s = 0)
  BY DEF Count
<1>2. Chain /\ n = h + r /\ h \in Nat /\ r \in Nat /\ (req # <<>> => r >= 1)
  BY DEF FetchInv, Types
<1>3. /\ Len(fq') + Len(inf') = h + s - d /\ Len(fq') + Len(inf') \in Nat
      /\ \A i \in 1 .. Len(fq') + Len(inf') :
           PathPc(i)' = PathPc(i + d) /\ PathNpc(i)' = PathNpc(i + d)
      /\ next' = IF d = 1 THEN PathNpc(1) ELSE next
      /\ d = 1 => h >= 1
  BY QueuedShift
<1>4. \/ /\ fault'.wait_flush = fault.wait_flush /\ fault'.pc = fault.pc
         /\ fault.wait_flush => ~req_issue_fire
      \/ /\ fault'.wait_flush /\ ~fault.wait_flush /\ req # <<>> /\ fault'.pc = req[1].pc
         /\ ~Pop(fault_ready)
  BY FaultMoves
<1>5. ~fault.wait_flush =>
        /\ Len(fq') + Len(inf') + Len(req') = n - d + e
        /\ \A i \in 1 .. n - d : PathPc(i)' = PathPc(i + d) /\ PathNpc(i)' = PathNpc(i + d)
        /\ \A k \in Nat : e = 1 /\ k = n - d + 1 => PathPc(k)' = pc_reg /\ PathNpc(k)' = pc_reg'
        /\ e = 0 => pc_reg' = pc_reg
  BY WaitingShift
<1>6. PathLen = IF fault.wait_flush THEN h ELSE h + r
  <2>1. Len(fq) \in Nat /\ Len(inf) \in Nat
    BY DEF FetchInv, Types
  <2>2. CASE fault.wait_flush
    BY <2>1, <2>2 DEF PathLen
  <2>3. CASE ~fault.wait_flush
    BY <2>1, <2>3 DEF PathLen
  <2> QED BY <2>2, <2>3
<1>7. ASSUME r >= 1 PROVE PathPc(h + 1) = req[1].pc
  <2>1. Len(fq) \in Nat /\ Len(inf) \in Nat
    BY DEF FetchInv, Types
  <2>2. h + 1 \in Nat /\ h + 1 = Len(fq) + Len(inf) + 1
    BY <2>1
  <2> HIDE DEF h
  <2> QED BY <2>1, <2>2, PathParts
<1> HIDE DEF d, s, e, h, r, n
<1>8. d \in Nat /\ s \in Nat /\ e \in Nat /\ d <= 1 /\ PathLen \in Nat
  BY <1>1, <1>2, <1>6
<1>9. CASE ~fault.wait_flush /\ ~fault'.wait_flush
  <2>1. PICK q \in Nat : q = n - d
    BY <1>2, <1>3, <1>8
  <2>2. PathLen' = q + e /\ PathEnd' = pc_reg' /\ PathEnd = pc_reg /\ PathLen = q + d
    BY <1>2, <1>5, <1>6, <1>8, <1>9, <2>1 DEF PathLen, PathEnd
  <2>3. /\ \A i \in 0 .. q : ArrivesAt(i)' = GoesOnAt(i + d)
        /\ \A i \in 0 .. q - 1 : PathPc(i + 1)' = GoesOnAt(i + d)
    <3>1. \A i \in 1 .. q : PathPc(i)' = PathPc(i + d) /\ PathNpc(i)' = PathNpc(i + d)
      BY <1>5, <1>9, <2>1
    <3>2. q + d <= PathLen
      BY <1>8, <2>2
    <3> QED BY <1>2, <1>3, <1>8, <3>1, <3>2, ChainShift
  <2>4. GoesOnAt(q + d) = pc_reg
    BY <2>2 DEF GoesOnAt
  <2>5. ASSUME NEW i \in 0 .. q + e
        PROVE  ArrivesAt(i)' = GoesOnAt(i)'
    <3>1. CASE i < q
      <4>1. ArrivesAt(i)' = GoesOnAt(i + d) /\ PathPc(i + 1)' = GoesOnAt(i + d)
        BY <2>3, <3>1
      <4>2. GoesOnAt(i)' = PathPc(i + 1)'
        BY <1>8, <2>2, <3>1 DEF GoesOnAt
      <4> QED BY <4>1, <4>2
    <3>2. CASE i = q
      <4>1. ArrivesAt(i)' = pc_reg
        BY <2>3, <2>4, <3>2
      <4>2. CASE e = 0
        <5>1. GoesOnAt(i)' = pc_reg'
          BY <2>2, <3>2, <4>2 DEF GoesOnAt
        <5> QED BY <1>5, <1>9, <4>1, <4>2, <5>1
      <4>3. CASE e = 1
        <5>1. GoesOnAt(i)' = PathPc(i + 1)'
          BY <2>2, <3>2, <4>3 DEF GoesOnAt
        <5>2. PICK k \in Nat : k = i + 1
          OBVIOUS
        <5>3. PathPc(k)' = pc_reg
          BY <1>5, <1>9, <2>1, <3>2, <4>3, <5>2
        <5> QED BY <4>1, <5>1, <5>2, <5>3
      <4> QED BY <1>1, <4>2, <4>3
    <3>3. CASE i > q
      <4>1. e = 1 /\ i = q + 1 /\ i \in Nat
        BY <1>1, <3>3
      <4>2. PathNpc(i)' = pc_reg'
        BY <1>5, <1>9, <2>1, <4>1
      <4>3. ArrivesAt(i)' = PathNpc(i)'
        BY <4>1 DEF ArrivesAt
      <4>4. GoesOnAt(i)' = pc_reg'
        BY <2>2, <4>1 DEF GoesOnAt
      <4> QED BY <4>2, <4>3, <4>4
    <3> QED BY <1>8, <3>1, <3>2, <3>3
  <2> QED BY <2>2, <2>5 DEF Chain
<1>10. CASE fault'.wait_flush
  <2>1. s = 0
    BY <1>1, <1>4, <1>10 DEF Pop
  <2>2. PICK q \in Nat : q = h - d
    BY <1>2, <1>3, <1>8, <2>1
  <2>3. PathLen' = q /\ q = Len(fq') + Len(inf') /\ q + d = h /\ PathEnd' = fault'.pc
    BY <1>2, <1>3, <1>8, <1>10, <2>1, <2>2 DEF PathLen, PathEnd
  <2>4. q + d <= PathLen
    BY <1>2, <1>6, <2>3
  <2>5. /\ \A i \in 0 .. q : ArrivesAt(i)' = GoesOnAt(i + d)
        /\ \A i \in 0 .. q - 1 : PathPc(i + 1)' = GoesOnAt(i + d)
    <3>1. \A i \in 1 .. q : PathPc(i)' = PathPc(i + d) /\ PathNpc(i)' = PathNpc(i + d)
      BY <1>3, <2>3
    <3> QED BY <1>2, <1>3, <1>8, <2>4, <3>1, ChainShift
  <2>6. GoesOnAt(h) = fault'.pc
    <3>1. CASE fault.wait_flush
      BY <1>4, <1>6, <3>1 DEF GoesOnAt, PathEnd
    <3>2. CASE ~fault.wait_flush
      <4>1. r >= 1 /\ fault'.pc = req[1].pc
        BY <1>2, <1>4, <1>10, <3>2
      <4>2. h # PathLen
        BY <1>2, <1>6, <3>2, <4>1
      <4> QED BY <1>7, <4>1, <4>2 DEF GoesOnAt
    <3> QED BY <3>1, <3>2
  <2>7. ASSUME NEW i \in 0 .. q
        PROVE  ArrivesAt(i)' = GoesOnAt(i)'
    <3>1. CASE i < q
      <4>1. ArrivesAt(i)' = GoesOnAt(i + d) /\ PathPc(i + 1)' = GoesOnAt(i + d)
        BY <2>5, <3>1
      <4>2. GoesOnAt(i)' = PathPc(i + 1)'
        BY <2>3, <3>1 DEF GoesOnAt
      <4> QED BY <4>1, <4>2
    <3>2. CASE i = q
      <4>1. ArrivesAt(i)' = fault'.pc
        BY <2>3, <2>5, <2>6, <3>2
      <4>2. GoesOnAt(i)' = fault'.pc
        BY <2>3, <3>2 DEF GoesOnAt
      <4> QED BY <4>1, <4>2
    <3> QED BY <3>1, <3>2
  <2> QED BY <2>3, <2>7 DEF Chain
<1> QED BY <1>4, <1>9, <1>10

\* The rest of an ordinary cycle: the addresses, the depths, and the code of a captured bundle.
LEMMA CycleQueues ==
    ASSUME FetchInv, NEW bpu, NEW lines, NEW mem, NEW w, NEW deq_ready, NEW fault_ready, NEW mode,
           OneCycle(bpu, lines, mem, w, deq_ready, fault_ready, mode)
    PROVE  /\ pc_reg' \in Pcs /\ next' \in Pcs
           /\ req' \in Seq(Requests) /\ Len(req') <= REQ_DEPTH
           /\ inf' \in Seq(Requests) /\ Len(inf') <= INF_DEPTH
           /\ fq' \in Seq(Bundle)
           /\ CodeIsOfItsPc' /\ RoomForEveryAnswer'
<1> DEFINE d == Count(deq_fire(deq_ready))
           c == Count(rsp_capture)
           s == Count(req_issue_fire)
           p == Count(Pop(fault_ready))
           e == Count(Enq(bpu, fault_ready))
<1>1. /\ (d = 0 \/ d = 1) /\ (c = 0 \/ c = 1) /\ (s = 0 \/ s = 1) /\ (p = 0 \/ p = 1)
      /\ (e = 0 \/ e = 1) /\ (s = 1 => req_issue_fire) /\ (e = 1 => Enq(bpu, fault_ready))
      /\ (Pop(fault_ready) => p = 1)
  BY DEF Count
<1>2. /\ fq \in Seq(Bundle) /\ inf \in Seq(Requests) /\ req \in Seq(Requests)
      /\ Len(fq) \in Nat /\ Len(inf) \in Nat /\ Len(req) \in Nat
      /\ Len(req) <= REQ_DEPTH /\ Len(inf) <= INF_DEPTH
      /\ pc_reg \in Pcs /\ next \in Pcs /\ CodeIsOfItsPc /\ RoomForEveryAnswer
  BY DEF FetchInv, Types
<1>3. bpu \in AtMostOne(Pcs) /\ deq_ready \in BOOLEAN /\ fault_ready \in BOOLEAN
  BY DEF OneCycle
<1>4. /\ req' \in Seq(Requests) /\ Len(req) - p \in Nat /\ Len(req') = Len(req) - p + e
  BY ReqMoves DEF OneCycle
<1>5. /\ inf' \in Seq(Requests) /\ Len(inf) - c \in Nat /\ Len(inf') = Len(inf) - c + s
  BY InfMoves DEF OneCycle
<1>6. /\ fq' \in Seq(Bundle) /\ Len(fq) + c - d \in Nat /\ Len(fq') = Len(fq) + c - d
      /\ \A i \in 1 .. Len(fq) + c - d :
           IF i + d <= Len(fq) THEN fq'[i] = fq[i + d]
           ELSE /\ rsp_capture /\ i + d = Len(fq) + 1
                /\ fq'[i].pc = inf[1].pc /\ fq'[i].npc = inf[1].npc
                /\ fq'[i].code = inf[1].pc
      /\ next' = IF ~deq_fire(deq_ready) THEN next
                 ELSE IF fq # <<>> THEN fq[1].npc ELSE inf[1].npc
      /\ deq_fire(deq_ready) /\ fq = <<>> => rsp_capture
  BY FqMoves DEF OneCycle
<1>7. pc_reg' \in Pcs
  <2>1. pc_reg' = IF Enq(bpu, fault_ready) THEN CHOOSE x \in bpu : TRUE ELSE pc_reg
    BY DEF OneCycle, Fetch, Enq, Pop
  <2>2. Enq(bpu, fault_ready) => (CHOOSE x \in bpu : TRUE) \in Pcs
    BY <1>3, EnqIs
  <2> QED BY <1>2, <2>1, <2>2
<1>8. next' \in Pcs
  <2>1. fq # <<>> => fq[1].npc \in Pcs
    <3>1. fq # <<>> => fq[1] \in Bundle
      BY <1>2, TailOf
    <3> QED BY <3>1 DEF Bundle
  <2>2. rsp_capture => inf[1].npc \in Pcs
    <3>1. rsp_capture => inf # <<>>
      BY CaptureIs
    <3>2. rsp_capture => inf[1] \in Requests
      BY <1>2, <3>1, TailOf
    <3> QED BY <3>2 DEF Requests
  <2> QED BY <1>2, <1>6, <2>1, <2>2
<1> HIDE DEF d, c, s, p, e
<1>9. Len(req') <= REQ_DEPTH
  <2>1. e = 1 => Len(req) < REQ_DEPTH \/ p = 1
    BY <1>1, <1>3, EnqIs
  <2> QED BY <1>1, <1>2, <1>4, <2>1, Depths
<1>10. s = 1 => Len(inf) < INF_DEPTH /\ Len(fq) + Len(inf) < FQ_DEPTH
  BY <1>1, IssueIs
<1>11. Len(inf') <= INF_DEPTH
  BY <1>1, <1>2, <1>5, <1>10, Depths
<1>12. RoomForEveryAnswer'
  <2>1. Len(fq) + Len(inf) <= FQ_DEPTH
    BY <1>2 DEF RoomForEveryAnswer
  <2>2. Len(fq') + Len(inf') = Len(fq) + Len(inf) + s - d
    <3>1. Len(fq') = Len(fq) + c - d /\ Len(inf') = Len(inf) - c + s
      BY <1>5, <1>6
    <3>2. c \in Nat /\ d \in Nat /\ s \in Nat
      BY <1>1
    <3> QED BY <1>2, <3>1, <3>2
  <2>3. Len(fq') + Len(inf') <= FQ_DEPTH
    BY <1>1, <1>2, <1>10, <2>1, <2>2, Depths
  <2> QED BY <2>3 DEF RoomForEveryAnswer
<1>13. CodeIsOfItsPc'
  <2>1. SUFFICES ASSUME NEW i \in 1 .. Len(fq') PROVE fq'[i].code = fq'[i].pc
    BY DEF CodeIsOfItsPc, Elements
  <2>2. i \in 1 .. Len(fq) + c - d
    BY <1>6
  <2>3. CASE i + d <= Len(fq)
    <3>1. fq'[i] = fq[i + d]
      BY <1>6, <2>2, <2>3
    <3>2. i + d \in 1 .. Len(fq)
      BY <1>1, <1>2, <2>2, <2>3
    <3>3. fq[i + d].code = fq[i + d].pc
      BY <1>2, <3>2 DEF CodeIsOfItsPc, Elements
    <3> QED BY <3>1, <3>3
  <2>4. CASE ~(i + d <= Len(fq))
    BY <1>6, <2>2, <2>4
  <2> QED BY <2>3, <2>4
<1> QED BY <1>4, <1>5, <1>6, <1>7, <1>8, <1>9, <1>11, <1>12, <1>13

\* An ordinary cycle keeps the invariant.
LEMMA CycleKeeps ==
    ASSUME FetchInv, NEW bpu, NEW lines, NEW mem, NEW w, NEW deq_ready, NEW fault_ready, NEW mode,
           OneCycle(bpu, lines, mem, w, deq_ready, fault_ready, mode)
    PROVE  FetchInv'
<1>1. ic' \in IcRecords /\ MissHasLine' /\ CacheLink'
  BY CycleCache
<1>2. /\ mmu' \in [state : MmuStates, paddr : Pcs]
      /\ walker' \in [walk : SUBSET Pcs, resp : SUBSET Answered]
      /\ fault' \in [pending : BOOLEAN, wait_flush : BOOLEAN, pc : Pcs]
      /\ WalkLink' /\ FaultLink'
  BY CycleWalk
<1>3. ftq' \subseteq FtqIds /\ IdLink'
  BY CycleIds
<1>4. Chain'
  BY CycleChain
<1>5. /\ pc_reg' \in Pcs /\ next' \in Pcs
      /\ req' \in Seq(Requests) /\ Len(req') <= REQ_DEPTH
      /\ inf' \in Seq(Requests) /\ Len(inf') <= INF_DEPTH
      /\ fq' \in Seq(Bundle)
      /\ CodeIsOfItsPc' /\ RoomForEveryAnswer'
  BY CycleQueues
<1>6. fetch_epoch' \in 0 .. EPOCHS - 1 /\ xlate' \in BOOLEAN
  BY DEF OneCycle, Fetch, FetchInv, Types
<1>7. Types'
  BY <1>1, <1>2, <1>3, <1>5, <1>6 DEF Types, IcRecords
<1> QED BY <1>1, <1>2, <1>3, <1>4, <1>5, <1>7 DEF FetchInv

-----------------------------------------------------------------------------
(* Flushes.                                                                *)

\* After a flush the path is empty, or the one request made in the flush cycle itself.
LEMMA FlushKeeps ==
    ASSUME FetchInv, NEW mem \in BOOLEAN, FlushQueues(mem),
           pc_reg' \in Pcs, next' \in Pcs, xlate' \in BOOLEAN,
           walker' \in [walk : SUBSET Pcs, resp : SUBSET Answered],
           \/ req' = <<>> /\ ftq' = {} /\ next' = pc_reg'
           \/ req' = <<Request(next', pc_reg', 0, fetch_epoch')>> /\ ftq' = {0}
    PROVE  FetchInv'
<1>1. /\ inf' = <<>> /\ fq' = <<>> /\ ic' = IcAfter({}, mem, TRUE)
      /\ mmu' = IdleMmu /\ fault' = NoFault /\ fetch_epoch' = flush_next_epoch
  BY DEF FlushQueues
<1>2. ic' \in IcRecords /\ MissHasLine' /\ ic'.rsp = {} /\ (ic'.state # "IDLE" => ic'.req_killed)
  BY <1>1, IcFlushed
<1>3. CacheLink'
  BY <1>1, <1>2 DEF CacheLink
<1>4. WalkLink' /\ FaultLink'
  BY <1>1 DEF WalkLink, FaultLink, IdleMmu, NoFault
<1>5. fetch_epoch' \in 0 .. EPOCHS - 1
  BY <1>1, Depths DEF flush_next_epoch, FetchInv, Types
<1>6. 0 \in FtqIds
  BY Depths DEF FtqIds
<1>7. /\ mmu' \in [state : MmuStates, paddr : Pcs]
      /\ fault' \in [pending : BOOLEAN, wait_flush : BOOLEAN, pc : Pcs]
  BY <1>1, Depths DEF IdleMmu, NoFault, MmuStates
<1>8. CodeIsOfItsPc' /\ RoomForEveryAnswer'
  BY <1>1, Depths DEF CodeIsOfItsPc, RoomForEveryAnswer, Elements
<1>9. ~fault'.wait_flush /\ Len(fq') = 0 /\ Len(inf') = 0
  BY <1>1 DEF NoFault
<1>10. PathLen' = Len(req') /\ PathEnd' = pc_reg'
  <2>1. Len(req') \in Nat
    OBVIOUS
  <2> QED BY <1>9, <2>1 DEF PathLen, PathEnd
<1>11. inf' \in Seq(Requests) /\ fq' \in Seq(Bundle) /\ Len(inf') <= INF_DEPTH
  BY <1>1, <1>9, Depths
<1>12. CASE req' = <<>> /\ ftq' = {} /\ next' = pc_reg'
  <2>1. Len(req') = 0 /\ req' \in Seq(Requests) /\ Len(req') <= REQ_DEPTH
    BY <1>12, Depths
  <2>2. IdLink'
    BY <1>1, <1>12, FS_EmptySet DEF IdLink
  <2>3. Chain'
    BY <1>10, <1>12, <2>1 DEF Chain, ArrivesAt, GoesOnAt
  <2>4. ftq' \subseteq FtqIds
    BY <1>12
  <2>5. Types'
    BY <1>2, <1>5, <1>7, <1>11, <2>1, <2>4 DEF Types, IcRecords
  <2> QED BY <1>2, <1>3, <1>4, <1>8, <2>2, <2>3, <2>5 DEF FetchInv
<1>13. CASE req' = <<Request(next', pc_reg', 0, fetch_epoch')>> /\ ftq' = {0}
  <2> DEFINE r == Request(next', pc_reg', 0, fetch_epoch')
  <2>1. r \in Requests /\ r.pc = next' /\ r.npc = pc_reg' /\ r.id = 0 /\ r.epoch = fetch_epoch'
    BY <1>5, <1>6 DEF Request, Requests
  <2> HIDE DEF r
  <2>2. Len(req') = 1 /\ req' \in Seq(Requests) /\ Len(req') <= REQ_DEPTH /\ req'[1] = r
    BY <1>13, <2>1, Depths DEF r
  <2>3. IdLink'
    <3>1. Cardinality(ftq') = 1
      BY <1>13, FS_Singleton
    <3>2. ftq' = {req'[i].id : i \in 1 .. Len(req')}
      BY <1>13, <2>1, <2>2
    <3>3. {inf'[i].id : i \in 1 .. Len(inf')} = {}
      BY <1>9
    <3> QED BY <1>9, <2>1, <2>2, <3>1, <3>2, <3>3 DEF IdLink
  <2>4. Chain'
    <3>1. PathLen' = 1
      BY <1>10, <2>2
    <3>2. PathPc(1)' = next' /\ PathNpc(1)' = pc_reg'
      BY <1>9, <2>1, <2>2 DEF PathPc, PathNpc
    <3>3. ArrivesAt(0)' = GoesOnAt(0)'
      BY <3>1, <3>2 DEF ArrivesAt, GoesOnAt
    <3>4. ArrivesAt(1)' = GoesOnAt(1)'
      BY <1>10, <3>1, <3>2 DEF ArrivesAt, GoesOnAt
    <3>5. \A i \in 0 .. 1 : i = 0 \/ i = 1
      OBVIOUS
    <3>6. \A i \in 0 .. 1 : ArrivesAt(i)' = GoesOnAt(i)'
      BY <3>3, <3>4, <3>5
    <3> QED BY <3>1, <3>6 DEF Chain
  <2>5. ftq' \subseteq FtqIds
    BY <1>6, <1>13
  <2>6. Types'
    BY <1>2, <1>5, <1>7, <1>11, <2>2, <2>5 DEF Types, IcRecords
  <2> QED BY <1>2, <1>3, <1>4, <1>8, <2>3, <2>4, <2>6 DEF FetchInv
<1> QED BY <1>12, <1>13

\* The inputs varied in a state are those their types allow.
LEMMA ChoicesAre ==
    ASSUME FetchInv
    PROVE  /\ LineChoices \subseteq 0 .. MaxLines /\ MemChoices \subseteq BOOLEAN
           /\ ReadyChoices \subseteq BOOLEAN
<1>1. LineChoices \subseteq 0 .. MaxLines
  <2>1. {0} \subseteq 0 .. MaxLines
    BY Depths
  <2> QED BY <2>1 DEF LineChoices
<1>2. MemChoices \subseteq BOOLEAN
  BY Zenon DEF MemChoices
<1>3. ReadyChoices \subseteq BOOLEAN
  BY Zenon DEF ReadyChoices
<1> QED BY <1>1, <1>2, <1>3

\* A redirect keeps the invariant.
LEMMA RedirectKeeps ==
    ASSUME FetchInv, NEW redirect_pc \in Pcs, NEW bpu \in AtMostOne(Pcs), NEW mem \in BOOLEAN,
           NEW w \in WalkerChoices, NEW fault_ready \in BOOLEAN, NEW mode \in Translation,
           Redirect(redirect_pc, bpu, mem, w, fault_ready, mode)
    PROVE  FetchInv'
<1> DEFINE enq == ~fault.pending /\ ~fault.wait_flush /\ bpu # {}
           npc == CHOOSE p \in bpu : TRUE
<1>1. /\ FlushQueues(mem) /\ walker' = w /\ next' = redirect_pc /\ xlate' = mode
      /\ req' = IF enq THEN <<Request(bpu_query_pc({redirect_pc}), npc, 0, flush_next_epoch)>>
                ELSE <<>>
      /\ pc_reg' = (IF enq THEN npc ELSE redirect_pc) /\ ftq' = IF enq THEN {0} ELSE {}
  BY DEF Redirect
<1>2. bpu_query_pc({redirect_pc}) = redirect_pc
  BY ChooseOnly DEF bpu_query_pc
<1>3. enq => npc \in Pcs
  <2>1. bpu # {} => \E p \in Pcs : bpu = {p}
    BY DEF AtMostOne
  <2> QED BY <2>1, ChooseOnly
<1>4. w \in [walk : SUBSET Pcs, resp : SUBSET Answered] /\ mode \in BOOLEAN
  BY WalkerMoves, Depths
<1>5. fetch_epoch' = flush_next_epoch
  BY <1>1 DEF FlushQueues
<1> HIDE DEF npc, enq
<1>6. CASE enq
  <2>1. req' = <<Request(next', pc_reg', 0, fetch_epoch')>> /\ ftq' = {0} /\ pc_reg' \in Pcs
    BY <1>1, <1>2, <1>3, <1>5, <1>6
  <2> QED BY <1>1, <1>4, <2>1, FlushKeeps
<1>7. CASE ~enq
  <2>1. req' = <<>> /\ ftq' = {} /\ next' = pc_reg' /\ pc_reg' \in Pcs
    BY <1>1, <1>7
  <2> QED BY <1>1, <1>4, <2>1, FlushKeeps
<1> QED BY <1>6, <1>7

\* A local flush keeps the invariant.
LEMMA FenceKeeps ==
    ASSUME FetchInv, NEW mem \in BOOLEAN, NEW mode \in BOOLEAN, LocalFlush(mem, mode)
    PROVE  FetchInv'
<1>1. /\ FlushQueues(mem) /\ req' = <<>> /\ pc_reg' = local_mmu_replay_pc /\ ftq' = {}
      /\ walker' = IdleWalker /\ next' = pc_reg' /\ xlate' = mode
  BY DEF LocalFlush
<1>2. inf \in Seq(Requests) /\ req \in Seq(Requests) /\ pc_reg \in Pcs
  BY DEF FetchInv, Types
<1>3. local_mmu_replay_pc \in Pcs
  <2>1. inf # <<>> => Head(inf).pc \in Pcs
    <3>1. inf # <<>> => Head(inf) \in Requests
      BY <1>2, TailOf
    <3> QED BY <3>1 DEF Requests
  <2>2. req # <<>> => Head(req).pc \in Pcs
    <3>1. req # <<>> => Head(req) \in Requests
      BY <1>2, TailOf
    <3> QED BY <3>1 DEF Requests
  <2> QED BY <1>2, <2>1, <2>2 DEF local_mmu_replay_pc
<1>4. IdleWalker \in [walk : SUBSET Pcs, resp : SUBSET Answered]
  BY DEF IdleWalker
<1>5. pc_reg' \in Pcs /\ next' \in Pcs
  BY <1>1, <1>3
<1> QED BY <1>1, <1>2, <1>4, <1>5, FlushKeeps

-----------------------------------------------------------------------------
(* The theorems.                                                           *)

LEMMA FetchInvNext == FetchInv /\ [Next]_vars => FetchInv'
<1> SUFFICES ASSUME FetchInv, [Next]_vars PROVE FetchInv'
  OBVIOUS
<1>1. CASE Clock
  <2>1. PICK bpu \in AtMostOne(Pcs), mem \in MemChoices, w \in WalkerChoices, deq_ready \in BOOLEAN :
             \E lines \in LineChoices, fault_ready \in ReadyChoices, mode \in Modes :
                Fetch(bpu, lines, mem, w, deq_ready, fault_ready, mode)
    BY <1>1 DEF Clock, Cycles
  <2>2. PICK lines \in LineChoices, fault_ready \in ReadyChoices, mode \in Modes :
             Fetch(bpu, lines, mem, w, deq_ready, fault_ready, mode)
    BY <2>1
  <2>3. OneCycle(bpu, lines, mem, w, deq_ready, fault_ready, mode)
    <3>1. mode \in BOOLEAN /\ (xlate => mode)
      BY FetchAssumption DEF Modes, FetchInv, Types
    <3> QED BY <2>2, <3>1, ChoicesAre DEF OneCycle
  <2> QED BY <2>3, CycleKeeps
<1>2. CASE FlushClock
  <2>1. PICK redirect_pc \in Pcs, bpu \in AtMostOne(Pcs), mode \in Translation :
             \E mem \in MemChoices, w \in WalkerChoices, fault_ready \in ReadyChoices :
                Redirect(redirect_pc, bpu, mem, w, fault_ready, mode)
    BY <1>2 DEF FlushClock
  <2>2. PICK mem \in MemChoices, w \in WalkerChoices, fault_ready \in ReadyChoices :
             Redirect(redirect_pc, bpu, mem, w, fault_ready, mode)
    BY <2>1
  <2>3. mem \in BOOLEAN /\ fault_ready \in BOOLEAN
    BY ChoicesAre
  <2> QED BY <2>2, <2>3, RedirectKeeps
<1>3. CASE FenceClock
  <2>1. PICK mem \in MemChoices, mode \in Translation : LocalFlush(mem, mode)
    BY <1>3 DEF FenceClock
  <2>2. mem \in BOOLEAN /\ mode \in BOOLEAN
    BY ChoicesAre, FetchAssumption
  <2> QED BY <2>1, <2>2, FenceKeeps
<1>4. CASE UNCHANGED vars
  <2>1. /\ pc_reg' = pc_reg /\ fetch_epoch' = fetch_epoch /\ req' = req /\ inf' = inf /\ fq' = fq
        /\ ftq' = ftq /\ ic' = ic /\ mmu' = mmu /\ walker' = walker /\ fault' = fault
        /\ xlate' = xlate /\ next' = next
    BY <1>4 DEF vars
  <2>2. Types' /\ MissHasLine' /\ CacheLink'
    BY <2>1 DEF FetchInv, Types, MissHasLine, CacheLink
  <2>3. WalkLink' /\ FaultLink'
    BY <2>1 DEF FetchInv, WalkLink, FaultLink
  <2>4. IdLink'
    BY <2>1 DEF FetchInv, IdLink
  <2>5. Chain'
    <3>1. PathLen' = PathLen /\ PathEnd' = PathEnd
      BY <2>1 DEF PathLen, PathEnd
    <3>2. ASSUME NEW i PROVE ArrivesAt(i)' = ArrivesAt(i) /\ GoesOnAt(i)' = GoesOnAt(i)
      BY <2>1, <3>1 DEF ArrivesAt, GoesOnAt, PathPc, PathNpc
    <3> QED BY <3>1, <3>2 DEF Chain, FetchInv
  <2>6. CodeIsOfItsPc' /\ RoomForEveryAnswer'
    BY <2>1 DEF FetchInv, CodeIsOfItsPc, RoomForEveryAnswer, Elements
  <2> QED BY <2>2, <2>3, <2>4, <2>5, <2>6 DEF FetchInv
<1> QED BY <1>1, <1>2, <1>3, <1>4 DEF Next

\* The inductive invariant of the fetch unit, its cache and its walker: every cycle, redirect and
\* local flush keeps the three links, the order of the path and the room for the answers.
THEOREM FetchInvariant == Spec => []FetchInv
  BY FetchInvInit, FetchInvNext, PTL DEF Spec

\* The queues of ifu.sv never overflow and every register holds a value of its type.
THEOREM FetchTypeCorrect == Spec => []FTypeOK
<1>1. FetchInv => FTypeOK
  <2> SUFFICES ASSUME FetchInv PROVE FTypeOK
    OBVIOUS
  <2>1. Types /\ RoomForEveryAnswer
    BY DEF FetchInv
  <2>2. Len(fq) <= FQ_DEPTH
    BY <2>1, Depths DEF Types, RoomForEveryAnswer
  <2>3. Elements(req) \subseteq Requests /\ Elements(inf) \subseteq Requests /\ Elements(fq) \subseteq Bundle
    BY <2>1 DEF Types, Elements
  <2> QED BY <2>1, <2>2, <2>3 DEF Types, FTypeOK, IcStates, MmuStates
<1> QED BY <1>1, FetchInvariant, PTL

\* Whatever flush overtakes a cache miss or a page walk, a bundle of the fetch queue holds the code
\* of its own address: the responses icache.sv gives are those ifu.sv pairs them with.
THEOREM FetchedCodeRight == Spec => []CodeIsOfItsPc
<1>1. FetchInv => CodeIsOfItsPc
  BY DEF FetchInv
<1> QED BY <1>1, FetchInvariant, PTL

\* The budget of can_issue_req leaves a place for every answer: the $fatal about a dropped response
\* in ifu.sv is unreachable for every depth of the queues.
THEOREM NoResponseDropped == Spec => []RoomForEveryAnswer
<1>1. FetchInv => RoomForEveryAnswer
  BY DEF FetchInv
<1> QED BY <1>1, FetchInvariant, PTL

\* The bundles queued, in flight and waiting are the predicted stream, without a gap, a repetition or
\* anything left over from before a flush.
THEOREM FetchStreamUnbroken == Spec => []StreamUnbroken
<1>1. FetchInv => StreamUnbroken
  <2> SUFFICES ASSUME FetchInv PROVE StreamUnbroken
    OBVIOUS
  <2> DEFINE f == [i \in 1 .. Len(fq) |-> [pc |-> fq[i].pc, npc |-> fq[i].npc]]
             g == [i \in 1 .. Len(inf) |-> [pc |-> inf[i].pc, npc |-> inf[i].npc]]
             q == [i \in 1 .. Len(req) |-> [pc |-> req[i].pc, npc |-> req[i].npc]]
             h == IF fault.wait_flush THEN <<>> ELSE q
             B == [pc : Pcs, npc : Pcs]
  <2>1. /\ fq \in Seq(Bundle) /\ inf \in Seq(Requests) /\ req \in Seq(Requests) /\ Chain
        /\ Len(fq) \in Nat /\ Len(inf) \in Nat /\ Len(req) \in Nat
    BY DEF FetchInv, Types
  <2>2. f \in Seq(B) /\ Len(f) = Len(fq)
    <3>1. \A i \in 1 .. Len(fq) : fq[i] \in Bundle
      BY <2>1
    <3>2. \A i \in 1 .. Len(fq) : f[i] \in B
      BY <3>1 DEF Bundle
    <3>3. f = [i \in 1 .. Len(fq) |-> f[i]]
      OBVIOUS
    <3> HIDE DEF f, B
    <3> QED BY <2>1, <3>2, <3>3, SeqOf
  <2>3. g \in Seq(B) /\ Len(g) = Len(inf)
    <3>1. \A i \in 1 .. Len(inf) : inf[i] \in Requests
      BY <2>1
    <3>2. \A i \in 1 .. Len(inf) : g[i] \in B
      BY <3>1 DEF Requests
    <3>3. g = [i \in 1 .. Len(inf) |-> g[i]]
      OBVIOUS
    <3> HIDE DEF g, B
    <3> QED BY <2>1, <3>2, <3>3, SeqOf
  <2>4. q \in Seq(B) /\ Len(q) = Len(req)
    <3>1. \A i \in 1 .. Len(req) : req[i] \in Requests
      BY <2>1
    <3>2. \A i \in 1 .. Len(req) : q[i] \in B
      BY <3>1 DEF Requests
    <3>3. q = [i \in 1 .. Len(req) |-> q[i]]
      OBVIOUS
    <3> HIDE DEF q, B
    <3> QED BY <2>1, <3>2, <3>3, SeqOf
  <2>5. Path = (f \o g) \o h
    BY DEF Path
  <2>6. \A i \in 1 .. Len(fq) : f[i].pc = fq[i].pc /\ f[i].npc = fq[i].npc
    OBVIOUS
  <2>7. \A i \in 1 .. Len(inf) : g[i].pc = inf[i].pc /\ g[i].npc = inf[i].npc
    OBVIOUS
  <2>8. \A i \in 1 .. Len(req) : q[i].pc = req[i].pc /\ q[i].npc = req[i].npc
    OBVIOUS
  <2> HIDE DEF f, g, q, B
  <2>9. /\ h \in Seq(B) /\ Len(h) = (IF fault.wait_flush THEN 0 ELSE Len(req))
        /\ \A i \in 1 .. Len(h) : h[i].pc = req[i].pc /\ h[i].npc = req[i].npc
    <3>1. CASE fault.wait_flush
      BY <3>1
    <3>2. CASE ~fault.wait_flush
      BY <2>4, <2>8, <3>2
    <3> QED BY <3>1, <3>2
  <2> HIDE DEF h
  <2>10. /\ Len(Path) = PathLen /\ Len(Path) \in Nat /\ Len(Path) = Len(fq) + Len(inf) + Len(h)
         /\ \A i \in 1 .. Len(fq) : Path[i] = f[i]
         /\ \A i \in 1 .. Len(inf) : Path[Len(fq) + i] = g[i]
         /\ \A i \in 1 .. Len(h) : Path[Len(fq) + Len(inf) + i] = h[i]
    <3> DEFINE c == f \o g
    <3>1. /\ c \in Seq(B) /\ Len(c) = Len(fq) + Len(inf)
          /\ \A i \in 1 .. Len(fq) : c[i] = f[i]
          /\ \A i \in 1 .. Len(inf) : c[Len(fq) + i] = g[i]
      <4>1. /\ c \in Seq(B) /\ Len(c) = Len(f) + Len(g)
            /\ \A i \in 1 .. Len(f) : c[i] = f[i]
            /\ \A i \in 1 .. Len(g) : c[Len(f) + i] = g[i]
        <5>1. f \in Seq(B) /\ g \in Seq(B)
          BY <2>2, <2>3
        <5> QED BY <5>1
      <4> HIDE DEF c
      <4> QED BY <2>2, <2>3, <4>1
    <3> HIDE DEF c
    <3>2. /\ Len(Path) = Len(c) + Len(h)
          /\ \A i \in 1 .. Len(c) : Path[i] = c[i]
          /\ \A i \in 1 .. Len(h) : Path[Len(c) + i] = h[i]
      <4>1. Path = c \o h /\ c \in Seq(B) /\ h \in Seq(B)
        BY <2>5, <2>9, <3>1 DEF c
      <4>2. /\ Len(c \o h) = Len(c) + Len(h)
            /\ \A i \in 1 .. Len(c) : (c \o h)[i] = c[i]
            /\ \A i \in 1 .. Len(h) : (c \o h)[Len(c) + i] = h[i]
        BY <4>1
      <4> QED BY <4>1, <4>2, Zenon
    <3>3. Len(h) \in Nat
      BY <2>9
    <3>4. Len(Path) = Len(fq) + Len(inf) + Len(h) /\ Len(Path) \in Nat
      BY <2>1, <3>1, <3>2, <3>3
    <3>5. Len(Path) = PathLen
      <4>1. CASE fault.wait_flush
        BY <2>1, <2>9, <3>4, <4>1 DEF PathLen
      <4>2. CASE ~fault.wait_flush
        BY <2>1, <2>9, <3>4, <4>2 DEF PathLen
      <4> QED BY <4>1, <4>2
    <3>6. \A i \in 1 .. Len(fq) : Path[i] = f[i]
      BY <2>1, <3>1, <3>2
    <3>7. ASSUME NEW i \in 1 .. Len(inf) PROVE Path[Len(fq) + i] = g[i]
      <4>1. Len(fq) + i \in 1 .. Len(c)
        BY <2>1, <3>1
      <4> QED BY <3>1, <3>2, <4>1
    <3>8. \A i \in 1 .. Len(h) : Path[Len(fq) + Len(inf) + i] = h[i]
      BY <3>1, <3>2
    <3> QED BY <3>4, <3>5, <3>6, <3>7, <3>8
  <2>11. ASSUME NEW i \in 1 .. Len(Path)
         PROVE  Path[i].pc = PathPc(i) /\ Path[i].npc = PathNpc(i)
    <3>1. CASE i <= Len(fq)
      <4>1. i \in 1 .. Len(fq)
        BY <2>1, <2>10, <3>1
      <4> QED BY <2>6, <2>10, <3>1, <4>1 DEF PathPc, PathNpc
    <3>2. CASE ~(i <= Len(fq)) /\ i <= Len(fq) + Len(inf)
      <4>1. PICK j \in 1 .. Len(inf) : i = Len(fq) + j
        <5>1. i - Len(fq) \in 1 .. Len(inf) /\ i = Len(fq) + (i - Len(fq))
          BY <2>1, <2>10, <3>2
        <5> QED BY <5>1
      <4>2. Path[i].pc = inf[j].pc /\ Path[i].npc = inf[j].npc
        BY <2>7, <2>10, <4>1
      <4>3. i - Len(fq) = j
        BY <2>1, <4>1
      <4> QED BY <3>2, <4>2, <4>3 DEF PathPc, PathNpc
    <3>3. CASE ~(i <= Len(fq)) /\ ~(i <= Len(fq) + Len(inf))
      <4>1. PICK j \in 1 .. Len(h) : i = Len(fq) + Len(inf) + j
        <5>1. Len(h) \in Nat
          BY <2>9
        <5>2. i - Len(fq) - Len(inf) \in 1 .. Len(h) /\ i = Len(fq) + Len(inf) + (i - Len(fq) - Len(inf))
          BY <2>1, <2>10, <3>3, <5>1
        <5> QED BY <5>2
      <4>2. Path[i].pc = req[j].pc /\ Path[i].npc = req[j].npc
        BY <2>9, <2>10, <4>1
      <4>3. i - Len(fq) - Len(inf) = j
        BY <2>1, <4>1
      <4> QED BY <3>3, <4>2, <4>3 DEF PathPc, PathNpc
    <3> QED BY <3>1, <3>2, <3>3
  <2>12. ASSUME NEW i \in 0 .. Len(Path)
         PROVE  (IF i = 0 THEN next ELSE Path[i].npc)
                  = (IF i = Len(Path) THEN PathEnd ELSE Path[i + 1].pc)
    <3>1. ArrivesAt(i) = GoesOnAt(i)
      BY <2>1, <2>10 DEF Chain
    <3>2. ArrivesAt(i) = IF i = 0 THEN next ELSE Path[i].npc
      BY <2>10, <2>11 DEF ArrivesAt
    <3>3. GoesOnAt(i) = IF i = Len(Path) THEN PathEnd ELSE Path[i + 1].pc
      BY <2>10, <2>11 DEF GoesOnAt
    <3> QED BY <3>1, <3>2, <3>3
  <2> QED BY <2>12 DEF StreamUnbroken
<1> QED BY <1>1, FetchInvariant, PTL

\* ftq.sv gives out no identifier twice and loses none: those in use are those of the requests alive,
\* all of the current epoch.
THEOREM FtqIsExact == Spec => []FtqExact
<1>1. FetchInv => FtqExact
  <2> SUFFICES ASSUME FetchInv PROVE FtqExact
    OBVIOUS
  <2> DEFINE live == req \o inf
  <2>1. req \in Seq(Requests) /\ inf \in Seq(Requests) /\ Len(req) \in Nat /\ Len(inf) \in Nat
    BY DEF FetchInv, Types
  <2>2. /\ Len(live) = Len(req) + Len(inf)
        /\ \A i \in 1 .. Len(req) : live[i] = req[i]
        /\ \A i \in 1 .. Len(inf) : live[Len(req) + i] = inf[i]
        /\ \A i \in 1 .. Len(live) : i \notin 1 .. Len(req) =>
             i - Len(req) \in 1 .. Len(inf) /\ live[i] = inf[i - Len(req)]
    BY <2>1
  <2> HIDE DEF live
  <2>3. ftq = {live[i].id : i \in 1 .. Len(live)}
    <3>1. ASSUME NEW x \in ftq PROVE \E i \in 1 .. Len(live) : x = live[i].id
      <4>1. CASE \E i \in 1 .. Len(req) : x = req[i].id
        <5>1. PICK i \in 1 .. Len(req) : x = req[i].id
          BY <4>1
        <5>2. i \in 1 .. Len(live) /\ live[i] = req[i]
          BY <2>1, <2>2
        <5> QED BY <5>1, <5>2
      <4>2. CASE \E i \in 1 .. Len(inf) : x = inf[i].id
        <5>1. PICK i \in 1 .. Len(inf) : x = inf[i].id
          BY <4>2
        <5>2. Len(req) + i \in 1 .. Len(live) /\ live[Len(req) + i] = inf[i]
          BY <2>1, <2>2
        <5> QED BY <5>1, <5>2
      <4> QED BY <4>1, <4>2 DEF FetchInv, IdLink
    <3>2. ASSUME NEW i \in 1 .. Len(live) PROVE live[i].id \in ftq
      <4>1. CASE i \in 1 .. Len(req)
        BY <2>2, <4>1 DEF FetchInv, IdLink
      <4>2. CASE i \notin 1 .. Len(req)
        BY <2>2, <4>2 DEF FetchInv, IdLink
      <4> QED BY <4>1, <4>2
    <3> QED BY <3>1, <3>2
  <2>4. Cardinality(ftq) = Len(live)
    BY <2>2 DEF FetchInv, IdLink
  <2>5. ASSUME NEW i \in 1 .. Len(live) PROVE live[i].epoch = fetch_epoch
    <3>1. CASE i \in 1 .. Len(req)
      BY <2>2, <3>1 DEF FetchInv, IdLink
    <3>2. CASE i \notin 1 .. Len(req)
      BY <2>2, <3>2 DEF FetchInv, IdLink
    <3> QED BY <3>1, <3>2
  <2> QED BY <2>3, <2>4, <2>5 DEF FtqExact, live
<1> QED BY <1>1, FetchInvariant, PTL
=============================================================================
