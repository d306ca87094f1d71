---------------------------- MODULE DCacheProofs ----------------------------
(***************************************************************************)
(* Proofs about DCache, for every geometry of the cache, number of MSHRs   *)
(* and lanes, and size of the memory.                                      *)
(***************************************************************************)
EXTENDS DCache, FiniteSetTheorems, WellFoundedInduction, TLAPS

LoadReqs == [is_store : {FALSE}, line : Lines, word : Words, lane : Lanes]
StoreReqs == [is_store : {TRUE}, line : Stored, word : Words, val : Vals]
Stores == [valid : {TRUE}, line : Stored, word : Words, val : Vals]
Txns == [valid : {TRUE}, line : Lines, way : Ways, data : Datas, delay : 0 .. DELAY]
Entries == [valid : BOOLEAN, dirty : BOOLEAN, line : Lines, data : Datas]
Storing == {"STORE_WRITE", "WB_REQ", "MISS_REQ", "WAIT_REFILL"}

\* The types of the state; the registers of a request are whole while it is worked on.
DTypes ==
    /\ state \in {"IDLE", "LOOKUP", "RESP"} \cup Storing
    /\ req \in [is_store : BOOLEAN] \cup LoadReqs \cup StoreReqs
    /\ state = "LOOKUP" => req \in LoadReqs \cup StoreReqs
    /\ state \in Storing => req \in StoreReqs
    /\ pend \in Loads \cup {None} /\ mshr \in [MshrIds -> Mshrs \cup {None}]
    /\ cache \in [0 .. SETS - 1 -> [Ways -> Entries]]
    /\ victim \in [way : Ways, line : Lines, data : Datas] /\ store_hit_way \in Ways
    /\ rsp \in [lane : Lanes, val : Vals] /\ pulsed \in BOOLEAN
    /\ q \in Seq(Txns)
    /\ mem \in [Lines -> Datas] /\ arch \in [Lines -> Datas]
    /\ st_req \in Stores \cup {None}
    /\ live \in [Lanes -> Loads \cup {None}]

\* A store has the cache to itself, and a load waits behind a response only.
Exclusive ==
    /\ req.is_store => mshr_empty /\ ~pend.valid /\ state # "RESP"
    /\ state = "LOOKUP" => ~pend.valid

\* Whichever place holds a load holds the one its lane waits for; the places hold different lanes;
\* and every load waited for is in one of them.
Load(m) == [valid |-> TRUE, line |-> m.line, word |-> m.word, lane |-> m.lane]
LookingUp == state = "LOOKUP" /\ ~req.is_store
HoldsLoad ==
    /\ \A j \in Valid : live[mshr[j].lane] = Load(mshr[j])
    /\ pend.valid => live[pend.lane] = pend
    /\ state = "RESP" => live[rsp.lane].valid
    /\ LookingUp => live[req.lane] = Load(req)
Apart ==
    /\ \A j, k \in Valid : mshr[j].lane = mshr[k].lane => j = k
    /\ \A j \in Valid : /\ pend.valid => pend.lane # mshr[j].lane
                        /\ state = "RESP" => rsp.lane # mshr[j].lane
                        /\ LookingUp => req.lane # mshr[j].lane
    /\ state = "RESP" /\ pend.valid => pend.lane # rsp.lane
Placed ==
    \A i \in Lanes : live[i].valid =>
         \/ \E j \in Valid : mshr[j].lane = i
         \/ pend.valid /\ pend.lane = i
         \/ state = "RESP" /\ rsp.lane = i
         \/ LookingUp /\ req.lane = i
Places == HoldsLoad /\ Apart /\ Placed

\* A load that is looked up, or will be, is of no line that an MSHR has asked for.
NoSecondMiss ==
    /\ LookingUp => OnLine(req.line) = {}
    /\ pend.valid => OnLine(pend.line) = {}
    /\ \A j, k \in Valid : mshr[j].line = mshr[k].line => j = k

ControlInv == DTypes /\ Exclusive /\ Places /\ NoSecondMiss

\* The data that may stand for a line: with the store that is worked on it is what the stores have made.
Now(l, d) == IF Working /\ req.line = l THEN Merge(d, req) ELSE d
Good == [l \in Lines |-> {d \in Datas : \A w \in Words : Now(l, d)[w] \in Current(l, w)}]
Cached == {l \in Lines : \E s \in 0 .. SETS - 1, w \in Ways : cache[s][w].valid /\ cache[s][w].line = l}

\* A line is in its own set, once; and memory is behind a line only if a way holds it dirty.
Homes ==
    /\ \A s \in 0 .. SETS - 1, w \in Ways : cache[s][w].valid => Index(cache[s][w].line) = s
    /\ \A s \in 0 .. SETS - 1 : \A w, v \in Ways :
         cache[s][w].valid /\ cache[s][v].valid /\ cache[s][w].line = cache[s][v].line => w = v
Contents ==
    /\ \A s \in 0 .. SETS - 1, w \in Ways : LET e == cache[s][w] IN
         e.valid => e.data \in Good[e.line] /\ (e.dirty \/ mem[e.line] \in Good[e.line])
    /\ \A l \in Lines \ Cached : mem[l] \in Good[l]

\* What the refill of an MSHR will overwrite is in memory, or is written back before: at the latest
\* in the cycle of the refill, for at most one MSHR has its victim to write back.
Victims ==
    /\ \A j \in Valid : LET e == cache[Index(mshr[j].line)][mshr[j].way] IN
         /\ mshr[j].line \notin Cached
         /\ ~mshr[j].wb_done => mshr[j].vdata \in Good[mshr[j].vline]
         /\ e.valid /\ (mshr[j].wb_done \/ e.line # mshr[j].vline) => mem[e.line] \in Good[e.line]
    /\ \A j, k \in WbCandidates : j = k

\* The same of the store that is worked on.
StoreVictim ==
    /\ state \in {"WB_REQ", "MISS_REQ", "WAIT_REFILL"} => req.line \notin Cached
    /\ state = "WB_REQ" => /\ victim.data \in Good[victim.line]
                           /\ cache[Index(req.line)][victim.way].line = victim.line
    /\ state \in {"MISS_REQ", "WAIT_REFILL"} => LET e == cache[Index(req.line)][victim.way] IN
         e.valid => mem[e.line] \in Good[e.line]
    /\ state = "STORE_WRITE" => LET e == cache[Index(req.line)][store_hit_way] IN
         e.valid /\ e.line = req.line

\* A refill on its way is current and about to be driven; while a store is worked on there is none
\* but its own.
QueueOk ==
    /\ \A i \in 1 .. Len(q) : q[i].data \in Good[q[i].line] /\ q[i].delay <= 1
    /\ Working => IF state = "WAIT_REFILL" THEN Len(q) = 1 /\ q[1].line = req.line /\ q[1].way = victim.way
                  ELSE q = <<>>

RspOk == state = "RESP" => rsp.val \in Current(live[rsp.lane].line, live[rsp.lane].word)

DataInv == ControlInv /\ Homes /\ Contents /\ Victims /\ StoreVictim /\ QueueOk /\ RspOk

-----------------------------------------------------------------------------
(* Facts about the operators of the model.                                 *)

LEMMA Geometry ==
    /\ Lines \subseteq Nat /\ Lines # {} /\ Stored \subseteq Lines /\ SETS \in Nat /\ SETS > 0
    /\ Ways \subseteq Nat /\ 0 \in Ways /\ Words # {} /\ Vals # {} /\ Lanes # {}
    /\ DELAY \in Nat /\ DELAY > 0 /\ N_MSHR \in Nat /\ MshrIds \subseteq Nat
    /\ IsFiniteSet(Lanes) /\ Cardinality(Lanes) <= N_MSHR
  BY DCacheAssumption DEF MshrIds

LEMMA MinIn ==
    ASSUME NEW S \in SUBSET Nat, S # {}
    PROVE  Min(S) \in S
<1> DEFINE R == OpToRel(<, Nat)
<1>1. IsWellFoundedOn(R, Nat)
  BY NatLessThanWellFounded, Zenon
<1>2. \A x, y \in Nat : ~ (<<y, x>> \in R) => x <= y
  BY DEF OpToRel
<1> HIDE DEF R
<1>3. PICK x \in S : \A y \in S : ~ (<<y, x>> \in R)
  BY <1>1, WFMin
<1>4. \A y \in S : x <= y
  BY <1>2, <1>3
<1> QED BY <1>4 DEF Min

LEMMA Defaults ==
    /\ NoVictim \in [way : Ways, line : Lines, data : Datas]
    /\ NoRsp \in [lane : Lanes, val : Vals] /\ Min(Lines) \in Lines
<1>1. Min(Lines) \in Lines
  BY Geometry, MinIn
<1>2. (CHOOSE v \in Vals : TRUE) \in Vals /\ (CHOOSE i \in Lanes : TRUE) \in Lanes
  BY Geometry
<1>3. [w \in Words |-> CHOOSE v \in Vals : TRUE] \in Datas
  BY <1>2 DEF Datas
<1> QED BY <1>1, <1>2, <1>3, Geometry DEF NoVictim, NoRsp

\* The set of a line is one of the cache.
LEMMA IndexIs == \A l \in Lines : Index(l) \in 0 .. SETS - 1
  BY Geometry DEF Index

\* A register that is valid holds a whole request.
LEMMA RegistersAre ==
    ASSUME DTypes
    PROVE  /\ st_req.valid \in BOOLEAN /\ pend.valid \in BOOLEAN
           /\ st_req.valid => st_req \in Stores /\ st_req.line \in Lines /\ st_req.word \in Words
                              /\ st_req.val \in Vals
           /\ pend.valid => pend \in Loads
           /\ ~pend.valid => pend = None
           /\ \A i \in Lanes : live[i].valid \in BOOLEAN /\ (live[i].valid => live[i] \in Loads)
<1>1. ~None.valid /\ None.valid \in BOOLEAN
  BY DEF None
<1>2. st_req \in Stores \/ st_req = None
  BY DEF DTypes
<1>3. pend \in Loads \/ pend = None
  BY DEF DTypes
<1>4. \A i \in Lanes : live[i] \in Loads \/ live[i] = None
  BY DEF DTypes
<1>5. \A x \in Stores : x.valid = TRUE /\ x.line \in Lines /\ x.word \in Words /\ x.val \in Vals
  BY Geometry DEF Stores
<1>6. \A x \in Loads : x.valid = TRUE
  BY DEF Loads
<1>7. st_req.valid \in BOOLEAN /\ (st_req.valid => st_req \in Stores)
  BY <1>1, <1>2, <1>5
<1>8. pend.valid \in BOOLEAN /\ (pend.valid => pend \in Loads) /\ (~pend.valid => pend = None)
  BY <1>1, <1>3, <1>6
<1>9. \A i \in Lanes : live[i].valid \in BOOLEAN /\ (live[i].valid => live[i] \in Loads)
  BY <1>1, <1>4, <1>6
<1> QED BY <1>5, <1>7, <1>8, <1>9

\* An MSHR is free or holds a whole request.
LEMMA ValidIs ==
    ASSUME mshr \in [MshrIds -> Mshrs \cup {None}]
    PROVE  /\ Valid \subseteq MshrIds /\ Valid \subseteq Nat
           /\ \A j \in Valid : mshr[j] \in Mshrs
           /\ \A j \in MshrIds : mshr[j].valid \in BOOLEAN /\ (j \notin Valid => mshr[j] = None)
<1>1. Valid \subseteq MshrIds
  BY DEF Valid
<1>2. None.valid = FALSE
  BY DEF None
<1>3. \A m \in Mshrs : m.valid = TRUE
  BY DEF Mshrs
<1>4. ASSUME NEW j \in MshrIds
      PROVE  mshr[j].valid \in BOOLEAN /\ (j \in Valid => mshr[j] \in Mshrs)
             /\ (j \notin Valid => mshr[j] = None)
  <2>1. mshr[j] \in Mshrs \/ mshr[j] = None
    OBVIOUS
  <2> QED BY <1>2, <1>3, <2>1 DEF Valid
<1> QED BY <1>1, <1>4, Geometry

\* In a cycle an MSHR writes back or sends its miss, and keeps its request and its victim.
SameButFor(m, n) ==
    /\ m.way = n.way /\ m.vline = n.vline /\ m.vdata = n.vdata
    /\ m.line = n.line /\ m.word = n.word /\ m.lane = n.lane /\ (n.wb_done => m.wb_done)
LEMMA AdvanceIs ==
    ASSUME mshr \in [MshrIds -> Mshrs \cup {None}]
    PROVE  /\ MshrAdvanced \in [MshrIds -> Mshrs \cup {None}]
           /\ \A j \in MshrIds \ Valid : MshrAdvanced[j] = None
           /\ \A j \in Valid : /\ MshrAdvanced[j] \in Mshrs /\ SameButFor(MshrAdvanced[j], mshr[j])
                               /\ MshrAdvanced[j].wb_done /\ ~mshr[j].wb_done =>
                                    state # "WB_REQ" /\ WbCandidates # {} /\ j = Min(WbCandidates)
<1> USE ValidIs
<1>1. CASE state # "WB_REQ" /\ WbCandidates # {}
  <2>1. PICK i \in Valid : i = Min(WbCandidates)
    <3>1. WbCandidates \subseteq Valid
      BY DEF WbCandidates
    <3>2. WbCandidates \in SUBSET Nat
      BY <3>1
    <3> QED BY <1>1, <3>1, <3>2, MinIn
  <2>2. MshrAdvanced = [mshr EXCEPT ![i].wb_done = TRUE]
    BY <1>1, <2>1 DEF MshrAdvanced
  <2>3. [mshr[i] EXCEPT !.wb_done = TRUE] \in Mshrs
    BY DEF Mshrs
  <2>4. SameButFor([mshr[i] EXCEPT !.wb_done = TRUE], mshr[i])
    BY DEF Mshrs, SameButFor
  <2>5. \A j \in Valid : SameButFor(mshr[j], mshr[j])
    BY DEF SameButFor
  <2> QED BY <1>1, <2>1, <2>2, <2>3, <2>4, <2>5
<1>2. CASE ~(state # "WB_REQ" /\ WbCandidates # {}) /\ state # "MISS_REQ" /\ WbCandidates = {} /\ MissCandidates # {}
  <2>1. PICK i \in Valid : i = Min(MissCandidates)
    <3>1. MissCandidates \subseteq Valid
      BY DEF MissCandidates
    <3>2. MissCandidates \in SUBSET Nat
      BY <3>1
    <3> QED BY <1>2, <3>1, <3>2, MinIn
  <2>2. MshrAdvanced = [mshr EXCEPT ![i].miss_sent = TRUE]
    BY <1>2, <2>1 DEF MshrAdvanced
  <2>3. /\ [mshr[i] EXCEPT !.miss_sent = TRUE] \in Mshrs
        /\ [mshr[i] EXCEPT !.miss_sent = TRUE].wb_done = mshr[i].wb_done
    BY DEF Mshrs
  <2>4. SameButFor([mshr[i] EXCEPT !.miss_sent = TRUE], mshr[i])
    BY DEF Mshrs, SameButFor
  <2>5. \A j \in Valid : SameButFor(mshr[j], mshr[j])
    BY DEF SameButFor
  <2> QED BY <2>1, <2>2, <2>3, <2>4, <2>5
<1>3. CASE MshrAdvanced = mshr
  BY <1>3 DEF SameButFor
<1> QED BY <1>1, <1>2, <1>3 DEF MshrAdvanced

-----------------------------------------------------------------------------
(* The memory's side of a cycle.                                           *)

\* The requests to memory are well formed.
LEMMA OutputsAre ==
    ASSUME DTypes, NEW seen \in BOOLEAN
    PROVE  /\ wb_req(seen) # None => /\ wb_req(seen).valid /\ wb_req(seen).line \in Lines
                                     /\ wb_req(seen).data \in Datas
           /\ miss_req(seen) # None => /\ miss_req(seen).valid /\ miss_req(seen).line \in Lines
                                       /\ miss_req(seen).way \in Ways
           /\ ~None.valid
<1>1. WbCandidates # {} => mshr[Min(WbCandidates)] \in Mshrs
  <2>1. WbCandidates \in SUBSET Nat /\ WbCandidates \subseteq Valid
    BY ValidIs DEF WbCandidates, DTypes
  <2> QED BY <2>1, MinIn, ValidIs DEF DTypes
<1>2. MissCandidates # {} => mshr[Min(MissCandidates)] \in Mshrs
  <2>1. MissCandidates \in SUBSET Nat /\ MissCandidates \subseteq Valid
    BY ValidIs DEF MissCandidates, DTypes
  <2> QED BY <2>1, MinIn, ValidIs DEF DTypes
<1>3. victim \in [way : Ways, line : Lines, data : Datas] /\ (state = "MISS_REQ" => req.line \in Lines)
  BY Geometry DEF DTypes, Storing, StoreReqs
<1>4. wb_req(seen) # None => /\ wb_req(seen).valid /\ wb_req(seen).line \in Lines
                             /\ wb_req(seen).data \in Datas
  <2> DEFINE i == Min(WbCandidates)
  <2> HIDE DEF i
  <2>1. \/ wb_req(seen) = None
        \/ wb_req(seen) = [valid |-> TRUE, line |-> victim.line, data |-> victim.data]
        \/ /\ WbCandidates # {}
           /\ wb_req(seen) = [valid |-> TRUE, line |-> mshr[i].vline, data |-> mshr[i].vdata]
    BY DEF wb_req, i
  <2>2. WbCandidates # {} => mshr[i].vline \in Lines /\ mshr[i].vdata \in Datas
    BY <1>1 DEF Mshrs, i
  <2> QED BY <1>3, <2>1, <2>2
<1>5. miss_req(seen) # None => /\ miss_req(seen).valid /\ miss_req(seen).line \in Lines
                               /\ miss_req(seen).way \in Ways
  <2> DEFINE i == Min(MissCandidates)
  <2> HIDE DEF i
  <2>1. \/ miss_req(seen) = None
        \/ state = "MISS_REQ" /\ miss_req(seen) = [valid |-> TRUE, line |-> req.line, way |-> victim.way]
        \/ /\ MissCandidates # {}
           /\ miss_req(seen) = [valid |-> TRUE, line |-> mshr[i].line, way |-> mshr[i].way]
    BY DEF miss_req, i
  <2>2. MissCandidates # {} => mshr[i].line \in Lines /\ mshr[i].way \in Ways
    BY <1>2 DEF Mshrs, i
  <2> QED BY <1>3, <2>1, <2>2
<1> QED BY <1>4, <1>5 DEF None

\* The queue of the memory after this cycle's miss and countdown.
LEMMA QueuedIs ==
    ASSUME DTypes, NEW seen \in BOOLEAN
    PROVE  /\ Queued(seen) \in Seq(Txns) /\ Len(q) \in Nat
           /\ Len(Queued(seen)) = Len(q) + (IF miss_req(seen) = None THEN 0 ELSE 1)
           /\ \A i \in 1 .. Len(q) :
                /\ Queued(seen)[i].line = q[i].line /\ Queued(seen)[i].way = q[i].way
                /\ Queued(seen)[i].data = q[i].data
                /\ Queued(seen)[i].delay = IF q[i].delay > 0 THEN q[i].delay - 1 ELSE 0
           /\ miss_req(seen) # None =>
                LET t == Queued(seen)[Len(q) + 1]
                IN  /\ t.line = miss_req(seen).line /\ t.way = miss_req(seen).way
                    /\ t.data = mem[miss_req(seen).line] /\ t.delay = DELAY - 1
<1> DEFINE m == miss_req(seen)
           t == [valid |-> TRUE, line |-> m.line, way |-> m.way, data |-> mem[m.line], delay |-> DELAY]
           all == q \o (IF m.valid THEN <<t>> ELSE <<>>)
           Down(x) == [x EXCEPT !.delay = IF @ > 0 THEN @ - 1 ELSE 0]
<1>1. q \in Seq(Txns) /\ mem \in [Lines -> Datas] /\ Len(q) \in Nat
  BY DEF DTypes
<1>2. m # None => m.valid /\ m.line \in Lines /\ m.way \in Ways
  BY OutputsAre
<1>3. m = None => ~m.valid
  BY OutputsAre
<1>4. m # None => t \in Txns
  BY <1>1, <1>2, Geometry DEF Txns
<1>5. Queued(seen) = [i \in 1 .. Len(all) |-> Down(all[i])]
  BY DEF Queued
<1>6. ASSUME NEW x \in Txns
      PROVE  /\ Down(x) \in Txns /\ Down(x).line = x.line /\ Down(x).way = x.way /\ Down(x).data = x.data
             /\ Down(x).delay = IF x.delay > 0 THEN x.delay - 1 ELSE 0
  <2>1. x.delay \in 0 .. DELAY
    BY DEF Txns
  <2>2. (IF x.delay > 0 THEN x.delay - 1 ELSE 0) \in 0 .. DELAY
    BY <2>1, Geometry
  <2> QED BY <2>2 DEF Txns
<1>7. m # None => t.line = m.line /\ t.way = m.way /\ t.data = mem[m.line] /\ t.delay = DELAY
  OBVIOUS
<1> HIDE DEF m, t, Down
<1>8. /\ all \in Seq(Txns) /\ Len(all) = Len(q) + (IF m = None THEN 0 ELSE 1)
      /\ \A i \in 1 .. Len(q) : all[i] = q[i]
      /\ m # None => all[Len(q) + 1] = t
  <2>1. CASE m = None
    BY <1>1, <1>3, <2>1
  <2>2. CASE m # None
    BY <1>1, <1>2, <1>4, <2>2
  <2> QED BY <2>1, <2>2
<1> HIDE DEF all
<1>9. Len(all) \in Nat /\ \A i \in 1 .. Len(all) : all[i] \in Txns
  BY <1>8
<1>10. /\ Queued(seen) \in Seq(Txns) /\ Len(Queued(seen)) = Len(all)
       /\ \A i \in 1 .. Len(all) : Queued(seen)[i] = Down(all[i])
  BY <1>5, <1>6, <1>9
<1>11. \A i \in 1 .. Len(q) : i \in 1 .. Len(all) /\ q[i] \in Txns
  BY <1>1, <1>8
<1>12. \A i \in 1 .. Len(q) :
         /\ Queued(seen)[i].line = q[i].line /\ Queued(seen)[i].way = q[i].way
         /\ Queued(seen)[i].data = q[i].data
         /\ Queued(seen)[i].delay = IF q[i].delay > 0 THEN q[i].delay - 1 ELSE 0
  BY <1>6, <1>8, <1>10, <1>11
<1>13. ASSUME m # None
       PROVE  LET u == Queued(seen)[Len(q) + 1]
              IN  u.line = m.line /\ u.way = m.way /\ u.data = mem[m.line] /\ u.delay = DELAY - 1
  <2>1. Len(q) + 1 \in 1 .. Len(all) /\ all[Len(q) + 1] = t
    BY <1>1, <1>8, <1>13
  <2>2. Queued(seen)[Len(q) + 1] = Down(t)
    BY <1>10, <2>1
  <2>3. Down(t).delay = DELAY - 1
    BY <1>4, <1>6, <1>7, <1>13, Geometry
  <2> QED BY <1>4, <1>6, <1>7, <1>13, <2>2, <2>3
<1>14. /\ Queued(seen) \in Seq(Txns) /\ Len(Queued(seen)) = Len(q) + (IF m = None THEN 0 ELSE 1)
  BY <1>8, <1>10
<1> QED BY <1>1, <1>12, <1>13, <1>14 DEF m

\* The refill of a cycle is the head of that queue.
LEMMA RefillIs ==
    ASSUME DTypes, NEW seen \in BOOLEAN
    PROVE  /\ Refill(seen) \in Txns \cup {None} /\ (Refill(seen).valid <=> Due(seen))
           /\ Due(seen) => /\ Refill(seen) \in Txns /\ Refill(seen) = Queued(seen)[1]
                           /\ Queued(seen) # <<>> /\ Len(Queued(seen)) \in Nat \ {0}
<1>1. Queued(seen) \in Seq(Txns)
  BY QueuedIs
<1>2. Due(seen) => Queued(seen) # <<>> /\ Len(Queued(seen)) \in Nat \ {0} /\ Queued(seen)[1] \in Txns
  BY <1>1 DEF Due
<1>3. \A t \in Txns : t.valid
  BY DEF Txns
<1>4. CASE Due(seen)
  BY <1>2, <1>3, <1>4 DEF Refill
<1>5. CASE ~Due(seen)
  BY <1>5 DEF Refill, None
<1> QED BY <1>4, <1>5

LEMMA MergeIs ==
    ASSUME NEW d \in Datas, NEW r, r.word \in Words, r.val \in Vals
    PROVE  /\ Merge(d, r) \in Datas
           /\ \A w \in Words : Merge(d, r)[w] = IF w = r.word THEN r.val ELSE d[w]
  BY DEF Merge, Datas

\* The memory and its queue stay well formed.
LEMMA MemoryTyped ==
    ASSUME DTypes, NEW ld, NEW seen \in BOOLEAN, Memory(ld, seen)
    PROVE  q' \in Seq(Txns) /\ pulsed' \in BOOLEAN /\ mem' \in [Lines -> Datas]
<1>1. Queued(seen) \in Seq(Txns)
  BY QueuedIs
<1>2. q' \in Seq(Txns)
  <2>1. CASE Due(seen)
    <3>1. Queued(seen) # <<>>
      BY <2>1, RefillIs
    <3> QED BY <1>1, <2>1, <3>1 DEF Memory
  <2>2. CASE ~Due(seen)
    BY <1>1, <2>2 DEF Memory
  <2> QED BY <2>1, <2>2
<1>3. pulsed' \in BOOLEAN
  BY DEF Memory, Due
<1>4. WrittenBack(seen) \in [Lines -> Datas]
  <2>1. mem \in [Lines -> Datas]
    BY DEF DTypes
  <2>2. wb_req(seen).valid => wb_req(seen).line \in Lines /\ wb_req(seen).data \in Datas
    BY OutputsAre
  <2> QED BY <2>1, <2>2 DEF WrittenBack
<1>5. LooksAccepted(ld, seen) => st_req \in Stores /\ st_req.line \in Lines
  BY RegistersAre DEF LooksAccepted
<1>6. ASSUME LooksAccepted(ld, seen)
      PROVE  [WrittenBack(seen) EXCEPT ![st_req.line] = Merge(@, st_req)] \in [Lines -> Datas]
  <2>1. st_req.word \in Words /\ st_req.val \in Vals /\ st_req.line \in Lines
    BY <1>5, <1>6 DEF Stores
  <2>2. Merge(WrittenBack(seen)[st_req.line], st_req) \in Datas
    BY <1>4, <2>1, MergeIs
  <2> QED BY <1>4, <2>1, <2>2
<1> QED BY <1>2, <1>3, <1>4, <1>6 DEF Memory

-----------------------------------------------------------------------------
(* Initial states.                                                         *)

LEMMA ControlInit == DInit => ControlInv
<1> SUFFICES ASSUME DInit PROVE ControlInv
  OBVIOUS
<1>1. mshr = [i \in MshrIds |-> None] /\ ~None.valid
  BY DEF DInit, None
<1>2. Valid = {}
  BY <1>1 DEF Valid
<1>3. mem \in [Lines -> Datas] /\ arch = mem
  <2>1. (CHOOSE v \in Vals : TRUE) \in Vals
    BY Geometry
  <2> QED BY <2>1 DEF DInit, Datas
<1>4. cache \in [0 .. SETS - 1 -> [Ways -> Entries]]
  <2> DEFINE e == [valid |-> FALSE, dirty |-> FALSE, line |-> Min(Lines), data |-> mem[Min(Lines)]]
  <2>1. e \in Entries
    BY <1>3, Defaults DEF Entries
  <2>2. cache = [s \in 0 .. SETS - 1 |-> [w \in Ways |-> e]]
    BY DEF DInit
  <2> HIDE DEF e
  <2> QED BY <2>1, <2>2
<1>5. DTypes
  <2>1. /\ state = "IDLE" /\ state \notin Storing /\ req \in [is_store : BOOLEAN]
        /\ pend = None /\ pulsed = FALSE /\ st_req = None
    BY DEF DInit, NoReq, Storing
  <2>2. mshr \in [MshrIds -> Mshrs \cup {None}] /\ live \in [Lanes -> Loads \cup {None}]
    BY DEF DInit
  <2>3. /\ victim \in [way : Ways, line : Lines, data : Datas] /\ store_hit_way \in Ways
        /\ rsp \in [lane : Lanes, val : Vals]
    BY Defaults, Geometry DEF DInit
  <2>4. q \in Seq(Txns)
    BY DEF DInit
  <2> QED BY <1>3, <1>4, <2>1, <2>2, <2>3, <2>4 DEF DTypes
<1>6. Exclusive
  BY DEF DInit, Exclusive, NoReq
<1>7. Places
  BY <1>1, <1>2 DEF DInit, Places, HoldsLoad, Apart, Placed, LookingUp
<1>8. NoSecondMiss
  BY <1>1, <1>2 DEF DInit, NoSecondMiss, LookingUp
<1> QED BY <1>5, <1>6, <1>7, <1>8 DEF ControlInv

-----------------------------------------------------------------------------
(* The loads move from place to place.                                     *)

\* What the cache's own step says of the types.
FsmTypes ==
    /\ state \in {"IDLE", "LOOKUP", "RESP"} \cup Storing
    /\ req \in [is_store : BOOLEAN] \cup LoadReqs \cup StoreReqs
    /\ state = "LOOKUP" => req \in LoadReqs \cup StoreReqs
    /\ state \in Storing => req \in StoreReqs
    /\ pend \in Loads \cup {None} /\ mshr \in [MshrIds -> Mshrs \cup {None}]
    /\ cache \in [0 .. SETS - 1 -> [Ways -> Entries]]
    /\ victim \in [way : Ways, line : Lines, data : Datas] /\ store_hit_way \in Ways
    /\ rsp \in [lane : Lanes, val : Vals]
    /\ arch \in [Lines -> Datas]
    /\ st_req \in Stores \cup {None}
    /\ live \in [Lanes -> Loads \cup {None}]
FsmInv == FsmTypes /\ Exclusive /\ Places /\ NoSecondMiss

LEMMA LoadOf ==
    /\ \A x \in Loads : /\ LoadReq(x) \in LoadReqs /\ Load(LoadReq(x)) = x
                        /\ LoadReq(x).lane = x.lane /\ LoadReq(x).line = x.line /\ ~LoadReq(x).is_store
                        /\ x.lane \in Lanes /\ x.line \in Lines /\ x.word \in Words /\ x.valid
    /\ \A x \in LoadReqs : /\ ~x.is_store /\ x.lane \in Lanes /\ x.line \in Lines /\ x.word \in Words
                           /\ Load(x) \in Loads /\ Load(x).valid /\ Load(x).lane = x.lane
                           /\ Load(x).line = x.line /\ Load(x).word = x.word
    /\ \A x \in Mshrs : /\ x.lane \in Lanes /\ x.line \in Lines /\ x.word \in Words /\ x.way \in Ways
                        /\ Load(x) \in Loads /\ Load(x).valid /\ Load(x).lane = x.lane
                        /\ Load(x).line = x.line /\ Load(x).word = x.word
    /\ \A x \in StoreReqs : /\ x.is_store /\ x.line \in Stored /\ x.line \in Lines
                            /\ x.word \in Words /\ x.val \in Vals
<1>1. ASSUME NEW x \in Loads
      PROVE  /\ LoadReq(x) \in LoadReqs /\ Load(LoadReq(x)) = x
             /\ LoadReq(x).lane = x.lane /\ LoadReq(x).line = x.line /\ ~LoadReq(x).is_store
             /\ x.lane \in Lanes /\ x.line \in Lines /\ x.word \in Words /\ x.valid
  BY DEF Loads, LoadReq, LoadReqs, Load
<1>2. ASSUME NEW x \in LoadReqs
      PROVE  /\ ~x.is_store /\ x.lane \in Lanes /\ x.line \in Lines /\ x.word \in Words
             /\ Load(x) \in Loads /\ Load(x).valid /\ Load(x).lane = x.lane
             /\ Load(x).line = x.line /\ Load(x).word = x.word
  BY DEF LoadReqs, Load, Loads
<1>3. ASSUME NEW x \in Mshrs
      PROVE  /\ x.lane \in Lanes /\ x.line \in Lines /\ x.word \in Words /\ x.way \in Ways
             /\ Load(x) \in Loads /\ Load(x).valid /\ Load(x).lane = x.lane
             /\ Load(x).line = x.line /\ Load(x).word = x.word
  BY DEF Mshrs, Load, Loads
<1>4. ASSUME NEW x \in StoreReqs
      PROVE  /\ x.is_store /\ x.line \in Stored /\ x.line \in Lines
             /\ x.word \in Words /\ x.val \in Vals
  BY Geometry DEF StoreReqs
<1> QED BY <1>1, <1>2, <1>3, <1>4

\* One MSHR is written, or none.
LEMMA MshrPut ==
    ASSUME mshr \in [MshrIds -> Mshrs \cup {None}], NEW i \in MshrIds, NEW x \in Mshrs \cup {None},
           mshr' = [MshrAdvanced EXCEPT ![i] = x]
    PROVE  /\ mshr' \in [MshrIds -> Mshrs \cup {None}] /\ mshr'[i] = x
           /\ Valid' = (IF x = None THEN Valid \ {i} ELSE Valid \cup {i})
           /\ \A j \in Valid \ {i} : /\ mshr'[j] \in Mshrs /\ SameButFor(mshr'[j], mshr[j])
                                     /\ Load(mshr'[j]) = Load(mshr[j]) /\ mshr'[j] = MshrAdvanced[j]
<1>1. /\ MshrAdvanced \in [MshrIds -> Mshrs \cup {None}]
      /\ \A j \in MshrIds \ Valid : MshrAdvanced[j] = None
      /\ \A j \in Valid : MshrAdvanced[j] \in Mshrs /\ SameButFor(MshrAdvanced[j], mshr[j])
  BY AdvanceIs
<1>2. Valid \subseteq MshrIds /\ ~None.valid /\ \A m \in Mshrs : m.valid = TRUE
  BY ValidIs DEF None, Mshrs
<1>3. /\ mshr' \in [MshrIds -> Mshrs \cup {None}] /\ mshr'[i] = x
      /\ \A j \in MshrIds \ {i} : mshr'[j] = MshrAdvanced[j]
  BY <1>1
<1>4. Valid' = {j \in MshrIds : mshr'[j].valid}
  BY DEF Valid
<1>5. \A j \in MshrIds \ {i} : mshr'[j].valid <=> j \in Valid
  BY <1>1, <1>2, <1>3
<1>6. mshr'[i].valid <=> x # None
  BY <1>2, <1>3
<1>7. Valid' = (IF x = None THEN Valid \ {i} ELSE Valid \cup {i})
  BY <1>2, <1>4, <1>5, <1>6
<1>8. ASSUME NEW j \in Valid \ {i}
      PROVE  /\ mshr'[j] \in Mshrs /\ SameButFor(mshr'[j], mshr[j])
             /\ Load(mshr'[j]) = Load(mshr[j]) /\ mshr'[j] = MshrAdvanced[j]
  <2>1. mshr'[j] = MshrAdvanced[j]
    BY <1>2, <1>3
  <2>2. Load(mshr'[j]) = Load(mshr[j])
    BY <1>1, <2>1 DEF Load, SameButFor
  <2> QED BY <1>1, <2>1, <2>2
<1> QED BY <1>3, <1>7, <1>8

LEMMA MshrsStay ==
    ASSUME mshr \in [MshrIds -> Mshrs \cup {None}], mshr' = MshrAdvanced
    PROVE  /\ mshr' \in [MshrIds -> Mshrs \cup {None}] /\ Valid' = Valid
           /\ \A j \in Valid : /\ mshr'[j] \in Mshrs /\ SameButFor(mshr'[j], mshr[j])
                               /\ Load(mshr'[j]) = Load(mshr[j])
           /\ mshr_empty' = mshr_empty
           /\ \A l : OnLine(l)' = OnLine(l)
<1>1. /\ MshrAdvanced \in [MshrIds -> Mshrs \cup {None}]
      /\ \A j \in MshrIds \ Valid : MshrAdvanced[j] = None
      /\ \A j \in Valid : MshrAdvanced[j] \in Mshrs /\ SameButFor(MshrAdvanced[j], mshr[j])
  BY AdvanceIs
<1>2. Valid \subseteq MshrIds /\ ~None.valid /\ \A m \in Mshrs : m.valid = TRUE
  BY ValidIs DEF None, Mshrs
<1>3. Valid' = {j \in MshrIds : mshr'[j].valid}
  BY DEF Valid
<1>4. Valid' = Valid
  BY <1>1, <1>2, <1>3
<1>5. \A j \in Valid : Load(mshr'[j]) = Load(mshr[j]) /\ mshr'[j].line = mshr[j].line
  BY <1>1 DEF Load, SameButFor
<1>6. mshr_empty' = mshr_empty
  BY <1>4 DEF mshr_empty
<1>7. ASSUME NEW l PROVE OnLine(l)' = OnLine(l)
  BY <1>4, <1>5 DEF OnLine
<1> QED BY <1>1, <1>4, <1>5, <1>6, <1>7

\* A step of the cache that moves no load.
LEMMA Unmoved ==
    ASSUME ControlInv, mshr' = MshrAdvanced, live' = live, pend' = pend,
           state' = "RESP" <=> state = "RESP", state = "RESP" => rsp' = rsp,
           LookingUp' <=> LookingUp, LookingUp => req' = req
    PROVE  Places' /\ NoSecondMiss'
<1>1. Places /\ NoSecondMiss /\ mshr \in [MshrIds -> Mshrs \cup {None}]
  BY DEF ControlInv, DTypes
<1>2. /\ Valid' = Valid
      /\ \A j \in Valid : mshr'[j].lane = mshr[j].lane /\ mshr'[j].line = mshr[j].line
                          /\ Load(mshr'[j]) = Load(mshr[j])
      /\ \A l : OnLine(l)' = OnLine(l)
  BY <1>1, MshrsStay DEF SameButFor
<1>3. Places'
  <2>1. HoldsLoad'
    <3>1. \A j \in Valid : live[mshr[j].lane] = Load(mshr[j])
      BY <1>1 DEF Places, HoldsLoad
    <3>2. \A j \in Valid' : live'[mshr'[j].lane] = Load(mshr'[j])
      BY <1>2, <3>1
    <3>3. LookingUp' => live'[req'.lane] = Load(req')
      BY <1>1 DEF Places, HoldsLoad
    <3>4. pend'.valid => live'[pend'.lane] = pend'
      BY <1>1 DEF Places, HoldsLoad
    <3>5. state' = "RESP" => live'[rsp'.lane].valid
      BY <1>1 DEF Places, HoldsLoad
    <3> HIDE DEF LookingUp, Load
    <3> QED BY <3>2, <3>3, <3>4, <3>5 DEF HoldsLoad, Load
  <2>2. Apart'
    BY <1>1, <1>2 DEF Places, Apart
  <2>3. Placed'
    BY <1>1, <1>2 DEF Places, Placed
  <2> QED BY <2>1, <2>2, <2>3 DEF Places
<1>4. NoSecondMiss'
  <2>1. LookingUp' => OnLine(req.line)' = {}
    <3>1. LookingUp' => OnLine(req.line) = {} /\ req' = req
      BY <1>1 DEF NoSecondMiss
    <3> QED BY <1>2, <3>1 DEF OnLine
  <2>2. pend'.valid => OnLine(pend.line)' = {}
    BY <1>1, <1>2 DEF NoSecondMiss, OnLine
  <2> QED BY <1>1, <1>2, <2>1, <2>2 DEF NoSecondMiss
<1> QED BY <1>3, <1>4

LEMMA WayWritten ==
    ASSUME FsmTypes, NEW s \in 0 .. SETS - 1, NEW w \in Ways, NEW l \in Lines, NEW dirty \in BOOLEAN,
           NEW data \in Datas, WriteWay(s, w, l, dirty, data)
    PROVE  cache' \in [0 .. SETS - 1 -> [Ways -> Entries]]
<1> DEFINE e == [valid |-> TRUE, dirty |-> dirty, line |-> l, data |-> data]
<1>1. e \in Entries
  BY DEF Entries
<1>2. cache' = [cache EXCEPT ![s][w] = e]
  BY DEF WriteWay
<1> HIDE DEF e
<1> QED BY <1>1, <1>2 DEF FsmTypes

LEMMA ControlParts ==
    ASSUME ControlInv
    PROVE  /\ FsmTypes /\ Exclusive /\ HoldsLoad /\ Apart /\ Placed /\ NoSecondMiss
           /\ q \in Seq(Txns) /\ mem \in [Lines -> Datas] /\ DTypes
           /\ mshr \in [MshrIds -> Mshrs \cup {None}]
           /\ state = "LOOKUP" => req.is_store \in BOOLEAN
           /\ LookingUp => req \in LoadReqs
           /\ state = "LOOKUP" /\ req.is_store => req \in StoreReqs
<1>1. FsmTypes /\ Exclusive /\ HoldsLoad /\ Apart /\ Placed /\ NoSecondMiss /\ DTypes
  BY DEF ControlInv, Places, DTypes, FsmTypes
<1>2. \A x \in LoadReqs : ~x.is_store /\ x.is_store \in BOOLEAN
  BY DEF LoadReqs
<1>3. \A x \in StoreReqs : x.is_store /\ x.is_store \in BOOLEAN
  BY DEF StoreReqs
<1>4. state = "LOOKUP" => req \in LoadReqs \/ req \in StoreReqs
  BY <1>1 DEF FsmTypes
<1> QED BY <1>1, <1>2, <1>3, <1>4 DEF DTypes, LookingUp

\* A refill that is awaited: the MSHR's load becomes the response.
LEMMA IdleRefillKeeps ==
    ASSUME ControlInv, NEW r \in Txns, IdleRefill(r)
    PROVE  FsmInv'
<1>1. /\ FsmTypes /\ Exclusive /\ HoldsLoad /\ Apart /\ Placed /\ NoSecondMiss
      /\ mshr \in [MshrIds -> Mshrs \cup {None}]
  BY ControlParts
<1>2. /\ state = "IDLE" /\ live' = live /\ st_req' = st_req /\ arch' = arch /\ req' = req
      /\ pend' = pend /\ victim' = victim /\ store_hit_way' = store_hit_way
  BY DEF IdleRefill, KeepsRequests
<1>3. CASE OnLine(r.line) # {}
  <2> DEFINE i == Min(OnLine(r.line))
             m == mshr[i]
  <2>1. i \in Valid /\ m.line = r.line
    <3>1. OnLine(r.line) \in SUBSET Nat /\ OnLine(r.line) \subseteq Valid
      BY <1>1, ValidIs DEF OnLine
    <3>2. i \in OnLine(r.line)
      BY <1>3, <3>1, MinIn
    <3> QED BY <3>2 DEF OnLine
  <2>2. /\ WriteWay(Index(m.line), m.way, r.line, FALSE, r.data)
        /\ mshr' = [MshrAdvanced EXCEPT ![i] = None]
        /\ rsp' = Response(m.lane, r.data[m.word]) /\ state' = "RESP"
    BY <1>3 DEF IdleRefill
  <2>3. r.line \in Lines /\ r.data \in Datas
    BY DEF Txns
  <2> HIDE DEF i
  <2>4. m \in Mshrs /\ i \in MshrIds
    BY <1>1, <2>1, ValidIs
  <2>5. /\ mshr' \in [MshrIds -> Mshrs \cup {None}] /\ Valid' = Valid \ {i}
        /\ \A j \in Valid \ {i} : /\ Load(mshr'[j]) = Load(mshr[j]) /\ mshr'[j].lane = mshr[j].lane
                                  /\ mshr'[j].line = mshr[j].line
    <3>1. None \in Mshrs \cup {None} /\ mshr' = [MshrAdvanced EXCEPT ![i] = None]
      BY <2>2
    <3>2. /\ mshr' \in [MshrIds -> Mshrs \cup {None}]
          /\ Valid' = (IF None = None THEN Valid \ {i} ELSE Valid \cup {i})
          /\ \A j \in Valid \ {i} : SameButFor(mshr'[j], mshr[j]) /\ Load(mshr'[j]) = Load(mshr[j])
      BY <1>1, <2>4, <3>1, MshrPut
    <3> QED BY <3>2 DEF SameButFor
  <2>6. /\ m.lane \in Lanes /\ m.line \in Lines /\ m.word \in Words /\ m.way \in Ways
        /\ Load(m).valid /\ Load(m).lane = m.lane
    BY <2>4, LoadOf
  <2>7. rsp' \in [lane : Lanes, val : Vals] /\ rsp'.lane = m.lane
    BY <2>2, <2>3, <2>6 DEF Response, Datas
  <2>8. cache' \in [0 .. SETS - 1 -> [Ways -> Entries]]
    BY <1>1, <2>2, <2>3, <2>6, IndexIs, WayWritten
  <2>9. FsmTypes'
    BY <1>1, <1>2, <2>2, <2>5, <2>7, <2>8 DEF FsmTypes, Storing
  <2>10. Exclusive'
    BY <1>1, <1>2, <2>1, <2>2 DEF Exclusive, mshr_empty
  <2> HIDE DEF m
  <2>11. m.lane = mshr[i].lane /\ live[m.lane].valid
    BY <1>1, <2>1, <2>6 DEF HoldsLoad, m
  <2>12. ~LookingUp' /\ ~LookingUp
    BY <1>2, <2>2 DEF LookingUp
  <2>13. HoldsLoad'
    <3>1. \A j \in Valid' : live'[mshr'[j].lane] = Load(mshr'[j])
      BY <1>1, <1>2, <2>5 DEF HoldsLoad
    <3>2. live'[rsp'.lane].valid
      BY <1>2, <2>7, <2>11
    <3>3. pend'.valid => live'[pend'.lane] = pend'
      BY <1>1, <1>2 DEF HoldsLoad
    <3> QED BY <2>12, <3>1, <3>2, <3>3 DEF HoldsLoad, Load
  <2>14. Apart'
    BY <1>1, <1>2, <2>1, <2>5, <2>7, <2>11, <2>12 DEF Apart
  <2>15. Placed'
    BY <1>1, <1>2, <2>2, <2>5, <2>7, <2>11, <2>12 DEF Placed
  <2>16. NoSecondMiss'
    <3>1. \A l : OnLine(l)' \subseteq OnLine(l)
      BY <2>5 DEF OnLine
    <3>2. pend'.valid => OnLine(pend.line)' = {}
      BY <1>1, <1>2, <2>5 DEF NoSecondMiss, OnLine
    <3> QED BY <1>1, <2>5, <2>12, <3>2 DEF NoSecondMiss
  <2> QED BY <2>9, <2>10, <2>13, <2>14, <2>15, <2>16 DEF FsmInv, Places
<1>4. CASE OnLine(r.line) = {}
  <2>1. cache' = cache /\ rsp' = rsp /\ state' = state /\ mshr' = MshrAdvanced
    BY <1>4 DEF IdleRefill
  <2>2. mshr' \in [MshrIds -> Mshrs \cup {None}] /\ mshr_empty' = mshr_empty
    BY <1>1, <2>1, MshrsStay
  <2>3. FsmTypes'
    BY <1>1, <1>2, <2>1, <2>2 DEF FsmTypes
  <2>4. Exclusive'
    BY <1>1, <1>2, <2>1, <2>2 DEF Exclusive
  <2>5. Places' /\ NoSecondMiss'
    BY <1>2, <2>1, Unmoved DEF LookingUp
  <2> QED BY <2>3, <2>4, <2>5 DEF FsmInv
<1> QED BY <1>3, <1>4

\* The MSHRs of a cycle that frees and fills none.
LEMMA Stays ==
    ASSUME ControlInv, mshr' = MshrAdvanced
    PROVE  /\ mshr' \in [MshrIds -> Mshrs \cup {None}] /\ Valid' = Valid /\ mshr_empty' = mshr_empty
           /\ \A j \in Valid : /\ mshr'[j].lane = mshr[j].lane /\ mshr'[j].line = mshr[j].line
                               /\ Load(mshr'[j]) = Load(mshr[j])
                               /\ mshr[j].lane \in Lanes /\ live[mshr[j].lane].valid
           /\ \A l : OnLine(l)' = OnLine(l)
<1>1. mshr \in [MshrIds -> Mshrs \cup {None}] /\ HoldsLoad
  BY ControlParts
<1>2. /\ mshr' \in [MshrIds -> Mshrs \cup {None}] /\ Valid' = Valid /\ mshr_empty' = mshr_empty
      /\ \A j \in Valid : /\ mshr'[j].lane = mshr[j].lane /\ mshr'[j].line = mshr[j].line
                          /\ Load(mshr'[j]) = Load(mshr[j])
      /\ \A l : OnLine(l)' = OnLine(l)
  BY <1>1, MshrsStay DEF SameButFor
<1>3. \A j \in Valid : mshr[j].lane \in Lanes /\ live[mshr[j].lane].valid
  BY <1>1, ValidIs, LoadOf DEF HoldsLoad
<1> QED BY <1>2, <1>3

\* A load is waited for that was not before: by a lane that no place holds.
LEMMA NewLoad ==
    ASSUME ControlInv, NEW ld \in Loads, ~live[ld.lane].valid
    PROVE  /\ ld.lane \in Lanes /\ \A j \in Valid : mshr[j].lane # ld.lane
           /\ pend.valid => pend.lane # ld.lane
           /\ state = "RESP" => rsp.lane # ld.lane
           /\ LookingUp => req.lane # ld.lane
<1>1. mshr \in [MshrIds -> Mshrs \cup {None}] /\ HoldsLoad /\ DTypes
  BY ControlParts
<1>2. \A j \in Valid : live[mshr[j].lane].valid
  BY <1>1, ValidIs, LoadOf DEF HoldsLoad
<1>3. pend.valid => live[pend.lane].valid
  BY <1>1 DEF HoldsLoad
<1>4. LookingUp => live[req.lane].valid
  BY <1>1 DEF HoldsLoad, Load
<1> QED BY <1>1, <1>2, <1>3, <1>4, LoadOf DEF HoldsLoad

\* A flush: no place holds a load.
LEMMA FlushedKeeps ==
    ASSUME ControlInv, Flushed
    PROVE  FsmInv'
<1>1. FsmTypes
  BY ControlParts
<1>2. mshr' = [i \in MshrIds |-> None] /\ ~None.valid
  BY DEF Flushed, None
<1>3. Valid' = {}
  BY <1>2 DEF Valid
<1>4. /\ state' = "IDLE" /\ state' \notin Storing /\ req' \in [is_store : BOOLEAN] /\ ~req'.is_store
      /\ pend' = None
  BY DEF Flushed, NoReq, Storing
<1>5. FsmTypes'
  <2>1. mshr' \in [MshrIds -> Mshrs \cup {None}] /\ live' \in [Lanes -> Loads \cup {None}]
    BY DEF Flushed
  <2>2. /\ victim' \in [way : Ways, line : Lines, data : Datas] /\ store_hit_way' \in Ways
        /\ rsp' \in [lane : Lanes, val : Vals]
    BY Defaults, Geometry DEF Flushed
  <2>3. cache' = cache /\ st_req' = st_req /\ arch' = arch
    BY DEF Flushed
  <2> QED BY <1>1, <1>4, <2>1, <2>2, <2>3 DEF FsmTypes
<1>6. Exclusive'
  BY <1>4 DEF Exclusive
<1>7. Places'
  <2>1. \A i \in Lanes : ~live'[i].valid
    BY <1>2 DEF Flushed
  <2> QED BY <1>2, <1>3, <1>4, <2>1 DEF Places, HoldsLoad, Apart, Placed, LookingUp
<1>8. NoSecondMiss'
  BY <1>2, <1>3, <1>4 DEF NoSecondMiss, LookingUp
<1> QED BY <1>5, <1>6, <1>7, <1>8 DEF FsmInv

\* A request that is over: no place held it, or another does now.
LEMMA OverIs ==
    ASSUME FsmTypes, Over
    PROVE  req' \in [is_store : BOOLEAN] /\ req'.is_store = req.is_store
<1>1. req.is_store \in BOOLEAN
  BY DEF FsmTypes, LoadReqs, StoreReqs
<1> QED BY <1>1 DEF Over

\* A store is worked on: no load moves.
LEMMA StoringKeeps ==
    ASSUME ControlInv, NEW r \in Txns \cup {None},
           StoreWrite \/ WbOrMissReq \/ WaitRefill(r)
    PROVE  FsmInv'
<1>1. /\ FsmTypes /\ Exclusive /\ req \in StoreReqs /\ state \in Storing
      /\ req.is_store /\ mshr_empty /\ ~pend.valid
  <2>1. FsmTypes /\ Exclusive /\ state \in Storing
    BY ControlParts DEF StoreWrite, WbOrMissReq, WaitRefill, Storing
  <2>2. req \in StoreReqs
    BY <2>1 DEF FsmTypes
  <2> QED BY <2>1, <2>2, LoadOf DEF Exclusive
<1>2. /\ mshr' = MshrAdvanced /\ pend' = pend /\ live' = live /\ st_req' = st_req /\ arch' = arch
      /\ rsp' = rsp /\ victim' = victim /\ store_hit_way' = store_hit_way
  BY DEF StoreWrite, WbOrMissReq, WaitRefill, KeepsRequests
<1>3. mshr' \in [MshrIds -> Mshrs \cup {None}] /\ mshr_empty' = mshr_empty
  BY <1>2, Stays
<1>4. req.line \in Lines /\ req.word \in Words /\ req.val \in Vals /\ Index(req.line) \in 0 .. SETS - 1
  BY <1>1, LoadOf, IndexIs
<1>5. cache' \in [0 .. SETS - 1 -> [Ways -> Entries]]
  <2>1. CASE StoreWrite
    <3> DEFINE d == Merge(Set(req.line)[store_hit_way].data, req)
    <3>1. Set(req.line)[store_hit_way] \in Entries /\ store_hit_way \in Ways
      BY <1>1, <1>4 DEF Set, FsmTypes
    <3>2. d \in Datas
      BY <1>4, <3>1, MergeIs DEF Entries
    <3>3. WriteWay(Index(req.line), store_hit_way, req.line, TRUE, d)
      BY <2>1 DEF StoreWrite
    <3> HIDE DEF d
    <3> QED BY <1>1, <1>4, <3>1, <3>2, <3>3, WayWritten
  <2>2. CASE WbOrMissReq
    BY <1>1, <2>2 DEF WbOrMissReq, FsmTypes
  <2>3. CASE WaitRefill(r) /\ r.valid
    <3> DEFINE d == Merge(r.data, req)
    <3>1. r \in Txns
      BY <2>3 DEF None
    <3>2. r.line \in Lines /\ r.way \in Ways /\ r.data \in Datas
      BY <3>1 DEF Txns
    <3>3. d \in Datas
      BY <1>4, <3>2, MergeIs
    <3>4. WriteWay(Index(req.line), r.way, r.line, TRUE, d)
      BY <2>3 DEF WaitRefill
    <3> HIDE DEF d
    <3> QED BY <1>1, <1>4, <3>2, <3>3, <3>4, WayWritten
  <2>4. CASE WaitRefill(r) /\ ~r.valid
    BY <1>1, <2>4 DEF WaitRefill, FsmTypes
  <2> QED BY <2>1, <2>2, <2>3, <2>4
<1>6. \/ state' = "IDLE" /\ Over
      \/ state' \in Storing /\ req' = req
  BY <1>1 DEF StoreWrite, WbOrMissReq, WaitRefill, Storing
<1>7. /\ state' \in {"IDLE"} \cup Storing /\ req'.is_store
      /\ req' \in [is_store : BOOLEAN] \cup StoreReqs /\ (state' \in Storing => req' \in StoreReqs)
  BY <1>1, <1>6, OverIs DEF Storing
<1>8. FsmTypes'
  <2>1. state' # "LOOKUP"
    BY <1>7 DEF Storing
  <2> QED BY <1>1, <1>2, <1>3, <1>5, <1>7, <2>1 DEF FsmTypes
<1>9. state' # "RESP" /\ state' # "LOOKUP" /\ state # "RESP" /\ state # "LOOKUP"
  BY <1>1, <1>7 DEF Storing
<1>10. Exclusive'
  BY <1>1, <1>2, <1>3, <1>9 DEF Exclusive
<1>11. Places' /\ NoSecondMiss'
  BY <1>2, <1>9, Unmoved DEF LookingUp
<1> QED BY <1>8, <1>10, <1>11 DEF FsmInv

\* A request looked up is in the arrays: the load becomes the response.
LEMMA HitIs ==
    ASSUME FsmTypes, NEW l \in Lines, HitWays(l) # {}
    PROVE  /\ Min(HitWays(l)) \in HitWays(l) /\ Min(HitWays(l)) \in Ways
           /\ Set(l)[Min(HitWays(l))] \in Entries /\ Set(l)[Min(HitWays(l))].data \in Datas
<1>1. HitWays(l) \in SUBSET Nat /\ HitWays(l) \subseteq Ways
  BY Geometry DEF HitWays
<1>2. Min(HitWays(l)) \in HitWays(l)
  BY <1>1, MinIn
<1>3. Set(l) \in [Ways -> Entries]
  BY IndexIs DEF Set, FsmTypes
<1> QED BY <1>1, <1>2, <1>3 DEF Entries

LEMMA LookupHitKeeps ==
    ASSUME ControlInv, LookupHit
    PROVE  FsmInv'
<1>1. /\ FsmTypes /\ Exclusive /\ HoldsLoad /\ Apart /\ Placed /\ NoSecondMiss
      /\ state = "LOOKUP" /\ req \in LoadReqs \cup StoreReqs
  BY ControlParts DEF LookupHit, FsmTypes
<1>2. /\ mshr' = MshrAdvanced /\ pend' = pend /\ live' = live /\ st_req' = st_req /\ arch' = arch
      /\ victim' = victim /\ cache' = cache
  BY DEF LookupHit, KeepsRequests
<1>3. /\ mshr' \in [MshrIds -> Mshrs \cup {None}] /\ mshr_empty' = mshr_empty /\ Valid' = Valid
      /\ \A j \in Valid : mshr'[j].lane = mshr[j].lane /\ mshr'[j].line = mshr[j].line
                          /\ Load(mshr'[j]) = Load(mshr[j])
      /\ \A l : OnLine(l)' = OnLine(l)
  BY <1>2, Stays
<1>4. req.line \in Lines /\ HitWays(req.line) # {}
  BY <1>1, LoadOf DEF LookupHit, hit
<1>5. hit_way \in Ways /\ Set(req.line)[hit_way].data \in Datas
  BY <1>1, <1>4, HitIs DEF hit_way
<1>6. CASE req.is_store
  <2>1. req \in StoreReqs /\ req' = req /\ rsp' = rsp /\ store_hit_way' = hit_way /\ state' = "STORE_WRITE"
    BY <1>1, <1>6, LoadOf DEF LookupHit
  <2>2. FsmTypes'
    BY <1>1, <1>2, <1>3, <1>5, <2>1 DEF FsmTypes, Storing
  <2>3. Exclusive'
    BY <1>1, <1>2, <1>3, <2>1 DEF Exclusive
  <2>4. Places' /\ NoSecondMiss'
    BY <1>1, <1>2, <1>6, <2>1, Unmoved DEF LookingUp
  <2> QED BY <2>2, <2>3, <2>4 DEF FsmInv
<1>7. CASE ~req.is_store
  <2>1. /\ rsp' = Response(req.lane, Set(req.line)[hit_way].data[req.word])
        /\ state' = "RESP" /\ Over /\ store_hit_way' = store_hit_way /\ req \in LoadReqs
    BY <1>1, <1>7, LoadOf DEF LookupHit
  <2>2. rsp' \in [lane : Lanes, val : Vals] /\ rsp'.lane = req.lane /\ req.lane \in Lanes
    BY <1>5, <2>1, LoadOf DEF Response, Datas
  <2>3. req' \in [is_store : BOOLEAN] /\ ~req'.is_store
    BY <1>1, <1>7, <2>1, OverIs
  <2>4. FsmTypes'
    BY <1>1, <1>2, <1>3, <2>1, <2>2, <2>3 DEF FsmTypes, Storing
  <2>5. LookingUp /\ ~LookingUp' /\ ~pend.valid
    BY <1>1, <1>7, <2>1 DEF LookingUp, Exclusive
  <2>6. Exclusive'
    BY <2>1, <2>3 DEF Exclusive
  <2>7. live[req.lane].valid
    BY <1>1, <2>5 DEF HoldsLoad, Load
  <2>8. HoldsLoad'
    <3>1. \A j \in Valid' : live'[mshr'[j].lane] = Load(mshr'[j])
      BY <1>1, <1>2, <1>3 DEF HoldsLoad
    <3> QED BY <1>2, <2>2, <2>5, <2>7, <3>1 DEF HoldsLoad, Load
  <2>9. Apart'
    BY <1>1, <1>2, <1>3, <2>1, <2>2, <2>5 DEF Apart
  <2>10. Placed'
    BY <1>1, <1>2, <1>3, <2>1, <2>2, <2>5 DEF Placed
  <2>11. NoSecondMiss'
    BY <1>1, <1>2, <1>3, <2>5 DEF NoSecondMiss
  <2> QED BY <2>4, <2>6, <2>8, <2>9, <2>10, <2>11 DEF FsmInv, Places
<1> QED BY <1>6, <1>7

\* A request looked up is not in the arrays: the load goes to an MSHR.
LEMMA LookupMissKeeps ==
    ASSUME ControlInv, NEW w \in Ways, LookupMiss(w)
    PROVE  FsmInv'
<1> DEFINE v == Set(req.line)[w]
           free == MshrIds \ Valid
           waits == OnLine(req.line) # {} \/ (~req.is_store /\ free = {})
<1>1. /\ FsmTypes /\ Exclusive /\ HoldsLoad /\ Apart /\ Placed /\ NoSecondMiss
      /\ state = "LOOKUP" /\ req \in LoadReqs \cup StoreReqs /\ ~pend.valid
      /\ mshr \in [MshrIds -> Mshrs \cup {None}]
  BY ControlParts DEF LookupMiss, FsmTypes, Exclusive
<1>2. /\ pend' = pend /\ live' = live /\ st_req' = st_req /\ arch' = arch
      /\ store_hit_way' = store_hit_way /\ rsp' = rsp /\ cache' = cache
  BY DEF LookupMiss, KeepsRequests
<1>3. req.line \in Lines /\ v \in Entries
  <2>1. req.line \in Lines
    BY <1>1, LoadOf
  <2> QED BY <1>1, <2>1, IndexIs DEF Set, FsmTypes
<1>4. v.line \in Lines /\ v.data \in Datas /\ Dirty(v) \in BOOLEAN
  BY <1>3 DEF Entries, Dirty
<1>5. CASE waits
  <2>1. mshr' = MshrAdvanced /\ victim' = victim /\ state' = state /\ req' = req
    BY <1>5 DEF LookupMiss
  <2>2. mshr' \in [MshrIds -> Mshrs \cup {None}] /\ mshr_empty' = mshr_empty
    BY <2>1, Stays
  <2>3. FsmTypes'
    BY <1>1, <1>2, <2>1, <2>2 DEF FsmTypes
  <2>4. Exclusive'
    BY <1>1, <1>2, <2>1, <2>2 DEF Exclusive
  <2>5. Places' /\ NoSecondMiss'
    BY <1>2, <2>1, Unmoved DEF LookingUp
  <2> QED BY <2>3, <2>4, <2>5 DEF FsmInv
<1>6. CASE ~waits /\ req.is_store
  <2>1. /\ mshr' = MshrAdvanced /\ victim' = [way |-> w, line |-> v.line, data |-> v.data]
        /\ state' \in {"WB_REQ", "MISS_REQ"} /\ req' = req
    BY <1>6 DEF LookupMiss
  <2>2. mshr' \in [MshrIds -> Mshrs \cup {None}] /\ mshr_empty' = mshr_empty
    BY <2>1, Stays
  <2>3. victim' \in [way : Ways, line : Lines, data : Datas] /\ req \in StoreReqs
    BY <1>1, <1>4, <1>6, <2>1, LoadOf
  <2> HIDE DEF v
  <2>4. FsmTypes'
    BY <1>1, <1>2, <2>1, <2>2, <2>3 DEF FsmTypes, Storing
  <2>5. Exclusive'
    BY <1>1, <1>2, <2>1, <2>2 DEF Exclusive
  <2>6. Places' /\ NoSecondMiss'
    BY <1>1, <1>2, <1>6, <2>1, Unmoved DEF LookingUp
  <2> QED BY <2>4, <2>5, <2>6 DEF FsmInv
<1>7. CASE ~waits /\ ~req.is_store
  <2> DEFINE i == Min(free)
             x == [valid |-> TRUE, wb_done |-> ~Dirty(v), miss_sent |-> FALSE, way |-> w,
                   vline |-> v.line, vdata |-> v.data,
                   line |-> req.line, word |-> req.word, lane |-> req.lane]
  <2>1. mshr' = [MshrAdvanced EXCEPT ![i] = x] /\ state' = "IDLE" /\ Over /\ victim' = victim
    BY <1>7 DEF LookupMiss
  <2>2. i \in MshrIds /\ i \notin Valid
    <3>1. free # {} /\ free \in SUBSET Nat
      BY <1>7, Geometry
    <3>2. i \in free
      BY <3>1, MinIn
    <3> QED BY <3>2
  <2>3. req \in LoadReqs
    BY <1>1, <1>7, LoadOf
  <2>4. req.line \in Lines /\ req.word \in Words /\ req.lane \in Lanes
    BY <2>3, LoadOf
  <2>5. x \in Mshrs /\ Load(x) = Load(req) /\ x.lane = req.lane /\ x.line = req.line
    BY <1>4, <2>4 DEF Mshrs, Load
  <2>6. x # None
    BY <2>5 DEF None, Mshrs
  <2> HIDE DEF i, x
  <2>7. /\ mshr' \in [MshrIds -> Mshrs \cup {None}] /\ mshr'[i] = x
        /\ Valid' = (IF x = None THEN Valid \ {i} ELSE Valid \cup {i})
        /\ \A j \in Valid \ {i} : SameButFor(mshr'[j], mshr[j]) /\ Load(mshr'[j]) = Load(mshr[j])
    BY <1>1, <2>1, <2>2, <2>5, MshrPut
  <2>8. /\ Valid' = Valid \cup {i} /\ Load(mshr'[i]) = Load(req) /\ mshr'[i].lane = req.lane
        /\ mshr'[i].line = req.line
        /\ \A j \in Valid : /\ Load(mshr'[j]) = Load(mshr[j]) /\ mshr'[j].lane = mshr[j].lane
                            /\ mshr'[j].line = mshr[j].line /\ j # i
    BY <2>2, <2>5, <2>6, <2>7 DEF SameButFor
  <2>9. req' \in [is_store : BOOLEAN] /\ ~req'.is_store
    BY <1>1, <1>7, <2>1, OverIs
  <2>10. FsmTypes'
    BY <1>1, <1>2, <2>1, <2>7, <2>9 DEF FsmTypes, Storing
  <2>11. LookingUp /\ ~LookingUp' /\ state # "RESP" /\ state' # "RESP" /\ ~pend'.valid
    BY <1>1, <1>2, <1>7, <2>1 DEF LookingUp
  <2>12. Exclusive'
    BY <2>9, <2>11 DEF Exclusive, LookingUp
  <2>13. HoldsLoad'
    <3>1. \A j \in Valid : live[mshr[j].lane] = Load(mshr[j])
      BY <1>1 DEF HoldsLoad
    <3>2. live[req.lane] = Load(req)
      BY <1>1, <2>11 DEF HoldsLoad
    <3>3. \A j \in Valid' : live'[mshr'[j].lane] = Load(mshr'[j])
      BY <1>2, <2>8, <3>1, <3>2
    <3> QED BY <2>11, <3>3 DEF HoldsLoad, Load
  <2>14. Apart'
    BY <1>1, <2>8, <2>11 DEF Apart
  <2>15. Placed'
    BY <1>1, <1>2, <2>8, <2>11 DEF Placed
  <2>16. NoSecondMiss'
    <3>1. \A j \in Valid : mshr[j].line # req.line
      BY <1>1, <2>11 DEF NoSecondMiss, OnLine
    <3>2. \A j, k \in Valid : mshr[j].line = mshr[k].line => j = k
      BY <1>1 DEF NoSecondMiss
    <3>3. \A j, k \in Valid' : mshr'[j].line = mshr'[k].line => j = k
      BY <2>8, <3>1, <3>2
    <3> QED BY <2>11, <3>3 DEF NoSecondMiss
  <2> QED BY <2>10, <2>12, <2>13, <2>14, <2>15, <2>16 DEF FsmInv, Places
<1> QED BY <1>5, <1>6, <1>7

\* The load that waited for a response to leave is looked up, with the response or after it.
LEMMA PendLookedUp ==
    ASSUME ControlInv, mshr' = MshrAdvanced, pend.valid, state \in {"IDLE", "RESP"},
           req' = LoadReq(pend), state' = "LOOKUP", pend' = None,
           live' = IF state = "RESP" THEN [live EXCEPT ![rsp.lane] = None] ELSE live,
           UNCHANGED <<st_req, arch, cache, victim, store_hit_way, rsp>>
    PROVE  FsmInv'
<1>1. FsmTypes /\ Exclusive /\ HoldsLoad /\ Apart /\ Placed /\ NoSecondMiss /\ DTypes
  BY ControlParts
<1>2. /\ mshr' \in [MshrIds -> Mshrs \cup {None}] /\ Valid' = Valid
      /\ \A j \in Valid : /\ mshr'[j].lane = mshr[j].lane /\ mshr'[j].line = mshr[j].line
                          /\ Load(mshr'[j]) = Load(mshr[j]) /\ mshr[j].lane \in Lanes
      /\ \A l : OnLine(l)' = OnLine(l)
  BY Stays
<1>3. pend \in Loads /\ ~None.valid
  BY <1>1, RegistersAre DEF None
<1>4. /\ req' \in LoadReqs /\ Load(req') = pend /\ req'.lane = pend.lane /\ req'.line = pend.line
      /\ ~req'.is_store /\ pend.lane \in Lanes
  BY <1>3, LoadOf
<1>5. /\ live' \in [Lanes -> Loads \cup {None}]
      /\ \A i \in Lanes : live'[i] = IF state = "RESP" /\ i = rsp.lane THEN None ELSE live[i]
  BY <1>1 DEF FsmTypes
<1>6. FsmTypes'
  BY <1>1, <1>2, <1>4, <1>5 DEF FsmTypes, Storing
<1>7. LookingUp' /\ ~LookingUp /\ ~pend'.valid /\ state' # "RESP"
  BY <1>3, <1>4 DEF LookingUp
<1>8. Exclusive'
  BY <1>4, <1>7 DEF Exclusive
<1>9. HoldsLoad'
  <2>1. \A j \in Valid : live[mshr[j].lane] = Load(mshr[j]) /\ (state = "RESP" => rsp.lane # mshr[j].lane)
    BY <1>1 DEF HoldsLoad, Apart
  <2>2. \A j \in Valid' : live'[mshr'[j].lane] = Load(mshr'[j])
    BY <1>2, <1>5, <2>1
  <2>3. live'[req'.lane] = Load(req')
    BY <1>1, <1>4, <1>5 DEF HoldsLoad, Apart
  <2> HIDE DEF Load
  <2> QED BY <1>7, <2>2, <2>3 DEF HoldsLoad, Load
<1>10. Apart'
  BY <1>1, <1>2, <1>4, <1>7 DEF Apart
<1>11. Placed'
  BY <1>1, <1>2, <1>3, <1>4, <1>5, <1>7 DEF Placed
<1>12. NoSecondMiss'
  <2>1. OnLine(pend.line) = {}
    BY <1>1 DEF NoSecondMiss
  <2>2. \A l : l = pend.line => OnLine(l)' = {}
    BY <1>2, <2>1
  <2>3. \A j, k \in Valid' : mshr'[j].line = mshr'[k].line => j = k
    BY <1>1, <1>2 DEF NoSecondMiss
  <2>4. OnLine(req.line)' = {}
    BY <1>4, <2>2 DEF OnLine
  <2> QED BY <1>7, <2>3, <2>4 DEF NoSecondMiss
<1> QED BY <1>6, <1>8, <1>9, <1>10, <1>11, <1>12 DEF FsmInv, Places

\* A new load is looked up: with no load behind the response that leaves with it, if one does.
LEMMA NewLookedUp ==
    ASSUME ControlInv, mshr' = MshrAdvanced, ~pend.valid, pend' = None, state \in {"IDLE", "RESP"},
           NEW ld \in Loads, ~live[ld.lane].valid, OnLine(ld.line) = {},
           req' = LoadReq(ld), state' = "LOOKUP",
           live' = [(IF state = "RESP" THEN [live EXCEPT ![rsp.lane] = None] ELSE live)
                       EXCEPT ![ld.lane] = ld],
           UNCHANGED <<st_req, arch, cache, victim, store_hit_way, rsp>>
    PROVE  FsmInv'
<1>1. FsmTypes /\ Exclusive /\ HoldsLoad /\ Apart /\ Placed /\ NoSecondMiss /\ DTypes
  BY ControlParts
<1>2. /\ mshr' \in [MshrIds -> Mshrs \cup {None}] /\ Valid' = Valid
      /\ \A j \in Valid : /\ mshr'[j].lane = mshr[j].lane /\ mshr'[j].line = mshr[j].line
                          /\ Load(mshr'[j]) = Load(mshr[j]) /\ mshr[j].lane \in Lanes
      /\ \A l : OnLine(l)' = OnLine(l)
  BY Stays
<1>3. ~None.valid
  BY DEF None
<1>4. /\ req' \in LoadReqs /\ Load(req') = ld /\ req'.lane = ld.lane /\ req'.line = ld.line
      /\ ~req'.is_store /\ ld.lane \in Lanes
  BY LoadOf
<1>5. /\ live' \in [Lanes -> Loads \cup {None}]
      /\ \A i \in Lanes : live'[i] = IF i = ld.lane THEN ld
                                     ELSE IF state = "RESP" /\ i = rsp.lane THEN None ELSE live[i]
  BY <1>1, <1>4 DEF FsmTypes
<1>6. FsmTypes'
  BY <1>1, <1>2, <1>4, <1>5 DEF FsmTypes, Storing
<1>7. LookingUp' /\ ~LookingUp /\ ~pend'.valid /\ state' # "RESP"
  BY <1>3, <1>4 DEF LookingUp
<1>8. Exclusive'
  BY <1>4, <1>7 DEF Exclusive
<1>9. \A j \in Valid : mshr[j].lane # ld.lane
  BY NewLoad
<1>10. HoldsLoad'
  <2>1. \A j \in Valid : live[mshr[j].lane] = Load(mshr[j]) /\ (state = "RESP" => rsp.lane # mshr[j].lane)
    BY <1>1 DEF HoldsLoad, Apart
  <2>2. \A j \in Valid' : live'[mshr'[j].lane] = Load(mshr'[j])
    BY <1>2, <1>5, <1>9, <2>1
  <2>3. live'[req'.lane] = Load(req')
    BY <1>4, <1>5
  <2> HIDE DEF Load
  <2> QED BY <1>7, <2>2, <2>3 DEF HoldsLoad, Load
<1>11. Apart'
  BY <1>1, <1>2, <1>4, <1>7, <1>9 DEF Apart
<1>12. Placed'
  BY <1>1, <1>2, <1>3, <1>4, <1>5, <1>7 DEF Placed
<1>13. NoSecondMiss'
  <2>1. \A l : l = ld.line => OnLine(l)' = {}
    BY <1>2
  <2>2. \A j, k \in Valid' : mshr'[j].line = mshr'[k].line => j = k
    BY <1>1, <1>2 DEF NoSecondMiss
  <2>3. OnLine(req.line)' = {}
    BY <1>4, <2>1 DEF OnLine
  <2> QED BY <1>7, <2>2, <2>3 DEF NoSecondMiss
<1> QED BY <1>6, <1>8, <1>10, <1>11, <1>12, <1>13 DEF FsmInv, Places

\* A new load waits behind the response.
LEMMA NewWaits ==
    ASSUME ControlInv, mshr' = MshrAdvanced, ~pend.valid, state = "RESP",
           NEW ld \in Loads, ~live[ld.lane].valid, OnLine(ld.line) = {},
           pend' = ld, req' = req, state' = state, live' = [live EXCEPT ![ld.lane] = ld],
           UNCHANGED <<st_req, arch, cache, victim, store_hit_way, rsp>>
    PROVE  FsmInv'
<1>1. FsmTypes /\ Exclusive /\ HoldsLoad /\ Apart /\ Placed /\ NoSecondMiss /\ DTypes
  BY ControlParts
<1>2. /\ mshr' \in [MshrIds -> Mshrs \cup {None}] /\ Valid' = Valid
      /\ \A j \in Valid : /\ mshr'[j].lane = mshr[j].lane /\ mshr'[j].line = mshr[j].line
                          /\ Load(mshr'[j]) = Load(mshr[j]) /\ mshr[j].lane \in Lanes
      /\ \A l : OnLine(l)' = OnLine(l)
  BY Stays
<1>3. ld.lane \in Lanes /\ ld.valid
  BY LoadOf
<1>4. /\ live' \in [Lanes -> Loads \cup {None}]
      /\ \A i \in Lanes : live'[i] = IF i = ld.lane THEN ld ELSE live[i]
  BY <1>1, <1>3 DEF FsmTypes
<1>5. FsmTypes'
  BY <1>1, <1>2, <1>4 DEF FsmTypes
<1>6. ~LookingUp' /\ ~LookingUp /\ pend'.valid /\ state' = "RESP" /\ pend'.lane = ld.lane
  BY <1>3 DEF LookingUp
<1>7. Exclusive'
  BY <1>1 DEF Exclusive
<1>8. (\A j \in Valid : mshr[j].lane # ld.lane) /\ rsp.lane # ld.lane /\ rsp.lane \in Lanes
  BY <1>1, NewLoad DEF FsmTypes
<1>9. HoldsLoad'
  <2>1. \A j \in Valid : live[mshr[j].lane] = Load(mshr[j])
    BY <1>1 DEF HoldsLoad
  <2>2. \A j \in Valid' : live'[mshr'[j].lane] = Load(mshr'[j])
    BY <1>2, <1>4, <1>8, <2>1
  <2>3. live'[pend'.lane] = pend' /\ live'[rsp'.lane].valid
    BY <1>1, <1>3, <1>4, <1>8 DEF HoldsLoad
  <2> QED BY <1>6, <2>2, <2>3 DEF HoldsLoad, Load
<1>10. Apart'
  BY <1>1, <1>2, <1>6, <1>8 DEF Apart
<1>11. Placed'
  BY <1>1, <1>2, <1>3, <1>4, <1>6 DEF Placed
<1>12. NoSecondMiss'
  <2>1. \A l : l = ld.line => OnLine(l)' = {}
    BY <1>2
  <2>2. \A j, k \in Valid' : mshr'[j].line = mshr'[k].line => j = k
    BY <1>1, <1>2 DEF NoSecondMiss
  <2>3. OnLine(pend.line)' = {}
    BY <2>1 DEF OnLine
  <2> QED BY <1>6, <2>2, <2>3 DEF NoSecondMiss
<1> QED BY <1>5, <1>7, <1>9, <1>10, <1>11, <1>12 DEF FsmInv, Places

\* The response leaves.
LEMMA Answered ==
    ASSUME ControlInv, mshr' = MshrAdvanced, state = "RESP", state' = "IDLE", pend' = pend, req' = req,
           live' = [live EXCEPT ![rsp.lane] = None],
           UNCHANGED <<st_req, arch, cache, victim, store_hit_way, rsp>>
    PROVE  FsmInv'
<1>1. FsmTypes /\ Exclusive /\ HoldsLoad /\ Apart /\ Placed /\ NoSecondMiss /\ DTypes
  BY ControlParts
<1>2. /\ mshr' \in [MshrIds -> Mshrs \cup {None}] /\ Valid' = Valid /\ mshr_empty' = mshr_empty
      /\ \A j \in Valid : /\ mshr'[j].lane = mshr[j].lane /\ mshr'[j].line = mshr[j].line
                          /\ Load(mshr'[j]) = Load(mshr[j]) /\ mshr[j].lane \in Lanes
      /\ \A l : OnLine(l)' = OnLine(l)
  BY Stays
<1>3. ~None.valid /\ rsp.lane \in Lanes /\ (pend.valid => pend.lane \in Lanes)
  BY <1>1, RegistersAre, LoadOf DEF None, FsmTypes
<1>4. /\ live' \in [Lanes -> Loads \cup {None}]
      /\ \A i \in Lanes : live'[i] = IF i = rsp.lane THEN None ELSE live[i]
  BY <1>1, <1>3 DEF FsmTypes
<1>5. FsmTypes'
  BY <1>1, <1>2, <1>4 DEF FsmTypes, Storing
<1>6. ~LookingUp' /\ ~LookingUp /\ state' # "RESP"
  BY DEF LookingUp
<1>7. Exclusive'
  BY <1>1 DEF Exclusive
<1>8. HoldsLoad'
  <2>1. \A j \in Valid : live[mshr[j].lane] = Load(mshr[j]) /\ rsp.lane # mshr[j].lane
    BY <1>1 DEF HoldsLoad, Apart
  <2>2. \A j \in Valid' : live'[mshr'[j].lane] = Load(mshr'[j])
    BY <1>2, <1>4, <2>1
  <2>3. pend'.valid => live'[pend'.lane] = pend'
    BY <1>1, <1>3, <1>4 DEF HoldsLoad, Apart
  <2> QED BY <1>6, <2>2, <2>3 DEF HoldsLoad, Load
<1>9. Apart'
  BY <1>1, <1>2, <1>6 DEF Apart
<1>10. Placed'
  BY <1>1, <1>2, <1>3, <1>4, <1>6 DEF Placed
<1>11. NoSecondMiss'
  <2>1. \A j, k \in Valid' : mshr'[j].line = mshr'[k].line => j = k
    BY <1>1, <1>2 DEF NoSecondMiss
  <2>2. pend.valid => OnLine(pend.line)' = {}
    BY <1>1, <1>2 DEF NoSecondMiss, OnLine
  <2> QED BY <1>6, <2>1, <2>2 DEF NoSecondMiss
<1> QED BY <1>5, <1>7, <1>8, <1>9, <1>10, <1>11 DEF FsmInv, Places

\* Nothing is taken or answered.
LEMMA NothingMoves ==
    ASSUME ControlInv, mshr' = MshrAdvanced,
           UNCHANGED <<state, req, pend, live, st_req, arch, cache, victim, store_hit_way, rsp>>
    PROVE  FsmInv'
<1>1. FsmTypes /\ Exclusive
  BY ControlParts
<1>2. mshr' \in [MshrIds -> Mshrs \cup {None}] /\ mshr_empty' = mshr_empty
  BY Stays
<1>3. FsmTypes'
  BY <1>1, <1>2 DEF FsmTypes
<1>4. Exclusive'
  BY <1>1, <1>2 DEF Exclusive
<1>5. Places' /\ NoSecondMiss'
  BY Unmoved DEF LookingUp
<1> QED BY <1>3, <1>4, <1>5 DEF FsmInv

\* A store is taken: only when no load is anywhere in the cache.
LEMMA StoreTaken ==
    ASSUME ControlInv, mshr' = MshrAdvanced, state = "IDLE", st_req.valid, ~pend.valid, mshr_empty,
           req' = StoreReq, state' = "LOOKUP", st_req' = None,
           arch' = [arch EXCEPT ![st_req.line] = Merge(@, st_req)],
           UNCHANGED <<live, pend, cache, victim, store_hit_way, rsp>>
    PROVE  FsmInv'
<1>1. FsmTypes /\ Exclusive /\ DTypes
  BY ControlParts
<1>2. mshr' \in [MshrIds -> Mshrs \cup {None}] /\ mshr_empty' = mshr_empty
  BY Stays
<1>3. st_req \in Stores /\ st_req.line \in Lines /\ st_req.word \in Words /\ st_req.val \in Vals
  BY <1>1, RegistersAre
<1>4. arch' \in [Lines -> Datas]
  <2>1. arch \in [Lines -> Datas]
    BY <1>1 DEF FsmTypes
  <2>2. Merge(arch[st_req.line], st_req) \in Datas
    BY <1>3, <2>1, MergeIs
  <2> QED BY <1>3, <2>1, <2>2
<1>5. req' \in StoreReqs /\ req'.is_store
  BY <1>3 DEF StoreReq, StoreReqs, Stores
<1>6. FsmTypes'
  BY <1>1, <1>2, <1>4, <1>5 DEF FsmTypes, Storing
<1>7. Exclusive'
  BY <1>2 DEF Exclusive
<1>8. Places' /\ NoSecondMiss'
  BY <1>5, Unmoved DEF LookingUp
<1> QED BY <1>6, <1>7, <1>8 DEF FsmInv

LEMMA IdleAcceptKeeps ==
    ASSUME ControlInv, NEW ld \in Loads \cup {None}, NEW flush \in BOOLEAN, NEW r,
           ld.valid => ~live[ld.lane].valid, IdleAccept(ld, flush, r)
    PROVE  FsmInv'
<1>1. DTypes /\ ~None.valid
  BY ControlParts DEF None
<1>2. /\ state = "IDLE" /\ mshr' = MshrAdvanced /\ state # "RESP"
      /\ UNCHANGED <<cache, victim, store_hit_way, rsp>>
  BY DEF IdleAccept
<1>3. \/ /\ pend.valid /\ req' = LoadReq(pend) /\ pend' = None /\ state' = "LOOKUP" /\ KeepsRequests
      \/ /\ ~pend.valid /\ ld.valid /\ ld_req_ready(ld, flush, r)
         /\ req' = LoadReq(ld) /\ state' = "LOOKUP" /\ TakesLoad(ld) /\ UNCHANGED pend
      \/ /\ st_req.valid /\ st_req_ready(ld, flush, r) /\ req' = StoreReq /\ state' = "LOOKUP"
         /\ arch' = [arch EXCEPT ![st_req.line] = Merge(@, st_req)] /\ st_req' = None
         /\ UNCHANGED <<live, pend>>
      \/ UNCHANGED <<req, state, pend>> /\ KeepsRequests
  BY DEF IdleAccept
<1>4. CASE pend.valid /\ req' = LoadReq(pend) /\ pend' = None /\ state' = "LOOKUP" /\ KeepsRequests
  <2>1. live' = IF state = "RESP" THEN [live EXCEPT ![rsp.lane] = None] ELSE live
    BY <1>2, <1>4 DEF KeepsRequests
  <2> QED BY <1>2, <1>4, <2>1, PendLookedUp DEF KeepsRequests
<1>5. CASE /\ ~pend.valid /\ ld.valid /\ ld_req_ready(ld, flush, r)
           /\ req' = LoadReq(ld) /\ state' = "LOOKUP" /\ TakesLoad(ld) /\ UNCHANGED pend
  <2>1. ld \in Loads /\ OnLine(ld.line) = {} /\ pend' = None
    BY <1>1, <1>5, RegistersAre DEF ld_req_ready
  <2>2. live' = [(IF state = "RESP" THEN [live EXCEPT ![rsp.lane] = None] ELSE live)
                    EXCEPT ![ld.lane] = ld]
    BY <1>2, <1>5 DEF TakesLoad
  <2> QED BY <1>2, <1>5, <2>1, <2>2, NewLookedUp DEF TakesLoad
<1>6. CASE /\ st_req.valid /\ st_req_ready(ld, flush, r) /\ req' = StoreReq /\ state' = "LOOKUP"
           /\ arch' = [arch EXCEPT ![st_req.line] = Merge(@, st_req)] /\ st_req' = None
           /\ UNCHANGED <<live, pend>>
  BY <1>2, <1>6, StoreTaken DEF st_req_ready
<1>7. CASE UNCHANGED <<req, state, pend>> /\ KeepsRequests
  BY <1>2, <1>7, NothingMoves DEF KeepsRequests
<1> QED BY <1>3, <1>4, <1>5, <1>6, <1>7

LEMMA RespondKeeps ==
    ASSUME ControlInv, NEW ld \in Loads \cup {None}, NEW flush \in BOOLEAN, NEW ready \in BOOLEAN,
           NEW r \in Txns \cup {None}, ld.valid => ~live[ld.lane].valid, Respond(ld, flush, r, ready)
    PROVE  FsmInv'
<1> DEFINE take == ld.valid /\ ld_req_ready(ld, flush, r)
           answered == [live EXCEPT ![rsp.lane] = None]
<1>1. DTypes /\ ~None.valid /\ (~pend.valid => pend = None)
  <2>1. DTypes
    BY ControlParts
  <2> QED BY <2>1, RegistersAre DEF None
<1>2. /\ state = "RESP" /\ mshr' = MshrAdvanced
      /\ UNCHANGED <<st_req, arch, cache, victim, store_hit_way, rsp>>
  BY DEF Respond
<1>3. take => /\ ld \in Loads /\ OnLine(ld.line) = {} /\ ~pend.valid /\ ~r.valid
              /\ ~live[ld.lane].valid
  BY <1>1 DEF ld_req_ready
<1>4. CASE ready /\ take
  <2>1. /\ live' = [answered EXCEPT ![ld.lane] = ld] /\ req' = LoadReq(ld) /\ state' = "LOOKUP" /\ pend' = None
    BY <1>3, <1>4 DEF Respond
  <2>2. live' = [(IF state = "RESP" THEN [live EXCEPT ![rsp.lane] = None] ELSE live)
                    EXCEPT ![ld.lane] = ld]
    BY <1>2, <2>1
  <2> QED BY <1>2, <1>3, <1>4, <2>1, <2>2, NewLookedUp
<1>5. CASE ready /\ ~take /\ pend.valid /\ ~r.valid
  <2>1. live' = answered /\ req' = LoadReq(pend) /\ state' = "LOOKUP" /\ pend' = None
    BY <1>5 DEF Respond
  <2>2. live' = IF state = "RESP" THEN [live EXCEPT ![rsp.lane] = None] ELSE live
    BY <1>2, <2>1
  <2> QED BY <1>2, <1>5, <2>1, <2>2, PendLookedUp
<1>6. CASE ready /\ ~take /\ ~(pend.valid /\ ~r.valid)
  <2>1. live' = answered /\ req' = req /\ state' = "IDLE" /\ pend' = IF r.valid THEN pend ELSE None
    BY <1>6 DEF Respond
  <2>2. pend' = pend
    BY <1>1, <1>6, <2>1
  <2> QED BY <1>2, <2>1, <2>2, Answered
<1>7. CASE ~ready /\ take
  <2>1. live' = [live EXCEPT ![ld.lane] = ld] /\ pend' = ld /\ req' = req /\ state' = state
    BY <1>7 DEF Respond
  <2> QED BY <1>2, <1>3, <1>7, <2>1, NewWaits
<1>8. CASE ~ready /\ ~take
  <2>1. live' = live /\ pend' = pend /\ req' = req /\ state' = state
    BY <1>8 DEF Respond
  <2> QED BY <1>2, <2>1, NothingMoves
<1> QED BY <1>4, <1>5, <1>6, <1>7, <1>8

-----------------------------------------------------------------------------
(* Every step.                                                             *)

LEMMA InStateKeeps ==
    ASSUME ControlInv, NEW ld \in Loads \cup {None}, NEW flush \in BOOLEAN, NEW ready \in BOOLEAN,
           NEW r \in Txns \cup {None}, ld.valid => ~live[ld.lane].valid, InState(ld, flush, r, ready)
    PROVE  FsmInv'
<1>1. CASE IdleRefill(r)
  <2>1. r \in Txns
    BY <1>1 DEF IdleRefill, None
  <2> QED BY <1>1, <2>1, IdleRefillKeeps
<1>2. CASE IdleAccept(ld, flush, r)
  BY <1>2, IdleAcceptKeeps
<1>3. CASE LookupHit
  BY <1>3, LookupHitKeeps
<1>4. CASE \E w \in Ways : LookupMiss(w)
  BY <1>4, LookupMissKeeps
<1>5. CASE StoreWrite \/ WbOrMissReq \/ WaitRefill(r)
  BY <1>5, StoringKeeps
<1>6. CASE Respond(ld, flush, r, ready)
  BY <1>6, RespondKeeps
<1> QED BY <1>1, <1>2, <1>3, <1>4, <1>5, <1>6 DEF InState

LEMMA ControlNext == ControlInv /\ [DNext]_dvars => ControlInv'
<1> SUFFICES ASSUME ControlInv, [DNext]_dvars PROVE ControlInv'
  OBVIOUS
<1>1. DTypes /\ FsmTypes
  BY ControlParts
<1>2. ASSUME NEW ld \in Loads \cup {None}, NEW flush \in BOOLEAN, NEW seen \in BOOLEAN,
             NEW ready \in BOOLEAN, DCycle(ld, flush, seen, ready)
      PROVE  ControlInv'
  <2>1. q' \in Seq(Txns) /\ pulsed' \in BOOLEAN /\ mem' \in [Lines -> Datas]
    BY <1>1, <1>2, MemoryTyped DEF DCycle
  <2>2. FsmInv'
    <3>1. CASE Killed(flush)
      BY <1>2, <3>1, FlushedKeeps DEF DCycle
    <3>2. CASE ~Killed(flush)
      <4>1. Refill(seen) \in Txns \cup {None}
        BY <1>1, RefillIs
      <4>2. (ld.valid => ~live[ld.lane].valid) /\ InState(ld, flush, Refill(seen), ready)
        BY <1>2, <3>2 DEF DCycle
      <4> QED BY <4>1, <4>2, InStateKeeps
    <3> QED BY <3>1, <3>2
  <2> QED BY <2>1, <2>2 DEF FsmInv, FsmTypes, ControlInv, DTypes
<1>3. CASE DClock
  BY <1>2, <1>3 DEF DClock
<1>4. CASE NewStore
  <2>1. /\ UNCHANGED <<state, req, pend, cache, victim, store_hit_way, rsp, mshr, q, mem, pulsed, live, arch>>
        /\ st_req' \in Stores
    BY <1>4 DEF NewStore, fsm, Stores
  <2>2. DTypes'
    BY <1>1, <2>1 DEF DTypes
  <2>3. Valid' = Valid /\ mshr_empty' = mshr_empty /\ LookingUp' = LookingUp
    BY <2>1 DEF Valid, mshr_empty, LookingUp
  <2>4. Exclusive' /\ Places' /\ NoSecondMiss'
    BY <2>1, <2>3 DEF ControlInv, Exclusive, Places, HoldsLoad, Apart, Placed, NoSecondMiss, OnLine
  <2> QED BY <2>2, <2>4 DEF ControlInv
<1>5. CASE UNCHANGED dvars
  <2>1. UNCHANGED <<state, req, pend, cache, victim, store_hit_way, rsp, mshr, q, mem, pulsed, live, arch, st_req>>
    BY <1>5 DEF dvars, fsm
  <2>2. DTypes'
    BY <1>1, <2>1 DEF DTypes
  <2>3. Valid' = Valid /\ mshr_empty' = mshr_empty /\ LookingUp' = LookingUp
    BY <2>1 DEF Valid, mshr_empty, LookingUp
  <2>4. Exclusive' /\ Places' /\ NoSecondMiss'
    BY <2>1, <2>3 DEF ControlInv, Exclusive, Places, HoldsLoad, Apart, Placed, NoSecondMiss, OnLine
  <2> QED BY <2>2, <2>4 DEF ControlInv
<1> QED BY <1>3, <1>4, <1>5 DEF DNext

-----------------------------------------------------------------------------
(* What the cache promises of its control.                                 *)

\* A store has the cache to itself, every load in flight has one place, and no two MSHRs ask for
\* the same line, in every reachable state (dcache.sv, mshr.sv).
THEOREM ControlInvariant == DSpec => []ControlInv
<1>1. DInit => ControlInv
  BY ControlInit
<1>2. ControlInv /\ [DNext]_dvars => ControlInv'
  BY ControlNext
<1> QED BY <1>1, <1>2, PTL DEF DSpec

\* The registers of the cache, the arrays and the memory below hold what their widths allow.
THEOREM DCacheTypeCorrect == DSpec => []DTypeOK
<1>1. ControlInv => DTypeOK
  <2> SUFFICES ASSUME ControlInv PROVE DTypeOK
    OBVIOUS
  <2>1. DTypes
    BY DEF ControlInv
  <2>2. \A i \in 1 .. Len(q) : q[i] \in Txns
    BY <2>1 DEF DTypes
  <2> QED BY <2>1, <2>2 DEF DTypes, DTypeOK, Txns, Stores, Entries, LoadReqs, StoreReqs, Storing
<1> QED BY <1>1, ControlInvariant, PTL

\* The MSHRs that hold the load of a lane: the one that does, if any.
LEMMA CopiesInMshrs ==
    ASSUME ControlInv, NEW i \in Lanes
    PROVE  Cardinality({j \in Valid : mshr[j].lane = i}) =
             IF \E j \in Valid : mshr[j].lane = i THEN 1 ELSE 0
<1> DEFINE C == {j \in Valid : mshr[j].lane = i}
<1>1. CASE \E j \in Valid : mshr[j].lane = i
  <2>1. PICK j \in Valid : mshr[j].lane = i
    BY <1>1
  <2>2. C = {j}
    BY <2>1, ControlParts DEF Apart
  <2>3. Cardinality({j}) = 1
    BY FS_Singleton
  <2> QED BY <1>1, <2>2, <2>3
<1>2. CASE ~ \E j \in Valid : mshr[j].lane = i
  <2>1. C = {}
    BY <1>2
  <2>2. Cardinality({}) = 0
    BY FS_EmptySet
  <2> QED BY <1>2, <2>1, <2>2
<1> QED BY <1>1, <1>2

\* Every load the LSU waits for is in exactly one place of the cache, whatever was flushed, refilled
\* or answered: it gets one response, and a load that was dropped gets none (dcache.sv:905-981).
THEOREM OneAnswerPerLoad == DSpec => []OnePlacePerLoad
<1>1. ASSUME ControlInv PROVE OnePlacePerLoad
  <2> SUFFICES ASSUME NEW i \in Lanes PROVE CopiesOf(i) = IF live[i].valid THEN 1 ELSE 0
    BY DEF OnePlacePerLoad
  <2> DEFINE m == \E j \in Valid : mshr[j].lane = i
             p == pend.valid /\ pend.lane = i
             a == state = "RESP" /\ rsp.lane = i
             l == state = "LOOKUP" /\ ~req.is_store /\ req.lane = i
  <2>1. HoldsLoad /\ Apart /\ Placed /\ DTypes /\ Exclusive
    BY <1>1, ControlParts
  <2>2. live[i].valid => m \/ p \/ a \/ l
    BY <2>1 DEF Placed, LookingUp
  <2>3. m \/ p \/ a \/ l => live[i].valid
    <3>1. m => live[i].valid
      <4>1. \A j \in Valid : Load(mshr[j]).valid
        BY DEF Load
      <4>2. \A j \in Valid : live[mshr[j].lane].valid
        BY <2>1, <4>1 DEF HoldsLoad
      <4> QED BY <4>2
    <3>2. p => live[i].valid
      BY <2>1 DEF HoldsLoad
    <3>3. a => live[i].valid
      BY <2>1 DEF HoldsLoad
    <3>4. l => live[i].valid
      BY <2>1 DEF HoldsLoad, Load, LookingUp
    <3> QED BY <3>1, <3>2, <3>3, <3>4
  <2>4. ~(m /\ p) /\ ~(m /\ a) /\ ~(m /\ l) /\ ~(p /\ a) /\ ~(p /\ l) /\ ~(a /\ l)
    BY <2>1 DEF Apart, Exclusive, LookingUp
  <2>5. CopiesOf(i) = (IF m THEN 1 ELSE 0) + (IF p THEN 1 ELSE 0) + (IF a THEN 1 ELSE 0)
                      + (IF l THEN 1 ELSE 0)
    BY <1>1, CopiesInMshrs DEF CopiesOf
  <2> HIDE DEF m, p, a, l
  <2>6. CASE m \/ p \/ a \/ l
    <3>1. CopiesOf(i) = 1
      BY <2>4, <2>5, <2>6
    <3> QED BY <2>3, <2>6, <3>1
  <2>7. CASE ~(m \/ p \/ a \/ l)
    <3>1. CopiesOf(i) = 0
      BY <2>5, <2>7
    <3> QED BY <2>2, <2>7, <3>1
  <2> QED BY <2>6, <2>7
<1> QED BY <1>1, ControlInvariant, PTL

\* A load that is looked up has a lane of its own, so at most the other lanes have MSHRs: with as
\* many MSHRs as lanes one is free.
LEMMA MshrFree ==
    ASSUME ControlInv, LookingUp
    PROVE  Valid # MshrIds
<1> SUFFICES ASSUME Valid = MshrIds PROVE FALSE
  OBVIOUS
<1> DEFINE f == [j \in MshrIds |-> mshr[j].lane]
           T == Lanes \ {req.lane}
<1>1. HoldsLoad /\ Apart /\ DTypes /\ req \in LoadReqs /\ mshr \in [MshrIds -> Mshrs \cup {None}]
  BY ControlParts
<1>2. req.lane \in Lanes
  BY <1>1, LoadOf
<1>3. \A j \in MshrIds : mshr[j].lane \in T
  BY <1>1, ValidIs, LoadOf DEF Apart
<1>4. f \in Injection(MshrIds, T)
  <2>1. f \in [MshrIds -> T]
    BY <1>3
  <2>2. \A j, k \in MshrIds : f[j] = f[k] => j = k
    BY <1>1 DEF Apart
  <2> QED BY <2>1, <2>2 DEF Injection, IsInjective
<1>5. IsFiniteSet(T) /\ Cardinality(T) = Cardinality(Lanes) - 1 /\ Cardinality(Lanes) \in Nat
  <2>1. /\ IsFiniteSet(Lanes \ {req.lane})
        /\ Cardinality(Lanes \ {req.lane}) = IF req.lane \in Lanes THEN Cardinality(Lanes) - 1
                                             ELSE Cardinality(Lanes)
    BY Geometry, FS_RemoveElement
  <2>2. Cardinality(Lanes) \in Nat
    BY Geometry, FS_CardinalityType
  <2> QED BY <1>2, <2>1, <2>2
<1> HIDE DEF f, T
<1>6. IsFiniteSet(MshrIds) /\ Cardinality(MshrIds) = N_MSHR
  <2>1. /\ IsFiniteSet(1 .. N_MSHR)
        /\ Cardinality(1 .. N_MSHR) = IF 1 > N_MSHR THEN 0 ELSE N_MSHR - 1 + 1
    BY Geometry, FS_Interval
  <2> QED BY <2>1, Geometry DEF MshrIds
<1>7. Injection(MshrIds, T) # {}
  BY <1>4
<1>8. Cardinality(MshrIds) <= Cardinality(T)
  BY <1>5, <1>7, FS_Injection
<1> QED BY <1>5, <1>6, <1>8, Geometry

\* A load that misses finds a free MSHR and none of its own line, so it never waits in LOOKUP for
\* a refill that the cache takes only in IDLE: the cache cannot deadlock there (dcache.sv:914-969).
THEOREM NoWaitInLookup == DSpec => []LookupNeverWaits
<1>1. ASSUME ControlInv PROVE LookupNeverWaits
  <2>1. LookingUp => OnLine(req.line) = {}
    BY <1>1, ControlParts DEF NoSecondMiss
  <2> QED BY <1>1, <2>1, MshrFree DEF LookupNeverWaits, LookingUp
<1> QED BY <1>1, ControlInvariant, PTL

-----------------------------------------------------------------------------
(* What may stand for a line, from one cycle to the next.                  *)

\* Nothing is good for a line but data.
LEMMA GoodIs ==
    /\ \A l \in Lines : Good[l] \subseteq Datas
    /\ \A l \in Lines, d \in Datas : d \in Good[l] <=> \A w \in Words : Now(l, d)[w] \in Current(l, w)
  BY DEF Good

LEMMA GoodNow ==
    ASSUME ControlInv, NEW l \in Lines, NEW d \in Good[l], NEW w \in Words, ~Working
    PROVE  d[w] \in Current(l, w)
  BY GoodIs DEF Now

\* No step of the store, none at its port: what was good stays good.
LEMMA GoodSame ==
    ASSUME arch' = arch, st_req' = st_req, Working' <=> Working, Working => req' = req
    PROVE  Good' = Good
<1>1. ASSUME NEW l, NEW w PROVE Current(l, w)' = Current(l, w)
  BY DEF Current
<1>2. ASSUME NEW l, NEW d PROVE Now(l, d)' = Now(l, d)
  BY DEF Now, Merge
<1> QED BY <1>1, <1>2 DEF Good

\* The store that waits at the port is taken: it is then worked on.
LEMMA GoodTaken ==
    ASSUME DTypes, st_req.valid, ~Working, Working', req' = StoreReq, st_req' = None,
           arch' = [arch EXCEPT ![st_req.line] = Merge(@, st_req)]
    PROVE  \A l \in Lines : Good[l] \subseteq Good'[l]
<1>1. /\ st_req.line \in Lines /\ st_req.word \in Words /\ st_req.val \in Vals
      /\ arch \in [Lines -> Datas] /\ ~None.valid
  BY RegistersAre DEF DTypes, None
<1>2. req'.line = st_req.line /\ req'.word = st_req.word /\ req'.val = st_req.val
  BY DEF StoreReq
<1>3. SUFFICES ASSUME NEW l \in Lines, NEW d \in Good[l], NEW w \in Words
               PROVE  Now(l, d)'[w] \in Current(l, w)'
  BY GoodIs DEF Good
<1>4. d \in Datas /\ d[w] \in Current(l, w)
  BY GoodIs DEF Now
<1>5. Current(l, w)' = {arch'[l][w]}
  BY <1>1 DEF Current
<1>6. arch[st_req.line] \in Datas
  BY <1>1
<1>7. arch'[l][w] = IF l = st_req.line /\ w = st_req.word THEN st_req.val ELSE arch[l][w]
  <2>1. Merge(arch[st_req.line], st_req)[w] = IF w = st_req.word THEN st_req.val ELSE arch[st_req.line][w]
    BY <1>1, <1>6, MergeIs
  <2> QED BY <1>1, <2>1
<1>8. Now(l, d)' = IF l = st_req.line THEN Merge(d, st_req) ELSE d
  BY <1>2 DEF Now, Merge
<1>9. Merge(d, st_req)[w] = IF w = st_req.word THEN st_req.val ELSE d[w]
  BY <1>1, <1>4, MergeIs
<1>10. ~(l = st_req.line /\ w = st_req.word) => d[w] = arch[l][w]
  BY <1>4 DEF Current
<1> QED BY <1>5, <1>7, <1>8, <1>9, <1>10

\* The store is done: it is merged into its own line, and nothing changes for the others.
LEMMA GoodDone ==
    ASSUME DTypes, Working, ~Working', req \in StoreReqs, st_req' = st_req, arch' = arch
    PROVE  /\ \A l \in Lines : l # req.line => Good[l] \subseteq Good'[l]
           /\ \A d \in Good[req.line] : Merge(d, req) \in Good'[req.line]
<1>1. ASSUME NEW l, NEW w PROVE Current(l, w)' = Current(l, w)
  BY DEF Current
<1>2. req.line \in Lines /\ req.word \in Words /\ req.val \in Vals
  BY LoadOf
<1>3. ASSUME NEW l \in Lines, l # req.line, NEW d \in Good[l] PROVE d \in Good'[l]
  <2>1. d \in Datas /\ Now(l, d) = d /\ Now(l, d)' = d
    BY <1>3, GoodIs DEF Now
  <2>2. \A w \in Words : d[w] \in Current(l, w)
    BY <2>1, GoodIs
  <2> QED BY <1>1, <2>1, <2>2 DEF Good
<1>4. ASSUME NEW d \in Good[req.line] PROVE \A l : l = req.line => Merge(d, req) \in Good'[l]
  <2>1. d \in Datas /\ Now(req.line, d) = Merge(d, req)
    BY <1>2, GoodIs DEF Now
  <2>2. Merge(d, req) \in Datas
    BY <1>2, <2>1, MergeIs
  <2> DEFINE m == Merge(d, req)
  <2>3. \A w \in Words : m[w] \in Current(req.line, w)
    BY <1>2, <2>1, GoodIs
  <2> SUFFICES ASSUME NEW l, l = req.line PROVE m \in Good'[l]
    OBVIOUS
  <2>4. \A w \in Words : m[w] \in Current(l, w)'
    BY <1>1, <2>3
  <2> HIDE DEF m
  <2>5. ASSUME NEW c PROVE Now(l, c)' = c
    BY DEF Now
  <2> QED BY <1>2, <2>2, <2>4, <2>5 DEF Good, m
<1> QED BY <1>3, <1>4

\* A committed store comes to the port: it may be current already.
LEMMA GoodGrows ==
    ASSUME ~st_req.valid, arch' = arch, Working' <=> Working, Working => req' = req
    PROVE  \A l \in Lines : Good[l] \subseteq Good'[l]
<1>1. ASSUME NEW l, NEW w PROVE Current(l, w) \subseteq Current(l, w)'
  BY DEF Current
<1>2. ASSUME NEW l, NEW d PROVE Now(l, d)' = Now(l, d)
  BY DEF Now, Merge
<1> QED BY <1>1, <1>2 DEF Good

-----------------------------------------------------------------------------
(* What the memory does in a cycle.                                        *)

LEMMA DataParts ==
    ASSUME DataInv
    PROVE  /\ ControlInv /\ Homes /\ Contents /\ Victims /\ StoreVictim /\ QueueOk /\ RspOk
           /\ DTypes /\ FsmTypes /\ Exclusive /\ NoSecondMiss
           /\ mshr \in [MshrIds -> Mshrs \cup {None}] /\ cache \in [0 .. SETS - 1 -> [Ways -> Entries]]
           /\ q \in Seq(Txns) /\ mem \in [Lines -> Datas]
           /\ req.is_store \in BOOLEAN /\ (req.is_store => Valid = {})
           /\ (Working => req \in StoreReqs)
<1>1. ControlInv /\ Homes /\ Contents /\ Victims /\ StoreVictim /\ QueueOk /\ RspOk
  BY DEF DataInv
<1>2. /\ DTypes /\ FsmTypes /\ Exclusive /\ NoSecondMiss
      /\ state = "LOOKUP" /\ req.is_store => req \in StoreReqs
  BY <1>1, ControlParts
<1>3. req.is_store \in BOOLEAN
  BY <1>2 DEF DTypes, LoadReqs, StoreReqs
<1>4. req.is_store => Valid = {} /\ state # "RESP"
  BY <1>2 DEF Exclusive, mshr_empty
<1>5. Working => req \in StoreReqs
  BY <1>2, <1>4 DEF DTypes, Working
<1> QED BY <1>1, <1>2, <1>3, <1>4, <1>5 DEF DTypes

\* What is written back is current.
LEMMA WbIsGood ==
    ASSUME DataInv, NEW seen \in BOOLEAN, wb_req(seen).valid
    PROVE  /\ wb_req(seen).line \in Lines /\ wb_req(seen).data \in Good[wb_req(seen).line]
           /\ state = "WB_REQ" \/ WbCandidates # {}
<1>1. DTypes /\ Victims /\ StoreVictim /\ mshr \in [MshrIds -> Mshrs \cup {None}] /\ ~None.valid
  BY DataParts DEF None
<1>2. wb_req(seen) # None
  BY <1>1
<1>3. wb_req(seen).line \in Lines
  BY <1>1, <1>2, OutputsAre
<1>4. CASE state = "WB_REQ"
  BY <1>1, <1>2, <1>3, <1>4 DEF wb_req, StoreVictim
<1>5. CASE state # "WB_REQ"
  <2> DEFINE i == Min(WbCandidates)
  <2>1. WbCandidates # {} /\ wb_req(seen) = [valid |-> TRUE, line |-> mshr[i].vline, data |-> mshr[i].vdata]
    BY <1>2, <1>5 DEF wb_req
  <2>2. WbCandidates \in SUBSET Nat /\ WbCandidates \subseteq Valid
    BY <1>1, ValidIs DEF WbCandidates
  <2>3. i \in WbCandidates
    BY <2>1, <2>2, MinIn
  <2> HIDE DEF i
  <2>4. i \in Valid /\ ~mshr[i].wb_done
    BY <2>3 DEF WbCandidates
  <2>5. mshr[i].vdata \in Good[mshr[i].vline]
    BY <1>1, <2>4 DEF Victims
  <2> QED BY <1>3, <2>1, <2>5
<1> QED BY <1>4, <1>5

\* Memory that is current stays so, and what is written back is current from then on.
LEMMA MemMoves ==
    ASSUME DataInv, NEW ld, NEW seen \in BOOLEAN, Memory(ld, seen)
    PROVE  /\ \A l \in Lines : mem[l] \in Good[l] => mem'[l] \in Good[l]
           /\ wb_req(seen).valid => mem'[wb_req(seen).line] \in Good[wb_req(seen).line]
<1>1. DTypes /\ mem \in [Lines -> Datas]
  BY DataParts
<1>2. CASE LooksAccepted(ld, seen)
  <2>1. ~wb_req(seen).valid
    <3>1. state = "IDLE" /\ Valid = {}
      BY <1>2 DEF LooksAccepted, mshr_empty
    <3>2. WbCandidates = {}
      BY <3>1 DEF WbCandidates
    <3> QED BY <3>1, <3>2 DEF wb_req, None
  <2>2. st_req.valid /\ st_req.line \in Lines /\ st_req.word \in Words /\ st_req.val \in Vals /\ ~Working
    BY <1>1, <1>2, RegistersAre DEF LooksAccepted, Working
  <2>3. mem' = [mem EXCEPT ![st_req.line] = Merge(@, st_req)]
    BY <1>2, <2>1 DEF Memory, WrittenBack
  <2>4. ASSUME mem[st_req.line] \in Good[st_req.line]
        PROVE  Merge(mem[st_req.line], st_req) \in Good[st_req.line]
    <3> DEFINE l == st_req.line
               d == mem[l]
               m == Merge(d, st_req)
    <3>1. d \in Datas /\ m \in Datas /\ \A w \in Words : m[w] = IF w = st_req.word THEN st_req.val ELSE d[w]
      BY <1>1, <2>2, MergeIs
    <3>2. \A w \in Words : d[w] \in Current(l, w)
      BY <2>2, <2>4, GoodIs DEF Now
    <3>3. st_req.val \in Current(l, st_req.word)
      BY <2>2 DEF Current
    <3>4. Now(l, m) = m
      BY <2>2 DEF Now
    <3> HIDE DEF d, m, l
    <3>5. \A w \in Words : Now(l, m)[w] \in Current(l, w)
      BY <3>1, <3>2, <3>3, <3>4
    <3> QED BY <2>2, <3>1, <3>5, GoodIs DEF l, d, m
  <2> QED BY <1>1, <2>1, <2>2, <2>3, <2>4
<1>3. CASE ~LooksAccepted(ld, seen) /\ wb_req(seen).valid
  <2>1. mem' = [mem EXCEPT ![wb_req(seen).line] = wb_req(seen).data]
    BY <1>3 DEF Memory, WrittenBack
  <2>2. wb_req(seen).line \in Lines /\ wb_req(seen).data \in Good[wb_req(seen).line]
    BY <1>3, WbIsGood
  <2> QED BY <1>1, <2>1, <2>2
<1>4. CASE ~LooksAccepted(ld, seen) /\ ~wb_req(seen).valid
  BY <1>4 DEF Memory, WrittenBack
<1> QED BY <1>2, <1>3, <1>4

\* A miss is of a line that no way holds.
LEMMA MissIsOut ==
    ASSUME DataInv, NEW seen \in BOOLEAN, miss_req(seen) # None
    PROVE  /\ miss_req(seen).line \in Lines \ Cached /\ mem[miss_req(seen).line] \in Good[miss_req(seen).line]
           /\ ~Killed(seen) /\ (state = "MISS_REQ" \/ Valid # {})
<1>1. /\ DTypes /\ Victims /\ StoreVictim /\ Contents /\ mshr \in [MshrIds -> Mshrs \cup {None}]
  BY DataParts
<1>2. miss_req(seen).line \in Lines /\ ~Killed(seen)
  BY <1>1, OutputsAre DEF miss_req
<1>3. miss_req(seen).line \notin Cached /\ (state = "MISS_REQ" \/ Valid # {})
  <2>1. CASE state = "MISS_REQ"
    BY <1>1, <1>2, <2>1 DEF miss_req, StoreVictim
  <2>2. CASE state # "MISS_REQ"
    <3> DEFINE i == Min(MissCandidates)
    <3>1. MissCandidates # {} /\ miss_req(seen) = [valid |-> TRUE, line |-> mshr[i].line, way |-> mshr[i].way]
      BY <1>2, <2>2 DEF miss_req
    <3>2. MissCandidates \in SUBSET Nat /\ MissCandidates \subseteq Valid
      BY <1>1, ValidIs DEF MissCandidates
    <3>3. i \in Valid
      BY <3>1, <3>2, MinIn
    <3> HIDE DEF i
    <3> QED BY <1>1, <3>1, <3>3 DEF Victims
  <2> QED BY <2>1, <2>2
<1> QED BY <1>1, <1>2, <1>3 DEF Contents

\* The refills on their way are current, and those that were there before are due.
LEMMA QueueMoves ==
    ASSUME DataInv, DELAY <= 2, NEW ld, NEW seen \in BOOLEAN, Memory(ld, seen)
    PROVE  /\ \A i \in 1 .. Len(q') : /\ q'[i].line \in Lines /\ q'[i].data \in Good[q'[i].line]
                                      /\ q'[i].delay <= 1
           /\ Due(seen) => Refill(seen).data \in Good[Refill(seen).line]
           /\ q # <<>> /\ refill_ready(seen) => Due(seen)
<1> DEFINE s == Queued(seen)
           n == Len(q)
<1>1. DTypes /\ QueueOk /\ q \in Seq(Txns)
  BY DataParts
<1>2. /\ s \in Seq(Txns) /\ n \in Nat /\ Len(s) = n + (IF miss_req(seen) = None THEN 0 ELSE 1)
      /\ \A i \in 1 .. n : /\ s[i].line = q[i].line /\ s[i].data = q[i].data
                           /\ s[i].delay = IF q[i].delay > 0 THEN q[i].delay - 1 ELSE 0
      /\ miss_req(seen) # None => /\ s[n + 1].line = miss_req(seen).line
                                  /\ s[n + 1].data = mem[miss_req(seen).line] /\ s[n + 1].delay = DELAY - 1
  BY <1>1, QueuedIs
<1> HIDE DEF s, n
<1>3. \A i \in 1 .. n : s[i].data \in Good[s[i].line] /\ s[i].delay = 0
  <2>1. \A i \in 1 .. n : q[i].data \in Good[q[i].line] /\ q[i].delay <= 1
    BY <1>1 DEF QueueOk, n
  <2>2. \A i \in 1 .. n : q[i] \in Txns
    BY <1>1 DEF n
  <2>3. \A x \in Txns : x.delay \in Nat
    BY Geometry DEF Txns
  <2>4. \A x \in Txns : x.delay <= 1 => (IF x.delay > 0 THEN x.delay - 1 ELSE 0) = 0
    BY <2>3
  <2>5. \A i \in 1 .. n : s[i].delay = 0
    BY <1>2, <2>1, <2>2, <2>4
  <2> QED BY <1>2, <2>1, <2>5
<1>4. miss_req(seen) # None => s[n + 1].data \in Good[s[n + 1].line] /\ s[n + 1].delay <= 1
  BY <1>2, MissIsOut, Geometry
<1>5. \A i \in 1 .. Len(s) : s[i].line \in Lines /\ s[i].data \in Good[s[i].line] /\ s[i].delay <= 1
  <2>1. \A i \in 1 .. Len(s) : s[i] \in Txns
    BY <1>2
  <2>2. \A i \in 1 .. Len(s) : i \in 1 .. n \/ (miss_req(seen) # None /\ i = n + 1)
    BY <1>2
  <2>3. \A i \in 1 .. Len(s) : s[i].line \in Lines
    BY <2>1 DEF Txns
  <2> QED BY <1>3, <1>4, <2>2, <2>3
<1>6. \A i \in 1 .. Len(q') : /\ q'[i].line \in Lines /\ q'[i].data \in Good[q'[i].line]
                              /\ q'[i].delay <= 1
  <2>1. CASE Due(seen)
    <3>1. q' = Tail(s) /\ s # <<>>
      BY <2>1 DEF Memory, Due, s
    <3>2. \A i \in 1 .. Len(q') : q'[i] = s[i + 1] /\ i + 1 \in 1 .. Len(s)
      BY <1>2, <3>1
    <3> QED BY <1>5, <3>2
  <2>2. CASE ~Due(seen)
    BY <1>5, <2>2 DEF Memory, s
  <2> QED BY <2>1, <2>2
<1>7. Due(seen) => Refill(seen).data \in Good[Refill(seen).line]
  <2>1. Due(seen) => s # <<>> /\ Refill(seen) = s[1]
    BY DEF Due, Refill, s
  <2>2. s # <<>> => 1 \in 1 .. Len(s)
    BY <1>2
  <2> QED BY <1>5, <2>1, <2>2
<1>8. q # <<>> /\ refill_ready(seen) => Due(seen)
  <2> SUFFICES ASSUME q # <<>>, refill_ready(seen) PROVE Due(seen)
    OBVIOUS
  <2>1. 1 \in 1 .. n /\ n >= 1
    BY <1>1 DEF n
  <2>2. s[1].delay = 0 /\ s # <<>>
    BY <1>2, <1>3, <2>1
  <2> QED BY <2>2 DEF Due, s
<1> QED BY <1>6, <1>7, <1>8

-----------------------------------------------------------------------------
(* The arrays and the victims over a cycle.                                *)

\* An MSHR has written its victim back by the end of the cycle after it was allocated.
LEMMA AllWritten ==
    ASSUME DataInv
    PROVE  \A j \in Valid : MshrAdvanced[j].wb_done /\ state # "WB_REQ"
<1> SUFFICES ASSUME NEW j \in Valid PROVE MshrAdvanced[j].wb_done /\ state # "WB_REQ"
  OBVIOUS
<1>1. DTypes /\ Victims /\ mshr \in [MshrIds -> Mshrs \cup {None}] /\ ~req.is_store
  BY DataParts
<1>2. state # "WB_REQ"
  BY <1>1, LoadOf DEF DTypes, Storing
<1>3. CASE WbCandidates = {}
  <2>1. mshr[j].wb_done
    BY <1>3 DEF WbCandidates
  <2> QED BY <1>1, <1>2, <2>1, AdvanceIs DEF SameButFor
<1>4. CASE WbCandidates # {}
  <2> DEFINE i == Min(WbCandidates)
  <2>1. WbCandidates \in SUBSET Nat /\ WbCandidates \subseteq Valid
    BY <1>1, ValidIs DEF WbCandidates
  <2>2. i \in WbCandidates
    BY <1>4, <2>1, MinIn
  <2>3. MshrAdvanced = [mshr EXCEPT ![i].wb_done = TRUE]
    BY <1>2, <1>4 DEF MshrAdvanced
  <2> HIDE DEF i
  <2>4. i \in Valid /\ i \in MshrIds
    BY <1>1, <2>1, <2>2, ValidIs
  <2>5. CASE j = i
    <3>1. mshr[i] \in Mshrs
      BY <1>1, <2>4, ValidIs
    <3>2. [mshr[i] EXCEPT !.wb_done = TRUE].wb_done
      BY <3>1 DEF Mshrs
    <3>3. MshrAdvanced[i] = [mshr[i] EXCEPT !.wb_done = TRUE]
      BY <1>1, <2>3, <2>4
    <3> QED BY <1>2, <2>5, <3>2, <3>3
  <2>6. CASE j # i
    <3>1. mshr[j].wb_done
      BY <1>1, <2>2, <2>6 DEF Victims, WbCandidates
    <3> QED BY <1>1, <1>2, <3>1, AdvanceIs DEF SameButFor
  <2> QED BY <2>5, <2>6
<1> QED BY <1>3, <1>4

\* What the refill of an MSHR overwrites is in memory at the end of the cycle, even if the refill
\* comes in the cycle of the write-back.
LEMMA VictimInMemory ==
    ASSUME DataInv, NEW ld, NEW seen \in BOOLEAN, Memory(ld, seen), ~Killed(seen), NEW j \in Valid
    PROVE  LET e == cache[Index(mshr[j].line)][mshr[j].way]
           IN  e.valid => mem'[e.line] \in Good[e.line]
<1> DEFINE e == cache[Index(mshr[j].line)][mshr[j].way]
<1>1. DTypes /\ Victims /\ mshr \in [MshrIds -> Mshrs \cup {None}]
      /\ cache \in [0 .. SETS - 1 -> [Ways -> Entries]]
  BY DataParts
<1>2. mshr[j] \in Mshrs
  BY <1>1, ValidIs
<1>3. mshr[j].line \in Lines /\ mshr[j].way \in Ways
  BY <1>2, LoadOf
<1>4. e \in Entries
  BY <1>1, <1>3, IndexIs
<1>5. e.line \in Lines
  BY <1>4 DEF Entries
<1>6. CASE e.valid /\ (mshr[j].wb_done \/ e.line # mshr[j].vline)
  <2>1. mem[e.line] \in Good[e.line]
    BY <1>1, <1>6 DEF Victims
  <2>2. \A l \in Lines : mem[l] \in Good[l] => mem'[l] \in Good[l]
    BY MemMoves
  <2> HIDE DEF e
  <2>3. mem'[e.line] \in Good[e.line]
    BY <1>5, <2>1, <2>2
  <2> QED BY <2>3 DEF e
<1>7. CASE ~mshr[j].wb_done /\ e.line = mshr[j].vline
  <2>1. j \in WbCandidates
    BY <1>7 DEF WbCandidates
  <2>2. Min(WbCandidates) = j
    <3>1. WbCandidates \in SUBSET Nat
      BY <1>1, ValidIs DEF WbCandidates
    <3>2. Min(WbCandidates) \in WbCandidates
      BY <2>1, <3>1, MinIn
    <3> QED BY <1>1, <2>1, <3>2 DEF Victims
  <2>3. state # "WB_REQ"
    BY AllWritten
  <2>4. wb_req(seen) = [valid |-> TRUE, line |-> mshr[j].vline, data |-> mshr[j].vdata]
    BY <2>1, <2>2, <2>3 DEF wb_req
  <2>5. mem'[wb_req(seen).line] \in Good[wb_req(seen).line]
    BY <2>4, MemMoves
  <2> QED BY <1>7, <2>4, <2>5
<1> QED BY <1>6, <1>7

\* The arrays are not written.
LEMMA ArraysStay ==
    ASSUME DataInv, \A l \in Lines : mem[l] \in Good[l] => mem'[l] \in Good[l], cache' = cache,
           \A l \in Lines : Good[l] \subseteq Good'[l]
    PROVE  Homes' /\ Contents' /\ Cached' = Cached
<1>1. Homes /\ Contents /\ cache \in [0 .. SETS - 1 -> [Ways -> Entries]]
  BY DataParts
<1>2. Cached' = Cached
  BY DEF Cached
<1>3. Homes'
  BY <1>1 DEF Homes
<1>4. \A l \in Lines : mem[l] \in Good[l] => mem'[l] \in Good'[l]
  OBVIOUS
<1>5. ASSUME NEW s \in 0 .. SETS - 1, NEW w \in Ways, cache[s][w].valid
      PROVE  /\ cache[s][w].data \in Good'[cache[s][w].line]
             /\ cache[s][w].dirty \/ mem'[cache[s][w].line] \in Good'[cache[s][w].line]
  <2>1. cache[s][w].line \in Lines
    BY <1>1 DEF Entries
  <2> QED BY <1>1, <1>4, <1>5, <2>1 DEF Contents
<1>6. \A l \in Lines \ Cached' : mem'[l] \in Good'[l]
  BY <1>1, <1>2, <1>4 DEF Contents
<1>7. Contents'
  BY <1>5, <1>6 DEF Contents
<1> QED BY <1>2, <1>3, <1>7

\* No MSHR is filled or freed, and the arrays are not written.
LEMMA VictimsStay ==
    ASSUME DataInv, NEW ld, NEW seen \in BOOLEAN, Memory(ld, seen), ~Killed(seen), cache' = cache,
           mshr' = MshrAdvanced, \A l \in Lines : Good[l] \subseteq Good'[l]
    PROVE  Victims'
<1>1. Victims /\ mshr \in [MshrIds -> Mshrs \cup {None}]
      /\ cache \in [0 .. SETS - 1 -> [Ways -> Entries]] /\ ControlInv
  BY DataParts
<1>2. Cached' = Cached
  BY DEF Cached
<1>3. Valid' = Valid /\ \A j \in Valid : /\ mshr'[j].line = mshr[j].line /\ mshr'[j].way = mshr[j].way
                                         /\ mshr'[j].wb_done
  BY <1>1, MshrsStay, AllWritten DEF SameButFor
<1>4. WbCandidates' = {}
  BY <1>3 DEF WbCandidates
<1>5. ASSUME NEW j \in Valid, NEW e, e = cache[Index(mshr[j].line)][mshr[j].way], e.valid
      PROVE  mem'[e.line] \in Good'[e.line]
  <2>1. mshr[j] \in Mshrs
    BY <1>1, ValidIs
  <2>2. e.line \in Lines
    BY <1>1, <1>5, <2>1, LoadOf, IndexIs DEF Entries
  <2>3. mem'[e.line] \in Good[e.line]
    BY <1>5, VictimInMemory
  <2> QED BY <2>2, <2>3
<1>6. \A j \in Valid : LET e == cache'[Index(mshr'[j].line)][mshr'[j].way] IN
        e.valid => mem'[e.line] \in Good'[e.line]
  BY <1>3, <1>5
<1>7. \A j \in Valid : mshr'[j].line \notin Cached'
  BY <1>1, <1>2, <1>3 DEF Victims
<1> QED BY <1>3, <1>4, <1>6, <1>7 DEF Victims, Index

-----------------------------------------------------------------------------
(* The contents over each step.                                            *)

DataPart == Homes /\ Contents /\ Victims /\ StoreVictim /\ QueueOk /\ RspOk

\* The refill of the store that is worked on, and no other, is on its way once its miss is sent.
LEMMA StoreQueue ==
    ASSUME DataInv, NEW ld, NEW seen \in BOOLEAN, Memory(ld, seen), Working
    PROVE  /\ ~Killed(seen)
           /\ state \in {"LOOKUP", "STORE_WRITE", "WB_REQ"} => q' = <<>>
           /\ state = "MISS_REQ" => Len(q') = 1 /\ q'[1].line = req.line /\ q'[1].way = victim.way
           /\ state = "WAIT_REFILL" /\ ~Due(seen) =>
                Len(q') = 1 /\ q'[1].line = req.line /\ q'[1].way = victim.way
           /\ state = "WAIT_REFILL" /\ Due(seen) =>
                q' = <<>> /\ Refill(seen).line = req.line /\ Refill(seen).way = victim.way
<1> DEFINE s == Queued(seen)
           n == Len(q)
           m == miss_req(seen)
<1>1. DTypes /\ QueueOk /\ q \in Seq(Txns) /\ Valid = {} /\ req.is_store /\ state # "IDLE"
  BY DataParts DEF Working
<1>2. ~Killed(seen)
  BY <1>1 DEF Killed
<1>3. /\ s \in Seq(Txns) /\ n \in Nat /\ Len(s) = n + (IF m = None THEN 0 ELSE 1)
      /\ \A i \in 1 .. n : s[i].line = q[i].line /\ s[i].way = q[i].way
      /\ m # None => s[n + 1].line = m.line /\ s[n + 1].way = m.way
  BY <1>1, QueuedIs
<1>4. state # "MISS_REQ" => m = None
  <2>1. MissCandidates = {}
    BY <1>1 DEF MissCandidates
  <2> QED BY <1>2, <2>1 DEF miss_req
<1>5. state = "MISS_REQ" => m = [valid |-> TRUE, line |-> req.line, way |-> victim.way] /\ m # None
  BY <1>2 DEF miss_req, None
<1>6. state # "WAIT_REFILL" => ~Due(seen)
  BY <1>1 DEF Due, refill_ready
<1>7. (Due(seen) => q' = Tail(s) /\ Refill(seen) = s[1]) /\ (~Due(seen) => q' = s)
  BY DEF Memory, Refill
<1>8. (state = "WAIT_REFILL" => n = 1 /\ q[1].line = req.line /\ q[1].way = victim.way)
      /\ (state # "WAIT_REFILL" => q = <<>> /\ n = 0)
  BY <1>1 DEF QueueOk
<1> HIDE DEF s, n, m
<1>9. CASE state = "WAIT_REFILL"
  <2>1. Len(s) = 1 /\ s[1].line = req.line /\ s[1].way = victim.way
    BY <1>3, <1>4, <1>8, <1>9
  <2>2. Tail(s) = <<>>
    <3>1. \A u \in Seq(Txns) : Len(u) = 0 <=> u = <<>>
      OBVIOUS
    <3>2. \A u \in Seq(Txns) : u # <<>> => Tail(u) \in Seq(Txns) /\ Len(Tail(u)) = Len(u) - 1
      OBVIOUS
    <3>3. s # <<>>
      <4>1. s \in Seq(Txns) /\ Len(s) # 0
        BY <1>3, <2>1
      <4> QED BY <3>1, <4>1
    <3>4. Tail(s) \in Seq(Txns) /\ Len(Tail(s)) = 0
      BY <1>3, <2>1, <3>2, <3>3
    <3> QED BY <3>1, <3>4
  <2> QED BY <1>2, <1>7, <1>9, <2>1, <2>2
<1>10. CASE state = "MISS_REQ"
  <2>1. Len(s) = 1 /\ s[1].line = req.line /\ s[1].way = victim.way
    BY <1>3, <1>5, <1>8, <1>10
  <2> QED BY <1>2, <1>6, <1>7, <1>10, <2>1
<1>11. CASE state # "WAIT_REFILL" /\ state # "MISS_REQ"
  <2>1. Len(s) = 0
    BY <1>3, <1>4, <1>8, <1>11
  <2>2. s = <<>>
    BY <1>3, <2>1
  <2> QED BY <1>2, <1>6, <1>7, <1>11, <2>2
<1> QED BY <1>9, <1>10, <1>11

\* The queue of a step that finishes no store.
LEMMA QueueKeeps ==
    ASSUME DataInv, DELAY <= 2, NEW ld, NEW seen \in BOOLEAN, Memory(ld, seen),
           \A l \in Lines : Good[l] \subseteq Good'[l],
           Working' => IF state' = "WAIT_REFILL"
                       THEN Len(q') = 1 /\ q'[1].line = req'.line /\ q'[1].way = victim'.way
                       ELSE q' = <<>>
    PROVE  QueueOk'
<1>1. \A i \in 1 .. Len(q') : /\ q'[i].line \in Lines /\ q'[i].data \in Good[q'[i].line]
                              /\ q'[i].delay <= 1
  BY QueueMoves
<1>2. \A i \in 1 .. Len(q') : q'[i].data \in Good'[q'[i].line] /\ q'[i].delay <= 1
  BY <1>1
<1> QED BY <1>2 DEF QueueOk

\* A step that writes no array, and fills and frees no MSHR.
LEMMA QuietKeeps ==
    ASSUME DataInv, DELAY <= 2, NEW ld, NEW seen \in BOOLEAN, Memory(ld, seen), ~Killed(seen),
           cache' = cache, mshr' = MshrAdvanced, \A l \in Lines : Good[l] \subseteq Good'[l],
           StoreVictim', RspOk',
           Working' => IF state' = "WAIT_REFILL"
                       THEN Len(q') = 1 /\ q'[1].line = req'.line /\ q'[1].way = victim'.way
                       ELSE q' = <<>>
    PROVE  DataPart'
<1>1. \A l \in Lines : mem[l] \in Good[l] => mem'[l] \in Good[l]
  BY MemMoves
<1>2. Homes' /\ Contents'
  BY <1>1, ArraysStay
<1>3. Victims'
  BY VictimsStay
<1>4. QueueOk'
  BY QueueKeeps
<1> QED BY <1>2, <1>3, <1>4 DEF DataPart

\* Such a step with no store in the cache.
LEMMA QuietLoads ==
    ASSUME DataInv, DELAY <= 2, NEW ld, NEW seen \in BOOLEAN, Memory(ld, seen), ~Killed(seen),
           cache' = cache, mshr' = MshrAdvanced, arch' = arch, st_req' = st_req,
           ~Working, ~Working', state' \in {"IDLE", "LOOKUP", "RESP"}, RspOk'
    PROVE  DataPart'
<1>1. Good' = Good
  BY GoodSame
<1>2. StoreVictim'
  BY DEF StoreVictim
<1> QED BY <1>1, <1>2, QuietKeeps

LEMMA FlushedData ==
    ASSUME DataInv, DELAY <= 2, NEW ld, NEW seen \in BOOLEAN, NEW flush \in BOOLEAN,
           Memory(ld, seen), Killed(flush), Flushed
    PROVE  DataPart'
<1>1. ~Working /\ ~Working' /\ state' = "IDLE"
  BY DEF Killed, Flushed, Working
<1>2. cache' = cache /\ arch' = arch /\ st_req' = st_req
  BY DEF Flushed
<1>3. Good' = Good
  BY <1>1, <1>2, GoodSame
<1>4. \A l \in Lines : mem[l] \in Good[l] => mem'[l] \in Good[l]
  BY MemMoves
<1>5. Homes' /\ Contents'
  BY <1>2, <1>3, <1>4, ArraysStay
<1>6. Victims'
  <2>1. mshr' = [i \in MshrIds |-> None] /\ ~None.valid
    BY DEF Flushed, None
  <2>2. Valid' = {}
    BY <2>1 DEF Valid
  <2> QED BY <2>2 DEF Victims, WbCandidates
<1>7. QueueOk'
  BY <1>1, <1>3, QueueKeeps
<1> QED BY <1>1, <1>5, <1>6, <1>7 DEF DataPart, StoreVictim, RspOk

LEMMA IdleAcceptData ==
    ASSUME DataInv, DELAY <= 2, NEW ld \in Loads \cup {None}, NEW flush \in BOOLEAN, NEW seen \in BOOLEAN,
           seen => flush, Memory(ld, seen), ~Killed(seen), IdleAccept(ld, flush, Refill(seen))
    PROVE  DataPart'
<1>1. DTypes /\ state = "IDLE" /\ ~Working /\ cache' = cache /\ mshr' = MshrAdvanced /\ ~Refill(seen).valid
  BY DataParts DEF IdleAccept, Working
<1>2. \/ /\ pend.valid /\ req' = LoadReq(pend) /\ state' = "LOOKUP" /\ KeepsRequests
      \/ /\ req' = LoadReq(ld) /\ state' = "LOOKUP" /\ TakesLoad(ld)
      \/ /\ st_req.valid /\ st_req_ready(ld, flush, Refill(seen)) /\ req' = StoreReq /\ state' = "LOOKUP"
         /\ arch' = [arch EXCEPT ![st_req.line] = Merge(@, st_req)] /\ st_req' = None
      \/ UNCHANGED <<req, state, pend>> /\ KeepsRequests
  BY DEF IdleAccept
<1>3. CASE \/ (req' = LoadReq(pend) \/ req' = LoadReq(ld)) /\ state' = "LOOKUP" /\ arch' = arch /\ st_req' = st_req
           \/ UNCHANGED <<req, state, pend>> /\ KeepsRequests
  <2>1. ~Working' /\ state' \in {"IDLE", "LOOKUP"} /\ arch' = arch /\ st_req' = st_req
    BY <1>1, <1>3 DEF Working, LoadReq, KeepsRequests
  <2>2. RspOk'
    BY <2>1 DEF RspOk
  <2> QED BY <1>1, <2>1, <2>2, QuietLoads
<1>4. CASE /\ st_req.valid /\ st_req_ready(ld, flush, Refill(seen)) /\ req' = StoreReq /\ state' = "LOOKUP"
           /\ arch' = [arch EXCEPT ![st_req.line] = Merge(@, st_req)] /\ st_req' = None
  <2>1. Working' /\ state' = "LOOKUP" /\ Valid = {} /\ ~seen
    BY <1>4 DEF Working, StoreReq, st_req_ready, mshr_empty
  <2>2. \A l \in Lines : Good[l] \subseteq Good'[l]
    BY <1>1, <1>4, <2>1, GoodTaken
  <2>3. q' = <<>>
    <3>1. refill_ready(seen) /\ ~Due(seen)
      BY <1>1, <2>1, RefillIs DEF refill_ready
    <3>2. q = <<>>
      BY <3>1, QueueMoves
    <3>3. miss_req(seen) = None
      BY <1>1, <2>1, MissIsOut
    <3>4. Queued(seen) \in Seq(Txns) /\ Len(Queued(seen)) = Len(q) + (IF miss_req(seen) = None THEN 0 ELSE 1)
      BY <1>1, QueuedIs
    <3>5. Len(Queued(seen)) = 0
      BY <3>2, <3>3, <3>4
    <3>6. Queued(seen) = <<>>
      BY <3>4, <3>5
    <3> QED BY <3>1, <3>6 DEF Memory
  <2>4. StoreVictim' /\ RspOk'
    BY <2>1 DEF StoreVictim, RspOk
  <2> QED BY <1>1, <2>1, <2>2, <2>3, <2>4, QuietKeeps
<1> QED BY <1>2, <1>3, <1>4 DEF TakesLoad, KeepsRequests

LEMMA RespondData ==
    ASSUME DataInv, DELAY <= 2, NEW ld \in Loads \cup {None}, NEW flush \in BOOLEAN, NEW seen \in BOOLEAN,
           NEW ready \in BOOLEAN, NEW r, ld.valid => ~live[ld.lane].valid,
           Memory(ld, seen), ~Killed(seen), Respond(ld, flush, r, ready)
    PROVE  DataPart'
<1>1. DTypes /\ ControlInv /\ RspOk /\ Exclusive
  BY DataParts
<1>2. /\ state = "RESP" /\ mshr' = MshrAdvanced /\ cache' = cache /\ arch' = arch /\ st_req' = st_req /\ rsp' = rsp
  BY DEF Respond
<1>3. ~req.is_store
  BY <1>1, <1>2 DEF Exclusive
<1>4. (req' = req \/ req' = LoadReq(pend) \/ req' = LoadReq(ld)) /\ state' \in {"IDLE", "LOOKUP", "RESP"}
  BY <1>2 DEF Respond
<1>5. ~req'.is_store
  BY <1>3, <1>4 DEF LoadReq
<1>6. ~Working /\ ~Working'
  BY <1>3, <1>5 DEF Working
<1>7. RspOk'
  <2> SUFFICES ASSUME state' = "RESP" PROVE RspOk'
    BY DEF RspOk
  <2>1. ~ready
    BY DEF Respond
  <2>2. live' = live \/ (ld.valid /\ live' = [live EXCEPT ![ld.lane] = ld])
    BY <2>1 DEF Respond
  <2>3. live'[rsp.lane] = live[rsp.lane]
    <3>1. CASE ld.valid /\ live' = [live EXCEPT ![ld.lane] = ld]
      <4>1. ld \in Loads
        BY <3>1 DEF None
      <4>2. ld.lane \in Lanes /\ rsp.lane # ld.lane
        BY <1>1, <1>2, <3>1, <4>1, NewLoad
      <4> QED BY <1>1, <3>1, <4>2 DEF DTypes
    <3> QED BY <2>2, <3>1
  <2> QED BY <1>1, <1>2, <2>3 DEF RspOk, Current
<1> QED BY <1>2, <1>4, <1>6, <1>7, QuietLoads

\* One way is written, with a line that no other way holds.
NowhereElse(s, w, l) ==
    \A t \in 0 .. SETS - 1, v \in Ways : cache[t][v].valid /\ cache[t][v].line = l => t = s /\ v = w
OnlyWrote(s, w, l, data) ==
    /\ cache'[s][w].valid /\ cache'[s][w].line = l /\ cache'[s][w].data = data
    /\ \A t \in 0 .. SETS - 1, v \in Ways : ~(t = s /\ v = w) => cache'[t][v] = cache[t][v]
    /\ l \in Cached' /\ Cached' \subseteq Cached \cup {l}
    /\ \A k \in Lines \ Cached' : k \in Cached => cache[s][w].valid /\ cache[s][w].line = k
LEMMA Written ==
    ASSUME FsmTypes, Homes, NEW s \in 0 .. SETS - 1, NEW w \in Ways, NEW l \in Lines, NEW dirty \in BOOLEAN,
           NEW data \in Datas, WriteWay(s, w, l, dirty, data), Index(l) = s, NowhereElse(s, w, l)
    PROVE  Homes' /\ OnlyWrote(s, w, l, data) /\ cache'[s][w].dirty = dirty
<1> DEFINE e == [valid |-> TRUE, dirty |-> dirty, line |-> l, data |-> data]
<1>1. cache \in [0 .. SETS - 1 -> [Ways -> Entries]]
  BY DEF FsmTypes
<1>2. cache' = [cache EXCEPT ![s][w] = e]
  BY DEF WriteWay
<1>3. e.valid /\ e.line = l /\ e.data = data /\ e.dirty = dirty
  OBVIOUS
<1> HIDE DEF e
<1>4. /\ cache'[s][w] = e
      /\ \A t \in 0 .. SETS - 1, v \in Ways : ~(t = s /\ v = w) => cache'[t][v] = cache[t][v]
  BY <1>1, <1>2
<1>5. Homes'
  <2>1. \A t \in 0 .. SETS - 1, v \in Ways : cache'[t][v].valid => Index(cache'[t][v].line) = t
    BY <1>3, <1>4 DEF Homes
  <2>2. ASSUME NEW t \in 0 .. SETS - 1, NEW v \in Ways, NEW u \in Ways, cache'[t][v].valid, cache'[t][u].valid,
               cache'[t][v].line = cache'[t][u].line
        PROVE  v = u
    <3>1. CASE t # s
      BY <1>4, <2>2, <3>1 DEF Homes
    <3>2. CASE t = s /\ v # w /\ u # w
      BY <1>4, <2>2, <3>2 DEF Homes
    <3>3. CASE t = s /\ (v = w \/ u = w)
      BY <1>3, <1>4, <2>2, <3>3 DEF NowhereElse
    <3> QED BY <3>1, <3>2, <3>3
  <2> QED BY <2>1, <2>2 DEF Homes, Index
<1>6. \A k : k \in Cached' <=> /\ k \in Lines
                               /\ \E t \in 0 .. SETS - 1, v \in Ways : cache'[t][v].valid /\ cache'[t][v].line = k
  BY DEF Cached
<1>7. \A k : k \in Cached <=> /\ k \in Lines
                              /\ \E t \in 0 .. SETS - 1, v \in Ways : cache[t][v].valid /\ cache[t][v].line = k
  BY DEF Cached
<1>8. l \in Cached'
  BY <1>3, <1>4, <1>6
<1>9. Cached' \subseteq Cached \cup {l}
  BY <1>3, <1>4, <1>6, <1>7
<1>10. \A k \in Lines \ Cached' : k \in Cached => cache[s][w].valid /\ cache[s][w].line = k
  BY <1>4, <1>6, <1>7
<1> QED BY <1>3, <1>4, <1>5, <1>8, <1>9, <1>10 DEF OnlyWrote

\* A way that is valid holds a line that is cached; a line that is cached is in its set.
LEMMA CachedIs ==
    ASSUME DTypes, Homes
    PROVE  /\ \A s \in 0 .. SETS - 1, w \in Ways : cache[s][w].valid =>
                cache[s][w].line \in Lines /\ cache[s][w].line \in Cached
           /\ \A l \in Lines : l \in Cached <=> HitWays(l) # {}
<1>1. cache \in [0 .. SETS - 1 -> [Ways -> Entries]]
  BY DEF DTypes
<1>2. \A s \in 0 .. SETS - 1, w \in Ways : cache[s][w].line \in Lines
  BY <1>1 DEF Entries
<1>3. \A s \in 0 .. SETS - 1, w \in Ways : cache[s][w].valid => cache[s][w].line \in Cached
  BY <1>2 DEF Cached
<1>4. ASSUME NEW l \in Lines PROVE l \in Cached <=> HitWays(l) # {}
  <2>1. l \in Cached => HitWays(l) # {}
    BY DEF Homes, Cached, HitWays, Set
  <2>2. HitWays(l) # {} => l \in Cached
    BY IndexIs DEF Cached, HitWays, Set
  <2> QED BY <2>1, <2>2
<1> QED BY <1>2, <1>3, <1>4

LEMMA IdleRefillData ==
    ASSUME DataInv, DELAY <= 2, NEW ld, NEW seen \in BOOLEAN, Memory(ld, seen), ~Killed(seen),
           IdleRefill(Refill(seen))
    PROVE  DataPart'
<1> DEFINE r == Refill(seen)
<1>1. /\ DTypes /\ FsmTypes /\ Homes /\ Contents /\ Victims /\ NoSecondMiss
      /\ mshr \in [MshrIds -> Mshrs \cup {None}] /\ HoldsLoad
      /\ req.is_store \in BOOLEAN /\ (req.is_store => Valid = {})
      /\ cache \in [0 .. SETS - 1 -> [Ways -> Entries]]
  BY DataParts, ControlParts
<1>2. /\ state = "IDLE" /\ live' = live /\ st_req' = st_req /\ arch' = arch /\ req' = req /\ r.valid
  BY DEF IdleRefill, KeepsRequests
<1>3. r \in Txns /\ r.data \in Good[r.line]
  BY <1>1, <1>2, RefillIs, QueueMoves
<1>4. ~Working
  BY <1>2 DEF Working
<1> HIDE DEF r
<1>5. CASE OnLine(r.line) = {}
  <2>1. cache' = cache /\ state' = state /\ mshr' = MshrAdvanced
    BY <1>5 DEF IdleRefill, r
  <2>2. ~Working' /\ RspOk'
    BY <1>2, <2>1 DEF Working, RspOk
  <2> QED BY <1>2, <1>4, <2>1, <2>2, QuietLoads
<1>6. CASE OnLine(r.line) # {}
  <2> DEFINE i == Min(OnLine(r.line))
             m == mshr[i]
             s == Index(m.line)
             w == m.way
  <2>1. i \in Valid /\ m.line = r.line
    <3>1. OnLine(r.line) \in SUBSET Nat /\ OnLine(r.line) \subseteq Valid
      BY <1>1, ValidIs DEF OnLine
    <3>2. i \in OnLine(r.line)
      BY <1>6, <3>1, MinIn
    <3> QED BY <3>2 DEF OnLine
  <2>2. /\ WriteWay(s, w, r.line, FALSE, r.data)
        /\ mshr' = [MshrAdvanced EXCEPT ![i] = None]
        /\ rsp' = Response(m.lane, r.data[m.word]) /\ state' = "RESP"
    BY <1>6 DEF IdleRefill, r
  <2>3. r.line \in Lines /\ r.data \in Datas
    BY <1>3 DEF Txns
  <2> HIDE DEF i
  <2>4. m \in Mshrs /\ i \in MshrIds
    BY <1>1, <2>1, ValidIs
  <2>5. /\ m.lane \in Lanes /\ m.line \in Lines /\ m.word \in Words /\ w \in Ways /\ s \in 0 .. SETS - 1
        /\ Load(m).line = m.line /\ Load(m).word = m.word
    BY <2>4, LoadOf, IndexIs
  <2>6. None \in Mshrs \cup {None}
    OBVIOUS
  <2>7. /\ Valid' = (IF None = None THEN Valid \ {i} ELSE Valid \cup {i})
        /\ \A j \in Valid \ {i} : SameButFor(mshr'[j], mshr[j]) /\ mshr'[j] = MshrAdvanced[j]
    BY <1>1, <2>2, <2>4, <2>6, MshrPut
  <2>8. /\ Valid' = Valid \ {i}
        /\ \A j \in Valid' : /\ mshr'[j].line = mshr[j].line /\ mshr'[j].way = mshr[j].way
                             /\ mshr'[j].wb_done
    BY <2>7, AllWritten DEF SameButFor
  <2>9. r.line \notin Cached
    BY <1>1, <2>1 DEF Victims
  <2>10. NowhereElse(s, w, r.line)
    BY <1>1, <2>9, CachedIs DEF NowhereElse
  <2>11. Index(r.line) = s
    BY <2>1
  <2>12. cache[s][w].valid => mem'[cache[s][w].line] \in Good[cache[s][w].line]
    BY <2>1, VictimInMemory
  <2>13. /\ \A l \in Lines : mem[l] \in Good[l] => mem'[l] \in Good[l]
         /\ \A l \in Lines \ Cached : mem'[l] \in Good[l]
    BY <1>1, MemMoves DEF Contents
  <2>14. ~Working' /\ ~req.is_store
    BY <1>1, <1>2, <2>1 DEF Working
  <2>15. Good' = Good
    BY <1>2, <1>4, <2>14, GoodSame
  <2>16. HoldsLoad => live[m.lane] = Load(m)
    BY <2>1 DEF HoldsLoad
  <2> HIDE DEF s, w
  <2>17. /\ Homes'
         /\ cache'[s][w].valid /\ cache'[s][w].line = r.line /\ cache'[s][w].data = r.data
         /\ \A t \in 0 .. SETS - 1, v \in Ways : ~(t = s /\ v = w) => cache'[t][v] = cache[t][v]
         /\ r.line \in Cached' /\ Cached' \subseteq Cached \cup {r.line}
         /\ \A k \in Lines \ Cached' : k \in Cached => cache[s][w].valid /\ cache[s][w].line = k
    <3>1. /\ FsmTypes /\ Homes /\ WriteWay(s, w, r.line, FALSE, r.data) /\ FALSE \in BOOLEAN
          /\ s \in 0 .. SETS - 1 /\ w \in Ways
      BY <1>1, <2>2, <2>5
    <3>2. Homes' /\ OnlyWrote(s, w, r.line, r.data)
      BY <2>3, <2>10, <2>11, <3>1, Written
    <3> QED BY <3>2 DEF OnlyWrote
  <2>18. mem'[r.line] \in Good[r.line]
    BY <2>3, <2>9, <2>13
  <2>19. Contents'
    <3>1. ASSUME NEW t \in 0 .. SETS - 1, NEW v \in Ways, cache'[t][v].valid
          PROVE  /\ cache'[t][v].data \in Good[cache'[t][v].line]
                 /\ cache'[t][v].dirty \/ mem'[cache'[t][v].line] \in Good[cache'[t][v].line]
      <4>1. CASE t = s /\ v = w
        BY <1>3, <2>17, <2>18, <4>1
      <4>2. CASE ~(t = s /\ v = w)
        <5>1. cache'[t][v] = cache[t][v] /\ cache[t][v].valid
          BY <2>17, <3>1, <4>2
        <5>2. cache[t][v].line \in Lines
          BY <1>1, <5>1, CachedIs
        <5> QED BY <1>1, <2>13, <5>1, <5>2 DEF Contents
      <4> QED BY <4>1, <4>2
    <3>2. \A k \in Lines \ Cached' : mem'[k] \in Good[k]
      BY <2>12, <2>13, <2>17
    <3> QED BY <2>15, <3>1, <3>2 DEF Contents
  <2>20. Victims'
    <3>1. WbCandidates' = {}
      BY <2>8 DEF WbCandidates
    <3>2. ASSUME NEW j \in Valid'
          PROVE  /\ mshr[j].line \notin Cached'
                 /\ \A e : e = cache'[Index(mshr[j].line)][mshr[j].way] /\ e.valid => mem'[e.line] \in Good[e.line]
      <4>1. j \in Valid /\ j # i
        BY <2>8
      <4>2. mshr[j].line # r.line /\ mshr[j].line \notin Cached
        BY <1>1, <2>1, <4>1 DEF NoSecondMiss, Victims
      <4>3. mshr[j] \in Mshrs
        BY <1>1, <4>1, ValidIs
      <4>4. Index(mshr[j].line) \in 0 .. SETS - 1 /\ mshr[j].way \in Ways
        BY <4>3, LoadOf, IndexIs
      <4>5. CASE Index(mshr[j].line) = s /\ mshr[j].way = w
        BY <2>17, <2>18, <4>2, <4>5
      <4>6. CASE ~(Index(mshr[j].line) = s /\ mshr[j].way = w)
        BY <2>17, <4>1, <4>2, <4>4, <4>6, VictimInMemory
      <4> QED BY <4>5, <4>6
    <3> QED BY <2>8, <2>15, <3>1, <3>2 DEF Victims, Index
  <2>21. QueueOk'
    BY <2>14, <2>15, QueueKeeps
  <2>22. RspOk'
    <3>1. rsp'.lane = m.lane /\ rsp'.val = r.data[m.word]
      BY <2>2 DEF Response
    <3>2. r.data[m.word] \in Current(m.line, m.word)
      <4>1. ControlInv
        BY DataParts
      <4> QED BY <1>3, <1>4, <2>1, <2>3, <2>5, <4>1, GoodNow
    <3> HIDE DEF m
    <3>3. live'[rsp'.lane].line = m.line /\ live'[rsp'.lane].word = m.word
      BY <1>1, <1>2, <2>5, <2>16, <3>1
    <3>4. \A l, v : Current(l, v)' = Current(l, v)
      BY <1>2 DEF Current
    <3>5. rsp'.val \in Current(m.line, m.word)
      BY <3>1, <3>2
    <3> QED BY <1>2, <3>3, <3>5 DEF RspOk, Current
  <2>23. StoreVictim'
    BY <2>2 DEF StoreVictim
  <2> QED BY <2>17, <2>19, <2>20, <2>21, <2>22, <2>23 DEF DataPart
<1> QED BY <1>5, <1>6

LEMMA LookupHitData ==
    ASSUME DataInv, DELAY <= 2, NEW ld, NEW seen \in BOOLEAN, Memory(ld, seen), ~Killed(seen), LookupHit
    PROVE  DataPart'
<1>1. /\ DTypes /\ FsmTypes /\ Homes /\ Contents /\ ControlInv /\ HoldsLoad
      /\ cache \in [0 .. SETS - 1 -> [Ways -> Entries]]
      /\ state = "LOOKUP" /\ req \in LoadReqs \cup StoreReqs
  BY DataParts, ControlParts DEF LookupHit, DTypes
<1>2. mshr' = MshrAdvanced /\ cache' = cache /\ arch' = arch /\ st_req' = st_req /\ live' = live
  BY DEF LookupHit, KeepsRequests
<1> DEFINE l == req.line
           s == Index(req.line)
           w == hit_way
<1>3. l \in Lines /\ s \in 0 .. SETS - 1 /\ HitWays(req.line) # {}
  BY <1>1, LoadOf, IndexIs DEF LookupHit, hit
<1>4. w \in Ways /\ w \in HitWays(req.line)
  BY <1>1, <1>3, HitIs DEF hit_way
<1>5. cache[s][w].valid /\ cache[s][w].line = l /\ Set(req.line)[hit_way] = cache[s][w]
  BY <1>4 DEF HitWays, Set
<1>6. cache[s][w].data \in Good[l]
  BY <1>1, <1>3, <1>4, <1>5 DEF Contents
<1>7. CASE req.is_store
  <2>1. req' = req /\ store_hit_way' = w /\ state' = "STORE_WRITE"
    BY <1>7 DEF LookupHit
  <2>2. Working /\ Working'
    BY <1>1, <1>7, <2>1 DEF Working
  <2>3. Good' = Good
    BY <1>2, <2>1, <2>2, GoodSame
  <2>4. q' = <<>>
    BY <1>1, <2>2, StoreQueue
  <2>5. StoreVictim'
    BY <1>2, <1>5, <2>1 DEF StoreVictim, Index
  <2>6. RspOk'
    BY <2>1 DEF RspOk
  <2> QED BY <1>2, <2>1, <2>3, <2>4, <2>5, <2>6, QuietKeeps
<1>8. CASE ~req.is_store
  <2>1. /\ rsp' = Response(req.lane, Set(req.line)[hit_way].data[req.word]) /\ state' = "RESP"
        /\ Over /\ req \in LoadReqs
    BY <1>1, <1>8, LoadOf DEF LookupHit
  <2>2. ~Working /\ ~Working'
    <3>1. ~req'.is_store
      BY <1>1, <1>8, <2>1, OverIs
    <3> QED BY <1>8, <3>1 DEF Working
  <2>3. RspOk'
    <3>1. req.word \in Words /\ Load(req).line = l /\ Load(req).word = req.word
      BY <2>1, LoadOf
    <3>2. rsp'.lane = req.lane /\ rsp'.val = cache[s][w].data[req.word]
      BY <1>5, <2>1 DEF Response
    <3>3. cache[s][w].data[req.word] \in Current(l, req.word)
      BY <1>1, <1>3, <1>6, <2>2, <3>1, GoodNow
    <3>4. live[req.lane] = Load(req)
      BY <1>1, <1>8 DEF HoldsLoad, LookingUp
    <3>5. live'[rsp'.lane].line = l /\ live'[rsp'.lane].word = req.word
      BY <1>2, <3>1, <3>2, <3>4
    <3>6. rsp'.val \in Current(l, req.word)
      BY <3>2, <3>3
    <3> QED BY <1>2, <3>5, <3>6 DEF RspOk, Current
  <2> QED BY <1>2, <2>1, <2>2, <2>3, QuietLoads
<1> QED BY <1>7, <1>8

LEMMA LookupMissData ==
    ASSUME DataInv, DELAY <= 2, NEW ld, NEW seen \in BOOLEAN, Memory(ld, seen), ~Killed(seen),
           NEW w \in Ways, LookupMiss(w)
    PROVE  DataPart'
<1> DEFINE l == req.line
           s == Index(req.line)
           v == Set(req.line)[w]
           free == MshrIds \ Valid
           waits == OnLine(req.line) # {} \/ (~req.is_store /\ free = {})
<1>1. /\ DTypes /\ FsmTypes /\ Homes /\ Contents /\ Victims /\ ControlInv
      /\ cache \in [0 .. SETS - 1 -> [Ways -> Entries]] /\ mshr \in [MshrIds -> Mshrs \cup {None}]
      /\ (req.is_store => Valid = {})
      /\ state = "LOOKUP" /\ req \in LoadReqs \cup StoreReqs
  BY DataParts DEF LookupMiss, DTypes
<1>2. cache' = cache /\ arch' = arch /\ st_req' = st_req /\ live' = live
  BY DEF LookupMiss, KeepsRequests
<1>3. l \in Lines /\ s \in 0 .. SETS - 1
  BY <1>1, LoadOf, IndexIs
<1>4. l \notin Cached
  BY <1>1, <1>3, CachedIs DEF LookupMiss, hit
<1>5. v = cache[s][w] /\ v \in Entries
  BY <1>1, <1>3 DEF Set
<1>6. v.valid \in BOOLEAN /\ v.dirty \in BOOLEAN /\ v.line \in Lines /\ v.data \in Datas
  BY <1>5 DEF Entries
<1>7. v.valid => v.data \in Good[v.line] /\ (v.dirty \/ mem[v.line] \in Good[v.line])
  BY <1>1, <1>3, <1>5 DEF Contents
<1>8. \A k \in Lines : mem[k] \in Good[k] => mem'[k] \in Good[k]
  BY MemMoves
<1>9. CASE waits
  <2>1. ~req.is_store
    BY <1>1, <1>9 DEF OnLine
  <2>2. mshr' = MshrAdvanced /\ state' = state /\ req' = req
    BY <1>9 DEF LookupMiss
  <2>3. ~Working /\ ~Working' /\ RspOk'
    BY <1>1, <2>1, <2>2 DEF Working, RspOk
  <2> QED BY <1>1, <1>2, <2>2, <2>3, QuietLoads
<1>10. CASE ~waits /\ req.is_store
  <2>1. /\ mshr' = MshrAdvanced /\ victim' = [way |-> w, line |-> v.line, data |-> v.data]
        /\ state' = (IF Dirty(v) THEN "WB_REQ" ELSE "MISS_REQ") /\ req' = req
    BY <1>10 DEF LookupMiss
  <2>2. Working /\ Working' /\ state' # "WAIT_REFILL" /\ state' # "RESP"
    BY <1>1, <1>10, <2>1 DEF Working
  <2>3. Good' = Good
    BY <1>2, <2>1, <2>2, GoodSame
  <2>4. q' = <<>>
    BY <1>1, <2>2, StoreQueue
  <2>5. victim'.way = w /\ victim'.line = v.line /\ victim'.data = v.data
    BY <2>1
  <2>6. Cached' = Cached
    BY <1>2 DEF Cached
  <2> HIDE DEF v
  <2>7. CASE Dirty(v)
    <3>1. v.data \in Good[v.line]
      BY <1>7, <2>7 DEF Dirty
    <3>2. state' = "WB_REQ"
      BY <2>1, <2>7
    <3>3. StoreVictim'
      BY <1>2, <1>4, <1>5, <2>1, <2>3, <2>5, <2>6, <3>1, <3>2 DEF StoreVictim, Index
    <3> QED BY <1>2, <2>1, <2>2, <2>3, <2>4, <3>3, QuietKeeps DEF RspOk
  <2>8. CASE ~Dirty(v)
    <3>1. v.valid => mem'[v.line] \in Good[v.line]
      BY <1>6, <1>7, <1>8, <2>8 DEF Dirty
    <3>2. state' = "MISS_REQ"
      BY <2>1, <2>8
    <3>3. StoreVictim'
      BY <1>2, <1>4, <1>5, <2>1, <2>3, <2>5, <2>6, <3>1, <3>2 DEF StoreVictim, Index
    <3> QED BY <1>2, <2>1, <2>2, <2>3, <2>4, <3>3, QuietKeeps DEF RspOk
  <2> QED BY <2>7, <2>8
<1>11. CASE ~waits /\ ~req.is_store
  <2> DEFINE i == Min(free)
             x == [valid |-> TRUE, wb_done |-> ~Dirty(v), miss_sent |-> FALSE, way |-> w,
                   vline |-> v.line, vdata |-> v.data,
                   line |-> req.line, word |-> req.word, lane |-> req.lane]
  <2>1. mshr' = [MshrAdvanced EXCEPT ![i] = x] /\ state' = "IDLE"
    BY <1>11 DEF LookupMiss
  <2>2. i \in MshrIds /\ i \notin Valid
    <3>1. free # {} /\ free \in SUBSET Nat
      BY <1>11, Geometry
    <3>2. i \in free
      BY <3>1, MinIn
    <3> QED BY <3>2
  <2>3. req.line \in Lines /\ req.word \in Words /\ req.lane \in Lanes /\ Dirty(v) \in BOOLEAN
    BY <1>1, <1>6, <1>11, LoadOf DEF Dirty
  <2>4. /\ x \in Mshrs /\ x.line = l /\ x.way = w /\ x.vline = v.line /\ x.vdata = v.data
        /\ x.wb_done = ~Dirty(v)
    BY <1>6, <2>3 DEF Mshrs
  <2>5. x # None
    BY <2>4 DEF None, Mshrs
  <2> HIDE DEF i, x
  <2>6. /\ mshr'[i] = x
        /\ Valid' = (IF x = None THEN Valid \ {i} ELSE Valid \cup {i})
        /\ \A j \in Valid \ {i} : SameButFor(mshr'[j], mshr[j]) /\ mshr'[j] = MshrAdvanced[j]
    BY <1>1, <2>1, <2>2, <2>4, MshrPut
  <2>7. /\ Valid' = Valid \cup {i}
        /\ \A j \in Valid : /\ mshr'[j].line = mshr[j].line /\ mshr'[j].way = mshr[j].way
                            /\ mshr'[j].wb_done /\ j # i
    BY <2>2, <2>5, <2>6, AllWritten DEF SameButFor
  <2>8. ~Working /\ ~Working'
    BY <1>11, <2>1 DEF Working
  <2>9. Good' = Good /\ Cached' = Cached
    BY <1>2, <2>8, GoodSame DEF Cached
  <2>10. Homes' /\ Contents'
    BY <1>2, <1>8, <2>9, ArraysStay
  <2>11. Victims'
    <3>1. WbCandidates' \subseteq {i}
      BY <2>7 DEF WbCandidates
    <3>2. \A e : e = cache'[Index(mshr'[i].line)][mshr'[i].way] => e = v
      BY <1>2, <1>5, <2>4, <2>6
    <3>3. v.valid /\ (~Dirty(v) \/ v.line # v.line) => mem'[v.line] \in Good[v.line]
      BY <1>6, <1>7, <1>8 DEF Dirty
    <3>4. Dirty(v) => v.data \in Good[v.line]
      BY <1>7 DEF Dirty
    <3> HIDE DEF v
    <3>5. /\ mshr'[i].line \notin Cached' /\ (~mshr'[i].wb_done => mshr'[i].vdata \in Good'[mshr'[i].vline])
          /\ \A e : /\ e = cache'[Index(mshr'[i].line)][mshr'[i].way]
                    /\ e.valid /\ (mshr'[i].wb_done \/ e.line # mshr'[i].vline)
                    => mem'[e.line] \in Good'[e.line]
      BY <1>4, <2>4, <2>6, <2>9, <3>2, <3>3, <3>4
    <3>6. ASSUME NEW j \in Valid
          PROVE  /\ mshr'[j].line \notin Cached' /\ mshr'[j].wb_done
                 /\ \A e : e = cache'[Index(mshr'[j].line)][mshr'[j].way] /\ e.valid
                           => mem'[e.line] \in Good'[e.line]
      <4>1. mshr[j].line \notin Cached
        BY <1>1 DEF Victims
      <4>2. \A e : e = cache[Index(mshr[j].line)][mshr[j].way] /\ e.valid => mem'[e.line] \in Good[e.line]
        BY VictimInMemory
      <4> QED BY <1>2, <2>7, <2>9, <4>1, <4>2
    <3> QED BY <2>7, <3>1, <3>5, <3>6 DEF Victims, Index
  <2>12. QueueOk'
    BY <2>8, <2>9, QueueKeeps
  <2>13. StoreVictim' /\ RspOk'
    BY <2>1 DEF StoreVictim, RspOk
  <2> QED BY <2>10, <2>11, <2>12, <2>13 DEF DataPart
<1> QED BY <1>9, <1>10, <1>11

\* A store is done: its line is written, dirty, over the same line or over one that memory has.
LEMMA StoreDone ==
    ASSUME DataInv, NEW ld, NEW seen \in BOOLEAN, Memory(ld, seen), Working, Over,
           arch' = arch, st_req' = st_req, state' = "IDLE", mshr' = MshrAdvanced, q' = <<>>,
           NEW w \in Ways, NEW d \in Good[req.line],
           WriteWay(Index(req.line), w, req.line, TRUE, Merge(d, req)),
           NowhereElse(Index(req.line), w, req.line),
           LET e == cache[Index(req.line)][w]
           IN  e.valid /\ e.line # req.line => mem[e.line] \in Good[e.line]
    PROVE  DataPart'
<1> DEFINE l == req.line
           s == Index(req.line)
           m == Merge(d, req)
<1>1. /\ DTypes /\ FsmTypes /\ Homes /\ Contents /\ req \in StoreReqs /\ ControlInv /\ Valid = {}
      /\ cache \in [0 .. SETS - 1 -> [Ways -> Entries]]
  BY DataParts DEF Working
<1>2. l \in Lines /\ s \in 0 .. SETS - 1 /\ req.word \in Words /\ req.val \in Vals
  BY <1>1, LoadOf, IndexIs
<1>3. m \in Datas
  BY <1>2, GoodIs, MergeIs
<1>4. ~Working'
  BY DEF Working
<1>5. /\ \A k \in Lines : k # l => Good[k] \subseteq Good'[k]
      /\ m \in Good'[l]
  BY <1>1, <1>4, GoodDone
<1>6. WriteWay(s, w, l, TRUE, m) /\ Index(l) = s /\ NowhereElse(s, w, l)
  OBVIOUS
<1>7. cache[s][w].valid /\ cache[s][w].line # l => mem[cache[s][w].line] \in Good[cache[s][w].line]
  OBVIOUS
<1>8. cache[s][w].line \in Lines
  BY <1>1, <1>2 DEF Entries
<1> HIDE DEF l, s, m
<1>9. Homes' /\ OnlyWrote(s, w, l, m) /\ cache'[s][w].dirty = TRUE
  <2>1. TRUE \in BOOLEAN
    OBVIOUS
  <2> QED BY <1>1, <1>2, <1>3, <1>6, <2>1, Written
<1>10. \A k \in Lines : mem[k] \in Good[k] => mem'[k] \in Good[k]
  BY MemMoves
<1>11. ASSUME NEW t \in 0 .. SETS - 1, NEW v \in Ways, cache'[t][v].valid
       PROVE  /\ cache'[t][v].data \in Good'[cache'[t][v].line]
              /\ cache'[t][v].dirty \/ mem'[cache'[t][v].line] \in Good'[cache'[t][v].line]
  <2>1. CASE t = s /\ v = w
    BY <1>5, <1>9, <2>1 DEF OnlyWrote
  <2>2. CASE ~(t = s /\ v = w)
    <3>1. cache'[t][v] = cache[t][v] /\ cache[t][v].valid
      BY <1>9, <1>11, <2>2 DEF OnlyWrote
    <3>2. cache[t][v].line \in Lines /\ cache[t][v].line # l
      BY <1>1, <1>6, <2>2, <3>1, CachedIs DEF NowhereElse
    <3>3. /\ cache[t][v].data \in Good[cache[t][v].line]
          /\ cache[t][v].dirty \/ mem[cache[t][v].line] \in Good[cache[t][v].line]
      BY <1>1, <3>1 DEF Contents
    <3> QED BY <1>5, <1>10, <3>1, <3>2, <3>3
  <2> QED BY <2>1, <2>2
<1>12. ASSUME NEW k \in Lines \ Cached' PROVE mem'[k] \in Good'[k]
  <2>1. k # l
    BY <1>9 DEF OnlyWrote
  <2>2. mem[k] \in Good[k]
    <3>1. CASE k \notin Cached
      BY <1>1, <3>1 DEF Contents
    <3>2. CASE k \in Cached
      <4>1. cache[s][w].valid /\ cache[s][w].line = k
        BY <1>9, <3>2 DEF OnlyWrote
      <4> QED BY <1>7, <2>1, <4>1
    <3> QED BY <3>1, <3>2
  <2> QED BY <1>5, <1>10, <2>1, <2>2
<1>13. Contents'
  BY <1>11, <1>12 DEF Contents
<1>14. Victims'
  <2>1. Valid' = {}
    BY <1>1, Stays
  <2> QED BY <2>1 DEF Victims, WbCandidates
<1>15. QueueOk'
  <2>1. Len(q') = 0
    OBVIOUS
  <2> QED BY <1>4, <2>1 DEF QueueOk
<1> QED BY <1>9, <1>13, <1>14, <1>15 DEF DataPart, StoreVictim, RspOk

LEMMA StoreWriteData ==
    ASSUME DataInv, NEW ld, NEW seen \in BOOLEAN, Memory(ld, seen), StoreWrite
    PROVE  DataPart'
<1> DEFINE s == Index(req.line)
           w == store_hit_way
           d == cache[s][w].data
<1>1. /\ DTypes /\ Homes /\ Contents /\ StoreVictim /\ cache \in [0 .. SETS - 1 -> [Ways -> Entries]]
      /\ state = "STORE_WRITE" /\ req \in StoreReqs /\ w \in Ways
  BY DataParts DEF StoreWrite, DTypes, Storing
<1>2. req.is_store /\ req.line \in Lines /\ s \in 0 .. SETS - 1
  BY <1>1, LoadOf, IndexIs
<1>3. Working
  BY <1>1, <1>2 DEF Working
<1>4. /\ arch' = arch /\ st_req' = st_req /\ state' = "IDLE" /\ Over /\ mshr' = MshrAdvanced
      /\ WriteWay(s, w, req.line, TRUE, Merge(d, req))
  BY DEF StoreWrite, KeepsRequests, Set
<1>5. q' = <<>>
  BY <1>1, <1>3, StoreQueue
<1>6. cache[s][w].valid /\ cache[s][w].line = req.line
  BY <1>1 DEF StoreVictim
<1>7. d \in Good[req.line]
  BY <1>1, <1>2, <1>6 DEF Contents
<1>8. NowhereElse(s, w, req.line)
  BY <1>1, <1>2, <1>6 DEF NowhereElse, Homes
<1> HIDE DEF d
<1> QED BY <1>1, <1>3, <1>4, <1>5, <1>6, <1>7, <1>8, StoreDone

LEMMA WaitRefillData ==
    ASSUME DataInv, DELAY <= 2, NEW ld, NEW seen \in BOOLEAN, Memory(ld, seen), WaitRefill(Refill(seen))
    PROVE  DataPart'
<1> DEFINE s == Index(req.line)
           w == victim.way
           r == Refill(seen)
<1>1. /\ DTypes /\ Homes /\ Contents /\ StoreVictim /\ cache \in [0 .. SETS - 1 -> [Ways -> Entries]]
      /\ state = "WAIT_REFILL" /\ req \in StoreReqs /\ w \in Ways
  BY DataParts DEF WaitRefill, DTypes, Storing
<1>2. req.is_store /\ req.line \in Lines /\ s \in 0 .. SETS - 1
  BY <1>1, LoadOf, IndexIs
<1>3. Working
  BY <1>1, <1>2 DEF Working
<1>4. arch' = arch /\ st_req' = st_req /\ mshr' = MshrAdvanced /\ victim' = victim
  BY DEF WaitRefill, KeepsRequests
<1>5. r.valid <=> Due(seen)
  BY <1>1, RefillIs
<1>6. ~Killed(seen)
  BY <1>3, StoreQueue
<1>7. CASE r.valid
  <2>1. q' = <<>> /\ r.line = req.line /\ r.way = w
    BY <1>1, <1>3, <1>5, <1>7, StoreQueue
  <2>2. r.data \in Good[req.line]
    BY <1>5, <1>7, <2>1, QueueMoves
  <2>3. WriteWay(Index(req.line), r.way, r.line, TRUE, Merge(r.data, req)) /\ state' = "IDLE" /\ Over
    BY <1>7 DEF WaitRefill
  <2> HIDE DEF r
  <2>4. WriteWay(s, w, req.line, TRUE, Merge(r.data, req))
    BY <2>1, <2>3
  <2>5. NowhereElse(s, w, req.line)
    <3>1. req.line \notin Cached
      BY <1>1 DEF StoreVictim
    <3> QED BY <1>1, <3>1, CachedIs DEF NowhereElse
  <2>6. cache[s][w].valid => mem[cache[s][w].line] \in Good[cache[s][w].line]
    BY <1>1 DEF StoreVictim
  <2> QED BY <1>1, <1>3, <1>4, <2>1, <2>2, <2>3, <2>4, <2>5, <2>6, StoreDone
<1>8. CASE ~r.valid
  <2>1. cache' = cache /\ state' = state /\ req' = req
    BY <1>8 DEF WaitRefill
  <2>2. Len(q') = 1 /\ q'[1].line = req.line /\ q'[1].way = victim.way
    BY <1>1, <1>3, <1>5, <1>8, StoreQueue
  <2>3. Good' = Good /\ Cached' = Cached
    BY <1>3, <1>4, <2>1, GoodSame DEF Working, Cached
  <2>4. StoreVictim'
    <3>1. req'.line \notin Cached'
      BY <1>1, <2>1, <2>3 DEF StoreVictim
    <3>2. cache[s][w].line \in Lines
      BY <1>1, <1>2 DEF Entries
    <3>3. cache[s][w].valid => mem'[cache[s][w].line] \in Good[cache[s][w].line]
      BY <1>1, <3>2, MemMoves DEF StoreVictim
    <3> QED BY <1>1, <1>4, <2>1, <2>3, <3>1, <3>3 DEF StoreVictim, Index
  <2>5. RspOk'
    BY <1>1, <2>1 DEF RspOk
  <2> QED BY <1>1, <1>4, <1>6, <2>1, <2>2, <2>3, <2>4, <2>5, QuietKeeps
<1> QED BY <1>7, <1>8

LEMMA WbOrMissReqData ==
    ASSUME DataInv, DELAY <= 2, NEW ld, NEW seen \in BOOLEAN, Memory(ld, seen), WbOrMissReq
    PROVE  DataPart'
<1> DEFINE s == Index(req.line)
           w == victim.way
<1>1. /\ DTypes /\ StoreVictim /\ cache \in [0 .. SETS - 1 -> [Ways -> Entries]]
      /\ state \in {"WB_REQ", "MISS_REQ"} /\ req \in StoreReqs /\ w \in Ways
  BY DataParts DEF WbOrMissReq, DTypes, Storing
<1>2. req.is_store /\ req.line \in Lines /\ s \in 0 .. SETS - 1
  BY <1>1, LoadOf, IndexIs
<1>3. /\ cache' = cache /\ arch' = arch /\ st_req' = st_req /\ mshr' = MshrAdvanced /\ victim' = victim
      /\ req' = req /\ state' = (IF state = "WB_REQ" THEN "MISS_REQ" ELSE "WAIT_REFILL")
  BY DEF WbOrMissReq, KeepsRequests
<1>4. Working /\ Working'
  BY <1>1, <1>2, <1>3 DEF Working
<1>5. ~Killed(seen)
  BY <1>4, StoreQueue
<1>6. Good' = Good /\ Cached' = Cached
  BY <1>3, <1>4, GoodSame DEF Cached
<1>7. cache[s][w].valid => mem'[cache[s][w].line] \in Good[cache[s][w].line]
  <2>1. cache[s][w].line \in Lines
    BY <1>1, <1>2 DEF Entries
  <2>2. CASE state = "WB_REQ"
    <3>1. wb_req(seen) = [valid |-> TRUE, line |-> victim.line, data |-> victim.data]
      BY <1>5, <2>2 DEF wb_req
    <3>2. mem'[wb_req(seen).line] \in Good[wb_req(seen).line]
      BY <3>1, MemMoves
    <3>3. mem'[victim.line] \in Good[victim.line]
      BY <3>1, <3>2
    <3> QED BY <1>1, <2>2, <3>3 DEF StoreVictim
  <2>3. CASE state = "MISS_REQ"
    BY <1>1, <2>1, <2>3, MemMoves DEF StoreVictim
  <2> QED BY <1>1, <2>2, <2>3
<1>8. req.line \notin Cached
  BY <1>1 DEF StoreVictim
<1>9. StoreVictim'
  <2>1. state' \in {"MISS_REQ", "WAIT_REFILL"}
    BY <1>3
  <2> QED BY <1>3, <1>6, <1>7, <1>8, <2>1 DEF StoreVictim, Index
<1>10. RspOk'
  BY <1>3 DEF RspOk
<1>11. IF state' = "WAIT_REFILL"
       THEN Len(q') = 1 /\ q'[1].line = req'.line /\ q'[1].way = victim'.way
       ELSE q' = <<>>
  BY <1>1, <1>3, <1>4, StoreQueue
<1> QED BY <1>3, <1>5, <1>6, <1>9, <1>10, <1>11, QuietKeeps

\* Only the port of the stores changes.
LEMMA PortOnly ==
    ASSUME DataInv, \A l \in Lines : Good[l] \subseteq Good'[l],
           UNCHANGED <<state, req, pend, cache, victim, store_hit_way, rsp, mshr, q, mem, live, arch>>,
           st_req' = st_req \/ ~st_req.valid
    PROVE  DataPart'
<1>1. /\ DTypes /\ Victims /\ StoreVictim /\ QueueOk /\ RspOk /\ cache \in [0 .. SETS - 1 -> [Ways -> Entries]]
      /\ mshr \in [MshrIds -> Mshrs \cup {None}] /\ q \in Seq(Txns)
  BY DataParts
<1>2. Homes' /\ Contents' /\ Cached' = Cached
  BY ArraysStay
<1>3. \A s \in 0 .. SETS - 1, w \in Ways : cache[s][w].line \in Lines
  BY <1>1 DEF Entries
<1>4. Valid' = Valid /\ WbCandidates' = WbCandidates
  <2>1. mshr' = mshr
    OBVIOUS
  <2>2. Valid' = Valid
    BY <2>1, SMTT(30) DEF Valid
  <2> QED BY <2>1, <2>2 DEF WbCandidates
<1>5. Victims'
  <2>1. ASSUME NEW j \in Valid
        PROVE  /\ mshr[j].line \notin Cached
               /\ ~mshr[j].wb_done => mshr[j].vdata \in Good'[mshr[j].vline]
               /\ LET e == cache[Index(mshr[j].line)][mshr[j].way] IN
                    e.valid /\ (mshr[j].wb_done \/ e.line # mshr[j].vline) => mem[e.line] \in Good'[e.line]
    <3> DEFINE e == cache[Index(mshr[j].line)][mshr[j].way]
    <3>1. mshr[j] \in Mshrs
      BY <1>1, ValidIs
    <3>2. mshr[j].vline \in Lines /\ Index(mshr[j].line) \in 0 .. SETS - 1 /\ mshr[j].way \in Ways
      BY <3>1, IndexIs DEF Mshrs
    <3>3. e.line \in Lines
      BY <1>3, <3>2
    <3> QED BY <1>1, <3>2, <3>3 DEF Victims
  <2>2. \A j, k \in WbCandidates : j = k
    BY <1>1 DEF Victims
  <2> QED BY <1>2, <1>4, <2>1, <2>2 DEF Victims, Index
<1>6. StoreVictim'
  <2>1. victim.line \in Lines /\ victim.way \in Ways /\ (state \in Storing => Index(req.line) \in 0 .. SETS - 1)
    BY <1>1, LoadOf, IndexIs DEF DTypes
  <2>2. state \in {"WB_REQ", "MISS_REQ", "WAIT_REFILL", "STORE_WRITE"} => state \in Storing
    BY DEF Storing
  <2>3. state \in {"MISS_REQ", "WAIT_REFILL"} =>
          LET e == cache[Index(req.line)][victim.way] IN e.valid => mem[e.line] \in Good'[e.line]
    BY <1>1, <1>3, <2>1, <2>2 DEF StoreVictim
  <2>4. state = "WB_REQ" => /\ victim.data \in Good'[victim.line]
                            /\ cache[Index(req.line)][victim.way].line = victim.line
    BY <1>1, <2>1 DEF StoreVictim
  <2> QED BY <1>1, <1>2, <2>3, <2>4 DEF StoreVictim, Index
<1>7. QueueOk'
  <2>1. \A i \in 1 .. Len(q) : q[i].line \in Lines
    <3>1. \A i \in 1 .. Len(q) : q[i] \in Txns
      BY <1>1
    <3> QED BY <3>1 DEF Txns
  <2>2. \A i \in 1 .. Len(q) : q[i].data \in Good'[q[i].line] /\ q[i].delay <= 1
    BY <1>1, <2>1 DEF QueueOk
  <2>3. Working' => Working
    BY DEF Working
  <2> QED BY <1>1, <2>2, <2>3 DEF QueueOk
<1>8. RspOk'
  <2>1. ASSUME NEW l, NEW w PROVE Current(l, w) \subseteq Current(l, w)'
    BY DEF Current
  <2>2. CASE state = "RESP"
    BY <1>1, <2>2 DEF RspOk, Current
  <2> QED BY <2>2 DEF RspOk
<1> QED BY <1>2, <1>5, <1>6, <1>7, <1>8 DEF DataPart

LEMMA DataInit == DInit => DataInv
<1> SUFFICES ASSUME DInit PROVE DataInv
  OBVIOUS
<1>1. ControlInv
  BY ControlInit
<1>2. mem \in [Lines -> Datas] /\ arch = mem
  BY <1>1 DEF ControlInv, DTypes, DInit
<1>3. state = "IDLE" /\ ~Working
  BY DEF DInit, Working
<1>4. \A l \in Lines : mem[l] \in Good[l]
  BY <1>2, <1>3 DEF Good, Now, Current
<1>5. \A s \in 0 .. SETS - 1, w \in Ways : ~cache[s][w].valid
  BY DEF DInit
<1>6. Homes /\ Contents
  BY <1>4, <1>5 DEF Homes, Contents
<1>7. Victims
  <2>1. mshr = [i \in MshrIds |-> None] /\ ~None.valid
    BY DEF DInit, None
  <2>2. Valid = {}
    BY <2>1 DEF Valid
  <2> QED BY <2>2 DEF Victims, WbCandidates
<1>8. QueueOk
  <2>1. q = <<>>
    BY DEF DInit
  <2>2. Len(q) = 0
    BY <2>1
  <2> QED BY <1>3, <2>2 DEF QueueOk
<1> QED BY <1>1, <1>3, <1>6, <1>7, <1>8 DEF DataInv, StoreVictim, RspOk

LEMMA DataNext == DELAY <= 2 => (DataInv /\ [DNext]_dvars => DataInv')
<1> SUFFICES ASSUME DELAY <= 2, DataInv, [DNext]_dvars PROVE DataInv'
  OBVIOUS
<1>1. ControlInv /\ DTypes
  BY DataParts
<1>2. ControlInv'
  BY <1>1, ControlNext
<1>3. ASSUME NEW ld \in Loads \cup {None}, NEW flush \in BOOLEAN, NEW seen \in BOOLEAN,
             NEW ready \in BOOLEAN, DCycle(ld, flush, seen, ready)
      PROVE  DataPart'
  <2>1. (seen => flush) /\ (ld.valid => ~live[ld.lane].valid) /\ Memory(ld, seen)
    BY <1>3 DEF DCycle
  <2>2. CASE Killed(flush)
    <3>1. Flushed
      BY <1>3, <2>2 DEF DCycle
    <3> QED BY <2>1, <2>2, <3>1, FlushedData
  <2>3. CASE ~Killed(flush)
    <3>1. InState(ld, flush, Refill(seen), ready)
      BY <1>3, <2>3 DEF DCycle
    <3>2. ~Killed(seen)
      BY <2>1, <2>3 DEF Killed
    <3>3. CASE IdleRefill(Refill(seen))
      BY <2>1, <3>2, <3>3, IdleRefillData
    <3>4. CASE IdleAccept(ld, flush, Refill(seen))
      BY <2>1, <3>2, <3>4, IdleAcceptData
    <3>5. CASE LookupHit
      BY <2>1, <3>2, <3>5, LookupHitData
    <3>6. CASE \E w \in Ways : LookupMiss(w)
      BY <2>1, <3>2, <3>6, LookupMissData
    <3>7. CASE StoreWrite
      BY <2>1, <3>7, StoreWriteData
    <3>8. CASE WbOrMissReq
      BY <2>1, <3>8, WbOrMissReqData
    <3>9. CASE WaitRefill(Refill(seen))
      BY <2>1, <3>9, WaitRefillData
    <3>10. CASE Respond(ld, flush, Refill(seen), ready)
      BY <2>1, <3>2, <3>10, RespondData
    <3> QED BY <3>1, <3>3, <3>4, <3>5, <3>6, <3>7, <3>8, <3>9, <3>10 DEF InState
  <2> QED BY <2>2, <2>3
<1>4. CASE DClock
  BY <1>2, <1>3, <1>4 DEF DClock, DataInv, DataPart
<1>5. CASE NewStore
  <2>1. /\ ~st_req.valid
        /\ UNCHANGED <<state, req, pend, cache, victim, store_hit_way, rsp, mshr, q, mem, live, arch>>
    BY <1>5 DEF NewStore, fsm
  <2>2. \A l \in Lines : Good[l] \subseteq Good'[l]
    BY <2>1, GoodGrows DEF Working
  <2>3. DataPart'
    BY <2>1, <2>2, PortOnly
  <2> QED BY <1>2, <2>3 DEF DataInv, DataPart
<1>6. CASE UNCHANGED dvars
  <2>1. /\ st_req' = st_req
        /\ UNCHANGED <<state, req, pend, cache, victim, store_hit_way, rsp, mshr, q, mem, live, arch>>
    BY <1>6 DEF dvars, fsm
  <2>2. Good' = Good
    BY <2>1, GoodSame DEF Working
  <2>3. DataPart'
    BY <2>1, <2>2, PortOnly
  <2> QED BY <1>2, <2>3 DEF DataInv, DataPart
<1> QED BY <1>4, <1>5, <1>6 DEF DNext

-----------------------------------------------------------------------------
(* What the cache promises of its data, when the memory answers a miss     *)
(* within two cycles as DCacheModel does (memory_models.h:974).            *)

\* Every copy of a line that will be used is current, in the arrays, in memory, in the MSHRs and
\* in the refills on their way, in every reachable state.
THEOREM DataInvariant == DELAY <= 2 => (DSpec => []DataInv)
<1> SUFFICES ASSUME DELAY <= 2 PROVE DSpec => []DataInv
  OBVIOUS
<1>1. DInit => DataInv
  BY DataInit
<1>2. DataInv /\ [DNext]_dvars => DataInv'
  BY DataNext
<1> QED BY <1>1, <1>2, PTL DEF DSpec

LEMMA OneHit ==
    ASSUME DataInv, NEW l \in Lines
    PROVE  Cardinality(HitWays(l)) <= 1
<1>1. Homes
  BY DataParts
<1>2. CASE HitWays(l) = {}
  <2>1. Cardinality({}) = 0
    BY FS_EmptySet
  <2> QED BY <1>2, <2>1
<1>3. CASE HitWays(l) # {}
  <2>1. PICK w : w \in HitWays(l)
    BY <1>3
  <2>2. HitWays(l) = {w}
    BY <1>1, <2>1, IndexIs DEF HitWays, Set, Homes
  <2>3. Cardinality({w}) = 1
    BY FS_Singleton
  <2> QED BY <2>2, <2>3
<1> QED BY <1>2, <1>3

\* No store is lost: to a flush, an eviction, a refill that was asked for before it, or the
\* simulator's own copy of it (dcache.sv:905-981, memory_models.h:963-1000, npc_main.cpp:327-340).
THEOREM NoStoreLost == DELAY <= 2 => (DSpec => []StoresKept)
<1> SUFFICES ASSUME DELAY <= 2 PROVE DSpec => []StoresKept
  OBVIOUS
<1>1. ASSUME DataInv PROVE StoresKept
  <2> SUFFICES ASSUME NEW l \in Lines
               PROVE  /\ Cardinality(HitWays(l)) <= 1
                      /\ \A w \in Words : Now(l, Held(l))[w] \in Current(l, w)
    BY DEF StoresKept, Now
  <2>1. DTypes /\ FsmTypes /\ Homes /\ Contents /\ mem \in [Lines -> Datas]
    BY <1>1, DataParts
  <2>2. Held(l) \in Good[l]
    <3>1. CASE HitWays(l) = {}
      BY <2>1, <3>1, CachedIs DEF Held, Contents
    <3>2. CASE HitWays(l) # {}
      <4> DEFINE w == Min(HitWays(l))
      <4>1. w \in HitWays(l) /\ w \in Ways
        BY <2>1, <3>2, HitIs
      <4>2. Held(l) = cache[Index(l)][w].data
        BY <3>2 DEF Held, Set
      <4> HIDE DEF w
      <4>3. cache[Index(l)][w].valid /\ cache[Index(l)][w].line = l
        BY <4>1 DEF HitWays, Set
      <4> QED BY <2>1, <4>1, <4>2, <4>3, IndexIs DEF Contents
    <3> QED BY <3>1, <3>2
  <2>3. \A w \in Words : Now(l, Held(l))[w] \in Current(l, w)
    BY <2>2, GoodIs
  <2> QED BY <1>1, <2>3, OneHit
<1> QED BY <1>1, DataInvariant, PTL

\* A response is for the load that its lane waits for, with the value of the last store.
THEOREM ResponsesRight == DELAY <= 2 => (DSpec => []ResponseIsLoads)
<1> SUFFICES ASSUME DELAY <= 2 PROVE DSpec => []ResponseIsLoads
  OBVIOUS
<1>1. ASSUME DataInv PROVE ResponseIsLoads
  <2>1. RspOk /\ ControlInv
    BY <1>1, DataParts
  <2>2. HoldsLoad
    BY <2>1, ControlParts
  <2> QED BY <2>1, <2>2 DEF RspOk, HoldsLoad, ResponseIsLoads
<1> QED BY <1>1, DataInvariant, PTL
=============================================================================
