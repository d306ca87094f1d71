---------------------------- MODULE StoreBuffer ----------------------------
(***************************************************************************)
(* The store buffer (backend/buffer/store_buffer.sv): a ring of stores in  *)
(* program order.  An entry is allocated at dispatch, filled when the      *)
(* store executes, marked when it commits and written to the data cache    *)
(* from the head.  A flush keeps the committed entries and the ones that   *)
(* commit in the very same cycle.                                          *)
(*                                                                         *)
(* The buffer is a value [mem, head, tail, count]; the operators below are *)
(* its combinational outputs and what one clock edge does to it.  Memory   *)
(* is made of symbolic bytes: <<n, j>> is byte j of the data register of   *)
(* the n-th memory instruction.                                            *)
(***************************************************************************)
EXTENDS Integers, FiniteSets, Sequences

CONSTANTS
    SB_DEPTH,      \* entries of the store buffer
    BYTES          \* bytes of a word (XLEN / 8 in the code)

ASSUME SbAssumption == SB_DEPTH \in Nat \ {0} /\ BYTES \in Nat \ {0}

SbId == 0 .. SB_DEPTH - 1
Offsets == 0 .. BYTES - 1

ByteOps == {"LB", "SB"}

(* Size of an access in bytes, and the bytes of its word that it touches. *)
Size(op) == IF op \in ByteOps THEN 1 ELSE BYTES
Touches(op, off) == {b \in Offsets : b >= off /\ b < off + Size(op)}

(* A free entry.  addr_valid and data_valid are written together by every  *)
(* statement of the code: "ready" stands for both.  Fields that no output  *)
(* reads while the entry is free are reset here; the code leaves them.     *)
Free == [valid |-> FALSE, committed |-> FALSE, ready |-> FALSE,
         word |-> 0, off |-> 0, op |-> "LW", data |-> 0, tag |-> 0]

Allocated == [Free EXCEPT !.valid = TRUE]

Reset == [mem |-> [s \in SbId |-> Free], head |-> 0, tail |-> 0, count |-> 0]

SbSlot(p, n) == (p + n) % SB_DEPTH

(* Mutants: a buffer that checks room for one store only, and one that     *)
(* gives all the stores of a bundle the same entry.                        *)
RoomForOne(sb, n) == sb.count < SB_DEPTH
SameEntry(sb, i) == sb.tail

(* alloc_ready_o for a bundle with n stores, and the entry of its i-th.    *)
alloc_ready(sb, n) == sb.count + n <= SB_DEPTH
alloc_id(sb, i) == SbSlot(sb.tail, i - 1)

(* The request to the data cache, and the dequeue: a failed SC is dropped  *)
(* without one.                                                            *)
AtHead(sb) == sb.mem[sb.head]
Drainable(sb) == AtHead(sb).valid /\ AtHead(sb).committed /\ AtHead(sb).ready
(* Mutant: a failed SC goes to the cache like any store.                   *)
NeverDummy(sb) == FALSE

is_dummy_store(sb) == AtHead(sb).op = "SC_FAIL"
dcache_req_valid(sb) == Drainable(sb) /\ ~is_dummy_store(sb)
wb_fire(sb, dcache_req_ready) ==
    Drainable(sb) /\ (dcache_req_ready \/ is_dummy_store(sb))

(* What a store entry does to memory: the low bytes of its data register   *)
(* go to the bytes it touches.                                             *)
Written(memory, e) ==
    [memory EXCEPT ![e.word] =
        [b \in Offsets |-> IF b \in Touches(e.op, e.off) THEN <<e.data, b - e.off>> ELSE @[b]]]

(* One entry after a clock edge without a flush.  "ex" is the set of       *)
(* execution writes (none or one), "new" the entries allocated, "done" the *)
(* entries that commit, "pop" whether the head leaves.                     *)
EntryAfter(sb, s, ex, new, done, pop) ==
    LET filled == IF \E x \in ex : x.sb = s
                  THEN LET x == CHOOSE y \in ex : y.sb = s
                       IN  [sb.mem[s] EXCEPT !.ready = TRUE, !.word = x.word, !.off = x.off,
                                             !.op = x.op, !.data = x.data, !.tag = x.tag]
                  ELSE sb.mem[s]
    IN  CASE pop /\ s = sb.head -> Free
          [] s \in new -> Allocated
          [] s \in done -> [filled EXCEPT !.committed = TRUE]
          [] OTHER -> filled

(* The buffer after a clock edge without a flush: n entries allocated.     *)
Edge(sb, ex, n, done, pop) ==
    LET new == {alloc_id(sb, i) : i \in 1 .. n}
    IN  [mem   |-> [s \in SbId |-> EntryAfter(sb, s, ex, new, done, pop)],
         head  |-> IF pop THEN SbSlot(sb.head, 1) ELSE sb.head,
         tail  |-> SbSlot(sb.tail, n),
         count |-> sb.count + n - (IF pop THEN 1 ELSE 0)]

(* A flush: committed entries, and those of "done" (commit_set), are       *)
(* moved up against the head; everything else is dropped.  Nothing is      *)
(* dequeued: the cache takes no store in a flush cycle.                    *)
(* Mutant: a flush that does not look at the commits of its own cycle.     *)
OnlyMarked(sb, s, done) == sb.mem[s].valid /\ sb.mem[s].committed

Survives(sb, s, done) == sb.mem[s].valid /\ (sb.mem[s].committed \/ s \in done)
Kept(sb, n, done) == {m \in 0 .. n : Survives(sb, SbSlot(sb.head, m), done)}
Flushed(sb, done) ==
    LET kept == Cardinality(Kept(sb, SB_DEPTH - 1, done))
        Source(d) == CHOOSE n \in 0 .. SB_DEPTH - 1 :
                        /\ Survives(sb, SbSlot(sb.head, n), done)
                        /\ Cardinality(Kept(sb, n, done)) = d + 1
        Nth(s) == (s - sb.head) % SB_DEPTH
    IN  [mem   |-> [s \in SbId |->
                     IF Nth(s) < kept
                     THEN [sb.mem[SbSlot(sb.head, Source(Nth(s)))] EXCEPT !.committed = TRUE]
                     ELSE Free],
         head  |-> sb.head,
         tail  |-> SbSlot(sb.head, kept),
         count |-> kept]

(* Forwarding: searched from the tail back to the head, the first ready    *)
(* entry at exactly the load's address that is committed or older than the *)
(* load.  Age(t) is the distance of ROB tag t from the ROB head.           *)
Back(sb, n) == (sb.tail - 1 - n) % SB_DEPTH
(* Mutant: a younger store matches too.                                    *)
AnyAge(e, word, off, older) == e.valid /\ e.ready /\ e.word = word /\ e.off = off

Match(e, word, off, older) ==
    e.valid /\ e.ready /\ e.word = word /\ e.off = off /\ (e.committed \/ e.tag \in older)
Matches(sb, word, off, older) ==
    {n \in 0 .. SB_DEPTH - 1 : Match(sb.mem[Back(sb, n)], word, off, older)}
load_hit(sb, word, off, older) == Matches(sb, word, off, older) # {}
load_entry(sb, word, off, older) ==
    LET ms == Matches(sb, word, off, older)
    IN  sb.mem[Back(sb, CHOOSE n \in ms : \A m \in ms : n <= m)]
=============================================================================
