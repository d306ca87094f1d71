------------------------------ MODULE Platform ------------------------------
(***************************************************************************)
(* The block device and the interrupt controller of the simulated platform *)
(* (csrc/include/memory_models.h, struct UnifiedMem): virtio-blk over      *)
(* MMIO, the one-source PLIC, and the guest's driver.                      *)
(*                                                                         *)
(* A device runs only inside a store or a load of the guest: a write of    *)
(* QueueNotify processes the whole available ring before it returns.  What *)
(* interleaves is the guest: the code that submits requests is interrupted *)
(* at any access, and the handler submits more while it reaps.  The driver *)
(* is the one the register interface is made for (external).  Registers    *)
(* are accessed word by word, as the tests of the devices do it            *)
(* (test_plic.cpp, test_virtio_blk.cpp); that the core's loads and stores  *)
(* pass a write-back cache first is not part of this model.                *)
(*                                                                         *)
(* A descriptor chain is the header, a sequence of data segments of one    *)
(* sector each and the status byte; what matters of a malformed one is     *)
(* where the walk over it gives up.                                        *)
(*                                                                         *)
(* The sector of a request is any 64-bit number the guest puts there, and  *)
(* the byte offsets the device computes from it are 64 bits wide: they are *)
(* kept modulo SPAN sectors.  The check against the image is made on the   *)
(* wrapped offsets, so a request far outside the image may pass it.  What  *)
(* happens to a segment that ends exactly at 2^64 is undefined: it passes  *)
(* and indexes outside the image; an instance has no such request.         *)
(***************************************************************************)
EXTENDS Integers, Sequences, FiniteSets

CONSTANTS
    QNUM,       \* entries of the queue, a power of two as the driver chooses it
    IDX,        \* 2 ^ 16, the modulus of the ring indices
    SECTORS,    \* sectors of the image
    SPAN,       \* 2 ^ 64 / 512, the sectors whose byte offset is a 64-bit number
    Values,     \* contents of a sector
    Image0,     \* the image file, loaded at start-up
    Chains      \* the requests the driver builds

ASSUME PlatformAssumption ==
    /\ QNUM \in Nat \ {0} /\ IDX \in Nat \ {0} /\ IDX % QNUM = 0 /\ IDX > QNUM
    /\ SECTORS \in Nat \ {0} /\ SPAN \in Nat /\ SPAN >= SECTORS + 2       \* the image is in memory
    /\ Image0 \in [0 .. SECTORS - 1 -> Values]
    /\ \A c \in Chains : c \in [type : {"IN", "OUT", "OTHER"}, sector : Nat,
                               data : Seq([write : BOOLEAN, mapped : BOOLEAN, val : Values]),
                               shape : {"ok", "loop", "no_status"}, status : {"none"}]

VARIABLES
    disk,       \* virtio_blk_image
    desc,       \* head -> the chain and its buffers in guest memory, with the status byte
    avail,      \* the available ring: idx, ring
    used,       \* the used ring: idx, ring of heads (the written length is left out)
    virtio,     \* queue_ready, last_avail_idx, interrupt_status
    plic,       \* enabled (enable bit, priority above threshold), source, pending, claimed
    drv,        \* the driver: pc of the handler, last used index seen, free heads, queue set up
    expect      \* per head: the request as submitted and what a disk in program order gives (history)

pvars == <<disk, desc, avail, used, virtio, plic, drv, expect>>

Heads == 0 .. QNUM - 1
Sector == 0 .. SECTORS - 1
Inc(i) == (i + 1) % IDX
RingSlot(i) == (i % IDX) % QNUM
Behind(i, j) == (j - i) % IDX       \* entries from index i up to index j

-----------------------------------------------------------------------------
(* The PLIC.                                                               *)
eligible(p) == p.pending /\ p.enabled /\ ~p.claimed
refresh_plic_pending(p) == [p EXCEPT !.pending = @ \/ (p.source /\ ~p.claimed)]
set_plic_source_pending(p, on) ==
    IF on THEN refresh_plic_pending([p EXCEPT !.source = TRUE])
    ELSE [p EXCEPT !.source = FALSE, !.pending = FALSE]
plic_claim_read(p) == IF eligible(p) THEN [p EXCEPT !.pending = FALSE, !.claimed = TRUE] ELSE p
(* Mutant: complete forgets a source that was raised while it was claimed. *)
CompleteOnly(p) == [p EXCEPT !.claimed = FALSE]

plic_complete_write(p) == refresh_plic_pending([p EXCEPT !.claimed = FALSE])

-----------------------------------------------------------------------------
(* The block device.  A request moves its segments in order and stops at   *)
(* the first whose direction is wrong, whose wrapped end lies outside the  *)
(* image or whose buffer is no memory; the ones before it stay moved.      *)
disk_off(c, i) == (c.sector + i - 1) % SPAN     \* where segment i begins, in sectors
SegmentOk(c, i) == /\ c.data[i].write = (c.type = "IN")
                   /\ (disk_off(c, i) + 1) % SPAN <= SECTORS
                   /\ c.data[i].mapped
(* Mutant: the end of the image is not checked.                          *)
MovesAll(c) == Len(c.data)

Moved(c) == CHOOSE n \in 0 .. Len(c.data) :
              /\ \A i \in 1 .. n : SegmentOk(c, i)
              /\ n < Len(c.data) => ~SegmentOk(c, n + 1)

\* The walk fails before the request is looked at: a loop, no writable status, fewer than three.
Unreadable(c) == c.shape # "ok" \/ c.data = <<>>

\* What virtio_process_blk_request does with chain c on disk d.
SegmentsMoved(c) == IF Unreadable(c) \/ c.type = "OTHER" THEN 0 ELSE Moved(c)
req_status(c) == IF Unreadable(c) THEN c.status         \* nothing is written
                 ELSE IF c.type = "OTHER" THEN "unsupp"
                 ELSE IF SegmentsMoved(c) = Len(c.data) THEN "ok" ELSE "ioerr"
ImageAfter(c, d) ==
    [s \in Sector |-> LET n == 1 + ((s - c.sector) % SPAN)
                      IN  IF c.type = "OUT" /\ n \in 1 .. SegmentsMoved(c) THEN c.data[n].val ELSE d[s]]
ChainAfter(c, d) ==
    [c EXCEPT !.status = req_status(c),
              !.data = [i \in 1 .. Len(c.data) |->
                          IF c.type = "IN" /\ i \in 1 .. SegmentsMoved(c)
                          THEN [c.data[i] EXCEPT !.val = d[disk_off(c, i)]] ELSE c.data[i]]]

\* The loop of virtio_handle_notify: request i of the n available, the disk before and after it.
Outstanding == Behind(virtio.last_avail, avail.idx)
(* Mutant: the ring is read one entry ahead.                             *)
HeadAhead(i) == avail.ring[RingSlot(virtio.last_avail + i)]

head_idx(i) == avail.ring[RingSlot(virtio.last_avail + i - 1)]
Image(n) == LET f[i \in 0 .. QNUM] == IF i = 0 THEN disk ELSE ImageAfter(desc[head_idx(i)], f[i - 1])
            IN  f[n]
Of(h) == {i \in 1 .. Outstanding : head_idx(i) = h}
DescAfter == [h \in Heads |-> IF Of(h) = {} THEN desc[h]
                              ELSE ChainAfter(desc[h], Image((CHOOSE i \in Of(h) : TRUE) - 1))]

\* virtio_push_used for each of them.
PushedTo(x) == {i \in 1 .. Outstanding : RingSlot(used.idx + i - 1) = x}
UsedAfter == [idx |-> (used.idx + Outstanding) % IDX,
              ring |-> [x \in Heads |-> IF PushedTo(x) = {} THEN used.ring[x]
                          ELSE head_idx(CHOOSE i \in PushedTo(x) : TRUE)]]

(* Mutant: a single request is taken for an empty ring.                  *)
SkipsTheLast ==
    IF virtio.ready /\ Outstanding > 1
    THEN /\ disk' = Image(Outstanding) /\ desc' = DescAfter /\ used' = UsedAfter
         /\ virtio' = [virtio EXCEPT !.last_avail = avail.idx, !.interrupt_status = TRUE]
         /\ plic' = set_plic_source_pending(plic, TRUE)
    ELSE UNCHANGED <<disk, desc, used, virtio, plic>>

virtio_handle_notify ==
    IF virtio.ready /\ Outstanding > 0
    THEN /\ disk' = Image(Outstanding) /\ desc' = DescAfter /\ used' = UsedAfter
         /\ virtio' = [virtio EXCEPT !.last_avail = avail.idx, !.interrupt_status = TRUE]
         /\ plic' = set_plic_source_pending(plic, TRUE)
    ELSE UNCHANGED <<disk, desc, used, virtio, plic>>

virtio_blk_reset_transport_state ==
    /\ virtio' = [ready |-> FALSE, last_avail |-> 0, interrupt_status |-> FALSE]
    /\ plic' = set_plic_source_pending(plic, FALSE)

\* QueueReady: clearing it forgets the place in the available ring and nothing else.
write_queue_ready(on) ==
    virtio' = [virtio EXCEPT !.ready = on, !.last_avail = IF on THEN @ ELSE 0]

\* InterruptACK of the bits that InterruptStatus showed.
write_interrupt_ack ==
    /\ virtio' = [virtio EXCEPT !.interrupt_status = FALSE]
    /\ plic' = set_plic_source_pending(plic, FALSE)

-----------------------------------------------------------------------------
(* What a disk that serves the requests one by one in the order they were  *)
(* submitted holds, and what it answers.  Its offsets do not wrap.         *)
Fits(c, i) == c.data[i].write = (c.type = "IN") /\ c.sector + i <= SECTORS /\ c.data[i].mapped
Served(c, i) == ~Unreadable(c) /\ c.type # "OTHER" /\ \A j \in 1 .. i : Fits(c, j)
Wrote(c, d) == [s \in Sector |->
                  LET i == s - c.sector + 1
                  IN  IF c.type = "OUT" /\ i \in 1 .. Len(c.data) /\ Served(c, i)
                      THEN c.data[i].val ELSE d[s]]
Read(c, d) == [i \in 1 .. Len(c.data) |->
                 IF c.type = "IN" /\ Served(c, i) THEN d[c.sector + i - 1] ELSE c.data[i].val]

(* The driver.                                                             *)
NoChain == [type |-> "OTHER", sector |-> 0, data |-> <<>>, shape |-> "ok", status |-> "none"]
Nothing == [ok |-> FALSE, vals |-> <<>>]
EmptyRing == [idx |-> 0, ring |-> [i \in Heads |-> 0]]
Running == drv.pc \in {"idle", "reap", "reaped"}

Submit(h, c) ==
    /\ Running /\ drv.up /\ h \in drv.free
    /\ drv' = [drv EXCEPT !.free = @ \ {h}]
    /\ desc' = [desc EXCEPT ![h] = c]
    /\ avail' = [idx |-> Inc(avail.idx), ring |-> [avail.ring EXCEPT ![RingSlot(avail.idx)] = h]]
    /\ expect' = [disk |-> Wrote(c, expect.disk),
                  of |-> [expect.of EXCEPT ![h] = [ok |-> Served(c, Len(c.data)),
                                                   vals |-> Read(c, expect.disk)]]]
    /\ UNCHANGED <<disk, used, virtio, plic>>

Notify ==
    /\ Running /\ drv.up
    /\ virtio_handle_notify
    /\ UNCHANGED <<avail, drv, expect>>

\* An external interrupt enters the handler, which claims it before anything else runs.
Claim ==
    /\ drv.pc = "idle" /\ eligible(plic)
    /\ plic' = plic_claim_read(plic)
    /\ drv' = [drv EXCEPT !.pc = "claimed"]
    /\ UNCHANGED <<disk, desc, avail, used, virtio, expect>>

Ack ==
    /\ drv.pc = "claimed"
    /\ drv' = [drv EXCEPT !.pc = "reap"]
    /\ IF virtio.interrupt_status THEN write_interrupt_ack ELSE UNCHANGED <<virtio, plic>>
    /\ UNCHANGED <<disk, desc, avail, used, expect>>

Reap ==
    /\ drv.pc = "reap" /\ drv.seen # used.idx
    /\ LET h == used.ring[RingSlot(drv.seen)]
       IN  /\ drv' = [drv EXCEPT !.seen = Inc(@), !.free = @ \cup {h}]
           /\ desc' = [desc EXCEPT ![h] = NoChain]
           /\ expect' = [expect EXCEPT !.of[h] = Nothing]
    /\ UNCHANGED <<disk, avail, used, virtio, plic>>

\* The last look at the used ring; what is answered after it is for the next interrupt.
Reaped ==
    /\ drv.pc = "reap" /\ drv.seen = used.idx
    /\ drv' = [drv EXCEPT !.pc = "reaped"]
    /\ UNCHANGED <<disk, desc, avail, used, virtio, plic, expect>>

Complete ==
    /\ drv.pc = "reaped"
    /\ plic' = plic_complete_write(plic)
    /\ drv' = [drv EXCEPT !.pc = "idle"]
    /\ UNCHANGED <<disk, desc, avail, used, virtio, expect>>

\* A write of the enable, priority or threshold register.
Mask(on) ==
    /\ drv.pc = "idle" /\ plic.enabled # on
    /\ plic' = [plic EXCEPT !.enabled = on]
    /\ UNCHANGED <<disk, desc, avail, used, virtio, drv, expect>>

\* The driver gives up the queue, with requests on it or not, by a device reset or QueueReady = 0,
\* and clears the rings: nobody reads them before the queue is set up again.
Clear == /\ avail' = EmptyRing /\ used' = EmptyRing
         /\ desc' = [h \in Heads |-> NoChain]
         /\ expect' = [disk |-> disk, of |-> [h \in Heads |-> Nothing]]
TakeDown ==
    /\ drv.pc = "idle" /\ drv.up
    /\ \/ virtio_blk_reset_transport_state
       \/ write_queue_ready(FALSE) /\ UNCHANGED plic
    /\ drv' = [drv EXCEPT !.up = FALSE, !.free = Heads, !.seen = 0]
    /\ Clear /\ UNCHANGED disk

SetUp ==
    /\ drv.pc = "idle" /\ ~drv.up
    /\ write_queue_ready(TRUE)
    /\ drv' = [drv EXCEPT !.up = TRUE]
    /\ UNCHANGED <<disk, desc, avail, used, plic, expect>>

PInit ==
    /\ disk = Image0
    /\ desc = [h \in Heads |-> NoChain]
    /\ avail = EmptyRing /\ used = EmptyRing
    /\ virtio = [ready |-> FALSE, last_avail |-> 0, interrupt_status |-> FALSE]
    /\ plic = [enabled |-> FALSE, source |-> FALSE, pending |-> FALSE, claimed |-> FALSE]
    /\ drv = [pc |-> "idle", seen |-> 0, free |-> Heads, up |-> FALSE]
    /\ expect = [disk |-> disk, of |-> [h \in Heads |-> Nothing]]

Handled == Ack \/ Reap \/ Reaped \/ Complete
PNext ==
    \/ \E h \in Heads, c \in Chains : Submit(h, c)
    \/ Notify \/ Claim \/ Handled \/ TakeDown \/ SetUp
    \/ \E on \in BOOLEAN : Mask(on)

PSpec == PInit /\ [][PNext]_pvars

\* The hart runs on, the driver kicks what it submitted, and an interrupt it leaves enabled again
\* and again is taken.
PFair == /\ PSpec
         /\ WF_pvars(Notify) /\ WF_pvars(Handled) /\ SF_pvars(Claim) /\ WF_pvars(Mask(TRUE))

-----------------------------------------------------------------------------
(* Type correctness of the device, the controller and the driver.          *)
Chain == [type : {"IN", "OUT", "OTHER"}, sector : Nat,
          data : UNION {[1 .. n -> [write : BOOLEAN, mapped : BOOLEAN, val : Values]] : n \in 0 .. SECTORS + 1},
          shape : {"ok", "loop", "no_status"}, status : {"none", "ok", "ioerr", "unsupp"}]
PTypeOK ==
    /\ disk \in [Sector -> Values] /\ desc \in [Heads -> Chain]
    /\ {avail, used} \subseteq [idx : 0 .. IDX - 1, ring : [Heads -> Heads]]
    /\ virtio \in [ready : BOOLEAN, last_avail : 0 .. IDX - 1, interrupt_status : BOOLEAN]
    /\ plic \in [enabled : BOOLEAN, source : BOOLEAN, pending : BOOLEAN, claimed : BOOLEAN]
    /\ drv \in [pc : {"idle", "claimed", "reap", "reaped"}, seen : 0 .. IDX - 1, free : SUBSET Heads, up : BOOLEAN]

\* The heads on the available ring and those on the used ring that the driver has not seen.
Waiting == [n \in 1 .. Outstanding |-> head_idx(n)]
Answered == [n \in 1 .. Behind(drv.seen, used.idx) |-> used.ring[RingSlot(drv.seen + n - 1)]]
Ids(f) == {f[n] : n \in DOMAIN f}

\* Every request is answered exactly once, through wrap-around of the indices, kicks that find
\* several requests or none and restarts of the queue: each head is free, waiting or answered.
AnsweredOnce ==
    drv.up =>
        /\ Heads = drv.free \cup Ids(Waiting) \cup Ids(Answered)
        /\ QNUM = Cardinality(drv.free) + Cardinality(DOMAIN Waiting) + Cardinality(DOMAIN Answered)

\* The disk serves requests in the order they were submitted: with those still waiting served too
\* it is the disk program order makes, and an answered request has the status and the data it
\* would then have, a request that leaves the image or is malformed in between included, as long
\* as its byte offset is below 2^64: beyond, the 64-bit check lets it through and this fails.
ServedInOrder ==
    drv.up =>
        /\ virtio.ready
        /\ Image(Outstanding) = expect.disk
        /\ \A h \in Ids(Answered) :
              /\ (desc[h].status = "ok") <=> expect.of[h].ok
              /\ [i \in 1 .. Len(desc[h].data) |-> desc[h].data[i].val] = expect.of[h].vals

\* No completion waits without an interrupt: when the handler is not at work the line is up, or
\* comes up as soon as the source is enabled.  In particular a request answered between the
\* handler's acknowledge and its complete raises the interrupt again.
InterruptNotLost ==
    (drv.up /\ drv.seen # used.idx /\ drv.pc = "idle") => eligible([plic EXCEPT !.enabled = TRUE])

\* Every request is answered and its head comes back to the driver.
HeadsReturn == \A h \in Heads : (h \notin drv.free) ~> (h \in drv.free)
=============================================================================
