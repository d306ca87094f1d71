--------------------------- MODULE PlatformProofs ---------------------------
(***************************************************************************)
(* For every queue size, index width, image and set of requests: no        *)
(* completion of the block device is left without an interrupt, and every  *)
(* request is answered exactly once, with the result of a disk that serves *)
(* the requests one by one in the order they were submitted.               *)
(***************************************************************************)
EXTENDS Platform, FiniteSetTheorems, SequenceTheorems, WellFoundedInduction, TLAPS

Ring == [idx : 0 .. IDX - 1, ring : [Heads -> Heads]]
RingsTyped ==
    /\ avail \in Ring /\ used \in Ring
    /\ virtio \in [ready : BOOLEAN, last_avail : 0 .. IDX - 1, interrupt_status : BOOLEAN]
    /\ plic \in [enabled : BOOLEAN, source : BOOLEAN, pending : BOOLEAN, claimed : BOOLEAN]
    /\ drv \in [pc : {"idle", "claimed", "reap", "reaped"}, seen : 0 .. IDX - 1,
                free : SUBSET Heads, up : BOOLEAN]

\* The source is claimed exactly while the handler runs.
ClaimedInHandler == drv.pc = "idle" <=> ~plic.claimed

\* The gateway passes on a raised source that is not claimed.
Gateway == plic.source /\ ~plic.claimed => plic.pending

\* An answer the handler has not seen keeps the source raised, except while the handler, which has
\* just acknowledged it, is still looking.
SourceHeld ==
    /\ ~drv.up => drv.seen = used.idx
    /\ drv.seen # used.idx /\ drv.pc # "reap" => plic.source

LineInv == RingsTyped /\ ClaimedInHandler /\ Gateway /\ SourceHeld

-----------------------------------------------------------------------------
\* An index taken modulo the ring is an entry of the ring.
LEMMA RingSlotInHeads ==
    ASSUME NEW i \in Int PROVE RingSlot(i) \in Heads
  <1>1. IDX \in Nat /\ IDX > 0 /\ QNUM \in Nat /\ QNUM > 0
    BY PlatformAssumption
  <1>2. i % IDX \in Int
    BY <1>1
  <1>3. (i % IDX) % QNUM \in 0 .. QNUM - 1
    BY <1>1, <1>2
  <1> QED BY <1>3 DEF RingSlot, Heads

\* Ring indices stay below their modulus.
LEMMA ModIdx ==
    ASSUME NEW i \in Int PROVE i % IDX \in 0 .. IDX - 1
  BY PlatformAssumption

\* The invariant holds before the driver has set up the queue.
LEMMA LineInit == PInit => LineInv
  <1>1. IDX \in Nat /\ IDX > 0 /\ QNUM \in Nat /\ QNUM > 0 /\ 0 \in Heads
    BY PlatformAssumption DEF Heads
  <1> QED BY <1>1 DEF PInit, LineInv, RingsTyped, Ring, EmptyRing, ClaimedInHandler, Gateway, SourceHeld

\* The rings after a kick are rings again.
LEMMA UsedTyped ==
    ASSUME RingsTyped PROVE UsedAfter \in Ring
  <1>1. IDX \in Nat /\ IDX > 0
    BY PlatformAssumption
  <1>2. Outstanding \in Int
    BY <1>1 DEF Outstanding, Behind, RingsTyped, Ring
  <1>3. (used.idx + Outstanding) % IDX \in 0 .. IDX - 1
    BY <1>2, ModIdx DEF RingsTyped, Ring
  <1>4. ASSUME NEW i \in 1 .. Outstanding PROVE head_idx(i) \in Heads
    <2>1. RingSlot(virtio.last_avail + i - 1) \in Heads
      BY <1>2, RingSlotInHeads DEF RingsTyped
    <2> QED BY <2>1 DEF head_idx, RingsTyped, Ring
  <1>5. ASSUME NEW x \in Heads, PushedTo(x) # {}
        PROVE head_idx(CHOOSE i \in PushedTo(x) : TRUE) \in Heads
    BY <1>4, <1>5 DEF PushedTo
  <1>6. ASSUME NEW x \in Heads
        PROVE (IF PushedTo(x) = {} THEN used.ring[x]
               ELSE head_idx(CHOOSE i \in PushedTo(x) : TRUE)) \in Heads
    BY <1>5 DEF RingsTyped, Ring
  <1> QED BY <1>3, <1>6 DEF UsedAfter, Ring

\* Every access of the driver and every reaction of the device keeps it.
LEMMA LineStep == LineInv /\ [PNext]_pvars => LineInv'
  <1> SUFFICES ASSUME LineInv, [PNext]_pvars PROVE LineInv'
    OBVIOUS
  <1> USE DEF LineInv, RingsTyped, Ring, ClaimedInHandler, Gateway, SourceHeld
  <1>a. IDX \in Nat /\ IDX > 0 /\ QNUM \in Nat /\ QNUM > 0 /\ 0 \in Heads
    BY PlatformAssumption DEF Heads
  <1>b. \A i \in 0 .. IDX - 1 : Inc(i) \in 0 .. IDX - 1 /\ RingSlot(i) \in Heads
    BY <1>a, ModIdx, RingSlotInHeads DEF Inc
  <1>c. set_plic_source_pending(plic, FALSE) = [plic EXCEPT !.source = FALSE, !.pending = FALSE]
    BY DEF set_plic_source_pending
  <1>1. ASSUME NEW h \in Heads, NEW c \in Chains, Submit(h, c) PROVE LineInv'
    BY <1>1, <1>b DEF Submit
  <1>2. CASE Notify
    <2>1. CASE virtio.ready /\ Outstanding > 0
      <3>1. used' \in Ring
        BY <1>2, <2>1, UsedTyped DEF Notify, virtio_handle_notify
      <3>2. drv' = drv /\ avail' = avail /\ drv.up
        BY <1>2 DEF Notify
      <3>3. plic' = [plic EXCEPT !.source = TRUE, !.pending = plic.pending \/ ~plic.claimed]
        BY <1>2, <2>1 DEF Notify, virtio_handle_notify, set_plic_source_pending, refresh_plic_pending
      <3>4. virtio' = [virtio EXCEPT !.last_avail = avail.idx, !.interrupt_status = TRUE]
        BY <1>2, <2>1 DEF Notify, virtio_handle_notify
      <3> QED BY <3>1, <3>2, <3>3, <3>4
    <2>2. CASE ~(virtio.ready /\ Outstanding > 0)
      BY <1>2, <2>2 DEF Notify, virtio_handle_notify
    <2> QED BY <2>1, <2>2
  <1>3. CASE Claim
    <2>1. /\ plic' = [plic EXCEPT !.pending = FALSE, !.claimed = TRUE] /\ drv.pc = "idle"
          /\ drv' = [drv EXCEPT !.pc = "claimed"] /\ UNCHANGED <<avail, used, virtio>>
      BY <1>3 DEF Claim, plic_claim_read, eligible
    <2> QED BY <2>1
  <1>4. CASE Ack
    <2>1. drv.pc = "claimed" /\ drv' = [drv EXCEPT !.pc = "reap"] /\ UNCHANGED <<avail, used>>
      BY <1>4 DEF Ack
    <2>2. CASE virtio.interrupt_status
      <3>1. /\ virtio' = [virtio EXCEPT !.interrupt_status = FALSE]
            /\ plic' = [plic EXCEPT !.source = FALSE, !.pending = FALSE]
        BY <1>4, <2>2, <1>c DEF Ack, write_interrupt_ack
      <3> QED BY <2>1, <3>1
    <2>3. CASE ~virtio.interrupt_status
      <3>1. UNCHANGED <<virtio, plic>>
        BY <1>4, <2>3 DEF Ack
      <3> QED BY <2>1, <3>1
    <2> QED BY <2>2, <2>3
  <1>5. CASE Reap
    <2>1. PICK h : h = used.ring[RingSlot(drv.seen)]
      OBVIOUS
    <2>2. h \in Heads /\ Inc(drv.seen) \in 0 .. IDX - 1
      BY <1>b, <2>1
    <2>3. drv.pc = "reap" /\ drv.seen # used.idx /\ drv' = [drv EXCEPT !.seen = Inc(drv.seen), !.free = drv.free \cup {h}]
      BY <1>5, <2>1 DEF Reap
    <2>4. UNCHANGED <<avail, used, virtio, plic>>
      BY <1>5 DEF Reap
    <2>5. /\ drv'.pc = "reap" /\ drv'.seen = Inc(drv.seen) /\ drv'.up = drv.up
          /\ drv' \in [pc : {"idle", "claimed", "reap", "reaped"}, seen : 0 .. IDX - 1,
                      free : SUBSET Heads, up : BOOLEAN]
      BY <2>2, <2>3
    <2> QED BY <2>3, <2>4, <2>5
  <1>6. CASE Reaped
    BY <1>6 DEF Reaped
  <1>7. CASE Complete
    BY <1>7 DEF Complete, plic_complete_write, refresh_plic_pending
  <1>8. CASE TakeDown
    <2>1. used' = EmptyRing /\ avail' = EmptyRing /\ EmptyRing \in Ring /\ EmptyRing.idx = 0
      BY <1>8, <1>a DEF TakeDown, Clear, EmptyRing
    <2>2. drv' = [drv EXCEPT !.up = FALSE, !.free = Heads, !.seen = 0] /\ drv.pc = "idle"
      BY <1>8 DEF TakeDown
    <2>3. CASE virtio_blk_reset_transport_state
      BY <2>1, <2>2, <2>3, <1>a, <1>c DEF virtio_blk_reset_transport_state
    <2>4. CASE write_queue_ready(FALSE) /\ UNCHANGED plic
      BY <2>1, <2>2, <2>4, <1>a DEF write_queue_ready
    <2> QED BY <1>8, <2>3, <2>4 DEF TakeDown
  <1>9. CASE SetUp
    BY <1>9 DEF SetUp, write_queue_ready
  <1>10. ASSUME NEW on \in BOOLEAN, Mask(on) PROVE LineInv'
    BY <1>10 DEF Mask
  <1>11. CASE UNCHANGED pvars
    BY <1>11 DEF pvars
  <1> QED BY <1>1, <1>2, <1>3, <1>4, <1>5, <1>6, <1>7, <1>8, <1>9, <1>10, <1>11 DEF PNext, Handled

\* Whatever the driver and the device do between claim and complete, a completion the handler has
\* not seen has its interrupt (memory_models.h: PLIC gateway, virtio_handle_notify, InterruptACK).
THEOREM CompletionsInterrupt == PSpec => []InterruptNotLost
  <1>1. LineInv => InterruptNotLost
    BY DEF LineInv, RingsTyped, ClaimedInHandler, Gateway, SourceHeld, InterruptNotLost, eligible
  <1> QED BY <1>1, LineInit, LineStep, PTL DEF PSpec

-----------------------------------------------------------------------------
(***************************************************************************)
(* Arithmetic of the ring indices, free-running counters modulo IDX of     *)
(* which QNUM, a divisor of IDX, selects the slot (memory_models.h:424).   *)
(***************************************************************************)
\* A multiple of n closer to zero than n is zero.
LEMMA MulBound ==
    ASSUME NEW n \in Nat \ {0}, NEW k \in Int, k * n < n, -n < k * n PROVE k = 0
  <1>1. CASE k >= 1
    <2>1. PICK j \in Nat : k = j + 1
      BY <1>1
    <2>2. k * n = j * n + n /\ j * n >= 0
      BY <2>1
    <2> QED BY <2>2
  <1>2. CASE k <= -1
    <2>1. PICK j \in Nat : k = -j - 1
      BY <1>2
    <2>2. k * n = -(j * n) - n /\ j * n >= 0
      BY <2>1
    <2> QED BY <2>2
  <1> QED BY <1>1, <1>2

\* Quotient and remainder.
LEMMA ModSplit ==
    ASSUME NEW n \in Nat \ {0}, NEW x \in Int
    PROVE  x % n \in 0 .. n - 1 /\ x \div n \in Int /\ x = (x \div n) * n + (x % n)
  OBVIOUS

\* The same with names for both.
LEMMA ModForm ==
    ASSUME NEW n \in Nat \ {0}, NEW x \in Int
    PROVE  \E p \in Int, s \in 0 .. n - 1 : s = x % n /\ x = p * n + s
  <1>1. x % n \in 0 .. n - 1 /\ x \div n \in Int /\ x = (x \div n) * n + (x % n)
    BY ModSplit
  <1> WITNESS x \div n \in Int, x % n \in 0 .. n - 1
  <1> QED BY <1>1

\* They are unique.
LEMMA ModUnique ==
    ASSUME NEW n \in Nat \ {0}, NEW x \in Int, NEW q \in Int, NEW r \in 0 .. n - 1, x = q * n + r
    PROVE  x % n = r
  <1>1. PICK p \in Int, s \in 0 .. n - 1 : s = x % n /\ x = p * n + s
    BY ModForm
  <1>2. (q - p) * n = s - r
    <2>1. (q - p) * n = q * n - p * n
      OBVIOUS
    <2> QED BY <2>1, <1>1
  <1>3. q - p = 0
    BY <1>2, MulBound
  <1> QED BY <1>1, <1>2, <1>3

\* What is within one modulus of the range is brought back by one.
LEMMA ModNear ==
    ASSUME NEW n \in Nat \ {0}, NEW x \in Int
    PROVE  /\ x \in 0 .. n - 1 => x % n = x
           /\ x \in n .. 2 * n - 1 => x % n = x - n
           /\ x \in -n .. -1 => x % n = x + n
  <1>1. x \in 0 .. n - 1 => x % n = x
    <2>1. x = 0 * n + x
      OBVIOUS
    <2> QED BY <2>1, ModUnique
  <1>2. x \in n .. 2 * n - 1 => x % n = x - n
    <2>1. x = 1 * n + (x - n)
      OBVIOUS
    <2>2. x \in n .. 2 * n - 1 => x - n \in 0 .. n - 1
      OBVIOUS
    <2> QED BY <2>1, <2>2, ModUnique
  <1>3. x \in -n .. -1 => x % n = x + n
    <2>1. x = (-1) * n + (x + n)
      OBVIOUS
    <2>2. x \in -n .. -1 => x + n \in 0 .. n - 1
      OBVIOUS
    <2> QED BY <2>1, <2>2, ModUnique
  <1> QED BY <1>1, <1>2, <1>3

\* Numbers less than the modulus apart have different remainders.
LEMMA ModApart ==
    ASSUME NEW n \in Nat \ {0}, NEW x \in Int, NEW y \in Int, x % n = y % n, x - y < n, y - x < n
    PROVE  x = y
  <1>1. PICK p \in Int, s \in 0 .. n - 1 : s = x % n /\ x = p * n + s
    BY ModForm
  <1>2. PICK q \in Int, t \in 0 .. n - 1 : t = y % n /\ y = q * n + t
    BY ModForm
  <1>3. (p - q) * n = x - y
    <2>1. (p - q) * n = p * n - q * n
      OBVIOUS
    <2>2. s = t
      BY <1>1, <1>2
    <2>3. x = p * n + s /\ y = q * n + s
      BY <1>1, <1>2, <2>2
    <2> QED BY <2>1, <2>3
  <1>4. p - q = 0
    BY <1>3, MulBound
  <1> QED BY <1>3, <1>4

\* The slot of an index needs no reduction modulo IDX.
LEMMA SlotIsMod ==
    ASSUME NEW x \in Int PROVE RingSlot(x) = x % QNUM
  <1>1. QNUM \in Nat \ {0} /\ IDX \in Nat \ {0} /\ IDX % QNUM = 0
    BY PlatformAssumption
  <1>2. PICK k \in Int : IDX = k * QNUM
    <2>1. IDX = (IDX \div QNUM) * QNUM + (IDX % QNUM) /\ IDX \div QNUM \in Int
      BY <1>1, ModForm
    <2>2. (IDX \div QNUM) * QNUM \in Int
      BY <1>1, <2>1
    <2> QED BY <1>1, <2>1, <2>2
  <1>3. PICK p \in Int, y \in 0 .. IDX - 1 : y = x % IDX /\ x = p * IDX + y
    BY <1>1, ModForm
  <1>4. PICK q \in Int, r \in 0 .. QNUM - 1 : r = y % QNUM /\ y = q * QNUM + r
    BY <1>1, ModForm
  <1>5. x = (p * k + q) * QNUM + r
    <2>1. p * IDX = (p * k) * QNUM
      BY <1>1, <1>2
    <2>2. (p * k + q) * QNUM = (p * k) * QNUM + q * QNUM
      BY <1>1
    <2>3. x = p * IDX + y /\ y = q * QNUM + r
      BY <1>3, <1>4
    <2>4. (p * k) * QNUM \in Int /\ q * QNUM \in Int
      BY <1>1
    <2> QED BY <2>1, <2>2, <2>3, <2>4
  <1>6. p * k + q \in Int
    OBVIOUS
  <1>7. x % QNUM = r
    BY <1>1, <1>5, <1>6, ModUnique
  <1> QED BY <1>3, <1>4, <1>7 DEF RingSlot

\* A window of at most QNUM entries has each slot once.
LEMMA SlotsApart ==
    ASSUME NEW i \in Int, NEW m \in Int, NEW n \in Int, m - n < QNUM, n - m < QNUM,
           RingSlot(i + m - 1) = RingSlot(i + n - 1)
    PROVE  m = n
  <1>1. QNUM \in Nat \ {0}
    BY PlatformAssumption
  <1>2. ASSUME NEW x \in Int, NEW y \in Int, RingSlot(x) = RingSlot(y), x - y < QNUM, y - x < QNUM
        PROVE  x = y
    BY <1>1, <1>2, SlotIsMod, ModApart
  <1>3. i + m - 1 = i + n - 1
    BY <1>1, <1>2
  <1> QED BY <1>3

\* The distance of two indices.
LEMMA BehindIs ==
    ASSUME NEW i \in 0 .. IDX - 1, NEW j \in 0 .. IDX - 1
    PROVE  /\ Behind(i, j) = IF i <= j THEN j - i ELSE j - i + IDX
           /\ Behind(i, j) \in 0 .. IDX - 1
           /\ Behind(i, j) = 0 <=> i = j
  <1>1. IDX \in Nat \ {0}
    BY PlatformAssumption
  <1>2. (i <= j => j - i \in 0 .. IDX - 1) /\ (i > j => j - i \in -IDX .. -1) /\ j - i \in Int
    BY <1>1
  <1>3. (i <= j => (j - i) % IDX = j - i) /\ (i > j => (j - i) % IDX = j - i + IDX)
    BY <1>1, <1>2, ModNear
  <1> QED BY <1>1, <1>3 DEF Behind

\* The next index.
LEMMA IncIs ==
    ASSUME NEW i \in 0 .. IDX - 1
    PROVE  /\ Inc(i) = IF i < IDX - 1 THEN i + 1 ELSE 0
           /\ Inc(i) \in 0 .. IDX - 1
  <1>1. IDX \in Nat \ {0}
    BY PlatformAssumption
  <1>2. i < IDX - 1 => (i + 1) % IDX = i + 1
    BY <1>1, ModNear
  <1>3. i = IDX - 1 => (i + 1) % IDX = 0
    <2>1. IDX \in IDX .. 2 * IDX - 1
      BY <1>1
    <2> QED BY <1>1, <2>1, ModNear
  <1> QED BY <1>1, <1>2, <1>3 DEF Inc

\* Indices that differ by the modulus select the same slot.
LEMMA SlotWraps ==
    ASSUME NEW x \in Int PROVE RingSlot(x - IDX) = RingSlot(x) /\ RingSlot(x + IDX) = RingSlot(x)
  <1>1. IDX \in Nat \ {0}
    BY PlatformAssumption
  <1>2. PICK p \in Int, y \in 0 .. IDX - 1 : y = x % IDX /\ x = p * IDX + y
    BY <1>1, ModForm
  <1>3. x - IDX = (p - 1) * IDX + y /\ x + IDX = (p + 1) * IDX + y
    <2>1. (p - 1) * IDX = p * IDX - IDX /\ (p + 1) * IDX = p * IDX + IDX
      BY <1>1
    <2> QED BY <1>1, <1>2, <2>1
  <1>4. (x - IDX) % IDX = y /\ (x + IDX) % IDX = y
    BY <1>1, <1>3, ModUnique
  <1> QED BY <1>2, <1>4 DEF RingSlot

\* Adding to an index within the modulus adds to its distance from every other.
LEMMA BehindAdds ==
    ASSUME NEW i \in 0 .. IDX - 1, NEW j \in 0 .. IDX - 1, NEW k \in Nat, Behind(i, j) + k < IDX
    PROVE  /\ (j + k) % IDX \in 0 .. IDX - 1
           /\ Behind(i, (j + k) % IDX) = Behind(i, j) + k
  <1>1. IDX \in Nat \ {0}
    BY PlatformAssumption
  <1>2. Behind(i, j) = (IF i <= j THEN j - i ELSE j - i + IDX) /\ Behind(i, j) \in 0 .. IDX - 1
    BY BehindIs
  <1>3. PICK l \in 0 .. IDX - 1 : l = (j + k) % IDX /\ (l = j + k \/ l = j + k - IDX)
    <2>1. j + k \in 0 .. IDX - 1 \/ j + k \in IDX .. 2 * IDX - 1
      BY <1>1, <1>2
    <2>2. ASSUME NEW x \in Int, x \in 0 .. IDX - 1 \/ x \in IDX .. 2 * IDX - 1
          PROVE  \E l \in 0 .. IDX - 1 : l = x % IDX /\ (l = x \/ l = x - IDX)
      <3>1. CASE x \in 0 .. IDX - 1
        <4>1. x % IDX = x
          BY <1>1, <3>1, ModNear
        <4> QED BY <3>1, <4>1
      <3>2. CASE x \in IDX .. 2 * IDX - 1
        <4>1. x % IDX = x - IDX
          BY <1>1, <3>2, ModNear
        <4>2. x - IDX \in 0 .. IDX - 1
          BY <1>1, <3>2
        <4> QED BY <4>1, <4>2
      <3> QED BY <2>2, <3>1, <3>2
    <2> QED BY <1>1, <2>1, <2>2
  <1>4. Behind(i, l) = IF i <= l THEN l - i ELSE l - i + IDX
    BY BehindIs
  <1>5. Behind(i, l) = Behind(i, j) + k
    BY <1>1, <1>2, <1>3, <1>4
  <1> QED BY <1>3, <1>5

\* The next index is one further from every other.
LEMMA BehindGrows ==
    ASSUME NEW i \in 0 .. IDX - 1, NEW j \in 0 .. IDX - 1, Behind(i, j) + 1 < IDX
    PROVE  Behind(i, Inc(j)) = Behind(i, j) + 1
  BY BehindAdds DEF Inc

\* A reader that takes an entry is one closer to the writer.
LEMMA BehindShrinks ==
    ASSUME NEW i \in 0 .. IDX - 1, NEW j \in 0 .. IDX - 1, i # j
    PROVE  Behind(Inc(i), j) = Behind(i, j) - 1
  <1>1. IDX \in Nat \ {0}
    BY PlatformAssumption
  <1>2. Inc(i) = (IF i < IDX - 1 THEN i + 1 ELSE 0) /\ Inc(i) \in 0 .. IDX - 1
    BY IncIs
  <1>3. Behind(Inc(i), j) = IF Inc(i) <= j THEN j - Inc(i) ELSE j - Inc(i) + IDX
    BY <1>2, BehindIs
  <1>4. Behind(i, j) = IF i <= j THEN j - i ELSE j - i + IDX
    BY BehindIs
  <1> QED BY <1>1, <1>2, <1>3, <1>4

\* The slots behind the writer continue those of the window from the reader to it.
LEMMA SlotAt ==
    ASSUME NEW i \in 0 .. IDX - 1, NEW j \in 0 .. IDX - 1, NEW n \in Int
    PROVE  RingSlot(j + n) = RingSlot(i + Behind(i, j) + n)
  <1>1. IDX \in Nat \ {0}
    BY PlatformAssumption
  <1>2. i + Behind(i, j) + n = j + n \/ i + Behind(i, j) + n = (j + n) + IDX
    <2>1. Behind(i, j) = j - i \/ Behind(i, j) = j - i + IDX
      BY BehindIs
    <2> QED BY <1>1, <2>1
  <1>3. RingSlot((j + n) + IDX) = RingSlot(j + n)
    BY SlotWraps
  <1> QED BY <1>2, <1>3

\* The slots of a reader that has taken an entry.
LEMMA SlotNext ==
    ASSUME NEW i \in 0 .. IDX - 1, NEW n \in Int
    PROVE  RingSlot(Inc(i) + n - 1) = RingSlot(i + n)
  <1>1. IDX \in Nat \ {0}
    BY PlatformAssumption
  <1>2. Inc(i) + n - 1 = i + n \/ Inc(i) + n - 1 = (i + n) - IDX
    BY <1>1, IncIs
  <1>3. RingSlot((i + n) - IDX) = RingSlot(i + n)
    BY SlotWraps
  <1> QED BY <1>2, <1>3

-----------------------------------------------------------------------------
(***************************************************************************)
(* Each head is in one place.                                              *)
(***************************************************************************)
Unseen == Behind(drv.seen, used.idx)
answer(n) == used.ring[RingSlot(drv.seen + n - 1)]

\* No head is twice on the available ring, twice on the used ring or on both, ...
Apart ==
    /\ \A m, n \in 1 .. Outstanding : head_idx(m) = head_idx(n) => m = n
    /\ \A m, n \in 1 .. Unseen : answer(m) = answer(n) => m = n
    /\ \A m \in 1 .. Outstanding, n \in 1 .. Unseen : head_idx(m) # answer(n)

\* ... none on a ring is free, ...
Taken ==
    /\ \A m \in 1 .. Outstanding : head_idx(m) \notin drv.free
    /\ \A n \in 1 .. Unseen : answer(n) \notin drv.free

\* ... and none is lost.  The count is what keeps both windows within the ring.
Somewhere ==
    /\ \A h \in Heads : \/ h \in drv.free
                        \/ \E m \in 1 .. Outstanding : h = head_idx(m)
                        \/ \E n \in 1 .. Unseen : h = answer(n)
    /\ Outstanding + Unseen + Cardinality(drv.free) = QNUM

HeadInv == RingsTyped /\ Apart /\ Taken /\ Somewhere

\* The sizes of the windows, and of the set of free heads with one head less or more.
LEMMA Sizes ==
    ASSUME RingsTyped
    PROVE  /\ Outstanding \in 0 .. IDX - 1 /\ Unseen \in 0 .. IDX - 1
           /\ Cardinality(drv.free) \in Nat
           /\ \A h \in drv.free : Cardinality(drv.free \ {h}) = Cardinality(drv.free) - 1
           /\ \A h \in Heads \ drv.free : Cardinality(drv.free \cup {h}) = Cardinality(drv.free) + 1
           /\ Cardinality(Heads) = QNUM
  <1>1. QNUM \in Nat \ {0}
    BY PlatformAssumption
  <1>2. IsFiniteSet(Heads) /\ Cardinality(Heads) = QNUM
    BY <1>1, FS_Interval DEF Heads
  <1>3. IsFiniteSet(drv.free)
    BY <1>2, FS_Subset DEF RingsTyped
  <1>4. Outstanding \in 0 .. IDX - 1 /\ Unseen \in 0 .. IDX - 1
    BY BehindIs DEF RingsTyped, Ring, Outstanding, Unseen
  <1>5. \A h \in drv.free : Cardinality(drv.free \ {h}) = Cardinality(drv.free) - 1
    BY <1>3, FS_RemoveElement
  <1>6. \A h \in Heads \ drv.free : Cardinality(drv.free \cup {h}) = Cardinality(drv.free) + 1
    BY <1>3, FS_AddElement
  <1> QED BY <1>2, <1>3, <1>4, <1>5, <1>6, FS_CardinalityType

\* All heads are free on empty rings.
LEMMA EmptyHeads ==
    ASSUME RingsTyped, avail.idx = virtio.last_avail, used.idx = drv.seen, drv.free = Heads
    PROVE  HeadInv
  <1>1. Outstanding = 0 /\ Unseen = 0
    BY BehindIs DEF RingsTyped, Ring, Outstanding, Unseen
  <1>2. QNUM \in Nat /\ Cardinality(Heads) = QNUM
    BY Sizes, PlatformAssumption
  <1> QED BY <1>1, <1>2 DEF HeadInv, Apart, Taken, Somewhere

LEMMA HeadInit == PInit => HeadInv
  <1> SUFFICES ASSUME PInit PROVE HeadInv
    OBVIOUS
  <1>1. RingsTyped
    BY LineInit DEF LineInv
  <1>2. avail.idx = virtio.last_avail /\ used.idx = drv.seen /\ drv.free = Heads
    BY DEF PInit, EmptyRing
  <1> QED BY <1>1, <1>2, EmptyHeads

\* A request put on the available ring goes behind those that wait there and leaves them in place.
LEMMA SubmitRing ==
    ASSUME HeadInv, NEW h \in Heads, NEW c \in Chains, Submit(h, c), NEW W \in Nat, W = Outstanding
    PROVE  /\ Outstanding' = W + 1 /\ W < QNUM
           /\ head_idx(W + 1)' = h /\ \A m \in 1 .. W : head_idx(m)' = head_idx(m)
  <1>1. QNUM \in Nat \ {0} /\ IDX \in Nat \ {0} /\ IDX > QNUM
    BY PlatformAssumption
  <1>a. h \in drv.free /\ RingsTyped
    BY DEF HeadInv, Submit
  <1>2. W \in Nat /\ Unseen \in Nat /\ Cardinality(drv.free) \in Nat
        /\ Cardinality(drv.free \ {h}) = Cardinality(drv.free) - 1
    BY <1>1, <1>a, Sizes
  <1>3. Cardinality(drv.free \ {h}) \in Nat
    <2>1. IsFiniteSet(Heads)
      BY <1>1, FS_Interval DEF Heads
    <2>2. IsFiniteSet(drv.free \ {h})
      BY <2>1, FS_Subset DEF HeadInv, RingsTyped
    <2> QED BY <2>2, FS_CardinalityType
  <1>4. W + Unseen + Cardinality(drv.free) = QNUM /\ W < QNUM
    BY <1>1, <1>2, <1>3 DEF HeadInv, Somewhere
  <1>5. /\ avail'.idx = Inc(avail.idx) /\ avail'.ring = [avail.ring EXCEPT ![RingSlot(avail.idx)] = h]
        /\ drv'.free = drv.free \ {h} /\ drv'.seen = drv.seen /\ used' = used /\ virtio' = virtio
    BY DEF Submit, HeadInv, RingsTyped
  <1>6. Outstanding' = W + 1
    BY <1>1, <1>2, <1>4, <1>5, BehindGrows DEF Outstanding, HeadInv, RingsTyped, Ring
  <1>7. RingSlot(avail.idx) = RingSlot(virtio.last_avail + (W + 1) - 1)
    <2>1. RingSlot(avail.idx + 0) = RingSlot(virtio.last_avail + W + 0)
      BY SlotAt DEF Outstanding, HeadInv, RingsTyped, Ring
    <2>2. avail.idx + 0 = avail.idx /\ virtio.last_avail + W + 0 = virtio.last_avail + (W + 1) - 1
      BY <1>2 DEF HeadInv, RingsTyped, Ring
    <2> QED BY <2>1, <2>2
  <1>8. \A m \in 1 .. W : head_idx(m)' = head_idx(m)
    <2> TAKE m \in 1 .. W
    <2>1. RingSlot(virtio.last_avail + m - 1) # RingSlot(avail.idx)
      <3>1. virtio.last_avail \in Int /\ m \in Int /\ W + 1 \in Int /\ m - (W + 1) < QNUM /\ (W + 1) - m < QNUM
            /\ m # W + 1
        BY <1>1, <1>2, <1>4 DEF HeadInv, RingsTyped
      <3> QED BY <1>7, <3>1, SlotsApart
    <2>2. RingSlot(virtio.last_avail + m - 1) \in Heads
      BY <1>2, RingSlotInHeads DEF HeadInv, RingsTyped
    <2> QED BY <1>5, <2>1, <2>2 DEF head_idx, HeadInv, RingsTyped, Ring
  <1>9. head_idx(W + 1)' = h
    <2>1. RingSlot(avail.idx) \in Heads
      BY RingSlotInHeads DEF HeadInv, RingsTyped, Ring
    <2> QED BY <1>5, <1>7, <2>1 DEF head_idx, HeadInv, RingsTyped, Ring
  <1> QED BY <1>4, <1>6, <1>8, <1>9

\* It leaves the free heads for the available ring.
LEMMA SubmitHeads ==
    ASSUME HeadInv, RingsTyped', NEW h \in Heads, NEW c \in Chains, Submit(h, c) PROVE HeadInv'
  <1>1. QNUM \in Nat \ {0} /\ IDX \in Nat \ {0}
    BY PlatformAssumption
  <1>a. h \in drv.free /\ RingsTyped
    BY DEF HeadInv, Submit
  <1>b. PICK W \in Nat : W = Outstanding
    BY <1>1, <1>a, Sizes
  <1>2. W \in Nat /\ Unseen \in Nat /\ Cardinality(drv.free) \in Nat
        /\ Cardinality(drv.free \ {h}) = Cardinality(drv.free) - 1
    BY <1>1, <1>a, Sizes
  <1>4. W + Unseen + Cardinality(drv.free) = QNUM
    BY <1>b DEF HeadInv, Somewhere
  <1>5. drv'.free = drv.free \ {h} /\ drv'.seen = drv.seen /\ used' = used
    BY DEF Submit, HeadInv, RingsTyped
  <1>6. Outstanding' = W + 1
    BY <1>b, SubmitRing
  <1>8. \A m \in 1 .. W : head_idx(m)' = head_idx(m)
    BY <1>b, SubmitRing
  <1>9. head_idx(W + 1)' = h
    BY <1>b, SubmitRing
  <1>10. Unseen' = Unseen /\ \A n : answer(n)' = answer(n)
    BY <1>5 DEF Unseen, answer
  <1>11. \A m \in 1 .. W + 1 : m \in 1 .. W \/ m = W + 1
    BY <1>2
  <1>12. 1 .. W \subseteq 1 .. W + 1 /\ W + 1 \in 1 .. W + 1
    BY <1>2
  <1>13. (\A m \in 1 .. W : head_idx(m) # h) /\ (\A n \in 1 .. Unseen : answer(n) # h)
    BY <1>a, <1>b DEF HeadInv, Taken
  <1>14. Apart'
    <2>1. \A m, n \in 1 .. W + 1 : head_idx(m)' = head_idx(n)' => m = n
      <3>1. \A m, n \in 1 .. W : head_idx(m) = head_idx(n) => m = n
        BY <1>b DEF HeadInv, Apart
      <3> QED BY <1>8, <1>9, <1>11, <1>13, <3>1
    <2>2. \A m \in 1 .. W + 1, n \in 1 .. Unseen : head_idx(m)' # answer(n)
      <3>1. \A m \in 1 .. W, n \in 1 .. Unseen : head_idx(m) # answer(n)
        BY <1>b DEF HeadInv, Apart
      <3> QED BY <1>8, <1>9, <1>11, <1>13, <3>1
    <2>3. \A m, n \in 1 .. Unseen : answer(m) = answer(n) => m = n
      BY DEF HeadInv, Apart
    <2> QED BY <1>6, <1>10, <2>1, <2>2, <2>3 DEF Apart
  <1>15. Taken'
    <2>1. \A m \in 1 .. W + 1 : head_idx(m)' \notin drv.free \ {h}
      BY <1>b, <1>8, <1>9, <1>11 DEF HeadInv, Taken
    <2>2. \A n \in 1 .. Unseen : answer(n) \notin drv.free \ {h}
      BY DEF HeadInv, Taken
    <2> QED BY <1>5, <1>6, <1>10, <2>1, <2>2 DEF Taken
  <1>16. Somewhere'
    <2>1. ASSUME NEW g \in Heads
          PROVE  \/ g \in drv.free \ {h}
                 \/ \E m \in 1 .. W + 1 : g = head_idx(m)'
                 \/ \E n \in 1 .. Unseen : g = answer(n)
      <3>1. CASE g = h
        BY <3>1, <1>9, <1>12
      <3>2. CASE \E m \in 1 .. W : g = head_idx(m)
        BY <3>2, <1>8, <1>12
      <3> QED BY <1>b, <3>1, <3>2 DEF HeadInv, Somewhere
    <2>2. W + 1 + Unseen + Cardinality(drv.free \ {h}) = QNUM
      BY <1>2, <1>4
    <2> QED BY <1>5, <1>6, <1>10, <2>1, <2>2 DEF Somewhere
  <1> QED BY <1>14, <1>15, <1>16 DEF HeadInv

\* The driver takes the oldest answer.
LEMMA ReapRing ==
    ASSUME HeadInv, Reap, NEW A \in Nat, A = Unseen
    PROVE  /\ A > 0 /\ Unseen' = A - 1 /\ \A n \in 1 .. A - 1 : answer(n)' = answer(n + 1)
           /\ used.ring[RingSlot(drv.seen)] = answer(1)
           /\ Outstanding' = Outstanding /\ \A n : head_idx(n)' = head_idx(n)
  <1> DEFINE h == used.ring[RingSlot(drv.seen)]
  <1>1. /\ A \in Nat /\ A > 0 /\ Outstanding \in Nat /\ Cardinality(drv.free) \in Nat
    <2>1. drv.seen # used.idx /\ RingsTyped
      BY DEF Reap, HeadInv
    <2>2. Unseen # 0
      BY <2>1, BehindIs DEF RingsTyped, Ring, Unseen
    <2>3. IDX \in Nat
      BY PlatformAssumption
    <2> QED BY <2>1, <2>2, <2>3, Sizes
  <1>2. /\ drv'.seen = Inc(drv.seen) /\ drv'.free = drv.free \cup {h}
        /\ avail' = avail /\ used' = used /\ virtio' = virtio
    BY DEF Reap, HeadInv, RingsTyped
  <1>3. Unseen' = A - 1
    BY <1>2, BehindShrinks DEF Unseen, HeadInv, RingsTyped, Ring, Reap
  <1>4. \A n \in 1 .. A - 1 : answer(n)' = answer(n + 1)
    <2> TAKE n \in 1 .. A - 1
    <2>1. RingSlot(Inc(drv.seen) + n - 1) = RingSlot(drv.seen + n)
      BY <1>1, SlotNext DEF HeadInv, RingsTyped
    <2>2. drv.seen + n = drv.seen + (n + 1) - 1
      BY <1>1 DEF HeadInv, RingsTyped
    <2> QED BY <1>2, <2>1, <2>2 DEF answer
  <1>5. h = answer(1)
    <2>1. drv.seen = drv.seen + 1 - 1
      BY DEF HeadInv, RingsTyped
    <2> QED BY <2>1 DEF answer
  <1>6. Outstanding' = Outstanding /\ \A n : head_idx(n)' = head_idx(n)
    BY <1>2 DEF Outstanding, head_idx
  <1> QED BY <1>1, <1>3, <1>4, <1>5, <1>6

\* It frees its head.
LEMMA ReapHeads ==
    ASSUME HeadInv, RingsTyped', Reap PROVE HeadInv'
  <1> DEFINE h == used.ring[RingSlot(drv.seen)]
  <1>0. PICK A \in Nat : A = Unseen
    <2>1. IDX \in Nat /\ RingsTyped
      BY PlatformAssumption DEF HeadInv
    <2> QED BY <2>1, Sizes
  <1>a. A > 0 /\ Unseen' = A - 1 /\ (\A n \in 1 .. A - 1 : answer(n)' = answer(n + 1)) /\ h = answer(1)
        /\ Outstanding' = Outstanding /\ \A n : head_idx(n)' = head_idx(n)
    BY <1>0, ReapRing
  <1>1. A \in Nat /\ A > 0 /\ Outstanding \in Nat /\ Cardinality(drv.free) \in Nat
    <2>1. IDX \in Nat /\ RingsTyped
      BY PlatformAssumption DEF HeadInv
    <2> QED BY <1>a, <2>1, Sizes
  <1>2. drv'.free = drv.free \cup {h}
    BY DEF Reap, HeadInv, RingsTyped
  <1>3. Unseen' = A - 1
    BY <1>a
  <1>4. \A n \in 1 .. A - 1 : answer(n)' = answer(n + 1)
    BY <1>a
  <1>5. h = answer(1)
    BY <1>a
  <1>6. Outstanding' = Outstanding /\ \A n : head_idx(n)' = head_idx(n)
    BY <1>a
  <1>7. 1 \in 1 .. A /\ \A n \in 1 .. A - 1 : n + 1 \in 1 .. A /\ n + 1 # 1
    BY <1>1
  <1>8. \A n \in 1 .. A : n = 1 \/ (n - 1 \in 1 .. A - 1 /\ n = (n - 1) + 1)
    BY <1>1
  <1> HIDE DEF h
  <1>9. Apart'
    <2>1. \A m, n \in 1 .. A - 1 : answer(m + 1) = answer(n + 1) => m = n
      <3> TAKE m \in 1 .. A - 1, n \in 1 .. A - 1
      <3> HAVE answer(m + 1) = answer(n + 1)
      <3>1. m + 1 = n + 1
        BY <1>0, <1>7 DEF HeadInv, Apart
      <3> QED BY <3>1, <1>1
    <2>2. \A m \in 1 .. Outstanding, n \in 1 .. A - 1 : head_idx(m) # answer(n + 1)
      BY <1>0, <1>7 DEF HeadInv, Apart
    <2>3. \A m, n \in 1 .. Outstanding : head_idx(m) = head_idx(n) => m = n
      BY DEF HeadInv, Apart
    <2> QED BY <1>3, <1>4, <1>6, <2>1, <2>2, <2>3 DEF Apart
  <1>10. Taken'
    <2>1. \A m \in 1 .. Outstanding : head_idx(m) \notin drv.free \cup {h}
      BY <1>0, <1>5, <1>7 DEF HeadInv, Taken, Apart
    <2>2. \A n \in 1 .. A - 1 : answer(n + 1) \notin drv.free \cup {h}
      BY <1>0, <1>5, <1>7 DEF HeadInv, Taken, Apart
    <2> QED BY <1>2, <1>3, <1>4, <1>6, <2>1, <2>2 DEF Taken
  <1>11. Somewhere'
    <2>1. ASSUME NEW g \in Heads
          PROVE  \/ g \in drv.free \cup {h}
                 \/ \E m \in 1 .. Outstanding : g = head_idx(m)
                 \/ \E n \in 1 .. A - 1 : g = answer(n + 1)
      <3>1. CASE \E n \in 1 .. A : g = answer(n)
        BY <3>1, <1>5, <1>8
      <3> QED BY <1>0, <3>1 DEF HeadInv, Somewhere
    <2>2. h \in Heads \ drv.free
      <3>1. h \in Heads
        BY RingSlotInHeads DEF HeadInv, RingsTyped, Ring, h
      <3> QED BY <1>0, <1>5, <1>7, <3>1 DEF HeadInv, Taken
    <2>3. Outstanding + (A - 1) + Cardinality(drv.free \cup {h}) = QNUM
      <3>1. Cardinality(drv.free \cup {h}) = Cardinality(drv.free) + 1
        BY <2>2, Sizes DEF HeadInv
      <3>2. Outstanding + A + Cardinality(drv.free) = QNUM
        BY <1>0 DEF HeadInv, Somewhere
      <3> QED BY <1>1, <3>1, <3>2
    <2>4. \A g \in Heads : (\E n \in 1 .. A - 1 : g = answer(n + 1)) => \E n \in 1 .. A - 1 : g = answer(n)'
      BY <1>4
    <2> QED BY <1>2, <1>3, <1>6, <2>1, <2>3, <2>4 DEF Somewhere
  <1> QED BY <1>9, <1>10, <1>11 DEF HeadInv

\* A kick moves the heads of the available ring, in order, behind the answers the driver has not
\* seen, and overwrites none of those.
LEMMA NotifyRing ==
    ASSUME HeadInv, Notify, virtio.ready, NEW W \in Nat, NEW A \in Nat, W = Outstanding, A = Unseen, W > 0
    PROVE  /\ Outstanding' = 0 /\ Unseen' = A + W
           /\ \A n \in 1 .. A : answer(n)' = answer(n)
           /\ \A i \in 1 .. W : answer(A + i)' = head_idx(i)
           /\ \A n \in 1 .. A + W : n \in 1 .. A \/ \E i \in 1 .. W : n = A + i
           /\ 1 .. A \subseteq 1 .. A + W /\ (\A i \in 1 .. W : A + i \in 1 .. A + W) /\ 1 .. 0 = {}
  <1>a. QNUM \in Nat \ {0} /\ IDX \in Nat \ {0} /\ IDX > QNUM
    BY PlatformAssumption
  <1>b. RingsTyped
    BY DEF HeadInv
  <1>c. W = Outstanding /\ A = Unseen
    OBVIOUS
  <1>d. W + A + Cardinality(drv.free) = QNUM /\ Cardinality(drv.free) \in Nat /\ W + A <= QNUM
    BY <1>a, <1>b, Sizes DEF HeadInv, Somewhere
  <1>e. virtio.ready /\ Outstanding > 0
    OBVIOUS
  <1>1. avail' = avail /\ used' = UsedAfter /\ drv' = drv /\ virtio'.last_avail = avail.idx
    BY <1>b, <1>e DEF Notify, virtio_handle_notify, RingsTyped
  <1>2. Outstanding' = 0
    BY <1>b, <1>1, BehindIs DEF Outstanding, RingsTyped, Ring
  <1>3. Unseen' = A + W
    <2>1. used'.idx = (used.idx + W) % IDX
      BY <1>c, <1>1 DEF UsedAfter
    <2>2. Behind(drv.seen, used.idx) + W < IDX
      BY <1>a, <1>c, <1>d DEF Unseen
    <2>3. Behind(drv.seen, (used.idx + W) % IDX) = Behind(drv.seen, used.idx) + W
      BY <1>b, <2>2, BehindAdds DEF RingsTyped, Ring
    <2> QED BY <1>c, <1>1, <2>1, <2>3 DEF Unseen
  <1>4. ASSUME NEW i \in 1 .. W, NEW n \in 1 .. A + W, RingSlot(used.idx + i - 1) = RingSlot(drv.seen + n - 1)
        PROVE  n = A + i
    <2>1. RingSlot(used.idx + (i - 1)) = RingSlot(drv.seen + A + (i - 1))
      BY <1>b, <1>c, SlotAt DEF Unseen, RingsTyped, Ring
    <2>2. used.idx + (i - 1) = used.idx + i - 1 /\ drv.seen + A + (i - 1) = drv.seen + (A + i) - 1
      BY <1>b, <1>c DEF RingsTyped, Ring
    <2>3. drv.seen \in Int /\ n \in Int /\ A + i \in Int /\ n - (A + i) < QNUM /\ (A + i) - n < QNUM
      BY <1>a, <1>b, <1>c, <1>d DEF RingsTyped
    <2>4. RingSlot(drv.seen + n - 1) = RingSlot(drv.seen + (A + i) - 1)
      BY <1>4, <2>1, <2>2
    <2> QED BY <2>3, <2>4, SlotsApart
  <1>5. ASSUME NEW i \in 1 .. W
        PROVE  RingSlot(used.idx + i - 1) = RingSlot(drv.seen + (A + i) - 1)
    <2>1. RingSlot(used.idx + (i - 1)) = RingSlot(drv.seen + A + (i - 1))
      BY <1>b, <1>c, SlotAt DEF Unseen, RingsTyped, Ring
    <2>2. used.idx + (i - 1) = used.idx + i - 1 /\ drv.seen + A + (i - 1) = drv.seen + (A + i) - 1
      BY <1>b, <1>c DEF RingsTyped, Ring
    <2> QED BY <2>1, <2>2
  <1>6. \A n \in 1 .. A + W : RingSlot(drv.seen + n - 1) \in Heads
    BY <1>b, <1>c, RingSlotInHeads DEF RingsTyped
  <1>7. \A n \in 1 .. A : answer(n)' = answer(n)
    <2> TAKE n \in 1 .. A
    <2>1. n \in 1 .. A + W
      BY <1>c
    <2>2. PushedTo(RingSlot(drv.seen + n - 1)) = {}
      <3>1. ASSUME NEW i \in 1 .. W, RingSlot(used.idx + i - 1) = RingSlot(drv.seen + n - 1) PROVE FALSE
        <4>1. n = A + i
          BY <1>4, <2>1, <3>1
        <4> QED BY <1>c, <4>1
      <3> QED BY <1>c, <3>1 DEF PushedTo
    <2> QED BY <1>1, <1>6, <2>1, <2>2 DEF answer, UsedAfter
  <1>8. \A i \in 1 .. W : answer(A + i)' = head_idx(i)
    <2> TAKE i \in 1 .. W
    <2>1. A + i \in 1 .. A + W
      BY <1>c
    <2>2. PushedTo(RingSlot(drv.seen + (A + i) - 1)) = {i}
      <3>1. ASSUME NEW j \in 1 .. W, RingSlot(used.idx + j - 1) = RingSlot(drv.seen + (A + i) - 1) PROVE j = i
        <4>1. A + i = A + j
          BY <1>4, <2>1, <3>1
        <4> QED BY <1>c, <4>1
      <3> QED BY <1>c, <1>5, <3>1 DEF PushedTo
    <2>3. (CHOOSE j \in PushedTo(RingSlot(drv.seen + (A + i) - 1)) : TRUE) = i
      BY <2>2
    <2> QED BY <1>1, <1>6, <2>1, <2>2, <2>3 DEF answer, UsedAfter
  <1>9. \A n \in 1 .. A + W : n \in 1 .. A \/ \E i \in 1 .. W : n = A + i
    <2> TAKE n \in 1 .. A + W
    <2>1. n \in 1 .. A \/ (n - A \in 1 .. W /\ n = A + (n - A))
      BY <1>c
    <2> QED BY <2>1
  <1>10. 1 .. A \subseteq 1 .. A + W /\ (\A i \in 1 .. W : A + i \in 1 .. A + W) /\ 1 .. 0 = {}
    BY <1>c
  <1> QED BY <1>2, <1>3, <1>7, <1>8, <1>9, <1>10

\* No head is lost or doubled on the way.
LEMMA NotifyHeads ==
    ASSUME HeadInv, RingsTyped', Notify PROVE HeadInv'
  <1>1. QNUM \in Nat \ {0} /\ IDX \in Nat \ {0} /\ IDX > QNUM
    BY PlatformAssumption
  <1>2. RingsTyped
    BY DEF HeadInv
  <1>3. PICK W \in Nat, A \in Nat : W = Outstanding /\ A = Unseen
    BY <1>1, <1>2, Sizes
  <1>4. W + A + Cardinality(drv.free) = QNUM /\ Cardinality(drv.free) \in Nat /\ W + A <= QNUM
    BY <1>1, <1>2, <1>3, Sizes DEF HeadInv, Somewhere
  <1>5. CASE ~(virtio.ready /\ Outstanding > 0)
    <2>1. avail' = avail /\ used' = used /\ virtio' = virtio /\ drv' = drv
      BY <1>5 DEF Notify, virtio_handle_notify
    <2> QED BY <2>1 DEF HeadInv, Apart, Taken, Somewhere, Outstanding, Unseen, head_idx, answer
  <1>6. CASE virtio.ready /\ Outstanding > 0
    <2>1. drv' = drv
      BY DEF Notify
    <2>2. Outstanding' = 0
      BY <1>3, <1>6, NotifyRing
    <2>3. Unseen' = A + W
      BY <1>3, <1>6, NotifyRing
    <2>7. \A n \in 1 .. A : answer(n)' = answer(n)
      BY <1>3, <1>6, NotifyRing
    <2>8. \A i \in 1 .. W : answer(A + i)' = head_idx(i)
      BY <1>3, <1>6, NotifyRing
    <2>9. \A n \in 1 .. A + W : n \in 1 .. A \/ \E i \in 1 .. W : n = A + i
      BY <1>3, <1>6, NotifyRing
    <2>10. 1 .. A \subseteq 1 .. A + W /\ (\A i \in 1 .. W : A + i \in 1 .. A + W) /\ 1 .. 0 = {}
      BY <1>3, <1>6, NotifyRing
    <2>11. Apart'
      <3>1. \A m, n \in 1 .. A : answer(m) = answer(n) => m = n
        BY <1>3 DEF HeadInv, Apart
      <3>2. \A m, n \in 1 .. W : head_idx(m) = head_idx(n) => m = n
        BY <1>3 DEF HeadInv, Apart
      <3>3. \A m \in 1 .. W, n \in 1 .. A : head_idx(m) # answer(n)
        BY <1>3 DEF HeadInv, Apart
      <3>4. \A m, n \in 1 .. A + W : answer(m)' = answer(n)' => m = n
        BY <2>7, <2>8, <2>9, <3>1, <3>2, <3>3
      <3> QED BY <2>2, <2>3, <2>10, <3>4 DEF Apart
    <2>12. Taken'
      <3>1. \A n \in 1 .. A + W : answer(n)' \notin drv.free
        BY <1>3, <2>7, <2>8, <2>9 DEF HeadInv, Taken
      <3> QED BY <2>1, <2>2, <2>3, <2>10, <3>1 DEF Taken
    <2>13. Somewhere'
      <3>1. ASSUME NEW g \in Heads PROVE g \in drv.free \/ \E n \in 1 .. A + W : g = answer(n)'
        <4>1. CASE \E m \in 1 .. W : g = head_idx(m)
          BY <4>1, <2>8, <2>10
        <4>2. CASE \E n \in 1 .. A : g = answer(n)
          BY <4>2, <2>7, <2>10
        <4> QED BY <1>3, <4>1, <4>2 DEF HeadInv, Somewhere
      <3>2. 0 + (A + W) + Cardinality(drv.free) = QNUM
        BY <1>3, <1>4
      <3> QED BY <2>1, <2>2, <2>3, <3>1, <3>2 DEF Somewhere
    <2> QED BY <2>11, <2>12, <2>13 DEF HeadInv
  <1> QED BY <1>5, <1>6

\* Every access of the driver and every reaction of the device keeps each head in one place.
LEMMA HeadStep == LineInv /\ HeadInv /\ LineInv' /\ [PNext]_pvars => HeadInv'
  <1> SUFFICES ASSUME LineInv, HeadInv, LineInv', [PNext]_pvars PROVE HeadInv'
    OBVIOUS
  <1>0. RingsTyped'
    BY DEF LineInv
  <1>1. ASSUME NEW h \in Heads, NEW c \in Chains, Submit(h, c) PROVE HeadInv'
    BY <1>0, <1>1, SubmitHeads
  <1>2. CASE Notify
    BY <1>0, <1>2, NotifyHeads
  <1>3. CASE Reap
    BY <1>0, <1>3, ReapHeads
  <1>4. CASE TakeDown
    <2>1. avail'.idx = 0 /\ used'.idx = 0 /\ drv'.seen = 0 /\ drv'.free = Heads
      BY <1>4 DEF TakeDown, Clear, EmptyRing, HeadInv, RingsTyped
    <2>2. virtio'.last_avail = 0
      <3>1. CASE virtio_blk_reset_transport_state
        BY <3>1 DEF virtio_blk_reset_transport_state
      <3>2. CASE write_queue_ready(FALSE)
        BY <3>2 DEF write_queue_ready, HeadInv, RingsTyped
      <3> QED BY <1>4, <3>1, <3>2 DEF TakeDown
    <2>3. (RingsTyped /\ avail.idx = virtio.last_avail /\ used.idx = drv.seen /\ drv.free = Heads => HeadInv)'
      BY EmptyHeads, PTL
    <2> QED BY <1>0, <2>1, <2>2, <2>3
  <1>5. ASSUME avail' = avail, used' = used, virtio'.last_avail = virtio.last_avail,
               drv'.seen = drv.seen, drv'.free = drv.free
        PROVE  HeadInv'
    <2>1. Outstanding' = Outstanding /\ Unseen' = Unseen
      BY <1>5 DEF Outstanding, Unseen
    <2>2. \A n : head_idx(n)' = head_idx(n) /\ answer(n)' = answer(n)
      BY <1>5 DEF head_idx, answer
    <2>3. Apart'
      BY <2>1, <2>2 DEF HeadInv, Apart
    <2>4. Taken'
      BY <1>5, <2>1, <2>2 DEF HeadInv, Taken
    <2>5. Somewhere'
      BY <1>5, <2>1, <2>2 DEF HeadInv, Somewhere
    <2> QED BY <1>0, <2>3, <2>4, <2>5 DEF HeadInv
  <1>6. CASE Claim \/ Ack \/ Reaped \/ Complete
    BY <1>5, <1>6 DEF Claim, Ack, write_interrupt_ack, Reaped, Complete, HeadInv, RingsTyped
  <1>7. CASE SetUp
    BY <1>5, <1>7 DEF SetUp, write_queue_ready, HeadInv, RingsTyped
  <1>8. ASSUME NEW on \in BOOLEAN, Mask(on) PROVE HeadInv'
    BY <1>5, <1>8 DEF Mask
  <1>9. CASE UNCHANGED pvars
    BY <1>5, <1>9 DEF pvars
  <1> QED BY <1>1, <1>2, <1>3, <1>4, <1>6, <1>7, <1>8, <1>9 DEF PNext, Handled

\* Whatever the driver submits, kicks, reaps and restarts, and however the ring indices wrap around,
\* the device answers every request exactly once (memory_models.h: virtio_handle_notify,
\* virtio_push_used, reset and QueueReady).
THEOREM RequestsAnsweredOnce == PSpec => []AnsweredOnce
  <1>1. LineInv /\ HeadInv => AnsweredOnce
    <2> SUFFICES ASSUME LineInv, HeadInv PROVE AnsweredOnce
      OBVIOUS
    <2>1. Outstanding \in Nat /\ Unseen \in Nat
      <3>1. IDX \in Nat /\ RingsTyped
        BY PlatformAssumption DEF HeadInv
      <3> QED BY <3>1, Sizes
    <2>2. DOMAIN Waiting = 1 .. Outstanding /\ DOMAIN Answered = 1 .. Unseen
      BY DEF Waiting, Answered, Unseen
    <2>3. \A m \in 1 .. Outstanding : Waiting[m] = head_idx(m)
      BY DEF Waiting
    <2>4. \A n \in 1 .. Unseen : Answered[n] = answer(n)
      BY DEF Answered, Unseen, answer
    <2>5. Cardinality(DOMAIN Waiting) = Outstanding /\ Cardinality(DOMAIN Answered) = Unseen
      BY <2>1, <2>2, FS_Interval
    <2>6. QNUM = Cardinality(drv.free) + Outstanding + Unseen
      <3>1. RingsTyped
        BY DEF HeadInv
      <3>2. Cardinality(drv.free) \in Nat
        BY <3>1, Sizes
      <3> QED BY <2>1, <3>2 DEF HeadInv, Somewhere
    <2>7. \A m \in 1 .. Outstanding : head_idx(m) \in Heads
      BY <2>1, RingSlotInHeads DEF head_idx, HeadInv, RingsTyped, Ring
    <2>8. \A n \in 1 .. Unseen : answer(n) \in Heads
      BY <2>1, RingSlotInHeads DEF answer, HeadInv, RingsTyped, Ring
    <2>9. drv.free \subseteq Heads
      BY DEF HeadInv, RingsTyped
    <2>10. Heads = drv.free \cup Ids(Waiting) \cup Ids(Answered)
      BY <2>2, <2>3, <2>4, <2>7, <2>8, <2>9 DEF Ids, HeadInv, Somewhere
    <2> QED BY <2>5, <2>6, <2>10 DEF AnsweredOnce
  <1>2. PInit => LineInv /\ HeadInv
    BY LineInit, HeadInit
  <1>3. LineInv /\ HeadInv /\ [PNext]_pvars => LineInv' /\ HeadInv'
    BY LineStep, HeadStep
  <1> QED BY <1>1, <1>2, <1>3, PTL DEF PSpec

-----------------------------------------------------------------------------
(***************************************************************************)
(* The requests are served in the order they were submitted.  The disk     *)
(* after the n-th waiting request is defined by recursion (the loop of     *)
(* virtio_handle_notify), so the facts about it take induction.            *)
(***************************************************************************)
\* A set of numbers has a least one.
LEMMA LeastNat ==
    ASSUME NEW T, T \subseteq Nat, T # {} PROVE \E x \in T : \A y \in T : x <= y
  <1>1. PICK x \in T : \A y \in T : ~(<<y, x>> \in OpToRel(<, Nat))
    BY NatLessThanWellFounded, WFMin
  <1>2. ASSUME NEW y \in T PROVE x <= y
    <2>1. x \in Nat /\ y \in Nat
      OBVIOUS
    <2>2. y < x => <<y, x>> \in OpToRel(<, Nat)
      BY <2>1 DEF OpToRel
    <2>3. ~(y < x)
      BY <1>1, <2>2
    <2> QED BY <2>1, <2>3
  <1> QED BY <1>2

\* Induction, for a set of numbers.
LEMMA InductionOver ==
    ASSUME NEW S, 0 \in S, \A n \in Nat : n \in S => n + 1 \in S PROVE Nat \subseteq S
  <1> SUFFICES ASSUME Nat \ S # {} PROVE FALSE
    OBVIOUS
  <1>1. PICK x \in Nat \ S : \A y \in Nat \ S : x <= y
    BY LeastNat
  <1>2. x - 1 \in Nat
    BY <1>1
  <1>3. x - 1 \in S
    BY <1>1, <1>2
  <1>4. (x - 1) + 1 \in S
    BY <1>2, <1>3
  <1>5. (x - 1) + 1 = x
    BY <1>1
  <1> QED BY <1>1, <1>4, <1>5

\* f is the disk before and after each of the first n requests.
ImageFrom(f, n) ==
    f = [i \in 0 .. n |-> IF i = 0 THEN disk ELSE ImageAfter(desc[head_idx(i)], f[i - 1])]

\* The recursion is well defined.
LEMMA ImageExists == \E f : ImageFrom(f, QNUM)
  <1> DEFINE S == {n \in Nat : \E f : ImageFrom(f, n)}
  <1>1. 0 \in S
    <2>1. ImageFrom([i \in 0 .. 0 |-> disk], 0)
      BY DEF ImageFrom
    <2> QED BY <2>1
  <1>2. ASSUME NEW n \in Nat, n \in S PROVE n + 1 \in S
    <2>1. PICK f : ImageFrom(f, n)
      BY <1>2
    <2> DEFINE g == [i \in 0 .. n + 1 |-> IF i <= n THEN f[i] ELSE ImageAfter(desc[head_idx(i)], f[n])]
    <2>2. ASSUME NEW i \in 0 .. n + 1
          PROVE  g[i] = IF i = 0 THEN disk ELSE ImageAfter(desc[head_idx(i)], g[i - 1])
      <3>1. CASE i = 0
        <4>1. i \in 0 .. n /\ i <= n
          BY <3>1
        <4> QED BY <2>1, <3>1, <4>1 DEF ImageFrom
      <3>2. CASE i # 0 /\ i <= n
        <4>1. i \in 0 .. n /\ i - 1 \in 0 .. n /\ i - 1 \in 0 .. n + 1 /\ i - 1 <= n
          BY <3>2
        <4>2. g[i] = f[i] /\ g[i - 1] = f[i - 1]
          BY <3>2, <4>1
        <4>3. f[i] = ImageAfter(desc[head_idx(i)], f[i - 1])
          BY <2>1, <3>2, <4>1 DEF ImageFrom
        <4> QED BY <3>2, <4>2, <4>3
      <3>3. CASE i = n + 1
        <4>1. i - 1 = n /\ i - 1 \in 0 .. n + 1 /\ i - 1 <= n /\ ~(i <= n) /\ i # 0
          BY <3>3
        <4>2. g[i - 1] = f[n] /\ g[i] = ImageAfter(desc[head_idx(i)], f[n])
          BY <4>1
        <4> QED BY <4>1, <4>2
      <3> QED BY <3>1, <3>2, <3>3
    <2>3. g = [i \in 0 .. n + 1 |-> g[i]]
      OBVIOUS
    <2> HIDE DEF g
    <2>4. ImageFrom(g, n + 1)
      BY <2>2, <2>3 DEF ImageFrom
    <2> QED BY <2>4
  <1> HIDE DEF S
  <1>3. Nat \subseteq S
    BY <1>1, <1>2, InductionOver
  <1>4. QNUM \in S
    BY <1>3, PlatformAssumption
  <1> QED BY <1>4 DEF S

\* The disk before the first and after each further request.
LEMMA ImageSteps ==
    /\ Image(0) = disk
    /\ \A i \in 1 .. QNUM : Image(i) = ImageAfter(desc[head_idx(i)], Image(i - 1))
  <1> DEFINE f == CHOOSE g : ImageFrom(g, QNUM)
  <1>1. ImageFrom(f, QNUM)
    BY ImageExists
  <1>2. \A n : Image(n) = f[n]
    BY DEF Image, ImageFrom
  <1> HIDE DEF f
  <1>3. QNUM \in Nat
    BY PlatformAssumption
  <1>4. f[0] = disk
    BY <1>1, <1>3 DEF ImageFrom
  <1>5. ASSUME NEW i \in 1 .. QNUM PROVE f[i] = ImageAfter(desc[head_idx(i)], f[i - 1])
    <2>1. i \in 0 .. QNUM /\ i # 0
      BY <1>3
    <2> QED BY <1>1, <2>1 DEF ImageFrom
  <1> QED BY <1>2, <1>4, <1>5

\* Steps that leave the disk and the first N waiting requests alone leave the disk after them alone.
LEMMA ImageSame ==
    ASSUME NEW N \in 0 .. QNUM, disk' = disk,
           \A i \in 1 .. N : (desc[head_idx(i)])' = desc[head_idx(i)]
    PROVE  \A n \in 0 .. N : Image(n)' = Image(n)
  <1> DEFINE S == {n \in Nat : n <= N => Image(n)' = Image(n)}
  <1>1. /\ Image(0)' = disk'
        /\ \A i \in 1 .. QNUM : Image(i)' = ImageAfter((desc[head_idx(i)])', Image(i - 1)')
    <2>1. (/\ Image(0) = disk
           /\ \A i \in 1 .. QNUM : Image(i) = ImageAfter(desc[head_idx(i)], Image(i - 1)))'
      BY ImageSteps, PTL
    <2>2. \A c, d : ImageAfter(c, d)' = ImageAfter(c, d)
      OBVIOUS
    <2> QED BY <2>1, <2>2
  <1>2. QNUM \in Nat
    BY PlatformAssumption
  <1>3. 0 \in S
    BY <1>1, ImageSteps
  <1>4. ASSUME NEW n \in Nat, n \in S PROVE n + 1 \in S
    <2>1. CASE n + 1 <= N
      <3>1. n + 1 \in 1 .. N /\ n + 1 \in 1 .. QNUM /\ (n + 1) - 1 = n /\ n <= N
        BY <1>2, <2>1
      <3>2. Image(n)' = Image(n)
        BY <1>4, <3>1
      <3>3. Image(n + 1)' = ImageAfter((desc[head_idx(n + 1)])', Image(n)')
        BY <1>1, <3>1
      <3>4. Image(n + 1) = ImageAfter(desc[head_idx(n + 1)], Image(n))
        BY ImageSteps, <3>1
      <3> QED BY <3>1, <3>2, <3>3, <3>4
    <2>2. CASE ~(n + 1 <= N)
      BY <2>2
    <2> QED BY <2>1, <2>2
  <1> HIDE DEF S
  <1>5. Nat \subseteq S
    BY <1>3, <1>4, InductionOver
  <1> QED BY <1>2, <1>5 DEF S

-----------------------------------------------------------------------------
(* What the loop over the segments of one request does (memory_models.h:   *)
(* virtio_process_blk_request).                                            *)
SegmentsTyped(c) ==
    /\ c = [type |-> c.type, sector |-> c.sector, data |-> c.data, shape |-> c.shape, status |-> c.status]
    /\ c.sector \in Nat
    /\ c.data \in Seq([write : BOOLEAN, mapped : BOOLEAN, val : Values])

\* The segments moved are those before the first bad one.
LEMMA MovedIs ==
    ASSUME NEW c, SegmentsTyped(c)
    PROVE  /\ Moved(c) \in 0 .. Len(c.data)
           /\ \A i \in 1 .. Moved(c) : SegmentOk(c, i)
           /\ Moved(c) < Len(c.data) => ~SegmentOk(c, Moved(c) + 1)
  <1> DEFINE Q(n) == /\ \A i \in 1 .. n : SegmentOk(c, i)
                     /\ n < Len(c.data) => ~SegmentOk(c, n + 1)
             T == {n \in 1 .. Len(c.data) : ~SegmentOk(c, n)}
  <1>1. Len(c.data) \in Nat
    BY DEF SegmentsTyped
  <1>2. \E n \in 0 .. Len(c.data) : Q(n)
    <2>1. CASE T = {}
      <3>1. Q(Len(c.data))
        BY <1>1, <2>1
      <3> QED BY <1>1, <3>1
    <2>2. CASE T # {}
      <3>1. PICK x \in T : \A y \in T : x <= y
        <4>1. T \subseteq Nat
          BY <1>1
        <4> HIDE DEF T
        <4> QED BY <2>2, <4>1, LeastNat
      <3>2. x - 1 \in 0 .. Len(c.data) /\ (x - 1) + 1 = x
        BY <1>1, <3>1
      <3>3. \A i \in 1 .. x - 1 : SegmentOk(c, i)
        BY <1>1, <3>1
      <3>4. Q(x - 1)
        BY <3>1, <3>2, <3>3
      <3> QED BY <3>2, <3>4
    <2> QED BY <2>1, <2>2
  <1>3. Moved(c) = CHOOSE n \in 0 .. Len(c.data) : Q(n)
    BY DEF Moved
  <1> HIDE DEF Q
  <1>4. Moved(c) \in 0 .. Len(c.data) /\ Q(Moved(c))
    BY <1>2, <1>3
  <1> QED BY <1>4 DEF Q

\* The byte offset of the start of a request and the end of its first segment are 64-bit numbers.
Addressable(c) == c.sector < SPAN - 1

\* What a number in range, and one period below, is modulo n.
LEMMA InPeriod ==
    ASSUME NEW n \in Nat \ {0}
    PROVE  \A x \in 0 .. n - 1 : x % n = x /\ (x - n) % n = x
  <1> TAKE x \in 0 .. n - 1
  <1>1. x \in Int /\ x - n \in Int /\ 0 \in Int /\ -1 \in Int /\ x = 0 * n + x /\ x - n = (-1) * n + x
    OBVIOUS
  <1>2. x % n = x
    BY <1>1, ModUnique
  <1>3. PICK y \in Int : y = x - n /\ y = (-1) * n + x
    BY <1>1
  <1>4. y % n = x
    BY <1>1, <1>3, ModUnique
  <1> QED BY <1>2, <1>3, <1>4

\* A segment that begins in the image, or is the first of an addressable request, has an offset
\* that does not wrap, and is checked as if no offset did.
LEMMA OffsetExact ==
    ASSUME NEW c, SegmentsTyped(c), Addressable(c), NEW j \in Nat \ {0},
           j = 1 \/ c.sector + j - 1 <= SECTORS
    PROVE  disk_off(c, j) = c.sector + j - 1 /\ (SegmentOk(c, j) => Fits(c, j)) /\ (Fits(c, j) => SegmentOk(c, j))
  <1>1. SECTORS \in Nat /\ SPAN \in Nat \ {0} /\ SPAN >= SECTORS + 2 /\ c.sector \in Nat
    BY PlatformAssumption DEF SegmentsTyped
  <1>2. PICK o \in 0 .. SPAN - 2 : o = c.sector + j - 1
    BY <1>1 DEF Addressable
  <1>3. \A x \in 0 .. SPAN - 1 : x % SPAN = x
    BY <1>1, InPeriod
  <1>4. o % SPAN = o /\ (o + 1) % SPAN = o + 1
    <2>1. o \in 0 .. SPAN - 1 /\ o + 1 \in 0 .. SPAN - 1
      BY <1>1
    <2> QED BY <1>3, <2>1
  <1>5. disk_off(c, j) = o
    BY <1>2, <1>4 DEF disk_off
  <1>6. (disk_off(c, j) + 1) % SPAN <= SECTORS <=> c.sector + j <= SECTORS
    <2>1. o + 1 = c.sector + j
      BY <1>1, <1>2
    <2> QED BY <1>4, <1>5, <2>1
  <1> QED BY <1>2, <1>5, <1>6 DEF SegmentOk, Fits

\* The segments of an addressable request that are moved are those before the first that does not
\* fit into the image.
LEMMA MovedFits ==
    ASSUME NEW c, SegmentsTyped(c), Addressable(c)
    PROVE  /\ Moved(c) \in 0 .. Len(c.data)
           /\ \A i \in 1 .. Moved(c) : Fits(c, i)
           /\ Moved(c) < Len(c.data) => ~Fits(c, Moved(c) + 1)
  <1>1. SECTORS \in Nat /\ c.sector \in Nat /\ Len(c.data) \in Nat
    BY PlatformAssumption DEF SegmentsTyped
  <1>2. /\ Moved(c) \in 0 .. Len(c.data)
        /\ \A i \in 1 .. Moved(c) : SegmentOk(c, i)
        /\ Moved(c) < Len(c.data) => ~SegmentOk(c, Moved(c) + 1)
    BY MovedIs
  <1>3. Moved(c) \in Nat
    BY <1>1, <1>2
  <1>4. ASSUME NEW j \in Nat \ {0}, j = 1 \/ Fits(c, j - 1)
        PROVE  (SegmentOk(c, j) => Fits(c, j)) /\ (Fits(c, j) => SegmentOk(c, j))
    <2>1. j = 1 \/ c.sector + j - 1 <= SECTORS
      BY <1>1, <1>4 DEF Fits
    <2> QED BY <2>1, OffsetExact
  <1>5. ASSUME NEW i \in 1 .. Moved(c) PROVE Fits(c, i)
    <2> DEFINE T == {j \in 1 .. Moved(c) : ~Fits(c, j)}
    <2> SUFFICES ASSUME T # {} PROVE FALSE
      OBVIOUS
    <2>1. PICK x \in T : \A y \in T : x <= y
      <3>1. T \subseteq Nat
        BY <1>3
      <3> HIDE DEF T
      <3> QED BY <3>1, LeastNat
    <2>2. x \in Nat \ {0} /\ (x = 1 \/ x - 1 \in 1 .. Moved(c)) /\ x - 1 < x
      BY <1>3, <2>1
    <2>3. x = 1 \/ Fits(c, x - 1)
      BY <1>3, <2>1, <2>2
    <2>4. SegmentOk(c, x) => Fits(c, x)
      BY <1>4, <2>2, <2>3
    <2>5. x \in 1 .. Moved(c)
      OBVIOUS
    <2>6. SegmentOk(c, x)
      BY <1>2, <2>5
    <2>7. ~Fits(c, x)
      OBVIOUS
    <2> QED BY <2>4, <2>6, <2>7
  <1>6. ASSUME Moved(c) < Len(c.data) PROVE ~Fits(c, Moved(c) + 1)
    <2>1. /\ Moved(c) + 1 \in Nat \ {0} /\ (Moved(c) + 1) - 1 = Moved(c)
          /\ Moved(c) = 0 \/ Moved(c) \in 1 .. Moved(c)
      BY <1>3
    <2>2. Moved(c) + 1 = 1 \/ Fits(c, (Moved(c) + 1) - 1)
      BY <1>3, <1>5, <2>1
    <2>3. Fits(c, Moved(c) + 1) => SegmentOk(c, Moved(c) + 1)
      BY <1>4, <2>1, <2>2
    <2>4. ~SegmentOk(c, Moved(c) + 1)
      BY <1>2, <1>6
    <2> QED BY <2>3, <2>4
  <1> QED BY <1>2, <1>5, <1>6

\* A segment is moved exactly if it and those before it fit, in a request that can be read.
LEMMA MovedIsServed ==
    ASSUME NEW c, SegmentsTyped(c), Addressable(c)
    PROVE  /\ SegmentsMoved(c) \in 0 .. Len(c.data)
           /\ \A i \in Int : i \in 1 .. SegmentsMoved(c) <=> i \in 1 .. Len(c.data) /\ Served(c, i)
  <1>1. Len(c.data) \in Nat
    BY DEF SegmentsTyped
  <1>2. CASE Unreadable(c) \/ c.type = "OTHER"
    BY <1>1, <1>2 DEF SegmentsMoved, Served
  <1>3. CASE ~(Unreadable(c) \/ c.type = "OTHER")
    <2>1. SegmentsMoved(c) = Moved(c)
      BY <1>3 DEF SegmentsMoved
    <2>2. \A i : Served(c, i) <=> \A j \in 1 .. i : Fits(c, j)
      BY <1>3 DEF Served
    <2>3. /\ Moved(c) \in 0 .. Len(c.data)
          /\ \A i \in 1 .. Moved(c) : Fits(c, i)
          /\ Moved(c) < Len(c.data) => ~Fits(c, Moved(c) + 1)
      BY MovedFits
    <2>4. ASSUME NEW i \in Int, i \in 1 .. Moved(c) PROVE i \in 1 .. Len(c.data) /\ Served(c, i)
      BY <1>1, <2>2, <2>3, <2>4
    <2>5. ASSUME NEW i \in Int, i \in 1 .. Len(c.data), Served(c, i) PROVE i \in 1 .. Moved(c)
      <3>1. CASE i > Moved(c)
        <4>1. Moved(c) < Len(c.data) /\ Moved(c) + 1 \in 1 .. i
          BY <1>1, <2>3, <2>5, <3>1
        <4> QED BY <2>2, <2>3, <2>5, <4>1
      <3>2. CASE i <= Moved(c)
        BY <1>1, <2>3, <2>5, <3>2
      <3> QED BY <1>1, <2>3, <3>1, <3>2
    <2> QED BY <2>1, <2>3, <2>4, <2>5
  <1> QED BY <1>2, <1>3

\* The image after a request is the one it makes of the image before.
LEMMA ImageIsWrote ==
    ASSUME NEW c, NEW d, SegmentsTyped(c), Addressable(c) PROVE ImageAfter(c, d) = Wrote(c, d)
  <1>1. SECTORS \in Nat /\ SPAN \in Nat \ {0} /\ SPAN >= SECTORS + 2 /\ c.sector \in Nat
    BY PlatformAssumption DEF SegmentsTyped
  <1>2. PICK m \in 0 .. Len(c.data) :
          m = SegmentsMoved(c) /\ \A i \in Int : i \in 1 .. m <=> i \in 1 .. Len(c.data) /\ Served(c, i)
    BY MovedIsServed
  <1>3. ASSUME NEW s \in Sector
        PROVE  LET n == 1 + ((s - c.sector) % SPAN)
                   i == s - c.sector + 1
               IN  /\ n \in 1 .. m <=> i \in 1 .. Len(c.data) /\ Served(c, i)
                   /\ n \in 1 .. m => n = i
    <2> DEFINE n == 1 + ((s - c.sector) % SPAN)
               i == s - c.sector + 1
    <2>1. s \in 0 .. SECTORS - 1 /\ i \in Int /\ s - c.sector \in Int
      BY <1>1 DEF Sector
    <2>2. CASE s >= c.sector
      <3>1. PICK x \in 0 .. SPAN - 1 : x = s - c.sector
        BY <1>1, <2>1, <2>2
      <3>2. x % SPAN = x
        BY <1>1, InPeriod
      <3>3. n = i
        BY <1>1, <2>1, <3>1, <3>2
      <3> QED BY <1>2, <2>1, <3>3
    <2>3. CASE s < c.sector
      <3>1. PICK x \in 0 .. SPAN - 1 : x = s - c.sector + SPAN
        BY <1>1, <2>1, <2>3 DEF Addressable
      <3>2. (x - SPAN) % SPAN = x
        BY <1>1, InPeriod
      <3>3. n = s - c.sector + SPAN + 1 /\ n \in Int
        <4>1. x - SPAN = s - c.sector
          BY <1>1, <2>1, <3>1
        <4>2. n = 1 + x
          BY <3>2, <4>1, Zenon
        <4>3. 1 + x = s - c.sector + SPAN + 1 /\ 1 + x \in Int
          BY <1>1, <2>1, <3>1
        <4> HIDE DEF n
        <4> QED BY <4>2, <4>3, Zenon
      <3> HIDE DEF n
      <3>4. i \notin 1 .. Len(c.data)
        BY <1>1, <2>1, <2>3
      <3>5. n \notin 1 .. m
        <4> SUFFICES ASSUME n \in 1 .. m PROVE FALSE
          OBVIOUS
        <4>1. Served(c, n) /\ n \in 1 .. n
          BY <1>2, <3>3
        <4>2. Fits(c, n)
          BY <4>1 DEF Served
        <4>3. c.sector + n <= SECTORS
          BY <4>2 DEF Fits
        <4> HIDE DEF i
        <4> QED BY <1>1, <2>1, <3>3, <4>3, SMTT(30)
      <3> QED BY <3>4, <3>5 DEF n
    <2> QED BY <1>1, <2>1, <2>2, <2>3
  <1>4. ASSUME NEW s \in Sector
        PROVE  (LET n == 1 + ((s - c.sector) % SPAN)
                IN  IF c.type = "OUT" /\ n \in 1 .. SegmentsMoved(c) THEN c.data[n].val ELSE d[s])
               = (LET i == s - c.sector + 1
                  IN  IF c.type = "OUT" /\ i \in 1 .. Len(c.data) /\ Served(c, i) THEN c.data[i].val ELSE d[s])
    BY <1>2, <1>3
  <1> QED BY <1>4, Zenon DEF ImageAfter, Wrote

\* What is in the buffers of a request.
Contents(c) == [i \in 1 .. Len(c.data) |-> c.data[i].val]

\* Its status tells whether all of it was moved, and its buffers hold what was read.
LEMMA ChainIsRead ==
    ASSUME NEW c, NEW d, SegmentsTyped(c), Addressable(c), c.status # "ok"
    PROVE  /\ (ChainAfter(c, d).status = "ok") <=> Served(c, Len(c.data))
           /\ Contents(ChainAfter(c, d)) = Read(c, d)
  <1>1. Len(c.data) \in Nat
    BY DEF SegmentsTyped
  <1>2. SegmentsMoved(c) \in 0 .. Len(c.data)
        /\ \A i \in Int : i \in 1 .. SegmentsMoved(c) <=> i \in 1 .. Len(c.data) /\ Served(c, i)
    BY MovedIsServed
  <1>3. ChainAfter(c, d).status = req_status(c)
    BY DEF ChainAfter, SegmentsTyped
  <1>4. req_status(c) = "ok" <=> Served(c, Len(c.data))
    <2>1. CASE Unreadable(c) \/ c.type = "OTHER"
      BY <2>1 DEF req_status, Served
    <2>2. CASE ~(Unreadable(c) \/ c.type = "OTHER")
      <3>1. req_status(c) = "ok" <=> SegmentsMoved(c) = Len(c.data)
        BY <2>2 DEF req_status
      <3>2. Len(c.data) \in 1 .. Len(c.data)
        BY <1>1, <2>2 DEF Unreadable, SegmentsTyped
      <3>3. SegmentsMoved(c) = Len(c.data) <=> Len(c.data) \in 1 .. SegmentsMoved(c)
        BY <1>1, <1>2, <3>2
      <3> QED BY <1>1, <1>2, <3>1, <3>2, <3>3
    <2> QED BY <2>1, <2>2
  <1> DEFINE D == [i \in 1 .. Len(c.data) |->
                      IF c.type = "IN" /\ i \in 1 .. SegmentsMoved(c)
                      THEN [c.data[i] EXCEPT !.val = d[disk_off(c, i)]] ELSE c.data[i]]
  <1>5. ChainAfter(c, d).data = D
    BY DEF ChainAfter, SegmentsTyped
  <1>6. DOMAIN D = 1 .. Len(c.data) /\ Len(D) = Len(c.data)
    BY <1>1
  <1>7. ASSUME NEW i \in 1 .. Len(c.data)
        PROVE  D[i].val = IF c.type = "IN" /\ Served(c, i) THEN d[c.sector + i - 1] ELSE c.data[i].val
    <2>1. c.data[i] \in [write : BOOLEAN, mapped : BOOLEAN, val : Values]
      <3>1. c.data \in Seq([write : BOOLEAN, mapped : BOOLEAN, val : Values])
        BY DEF SegmentsTyped
      <3> QED BY <3>1, ElementOfSeq
    <2>2. i \in 1 .. SegmentsMoved(c) <=> Served(c, i)
      BY <1>1, <1>2
    <2>3. Served(c, i) => disk_off(c, i) = c.sector + i - 1
      <3> SUFFICES ASSUME Served(c, i) PROVE disk_off(c, i) = c.sector + i - 1
        OBVIOUS
      <3>1. i \in Nat \ {0} /\ i \in 1 .. i
        BY <1>1
      <3>2. c.sector + i - 1 <= SECTORS
        BY <3>1, PlatformAssumption DEF Served, Fits, SegmentsTyped
      <3> QED BY <3>1, <3>2, OffsetExact
    <2> QED BY <2>1, <2>2, <2>3
  <1>8. Contents(ChainAfter(c, d)) = [i \in 1 .. Len(c.data) |-> D[i].val]
    BY <1>5, <1>6 DEF Contents
  <1> HIDE DEF D
  <1>9. [i \in 1 .. Len(c.data) |-> D[i].val] = Read(c, d)
    BY <1>7 DEF Read
  <1> QED BY <1>3, <1>4, <1>8, <1>9

\* What is asked of the requests: byte offsets below 2^64 (the code computes them in 64 bits).
NoWrap == \A c \in Chains : Addressable(c)

\* The driver builds requests of the expected form.
LEMMA ChainsTyped ==
    ASSUME NEW c \in Chains PROVE SegmentsTyped(c) /\ c.status # "ok"
  <1>1. c \in [type : {"IN", "OUT", "OTHER"}, sector : Nat,
               data : Seq([write : BOOLEAN, mapped : BOOLEAN, val : Values]),
               shape : {"ok", "loop", "no_status"}, status : {"none"}]
    BY PlatformAssumption
  <1>2. c = [type |-> c.type, sector |-> c.sector, data |-> c.data, shape |-> c.shape, status |-> c.status]
    BY <1>1
  <1>3. c.sector \in Nat /\ c.status = "none"
    BY <1>1
  <1>4. c.data \in Seq([write : BOOLEAN, mapped : BOOLEAN, val : Values])
    BY <1>1
  <1> QED BY <1>2, <1>3, <1>4 DEF SegmentsTyped


-----------------------------------------------------------------------------
\* The shapes of what the steps below update.
BuffersTyped ==
    /\ desc = [h \in Heads |-> desc[h]]
    /\ expect = [disk |-> expect.disk, of |-> expect.of]
    /\ expect.of = [h \in Heads |-> expect.of[h]]

\* The queue the driver has set up is ready, and with the waiting requests served too the disk is
\* the one program order makes.
DiskAhead == (drv.up => virtio.ready) /\ Image(Outstanding) = expect.disk

\* What a waiting request has been promised is what the disk just before it will give it ...
Promised ==
    \A m \in 1 .. Outstanding :
        /\ desc[head_idx(m)] \in Chains
        /\ expect.of[head_idx(m)] = [ok |-> Served(desc[head_idx(m)], Len(desc[head_idx(m)].data)),
                                     vals |-> Read(desc[head_idx(m)], Image(m - 1))]

\* ... and an answered one has got it.
Kept ==
    \A n \in 1 .. Unseen :
        /\ (desc[answer(n)].status = "ok") <=> expect.of[answer(n)].ok
        /\ Contents(desc[answer(n)]) = expect.of[answer(n)].vals

ServeInv == BuffersTyped /\ DiskAhead /\ Promised /\ Kept

\* The windows in numbers that a step does not change, and their bounds.
LEMMA Windows ==
    ASSUME HeadInv
    PROVE  \E W \in Nat, A \in Nat : /\ W = Outstanding /\ A = Unseen /\ W + A <= QNUM
                                     /\ W \in 0 .. QNUM /\ A \in 0 .. QNUM
                                     /\ drv.free # {} => W + 1 \in 1 .. QNUM
  <1>1. QNUM \in Nat \ {0} /\ IDX \in Nat
    BY PlatformAssumption
  <1>2. RingsTyped
    BY DEF HeadInv
  <1>3. Outstanding \in Nat /\ Unseen \in Nat /\ Cardinality(drv.free) \in Nat
    BY <1>1, <1>2, Sizes
  <1>4. Outstanding + Unseen + Cardinality(drv.free) = QNUM
    BY DEF HeadInv, Somewhere
  <1>5. ASSUME drv.free # {} PROVE Cardinality(drv.free) # 0
    <2>1. IsFiniteSet(Heads)
      BY <1>1, FS_Interval DEF Heads
    <2>2. IsFiniteSet(drv.free)
      BY <1>2, <2>1, FS_Subset DEF RingsTyped
    <2> QED BY <1>5, <2>2, FS_EmptySet
  <1> QED BY <1>1, <1>3, <1>4, <1>5

\* The heads on the rings are entries of the descriptor table.
LEMMA OnRing ==
    ASSUME RingsTyped
    PROVE  /\ \A m \in Int : head_idx(m) \in Heads
           /\ \A n \in Int : answer(n) \in Heads
  BY RingSlotInHeads DEF head_idx, answer, RingsTyped, Ring

\* On empty rings nothing is promised or kept.
LEMMA EmptyServed ==
    ASSUME RingsTyped, avail.idx = virtio.last_avail, used.idx = drv.seen, BuffersTyped,
           expect.disk = disk, drv.up => virtio.ready
    PROVE  ServeInv
  <1>1. Outstanding = 0 /\ Unseen = 0
    BY BehindIs DEF RingsTyped, Ring, Outstanding, Unseen
  <1>2. Image(Outstanding) = disk
    BY <1>1, ImageSteps
  <1> QED BY <1>1, <1>2 DEF ServeInv, DiskAhead, Promised, Kept

LEMMA ServeInit == PInit => ServeInv
  <1> SUFFICES ASSUME PInit PROVE ServeInv
    OBVIOUS
  <1>1. RingsTyped
    BY LineInit DEF LineInv
  <1>2. avail.idx = virtio.last_avail /\ used.idx = drv.seen /\ ~drv.up
    BY DEF PInit, EmptyRing
  <1>3. BuffersTyped /\ expect.disk = disk
    BY DEF PInit, BuffersTyped
  <1> QED BY <1>1, <1>2, <1>3, EmptyServed

\* What a step that touches neither rings nor buffers leaves alone.
LEMMA ServedStays ==
    ASSUME HeadInv, ServeInv, disk' = disk, desc' = desc, expect' = expect,
           drv'.up => virtio'.ready, Outstanding' = Outstanding, Unseen' = Unseen,
           \A n : head_idx(n)' = head_idx(n) /\ answer(n)' = answer(n)
    PROVE  ServeInv'
  <1>1. PICK W \in Nat : W = Outstanding /\ W \in 0 .. QNUM
    BY Windows
  <1>2. \A n \in 0 .. W : Image(n)' = Image(n)
    BY <1>1, ImageSame
  <1>3. BuffersTyped'
    BY DEF ServeInv, BuffersTyped
  <1>4. DiskAhead'
    <2>1. Image(W)' = Image(W) /\ Image(W) = expect.disk
      <3>1. W \in 0 .. W
        BY <1>1
      <3> QED BY <1>1, <1>2, <3>1 DEF ServeInv, DiskAhead
    <2>2. Image(Outstanding)' = Image(W)'
      BY <1>1 DEF Image
    <2> QED BY <2>1, <2>2 DEF DiskAhead
  <1>5. Promised'
    <2>1. ASSUME NEW m \in 1 .. W
          PROVE  /\ (desc[head_idx(m)])' \in Chains
                 /\ (expect.of[head_idx(m)])' =
                      [ok |-> Served((desc[head_idx(m)])', Len((desc[head_idx(m)])'.data)),
                       vals |-> Read((desc[head_idx(m)])', Image(m - 1)')]
      <3>1. m - 1 \in 0 .. W
        BY <1>1
      <3> QED BY <1>1, <1>2, <3>1 DEF ServeInv, Promised
    <2> QED BY <1>1, <2>1 DEF Promised
  <1>6. Kept'
    BY DEF ServeInv, Kept
  <1> QED BY <1>3, <1>4, <1>5, <1>6 DEF ServeInv

\* A submitted request is promised what the disk with all the earlier ones served gives it.
LEMMA SubmitServed ==
    ASSUME NoWrap, HeadInv, HeadInv', ServeInv, NEW h \in Heads, NEW c \in Chains, Submit(h, c)
    PROVE  ServeInv'
  <1>1. h \in drv.free /\ RingsTyped
    BY DEF Submit, HeadInv
  <1>2. PICK W \in Nat, A \in Nat : /\ W = Outstanding /\ A = Unseen /\ W + A <= QNUM
                                    /\ W \in 0 .. QNUM /\ A \in 0 .. QNUM /\ W + 1 \in 1 .. QNUM
    BY <1>1, Windows
  <1>3. /\ disk' = disk /\ used' = used /\ virtio' = virtio /\ drv'.seen = drv.seen /\ drv'.up = drv.up
        /\ desc' = [desc EXCEPT ![h] = c]
        /\ expect' = [disk |-> Wrote(c, expect.disk),
                      of |-> [expect.of EXCEPT ![h] = [ok |-> Served(c, Len(c.data)),
                                                       vals |-> Read(c, expect.disk)]]]
    BY <1>1 DEF Submit, RingsTyped
  <1>4. Outstanding' = W + 1 /\ head_idx(W + 1)' = h /\ \A m \in 1 .. W : head_idx(m)' = head_idx(m)
    BY <1>2, SubmitRing
  <1>5. Unseen' = Unseen /\ \A n : answer(n)' = answer(n)
    BY <1>3 DEF Unseen, answer
  <1>6. (\A m \in 1 .. W : head_idx(m) # h) /\ (\A n \in 1 .. A : answer(n) # h)
    BY <1>1, <1>2 DEF HeadInv, Taken
  <1>7. (\A m \in 1 .. W : head_idx(m) \in Heads) /\ (\A n \in 1 .. A : answer(n) \in Heads)
    BY <1>1, <1>2, OnRing
  <1>8. /\ desc'[h] = c /\ \A g \in Heads : g # h => desc'[g] = desc[g]
        /\ expect'.of[h] = [ok |-> Served(c, Len(c.data)), vals |-> Read(c, expect.disk)]
        /\ \A g \in Heads : g # h => expect'.of[g] = expect.of[g]
        /\ expect'.disk = Wrote(c, expect.disk)
    BY <1>3 DEF ServeInv, BuffersTyped
  <1>9. \A m \in 1 .. W : (desc[head_idx(m)])' = desc[head_idx(m)]
    BY <1>4, <1>6, <1>7, <1>8
  <1>10. \A n \in 0 .. W : Image(n)' = Image(n)
    BY <1>2, <1>3, <1>9, ImageSame
  <1>11. Image(W) = expect.disk /\ Image(W)' = Image(W)
    <2>1. W \in 0 .. W
      BY <1>2
    <2> QED BY <1>2, <1>10, <2>1 DEF ServeInv, DiskAhead
  <1>12. BuffersTyped'
    BY <1>3 DEF ServeInv, BuffersTyped
  <1>13. DiskAhead'
    <2>1. (\A i \in 1 .. QNUM : Image(i) = ImageAfter(desc[head_idx(i)], Image(i - 1)))'
      BY ImageSteps, PTL
    <2>2. Image(W + 1)' = ImageAfter((desc[head_idx(W + 1)])', Image((W + 1) - 1)')
      BY <1>2, <2>1
    <2>3. (W + 1) - 1 = W
      BY <1>2
    <2>4. Image(W + 1)' = ImageAfter(c, expect.disk)
      BY <1>4, <1>8, <1>11, <2>2, <2>3
    <2>5. ImageAfter(c, expect.disk) = Wrote(c, expect.disk)
      BY ImageIsWrote, ChainsTyped DEF NoWrap
    <2>6. Image(Outstanding)' = Image(W + 1)'
      BY <1>4 DEF Image
    <2> QED BY <1>3, <1>8, <2>4, <2>5, <2>6 DEF ServeInv, DiskAhead
  <1>14. Promised'
    <2>1. ASSUME NEW m \in 1 .. W + 1
          PROVE  /\ (desc[head_idx(m)])' \in Chains
                 /\ (expect.of[head_idx(m)])' =
                      [ok |-> Served((desc[head_idx(m)])', Len((desc[head_idx(m)])'.data)),
                       vals |-> Read((desc[head_idx(m)])', Image(m - 1)')]
      <3>1. CASE m \in 1 .. W
        <4>1. Image(m - 1)' = Image(m - 1)
          <5>1. m - 1 \in 0 .. W
            BY <1>2, <3>1
          <5> QED BY <1>10, <5>1
        <4>2. (expect.of[head_idx(m)])' = expect.of[head_idx(m)]
          BY <1>4, <1>6, <1>7, <1>8, <3>1
        <4> QED BY <1>2, <1>9, <3>1, <4>1, <4>2 DEF ServeInv, Promised
      <3>2. CASE m = W + 1
        <4>1. m - 1 = W
          BY <1>2, <3>2
        <4>2. (desc[head_idx(m)])' = c
          BY <1>4, <1>8, <3>2
        <4>3. (expect.of[head_idx(m)])' = [ok |-> Served(c, Len(c.data)), vals |-> Read(c, expect.disk)]
          BY <1>4, <1>8, <3>2
        <4> QED BY <1>11, <4>1, <4>2, <4>3
      <3> QED BY <1>2, <3>1, <3>2
    <2> QED BY <1>4, <2>1 DEF Promised
  <1>15. Kept'
    <2>1. ASSUME NEW n \in 1 .. A
          PROVE  (desc[answer(n)])' = desc[answer(n)] /\ (expect.of[answer(n)])' = expect.of[answer(n)]
      BY <1>5, <1>6, <1>7, <1>8
    <2> QED BY <1>2, <1>5, <2>1 DEF ServeInv, Kept
  <1> QED BY <1>12, <1>13, <1>14, <1>15 DEF ServeInv

\* The driver takes an answer: nothing that waits or is still to be seen changes.
LEMMA ReapServed ==
    ASSUME HeadInv, ServeInv, Reap PROVE ServeInv'
  <1> DEFINE h == used.ring[RingSlot(drv.seen)]
  <1>1. RingsTyped
    BY DEF HeadInv
  <1>2. PICK W \in Nat, A \in Nat : W = Outstanding /\ A = Unseen /\ W \in 0 .. QNUM
    BY Windows
  <1>3. /\ A > 0 /\ Unseen' = A - 1 /\ (\A n \in 1 .. A - 1 : answer(n)' = answer(n + 1)) /\ h = answer(1)
        /\ Outstanding' = W /\ \A n : head_idx(n)' = head_idx(n)
    BY <1>2, ReapRing
  <1>4. /\ disk' = disk /\ virtio' = virtio /\ drv'.up = drv.up
        /\ desc' = [desc EXCEPT ![h] = NoChain] /\ expect' = [expect EXCEPT !.of[h] = Nothing]
    BY <1>1 DEF Reap, RingsTyped
  <1>5. 1 \in 1 .. A /\ \A n \in 1 .. A - 1 : n + 1 \in 1 .. A /\ n + 1 # 1
    BY <1>2, <1>3
  <1>6. /\ h \in Heads /\ \A m \in 1 .. W : head_idx(m) \in Heads
        /\ \A n \in 1 .. A - 1 : answer(n + 1) \in Heads
    BY <1>1, <1>3, <1>5, OnRing
  <1>7. (\A m \in 1 .. W : head_idx(m) # h) /\ (\A n \in 1 .. A - 1 : answer(n + 1) # h)
    BY <1>2, <1>3, <1>5 DEF HeadInv, Apart
  <1> HIDE DEF h
  <1>8. /\ \A g \in Heads : g # h => desc'[g] = desc[g] /\ expect'.of[g] = expect.of[g]
        /\ expect'.disk = expect.disk
    BY <1>4, <1>6 DEF ServeInv, BuffersTyped
  <1>9. \A m \in 1 .. W : /\ (desc[head_idx(m)])' = desc[head_idx(m)]
                          /\ (expect.of[head_idx(m)])' = expect.of[head_idx(m)]
    BY <1>3, <1>6, <1>7, <1>8
  <1>10. \A n \in 0 .. W : Image(n)' = Image(n)
    BY <1>2, <1>4, <1>9, ImageSame
  <1>11. BuffersTyped'
    BY <1>4, <1>6 DEF ServeInv, BuffersTyped
  <1>12. DiskAhead'
    <2>1. Image(W)' = Image(W) /\ Image(W) = expect.disk
      <3>1. W \in 0 .. W
        BY <1>2
      <3> QED BY <1>2, <1>10, <3>1 DEF ServeInv, DiskAhead
    <2>2. Image(Outstanding)' = Image(W)'
      BY <1>3 DEF Image
    <2> QED BY <1>4, <1>8, <2>1, <2>2 DEF ServeInv, DiskAhead
  <1>13. Promised'
    <2>1. ASSUME NEW m \in 1 .. W
          PROVE  /\ (desc[head_idx(m)])' \in Chains
                 /\ (expect.of[head_idx(m)])' =
                      [ok |-> Served((desc[head_idx(m)])', Len((desc[head_idx(m)])'.data)),
                       vals |-> Read((desc[head_idx(m)])', Image(m - 1)')]
      <3>1. m - 1 \in 0 .. W
        BY <1>2
      <3> QED BY <1>2, <1>9, <1>10, <3>1 DEF ServeInv, Promised
    <2> QED BY <1>3, <2>1 DEF Promised
  <1>14. Kept'
    <2>1. ASSUME NEW n \in 1 .. A - 1
          PROVE  /\ answer(n)' = answer(n + 1) /\ n + 1 \in 1 .. A
                 /\ (desc[answer(n)])' = desc[answer(n + 1)]
                 /\ (expect.of[answer(n)])' = expect.of[answer(n + 1)]
      BY <1>3, <1>5, <1>6, <1>7, <1>8
    <2> QED BY <1>2, <1>3, <2>1 DEF ServeInv, Kept
  <1> QED BY <1>11, <1>12, <1>13, <1>14 DEF ServeInv

\* A kick serves what waits, each request on the disk the one before it left, and changes no
\* buffer of an answer not yet seen.
LEMMA NotifyServed ==
    ASSUME NoWrap, HeadInv, ServeInv, Notify PROVE ServeInv'
  <1>1. RingsTyped
    BY DEF HeadInv
  <1>2. PICK W \in Nat, A \in Nat : W = Outstanding /\ A = Unseen /\ W \in 0 .. QNUM
    BY Windows
  <1>3. CASE ~(virtio.ready /\ Outstanding > 0)
    <2>1. UNCHANGED <<disk, desc, avail, used, virtio, drv, expect>>
      BY <1>3 DEF Notify, virtio_handle_notify
    <2>2. Outstanding' = W /\ Unseen' = A /\ \A n : head_idx(n)' = head_idx(n) /\ answer(n)' = answer(n)
      BY <1>2, <2>1 DEF Outstanding, Unseen, head_idx, answer
    <2>3. drv'.up => virtio'.ready
      BY <2>1 DEF ServeInv, DiskAhead
    <2> QED BY <1>2, <2>1, <2>2, <2>3, ServedStays
  <1>4. CASE virtio.ready /\ Outstanding > 0
    <2>1. /\ disk' = Image(W) /\ desc' = DescAfter /\ drv' = drv /\ expect' = expect /\ virtio'.ready = virtio.ready
      BY <1>1, <1>2, <1>4 DEF Notify, virtio_handle_notify, RingsTyped
    <2>2. /\ Outstanding' = 0 /\ Unseen' = A + W
          /\ \A n \in 1 .. A : answer(n)' = answer(n)
          /\ \A i \in 1 .. W : answer(A + i)' = head_idx(i)
          /\ \A n \in 1 .. A + W : n \in 1 .. A \/ \E i \in 1 .. W : n = A + i
          /\ 1 .. 0 = {}
      BY <1>2, <1>4, NotifyRing
    <2>3. \A n \in 1 .. A : (desc[answer(n)])' = desc[answer(n)]
      <3> TAKE n \in 1 .. A
      <3>1. answer(n) \in Heads
        BY <1>1, <1>2, OnRing
      <3>2. Of(answer(n)) = {}
        BY <1>2 DEF Of, HeadInv, Apart
      <3> QED BY <2>1, <2>2, <3>1, <3>2 DEF DescAfter
    <2>4. \A i \in 1 .. W : desc'[head_idx(i)] = ChainAfter(desc[head_idx(i)], Image(i - 1))
      <3> TAKE i \in 1 .. W
      <3>1. head_idx(i) \in Heads
        BY <1>1, <1>2, OnRing
      <3>2. Of(head_idx(i)) = {i}
        BY <1>2 DEF Of, HeadInv, Apart
      <3>3. (CHOOSE j \in Of(head_idx(i)) : TRUE) = i
        BY <3>2
      <3> QED BY <2>1, <3>1, <3>2, <3>3 DEF DescAfter
    <2>5. BuffersTyped'
      BY <2>1 DEF ServeInv, BuffersTyped, DescAfter
    <2>6. DiskAhead'
      <3>1. (/\ Image(0) = disk
             /\ \A i \in 1 .. QNUM : Image(i) = ImageAfter(desc[head_idx(i)], Image(i - 1)))'
        BY ImageSteps, PTL
      <3>2. Image(Outstanding)' = Image(0)'
        BY <2>2 DEF Image
      <3> QED BY <1>2, <2>1, <3>1, <3>2 DEF ServeInv, DiskAhead
    <2>7. Promised'
      BY <2>2 DEF Promised
    <2>8. Kept'
      <3>1. ASSUME NEW n \in 1 .. A + W
            PROVE  /\ ((desc[answer(n)])'.status = "ok") <=> (expect.of[answer(n)])'.ok
                   /\ Contents((desc[answer(n)])') = (expect.of[answer(n)])'.vals
        <4>1. CASE n \in 1 .. A
          BY <1>2, <2>1, <2>2, <2>3, <4>1 DEF ServeInv, Kept
        <4>2. ASSUME NEW i \in 1 .. W, n = A + i
              PROVE  /\ ((desc[answer(n)])'.status = "ok") <=> (expect.of[answer(n)])'.ok
                     /\ Contents((desc[answer(n)])') = (expect.of[answer(n)])'.vals
          <5> DEFINE c == desc[head_idx(i)]
                     d == Image(i - 1)
          <5>1. answer(n)' = head_idx(i)
            BY <2>2, <4>2
          <5>2. (desc[answer(n)])' = ChainAfter(c, d) /\ (expect.of[answer(n)])' = expect.of[head_idx(i)]
            BY <2>1, <2>4, <5>1
          <5>3. c \in Chains /\ expect.of[head_idx(i)] = [ok |-> Served(c, Len(c.data)), vals |-> Read(c, d)]
            BY <1>2 DEF ServeInv, Promised
          <5> HIDE DEF c, d
          <5>4. SegmentsTyped(c) /\ Addressable(c) /\ c.status # "ok"
            BY <5>3, ChainsTyped DEF NoWrap
          <5>5. /\ (ChainAfter(c, d).status = "ok") <=> Served(c, Len(c.data))
                /\ Contents(ChainAfter(c, d)) = Read(c, d)
            BY <5>4, ChainIsRead
          <5>6. (expect.of[answer(n)])'.ok = Served(c, Len(c.data)) /\ (expect.of[answer(n)])'.vals = Read(c, d)
            BY <5>2, <5>3
          <5> QED BY <5>2, <5>5, <5>6
        <4> QED BY <2>2, <4>1, <4>2
      <3> QED BY <2>2, <3>1 DEF Kept, Contents
    <2> QED BY <2>5, <2>6, <2>7, <2>8 DEF ServeInv
  <1> QED BY <1>3, <1>4

\* Every access of the driver and every reaction of the device keeps the promises.
LEMMA ServeStep ==
    ASSUME NoWrap
    PROVE  LineInv /\ HeadInv /\ ServeInv /\ LineInv' /\ HeadInv' /\ [PNext]_pvars => ServeInv'
  <1> SUFFICES ASSUME LineInv, HeadInv, ServeInv, LineInv', HeadInv', [PNext]_pvars PROVE ServeInv'
    OBVIOUS
  <1>0. RingsTyped /\ RingsTyped'
    BY DEF LineInv
  <1>1. ASSUME NEW h \in Heads, NEW c \in Chains, Submit(h, c) PROVE ServeInv'
    BY <1>1, SubmitServed
  <1>2. CASE Notify
    BY <1>2, NotifyServed
  <1>3. CASE Reap
    BY <1>3, ReapServed
  <1>4. CASE TakeDown
    <2>1. avail'.idx = 0 /\ used'.idx = 0 /\ drv'.seen = 0 /\ drv'.up = FALSE
      BY <1>0, <1>4 DEF TakeDown, Clear, EmptyRing, RingsTyped
    <2>2. virtio'.last_avail = 0
      <3>1. CASE virtio_blk_reset_transport_state
        BY <3>1 DEF virtio_blk_reset_transport_state
      <3>2. CASE write_queue_ready(FALSE)
        BY <1>0, <3>2 DEF write_queue_ready, RingsTyped
      <3> QED BY <1>4, <3>1, <3>2 DEF TakeDown
    <2>3. BuffersTyped' /\ expect'.disk = disk'
      BY <1>4 DEF TakeDown, Clear, BuffersTyped
    <2>4. (RingsTyped /\ avail.idx = virtio.last_avail /\ used.idx = drv.seen /\ BuffersTyped
           /\ expect.disk = disk /\ (drv.up => virtio.ready) => ServeInv)'
      BY EmptyServed, PTL
    <2> QED BY <1>0, <2>1, <2>2, <2>3, <2>4
  <1>5. ASSUME disk' = disk, desc' = desc, expect' = expect, drv'.up => virtio'.ready,
               avail' = avail, used' = used, virtio'.last_avail = virtio.last_avail, drv'.seen = drv.seen
        PROVE  ServeInv'
    <2>1. Outstanding' = Outstanding /\ Unseen' = Unseen
      BY <1>5 DEF Outstanding, Unseen
    <2>2. \A n : head_idx(n)' = head_idx(n) /\ answer(n)' = answer(n)
      BY <1>5 DEF head_idx, answer
    <2> QED BY <1>5, <2>1, <2>2, ServedStays
  <1>6. drv.up => virtio.ready
    BY DEF ServeInv, DiskAhead
  <1>7. CASE Claim \/ Ack \/ Reaped \/ Complete
    BY <1>0, <1>5, <1>6, <1>7 DEF Claim, Ack, write_interrupt_ack, Reaped, Complete, RingsTyped
  <1>8. CASE SetUp
    BY <1>0, <1>5, <1>8 DEF SetUp, write_queue_ready, RingsTyped
  <1>9. ASSUME NEW on \in BOOLEAN, Mask(on) PROVE ServeInv'
    BY <1>5, <1>6, <1>9 DEF Mask
  <1>10. CASE UNCHANGED pvars
    BY <1>5, <1>6, <1>10 DEF pvars
  <1> QED BY <1>1, <1>2, <1>3, <1>4, <1>7, <1>8, <1>9, <1>10 DEF PNext, Handled

\* For every set of requests, malformed ones and ones that run out of the image or lie far outside
\* it included, the disk and every answer are those of a disk that serves one request after the
\* other in the order they were submitted, if no byte offset reaches 2^64.  The hypothesis is
\* needed: the code computes sector * 512 and the end of a segment in 64 bits and checks what is
\* left of them (memory_models.h: virtio_process_blk_request, virtio_handle_notify).
THEOREM RequestsServedInOrder == ASSUME NoWrap PROVE PSpec => []ServedInOrder
  <1>1. LineInv /\ HeadInv /\ ServeInv => ServedInOrder
    <2> SUFFICES ASSUME HeadInv, ServeInv PROVE ServedInOrder
      OBVIOUS
    <2>1. \A h \in Ids(Answered) : \E n \in 1 .. Unseen : h = answer(n)
      BY DEF Ids, Answered, Unseen, answer
    <2>2. \A h \in Ids(Answered) :
              /\ (desc[h].status = "ok") <=> expect.of[h].ok
              /\ [i \in 1 .. Len(desc[h].data) |-> desc[h].data[i].val] = expect.of[h].vals
      BY <2>1 DEF ServeInv, Kept, Contents
    <2> QED BY <2>2 DEF ServedInOrder, ServeInv, DiskAhead
  <1>2. PInit => LineInv /\ HeadInv /\ ServeInv
    BY LineInit, HeadInit, ServeInit
  <1>3. LineInv /\ HeadInv /\ ServeInv /\ [PNext]_pvars => LineInv' /\ HeadInv' /\ ServeInv'
    BY LineStep, HeadStep, ServeStep
  <1> QED BY <1>1, <1>2, <1>3, PTL DEF PSpec

-----------------------------------------------------------------------------
(* What is on the disk and in the buffers stays in range: no segment that  *)
(* is moved lies outside the image.                                        *)
\* No first segment ends at 2^64, where what the code does is undefined; any other sector wraps.
Defined(c) == c.sector % SPAN # SPAN - 1
DefinedRequests == \A c \in Chains : Defined(c)
ShortRequests == \A c \in Chains : Len(c.data) <= SECTORS + 1
Segment == [write : BOOLEAN, mapped : BOOLEAN, val : Values]
Data == UNION {[1 .. n -> Segment] : n \in 0 .. SECTORS + 1}
ContentsTyped == /\ disk \in [Sector -> Values] /\ desc \in [Heads -> Chain]
                 /\ \A h \in Heads : Defined(desc[h])

\* A chain in range has segments.
LEMMA ChainSegments ==
    ASSUME NEW c \in Chain
    PROVE  SegmentsTyped(c) /\ Len(c.data) \in 0 .. SECTORS + 1 /\ c.data \in [1 .. Len(c.data) -> Segment]
  <1>1. SECTORS \in Nat
    BY PlatformAssumption
  <1>2. c.data \in Data
    BY DEF Chain, Data, Segment
  <1>3. PICK n \in 0 .. SECTORS + 1 : c.data \in [1 .. n -> Segment]
    BY <1>2 DEF Data
  <1>4. Len(c.data) = n /\ c.data \in Seq(Segment)
    BY <1>1, <1>3
  <1>5. c.sector \in Nat
    BY <1>1 DEF Chain
  <1>6. c = [type |-> c.type, sector |-> c.sector, data |-> c.data, shape |-> c.shape, status |-> c.status]
    BY DEF Chain
  <1> QED BY <1>3, <1>4, <1>5, <1>6 DEF SegmentsTyped, Segment

\* The form of a request and of its answer, for a set of buffers.
Request(D) == [type : {"IN", "OUT", "OTHER"}, sector : Nat, data : D,
               shape : {"ok", "loop", "no_status"}, status : {"none", "ok", "ioerr", "unsupp"}]
\* Every segment that is moved lies in the image, wrapped or not.
LEMMA MovedInside ==
    ASSUME NEW c, SegmentsTyped(c), Defined(c), NEW i \in 1 .. Moved(c) PROVE disk_off(c, i) \in Sector
  <1>1. /\ SECTORS \in Nat /\ SPAN \in Nat \ {0} /\ SPAN >= SECTORS + 2 /\ SPAN - 2 \in 0 .. SPAN - 1
        /\ c.sector \in Nat /\ Moved(c) \in Nat /\ i \in Nat \ {0} /\ c.sector + i - 1 \in Int
    <2>1. SECTORS \in Nat /\ SPAN \in Nat \ {0} /\ SPAN >= SECTORS + 2 /\ SPAN - 2 \in 0 .. SPAN - 1
      BY PlatformAssumption
    <2>2. c.sector \in Nat /\ Len(c.data) \in Nat
      BY DEF SegmentsTyped
    <2>3. Moved(c) \in 0 .. Len(c.data)
      BY MovedIs
    <2> QED BY <2>1, <2>2, <2>3
  <1>2. \A j \in 1 .. Moved(c) : (disk_off(c, j) + 1) % SPAN <= SECTORS
    BY MovedIs DEF SegmentOk
  <1>3. PICK q \in Int, p \in 0 .. SPAN - 1 : p = disk_off(c, i) /\ c.sector + i - 1 = q * SPAN + p
    BY <1>1, ModForm DEF disk_off
  <1>4. CASE p < SPAN - 1
    <2>1. p + 1 \in 0 .. SPAN - 1
      BY <1>1, <1>4
    <2>2. (p + 1) % SPAN = p + 1
      BY <1>1, <2>1, InPeriod
    <2>3. p + 1 <= SECTORS
      BY <1>2, <1>3, <2>2
    <2> QED BY <1>1, <1>3, <2>3 DEF Sector
  <1>5. CASE p = SPAN - 1
    <2>1. i # 1
      BY <1>1, <1>3, <1>5 DEF disk_off, Defined
    <2>2. i - 1 \in 1 .. Moved(c)
      BY <1>1, <2>1
    <2>3. PICK y \in Int : y = c.sector + (i - 1) - 1 /\ y = q * SPAN + (SPAN - 2)
      <3>1. PICK k \in Int : k = q * SPAN
        BY <1>1
      <3> QED BY <1>1, <1>3, <1>5, <3>1
    <2>4. y % SPAN = SPAN - 2
      BY <1>1, <2>3, ModUnique
    <2>5. disk_off(c, i - 1) + 1 = SPAN - 1
      BY <1>1, <2>3, <2>4 DEF disk_off
    <2>6. (SPAN - 1) % SPAN = SPAN - 1
      BY <1>1, <1>5, InPeriod
    <2>7. SPAN - 1 <= SECTORS
      BY <1>2, <2>2, <2>5, <2>6
    <2> QED BY <1>1, <2>7
  <1> QED BY <1>1, <1>4, <1>5

\* A request that is moved keeps the image and its own buffers in range.
LEMMA MovedTyped ==
    ASSUME NEW c \in Chain, Defined(c), NEW d \in [Sector -> Values]
    PROVE  ImageAfter(c, d) \in [Sector -> Values] /\ ChainAfter(c, d) \in Chain /\ Defined(ChainAfter(c, d))
  <1>1. SegmentsTyped(c) /\ Len(c.data) \in 0 .. SECTORS + 1 /\ c.data \in [1 .. Len(c.data) -> Segment]
    BY ChainSegments
  <1>2. SECTORS \in Nat \ {0} /\ c.sector \in Nat /\ Len(c.data) \in Nat
    BY <1>1, PlatformAssumption DEF SegmentsTyped
  <1>3. PICK m \in 0 .. Len(c.data) : m = SegmentsMoved(c) /\ (m = 0 \/ m = Moved(c))
    BY <1>1, <1>2, MovedIs DEF SegmentsMoved
  <1>4. \A i \in 1 .. Len(c.data) : c.data[i] \in Segment /\ c.data[i].val \in Values
    BY <1>1 DEF Segment
  <1>5. ASSUME NEW i \in 1 .. m PROVE disk_off(c, i) \in Sector
    <2>1. m = Moved(c)
      BY <1>3
    <2> QED BY <1>1, <2>1, MovedInside
  <1>6. ImageAfter(c, d) \in [Sector -> Values]
    <2>1. \A n \in 1 .. m : c.data[n].val \in Values
      BY <1>2, <1>4
    <2> QED BY <1>3, <2>1 DEF ImageAfter
  <1> DEFINE D == [i \in 1 .. Len(c.data) |->
                      IF c.type = "IN" /\ i \in 1 .. SegmentsMoved(c)
                      THEN [c.data[i] EXCEPT !.val = d[disk_off(c, i)]] ELSE c.data[i]]
  <1>7. D \in [1 .. Len(c.data) -> Segment]
    <2>1. ASSUME NEW i \in 1 .. Len(c.data), i \in 1 .. m
          PROVE  [c.data[i] EXCEPT !.val = d[disk_off(c, i)]] \in Segment
      <3>1. d[disk_off(c, i)] \in Values
        BY <1>5, <2>1
      <3> QED BY <1>4, <3>1 DEF Segment
    <2> QED BY <1>3, <1>4, <2>1
  <1> HIDE DEF D
  <1>8. D \in Data
    BY <1>1, <1>7 DEF Data
  <1>9. req_status(c) \in {"none", "ok", "ioerr", "unsupp"}
    BY DEF req_status, Chain
  <1>10. ChainAfter(c, d) = [c EXCEPT !.status = req_status(c), !.data = D]
    BY DEF ChainAfter, D
  <1>11. ASSUME NEW e, e = ChainAfter(c, d) PROVE e \in Chain
    <2>1. c \in Request(Data) /\ Chain = Request(Data)
      BY DEF Chain, Data, Segment, Request
    <2>2. [c EXCEPT !.status = req_status(c), !.data = D] \in Request(Data)
      BY <1>8, <1>9, <2>1 DEF Request
    <2> QED BY <1>10, <1>11, <2>1, <2>2
  <1>12. ChainAfter(c, d).sector = c.sector
    BY <1>1 DEF ChainAfter, SegmentsTyped
  <1> QED BY <1>6, <1>11, <1>12 DEF Defined

\* So does every number of requests.
LEMMA ImagesTyped ==
    ASSUME RingsTyped, ContentsTyped PROVE \A n \in 0 .. QNUM : Image(n) \in [Sector -> Values]
  <1> DEFINE S == {n \in Nat : n <= QNUM => Image(n) \in [Sector -> Values]}
  <1>1. QNUM \in Nat
    BY PlatformAssumption
  <1>2. 0 \in S
    BY ImageSteps DEF ContentsTyped
  <1>3. ASSUME NEW n \in Nat, n \in S PROVE n + 1 \in S
    <2>1. CASE n + 1 <= QNUM
      <3>1. n + 1 \in 1 .. QNUM /\ (n + 1) - 1 = n /\ n <= QNUM
        BY <1>1, <2>1
      <3>2. Image(n) \in [Sector -> Values]
        BY <1>3, <3>1
      <3>3. desc[head_idx(n + 1)] \in Chain /\ Defined(desc[head_idx(n + 1)])
        BY OnRing DEF ContentsTyped
      <3>4. Image(n + 1) = ImageAfter(desc[head_idx(n + 1)], Image(n))
        BY ImageSteps, <3>1
      <3>5. Image(n + 1) \in [Sector -> Values]
        BY <3>2, <3>3, <3>4, MovedTyped
      <3> QED BY <3>5
    <2>2. CASE ~(n + 1 <= QNUM)
      BY <2>2
    <2> QED BY <2>1, <2>2
  <1> HIDE DEF S
  <1>4. Nat \subseteq S
    BY <1>2, <1>3, InductionOver
  <1> QED BY <1>1, <1>4 DEF S

LEMMA NotifyData == ASSUME HeadInv, ContentsTyped, Notify PROVE ContentsTyped'
  <1>1. RingsTyped
    BY DEF HeadInv
  <1>2. PICK W \in Nat : W = Outstanding /\ W \in 0 .. QNUM
    BY Windows
  <1>3. \A n \in 0 .. QNUM : Image(n) \in [Sector -> Values]
    BY <1>1, ImagesTyped
  <1>4. CASE ~(virtio.ready /\ Outstanding > 0)
    BY <1>4 DEF Notify, virtio_handle_notify, ContentsTyped
  <1>5. CASE virtio.ready /\ Outstanding > 0
    <2>1. disk' = Image(W) /\ desc' = DescAfter
      BY <1>2, <1>5 DEF Notify, virtio_handle_notify
    <2>2. ASSUME NEW h \in Heads, Of(h) # {}
          PROVE  /\ ChainAfter(desc[h], Image((CHOOSE i \in Of(h) : TRUE) - 1)) \in Chain
                 /\ Defined(ChainAfter(desc[h], Image((CHOOSE i \in Of(h) : TRUE) - 1)))
      <3>1. PICK i \in 1 .. W : i = CHOOSE j \in Of(h) : TRUE
        BY <1>2, <2>2 DEF Of
      <3>2. i - 1 \in 0 .. QNUM
        BY <1>2, PlatformAssumption
      <3> QED BY <1>3, <3>1, <3>2, MovedTyped DEF ContentsTyped
    <2>3. DescAfter \in [Heads -> Chain] /\ \A h \in Heads : Defined(DescAfter[h])
      BY <2>2 DEF DescAfter, ContentsTyped
    <2> QED BY <1>2, <1>3, <2>1, <2>3 DEF ContentsTyped
  <1> QED BY <1>4, <1>5

\* For every image and every set of requests, also those that leave the image, whose offsets wrap,
\* whose buffers are no memory or whose descriptors loop, the device never moves a segment outside
\* the image, and rings, registers and buffers stay in range.  Excluded is only the request whose
\* first segment ends at 2^64: there the 64-bit check passes and the code indexes outside the
\* image.  The other hypothesis bounds the length that PTypeOK bounds
\* (memory_models.h: virtio_process_blk_request, virtio_handle_notify).
THEOREM DevicesTypeCorrect == ASSUME ShortRequests, DefinedRequests PROVE PSpec => []PTypeOK
  <1>1. NoChain \in Chain /\ Defined(NoChain)
    <2>1. SECTORS \in Nat
      BY PlatformAssumption
    <2>2. <<>> \in [1 .. 0 -> Segment] /\ 0 \in 0 .. SECTORS + 1
      BY <2>1
    <2>3. <<>> \in Data
      BY <2>2 DEF Data
    <2>4. NoChain \in Chain
      BY <2>1, <2>3 DEF NoChain, Chain, Data, Segment
    <2>5. SPAN \in Nat \ {0} /\ 0 \in 0 .. SPAN - 1 /\ SPAN - 1 # 0
      BY <2>1, PlatformAssumption
    <2>6. 0 % SPAN = 0
      BY <2>5, InPeriod
    <2> QED BY <2>4, <2>5, <2>6 DEF NoChain, Defined
  <1>2. ASSUME NEW c \in Chains PROVE c \in Chain /\ Defined(c)
    <2>1. c \in [type : {"IN", "OUT", "OTHER"}, sector : Nat, data : Seq(Segment),
                 shape : {"ok", "loop", "no_status"}, status : {"none"}]
      BY PlatformAssumption DEF Segment
    <2>2. c.data \in [1 .. Len(c.data) -> Segment] /\ Len(c.data) \in Nat
      BY <2>1
    <2>3. Len(c.data) \in 0 .. SECTORS + 1
      BY <2>2, PlatformAssumption DEF ShortRequests
    <2>4. c.data \in Data
      BY <2>2, <2>3 DEF Data
    <2> QED BY <2>1, <2>4 DEF Chain, Data, Segment, DefinedRequests
  <1>3. PInit => ContentsTyped
    BY <1>1, PlatformAssumption DEF PInit, ContentsTyped, Sector
  <1>4. LineInv /\ HeadInv /\ ContentsTyped /\ [PNext]_pvars => ContentsTyped'
    <2> SUFFICES ASSUME HeadInv, ContentsTyped, [PNext]_pvars PROVE ContentsTyped'
      OBVIOUS
    <2>1. ASSUME NEW h \in Heads, NEW c \in Chains, Submit(h, c) PROVE ContentsTyped'
      BY <1>2, <2>1 DEF Submit, ContentsTyped
    <2>2. CASE Notify
      BY <2>2, NotifyData
    <2>3. CASE Reap
      BY <1>1, <2>3 DEF Reap, ContentsTyped
    <2>4. CASE TakeDown
      BY <1>1, <2>4 DEF TakeDown, Clear, ContentsTyped
    <2>5. CASE Claim \/ Ack \/ Reaped \/ Complete \/ SetUp \/ UNCHANGED pvars
      BY <2>5 DEF Claim, Ack, Reaped, Complete, SetUp, pvars, ContentsTyped
    <2>6. ASSUME NEW on \in BOOLEAN, Mask(on) PROVE ContentsTyped'
      BY <2>6 DEF Mask, ContentsTyped
    <2> QED BY <2>1, <2>2, <2>3, <2>4, <2>5, <2>6 DEF PNext, Handled
  <1>5. LineInv /\ ContentsTyped => PTypeOK
    BY DEF LineInv, RingsTyped, Ring, ContentsTyped, PTypeOK
  <1> QED BY <1>3, <1>4, <1>5, LineInit, HeadInit, LineStep, HeadStep, PTL DEF PSpec
=============================================================================
