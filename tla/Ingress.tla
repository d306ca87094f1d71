------------------------------- MODULE Ingress -------------------------------
(***************************************************************************)
(* From fetched bundles to renamed instructions: the instruction buffer    *)
(* (vsrc/backend/buffer/ibuffer.sv), which cuts a bundle of halfwords into *)
(* 16- and 32-bit instructions and joins one that lies across two bundles, *)
(* and the pending queue before rename (vsrc/backend/backend.sv), which    *)
(* keeps what a cycle could not dispatch of a bundle.                      *)
(*                                                                         *)
(* An address counts halfwords and a halfword is known by its address, so  *)
(* a misjoined instruction is one with the wrong parts.  The program is a  *)
(* ring of HALVES halfwords.  The predictor knows only addresses at which  *)
(* a jump or branch was committed, and looks only at the first halfword of *)
(* each slot.                                                              *)
(***************************************************************************)
EXTENDS Integers, Sequences

CONSTANTS
    HALVES,         \* halfwords of the program
    Wide,           \* halfwords that begin with the two bits of a 32-bit instruction
    Starts,         \* addresses of instructions
    Jumps,          \* address of a jump or branch -> its target
    FETCH_WIDTH,    \* slots of a bundle, of two halfwords each
    IB_DEPTH,       \* entries of the instruction buffer
    DISPATCH_WIDTH,
    RENAME_PENDING_DEPTH

At(pc, n) == (pc + n) % HALVES
Size(pc) == IF pc \in Wide THEN 2 ELSE 1
Addresses == 0 .. HALVES - 1

\* A bundle of compressed instructions has two for each slot, and must fit into the buffer.
ASSUME IngressAssumption ==
    /\ HALVES \in Nat /\ FETCH_WIDTH \in Nat \ {0} /\ HALVES > 2 * FETCH_WIDTH
    /\ 0 \in Starts /\ Starts \subseteq Addresses /\ Wide \subseteq Addresses
    /\ \A pc \in Starts : At(pc, Size(pc)) \in Starts
    /\ DOMAIN Jumps \subseteq Starts /\ \A pc \in DOMAIN Jumps : Jumps[pc] \in Starts
    /\ IB_DEPTH \in Nat /\ IB_DEPTH >= 2 * FETCH_WIDTH
    /\ DISPATCH_WIDTH \in Nat \ {0} /\ RENAME_PENDING_DEPTH \in Nat
    /\ RENAME_PENDING_DEPTH >= DISPATCH_WIDTH

VARIABLES
    fetch_pc,   \* address of the next bundle of the fetch unit
    carry,      \* <<>>, or the address of the first half of a 32-bit instruction
    fifo,       \* the buffer's entries, oldest first
    pending,    \* rename_pending: decoded and not dispatched
    npc         \* what program order or the last redirect says is dispatched next (history)

ivars == <<fetch_pc, carry, fifo, pending, npc>>

Shorter(m, n) == IF m < n THEN m ELSE n
First(n, s) == SubSeq(s, 1, Shorter(n, Len(s)))
Drop(n, s) == SubSeq(s, n + 1, Len(s))

-----------------------------------------------------------------------------
(* A bundle: the slots up to the one predicted taken, NoSlot if none is.   *)
Slots == 0 .. FETCH_WIDTH - 1
NoSlot == -1
SlotPc(pc, i) == At(pc, 2 * i)
CanPredict(pc, slot) == slot = NoSlot \/ SlotPc(pc, slot) \in DOMAIN Jumps
hw_count(slot) == IF slot = NoSlot THEN 2 * FETCH_WIDTH ELSE 2 * (slot + 1)
next_bundle(pc, slot) ==
    IF slot = NoSlot THEN At(pc, 2 * FETCH_WIDTH) ELSE Jumps[SlotPc(pc, slot)]

\* What the fetch unit says follows the instruction in slot i.
fe_pred_npc(pc, slot, i) ==
    IF i = slot THEN Jumps[SlotPc(pc, i)] ELSE At(SlotPc(pc, i), Size(SlotPc(pc, i)))

-----------------------------------------------------------------------------
(* Cutting a bundle into instructions.                                     *)
Entry(pc, parts, pred) == [pc |-> pc, parts |-> parts, pred_npc |-> pred]

\* The predicted successor counts in the low half of a slot, and unless it looks sequential the
\* rest of the bundle is dropped; +4 looks sequential after a compressed instruction too.
is_low_half(j) == j % 2 = 0
stop_after_this(pc, slot, j) ==
    /\ is_low_half(j)
    /\ LET here == At(pc, j)
           pred == fe_pred_npc(pc, slot, j \div 2)
       IN  pred # At(here, Size(here)) /\ pred # At(here, 2)

EntryAt(pc, slot, j) ==
    LET here == At(pc, j)
        parts == IF here \in Wide THEN <<here, At(here, 1)>> ELSE <<here>>
    IN  Entry(here, parts, IF stop_after_this(pc, slot, j) THEN fe_pred_npc(pc, slot, j \div 2)
                           ELSE At(here, Size(here)))

\* Instructions from halfword j on, and the half that is left over.
Cut(pc, slot) ==
    LET n == hw_count(slot)
        cut[j \in 0 .. n + 1] ==
            IF j >= n THEN [entries |-> <<>>, carry |-> <<>>]
            ELSE IF At(pc, j) \in Wide /\ j = n - 1 THEN [entries |-> <<>>, carry |-> <<At(pc, j)>>]
            ELSE LET rest == IF stop_after_this(pc, slot, j) THEN cut[n] ELSE cut[j + Size(At(pc, j))]
                 IN  [rest EXCEPT !.entries = <<EntryAt(pc, slot, j)>> \o @]
    IN  cut

\* Without a carry and with only 32-bit slots the slots are the instructions.
WholeSlots(pc, slot) == \A j \in 0 .. hw_count(slot) - 1 : is_low_half(j) => At(pc, j) \in Wide
SlotEntries(pc, slot) ==
    [i \in 1 .. hw_count(slot) \div 2 |->
        Entry(SlotPc(pc, i - 1), <<SlotPc(pc, i - 1), At(SlotPc(pc, i - 1), 1)>>,
              fe_pred_npc(pc, slot, i - 1))]

(* Mutant: a carried half is joined with the wrong half of the bundle.   *)
JoinsSecondHalf(pc, slot) ==
    IF carry = <<>> /\ WholeSlots(pc, slot)
    THEN [entries |-> SlotEntries(pc, slot), carry |-> <<>>]
    ELSE IF carry = <<>> THEN Cut(pc, slot)[0]
    ELSE [Cut(pc, slot)[1] EXCEPT
            !.entries = <<Entry(carry[1], <<carry[1], At(pc, 1)>>, At(carry[1], 2))>> \o @]

fe_expand(pc, slot) ==
    IF carry = <<>> /\ WholeSlots(pc, slot)
    THEN [entries |-> SlotEntries(pc, slot), carry |-> <<>>]
    ELSE IF carry = <<>> THEN Cut(pc, slot)[0]
    ELSE [Cut(pc, slot)[1] EXCEPT
            !.entries = <<Entry(carry[1], <<carry[1], pc>>, At(carry[1], 2))>> \o @]

(* Mutant: one free entry is enough for a bundle.                        *)
AnyRoom(pc, slot) == Len(fifo) < IB_DEPTH

fe_ready(pc, slot) == IB_DEPTH - Len(fifo) >= Len(fe_expand(pc, slot).entries)

-----------------------------------------------------------------------------
(* A cycle.  pushed is what enters the buffer, whose oldest entries, the   *)
(* ones that enter now included, go to decode; sel instructions fit into   *)
(* the stations.                                                           *)
Decoded(pushed) == First(DISPATCH_WIDTH, fifo \o pushed)
Source(pushed) == IF pending # <<>> THEN First(DISPATCH_WIDTH, pending) ELSE Decoded(pushed)
Left(sel, ready) == IF ready THEN Drop(sel, pending) ELSE pending
HasRoom(pushed, sel, ready) ==
    Len(Decoded(pushed)) <= RENAME_PENDING_DEPTH - Len(Left(sel, ready))

decode_backend_ready(pushed, sel, ready) ==
    IF pending # <<>> THEN HasRoom(pushed, sel, ready)
    ELSE ready /\ (Decoded(pushed) = <<>> \/ sel # 0)

(* Mutant: what is decoded while older instructions wait is not kept.    *)
KeepsOnlyLeft(pushed, sel, ready) ==
    IF pending # <<>> THEN Left(sel, ready)
    ELSE IF ready /\ sel # 0 THEN Drop(sel, Decoded(pushed)) ELSE <<>>

rename_pending_d(pushed, sel, ready) ==
    IF pending # <<>>
    THEN IF HasRoom(pushed, sel, ready) THEN Left(sel, ready) \o Decoded(pushed) ELSE Left(sel, ready)
    ELSE IF ready /\ sel # 0 THEN Drop(sel, Decoded(pushed)) ELSE <<>>

Advance(pushed, sel, ready) ==
    /\ sel \in 0 .. Len(Source(pushed))
    /\ fifo' = IF decode_backend_ready(pushed, sel, ready)
               THEN Drop(Len(Decoded(pushed)), fifo \o pushed) ELSE fifo \o pushed
    /\ pending' = rename_pending_d(pushed, sel, ready)
    /\ npc' = IF ready /\ sel # 0 THEN Source(pushed)[sel].pred_npc ELSE npc

WithBundle(slot, sel, ready) ==
    /\ CanPredict(fetch_pc, slot) /\ fe_ready(fetch_pc, slot)
    /\ Advance(fe_expand(fetch_pc, slot).entries, sel, ready)
    /\ carry' = fe_expand(fetch_pc, slot).carry
    /\ fetch_pc' = next_bundle(fetch_pc, slot)

WithoutBundle(sel, ready) ==
    /\ Advance(<<>>, sel, ready)
    /\ UNCHANGED <<fetch_pc, carry>>

\* A redirect of the back end.
IFlush(pc) ==
    /\ fifo' = <<>> /\ pending' = <<>> /\ carry' = <<>>
    /\ fetch_pc' = pc /\ npc' = pc

Sels == 0 .. DISPATCH_WIDTH
Fetched(ready) == \E slot \in Slots \cup {NoSlot}, sel \in Sels : WithBundle(slot, sel, ready)
Waited(ready) == \E sel \in Sels : WithoutBundle(sel, ready)

\* Fetch starts at the reset address.
IInit ==
    /\ fetch_pc = 0 /\ npc = 0
    /\ carry = <<>> /\ fifo = <<>> /\ pending = <<>>
INext ==
    \/ \E ready \in BOOLEAN : Fetched(ready) \/ Waited(ready)
    \/ \E pc \in Starts : IFlush(pc)
ISpec == IInit /\ [][INext]_ivars

-----------------------------------------------------------------------------
(* Type correctness; neither queue ever holds more than it has room for.   *)
Entries == [pc : Addresses, parts : {<<a>> : a \in Addresses} \cup (Addresses \X Addresses),
            pred_npc : Addresses]
ITypeOK ==
    /\ fetch_pc \in Addresses /\ npc \in Addresses /\ carry \in {<<>>} \cup {<<a>> : a \in Addresses}
    /\ fifo \in Seq(Entries) /\ Len(fifo) <= IB_DEPTH
    /\ pending \in Seq(Entries) /\ Len(pending) <= RENAME_PENDING_DEPTH

\* What waits for rename is one unbroken path: each instruction stands where the one before it says
\* its successor is, the first where program order has arrived, and the fetch unit goes on right
\* behind the last.  Nothing is lost, repeated or out of order when a bundle is dispatched in
\* parts, cut, joined with the bundle before it or ended by a prediction.
Queue == pending \o fifo
End == IF Queue = <<>> THEN npc ELSE Queue[Len(Queue)].pred_npc
OnePath ==
    /\ \A i \in 1 .. Len(Queue) : Queue[i].pc = IF i = 1 THEN npc ELSE Queue[i - 1].pred_npc
    /\ IF carry = <<>> THEN fetch_pc = End ELSE carry[1] = End /\ fetch_pc = At(End, 1)

\* Every instruction is made of its own halfwords, also when two bundles hold them.
WholeInstructions ==
    \A i \in 1 .. Len(Queue) :
        Queue[i].parts = IF Queue[i].pc \in Wide THEN <<Queue[i].pc, At(Queue[i].pc, 1)>>
                         ELSE <<Queue[i].pc>>
=============================================================================
