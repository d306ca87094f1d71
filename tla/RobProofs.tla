----------------------------- MODULE RobProofs -----------------------------
(***************************************************************************)
(* Proofs about Rob.tla and Operands.tla, for every depth, width, port     *)
(* limit, register set, set of micro-ops, number of source ports and       *)
(* number of epochs.                                                       *)
(***************************************************************************)
EXTENDS Operands, RobInOrder, WellFoundedInduction, SequenceTheorems, TLAPS

----------------------------------------------------------------------------
(* Ring arithmetic.                                                         *)

\* Walking i slots from p lands on a slot whose distance from p is i, and conversely.
LEMMA RingWalk ==
    ASSUME NEW p \in Slots, NEW i \in Slots
    PROVE  /\ Wrap(p + i) \in Slots
           /\ Dist(p, Wrap(p + i)) = i
           /\ Dist(p, i) \in Slots
           /\ Wrap(p + Dist(p, i)) = i
  BY RobAssumption DEF Slots, Wrap, Dist

\* Moving the origin by n shifts every distance by n.
LEMMA RingShift ==
    ASSUME NEW p \in Slots, NEW n \in 0 .. DEPTH, NEW x \in Slots
    PROVE  /\ Wrap(p + n) \in Slots
           /\ Dist(Wrap(p + n), x) = IF Dist(p, x) >= n THEN Dist(p, x) - n
                                     ELSE Dist(p, x) + DEPTH - n
  BY RobAssumption DEF Slots, Wrap, Dist

\* Two walks compose.
LEMMA RingCompose ==
    ASSUME NEW p \in Slots, NEW i \in 0 .. DEPTH, NEW j \in 0 .. DEPTH, i + j <= DEPTH
    PROVE  Wrap(Wrap(p + i) + j) = Wrap(p + i + j)
  BY RobAssumption DEF Slots, Wrap

\* The last element of a non-empty set of offsets.
LEMMA LastIsLast ==
    ASSUME NEW k \in Nat, NEW js \in SUBSET (0 .. k), js # {}
    PROVE  Last(js) \in js /\ \A j \in js : j <= Last(js)
<1> DEFINE T == {k - j : j \in js}
<1>1. T \subseteq Nat /\ T # {}
  <2>1. \A j \in js : k - j \in Nat
    OBVIOUS
  <2>2. PICK j \in js : TRUE
    OBVIOUS
  <2>3. k - j \in T
    BY Zenon
  <2> QED BY <2>1, <2>3
<1>2. \E m \in T : \A y \in T : ~(<<y, m>> \in OpToRel(<, Nat))
  <2> HIDE DEF T
  <2> QED BY <1>1, NatLessThanWellFounded, WFMin
<1>3. PICK m \in T : \A y \in T : ~(y < m)
  BY <1>1, <1>2 DEF OpToRel
<1>4. PICK j0 \in js : m = k - j0
  OBVIOUS
<1>5. \A j \in js : j <= j0
  <2> SUFFICES ASSUME NEW j \in js PROVE j <= j0
    OBVIOUS
  <2>1. ~(k - j < m)
    BY <1>3
  <2> QED BY <2>1, <1>4
<1> QED BY <1>5 DEF Last

----------------------------------------------------------------------------
(* Preliminaries about one cycle.                                           *)

\* A bundle is a sequence of at most DW micro-ops that fits the bound on identities.
LEMMA BundleType ==
    ASSUME TypeOK, NEW D \in Bundles
    PROVE  /\ D \in Seq(Uops)
           /\ Len(D) \in 0 .. DW
           /\ next_id + Len(D) <= MaxId + 1
           /\ \A i \in 0 .. Len(D) - 1 : D[i + 1] \in Uops
<1>1. PICK k \in 0 .. DW : next_id + k <= MaxId + 1 /\ D \in [1 .. k -> Uops]
  BY DEF Bundles
<1>2. k \in Nat
  BY RobAssumption
<1>3. D \in Seq(Uops) /\ Len(D) = k
  BY <1>1, <1>2, LenProperties, SeqDef
<1> QED BY <1>1, <1>2, <1>3

\* What the ring looks like after a cycle that retires n and dispatches l entries.
LEMMA RingStep ==
    ASSUME TypeOK, Window, NEW n \in 0 .. count, NEW l \in Nat, count + l <= DEPTH,
           head_ptr' = Wrap(head_ptr + n),
           tail_ptr' = Wrap(tail_ptr + l),
           count' = count + l - n
    PROVE  /\ head_ptr' \in Slots /\ tail_ptr' \in Slots /\ count' \in 0 .. DEPTH
           /\ tail_ptr' = Wrap(head_ptr' + count')
           /\ \A x \in Slots : /\ Dist(head_ptr, x) \in Slots
                               /\ Live(x)' <=> n <= Dist(head_ptr, x) /\ Dist(head_ptr, x) < count + l
                               /\ Dist(tail_ptr, x) \in Slots
                               /\ Dist(tail_ptr, x) < l
                                     => /\ Dist(head_ptr, x) = count + Dist(tail_ptr, x)
                                        /\ ~Live(x)
                               /\ Dist(head_ptr, x) >= count /\ Dist(head_ptr, x) < count + l
                                     => Dist(tail_ptr, x) = Dist(head_ptr, x) - count
           /\ \A i \in 0 .. count' - 1 : Slot(i)' = Slot(n + i)
<1>1. DEPTH \in Nat /\ 1 <= DEPTH
  BY RobAssumption
<1>2. /\ head_ptr \in Slots /\ tail_ptr \in Slots /\ count \in 0 .. DEPTH
      /\ tail_ptr = Wrap(head_ptr + count)
  BY DEF TypeOK, Window
<1>3. head_ptr' \in Slots /\ tail_ptr' \in Slots /\ count' \in 0 .. DEPTH
  BY <1>1, <1>2 DEF Slots, Wrap
<1>4. tail_ptr' = Wrap(head_ptr' + count')
  BY <1>1, <1>2 DEF Slots, Wrap
<1>5. ASSUME NEW x \in Slots
      PROVE  /\ Dist(head_ptr, x) \in Slots
             /\ Dist(tail_ptr, x) \in Slots
             /\ Dist(head_ptr', x) = IF Dist(head_ptr, x) >= n THEN Dist(head_ptr, x) - n
                                     ELSE Dist(head_ptr, x) + DEPTH - n
             /\ Dist(tail_ptr, x) = IF Dist(head_ptr, x) >= count THEN Dist(head_ptr, x) - count
                                    ELSE Dist(head_ptr, x) + DEPTH - count
  <2>1. n \in 0 .. DEPTH
    BY <1>1, <1>2
  <2> QED BY <1>2, <2>1, RingWalk, RingShift
<1>6. ASSUME NEW x \in Slots
      PROVE  /\ Dist(head_ptr, x) \in Slots
             /\ Live(x)' <=> n <= Dist(head_ptr, x) /\ Dist(head_ptr, x) < count + l
             /\ Dist(tail_ptr, x) \in Slots
             /\ Dist(tail_ptr, x) < l => /\ Dist(head_ptr, x) = count + Dist(tail_ptr, x)
                                         /\ ~Live(x)
             /\ Dist(head_ptr, x) >= count /\ Dist(head_ptr, x) < count + l
                   => Dist(tail_ptr, x) = Dist(head_ptr, x) - count
  BY <1>1, <1>2, <1>5, <1>6 DEF Live, Slots
<1>7. \A i \in 0 .. count' - 1 : Slot(i)' = Slot(n + i)
  BY <1>1, <1>2 DEF Slot, Slots, Wrap
<1> QED BY <1>3, <1>4, <1>6, <1>7

\* The commit loop never retires more than the buffer holds, and each retired entry is done.
LEMMA CommitBound ==
    ASSUME TypeOK, NEW S, NEW out, NEW n \in 0 .. CW, IsCommitCount(n, S, out)
    PROVE  /\ n \in 0 .. count
           /\ \A i \in 0 .. n - 1 : /\ rob_ram[Slot(i)].complete \/ head_fast(Slot(i), S, out)
                                    /\ ~rob_ram[Slot(i)].exception
<1>1. \A i \in 0 .. n - 1 : Retirable(i, S, out)
  BY DEF IsCommitCount
<1>2. \A i \in 0 .. n - 1 : i < count
  BY <1>1 DEF Retirable, Finished
<1>3. n \in 0 .. count
  <2>1. n = 0 \/ n - 1 \in 0 .. n - 1
    BY RobAssumption
  <2>2. n = 0 \/ n - 1 < count
    BY <1>2, <2>1
  <2> QED BY <2>2, RobAssumption DEF TypeOK
<1> QED BY <1>1, <1>3 DEF Retirable, Finished

\* A dispatched bundle fits behind the live entries, whatever retires in the same cycle.
LEMMA DispatchFits ==
    ASSUME TypeOK, NEW D \in Bundles, D # <<>> => rob_ready
    PROVE  Len(D) \in Nat /\ count + Len(D) <= DEPTH
<1>1. D \in Seq(Uops) /\ Len(D) \in 0 .. DW
  BY BundleType
<1>2. CASE D = <<>>
  <2>1. Len(D) = 0
    BY <1>2
  <2> QED BY <2>1 DEF TypeOK
<1>3. CASE D # <<>>
  BY <1>1, <1>3, RobAssumption DEF rob_ready, TypeOK
<1> QED BY <1>2, <1>3

\* Only live, unfinished entries write back.
LEMMA WriteBackLive ==
    ASSUME ExecutedOnce, NEW S \in WriteBacks
    PROVE  \A x \in S : /\ x \in Slots /\ rs[x].busy /\ Live(x) /\ ~rob_ram[x].complete
                        /\ rs[x].id = rob_ram[x].id
  BY DEF ExecutedOnce, WriteBacks, MayWriteBack

\* The value a retiring entry writes is its own result.
LEMMA CommitDataOwn ==
    ASSUME RobInv, NEW S \in WriteBacks, NEW out, NEW n \in 0 .. CW, IsCommitCount(n, S, out),
           NEW i \in 0 .. n - 1
    PROVE  /\ Slot(i) \in Slots
           /\ commit_data(Slot(i), S, out) = rob_ram[Slot(i)].id
           /\ rob_ram[Slot(i)].id \in Ids
<1>1. TypeOK /\ ExecutedOnce
  BY DEF RobInv
<1>2. n \in 0 .. count /\ (rob_ram[Slot(i)].complete \/ head_fast(Slot(i), S, out))
  BY <1>1, CommitBound
<1>3. i \in Slots /\ i < count
  BY <1>1, <1>2, RobAssumption DEF TypeOK, Slots
<1>4. Slot(i) \in Slots /\ Dist(head_ptr, Slot(i)) = i
  BY <1>1, <1>3, RingWalk DEF TypeOK, Slot
<1>5. Live(Slot(i))
  BY <1>3, <1>4 DEF Live
<1>6. CASE head_fast(Slot(i), S, out)
  BY <1>1, <1>4, <1>6, WriteBackLive DEF commit_data, head_fast, TypeOK, Entry
<1>7. CASE ~head_fast(Slot(i), S, out)
  BY <1>1, <1>2, <1>4, <1>5, <1>7 DEF commit_data, ExecutedOnce, TypeOK, Entry
<1> QED BY <1>4, <1>6, <1>7

\* What the register file holds after a commit.
LEMMA RegsStep ==
    ASSUME RobInv, NEW S \in WriteBacks, NEW out, NEW n \in 0 .. CW, IsCommitCount(n, S, out),
           NEW r \in Regs
    PROVE  \/ CommitWriters(r, n) = {} /\ RegsAfter(n, S, out)[r] = regs[r]
           \/ \E i \in 0 .. n - 1 : /\ RegsAfter(n, S, out)[r] = rob_ram[Slot(i)].id
                                    /\ rob_ram[Slot(i)].id \in Ids
                                    /\ WriterAt(i, r)
                                    /\ \A j \in i + 1 .. n - 1 : ~WriterAt(j, r)
<1> DEFINE js == CommitWriters(r, n)
<1>1. CASE js = {}
  BY <1>1 DEF RegsAfter
<1>2. CASE js # {}
  <2>1. js \in SUBSET (0 .. n)
    BY DEF CommitWriters
  <2>2. n \in Nat
    BY RobAssumption
  <2>3. Last(js) \in js /\ \A j \in js : j <= Last(js)
    BY <1>2, <2>1, <2>2, LastIsLast
  <2>4. PICK i \in 0 .. n - 1 : i = Last(js)
    BY <2>3 DEF CommitWriters
  <2>5. WriterAt(i, r)
    BY <2>3, <2>4 DEF CommitWriters, WriterAt
  <2>6. \A j \in i + 1 .. n - 1 : ~WriterAt(j, r)
    BY <2>2, <2>3, <2>4 DEF CommitWriters, WriterAt
  <2>7. RegsAfter(n, S, out)[r] = commit_data(Slot(i), S, out)
    BY <1>2, <2>4 DEF RegsAfter
  <2> QED BY <2>5, <2>6, <2>7, CommitDataOwn
<1> QED BY <1>1, <1>2

----------------------------------------------------------------------------
(* The three fates of an entry in a cycle that dispatches D and writes S back. *)

Dispatched(x, D) ==
    LET i == Dist(tail_ptr, x)
    IN  /\ i \in 0 .. Len(D) - 1
        /\ ~Live(x) /\ Live(x)'
        /\ Dist(head_ptr, x) = count + i
        /\ rob_ram'[x] = Fresh(D[i + 1], next_id + i, rob_ram[x])
        /\ rs'[x] = [busy |-> TRUE, id |-> next_id + i]

Retiring(x, n) ==
    /\ Dist(head_ptr, x) \in 0 .. n - 1
    /\ Live(x) /\ ~Live(x)'
    /\ rob_ram'[x].valid = FALSE
    /\ rob_ram'[x] \in Entry
    /\ ~rs'[x].busy
    /\ rs'[x] \in [busy : BOOLEAN, id : Ids]

Staying(x, n, S, out) ==
    /\ Dist(head_ptr, x) \notin 0 .. n - 1
    /\ Live(x) <=> Live(x)'
    /\ rob_ram'[x] = IF x \in S THEN WrittenBack(rob_ram[x], rs[x].id, out[x]) ELSE rob_ram[x]
    /\ rs'[x] = IF x \in S THEN Idle ELSE rs[x]

\* What a cycle without a redirect leaves in each entry and station (RobAfter, RsAfter).
LEMMA AdvanceEntries ==
    ASSUME RobInv, NEW S \in WriteBacks, NEW out \in ReportsOf(S), NEW n \in 0 .. CW,
           IsCommitCount(n, S, out), NEW D \in Bundles, Advance(n, D, S, out)
    PROVE  \A x \in Slots : Dispatched(x, D) \/ Retiring(x, n) \/ Staying(x, n, S, out)
<1> SUFFICES ASSUME NEW x \in Slots
             PROVE  Dispatched(x, D) \/ Retiring(x, n) \/ Staying(x, n, S, out)
  OBVIOUS
<1>1. TypeOK /\ Window /\ ExecutedOnce
  BY DEF RobInv
<1>2. n \in 0 .. count /\ Len(D) \in Nat /\ count + Len(D) <= DEPTH
  BY <1>1, CommitBound, DispatchFits DEF Advance
<1>3. /\ Dist(head_ptr, x) \in Slots
      /\ Live(x)' <=> n <= Dist(head_ptr, x) /\ Dist(head_ptr, x) < count + Len(D)
      /\ Dist(tail_ptr, x) \in Slots
      /\ Dist(tail_ptr, x) < Len(D) => /\ Dist(head_ptr, x) = count + Dist(tail_ptr, x)
                                       /\ ~Live(x)
      /\ Dist(head_ptr, x) >= count /\ Dist(head_ptr, x) < count + Len(D)
            => Dist(tail_ptr, x) = Dist(head_ptr, x) - count
  BY <1>1, <1>2, RingStep DEF Advance
<1> DEFINE i == Dist(tail_ptr, x)
           h == Dist(head_ptr, x)
<1>4. Live(x) <=> h < count
  BY DEF Live
<1>5. x \in S => Live(x) /\ rs[x].busy /\ ~rob_ram[x].complete
  BY <1>1, WriteBackLive
<1>6. rob_ram[x] \in Entry /\ rs[x] \in [busy : BOOLEAN, id : Ids]
  BY <1>1 DEF TypeOK
<1>7. rob_ram' = RobAfter(n, D, S, out) /\ rs' = RsAfter(D, S)
  BY DEF Advance
<1>8. h \in Nat /\ i \in Nat /\ count \in Nat /\ n \in Nat
  BY <1>1, <1>2, <1>3, RobAssumption DEF TypeOK, Slots
<1>9. CASE i < Len(D)
  <2>1. x \notin S /\ ~(h < n)
    BY <1>2, <1>3, <1>4, <1>5, <1>8, <1>9
  <2>2. rob_ram'[x] = Fresh(D[i + 1], next_id + i, rob_ram[x])
    BY <1>7, <1>9, <2>1 DEF RobAfter, Retire
  <2>3. rs'[x] = [busy |-> TRUE, id |-> next_id + i]
    BY <1>7, <1>9 DEF RsAfter
  <2>4. Dispatched(x, D)
    BY <1>2, <1>3, <1>8, <1>9, <2>2, <2>3 DEF Dispatched
  <2> QED BY <2>4
<1>10. CASE ~(i < Len(D)) /\ h < n
  <2>1. Live(x) /\ ~Live(x)'
    BY <1>2, <1>3, <1>4, <1>8, <1>10
  <2>2. rs'[x] = IF x \in S THEN Idle ELSE rs[x]
    BY <1>7, <1>10 DEF RsAfter
  <2>3. rob_ram'[x] = [(IF x \in S THEN WrittenBack(rob_ram[x], rs[x].id, out[x])
                        ELSE rob_ram[x]) EXCEPT !.valid = FALSE]
    BY <1>7, <1>10 DEF RobAfter, Retire
  <2>4. rob_ram'[x].valid = FALSE /\ rob_ram'[x] \in Entry
    <3>1. CASE x \in S
      BY <1>6, <2>3, <3>1 DEF WrittenBack, Entry
    <3>2. CASE x \notin S
      BY <1>6, <2>3, <3>2 DEF Entry
    <3> QED BY <3>1, <3>2
  <2>5. Slot(h) = x
    BY <1>1, <1>3, RingWalk DEF TypeOK, Slot
  <2>6. rob_ram[x].complete \/ x \in S
    BY <1>1, <1>8, <1>10, <2>5, CommitBound DEF head_fast
  <2>7. x \notin S => ~rs[x].busy
    BY <1>1, <2>6 DEF ExecutedOnce
  <2>8. ~rs'[x].busy /\ rs'[x] \in [busy : BOOLEAN, id : Ids]
    BY <1>6, <2>2, <2>7, RobAssumption DEF Idle, Ids
  <2>9. Retiring(x, n)
    BY <1>8, <1>10, <2>1, <2>4, <2>8 DEF Retiring
  <2> QED BY <2>9
<1>11. CASE ~(i < Len(D)) /\ ~(h < n)
  <2>1. Live(x) <=> Live(x)'
    BY <1>2, <1>3, <1>4, <1>8, <1>11
  <2>2. rs'[x] = IF x \in S THEN Idle ELSE rs[x]
    BY <1>7, <1>11 DEF RsAfter
  <2>3. rob_ram'[x] = IF x \in S THEN WrittenBack(rob_ram[x], rs[x].id, out[x])
                      ELSE rob_ram[x]
    BY <1>7, <1>11 DEF RobAfter, Retire
  <2>4. Staying(x, n, S, out)
    BY <1>8, <1>11, <2>1, <2>2, <2>3 DEF Staying
  <2> QED BY <2>4
<1> QED BY <1>9, <1>10, <1>11

----------------------------------------------------------------------------
(* A cycle without a flush preserves each part of the invariant.            *)

\* A cycle without a redirect keeps the types; rob_ready is what keeps count within the ring.
LEMMA AdvanceType ==
    ASSUME RobInv, NEW S \in WriteBacks, NEW out \in ReportsOf(S), NEW n \in 0 .. CW,
           IsCommitCount(n, S, out), NEW D \in Bundles, Advance(n, D, S, out)
    PROVE  TypeOK'
<1>1. TypeOK /\ Window
  BY DEF RobInv
<1>2. n \in 0 .. count /\ Len(D) \in Nat /\ count + Len(D) <= DEPTH
  BY <1>1, CommitBound, DispatchFits DEF Advance
<1>3. /\ D \in Seq(Uops) /\ next_id + Len(D) <= MaxId + 1
      /\ \A i \in 0 .. Len(D) - 1 : D[i + 1] \in Uops
  BY <1>1, BundleType
<1>4. head_ptr' \in Slots /\ tail_ptr' \in Slots /\ count' \in 0 .. DEPTH
  BY <1>1, <1>2, RingStep DEF Advance
<1>5. next_id' \in 1 .. MaxId + 1
  BY <1>1, <1>2, <1>3, RobAssumption DEF Advance, TypeOK
<1>6. \A x \in Slots : rob_ram'[x] \in Entry /\ rs'[x] \in [busy : BOOLEAN, id : Ids]
  <2> SUFFICES ASSUME NEW x \in Slots
               PROVE  rob_ram'[x] \in Entry /\ rs'[x] \in [busy : BOOLEAN, id : Ids]
    OBVIOUS
  <2>1. rob_ram[x] \in Entry /\ rs[x] \in [busy : BOOLEAN, id : Ids]
    BY <1>1 DEF TypeOK
  <2>2. CASE Dispatched(x, D)
    <3> DEFINE i == Dist(tail_ptr, x)
    <3>1. i \in 0 .. Len(D) - 1 /\ D[i + 1] \in Uops
      BY <1>3, <2>2 DEF Dispatched
    <3>2. next_id + i \in Ids
      <4>1. next_id \in 1 .. MaxId + 1
        BY <1>1 DEF TypeOK
      <4>2. MaxId \in Nat
        BY RobAssumption
      <4>3. next_id + Len(D) <= MaxId + 1 /\ Len(D) \in Nat
        BY <1>2, <1>3
      <4>4. i \in 0 .. Len(D) - 1
        BY <3>1
      <4> HIDE DEF i
      <4> QED BY <4>1, <4>2, <4>3, <4>4 DEF Ids
    <3>3. Fresh(D[i + 1], next_id + i, rob_ram[x]) \in Entry
      BY <2>1, <3>1, <3>2 DEF Fresh, Entry
    <3> QED BY <2>2, <3>2, <3>3 DEF Dispatched
  <2>3. CASE Retiring(x, n)
    BY <2>3 DEF Retiring
  <2>4. CASE Staying(x, n, S, out)
    <3>1. WrittenBack(rob_ram[x], rs[x].id, out[x]) \in Entry
      BY <2>1 DEF WrittenBack, Entry
    <3> QED BY <2>1, <2>4, <3>1, RobAssumption DEF Staying, Idle, Ids
  <2> QED BY <2>2, <2>3, <2>4, AdvanceEntries
<1>7. rob_ram' \in [Slots -> Entry] /\ rs' \in [Slots -> [busy : BOOLEAN, id : Ids]]
  <2>1. rob_ram' = [x \in Slots |-> rob_ram'[x]] /\ rs' = [x \in Slots |-> rs'[x]]
    BY DEF Advance, RobAfter, RsAfter
  <2> QED BY <1>6, <2>1
<1>8. regs' \in [Regs -> Ids]
  <2>1. regs' = [r \in Regs |-> regs'[r]] /\ regs' = RegsAfter(n, S, out)
    BY DEF Advance, RegsAfter
  <2>2. \A r \in Regs : regs'[r] \in Ids
    BY <1>1, <2>1, RegsStep DEF TypeOK
  <2> QED BY <2>1, <2>2
<1>9. map_table' \in [Regs -> [in_rob : BOOLEAN, tag : Slots]]
  <2>1. map_table' = RatAfter(n, D)
    BY DEF Advance
  <2>2. \A r \in Regs : DispWriters(r, D) # {} => NewTag(Last(DispWriters(r, D))) \in Slots
    <3> SUFFICES ASSUME NEW r \in Regs, DispWriters(r, D) # {}
                 PROVE  NewTag(Last(DispWriters(r, D))) \in Slots
      OBVIOUS
    <3>1. DispWriters(r, D) \in SUBSET (0 .. Len(D))
      BY DEF DispWriters
    <3>2. Last(DispWriters(r, D)) \in DispWriters(r, D)
      BY <1>2, <3>1, LastIsLast
    <3>3. Last(DispWriters(r, D)) \in 0 .. DEPTH
      BY <1>1, <1>2, <3>2, RobAssumption DEF DispWriters, TypeOK
    <3> QED BY <1>1, <3>3, RingShift DEF NewTag, TypeOK
  <2>3. \A r \in Regs : map_table[r] \in [in_rob : BOOLEAN, tag : Slots]
    BY <1>1 DEF TypeOK
  <2>4. \A r \in Regs : RatAfter(n, D)[r] \in [in_rob : BOOLEAN, tag : Slots]
    BY <2>2, <2>3 DEF RatAfter
  <2>5. RatAfter(n, D) = [r \in Regs |-> RatAfter(n, D)[r]]
    BY DEF RatAfter
  <2> QED BY <2>1, <2>4, <2>5
<1>10. pend' \in [valid : BOOLEAN, id : Ids]
  <2>1. sync_exception_valid(n, S, out) => Slot(n) \in Slots
    <3> SUFFICES ASSUME sync_exception_valid(n, S, out) PROVE Slot(n) \in Slots
      OBVIOUS
    <3>1. n \in 0 .. DEPTH
      BY RobAssumption
    <3> QED BY <1>1, <3>1, RingShift DEF TypeOK, Slot
  <2> QED BY <1>1, <2>1 DEF Advance, TypeOK, Entry
<1> QED BY <1>4, <1>5, <1>7, <1>8, <1>9, <1>10 DEF TypeOK

\* It keeps the valid entries between head and tail: dispatch sets, commit clears.
LEMMA AdvanceWindow ==
    ASSUME RobInv, NEW S \in WriteBacks, NEW out \in ReportsOf(S), NEW n \in 0 .. CW,
           IsCommitCount(n, S, out), NEW D \in Bundles, Advance(n, D, S, out)
    PROVE  Window'
<1>1. TypeOK /\ Window
  BY DEF RobInv
<1>2. n \in 0 .. count /\ Len(D) \in Nat /\ count + Len(D) <= DEPTH
  BY <1>1, CommitBound, DispatchFits DEF Advance
<1>3. tail_ptr' = Wrap(head_ptr' + count')
  BY <1>1, <1>2, RingStep DEF Advance
<1>4. \A x \in Slots : rob_ram'[x].valid <=> Live(x)'
  <2> SUFFICES ASSUME NEW x \in Slots PROVE rob_ram'[x].valid <=> Live(x)'
    OBVIOUS
  <2>1. rob_ram[x] \in Entry /\ (rob_ram[x].valid <=> Live(x))
    BY <1>1 DEF TypeOK, Window
  <2>2. CASE Dispatched(x, D)
    BY <2>1, <2>2 DEF Dispatched, Fresh, Entry
  <2>3. CASE Retiring(x, n)
    BY <2>3 DEF Retiring
  <2>4. CASE Staying(x, n, S, out)
    BY <2>1, <2>4 DEF Staying, WrittenBack, Entry
  <2> QED BY <2>2, <2>3, <2>4, AdvanceEntries
<1> QED BY <1>3, <1>4 DEF Window

\* It keeps stations and incomplete entries in step, whichever tags write back.
LEMMA AdvanceExecuted ==
    ASSUME RobInv, NEW S \in WriteBacks, NEW out \in ReportsOf(S), NEW n \in 0 .. CW,
           IsCommitCount(n, S, out), NEW D \in Bundles, Advance(n, D, S, out)
    PROVE  ExecutedOnce' /\ CleanUntilDone'
<1>1. TypeOK /\ ExecutedOnce /\ CleanUntilDone
  BY DEF RobInv
<1> SUFFICES ASSUME NEW x \in Slots
             PROVE  /\ rs'[x].busy <=> Live(x)' /\ ~rob_ram'[x].complete
                    /\ rs'[x].busy => rs'[x].id = rob_ram'[x].id
                    /\ Live(x)' /\ rob_ram'[x].complete => rob_ram'[x].data = rob_ram'[x].id
                    /\ rs'[x].busy => ~rob_ram'[x].exception /\ ~rob_ram'[x].is_mispred
  BY DEF ExecutedOnce, CleanUntilDone
<1>2. rob_ram[x] \in Entry /\ rs[x] \in [busy : BOOLEAN, id : Ids]
  BY <1>1 DEF TypeOK
<1>3. CASE Dispatched(x, D)
  BY <1>2, <1>3 DEF Dispatched, Fresh, Entry
<1>4. CASE Retiring(x, n)
  BY <1>4 DEF Retiring
<1>5. CASE Staying(x, n, S, out)
  <2>1. CASE x \in S
    BY <1>1, <1>2, <1>5, <2>1, WriteBackLive DEF Staying, WrittenBack, Entry, Idle
  <2>2. CASE x \notin S
    BY <1>1, <1>5, <2>2 DEF Staying, ExecutedOnce, CleanUntilDone
  <2> QED BY <2>1, <2>2
<1> QED BY <1>3, <1>4, <1>5, AdvanceEntries

\* The k-th live entry after the cycle is the (n+k)-th before it, or comes from the bundle.
LEMMA AdvanceSlot ==
    ASSUME RobInv, NEW S \in WriteBacks, NEW out \in ReportsOf(S), NEW n \in 0 .. CW,
           IsCommitCount(n, S, out), NEW D \in Bundles, Advance(n, D, S, out)
    PROVE  /\ n \in 0 .. count /\ count \in Nat /\ Len(D) \in Nat /\ count + Len(D) <= DEPTH
           /\ count' = count + Len(D) - n
           /\ \A k \in 0 .. count' - 1 :
                /\ Slot(k)' = Slot(n + k)
                /\ Slot(n + k) \in Slots
                /\ n + k < count => /\ rob_ram'[Slot(n + k)].uop = rob_ram[Slot(n + k)].uop
                                    /\ rob_ram'[Slot(n + k)].id = rob_ram[Slot(n + k)].id
                /\ n + k >= count =>
                        /\ rob_ram'[Slot(n + k)].uop = D[n + k - count + 1]
                        /\ rob_ram'[Slot(n + k)].id = next_id + (n + k - count)
<1>1. TypeOK /\ Window
  BY DEF RobInv
<1>2. /\ n \in 0 .. count /\ Len(D) \in Nat /\ count + Len(D) <= DEPTH /\ count \in Nat
      /\ count' = count + Len(D) - n
  BY <1>1, CommitBound, DispatchFits DEF Advance, TypeOK
<1>3. \A k \in 0 .. count' - 1 : Slot(k)' = Slot(n + k)
  BY <1>1, <1>2, RingStep DEF Advance
<1>4. ASSUME NEW k \in 0 .. count' - 1
      PROVE  /\ Slot(n + k) \in Slots
             /\ n + k < count => /\ rob_ram'[Slot(n + k)].uop = rob_ram[Slot(n + k)].uop
                                 /\ rob_ram'[Slot(n + k)].id = rob_ram[Slot(n + k)].id
             /\ n + k >= count =>
                        /\ rob_ram'[Slot(n + k)].uop = D[n + k - count + 1]
                        /\ rob_ram'[Slot(n + k)].id = next_id + (n + k - count)
  <2>1. n + k \in Slots
    BY <1>2, RobAssumption DEF Slots
  <2>0. Slot(n + k) \in Slots /\ Dist(head_ptr, Slot(n + k)) = n + k
    BY <1>1, <2>1, RingWalk DEF TypeOK, Slot
  <2>2. PICK y \in Slots : y = Slot(n + k) /\ Dist(head_ptr, y) = n + k
    BY <2>0
  <2>3. Live(y) <=> n + k < count
    BY <2>2 DEF Live
  <2>4. rob_ram[y] \in Entry
    BY <1>1, <2>2 DEF TypeOK
  <2>5. n + k >= count => Dist(tail_ptr, y) = n + k - count
    <3>1. Dist(head_ptr, y) >= count /\ Dist(head_ptr, y) < count + Len(D)
             => Dist(tail_ptr, y) = Dist(head_ptr, y) - count
      BY <1>1, <1>2, RingStep DEF Advance
    <3> QED BY <1>2, <2>2, <3>1
  <2>6. ~Retiring(y, n)
    BY <1>2, <2>2 DEF Retiring
  <2>7. CASE Dispatched(y, D)
    <3>1. n + k >= count
      BY <1>2, <2>3, <2>7 DEF Dispatched
    <3>2. Dist(tail_ptr, y) = n + k - count
      BY <2>5, <3>1
    <3>3. rob_ram'[y] = Fresh(D[n + k - count + 1], next_id + (n + k - count), rob_ram[y])
      BY <2>7, <3>2 DEF Dispatched
    <3>4. /\ rob_ram'[y].uop = D[n + k - count + 1]
          /\ rob_ram'[y].id = next_id + (n + k - count)
      BY <2>4, <3>3 DEF Fresh, Entry
    <3> QED BY <1>2, <2>2, <3>1, <3>4
  <2>8. CASE Staying(y, n, S, out)
    <3>1. rob_ram'[y].uop = rob_ram[y].uop /\ rob_ram'[y].id = rob_ram[y].id
      BY <2>4, <2>8 DEF Staying, WrittenBack, Entry
    <3>2. Live(y)'
      <4>1. Live(y)' <=> n <= Dist(head_ptr, y) /\ Dist(head_ptr, y) < count + Len(D)
        BY <1>1, <1>2, RingStep DEF Advance
      <4> QED BY <1>2, <2>2, <4>1
    <3>3. n + k < count
      BY <2>3, <2>8, <3>2 DEF Staying
    <3> QED BY <1>2, <2>2, <3>1, <3>3
  <2> QED BY <2>2, <2>6, <2>7, <2>8, AdvanceEntries
<1> QED BY <1>2, <1>3, <1>4

\* It keeps identities increasing from head to tail.
LEMMA AdvanceOrder ==
    ASSUME RobInv, NEW S \in WriteBacks, NEW out \in ReportsOf(S), NEW n \in 0 .. CW,
           IsCommitCount(n, S, out), NEW D \in Bundles, Advance(n, D, S, out)
    PROVE  ProgramOrder'
<1>1. TypeOK /\ ProgramOrder /\ RegsCommitted
  BY DEF RobInv
<1>2. next_id \in Nat /\ next_id' = next_id + Len(D)
  BY <1>1, RobAssumption DEF TypeOK, Advance
<1>3. \A k \in 0 .. count' - 1 : n + k < count => n + k \in 0 .. count - 1
  BY AdvanceSlot
<1>4. \A i \in 0 .. count' - 1 :
        rob_ram'[Slot(i)'].id = IF n + i < count THEN rob_ram[Slot(n + i)].id
                                ELSE next_id + (n + i - count)
  BY AdvanceSlot
<1>5. \A i \in 0 .. count - 1 : rob_ram[Slot(i)].id \in Nat
  <2> SUFFICES ASSUME NEW i \in 0 .. count - 1 PROVE rob_ram[Slot(i)].id \in Nat
    OBVIOUS
  <2>1. i \in Slots
    BY <1>1, RobAssumption DEF TypeOK, Slots
  <2>2. Slot(i) \in Slots
    BY <1>1, <2>1, RingWalk DEF TypeOK, Slot
  <2> QED BY <1>1, <2>2, RobAssumption DEF TypeOK, Entry, Ids
<1>6. /\ count \in Nat /\ n \in 0 .. count /\ Len(D) \in Nat /\ count' = count + Len(D) - n
  BY AdvanceSlot
<1>7. \A i, j \in 0 .. count' - 1 : i < j => rob_ram'[Slot(i)'].id < rob_ram'[Slot(j)'].id
  <2> SUFFICES ASSUME NEW i \in 0 .. count' - 1, NEW j \in 0 .. count' - 1, i < j
               PROVE  rob_ram'[Slot(i)'].id < rob_ram'[Slot(j)'].id
    OBVIOUS
  <2>1. CASE n + j < count
    BY <1>1, <1>3, <1>4, <1>6, <2>1 DEF ProgramOrder
  <2>2. CASE n + i < count /\ n + j >= count
    <3>1. rob_ram[Slot(n + i)].id < next_id /\ rob_ram[Slot(n + i)].id \in Nat
      BY <1>1, <1>3, <1>5, <2>2 DEF ProgramOrder
    <3>2. /\ rob_ram'[Slot(i)'].id = rob_ram[Slot(n + i)].id
          /\ rob_ram'[Slot(j)'].id = next_id + (n + j - count)
      BY <1>4, <1>6, <2>2
    <3>3. next_id \in Nat /\ count \in Nat /\ n \in Nat /\ j \in Nat
      BY <1>2, <1>6
    <3>4. rob_ram[Slot(n + i)].id < next_id + (n + j - count)
      BY <2>2, <3>1, <3>3
    <3> QED BY <3>2, <3>4
  <2>3. CASE n + i >= count
    <3>1. n \in Nat /\ i \in Nat /\ j \in Nat /\ ~(n + i < count) /\ ~(n + j < count)
      BY <1>6, <2>3
    <3>2. /\ rob_ram'[Slot(i)'].id = next_id + (n + i - count)
          /\ rob_ram'[Slot(j)'].id = next_id + (n + j - count)
      BY <1>4, <3>1
    <3>3. next_id \in Nat /\ count \in Nat
      BY <1>2, <1>6
    <3>4. next_id + (n + i - count) < next_id + (n + j - count)
      BY <3>1, <3>3
    <3> QED BY <3>2, <3>4
  <2> QED BY <1>6, <2>1, <2>2, <2>3
<1>8. \A i \in 0 .. count' - 1 : rob_ram'[Slot(i)'].id < next_id'
  <2> SUFFICES ASSUME NEW i \in 0 .. count' - 1 PROVE rob_ram'[Slot(i)'].id < next_id'
    OBVIOUS
  <2>1. CASE n + i < count
    <3>1. rob_ram[Slot(n + i)].id < next_id /\ rob_ram[Slot(n + i)].id \in Nat
      BY <1>1, <1>3, <1>5, <2>1 DEF ProgramOrder
    <3> QED BY <1>2, <1>4, <1>6, <2>1, <3>1
  <2>2. CASE ~(n + i < count)
    BY <1>2, <1>4, <1>6, <2>2
  <2> QED BY <2>1, <2>2
<1>9. \A r \in Regs : regs'[r] < next_id'
  <2> SUFFICES ASSUME NEW r \in Regs PROVE regs'[r] < next_id'
    OBVIOUS
  <2>1. regs' = RegsAfter(n, S, out)
    BY DEF Advance
  <2>2. CASE regs'[r] = regs[r]
    <3>1. regs[r] < next_id /\ regs[r] \in Nat
      BY <1>1, RobAssumption DEF ProgramOrder, TypeOK, Ids
    <3> QED BY <1>2, <1>6, <2>2, <3>1
  <2>3. CASE \E i \in 0 .. n - 1 : regs'[r] = rob_ram[Slot(i)].id
    <3>1. PICK i \in 0 .. n - 1 : regs'[r] = rob_ram[Slot(i)].id
      BY <2>3
    <3>2. i \in 0 .. count - 1
      BY <1>6
    <3>3. rob_ram[Slot(i)].id < next_id /\ rob_ram[Slot(i)].id \in Nat
      BY <1>1, <1>5, <3>2 DEF ProgramOrder
    <3> QED BY <1>2, <1>6, <3>1, <3>3
  <2> QED BY <2>1, <2>2, <2>3, RegsStep
<1> QED BY <1>7, <1>8, <1>9 DEF ProgramOrder

\* A live slot is the one at its distance from the head.
LEMMA LiveSlot ==
    ASSUME TypeOK, NEW x \in Slots, Live(x)
    PROVE  Dist(head_ptr, x) \in 0 .. count - 1 /\ Slot(Dist(head_ptr, x)) = x
<1>1. Dist(head_ptr, x) \in Slots /\ Slot(Dist(head_ptr, x)) = x
  BY RingWalk DEF TypeOK, Slot
<1> QED BY <1>1, RobAssumption DEF Live, Slots, TypeOK

\* Committed results are older than what stays live.
LEMMA CommitOlder ==
    ASSUME RobInv, NEW S \in WriteBacks, NEW out, NEW n \in 0 .. CW, IsCommitCount(n, S, out),
           NEW r \in Regs, NEW k \in n .. count - 1
    PROVE  RegsAfter(n, S, out)[r] < rob_ram[Slot(k)].id
<1>1. TypeOK /\ ProgramOrder /\ RegsCommitted
  BY DEF RobInv
<1>2. n \in 0 .. count /\ count \in 0 .. DEPTH
  BY <1>1, CommitBound DEF TypeOK
<1>3. k \in Slots /\ k \in 0 .. count - 1
  BY <1>2, RobAssumption DEF Slots
<1>4. PICK y \in Slots : y = Slot(k) /\ Dist(head_ptr, y) = k
  BY <1>1, <1>3, RingWalk DEF TypeOK, Slot
<1>5. Live(y)
  BY <1>2, <1>3, <1>4, RobAssumption DEF Live
<1>6. CASE RegsAfter(n, S, out)[r] = regs[r]
  BY <1>1, <1>4, <1>5, <1>6 DEF RegsCommitted
<1>7. CASE \E i \in 0 .. n - 1 : RegsAfter(n, S, out)[r] = rob_ram[Slot(i)].id
  <2>1. PICK i \in 0 .. n - 1 : RegsAfter(n, S, out)[r] = rob_ram[Slot(i)].id
    BY <1>7
  <2>2. i \in 0 .. count - 1 /\ i < k
    BY <1>2, <1>3
  <2> QED BY <1>1, <1>3, <2>1, <2>2 DEF ProgramOrder
<1> QED BY <1>6, <1>7, RegsStep

\* x0 is never written.
LEMMA ZeroKept ==
    ASSUME RobInv, NEW S \in WriteBacks, NEW out, NEW n \in 0 .. CW, IsCommitCount(n, S, out)
    PROVE  RegsAfter(n, S, out)[0] = 0
<1>1. CommitWriters(0, n) = {}
  <2>1. \A j \in 0 .. n - 1 : ~(WritesRd(rob_ram[Slot(j)].uop) /\ rob_ram[Slot(j)].uop.areg = 0)
    BY DEF WritesRd
  <2> QED BY <2>1, Zenon DEF CommitWriters
<1>2. RegsAfter(n, S, out)[0] = regs[0]
  BY <1>1, RobAssumption DEF RegsAfter
<1> QED BY <1>2, RobAssumption DEF RobInv, RegsCommitted

\* It keeps every register's writer older than every live entry.
LEMMA AdvanceRegs ==
    ASSUME RobInv, NEW S \in WriteBacks, NEW out \in ReportsOf(S), NEW n \in 0 .. CW,
           IsCommitCount(n, S, out), NEW D \in Bundles, Advance(n, D, S, out)
    PROVE  RegsCommitted'
<1>1. TypeOK /\ ProgramOrder
  BY DEF RobInv
<1>2. regs' = RegsAfter(n, S, out)
  BY DEF Advance
<1>3. regs'[0] = 0
  BY <1>2, ZeroKept
<1>4. ASSUME NEW r \in Regs, NEW x \in Slots, Live(x)'
      PROVE  regs'[r] < rob_ram'[x].id
  <2>1. TypeOK'
    BY AdvanceType
  <2>2. PICK k \in 0 .. count' - 1 : Slot(k)' = x
    <3>1. Dist(head_ptr', x) \in Slots /\ Wrap(head_ptr' + Dist(head_ptr', x)) = x
      BY <2>1, RingWalk DEF TypeOK
    <3>2. Dist(head_ptr', x) \in Nat /\ Dist(head_ptr', x) < count' /\ count' \in Nat
      BY <1>4, <2>1, <3>1, RobAssumption DEF Live, Slots, TypeOK
    <3>3. Dist(head_ptr', x) \in 0 .. count' - 1
      BY <3>2
    <3> QED BY <3>1, <3>3 DEF Slot
  <2>3. /\ count \in Nat /\ n \in 0 .. count /\ Slot(n + k) = x
        /\ n + k < count => rob_ram'[x].id = rob_ram[Slot(n + k)].id
        /\ n + k >= count => rob_ram'[x].id = next_id + (n + k - count)
    <3>1. /\ n \in 0 .. count /\ count \in Nat
          /\ \A j \in 0 .. count' - 1 :
                /\ Slot(j)' = Slot(n + j)
                /\ n + j < count => rob_ram'[Slot(n + j)].id = rob_ram[Slot(n + j)].id
                /\ n + j >= count => rob_ram'[Slot(n + j)].id = next_id + (n + j - count)
      BY AdvanceSlot, Zenon
    <3>2. Slot(n + k) = x
      BY <2>2, <3>1, Zenon
    <3> QED BY <2>2, <3>1, <3>2, Zenon
  <2>4. CASE n + k < count
    <3>1. n + k \in n .. count - 1
      BY <2>3, <2>4
    <3> QED BY <1>2, <2>3, <2>4, <3>1, CommitOlder
  <2>5. CASE n + k >= count
    <3>1. regs'[r] \in Nat /\ next_id \in Nat
      BY <1>1, <2>1, RobAssumption DEF TypeOK, Ids
    <3>2. regs'[r] < next_id
      <4>1. CASE regs'[r] = regs[r]
        BY <1>1, <4>1 DEF ProgramOrder
      <4>2. CASE \E i \in 0 .. n - 1 : regs'[r] = rob_ram[Slot(i)].id
        <5>1. PICK i \in 0 .. n - 1 : regs'[r] = rob_ram[Slot(i)].id
          BY <4>2
        <5>2. i \in 0 .. count - 1
          BY <2>3
        <5> QED BY <1>1, <5>1, <5>2 DEF ProgramOrder
      <4> QED BY <1>2, <4>1, <4>2, RegsStep
    <3> QED BY <2>3, <2>5, <3>1, <3>2
  <2> QED BY <2>3, <2>4, <2>5
<1> QED BY <1>3, <1>4 DEF RegsCommitted

\* It latches an exception only for the slot that becomes the head.
LEMMA AdvanceException ==
    ASSUME RobInv, NEW S \in WriteBacks, NEW out \in ReportsOf(S), NEW n \in 0 .. CW,
           IsCommitCount(n, S, out), NEW D \in Bundles, Advance(n, D, S, out),
           pend.valid => csr_en(S)
    PROVE  ExceptionAtHead'
<1>1. TypeOK /\ ExceptionAtHead /\ ExecutedOnce /\ CleanUntilDone
  BY DEF RobInv
<1>2. ~pend.valid
  <2> SUFFICES ASSUME pend.valid PROVE FALSE
    OBVIOUS
  <2>1. PICK x \in S : rob_ram[x].uop.fu = "CSR"
    BY DEF csr_en
  <2>2. x = head_ptr
    BY <2>1 DEF WriteBacks, MayWriteBack
  <2> QED BY <1>1, <2>1, <2>2, WriteBackLive DEF ExceptionAtHead
<1> SUFFICES ASSUME sync_exception_valid(n, S, out)
             PROVE  ExceptionAtHead'
  BY <1>1, <1>2 DEF Advance, TypeOK, ExceptionAtHead
<1>3. /\ n < count /\ rob_ram[Slot(n)].exception
      /\ rob_ram[Slot(n)].complete \/ Slot(n) \in S
  BY DEF sync_exception_valid, Finished, head_fast
<1>4. n \in Slots /\ 0 \in 0 .. count' - 1
  BY <1>1, <1>3, AdvanceSlot, RobAssumption DEF Slots
<1>5. PICK y \in Slots : y = Slot(n) /\ Dist(head_ptr, y) = n
  BY <1>1, <1>4, RingWalk DEF TypeOK, Slot
<1>6. y \notin S
  BY <1>1, <1>3, <1>5, WriteBackLive DEF CleanUntilDone
<1>7. head_ptr' = y /\ count' > 0
  BY <1>4, <1>5, AdvanceSlot DEF Advance, Slot
<1>8. Live(y) /\ ~Retiring(y, n)
  BY <1>3, <1>5 DEF Live, Retiring
<1>9. Staying(y, n, S, out)
  BY <1>8, AdvanceEntries DEF Dispatched
<1>10. rob_ram'[y] = rob_ram[y]
  BY <1>6, <1>9 DEF Staying
<1>11. pend' = [valid |-> TRUE, id |-> rob_ram[y].id]
  BY <1>2, <1>5 DEF Advance
<1> QED BY <1>3, <1>5, <1>6, <1>7, <1>10, <1>11 DEF ExceptionAtHead

\* It keeps every mapping on the youngest live writer, through release and redispatch.
LEMMA AdvanceRat ==
    ASSUME RobInv, NEW S \in WriteBacks, NEW out \in ReportsOf(S), NEW n \in 0 .. CW,
           IsCommitCount(n, S, out), NEW D \in Bundles, Advance(n, D, S, out)
    PROVE  RatExact'
<1>1. TypeOK /\ RatExact
  BY DEF RobInv
<1>2. /\ n \in 0 .. count /\ count \in Nat /\ Len(D) \in Nat /\ count + Len(D) <= DEPTH
      /\ count' = count + Len(D) - n
  BY AdvanceSlot
<1>3. map_table' = RatAfter(n, D)
  BY DEF Advance
<1> DEFINE NewWriter(i, r) == WritesRd(D[i + 1]) /\ D[i + 1].areg = r
<1>4. ASSUME NEW r \in Regs, NEW k \in 0 .. count' - 1
      PROVE  WriterAt(k, r)' <=> IF n + k < count THEN WriterAt(n + k, r)
                                 ELSE NewWriter(n + k - count, r)
  <2>1. /\ Slot(k)' = Slot(n + k)
        /\ n + k < count => rob_ram'[Slot(n + k)].uop = rob_ram[Slot(n + k)].uop
        /\ n + k >= count => rob_ram'[Slot(n + k)].uop = D[n + k - count + 1]
    BY AdvanceSlot
  <2>2. n + k < count \/ n + k >= count
    BY <1>2
  <2> QED BY <2>1, <2>2 DEF WriterAt, WritesRd
<1>5. ASSUME NEW r \in Regs, NEW i \in 0 .. Len(D) - 1
      PROVE  i \in DispWriters(r, D) <=> NewWriter(i, r)
  BY DEF DispWriters
<1> HIDE DEF NewWriter
<1> SUFFICES ASSUME NEW r \in Regs
             PROVE  IF map_table'[r].in_rob
                    THEN \E i \in 0 .. count' - 1 :
                            /\ map_table'[r].tag = Slot(i)'
                            /\ WriterAt(i, r)'
                            /\ \A j \in i + 1 .. count' - 1 : ~WriterAt(j, r)'
                    ELSE \A i \in 0 .. count' - 1 : ~WriterAt(i, r)'
  BY DEF RatExact
<1>6. CASE DispWriters(r, D) # {}
  <2> DEFINE js == DispWriters(r, D)
  <2>1. js \in SUBSET (0 .. Len(D))
    BY DEF DispWriters
  <2>2. Last(js) \in js /\ \A j \in js : j <= Last(js)
    BY <1>2, <1>6, <2>1, LastIsLast
  <2>3. Last(js) \in 0 .. Len(D) - 1
    BY <2>2 DEF DispWriters
  <2>4. PICK l \in 0 .. Len(D) - 1 : l = Last(js)
    BY <2>3
  <2>5. map_table'[r] = [in_rob |-> TRUE, tag |-> NewTag(l)]
    BY <1>3, <1>6, <2>4 DEF RatAfter
  <2>6. NewWriter(l, r) /\ \A j \in l + 1 .. Len(D) - 1 : ~NewWriter(j, r)
    BY <1>2, <1>5, <2>2, <2>4
  <2>7. PICK k \in 0 .. count' - 1 : k = count + l - n
    BY <1>2
  <2>8. WriterAt(k, r)'
    BY <1>2, <1>4, <2>6, <2>7
  <2>9. \A j \in k + 1 .. count' - 1 : ~WriterAt(j, r)'
    <3> SUFFICES ASSUME NEW j \in k + 1 .. count' - 1 PROVE ~WriterAt(j, r)'
      OBVIOUS
    <3>1. /\ j \in 0 .. count' - 1 /\ ~(n + j < count)
          /\ n + j - count \in l + 1 .. Len(D) - 1
      BY <1>2, <2>7
    <3> QED BY <1>4, <2>6, <3>1
  <2>10. NewTag(l) = Slot(k)'
    <3>1. NewTag(l) = Wrap(Wrap(head_ptr + count) + l)
      BY DEF NewTag, RobInv, Window
    <3>2. Wrap(Wrap(head_ptr + count) + l) = Wrap(head_ptr + count + l)
      <4>1. /\ head_ptr \in Slots /\ count \in 0 .. DEPTH
            /\ l \in 0 .. DEPTH /\ count + l <= DEPTH
        BY <1>1, <1>2, RobAssumption DEF TypeOK
      <4> QED BY <4>1, RingCompose
    <3>3. Slot(k)' = Slot(n + k)
      BY AdvanceSlot
    <3>4. n + k = count + l /\ head_ptr \in Nat
      BY <1>1, <1>2, <2>7 DEF TypeOK, Slots
    <3>5. Slot(n + k) = Wrap(head_ptr + count + l)
      <4>1. head_ptr + (n + k) = head_ptr + count + l
        BY <1>2, <3>4
      <4> QED BY <4>1 DEF Slot
    <3> QED BY <3>1, <3>2, <3>3, <3>5
  <2> QED BY <2>5, <2>8, <2>9, <2>10
<1>7. CASE DispWriters(r, D) = {}
  <2>1. \A k \in 0 .. count' - 1 : WriterAt(k, r)' <=> n + k < count /\ WriterAt(n + k, r)
    <3> SUFFICES ASSUME NEW k \in 0 .. count' - 1
                 PROVE  WriterAt(k, r)' <=> n + k < count /\ WriterAt(n + k, r)
      OBVIOUS
    <3>1. ~(n + k < count) => n + k - count \in 0 .. Len(D) - 1
      BY <1>2
    <3> QED BY <1>4, <1>5, <1>7, <3>1
  <2>2. map_table'[r] = [map_table[r] EXCEPT !.in_rob = @ /\ ~Released(r, n)]
    BY <1>3, <1>7 DEF RatAfter
  <2>3. map_table[r] \in [in_rob : BOOLEAN, tag : Slots]
    BY <1>1 DEF TypeOK
  <2>4. CASE ~map_table[r].in_rob
    <3>1. map_table'[r].in_rob = FALSE
      BY <2>2, <2>3, <2>4
    <3>2. \A i \in 0 .. count - 1 : ~WriterAt(i, r)
      BY <1>1, <2>4 DEF RatExact
    <3>3. \A k \in 0 .. count' - 1 : ~WriterAt(k, r)'
      BY <1>2, <2>1, <3>2
    <3> QED BY <3>1, <3>3
  <2>5. CASE map_table[r].in_rob
    <3>1. PICK i \in 0 .. count - 1 : /\ map_table[r].tag = Slot(i)
                                      /\ WriterAt(i, r)
                                      /\ \A j \in i + 1 .. count - 1 : ~WriterAt(j, r)
      BY <1>1, <2>5 DEF RatExact
    <3>2. CASE i < n
      <4>1. Released(r, n)
        <5>1. i \in 0 .. n - 1 /\ r # 0 /\ rob_ram[Slot(i)].uop.areg = r
          BY <1>2, <3>1, <3>2 DEF WriterAt, WritesRd
        <5> QED BY <2>5, <3>1, <5>1 DEF Released
      <4>2. map_table'[r].in_rob = FALSE
        BY <2>2, <2>3, <4>1
      <4>3. \A k \in 0 .. count' - 1 : ~WriterAt(k, r)'
        <5> SUFFICES ASSUME NEW k \in 0 .. count' - 1, n + k < count PROVE ~WriterAt(n + k, r)
          BY <2>1
        <5> QED BY <1>2, <3>1, <3>2
      <4> QED BY <4>2, <4>3
    <3>3. CASE i >= n
      <4>1. ~Released(r, n)
        <5> SUFFICES ASSUME NEW m \in 0 .. n - 1, Slot(m) = Slot(i) PROVE FALSE
          BY <3>1 DEF Released
        <5>1. m \in Slots /\ i \in Slots /\ m # i
          BY <1>2, <3>3, RobAssumption DEF Slots
        <5>2. Dist(head_ptr, Slot(m)) = m /\ Dist(head_ptr, Slot(i)) = i
          BY <1>1, <5>1, RingWalk DEF Slot, TypeOK
        <5> QED BY <5>1, <5>2
      <4>2. map_table'[r] = map_table[r]
        BY <2>2, <2>3, <2>5, <4>1
      <4>3. PICK k \in 0 .. count' - 1 : k = i - n
        BY <1>2, <3>3
      <4>4. Slot(k)' = Slot(i) /\ n + k = i
        <5>1. n + k = i
          BY <1>2, <4>3
        <5> QED BY <5>1, AdvanceSlot
      <4>5. WriterAt(k, r)'
        BY <1>2, <2>1, <3>1, <4>4
      <4>6. \A j \in k + 1 .. count' - 1 : ~WriterAt(j, r)'
        <5> SUFFICES ASSUME NEW j \in k + 1 .. count' - 1, n + j < count
                     PROVE  ~WriterAt(n + j, r)
          BY <1>2, <2>1
        <5> QED BY <1>2, <3>1, <4>3
      <4> QED BY <2>5, <3>1, <4>2, <4>4, <4>5, <4>6
    <3> QED BY <1>2, <3>2, <3>3
  <2> QED BY <2>4, <2>5
<1> QED BY <1>6, <1>7

----------------------------------------------------------------------------
(* A flush empties the ring and every mapping, whatever it interrupts.       *)
LEMMA FlushInv ==
    ASSUME RobInv, Flush, regs' \in [Regs -> Ids], regs'[0] = 0,
           \A r \in Regs : regs'[r] < next_id
    PROVE  RobInv'
<1>1. TypeOK
  BY DEF RobInv
<1>2. head_ptr' = 0 /\ tail_ptr' = 0 /\ count' = 0 /\ next_id' = next_id /\ pend' = NoPend
  BY DEF Flush, StationsFlushed, PendFlushed
<1>3. \A x \in Slots : /\ rob_ram'[x] \in Entry /\ ~rob_ram'[x].valid
                       /\ rs'[x] = Idle
  BY <1>1 DEF Flush, StationsFlushed, PendFlushed, TypeOK, Entry
<1>4. \A r \in Regs : map_table'[r] \in [in_rob : BOOLEAN, tag : Slots] /\ ~map_table'[r].in_rob
  BY <1>1 DEF Flush, StationsFlushed, PendFlushed, TypeOK
<1>5. TypeOK'
  <2>1. rob_ram' \in [Slots -> Entry]
    BY <1>3 DEF Flush, StationsFlushed, PendFlushed
  <2>2. rs' \in [Slots -> [busy : BOOLEAN, id : Ids]]
    BY RobAssumption DEF Flush, StationsFlushed, PendFlushed, Idle, Ids
  <2>3. map_table' \in [Regs -> [in_rob : BOOLEAN, tag : Slots]]
    BY <1>4 DEF Flush, StationsFlushed, PendFlushed
  <2>4. pend' \in [valid : BOOLEAN, id : Ids]
    BY <1>2, RobAssumption DEF NoPend, Ids
  <2>5. 0 \in Slots /\ 0 \in 0 .. DEPTH
    BY RobAssumption DEF Slots
  <2> QED BY <1>1, <1>2, <2>1, <2>2, <2>3, <2>4, <2>5 DEF TypeOK
<1>6. \A x \in Slots : ~Live(x)'
  BY <1>2, RobAssumption DEF Live, Dist, Slots
<1>7. Window'
  BY <1>2, <1>3, <1>6, RobAssumption DEF Window, Wrap
<1>8. ExecutedOnce' /\ CleanUntilDone'
  BY <1>3, <1>6 DEF ExecutedOnce, CleanUntilDone, Idle
<1>9. RatExact'
  BY <1>2, <1>4 DEF RatExact
<1>10. ExceptionAtHead'
  BY <1>2 DEF ExceptionAtHead, NoPend
<1>11. ProgramOrder'
  BY <1>2 DEF ProgramOrder
<1>12. RegsCommitted'
  BY <1>6 DEF RegsCommitted
<1> QED BY <1>5, <1>7, <1>8, <1>9, <1>10, <1>11, <1>12 DEF RobInv

\* The register file after a commit, whatever happens to the rest of the state.
LEMMA RegsAfterType ==
    ASSUME RobInv, NEW S \in WriteBacks, NEW out, NEW n \in 0 .. CW, IsCommitCount(n, S, out)
    PROVE  /\ RegsAfter(n, S, out) \in [Regs -> Ids]
           /\ RegsAfter(n, S, out)[0] = 0
           /\ \A r \in Regs : RegsAfter(n, S, out)[r] < next_id
<1>1. TypeOK /\ ProgramOrder
  BY DEF RobInv
<1>2. n \in 0 .. count /\ count \in Nat
  BY <1>1, CommitBound, RobAssumption DEF TypeOK
<1>3. \A r \in Regs : RegsAfter(n, S, out)[r] \in Ids /\ RegsAfter(n, S, out)[r] < next_id
  <2> SUFFICES ASSUME NEW r \in Regs
               PROVE  RegsAfter(n, S, out)[r] \in Ids /\ RegsAfter(n, S, out)[r] < next_id
    OBVIOUS
  <2>1. CASE RegsAfter(n, S, out)[r] = regs[r]
    BY <1>1, <2>1 DEF TypeOK, ProgramOrder
  <2>2. CASE \E i \in 0 .. n - 1 : /\ RegsAfter(n, S, out)[r] = rob_ram[Slot(i)].id
                                   /\ rob_ram[Slot(i)].id \in Ids
    <3>1. PICK i \in 0 .. n - 1 : /\ RegsAfter(n, S, out)[r] = rob_ram[Slot(i)].id
                                  /\ rob_ram[Slot(i)].id \in Ids
      BY <2>2
    <3>2. i \in 0 .. count - 1
      BY <1>2
    <3> QED BY <1>1, <3>1, <3>2 DEF ProgramOrder
  <2> QED BY <2>1, <2>2, RegsStep
<1>4. RegsAfter(n, S, out) = [r \in Regs |-> RegsAfter(n, S, out)[r]]
  BY DEF RegsAfter
<1> QED BY <1>3, <1>4, ZeroKept

----------------------------------------------------------------------------
\* The invariant holds in the reset state.
LEMMA RobInvInit == ASSUME Init PROVE RobInv
<1>1. ResetUop \in Uops
  BY RobAssumption DEF ResetUop
<1>2. TypeOK
  BY <1>1, RobAssumption DEF Init, TypeOK, Slots, Ids, Entry, Idle, NoPend
<1>3. \A x \in Slots : ~Live(x)
  BY RobAssumption DEF Init, Live, Dist, Slots
<1>4. Window
  BY <1>3, RobAssumption DEF Init, Window, Wrap, Slots
<1>5. ExecutedOnce /\ CleanUntilDone
  BY <1>3 DEF Init, ExecutedOnce, CleanUntilDone, Idle
<1>6. RatExact /\ ExceptionAtHead /\ ProgramOrder
  BY DEF Init, RatExact, ExceptionAtHead, NoPend, ProgramOrder
<1>7. RegsCommitted
  BY <1>3 DEF Init, RegsCommitted
<1> QED BY <1>2, <1>4, <1>5, <1>6, <1>7 DEF RobInv

\* Every step preserves the invariant.
LEMMA RobInvNext == RobInv /\ [Next]_vars => RobInv'
<1> SUFFICES ASSUME RobInv, [Next]_vars PROVE RobInv'
  OBVIOUS
<1>1. CASE Clock
  <2>0. PICK S \in WriteBacks : Cycle(S)
    BY <1>1 DEF Clock
  <2>1. PICK out \in ReportsOf(S), n \in 0 .. CW :
            /\ pend.valid => csr_en(S)
            /\ IsCommitCount(n, S, out)
            /\ \/ \E D \in Bundles : Advance(n, D, S, out)
               \/ RedirectFlush(n, S, out)
    BY <2>0 DEF Cycle
  <2>2. CASE \E D \in Bundles : Advance(n, D, S, out)
    <3>1. PICK D \in Bundles : Advance(n, D, S, out)
      BY <2>2
    <3>2. TypeOK' /\ Window' /\ ExecutedOnce' /\ CleanUntilDone'
      BY <2>1, <3>1, AdvanceType, AdvanceWindow, AdvanceExecuted
    <3>3. RatExact' /\ ExceptionAtHead' /\ ProgramOrder' /\ RegsCommitted'
      BY <2>1, <3>1, AdvanceRat, AdvanceException, AdvanceOrder, AdvanceRegs
    <3> QED BY <3>2, <3>3 DEF RobInv
  <2>3. CASE RedirectFlush(n, S, out)
    BY <2>1, <2>3, RegsAfterType, FlushInv DEF RedirectFlush
  <2> QED BY <2>1, <2>2, <2>3
<1>2. CASE ExceptionTrap \/ IrqTrap \/ IfetchTrap
  <2>1. Flush /\ regs' = regs
    BY <1>2 DEF ExceptionTrap, IrqTrap, IfetchTrap, TrapFlush
  <2>2. /\ regs \in [Regs -> Ids] /\ regs[0] = 0
        /\ \A r \in Regs : regs[r] < next_id
    BY RobAssumption DEF RobInv, TypeOK, RegsCommitted, ProgramOrder
  <2> QED BY <2>1, <2>2, FlushInv
<1>3. CASE UNCHANGED vars
  BY <1>3 DEF vars, RobInv, TypeOK, Window, ExecutedOnce, CleanUntilDone, RatExact,
              ExceptionAtHead, ProgramOrder, RegsCommitted, Live, WriterAt, Slot
<1> QED BY <1>1, <1>2, <1>3 DEF Next

\* The inductive invariant, and with it each of its parts, holds in every reachable state of the
\* ROB, RAT and register file, for every depth, width and mix of micro-ops.
THEOREM RobInvariant == Spec => []RobInv
<1>1. Init => RobInv
  BY RobInvInit
<1>2. RobInv /\ [Next]_vars => RobInv'
  BY RobInvNext
<1> QED BY <1>1, <1>2, PTL DEF Spec

\* Type correctness of the ROB state (rob.sv 155-182, rat.sv 52-58).
THEOREM RobTypeCorrect == Spec => []TypeOK
<1>1. RobInv => TypeOK
  BY DEF RobInv
<1> QED BY <1>1, RobInvariant, PTL

\* The query port never sees a retired or flushed entry (rob.sv 411-429, 653-657).
THEOREM RobWindow == Spec => []Window
<1>1. RobInv => Window
  BY DEF RobInv
<1> QED BY <1>1, RobInvariant, PTL

\* The RAT names the youngest live writer of every register (rat.sv 100-169).
THEOREM RatIsExact == Spec => []RatExact
<1>1. RobInv => RatExact
  BY DEF RobInv
<1> QED BY <1>1, RobInvariant, PTL

\* Each live entry is executing once or complete with its own result (rob.sv 606-650).
THEOREM RobExecutedOnce == Spec => []ExecutedOnce
<1>1. RobInv => ExecutedOnce
  BY DEF RobInv
<1> QED BY <1>1, RobInvariant, PTL

\* A latched exception is that of the ROB head (rob.sv 334-341, backend.sv 392-414).
THEOREM ExceptionsPrecise == Spec => []ExceptionAtHead
<1>1. RobInv => ExceptionAtHead
  BY DEF RobInv
<1> QED BY <1>1, RobInvariant, PTL

\* The register file only holds results of instructions that have retired (rob.sv 328-404, arf.sv).
THEOREM RegistersCommitted == Spec => []RegsCommitted
<1>1. RobInv => RegsCommitted
  BY DEF RobInv
<1> QED BY <1>1, RobInvariant, PTL

----------------------------------------------------------------------------
(* The reorder buffer implements program order.                             *)

\* The abstract queue holds, at place k, the live entry k - 1 steps behind the head.
QueueShape ==
    /\ count \in Nat
    /\ LiveQueue \in Seq([id : Ids, areg : Regs]) /\ Len(LiveQueue) = count
    /\ \A k \in 1 .. count : LiveQueue[k] = [id |-> rob_ram[Slot(k - 1)].id,
                                             areg |-> Dest(rob_ram[Slot(k - 1)].uop)]

\* A function on 1 .. k is a sequence of that length.
LEMMA FunIsSeq ==
    ASSUME NEW T, NEW k \in Nat, NEW f \in [1 .. k -> T]
    PROVE  f \in Seq(T) /\ Len(f) = k
  BY LenProperties, SeqDef

\* It is a sequence of the instructions in flight, of length count.
LEMMA QueueAt == TypeOK => QueueShape
<1> SUFFICES ASSUME TypeOK PROVE QueueShape
  OBVIOUS
<1>1. count \in Nat /\ count <= DEPTH
  BY RobAssumption DEF TypeOK
<1>2. \A k \in 1 .. count : k - 1 \in Slots
  BY <1>1, RobAssumption DEF Slots
<1>3. \A k \in 1 .. count : Slot(k - 1) \in Slots
  BY <1>2, RingWalk DEF TypeOK, Slot
<1>4. \A k \in 1 .. count : /\ rob_ram[Slot(k - 1)].id \in Ids
                            /\ Dest(rob_ram[Slot(k - 1)].uop) \in Regs
  BY <1>3, RobAssumption DEF TypeOK, Entry, Dest
<1>5. LiveQueue \in [1 .. count -> [id : Ids, areg : Regs]]
  BY <1>4 DEF LiveQueue
<1>6. LiveQueue \in Seq([id : Ids, areg : Regs]) /\ Len(LiveQueue) = count
  BY <1>1, <1>5, FunIsSeq, Zenon
<1>7. \A k \in 1 .. count : LiveQueue[k] = [id |-> rob_ram[Slot(k - 1)].id,
                                            areg |-> Dest(rob_ram[Slot(k - 1)].uop)]
  BY DEF LiveQueue
<1> QED BY <1>1, <1>6, <1>7 DEF QueueShape

\* Commit through the ports of the register file is retirement in program order, one by one.
LEMMA RetireInOrder ==
    ASSUME RobInv, NEW S \in WriteBacks, NEW out, NEW n \in 0 .. CW, IsCommitCount(n, S, out)
    PROVE  RegsAfter(n, S, out) = InOrderSpec!Retired(n)
<1>1. TypeOK
  BY DEF RobInv
<1>2. n \in 0 .. count /\ count \in Nat /\ n \in Nat
  BY <1>1, CommitBound, QueueAt, RobAssumption DEF QueueShape
<1> DEFINE qs(r) == {j \in 1 .. n : r # 0 /\ LiveQueue[j].areg = r}
<1>3. ASSUME NEW r \in Regs, NEW j \in 1 .. n
      PROVE  j \in qs(r) <=> WriterAt(j - 1, r)
  <2>1. j \in 1 .. count
    BY <1>2
  <2>2. LiveQueue[j].areg = Dest(rob_ram[Slot(j - 1)].uop)
    BY <1>1, <2>1, QueueAt DEF QueueShape
  <2> QED BY <2>2 DEF WriterAt, Dest, WritesRd
<1>4. ASSUME NEW r \in Regs
      PROVE  RegsAfter(n, S, out)[r] =
                IF qs(r) = {} THEN regs[r]
                ELSE LiveQueue[CHOOSE j \in qs(r) : \A i \in qs(r) : i <= j].id
  <2>1. CASE CommitWriters(r, n) = {} /\ RegsAfter(n, S, out)[r] = regs[r]
    <3>1. \A i \in 0 .. n - 1 : ~WriterAt(i, r)
      BY <2>1 DEF CommitWriters, WriterAt
    <3>2. \A j \in 1 .. n : j - 1 \in 0 .. n - 1
      BY <1>2
    <3>3. \A j \in 1 .. n : ~WriterAt(j - 1, r)
      BY <3>1, <3>2, Zenon
    <3>4. qs(r) = {}
      BY <1>3, <3>3
    <3> QED BY <2>1, <3>4
  <2>2. CASE \E i \in 0 .. n - 1 : /\ RegsAfter(n, S, out)[r] = rob_ram[Slot(i)].id
                                   /\ WriterAt(i, r)
                                   /\ \A j \in i + 1 .. n - 1 : ~WriterAt(j, r)
    <3>1. PICK i \in 0 .. n - 1 : /\ RegsAfter(n, S, out)[r] = rob_ram[Slot(i)].id
                                  /\ WriterAt(i, r)
                                  /\ \A j \in i + 1 .. n - 1 : ~WriterAt(j, r)
      BY <2>2
    <3>2. i + 1 \in 1 .. n /\ i + 1 \in 1 .. count /\ (i + 1) - 1 = i
      BY <1>2
    <3>3. i + 1 \in qs(r)
      BY <1>3, <3>1, <3>2
    <3>4. \A j \in qs(r) : j <= i + 1
      <4> SUFFICES ASSUME NEW j \in qs(r), j > i + 1 PROVE FALSE
        BY <1>2
      <4>1. j \in 1 .. n /\ j - 1 \in i + 1 .. n - 1
        BY <1>2
      <4>2. WriterAt(j - 1, r)
        BY <1>3, <4>1
      <4> QED BY <3>1, <4>1, <4>2
    <3>5. \A j \in qs(r) : (\A k \in qs(r) : k <= j) => j = i + 1
      <4> SUFFICES ASSUME NEW j \in qs(r), \A k \in qs(r) : k <= j PROVE j = i + 1
        OBVIOUS
      <4>1. i + 1 <= j /\ j <= i + 1
        BY <3>3, <3>4
      <4> QED BY <1>2, <4>1
    <3>6. (CHOOSE j \in qs(r) : \A k \in qs(r) : k <= j) = i + 1
      <4> HIDE DEF qs
      <4> QED BY <3>3, <3>4, <3>5
    <3>7. LiveQueue[i + 1].id = rob_ram[Slot(i)].id
      BY <1>1, <3>2, QueueAt DEF QueueShape
    <3> HIDE DEF qs
    <3> QED BY <3>1, <3>3, <3>6, <3>7
  <2> QED BY <2>1, <2>2, RegsStep
<1> QED BY <1>4 DEF RegsAfter, InOrderSpec!Retired

\* A cycle without a redirect is a cycle of the in-order machine.
LEMMA AdvanceInOrder ==
    ASSUME RobInv, NEW S \in WriteBacks, NEW out \in ReportsOf(S), NEW n \in 0 .. CW,
           IsCommitCount(n, S, out), NEW D \in Bundles, Advance(n, D, S, out)
    PROVE  InOrderSpec!Cycle
<1>1. TypeOK
  BY DEF RobInv
<1>2. TypeOK'
  BY AdvanceType
<1>3. /\ n \in 0 .. count /\ count \in Nat /\ Len(D) \in 0 .. DW
      /\ count' = count + Len(D) - n
  BY <1>1, AdvanceSlot, BundleType
<1>4. /\ Len(LiveQueue) = count
      /\ \A k \in 1 .. count : LiveQueue[k] = [id |-> rob_ram[Slot(k - 1)].id,
                                               areg |-> Dest(rob_ram[Slot(k - 1)].uop)]
  BY <1>1, QueueAt DEF QueueShape
<1>5. /\ LiveQueue' \in Seq([id : Ids, areg : Regs]) /\ Len(LiveQueue') = count'
      /\ \A k \in 1 .. count' : LiveQueue'[k] = [id |-> rob_ram'[Slot(k - 1)'].id,
                                                 areg |-> Dest(rob_ram'[Slot(k - 1)'].uop)]
  <2>1. QueueShape'
    BY <1>2, QueueAt, PTL
  <2> QED BY <2>1 DEF QueueShape
<1>6. InOrderSpec!Retire(n)
  BY <1>3, <1>4, RetireInOrder DEF InOrderSpec!Retire, Advance
<1>7. ASSUME NEW j \in 1 .. count - n
      PROVE  LiveQueue'[j] = LiveQueue[j + n]
  <2>1. j - 1 \in 0 .. count' - 1 /\ n + (j - 1) < count /\ j \in 1 .. count'
        /\ j + n \in 1 .. count /\ n + (j - 1) = (j + n) - 1
    BY <1>3
  <2>2. /\ Slot(j - 1)' = Slot(n + (j - 1))
        /\ rob_ram'[Slot(n + (j - 1))].uop = rob_ram[Slot(n + (j - 1))].uop
        /\ rob_ram'[Slot(n + (j - 1))].id = rob_ram[Slot(n + (j - 1))].id
    BY <2>1, AdvanceSlot
  <2>3. LiveQueue[j + n] = [id |-> rob_ram[Slot(n + (j - 1))].id,
                            areg |-> Dest(rob_ram[Slot(n + (j - 1))].uop)]
    BY <1>4, <2>1
  <2> QED BY <1>5, <2>1, <2>2, <2>3
<1>8. \A j \in (count - n) + 1 .. count' : LiveQueue'[j] \in [id : Ids, areg : Regs]
  <2>1. PICK q \in Seq([id : Ids, areg : Regs]) : q = LiveQueue' /\ Len(q) = count'
    BY <1>5
  <2>2. ASSUME NEW j \in (count - n) + 1 .. count' PROVE q[j] \in [id : Ids, areg : Regs]
    <3>1. j \in 1 .. Len(q)
      BY <1>3, <2>1
    <3> QED BY <3>1, ElementOfSeq
  <2> QED BY <2>1, <2>2
<1>9. count' - (count - n) \in 0 .. DW
  BY <1>3, RobAssumption
<1> QED BY <1>4, <1>5, <1>6, <1>7, <1>8, <1>9 DEF InOrderSpec!Cycle

\* A flush, of a redirect or of a trap, is a squash after the n retired instructions.
LEMMA FlushInOrder ==
    ASSUME TypeOK, Flush, NEW n \in 0 .. CW, n <= count, regs' = InOrderSpec!Retired(n)
    PROVE  InOrderSpec!Squash
<1>1. count' = 0
  BY DEF Flush
<1>2. LiveQueue' = <<>>
  BY <1>1 DEF LiveQueue
<1>3. Len(LiveQueue) = count
  BY QueueAt DEF QueueShape
<1> QED BY <1>2, <1>3 DEF InOrderSpec!Squash, InOrderSpec!Retire

\* Every cycle and every trap of the back end is a step of the in-order machine (rob.sv 294-452,
\* arf.sv 37-49): retirement in program order with the right results, and precise squashes.
THEOREM RobImplementsInOrder == Spec => ImplementsInOrder
<1>1. Init => InOrderSpec!IInit
  BY DEF Init, InOrderSpec!IInit, LiveQueue
<1>2. RobInv /\ [Next]_vars => [InOrderSpec!INext]_(InOrderSpec!ivars)
  <2> SUFFICES ASSUME RobInv, [Next]_vars
               PROVE  InOrderSpec!INext \/ UNCHANGED InOrderSpec!ivars
    OBVIOUS
  <2>0. TypeOK
    BY DEF RobInv
  <2>1. CASE Clock
    <3>0. PICK S \in WriteBacks : Cycle(S)
      BY <2>1 DEF Clock
    <3>1. PICK out \in ReportsOf(S), n \in 0 .. CW :
            /\ IsCommitCount(n, S, out)
            /\ \/ \E D \in Bundles : Advance(n, D, S, out)
               \/ RedirectFlush(n, S, out)
      BY <3>0 DEF Cycle
    <3>2. CASE \E D \in Bundles : Advance(n, D, S, out)
      BY <3>1, <3>2, AdvanceInOrder DEF InOrderSpec!INext
    <3>3. CASE RedirectFlush(n, S, out)
      <4>1. n <= count
        BY <2>0, <3>1, CommitBound
      <4>2. regs' = InOrderSpec!Retired(n)
        BY <3>1, <3>3, RetireInOrder DEF RedirectFlush
      <4> QED BY <2>0, <3>3, <4>1, <4>2, FlushInOrder DEF RedirectFlush, InOrderSpec!INext
    <3> QED BY <3>1, <3>2, <3>3
  <2>2. CASE ExceptionTrap \/ IrqTrap \/ IfetchTrap
    <3>1. Flush /\ regs' = regs
      BY <2>2 DEF ExceptionTrap, IrqTrap, IfetchTrap, TrapFlush
    <3>2. regs = InOrderSpec!Retired(0)
      <4>1. \A r \in Regs : {j \in 1 .. 0 : r # 0 /\ LiveQueue[j].areg = r} = {}
        OBVIOUS
      <4>2. regs = [r \in Regs |-> regs[r]]
        BY <2>0 DEF TypeOK
      <4> QED BY <4>1, <4>2 DEF InOrderSpec!Retired
    <3>3. 0 \in 0 .. CW /\ 0 <= count
      BY <2>0, RobAssumption DEF TypeOK
    <3> QED BY <2>0, <3>1, <3>2, <3>3, FlushInOrder DEF InOrderSpec!INext
  <2>3. CASE UNCHANGED vars
    BY <2>3 DEF vars, InOrderSpec!ivars, LiveQueue, Slot
  <2> QED BY <2>1, <2>2, <2>3 DEF Next
<1> QED BY <1>1, <1>2, RobInvariant, PTL DEF Spec, ImplementsInOrder, InOrderSpec!ISpec

----------------------------------------------------------------------------
(* Operand capture only restricts when a micro-op may write back.           *)

\* Every step of the operand model is a step of the ROB model.
LEMMA OperandStepIsRobStep == [ONext]_allvars => [Next]_vars
<1> SUFFICES ASSUME [ONext]_allvars PROVE Next \/ UNCHANGED vars
  OBVIOUS
<1>1. CASE OClock
  <2>1. PICK S \in WriteBacks : OCycle(S)
    BY <1>1 DEF OClock
  <2>2. Cycle(S)
    BY <2>1 DEF OCycle, Cycle
  <2> QED BY <2>2 DEF Next, Clock
<1>2. CASE OTrap
  BY <1>2 DEF OTrap, Next
<1>3. CASE UNCHANGED allvars
  BY <1>3 DEF allvars
<1> QED BY <1>1, <1>2, <1>3 DEF ONext

\* The inductive invariant of the ROB holds with operands too.
LEMMA OperandsKeepRob == OSpec => []RobInv
<1>1. OInit => RobInv
  BY RobInvInit DEF OInit
<1>2. RobInv /\ [ONext]_allvars => RobInv'
  BY RobInvNext, OperandStepIsRobStep
<1> QED BY <1>1, <1>2, PTL DEF OSpec

----------------------------------------------------------------------------
(* One cycle without a flush.                                               *)

\* The slots behind the tail are the dispatched ones, and nothing else is.
LEMMA NewIsDispatched ==
    ASSUME RobInv, NEW S \in WriteBacks, NEW out \in ReportsOf(S), NEW n \in 0 .. CW,
           IsCommitCount(n, S, out), NEW D \in Bundles, Advance(n, D, S, out), NEW x \in Slots
    PROVE  (Dist(tail_ptr, x) < Len(D)) <=> Dispatched(x, D)
<1>1. TypeOK /\ Window
  BY DEF RobInv
<1>2. n \in 0 .. count /\ Len(D) \in Nat /\ count + Len(D) <= DEPTH
  BY <1>1, CommitBound, DispatchFits DEF Advance
<1>3. /\ Dist(tail_ptr, x) \in Slots
      /\ Dist(tail_ptr, x) < Len(D) => /\ Dist(head_ptr, x) = count + Dist(tail_ptr, x)
                                       /\ ~Live(x)
      /\ Live(x)' <=> n <= Dist(head_ptr, x) /\ Dist(head_ptr, x) < count + Len(D)
  BY <1>1, <1>2, RingStep DEF Advance
<1>4. Dist(tail_ptr, x) \in Nat /\ count \in Nat
  BY <1>1, <1>3, RobAssumption DEF Slots, TypeOK
<1>5. CASE Dist(tail_ptr, x) < Len(D)
  <2>1. ~Live(x) /\ Live(x)'
    BY <1>2, <1>3, <1>4, <1>5
  <2>2. ~Retiring(x, n) /\ ~Staying(x, n, S, out)
    BY <2>1 DEF Retiring, Staying
  <2> QED BY <1>5, <2>2, AdvanceEntries
<1>6. CASE ~(Dist(tail_ptr, x) < Len(D))
  BY <1>2, <1>4, <1>6 DEF Dispatched
<1> QED BY <1>5, <1>6

\* Age is the distance from the head; a cycle lowers that of all that stays by what retires.
LEMMA AgeStep ==
    ASSUME RobInv, NEW S, NEW out, NEW n \in 0 .. CW, IsCommitCount(n, S, out),
           head_ptr' = Wrap(head_ptr + n), NEW x \in Slots
    PROVE  /\ Dist(head_ptr, x) \in Nat
           /\ Dist(head_ptr, x) >= n => Dist(head_ptr', x) = Dist(head_ptr, x) - n
<1>1. TypeOK
  BY DEF RobInv
<1>2. n \in 0 .. DEPTH /\ head_ptr \in Slots
  BY <1>1, RobAssumption DEF TypeOK
<1>3. Dist(head_ptr, x) \in Slots
  BY <1>2, RingWalk
<1>4. Dist(Wrap(head_ptr + n), x) = IF Dist(head_ptr, x) >= n THEN Dist(head_ptr, x) - n
                                    ELSE Dist(head_ptr, x) + DEPTH - n
  BY <1>2, RingShift
<1> QED BY <1>3, <1>4, RobAssumption DEF Slots

\* A station that is busy and does not write back keeps its micro-op, which does not retire.
LEMMA BusyStays ==
    ASSUME RobInv, NEW S \in WriteBacks, NEW out \in ReportsOf(S), NEW n \in 0 .. CW,
           IsCommitCount(n, S, out), NEW D \in Bundles, Advance(n, D, S, out),
           NEW x \in Slots, rs[x].busy, x \notin S
    PROVE  rs'[x] = rs[x] /\ Dist(head_ptr, x) >= n /\ ~Dispatched(x, D) /\ Live(x)
<1>1. TypeOK /\ ExecutedOnce
  BY DEF RobInv
<1>2. Live(x) /\ ~rob_ram[x].complete
  BY <1>1 DEF ExecutedOnce
<1>3. ~Dispatched(x, D)
  BY <1>2 DEF Dispatched
<1>4. ~Retiring(x, n)
  <2> SUFFICES ASSUME Retiring(x, n) PROVE FALSE
    OBVIOUS
  <2>1. Dist(head_ptr, x) \in 0 .. n - 1 /\ Slot(Dist(head_ptr, x)) = x
    BY <1>1, <1>2, LiveSlot DEF Retiring
  <2>2. rob_ram[x].complete \/ head_fast(x, S, out)
    BY <1>1, <2>1, CommitBound
  <2> QED BY <1>2, <2>2 DEF head_fast
<1>5. Staying(x, n, S, out)
  BY <1>3, <1>4, AdvanceEntries
<1>6. rs'[x] = rs[x] /\ Dist(head_ptr, x) \notin 0 .. n - 1
  BY <1>5 DEF Staying
<1>7. Dist(head_ptr, x) \in Nat
  BY <1>1, <1>2, LiveSlot
<1> QED BY <1>2, <1>3, <1>6, <1>7, RobAssumption

\* A station busy after the cycle was dispatched in it, or was busy and did not write back.
LEMMA BusyAfter ==
    ASSUME RobInv, NEW S \in WriteBacks, NEW out \in ReportsOf(S), NEW n \in 0 .. CW,
           IsCommitCount(n, S, out), NEW D \in Bundles, Advance(n, D, S, out),
           NEW x \in Slots, rs'[x].busy
    PROVE  Dispatched(x, D) \/ (rs[x].busy /\ x \notin S)
<1>1. CASE Retiring(x, n)
  BY <1>1 DEF Retiring
<1>2. CASE Staying(x, n, S, out)
  BY <1>2 DEF Staying, Idle
<1> QED BY <1>1, <1>2, AdvanceEntries

----------------------------------------------------------------------------
(* Where rename finds the producer of a source, and that it is the one program order names.     *)

\* Of several writers in a bundle or in the window the last one is well defined.
LEMMA LastWriter ==
    ASSUME NEW k \in Nat, NEW js \in SUBSET (0 .. k), NEW i \in js, \A j \in js : j <= i
    PROVE  Last(js) = i
<1>1. Last(js) \in js /\ \A j \in js : j <= Last(js)
  BY LastIsLast
<1>2. Last(js) <= i /\ i <= Last(js)
  BY <1>1
<1>3. Last(js) \in 0 .. k /\ i \in 0 .. k
  BY <1>1
<1> QED BY <1>2, <1>3

\* A source renamed inside the bundle: the tag is that of an older member, dispatched this cycle.
LEMMA InBundleSource ==
    ASSUME RobInv, NEW D \in Bundles, Len(D) \in Nat, count + Len(D) <= DEPTH,
           NEW i \in 0 .. Len(D) - 1, NEW p \in Ports, InBundle(D, i, p) # {}
    PROVE  LET j == Last(InBundle(D, i, p))
           IN  /\ j \in 0 .. i - 1
               /\ src_tag(D, i, p) \in Slots
               /\ Dist(tail_ptr, src_tag(D, i, p)) = j
               /\ ProgramValue(D, i, p) = next_id + j
<1> DEFINE js == InBundle(D, i, p)
           j == Last(js)
<1>1. js \in SUBSET (0 .. Len(D))
  BY DEF InBundle, DispWriters
<1>2. j \in js
  BY <1>1, LastIsLast
<1>3. j \in 0 .. i - 1
  BY <1>2 DEF InBundle, DispWriters
<1>4. j \in Slots /\ tail_ptr \in Slots
  BY <1>3, RobAssumption DEF RobInv, TypeOK, Slots
<1>5. src_tag(D, i, p) = Wrap(tail_ptr + j)
  BY DEF src_tag, NewTag
<1>6. src_tag(D, i, p) \in Slots /\ Dist(tail_ptr, src_tag(D, i, p)) = j
  BY <1>4, <1>5, RingWalk
<1>7. ProgramValue(D, i, p) = next_id + j
  BY DEF ProgramValue
<1> QED BY <1>3, <1>6, <1>7

\* A source renamed by the RAT: the tag is that of the youngest live writer (rename.sv, rat.sv).
LEMMA RatSource ==
    ASSUME RobInv, NEW D \in Bundles, NEW i \in 0 .. Len(D) - 1, NEW p \in Ports,
           D[i + 1].src[p] \in Regs, InBundle(D, i, p) = {}, map_table[D[i + 1].src[p]].in_rob
    PROVE  /\ src_tag(D, i, p) \in Slots
           /\ Live(src_tag(D, i, p))
           /\ ProgramValue(D, i, p) = rob_ram[src_tag(D, i, p)].id
<1> DEFINE r == D[i + 1].src[p]
           t == map_table[r].tag
<1>1. TypeOK /\ RatExact /\ count \in Nat /\ count <= DEPTH
  BY RobAssumption DEF RobInv, TypeOK
<1>2. src_tag(D, i, p) = t /\ t \in Slots
  BY <1>1 DEF src_tag, TypeOK
<1>3. PICK k \in 0 .. count - 1 : /\ t = Slot(k) /\ WriterAt(k, r)
                                  /\ \A j \in k + 1 .. count - 1 : ~WriterAt(j, r)
  BY <1>1 DEF RatExact
<1>4. k \in LiveWriters(r) /\ LiveWriters(r) \in SUBSET (0 .. count)
  BY <1>1, <1>3 DEF LiveWriters
<1>5. \A j \in LiveWriters(r) : j <= k
  BY <1>1, <1>3 DEF LiveWriters
<1>6. Last(LiveWriters(r)) = k
  <2> HIDE DEF r
  <2> QED BY <1>1, <1>4, <1>5, LastWriter
<1>7. ProgramValue(D, i, p) = rob_ram[Slot(k)].id
  <2>1. LiveWriters(D[i + 1].src[p]) # {} /\ Last(LiveWriters(D[i + 1].src[p])) = k
    BY <1>4, <1>6
  <2> QED BY <2>1 DEF ProgramValue
<1>8. k \in Slots
  BY <1>1, RobAssumption DEF Slots
<1>9. Dist(head_ptr, Slot(k)) = k
  BY <1>1, <1>8, RingWalk DEF TypeOK, Slot
<1>10. Live(t)
  BY <1>1, <1>3, <1>9 DEF Live
<1> QED BY <1>2, <1>3, <1>7, <1>10

\* A source the RAT sends to the register file: no live writer, so the commit bypass is idle too.
LEMMA ArfSource ==
    ASSUME RobInv, NEW S \in WriteBacks, NEW out, NEW n \in 0 .. CW, IsCommitCount(n, S, out),
           NEW D \in Bundles, NEW i \in 0 .. Len(D) - 1, NEW p \in Ports,
           D[i + 1].src[p] \in Regs, InBundle(D, i, p) = {}, ~map_table[D[i + 1].src[p]].in_rob
    PROVE  /\ ProgramValue(D, i, p) = regs[D[i + 1].src[p]]
           /\ arf_bypass(D[i + 1].src[p], n, S, out) = regs[D[i + 1].src[p]]
<1> DEFINE r == D[i + 1].src[p]
<1>1. TypeOK /\ RatExact
  BY DEF RobInv
<1>2. \A j \in 0 .. count - 1 : ~WriterAt(j, r)
  BY <1>1 DEF RatExact
<1>3. LiveWriters(r) = {}
  BY <1>2 DEF LiveWriters
<1>4. ProgramValue(D, i, p) = regs[r]
  BY <1>3 DEF ProgramValue
<1>5. n \in 0 .. count /\ count \in Nat
  BY <1>1, CommitBound, RobAssumption DEF TypeOK
<1>6. \A j \in 0 .. n - 1 : ~WriterAt(j, r)
  BY <1>2, <1>5
<1>7. RegsAfter(n, S, out)[r] = regs[r]
  <2> HIDE DEF r
  <2>1. r \in Regs
    BY DEF r
  <2> QED BY <1>6, <2>1, RegsStep
<1> QED BY <1>4, <1>7 DEF arf_bypass

----------------------------------------------------------------------------
(* The operand a micro-op is dispatched with.                               *)

OperandSet == [r : BOOLEAN, q : Slots, v : Ids]

\* A live entry the query port answers for yields its own result, on the fast path or stored.
LEMMA QueryOwn ==
    ASSUME RobInv, NEW S \in WriteBacks, NEW out, NEW t \in Slots, Live(t)
    PROVE  /\ query_ready(t, S, out) => query_data(t, S, out) = rob_ram[t].id
           /\ ~query_ready(t, S, out) => rs[t].busy /\ rs[t].id = rob_ram[t].id
<1>1. TypeOK /\ Window /\ ExecutedOnce
  BY DEF RobInv
<1>2. rob_ram[t].valid
  BY <1>1 DEF Window
<1>3. OnFastPath(t, S, out) => rs[t].id = rob_ram[t].id
  BY <1>1, WriteBackLive DEF OnFastPath
<1>4. rob_ram[t].complete => rob_ram[t].data = rob_ram[t].id
  BY <1>1 DEF ExecutedOnce
<1>5. ~rob_ram[t].complete => rs[t].busy /\ rs[t].id = rob_ram[t].id
  BY <1>1 DEF ExecutedOnce
<1> QED BY <1>2, <1>3, <1>4, <1>5 DEF query_ready, query_data

\* A source whose producer is in the same bundle waits for it.
LEMMA ReadInBundle ==
    ASSUME RobInv, NEW S \in WriteBacks, NEW out \in ReportsOf(S), NEW n \in 0 .. CW,
           IsCommitCount(n, S, out), NEW D \in Bundles, Advance(n, D, S, out),
           NEW x \in Slots, Dispatched(x, D), NEW p \in Ports, NEW e,
           InBundle(D, Dist(tail_ptr, x), p) # {}
    PROVE  \E t \in Slots :
              /\ AtEdge(ReadOperand(D, Dist(tail_ptr, x), p, e, n, S, out), x, S)
                    = [r |-> FALSE, q |-> t, v |-> 0]
              /\ rs'[t].busy /\ rs'[t].id = ProgramValue(D, Dist(tail_ptr, x), p)
              /\ rs'[t].id \in Ids
              /\ Dist(head_ptr', t) < Dist(head_ptr', x)
<1> DEFINE i == Dist(tail_ptr, x)
           t == src_tag(D, i, p)
           j == Last(InBundle(D, i, p))
<1>1. TypeOK /\ Window /\ ExecutedOnce
  BY DEF RobInv
<1>2. /\ Len(D) \in Nat /\ count + Len(D) <= DEPTH /\ n \in 0 .. count /\ count \in Nat
  BY <1>1, AdvanceSlot
<1>3. i \in 0 .. Len(D) - 1 /\ Dist(head_ptr, x) = count + i
  BY DEF Dispatched
<1>4. /\ j \in 0 .. i - 1 /\ t \in Slots /\ Dist(tail_ptr, t) = j
      /\ ProgramValue(D, i, p) = next_id + j
  BY <1>2, <1>3, InBundleSource
<1>5. Dist(tail_ptr, t) < Len(D)
  <2> HIDE DEF i, j, t
  <2> QED BY <1>2, <1>3, <1>4
<1>6. Dispatched(t, D)
  BY <1>4, <1>5, NewIsDispatched
<1>7. ~Live(t) /\ Dist(head_ptr, t) = count + j /\ rs'[t] = [busy |-> TRUE, id |-> next_id + j]
  BY <1>4, <1>6 DEF Dispatched
<1>8. t \notin S
  BY <1>1, <1>7, WriteBackLive
<1>9. ReadOperand(D, i, p, e, n, S, out) = [r |-> FALSE, q |-> t, v |-> 0]
  BY <1>5 DEF ReadOperand, tag_allocated, in_rob
<1>10. AtEdge(ReadOperand(D, i, p, e, n, S, out), x, S) = [r |-> FALSE, q |-> t, v |-> 0]
  BY <1>8, <1>9 DEF AtEdge, cdb_hit
<1>11. Dist(head_ptr', t) < Dist(head_ptr', x)
  <2>1. head_ptr' = Wrap(head_ptr + n)
    BY DEF Advance
  <2>2. Dist(head_ptr, t) >= n /\ Dist(head_ptr, x) >= n
    BY <1>2, <1>3, <1>4, <1>7
  <2>3. /\ Dist(head_ptr', t) = Dist(head_ptr, t) - n
        /\ Dist(head_ptr', x) = Dist(head_ptr, x) - n
    BY <1>4, <2>1, <2>2, AgeStep
  <2> HIDE DEF i, j, t
  <2> QED BY <1>2, <1>3, <1>4, <1>7, <2>3
<1>12. rs'[t].id \in Ids
  <2>1. TypeOK'
    BY AdvanceType
  <2> QED BY <1>4, <2>1 DEF TypeOK
<1>13. rs'[t].busy /\ rs'[t].id = ProgramValue(D, i, p)
  BY <1>4, <1>7
<1> HIDE DEF t
<1> QED BY <1>4, <1>10, <1>11, <1>12, <1>13

\* A source whose producer is live reads its result if the query port has it, takes it from the
\* bus if it is there this cycle, and waits for it otherwise.
LEMMA ReadFromRob ==
    ASSUME RobInv, NEW S \in WriteBacks, NEW out \in ReportsOf(S), NEW n \in 0 .. CW,
           IsCommitCount(n, S, out), NEW D \in Bundles, Advance(n, D, S, out),
           NEW x \in Slots, Dispatched(x, D), NEW p \in Ports, NEW e,
           D[Dist(tail_ptr, x) + 1].src[p] \in Regs,
           InBundle(D, Dist(tail_ptr, x), p) = {},
           map_table[D[Dist(tail_ptr, x) + 1].src[p]].in_rob
    PROVE  \E t \in Slots :
              LET o == AtEdge(ReadOperand(D, Dist(tail_ptr, x), p, e, n, S, out), x, S)
                  w == ProgramValue(D, Dist(tail_ptr, x), p)
              IN  /\ w \in Ids /\ Live(t)
                  /\ \/ /\ o = [r |-> FALSE, q |-> t, v |-> 0]
                        /\ rs'[t].busy /\ rs'[t].id = w
                        /\ Dist(head_ptr', t) < Dist(head_ptr', x)
                     \/ o = [r |-> TRUE, q |-> 0, v |-> w]
                     \/ /\ fetch_epoch[t] # e
                        /\ \E v \in Ids : o = [r |-> TRUE, q |-> 0, v |-> v]
<1> DEFINE i == Dist(tail_ptr, x)
           r == D[i + 1].src[p]
           t == src_tag(D, i, p)
           w == ProgramValue(D, i, p)
           o == AtEdge(ReadOperand(D, i, p, e, n, S, out), x, S)
<1>1. TypeOK /\ Window /\ ExecutedOnce
  BY DEF RobInv
<1>2. /\ Len(D) \in Nat /\ count + Len(D) <= DEPTH /\ n \in 0 .. count /\ count \in Nat
  BY <1>1, AdvanceSlot
<1>3. i \in 0 .. Len(D) - 1 /\ Dist(head_ptr, x) = count + i
  BY DEF Dispatched
<1>4. t \in Slots /\ Live(t) /\ w = rob_ram[t].id
  BY <1>3, RatSource
<1>5. w \in Ids
  BY <1>1, <1>4 DEF TypeOK, Entry
<1>6. ~tag_allocated(t, D)
  <2>1. ~Dispatched(t, D)
    BY <1>4 DEF Dispatched
  <2> QED BY <1>4, <2>1, NewIsDispatched DEF tag_allocated
<1>7. in_rob(D, i, p)
  BY DEF in_rob
<1>8. Dist(head_ptr, t) \in 0 .. count - 1
  BY <1>1, <1>4, LiveSlot
<1>9. CASE query_ready(t, S, out)
  <2>1. query_data(t, S, out) = w
    BY <1>4, <1>9, QueryOwn
  <2>2. arf_bypass(r, n, S, out) \in Ids
    <3> HIDE DEF r
    <3>1. r \in Regs
      BY DEF r
    <3> QED BY <3>1, RegsAfterType DEF arf_bypass
  <2>3. ReadOperand(D, i, p, e, n, S, out) =
            [r |-> TRUE, q |-> 0, v |-> IF fetch_epoch[t] = e THEN w ELSE arf_bypass(r, n, S, out)]
    BY <1>6, <1>7, <1>9, <2>1 DEF ReadOperand
  <2>4. o = [r |-> TRUE, q |-> 0, v |-> IF fetch_epoch[t] = e THEN w ELSE arf_bypass(r, n, S, out)]
    BY <2>3 DEF AtEdge
  <2>5. CASE fetch_epoch[t] = e
    BY <1>4, <1>5, <2>4, <2>5
  <2>6. CASE fetch_epoch[t] # e
    <3>1. o = [r |-> TRUE, q |-> 0, v |-> arf_bypass(r, n, S, out)]
      BY <2>4, <2>6
    <3> HIDE DEF o, t, w, r
    <3>2. \E v \in Ids : o = [r |-> TRUE, q |-> 0, v |-> v]
      BY <2>2, <3>1
    <3>3. \E y \in Slots : /\ w \in Ids /\ Live(y) /\ fetch_epoch[y] # e
                           /\ \E v \in Ids : o = [r |-> TRUE, q |-> 0, v |-> v]
      BY <1>4, <1>5, <2>6, <3>2
    <3> QED BY <3>3 DEF o, w
  <2> QED BY <2>5, <2>6
<1>10. CASE ~query_ready(t, S, out)
  <2>1. rs[t].busy /\ rs[t].id = w
    BY <1>4, <1>10, QueryOwn
  <2>2. ReadOperand(D, i, p, e, n, S, out) = [r |-> FALSE, q |-> t, v |-> 0]
    BY <1>7, <1>10 DEF ReadOperand
  <2>3. CASE t \in S
    <3>1. cdb_hit(t, x, S)
      <4> HIDE DEF i, t
      <4> QED BY <1>2, <1>3, <1>8, <2>3 DEF cdb_hit
    <3>2. o = [r |-> TRUE, q |-> 0, v |-> w]
      <4> HIDE DEF t, w
      <4>1. /\ ~ReadOperand(D, i, p, e, n, S, out).r
            /\ ReadOperand(D, i, p, e, n, S, out).q = t
        BY <2>2
      <4> QED BY <2>1, <3>1, <4>1 DEF AtEdge
    <3> QED BY <1>4, <1>5, <3>2
  <2>4. CASE t \notin S
    <3>1. o = [r |-> FALSE, q |-> t, v |-> 0]
      BY <2>2, <2>4 DEF AtEdge, cdb_hit
    <3>2. rs'[t] = rs[t] /\ Dist(head_ptr, t) >= n
      BY <1>4, <2>1, <2>4, BusyStays
    <3>3. head_ptr' = Wrap(head_ptr + n) /\ Dist(head_ptr, x) >= n
      BY <1>2, <1>3 DEF Advance
    <3>4. /\ Dist(head_ptr', t) = Dist(head_ptr, t) - n
          /\ Dist(head_ptr', x) = Dist(head_ptr, x) - n
      BY <1>4, <3>2, <3>3, AgeStep
    <3>5. Dist(head_ptr', t) < Dist(head_ptr', x)
      <4> HIDE DEF i, t
      <4> QED BY <1>2, <1>3, <1>8, <3>4
    <3>6. rs'[t].busy /\ rs'[t].id = w
      BY <2>1, <3>2
    <3> QED BY <1>4, <1>5, <3>1, <3>5, <3>6
  <2> QED BY <2>3, <2>4
<1> QED BY <1>9, <1>10

\* A source without a producer in flight reads the register file.
LEMMA ReadFromArf ==
    ASSUME RobInv, NEW S \in WriteBacks, NEW out \in ReportsOf(S), NEW n \in 0 .. CW,
           IsCommitCount(n, S, out), NEW D \in Bundles, Advance(n, D, S, out),
           NEW x \in Slots, Dispatched(x, D), NEW p \in Ports, NEW e,
           D[Dist(tail_ptr, x) + 1].src[p] \in Regs,
           InBundle(D, Dist(tail_ptr, x), p) = {},
           ~map_table[D[Dist(tail_ptr, x) + 1].src[p]].in_rob
    PROVE  /\ ProgramValue(D, Dist(tail_ptr, x), p) \in Ids
           /\ AtEdge(ReadOperand(D, Dist(tail_ptr, x), p, e, n, S, out), x, S)
                = [r |-> TRUE, q |-> 0, v |-> ProgramValue(D, Dist(tail_ptr, x), p)]
<1> DEFINE i == Dist(tail_ptr, x)
           r == D[i + 1].src[p]
<1>1. i \in 0 .. Len(D) - 1
  BY DEF Dispatched
<1>2. ProgramValue(D, i, p) = regs[r] /\ arf_bypass(r, n, S, out) = regs[r]
  BY <1>1, ArfSource
<1>3. regs[r] \in Ids
  BY DEF RobInv, TypeOK
<1>4. ~in_rob(D, i, p)
  BY DEF in_rob
<1>5. ReadOperand(D, i, p, e, n, S, out) = [r |-> TRUE, q |-> 0, v |-> regs[r]]
  BY <1>2, <1>4 DEF ReadOperand
<1> QED BY <1>2, <1>3, <1>5 DEF AtEdge

\* Every operand a micro-op is dispatched with is right: it waits for the producer program order
\* names, or it holds its result, as long as all live micro-ops are of the reader's epoch.
LEMMA ReadRight ==
    ASSUME RobInv, NEW S \in WriteBacks, NEW out \in ReportsOf(S), NEW n \in 0 .. CW,
           IsCommitCount(n, S, out), NEW D \in Bundles, Advance(n, D, S, out),
           NEW x \in Slots, Dispatched(x, D), NEW p \in Ports, NEW e
    PROVE  LET o == AtEdge(ReadOperand(D, Dist(tail_ptr, x), p, e, n, S, out), x, S)
               w == ProgramValue(D, Dist(tail_ptr, x), p)
           IN  /\ w \in Ids /\ o \in OperandSet
               /\ ~o.r => /\ rs'[o.q].busy /\ rs'[o.q].id = w
                          /\ Dist(head_ptr', o.q) < Dist(head_ptr', x)
               /\ o.r /\ (\A t \in Slots : Live(t) => fetch_epoch[t] = e) => o.v = w
<1> DEFINE i == Dist(tail_ptr, x)
           o == AtEdge(ReadOperand(D, i, p, e, n, S, out), x, S)
           w == ProgramValue(D, i, p)
<1>1. 0 \in Slots /\ 0 \in Ids
  BY RobAssumption DEF Slots, Ids
<1>2. D[i + 1].src[p] \in Regs
  <2>1. TypeOK /\ i \in 0 .. Len(D) - 1
    BY DEF RobInv, Dispatched
  <2>2. D[i + 1] \in Uops
    BY <2>1, BundleType
  <2> QED BY <2>2, OperandsAssumption
<1>3. CASE InBundle(D, i, p) # {}
  <2>1. PICK t \in Slots : /\ o = [r |-> FALSE, q |-> t, v |-> 0]
                           /\ rs'[t].busy /\ rs'[t].id = w /\ rs'[t].id \in Ids
                           /\ Dist(head_ptr', t) < Dist(head_ptr', x)
    BY <1>3, ReadInBundle
  <2> HIDE DEF o, w
  <2>2. ~o.r /\ o.q = t /\ o \in OperandSet /\ w \in Ids
    BY <1>1, <2>1 DEF OperandSet
  <2> QED BY <2>1, <2>2 DEF o, w
<1>4. CASE InBundle(D, i, p) = {} /\ map_table[D[i + 1].src[p]].in_rob
  <2>1. PICK t \in Slots :
            /\ w \in Ids /\ Live(t)
            /\ \/ /\ o = [r |-> FALSE, q |-> t, v |-> 0]
                  /\ rs'[t].busy /\ rs'[t].id = w
                  /\ Dist(head_ptr', t) < Dist(head_ptr', x)
               \/ o = [r |-> TRUE, q |-> 0, v |-> w]
               \/ /\ fetch_epoch[t] # e
                  /\ \E v \in Ids : o = [r |-> TRUE, q |-> 0, v |-> v]
    BY <1>2, <1>4, ReadFromRob
  <2> HIDE DEF o, w
  <2>2. CASE /\ o = [r |-> FALSE, q |-> t, v |-> 0]
             /\ rs'[t].busy /\ rs'[t].id = w
             /\ Dist(head_ptr', t) < Dist(head_ptr', x)
    <3>1. ~o.r /\ o.q = t /\ o \in OperandSet
      BY <1>1, <2>2 DEF OperandSet
    <3> QED BY <2>1, <2>2, <3>1 DEF o, w
  <2>3. CASE o = [r |-> TRUE, q |-> 0, v |-> w]
    <3>1. o.r /\ o.v = w /\ o \in OperandSet
      BY <1>1, <2>1, <2>3 DEF OperandSet
    <3> QED BY <2>1, <3>1 DEF o, w
  <2>4. CASE fetch_epoch[t] # e /\ \E v \in Ids : o = [r |-> TRUE, q |-> 0, v |-> v]
    <3>1. o.r /\ o \in OperandSet
      BY <1>1, <2>4 DEF OperandSet
    <3> QED BY <2>1, <2>4, <3>1 DEF o, w
  <2> QED BY <2>1, <2>2, <2>3, <2>4
<1>5. CASE InBundle(D, i, p) = {} /\ ~map_table[D[i + 1].src[p]].in_rob
  <2>1. w \in Ids /\ o = [r |-> TRUE, q |-> 0, v |-> w]
    BY <1>2, <1>5, ReadFromArf
  <2> HIDE DEF o, w
  <2>2. o.r /\ o.v = w /\ o \in OperandSet
    BY <1>1, <2>1 DEF OperandSet
  <2> QED BY <2>1, <2>2 DEF o, w
<1> QED BY <1>3, <1>4, <1>5

----------------------------------------------------------------------------
(* The operands a station holds after the clock edge.                       *)

\* What DispatchOperands leaves for each station and port.
LEMMA OperandAfter ==
    ASSUME RobInv, NEW S \in WriteBacks, NEW out \in ReportsOf(S), NEW n \in 0 .. CW,
           IsCommitCount(n, S, out), NEW D \in Bundles, Advance(n, D, S, out),
           OTypeOK, NEW k, DispatchOperands(n, D, S, out, k), NEW x \in Slots, NEW p \in Ports
    PROVE  /\ Dispatched(x, D) =>
                /\ opnd'[x][p] = AtEdge(ReadOperand(D, Dist(tail_ptr, x), p,
                                            EpochOf(Dist(tail_ptr, x), k), n, S, out), x, S)
                /\ want'[x][p] = ProgramValue(D, Dist(tail_ptr, x), p)
           /\ ~Dispatched(x, D) /\ rs[x].busy /\ x \notin S =>
                /\ opnd'[x][p] = AtEdge(opnd[x][p], x, S)
                /\ want'[x][p] = want[x][p]
           /\ ~Dispatched(x, D) /\ ~(rs[x].busy /\ x \notin S) =>
                opnd'[x][p] = NoOperand /\ want'[x][p] \in Ids
<1>1. (Dist(tail_ptr, x) < Len(D)) <=> Dispatched(x, D)
  BY NewIsDispatched
<1>2. opnd'[x][p] = IF Dist(tail_ptr, x) < Len(D)
                    THEN AtEdge(ReadOperand(D, Dist(tail_ptr, x), p,
                                    EpochOf(Dist(tail_ptr, x), k), n, S, out), x, S)
                    ELSE IF rs[x].busy /\ x \notin S THEN AtEdge(opnd[x][p], x, S)
                    ELSE NoOperand
  BY DEF DispatchOperands
<1>3. want'[x][p] = IF Dist(tail_ptr, x) < Len(D) THEN ProgramValue(D, Dist(tail_ptr, x), p)
                    ELSE IF x \in S THEN 0 ELSE want[x][p]
  BY DEF DispatchOperands
<1>4. want[x][p] \in Ids /\ 0 \in Ids
  BY RobAssumption DEF OTypeOK, Ids
<1> QED BY <1>1, <1>2, <1>3, <1>4

\* A station that waits sees its producer on the bus or goes on waiting for it.
LEMMA HeldRight ==
    ASSUME RobInv, NEW S \in WriteBacks, NEW out \in ReportsOf(S), NEW n \in 0 .. CW,
           IsCommitCount(n, S, out), NEW D \in Bundles, Advance(n, D, S, out),
           OTypeOK, WaitsForLiveProducer,
           NEW x \in Slots, NEW p \in Ports, rs[x].busy, x \notin S
    PROVE  LET o == opnd[x][p]
               e == AtEdge(opnd[x][p], x, S)
           IN  /\ e \in OperandSet
               /\ ~e.r => /\ rs'[e.q].busy /\ rs'[e.q].id = want[x][p]
                          /\ Dist(head_ptr', e.q) < Dist(head_ptr', x)
               /\ (o.r => o.v = want[x][p]) /\ e.r => e.v = want[x][p]
<1> DEFINE o == opnd[x][p]
           e == AtEdge(o, x, S)
           q == o.q
<1>1. TypeOK /\ ExecutedOnce
  BY DEF RobInv
<1>2. o \in OperandSet
  BY DEF OTypeOK, OperandSet
<1>3. q \in Slots /\ rs[q].id \in Ids /\ 0 \in Slots
  BY <1>1, <1>2, RobAssumption DEF OperandSet, TypeOK, Slots
<1>4. CASE o.r
  <2>1. e = o
    BY <1>4 DEF AtEdge
  <2> QED BY <1>2, <1>4, <2>1
<1>5. CASE ~o.r
  <2>1. /\ rs[q].busy /\ rs[q].id = want[x][p]
        /\ Dist(head_ptr, q) < Dist(head_ptr, x)
    BY <1>5 DEF WaitsForLiveProducer
  <2>2. CASE q \in S
    <3>1. cdb_hit(q, x, S)
      BY <2>1, <2>2 DEF cdb_hit
    <3>2. e = [r |-> TRUE, q |-> 0, v |-> rs[q].id]
      BY <1>5, <3>1 DEF AtEdge
    <3> HIDE DEF e, o, q
    <3>3. e \in OperandSet /\ e.r /\ e.v = want[x][p]
      BY <1>3, <2>1, <3>2 DEF OperandSet
    <3> QED BY <3>3 DEF e, o
  <2>3. CASE q \notin S
    <3>1. e = o
      BY <2>3 DEF AtEdge, cdb_hit
    <3>2. rs'[q] = rs[q] /\ Dist(head_ptr, q) >= n
      BY <1>3, <2>1, <2>3, BusyStays
    <3>3. Dist(head_ptr, x) >= n /\ head_ptr' = Wrap(head_ptr + n)
      BY BusyStays DEF Advance
    <3>4. /\ Dist(head_ptr, q) \in Nat /\ Dist(head_ptr, x) \in Nat
          /\ Dist(head_ptr', q) = Dist(head_ptr, q) - n
          /\ Dist(head_ptr', x) = Dist(head_ptr, x) - n
      BY <1>3, <3>2, <3>3, AgeStep
    <3>5. Dist(head_ptr', q) < Dist(head_ptr', x)
      <4> HIDE DEF q
      <4> QED BY <2>1, <3>4, RobAssumption
    <3> QED BY <1>2, <1>5, <2>1, <3>1, <3>2, <3>5
  <2> QED BY <2>2, <2>3
<1> QED BY <1>4, <1>5

\* A cycle without a flush keeps operands well formed and every waiting station on a live producer.
LEMMA AdvanceWaits ==
    ASSUME RobInv, NEW S \in WriteBacks, NEW out \in ReportsOf(S), NEW n \in 0 .. CW,
           IsCommitCount(n, S, out), NEW D \in Bundles, Advance(n, D, S, out),
           OTypeOK, WaitsForLiveProducer, NEW k, DispatchOperands(n, D, S, out, k)
    PROVE  OTypeOK' /\ WaitsForLiveProducer'
<1>1. ASSUME NEW x \in Slots, NEW p \in Ports
      PROVE  /\ opnd'[x][p] \in OperandSet /\ want'[x][p] \in Ids
             /\ rs'[x].busy /\ ~opnd'[x][p].r =>
                    /\ rs'[opnd'[x][p].q].busy /\ rs'[opnd'[x][p].q].id = want'[x][p]
                    /\ Dist(head_ptr', opnd'[x][p].q) < Dist(head_ptr', x)
  <2>1. CASE Dispatched(x, D)
    <3> DEFINE o == AtEdge(ReadOperand(D, Dist(tail_ptr, x), p,
                                       EpochOf(Dist(tail_ptr, x), k), n, S, out), x, S)
               w == ProgramValue(D, Dist(tail_ptr, x), p)
    <3>1. opnd'[x][p] = o /\ want'[x][p] = w
      BY <2>1, OperandAfter
    <3>2. /\ w \in Ids /\ o \in OperandSet
          /\ ~o.r => /\ rs'[o.q].busy /\ rs'[o.q].id = w
                     /\ Dist(head_ptr', o.q) < Dist(head_ptr', x)
      BY <2>1, ReadRight
    <3> HIDE DEF o, w
    <3> QED BY <3>1, <3>2
  <2>2. CASE ~Dispatched(x, D) /\ rs[x].busy /\ x \notin S
    <3> DEFINE o == AtEdge(opnd[x][p], x, S)
    <3>1. opnd'[x][p] = o /\ want'[x][p] = want[x][p]
      BY <2>2, OperandAfter
    <3>2. /\ o \in OperandSet
          /\ ~o.r => /\ rs'[o.q].busy /\ rs'[o.q].id = want[x][p]
                     /\ Dist(head_ptr', o.q) < Dist(head_ptr', x)
      BY <2>2, HeldRight
    <3>3. want[x][p] \in Ids
      BY DEF OTypeOK
    <3> HIDE DEF o
    <3> QED BY <3>1, <3>2, <3>3
  <2>3. CASE ~Dispatched(x, D) /\ ~(rs[x].busy /\ x \notin S)
    <3>1. opnd'[x][p] = NoOperand /\ want'[x][p] \in Ids
      BY <2>3, OperandAfter
    <3>2. ~rs'[x].busy
      BY <2>3, BusyAfter
    <3> QED BY <3>1, <3>2, RobAssumption DEF NoOperand, OperandSet, Slots, Ids
  <2> QED BY <2>1, <2>2, <2>3
<1>2. /\ opnd' = [x \in Slots |-> [p \in Ports |-> opnd'[x][p]]]
      /\ want' = [x \in Slots |-> [p \in Ports |-> want'[x][p]]]
  BY DEF DispatchOperands
<1>3. /\ opnd' \in [Slots -> [Ports -> OperandSet]]
      /\ want' \in [Slots -> [Ports -> Ids]]
  BY <1>1, <1>2
<1>4. /\ fe_epoch' \in 0 .. EPOCHS - 1 /\ disp_epoch' \in 0 .. EPOCHS - 1
      /\ fetch_epoch' \in [Slots -> 0 .. EPOCHS - 1]
  <2>1. NextEpoch(fe_epoch) \in 0 .. EPOCHS - 1
    BY OperandsAssumption DEF OTypeOK, NextEpoch
  <2>2. \A i : EpochOf(i, k) \in 0 .. EPOCHS - 1
    BY DEF OTypeOK, EpochOf
  <2> QED BY <2>1, <2>2 DEF OTypeOK, DispatchOperands
<1>5. OTypeOK'
  BY <1>3, <1>4 DEF OTypeOK, OperandSet
<1>6. WaitsForLiveProducer'
  BY <1>1 DEF WaitsForLiveProducer
<1> QED BY <1>5, <1>6

----------------------------------------------------------------------------
(* The invariants.                                                          *)

\* A flush empties every station, so nothing waits and nothing holds an operand.
LEMMA FlushWaits ==
    ASSUME OTypeOK, Flush, FlushOperands
    PROVE  OTypeOK' /\ \A x \in Slots : ~rs'[x].busy
<1>1. \A x \in Slots : ~rs'[x].busy
  BY DEF Flush, StationsFlushed, Idle
<1>2. NextEpoch(fe_epoch) \in 0 .. EPOCHS - 1
  BY OperandsAssumption DEF OTypeOK, NextEpoch
<1>3. 0 \in Slots /\ 0 \in Ids
  BY RobAssumption DEF Slots, Ids
<1>4. NoOperand \in [r : BOOLEAN, q : Slots, v : Ids]
  BY <1>3 DEF NoOperand
<1>5. /\ opnd' \in [Slots -> [Ports -> [r : BOOLEAN, q : Slots, v : Ids]]]
      /\ want' \in [Slots -> [Ports -> Ids]]
  BY <1>3, <1>4 DEF FlushOperands
<1> QED BY <1>1, <1>2, <1>5 DEF OTypeOK, FlushOperands

\* The inductive invariant of operand capture: the ROB's, the types, and no lost wake-up.
OperandInv == RobInv /\ OTypeOK /\ WaitsForLiveProducer

\* It holds initially, when no station is busy.
LEMMA OperandInvInit == OInit => OperandInv
<1> SUFFICES ASSUME OInit PROVE OperandInv
  OBVIOUS
<1>1. RobInv
  BY RobInvInit DEF OInit
<1>2. 0 \in Slots /\ 0 \in Ids /\ 0 \in 0 .. EPOCHS - 1
  BY RobAssumption, OperandsAssumption DEF Slots, Ids
<1>3. OTypeOK
  BY <1>2 DEF OInit, OTypeOK, NoOperand
<1>4. WaitsForLiveProducer
  BY DEF OInit, Init, WaitsForLiveProducer, Idle
<1> QED BY <1>1, <1>3, <1>4 DEF OperandInv

\* Every cycle and every trap preserves it.
LEMMA OperandInvNext == OperandInv /\ [ONext]_allvars => OperandInv'
<1> SUFFICES ASSUME OperandInv, [ONext]_allvars PROVE OperandInv'
  OBVIOUS
<1>0. RobInv /\ OTypeOK /\ WaitsForLiveProducer
  BY DEF OperandInv
<1>1. RobInv'
  BY <1>0, RobInvNext, OperandStepIsRobStep
<1>2. ASSUME Flush, FlushOperands PROVE OTypeOK' /\ WaitsForLiveProducer'
  BY <1>0, <1>2, FlushWaits DEF WaitsForLiveProducer
<1>3. CASE OClock
  <2>1. PICK S \in WriteBacks : OCycle(S)
    BY <1>3 DEF OClock
  <2>2. PICK out \in ReportsOf(S), n \in 0 .. CW :
            /\ IsCommitCount(n, S, out)
            /\ \/ \E D \in Bundles : /\ Advance(n, D, S, out)
                                     /\ \E k \in 0 .. Len(D) : DispatchOperands(n, D, S, out, k)
               \/ RedirectFlush(n, S, out) /\ FlushOperands
    BY <2>1 DEF OCycle
  <2>3. CASE RedirectFlush(n, S, out) /\ FlushOperands
    BY <1>1, <1>2, <2>3 DEF RedirectFlush, OperandInv
  <2>4. CASE \E D \in Bundles : /\ Advance(n, D, S, out)
                                /\ \E k \in 0 .. Len(D) : DispatchOperands(n, D, S, out, k)
    <3>1. PICK D \in Bundles : /\ Advance(n, D, S, out)
                               /\ \E k \in 0 .. Len(D) : DispatchOperands(n, D, S, out, k)
      BY <2>4
    <3>2. PICK k \in 0 .. Len(D) : DispatchOperands(n, D, S, out, k)
      BY <3>1
    <3>3. OTypeOK' /\ WaitsForLiveProducer'
      BY <1>0, <2>2, <3>1, <3>2, AdvanceWaits
    <3> QED BY <1>1, <3>3 DEF OperandInv
  <2> QED BY <2>2, <2>3, <2>4
<1>4. CASE OTrap
  BY <1>1, <1>2, <1>4 DEF OTrap, ExceptionTrap, IrqTrap, IfetchTrap, TrapFlush, OperandInv
<1>5. CASE UNCHANGED allvars
  <2>1. UNCHANGED <<rs, head_ptr>> /\ UNCHANGED ovars
    BY <1>5 DEF allvars, vars
  <2>2. OTypeOK' /\ WaitsForLiveProducer'
    BY <1>0, <2>1 DEF ovars, OTypeOK, WaitsForLiveProducer
  <2> QED BY <1>1, <2>2 DEF OperandInv
<1> QED BY <1>3, <1>4, <1>5 DEF ONext

\* The inductive invariant holds in every reachable state.
THEOREM OperandInvariant == OSpec => []OperandInv
  BY OperandInvInit, OperandInvNext, PTL DEF OSpec

\* Type correctness of the stations' operands and of the epochs (rs.sv 55-81, backend.sv 851-954).
THEOREM OperandTypeCorrect == OSpec => []OTypeOK
<1>1. OperandInv => OTypeOK
  BY DEF OperandInv
<1> QED BY <1>1, OperandInvariant, PTL

\* No wake-up is lost, SFENCE.VMA or not: a waiting operand's tag always names the live, older,
\* unfinished producer that program order calls for (rs.sv 166-209, rename.sv).
THEOREM NoLostWakeUp == OSpec => []WaitsForLiveProducer
<1>1. OperandInv => WaitsForLiveProducer
  BY DEF OperandInv
<1> QED BY <1>1, OperandInvariant, PTL

----------------------------------------------------------------------------
(* Without SFENCE.VMA every live micro-op is of the current epoch.          *)

\* Only SFENCE.VMA restarts the front end and leaves the back end alone, and then the epoch check
\* of the operand read sends a source to the register file although its producer is in flight.
NoSfence == \A u \in Uops : ~u.is_sfence

OneEpoch ==
    /\ disp_epoch = fe_epoch
    /\ \A x \in Slots : Live(x) => fetch_epoch[x] = fe_epoch

\* A cycle without a flush keeps every live micro-op in the current epoch.
LEMMA AdvanceEpoch ==
    ASSUME RobInv, NEW S \in WriteBacks, NEW out \in ReportsOf(S), NEW n \in 0 .. CW,
           IsCommitCount(n, S, out), NEW D \in Bundles, Advance(n, D, S, out),
           NoSfence, OTypeOK, OneEpoch, NEW k, DispatchOperands(n, D, S, out, k)
    PROVE  OneEpoch' /\ fe_epoch' = fe_epoch
<1>1. ~LocalFlush(S, out)
  <2>1. \A x \in S : x \in Slots
    BY DEF WriteBacks
  <2>2. \A x \in S : rob_ram[x].uop \in Uops
    BY <2>1 DEF RobInv, TypeOK, Entry
  <2> QED BY <2>2 DEF LocalFlush, NoSfence
<1>2. fe_epoch' = fe_epoch /\ disp_epoch' = fe_epoch
  BY <1>1 DEF DispatchOperands, OneEpoch
<1>3. ASSUME NEW x \in Slots, Live(x)' PROVE fetch_epoch'[x] = fe_epoch
  <2>1. fetch_epoch'[x] = IF Dist(tail_ptr, x) < Len(D) THEN EpochOf(Dist(tail_ptr, x), k)
                          ELSE fetch_epoch[x]
    BY DEF DispatchOperands
  <2>2. CASE Dispatched(x, D)
    BY <2>1, <2>2, NewIsDispatched DEF EpochOf, OneEpoch
  <2>3. CASE ~Dispatched(x, D)
    <3>1. Staying(x, n, S, out)
      BY <1>3, <2>3, AdvanceEntries DEF Retiring
    <3>2. Live(x)
      BY <1>3, <3>1 DEF Staying
    <3> QED BY <2>1, <2>3, <3>2, NewIsDispatched DEF OneEpoch
  <2> QED BY <2>2, <2>3
<1> QED BY <1>2, <1>3 DEF OneEpoch

\* A cycle without a flush hands every station the value program order calls for.
LEMMA AdvanceValues ==
    ASSUME RobInv, NEW S \in WriteBacks, NEW out \in ReportsOf(S), NEW n \in 0 .. CW,
           IsCommitCount(n, S, out), NEW D \in Bundles, Advance(n, D, S, out),
           OTypeOK, WaitsForLiveProducer, OneEpoch, OperandIsProgramValue,
           NEW k, DispatchOperands(n, D, S, out, k)
    PROVE  OperandIsProgramValue'
<1> SUFFICES ASSUME NEW x \in Slots, NEW p \in Ports, rs'[x].busy, opnd'[x][p].r
             PROVE  opnd'[x][p].v = want'[x][p]
  BY DEF OperandIsProgramValue
<1>1. CASE Dispatched(x, D)
  <2> DEFINE e == EpochOf(Dist(tail_ptr, x), k)
             o == AtEdge(ReadOperand(D, Dist(tail_ptr, x), p, e, n, S, out), x, S)
             w == ProgramValue(D, Dist(tail_ptr, x), p)
  <2>1. opnd'[x][p] = o /\ want'[x][p] = w
    BY <1>1, OperandAfter
  <2>2. e = fe_epoch
    BY DEF EpochOf, OneEpoch
  <2>3. \A t \in Slots : Live(t) => fetch_epoch[t] = e
    BY <2>2 DEF OneEpoch
  <2>4. o.r /\ (\A t \in Slots : Live(t) => fetch_epoch[t] = e) => o.v = w
    BY <1>1, ReadRight
  <2> HIDE DEF o, w, e
  <2> QED BY <2>1, <2>3, <2>4
<1>2. CASE ~Dispatched(x, D) /\ rs[x].busy /\ x \notin S
  <2> DEFINE o == AtEdge(opnd[x][p], x, S)
  <2>1. opnd'[x][p] = o /\ want'[x][p] = want[x][p]
    BY <1>2, OperandAfter
  <2>2. opnd[x][p].r => opnd[x][p].v = want[x][p]
    BY <1>2 DEF OperandIsProgramValue
  <2>3. o.r => o.v = want[x][p]
    BY <1>2, <2>2, HeldRight
  <2> HIDE DEF o
  <2> QED BY <2>1, <2>3
<1> QED BY <1>1, <1>2, BusyAfter

\* The values' inductive invariant.
ValueInv == OneEpoch /\ OperandIsProgramValue

\* Every cycle and every trap preserves it.
LEMMA ValueInvNext ==
    ASSUME NoSfence, OperandInv, ValueInv, [ONext]_allvars
    PROVE  ValueInv'
<1>0. RobInv /\ OTypeOK /\ WaitsForLiveProducer /\ OneEpoch /\ OperandIsProgramValue
  BY DEF OperandInv, ValueInv
<1>1. RobInv'
  BY <1>0, RobInvNext, OperandStepIsRobStep
<1>2. ASSUME Flush, FlushOperands PROVE ValueInv'
  <2>1. \A x \in Slots : ~rs'[x].busy
    BY <1>0, <1>2, FlushWaits
  <2>2. OperandIsProgramValue'
    BY <2>1 DEF OperandIsProgramValue
  <2>3. \A x \in Slots : ~Live(x)'
    <3>1. head_ptr' = 0 /\ count' = 0
      BY <1>2 DEF Flush
    <3> QED BY <3>1, RobAssumption DEF Live, Dist, Slots
  <2>4. disp_epoch' = fe_epoch'
    BY <1>2 DEF FlushOperands
  <2> QED BY <2>2, <2>3, <2>4 DEF OneEpoch, ValueInv
<1>3. CASE OClock
  <2>1. PICK S \in WriteBacks : OCycle(S)
    BY <1>3 DEF OClock
  <2>2. PICK out \in ReportsOf(S), n \in 0 .. CW :
            /\ IsCommitCount(n, S, out)
            /\ \/ \E D \in Bundles : /\ Advance(n, D, S, out)
                                     /\ \E k \in 0 .. Len(D) : DispatchOperands(n, D, S, out, k)
               \/ RedirectFlush(n, S, out) /\ FlushOperands
    BY <2>1 DEF OCycle
  <2>3. CASE RedirectFlush(n, S, out) /\ FlushOperands
    BY <1>2, <2>3 DEF RedirectFlush
  <2>4. CASE \E D \in Bundles : /\ Advance(n, D, S, out)
                                /\ \E k \in 0 .. Len(D) : DispatchOperands(n, D, S, out, k)
    <3>1. PICK D \in Bundles : /\ Advance(n, D, S, out)
                               /\ \E k \in 0 .. Len(D) : DispatchOperands(n, D, S, out, k)
      BY <2>4
    <3>2. PICK k \in 0 .. Len(D) : DispatchOperands(n, D, S, out, k)
      BY <3>1
    <3>3. OneEpoch'
      BY <1>0, <2>2, <3>1, <3>2, AdvanceEpoch
    <3>4. OperandIsProgramValue'
      BY <1>0, <2>2, <3>1, <3>2, AdvanceValues
    <3> QED BY <3>3, <3>4 DEF ValueInv
  <2> QED BY <2>2, <2>3, <2>4
<1>4. CASE OTrap
  BY <1>2, <1>4 DEF OTrap, ExceptionTrap, IrqTrap, IfetchTrap, TrapFlush
<1>5. CASE UNCHANGED allvars
  <2>1. UNCHANGED <<rs, head_ptr, count>> /\ UNCHANGED ovars
    BY <1>5 DEF allvars, vars
  <2> QED BY <1>0, <2>1 DEF ovars, ValueInv, OneEpoch, OperandIsProgramValue, Live
<1> QED BY <1>3, <1>4, <1>5 DEF ONext

\* Of every program without SFENCE.VMA, each operand a station holds is the value of the youngest
\* older writer, from whichever of the bundle, the RAT, the query port, the bypass, the register
\* file or the data bus it came (backend.sv 906-952, rs.sv 166-209).
THEOREM OperandsRight == NoSfence => (OSpec => []OperandIsProgramValue)
<1> SUFFICES ASSUME NoSfence PROVE OSpec => []OperandIsProgramValue
  OBVIOUS
<1>1. OInit => ValueInv
  <2> SUFFICES ASSUME OInit PROVE ValueInv
    OBVIOUS
  <2>1. \A x \in Slots : ~rs[x].busy
    BY DEF OInit, Init, Idle
  <2>2. \A x \in Slots : ~Live(x)
    BY RobAssumption DEF OInit, Init, Live, Dist, Slots
  <2> QED BY <2>1, <2>2 DEF OInit, ValueInv, OneEpoch, OperandIsProgramValue
<1>2. OperandInv /\ ValueInv /\ [ONext]_allvars => ValueInv'
  BY ValueInvNext
<1>3. ValueInv => OperandIsProgramValue
  BY DEF ValueInv
<1> QED BY <1>1, <1>2, <1>3, OperandInvariant, PTL DEF OSpec

----------------------------------------------------------------------------
(* The machine with operand capture still implements program order.         *)

\* Every behaviour with operand capture is one of the ROB, so what is proved of the ROB holds.
THEOREM OperandsImplementRob == OSpec => Spec
<1>1. OInit => Init
  BY DEF OInit
<1> QED BY <1>1, OperandStepIsRobStep, PTL DEF OSpec, Spec
=============================================================================
