--------------------------- MODULE IngressProofs ---------------------------
(***************************************************************************)
(* Proofs about Ingress.tla, for every program, fetch width, dispatch      *)
(* width and depth of the two queues.  That the path is unbroken is proved *)
(* for programs whose instructions do not overlap and without compressed   *)
(* branches to the next instruction; that the queues never overflow and    *)
(* that every bundle fits is proved for every program.                     *)
(***************************************************************************)
EXTENDS Ingress, WellFoundedInduction, SequenceTheorems, TLAPS

-----------------------------------------------------------------------------
(* Remainders, and induction over the naturals.                            *)

\* A multiple of n closer to zero than n is zero.
LEMMA MulBound ==
    ASSUME NEW n \in Nat \ {0}, NEW k \in Int, k * n < n, -n < k * n PROVE k = 0
  <1>1. CASE k >= 1
    <2>1. PICK j \in Nat : k = j + 1
      BY <1>1
    <2>2. k * n = j * n + n /\ j * n >= 0
      BY <2>1
    <2> QED BY <2>2
  <1>2. CASE k <= -1
    <2>1. PICK j \in Nat : k = -j - 1
      BY <1>2
    <2>2. k * n = -(j * n) - n /\ j * n >= 0
      BY <2>1
    <2> QED BY <2>2
  <1> QED BY <1>1, <1>2

\* Quotient and remainder.
LEMMA ModSplit ==
    ASSUME NEW n \in Nat \ {0}, NEW x \in Int
    PROVE  x % n \in 0 .. n - 1 /\ x \div n \in Int /\ x = (x \div n) * n + (x % n)
  OBVIOUS

\* The same with names for both.
LEMMA ModForm ==
    ASSUME NEW n \in Nat \ {0}, NEW x \in Int
    PROVE  \E p \in Int, s \in 0 .. n - 1 : s = x % n /\ x = p * n + s
  <1>1. x % n \in 0 .. n - 1 /\ x \div n \in Int /\ x = (x \div n) * n + (x % n)
    BY ModSplit
  <1> WITNESS x \div n \in Int, x % n \in 0 .. n - 1
  <1> QED BY <1>1

\* They are unique.
LEMMA ModUnique ==
    ASSUME NEW n \in Nat \ {0}, NEW x \in Int, NEW q \in Int, NEW r \in 0 .. n - 1, x = q * n + r
    PROVE  x % n = r
  <1>1. PICK p \in Int, s \in 0 .. n - 1 : s = x % n /\ x = p * n + s
    BY ModForm
  <1>2. (q - p) * n = s - r
    <2>1. (q - p) * n = q * n - p * n
      OBVIOUS
    <2> QED BY <2>1, <1>1
  <1>3. q - p = 0
    BY <1>2, MulBound
  <1> QED BY <1>1, <1>2, <1>3

\* A set of numbers has a least one.
LEMMA LeastNat ==
    ASSUME NEW T, T \subseteq Nat, T # {} PROVE \E x \in T : \A y \in T : x <= y
  <1>1. PICK x \in T : \A y \in T : ~(<<y, x>> \in OpToRel(<, Nat))
    BY NatLessThanWellFounded, WFMin
  <1>2. ASSUME NEW y \in T PROVE x <= y
    <2>1. x \in Nat /\ y \in Nat
      OBVIOUS
    <2>2. y < x => <<y, x>> \in OpToRel(<, Nat)
      BY <2>1 DEF OpToRel
    <2>3. ~(y < x)
      BY <1>1, <2>2
    <2> QED BY <2>1, <2>3
  <1> QED BY <1>2

\* Induction, for a set of numbers.
LEMMA InductionOver ==
    ASSUME NEW S, 0 \in S, \A n \in Nat : n \in S => n + 1 \in S PROVE Nat \subseteq S
  <1> SUFFICES ASSUME Nat \ S # {} PROVE FALSE
    OBVIOUS
  <1>1. PICK x \in Nat \ S : \A y \in Nat \ S : x <= y
    BY LeastNat
  <1>2. x - 1 \in Nat
    BY <1>1
  <1>3. x - 1 \in S
    BY <1>1, <1>2
  <1>4. (x - 1) + 1 \in S
    BY <1>2, <1>3
  <1>5. (x - 1) + 1 = x
    BY <1>1
  <1> QED BY <1>1, <1>4, <1>5


-----------------------------------------------------------------------------
(* Addresses.                                                              *)

\* An offset from an address is an address.
LEMMA AtType == ASSUME NEW pc \in Int, NEW n \in Int PROVE At(pc, n) \in Addresses
  <1>1. HALVES \in Nat \ {0} /\ pc + n \in Int
    BY IngressAssumption
  <1>2. (pc + n) % HALVES \in 0 .. HALVES - 1
    BY <1>1, ModSplit
  <1> QED BY <1>2 DEF At, Addresses

\* Two offsets add up.
LEMMA AtAt ==
    ASSUME NEW pc \in Int, NEW m \in Int, NEW n \in Int
    PROVE  At(At(pc, m), n) = At(pc, m + n)
  <1> DEFINE H == HALVES
  <1>0. H \in Nat \ {0}
    BY IngressAssumption
  <1> HIDE DEF H
  <1>1. PICK x \in Int : x = pc + m
    OBVIOUS
  <1>2. PICK p \in Int, s \in 0 .. H - 1 : s = x % H /\ x = p * H + s
    BY <1>0, ModForm
  <1>3. PICK y \in Int : y = s + n
    BY <1>0
  <1>4. PICK q \in Int, r \in 0 .. H - 1 : r = y % H /\ y = q * H + r
    BY <1>0, ModForm
  <1>5. PICK z \in Int : z = pc + (m + n)
    OBVIOUS
  <1>6. z = (p + q) * H + r
    <2>1. (p + q) * H = p * H + q * H
      BY <1>0
    <2>2. z = x + n
      BY <1>1, <1>5
    <2>3. x = p * H + s /\ s + n = q * H + r
      BY <1>2, <1>3, <1>4
    <2> QED BY <1>0, <2>1, <2>2, <2>3
  <1>7. z % H = r
    BY <1>0, <1>6, ModUnique
  <1>8. At(pc, m) = s
    BY <1>1, <1>2 DEF At, H
  <1>9. At(s, n) = r
    BY <1>3, <1>4 DEF At, H
  <1> QED BY <1>5, <1>7, <1>8, <1>9 DEF At, H

\* No offset leads to the address itself.
LEMMA AtZero == ASSUME NEW pc \in Addresses PROVE At(pc, 0) = pc
  <1>1. HALVES \in Nat \ {0} /\ pc \in 0 .. HALVES - 1
    BY IngressAssumption DEF Addresses
  <1>2. pc = 0 * HALVES + pc /\ pc \in Int
    BY <1>1
  <1>3. pc % HALVES = pc
    BY <1>1, <1>2, ModUnique
  <1> QED BY <1>2, <1>3 DEF At

\* Types of the constants, as the proofs use them.
LEMMA Constants ==
    /\ Addresses \subseteq Int /\ Starts \subseteq Addresses /\ Wide \subseteq Addresses
    /\ DOMAIN Jumps \subseteq Starts /\ \A pc \in DOMAIN Jumps : Jumps[pc] \in Starts
    /\ \A pc \in Starts : At(pc, Size(pc)) \in Starts
    /\ FETCH_WIDTH \in Nat \ {0} /\ DISPATCH_WIDTH \in Nat \ {0}
    /\ IB_DEPTH \in Nat /\ IB_DEPTH >= 2 * FETCH_WIDTH
    /\ RENAME_PENDING_DEPTH \in Nat /\ RENAME_PENDING_DEPTH >= DISPATCH_WIDTH
    /\ 0 \in Starts
  BY IngressAssumption DEF Addresses

\* An instruction has one or two halfwords.
LEMMA SizeType == ASSUME NEW pc PROVE Size(pc) \in 1 .. 2
  BY DEF Size

-----------------------------------------------------------------------------
(* The halfwords of a bundle.                                              *)

Predictions == Slots \cup {NoSlot}

\* A bundle has an even number of halfwords, and the slot predicted taken is its last.
LEMMA HwCount ==
    ASSUME NEW slot \in Predictions
    PROVE  /\ hw_count(slot) \in 2 .. 2 * FETCH_WIDTH
           /\ \E k \in Nat : hw_count(slot) = 2 * k
           /\ slot # NoSlot => slot \in Nat /\ hw_count(slot) = 2 * slot + 2
  <1>1. CASE slot = NoSlot
    BY <1>1, Constants DEF hw_count
  <1>2. CASE slot # NoSlot
    <2>1. slot \in Nat /\ slot <= FETCH_WIDTH - 1
      BY <1>2, Constants DEF Predictions, Slots
    <2>2. hw_count(slot) = 2 * (slot + 1)
      BY <1>2 DEF hw_count
    <2> QED BY <2>1, <2>2, Constants
  <1> QED BY <1>1, <1>2

\* The prediction is an address, and where no jump is predicted the successor in memory.
LEMMA PredType ==
    ASSUME NEW pc \in Addresses, NEW slot \in Predictions, CanPredict(pc, slot), NEW i \in Slots
    PROVE  /\ fe_pred_npc(pc, slot, i) \in Addresses
           /\ i = slot => fe_pred_npc(pc, slot, i) = Jumps[SlotPc(pc, i)]
           /\ i # slot => fe_pred_npc(pc, slot, i) = At(SlotPc(pc, i), Size(SlotPc(pc, i)))
  <1>1. CASE i = slot
    <2>1. slot # NoSlot
      BY <1>1, Constants DEF Slots, NoSlot
    <2>2. SlotPc(pc, i) \in DOMAIN Jumps
      BY <1>1, <2>1 DEF CanPredict
    <2> QED BY <1>1, <2>2, Constants DEF fe_pred_npc
  <1>2. CASE i # slot
    <2>1. SlotPc(pc, i) \in Addresses
      <3>1. pc \in Int /\ 2 * i \in Int
        BY Constants DEF Slots
      <3> QED BY <3>1, AtType DEF SlotPc
    <2>2. At(SlotPc(pc, i), Size(SlotPc(pc, i))) \in Addresses
      <3>1. SlotPc(pc, i) \in Int
        BY <2>1, Constants
      <3>2. Size(SlotPc(pc, i)) \in Int
        BY SizeType
      <3> QED BY <3>1, <3>2, AtType
    <2> QED BY <1>2, <2>2 DEF fe_pred_npc
  <1> QED BY <1>1, <1>2

-----------------------------------------------------------------------------
(* Cutting: the recursive function exists, so it satisfies its equation.   *)

\* The equation of cut, for the function g.
CutBody(pc, slot, n, g, j) ==
    IF j >= n THEN [entries |-> <<>>, carry |-> <<>>]
    ELSE IF At(pc, j) \in Wide /\ j = n - 1 THEN [entries |-> <<>>, carry |-> <<At(pc, j)>>]
    ELSE LET rest == IF stop_after_this(pc, slot, j) THEN g[n] ELSE g[j + Size(At(pc, j))]
         IN  [rest EXCEPT !.entries = <<EntryAt(pc, slot, j)>> \o @]

\* What is cut from halfword j on depends on what is cut behind it only.
LEMMA CutBehind ==
    ASSUME NEW pc, NEW slot, NEW n \in Nat, NEW j \in 0 .. n + 1, NEW g, NEW h,
           \A i \in j + 1 .. n + 1 : g[i] = h[i]
    PROVE  CutBody(pc, slot, n, g, j) = CutBody(pc, slot, n, h, j)
  <1>1. CASE j >= n \/ (At(pc, j) \in Wide /\ j = n - 1)
    BY <1>1 DEF CutBody
  <1>2. CASE ~(j >= n) /\ ~(At(pc, j) \in Wide /\ j = n - 1)
    <2>1. PICK k \in 1 .. 2 : k = Size(At(pc, j))
      BY SizeType
    <2>2. n \in j + 1 .. n + 1 /\ j + k \in j + 1 .. n + 1
      BY <1>2, <2>1
    <2>3. g[n] = h[n] /\ g[j + k] = h[j + k]
      BY <2>2
    <2>4. g[j + Size(At(pc, j))] = h[j + Size(At(pc, j))]
      BY <2>1, <2>3
    <2>5. (IF stop_after_this(pc, slot, j) THEN g[n] ELSE g[j + Size(At(pc, j))])
            = (IF stop_after_this(pc, slot, j) THEN h[n] ELSE h[j + Size(At(pc, j))])
      BY <2>3, <2>4
    <2> QED BY <1>2, <2>5 DEF CutBody
  <1> QED BY <1>1, <1>2

\* The bundle is cut from halfword m on by g.
CutFrom(pc, slot, n, m, g) == \A j \in m .. n + 1 : g[j] = CutBody(pc, slot, n, g, j)

\* One halfword more.
LEMMA CutMore ==
    ASSUME NEW pc, NEW slot, NEW n \in Nat, NEW m \in 0 .. n, NEW g,
           CutFrom(pc, slot, n, m + 1, g)
    PROVE  \E h : CutFrom(pc, slot, n, m, h)
  <1> DEFINE b == CutBody(pc, slot, n, g, m)
             h == [j \in m .. n + 1 |-> IF j = m THEN b ELSE g[j]]
  <1>1. ASSUME NEW j \in m .. n + 1 PROVE h[j] = CutBody(pc, slot, n, h, j)
    <2>0. PICK f : f = h
      OBVIOUS
    <2>1. \A i \in j + 1 .. n + 1 : g[i] = f[i]
      BY <2>0
    <2>2. CutBody(pc, slot, n, g, j) = CutBody(pc, slot, n, f, j)
      BY <2>1, CutBehind
    <2>3. CASE j = m
      BY <2>0, <2>2, <2>3
    <2>4. CASE j # m
      <3>1. j \in m + 1 .. n + 1
        BY <2>4
      <3>2. g[j] = CutBody(pc, slot, n, g, j)
        BY <3>1 DEF CutFrom
      <3>3. h[j] = g[j]
        BY <2>4
      <3> QED BY <2>0, <2>2, <3>2, <3>3
    <2> QED BY <2>3, <2>4
  <1>2. CutFrom(pc, slot, n, m, h)
    BY <1>1 DEF CutFrom
  <1> QED BY <1>2

\* The whole bundle can be cut.
LEMMA CutExists ==
    ASSUME NEW pc, NEW slot, NEW n \in Nat
    PROVE  \E g : CutFrom(pc, slot, n, 0, g)
  <1> DEFINE S == {d \in Nat : d <= n + 1 => \E g : CutFrom(pc, slot, n, (n + 1) - d, g)}
  <1>1. 0 \in S
    <2>1. PICK g : g = [j \in {n + 1} |-> [entries |-> <<>>, carry |-> <<>>]]
      OBVIOUS
    <2>2. ASSUME NEW j \in (n + 1) .. n + 1 PROVE g[j] = CutBody(pc, slot, n, g, j)
      <3>1. j = n + 1 /\ j >= n
        OBVIOUS
      <3> QED BY <2>1, <3>1 DEF CutBody
    <2>3. CutFrom(pc, slot, n, n + 1, g)
      BY <2>2 DEF CutFrom
    <2>4. (n + 1) - 0 = n + 1
      OBVIOUS
    <2> QED BY <2>3, <2>4
  <1>2. ASSUME NEW d \in Nat, d \in S PROVE d + 1 \in S
    <2> SUFFICES ASSUME d + 1 <= n + 1 PROVE \E g : CutFrom(pc, slot, n, (n + 1) - (d + 1), g)
      OBVIOUS
    <2>1. PICK g : CutFrom(pc, slot, n, (n + 1) - d, g)
      BY <1>2
    <2>2. PICK m \in 0 .. n : m = (n + 1) - (d + 1) /\ m + 1 = (n + 1) - d
      OBVIOUS
    <2>3. CutFrom(pc, slot, n, m + 1, g)
      BY <2>1, <2>2
    <2>4. \E h : CutFrom(pc, slot, n, m, h)
      BY <2>3, CutMore
    <2> QED BY <2>2, <2>4
  <1> HIDE DEF S
  <1>3. n + 1 \in S
    BY <1>1, <1>2, InductionOver
  <1>4. \E g : CutFrom(pc, slot, n, (n + 1) - (n + 1), g)
    BY <1>3 DEF S
  <1>5. (n + 1) - (n + 1) = 0
    OBVIOUS
  <1> QED BY <1>4, <1>5

\* So Cut satisfies its equation.
LEMMA CutUnfold ==
    ASSUME NEW pc, NEW slot \in Predictions
    PROVE  CutFrom(pc, slot, hw_count(slot), 0, Cut(pc, slot))
  <1> DEFINE n == hw_count(slot)
             IsCut(g) == g = [j \in 0 .. n + 1 |-> CutBody(pc, slot, n, g, j)]
  <1>1. n \in Nat
    BY HwCount
  <1>2. Cut(pc, slot) = CHOOSE g : IsCut(g)
    BY DEF Cut, CutBody
  <1>3. \E g : IsCut(g)
    <2>1. PICK g : CutFrom(pc, slot, n, 0, g)
      BY <1>1, CutExists
    <2>2. PICK h : h = [j \in 0 .. n + 1 |-> g[j]]
      OBVIOUS
    <2>3. ASSUME NEW j \in 0 .. n + 1 PROVE g[j] = CutBody(pc, slot, n, h, j)
      <3>1. \A i \in j + 1 .. n + 1 : g[i] = h[i]
        BY <1>1, <2>2
      <3>2. CutBody(pc, slot, n, g, j) = CutBody(pc, slot, n, h, j)
        BY <1>1, <3>1, CutBehind
      <3> QED BY <2>1, <3>2 DEF CutFrom
    <2>4. h = [j \in 0 .. n + 1 |-> CutBody(pc, slot, n, h, j)]
      BY <2>2, <2>3
    <2> QED BY <2>4
  <1>4. IsCut(Cut(pc, slot))
    BY <1>2, <1>3
  <1> HIDE DEF n
  <1>5. ASSUME NEW j \in 0 .. n + 1
        PROVE  Cut(pc, slot)[j] = CutBody(pc, slot, n, Cut(pc, slot), j)
    BY <1>4
  <1> QED BY <1>5 DEF CutFrom, n

\* Induction from the end of a bundle to its beginning.
LEMMA Backwards ==
    ASSUME NEW n \in Nat, NEW S,
           \A j \in 0 .. n : (\A i \in j + 1 .. n : i \in S) => j \in S
    PROVE  \A j \in 0 .. n : j \in S
  <1> SUFFICES ASSUME NEW k \in 0 .. n, k \notin S PROVE FALSE
    OBVIOUS
  <1> DEFINE T == {d \in Nat : d <= n /\ n - d \notin S}
  <1>1. n - k \in T
    <2>1. n - (n - k) = k /\ n - k \in Nat /\ n - k <= n
      OBVIOUS
    <2> QED BY <2>1
  <1>2. PICK x \in T : \A y \in T : x <= y
    BY <1>1, LeastNat
  <1>3. ASSUME NEW i \in (n - x) + 1 .. n PROVE i \in S
    <2>1. n - i \in Nat /\ n - i <= n /\ n - (n - i) = i /\ ~(x <= n - i)
      BY <1>2
    <2>2. n - i \notin T
      BY <1>2, <2>1
    <2> QED BY <2>1, <2>2
  <1>4. n - x \in 0 .. n
    BY <1>2
  <1>5. n - x \in S
    BY <1>3, <1>4
  <1> QED BY <1>2, <1>5

\* The cases of the equation.
Onward(pc, slot, n, j) == IF stop_after_this(pc, slot, j) THEN n ELSE j + Size(At(pc, j))

CutCase(pc, slot, n, c, j) ==
    IF j = n THEN c[j] = [entries |-> <<>>, carry |-> <<>>]
    ELSE IF At(pc, j) \in Wide /\ j = n - 1 THEN c[j] = [entries |-> <<>>, carry |-> <<At(pc, j)>>]
    ELSE /\ Onward(pc, slot, n, j) \in j + 1 .. n
         /\ c[j] = [c[Onward(pc, slot, n, j)] EXCEPT !.entries = <<EntryAt(pc, slot, j)>> \o @]

LEMMA CutCases ==
    ASSUME NEW pc, NEW slot \in Predictions, NEW j \in 0 .. hw_count(slot)
    PROVE  CutCase(pc, slot, hw_count(slot), Cut(pc, slot), j)
  <1>0. PICK n \in Nat : n = hw_count(slot)
    BY HwCount
  <1>1. PICK c : c = Cut(pc, slot)
    OBVIOUS
  <1>2. j \in 0 .. n /\ j \in 0 .. n + 1
    BY <1>0
  <1>3. c[j] = CutBody(pc, slot, n, c, j)
    BY <1>0, <1>1, <1>2, CutUnfold DEF CutFrom
  <1>4. CASE j = n
    <2>1. j >= n
      BY <1>4
    <2> QED BY <1>0, <1>1, <1>3, <1>4, <2>1 DEF CutBody, CutCase
  <1>5. CASE j # n /\ At(pc, j) \in Wide /\ j = n - 1
    <2>1. ~(j >= n)
      BY <1>5
    <2> QED BY <1>0, <1>1, <1>3, <1>5, <2>1 DEF CutBody, CutCase
  <1>6. CASE j # n /\ ~(At(pc, j) \in Wide /\ j = n - 1)
    <2>1. ~(j >= n)
      BY <1>2, <1>6
    <2>2. PICK m : m = Onward(pc, slot, n, j)
      OBVIOUS
    <2>3. m \in j + 1 .. n
      <3>1. CASE stop_after_this(pc, slot, j)
        BY <1>2, <2>1, <2>2, <3>1 DEF Onward
      <3>2. CASE ~stop_after_this(pc, slot, j)
        <4>1. m = j + Size(At(pc, j))
          BY <2>2, <3>2 DEF Onward
        <4>2. CASE j = n - 1
          BY <1>2, <1>6, <4>1, <4>2 DEF Size
        <4>3. CASE j # n - 1
          BY <1>2, <2>1, <4>1, <4>3, SizeType
        <4> QED BY <4>2, <4>3
      <3> QED BY <3>1, <3>2
    <2>4. c[j] = [c[m] EXCEPT !.entries = <<EntryAt(pc, slot, j)>> \o @]
      <3>1. c[m] = IF stop_after_this(pc, slot, j) THEN c[n] ELSE c[j + Size(At(pc, j))]
        BY <2>2 DEF Onward
      <3> QED BY <1>3, <1>6, <2>1, <3>1 DEF CutBody
    <2> QED BY <1>0, <1>1, <1>6, <2>2, <2>3, <2>4 DEF CutCase
  <1> QED BY <1>4, <1>5, <1>6

\* The entry of a halfword is an entry.
LEMMA EntryType ==
    ASSUME NEW pc \in Addresses, NEW slot \in Predictions, CanPredict(pc, slot),
           NEW j \in 0 .. hw_count(slot) - 1
    PROVE  EntryAt(pc, slot, j) \in Entries
  <1>1. pc \in Int /\ j \in Int /\ hw_count(slot) \in 2 .. 2 * FETCH_WIDTH
    BY Constants, HwCount
  <1>2. PICK here \in Addresses : here = At(pc, j)
    BY <1>1, AtType
  <1>3. here \in Int /\ Size(here) \in Int
    BY <1>2, Constants, SizeType
  <1>4. At(here, 1) \in Addresses /\ At(here, Size(here)) \in Addresses
    BY <1>3, AtType
  <1>5. fe_pred_npc(pc, slot, j \div 2) \in Addresses
    <2>1. j \div 2 \in Slots
      <3>1. PICK k \in Nat : hw_count(slot) = 2 * k
        BY HwCount
      <3>2. j \div 2 \in 0 .. FETCH_WIDTH - 1
        BY <1>1, <3>1, Constants
      <3> QED BY <3>2 DEF Slots
    <2> QED BY <2>1, PredType
  <1>6. PICK parts : parts = IF here \in Wide THEN <<here, At(here, 1)>> ELSE <<here>>
    OBVIOUS
  <1>7. parts \in {<<a>> : a \in Addresses} \cup (Addresses \X Addresses)
    BY <1>2, <1>4, <1>6
  <1>8. PICK pred \in Addresses :
            pred = IF stop_after_this(pc, slot, j) THEN fe_pred_npc(pc, slot, j \div 2)
                   ELSE At(here, Size(here))
    BY <1>4, <1>5
  <1>9. EntryAt(pc, slot, j) = Entry(here, parts, pred)
    BY <1>2, <1>6, <1>8 DEF EntryAt
  <1> QED BY <1>2, <1>7, <1>8, <1>9 DEF Entry, Entries

-----------------------------------------------------------------------------
(* A bundle gives entries, at most one for each of its halfwords.          *)

Carries == {<<>>} \cup {<<a>> : a \in Addresses}
Chunk(c, n) == /\ c = [entries |-> c.entries, carry |-> c.carry]
               /\ c.entries \in Seq(Entries) /\ c.carry \in Carries /\ Len(c.entries) <= n

\* An entry in front of a chunk.
LEMMA ChunkCons ==
    ASSUME NEW m \in Nat, NEW n \in Nat, m < n, NEW c, Chunk(c, m), NEW e \in Entries,
           NEW d, d = [c EXCEPT !.entries = <<e>> \o @]
    PROVE  Chunk(d, n) /\ d.entries = <<e>> \o c.entries /\ d.carry = c.carry
  <1>1. PICK s \in Seq(Entries), k \in Carries : c = [entries |-> s, carry |-> k]
    BY DEF Chunk
  <1>2. Len(s) <= m
    BY <1>1 DEF Chunk
  <1>3. d = [entries |-> <<e>> \o s, carry |-> k]
    BY <1>1
  <1>4. <<e>> \o s \in Seq(Entries) /\ Len(<<e>> \o s) = Len(s) + 1 /\ Len(s) \in Nat
    OBVIOUS
  <1>5. d.entries = <<e>> \o s /\ d.carry = k /\ c.entries = s /\ c.carry = k
    BY <1>1, <1>3
  <1>6. Len(<<e>> \o s) <= n
    BY <1>2, <1>4
  <1> QED BY <1>3, <1>4, <1>5, <1>6 DEF Chunk

\* No entry at all.
LEMMA ChunkEmpty ==
    ASSUME NEW k \in Carries, NEW n \in Nat PROVE Chunk([entries |-> <<>>, carry |-> k], n)
  <1>1. PICK c : c = [entries |-> <<>>, carry |-> k]
    OBVIOUS
  <1>2. c.entries = <<>> /\ c.carry = k
    BY <1>1
  <1>3. Len(<<>>) = 0 /\ <<>> \in Seq(Entries)
    OBVIOUS
  <1>4. 0 <= n
    OBVIOUS
  <1> QED BY <1>1, <1>2, <1>3, <1>4 DEF Chunk

\* Whatever halfword cutting begins at.
LEMMA CutTyped ==
    ASSUME NEW pc \in Addresses, NEW slot \in Predictions, CanPredict(pc, slot)
    PROVE  \A j \in 0 .. hw_count(slot) : Chunk(Cut(pc, slot)[j], hw_count(slot) - j)
  <1>0. PICK n \in Nat : n = hw_count(slot)
    BY HwCount
  <1>1. PICK c : c = Cut(pc, slot)
    OBVIOUS
  <1> DEFINE S == {j \in 0 .. n : Chunk(c[j], n - j)}
  <1>2. ASSUME NEW j \in 0 .. n, \A i \in j + 1 .. n : i \in S PROVE j \in S
    <2>1. CutCase(pc, slot, n, c, j)
      BY <1>0, <1>1, CutCases
    <2>2. n - j \in Nat
      OBVIOUS
    <2>3. CASE j = n
      <3>1. c[j] = [entries |-> <<>>, carry |-> <<>>]
        BY <2>1, <2>3 DEF CutCase
      <3>2. <<>> \in Carries
        BY DEF Carries
      <3> QED BY <2>2, <3>1, <3>2, ChunkEmpty
    <2>4. CASE j # n /\ At(pc, j) \in Wide /\ j = n - 1
      <3>1. c[j] = [entries |-> <<>>, carry |-> <<At(pc, j)>>]
        BY <2>1, <2>4 DEF CutCase
      <3>2. At(pc, j) \in Addresses
        BY <2>4, Constants
      <3>3. <<At(pc, j)>> \in Carries
        BY <3>2 DEF Carries
      <3> QED BY <2>2, <3>1, <3>3, ChunkEmpty
    <2>5. CASE j # n /\ ~(At(pc, j) \in Wide /\ j = n - 1)
      <3>1. PICK m \in j + 1 .. n : m = Onward(pc, slot, n, j)
        BY <2>1, <2>5 DEF CutCase
      <3>2. c[j] = [c[m] EXCEPT !.entries = <<EntryAt(pc, slot, j)>> \o @]
        BY <2>1, <2>5, <3>1 DEF CutCase
      <3>3. Chunk(c[m], n - m) /\ n - m \in Nat /\ n - m < n - j
        BY <1>2
      <3>4. j \in 0 .. hw_count(slot) - 1
        BY <1>0, <2>5
      <3>5. EntryAt(pc, slot, j) \in Entries
        BY <3>4, EntryType
      <3> QED BY <2>2, <3>2, <3>3, <3>5, ChunkCons
    <2> QED BY <2>3, <2>4, <2>5
  <1> HIDE DEF S
  <1>3. \A j \in 0 .. n : j \in S
    BY <1>2, Backwards
  <1> QED BY <1>0, <1>1, <1>3 DEF S

\* The entries of a bundle of 32-bit instructions.
LEMMA SlotEntryAt ==
    ASSUME NEW pc \in Addresses, NEW slot \in Predictions, CanPredict(pc, slot)
    PROVE  /\ SlotEntries(pc, slot) \in Seq(Entries)
           /\ Len(SlotEntries(pc, slot)) = hw_count(slot) \div 2
           /\ \A i \in 1 .. hw_count(slot) \div 2 :
                SlotEntries(pc, slot)[i] =
                    Entry(SlotPc(pc, i - 1), <<SlotPc(pc, i - 1), At(SlotPc(pc, i - 1), 1)>>,
                          fe_pred_npc(pc, slot, i - 1))
  <1>0. PICK n \in Nat, k \in Nat : n = hw_count(slot) /\ n = 2 * k
    BY HwCount
  <1>1. hw_count(slot) \div 2 = k /\ k <= FETCH_WIDTH
    <2>1. n \div 2 = k
      BY <1>0
    <2>2. n \in 2 .. 2 * FETCH_WIDTH
      BY <1>0, HwCount
    <2>3. k <= FETCH_WIDTH
      BY <1>0, <2>2, Constants
    <2> QED BY <1>0, <2>1, <2>3
  <1> DEFINE E(i) == Entry(SlotPc(pc, i - 1), <<SlotPc(pc, i - 1), At(SlotPc(pc, i - 1), 1)>>,
                           fe_pred_npc(pc, slot, i - 1))
  <1>2. ASSUME NEW i \in 1 .. k PROVE E(i) \in Entries
    <2>1. PICK a \in Addresses : a = SlotPc(pc, i - 1)
      <3>1. pc \in Int /\ 2 * (i - 1) \in Int
        BY Constants
      <3> QED BY <3>1, AtType DEF SlotPc
    <2>2. PICK b \in Addresses : b = At(a, 1)
      <3>1. a \in Int /\ 1 \in Int
        BY Constants
      <3> QED BY <3>1, AtType
    <2>3. i - 1 \in Slots
      BY <1>1, Constants DEF Slots
    <2>4. PICK p \in Addresses : p = fe_pred_npc(pc, slot, i - 1)
      BY <2>3, PredType
    <2>5. E(i) = [pc |-> a, parts |-> <<a, b>>, pred_npc |-> p]
      BY <2>1, <2>2, <2>4 DEF Entry
    <2> HIDE DEF E
    <2> QED BY <2>5 DEF Entries
  <1>3. SlotEntries(pc, slot) = [i \in 1 .. k |-> E(i)]
    BY <1>1 DEF SlotEntries
  <1> HIDE DEF E
  <1>4. /\ SlotEntries(pc, slot) \in Seq(Entries)
        /\ Len(SlotEntries(pc, slot)) = k
        /\ \A i \in 1 .. k : SlotEntries(pc, slot)[i] = E(i)
    BY <1>2, <1>3
  <1> QED BY <1>1, <1>4 DEF E

\* What a bundle gives has its type, and is no more than the buffer has room for.
LEMMA ExpandType ==
    ASSUME ITypeOK, NEW slot \in Predictions, CanPredict(fetch_pc, slot)
    PROVE  Chunk(fe_expand(fetch_pc, slot), 2 * FETCH_WIDTH)
  <1>0. fetch_pc \in Addresses /\ carry \in Carries
    BY DEF ITypeOK, Carries
  <1>1. PICK n \in Nat : n = hw_count(slot) /\ n \in 2 .. 2 * FETCH_WIDTH
    BY HwCount
  <1>2. 0 \in 0 .. n /\ 1 \in 0 .. n /\ n - 0 = n /\ n - 1 \in Nat /\ 2 * FETCH_WIDTH \in Nat
        /\ n <= 2 * FETCH_WIDTH
    BY <1>1, Constants
  <1>3. Chunk(Cut(fetch_pc, slot)[0], n) /\ Chunk(Cut(fetch_pc, slot)[1], n - 1)
    BY <1>0, <1>1, <1>2, CutTyped
  <1>4. CASE carry = <<>> /\ WholeSlots(fetch_pc, slot)
    <2>1. fe_expand(fetch_pc, slot) = [entries |-> SlotEntries(fetch_pc, slot), carry |-> <<>>]
      BY <1>4 DEF fe_expand
    <2>2. SlotEntries(fetch_pc, slot) \in Seq(Entries)
          /\ Len(SlotEntries(fetch_pc, slot)) = hw_count(slot) \div 2
      BY <1>0, SlotEntryAt
    <2>3. n \div 2 <= 2 * FETCH_WIDTH
      BY <1>1, Constants
    <2> QED BY <1>1, <2>1, <2>2, <2>3 DEF Chunk, Carries
  <1>5. CASE carry = <<>> /\ ~WholeSlots(fetch_pc, slot)
    <2>1. fe_expand(fetch_pc, slot) = Cut(fetch_pc, slot)[0]
      BY <1>5 DEF fe_expand
    <2>2. PICK x : x = Cut(fetch_pc, slot)[0]
      OBVIOUS
    <2>3. Chunk(x, n)
      BY <1>3, <2>2
    <2>4. Len(x.entries) <= 2 * FETCH_WIDTH
      BY <1>2, <2>3, Constants DEF Chunk
    <2> QED BY <2>1, <2>2, <2>3, <2>4 DEF Chunk
  <1>6. CASE carry # <<>>
    <2>1. PICK a \in Addresses : carry = <<a>>
      BY <1>0, <1>6 DEF Carries
    <2>2. PICK b \in Addresses : b = At(a, 2)
      <3>1. a \in Int /\ 2 \in Int
        BY Constants
      <3> QED BY <3>1, AtType
    <2>3. PICK e : e = Entry(carry[1], <<carry[1], fetch_pc>>, At(carry[1], 2))
      OBVIOUS
    <2>4. e = [pc |-> a, parts |-> <<a, fetch_pc>>, pred_npc |-> b]
      BY <2>1, <2>2, <2>3 DEF Entry
    <2>5. e \in Entries
      BY <1>0, <2>4 DEF Entries
    <2>6. fe_expand(fetch_pc, slot) = [Cut(fetch_pc, slot)[1] EXCEPT !.entries = <<e>> \o @]
      BY <1>6, <2>3 DEF fe_expand
    <2>7. n - 1 < 2 * FETCH_WIDTH
      BY <1>2, Constants
    <2>8. PICK m \in Nat, N \in Nat : m = n - 1 /\ N = 2 * FETCH_WIDTH
      BY <1>2
    <2>9. PICK x, y : x = Cut(fetch_pc, slot)[1] /\ y = fe_expand(fetch_pc, slot)
      OBVIOUS
    <2>10. Chunk(x, m) /\ m < N /\ y = [x EXCEPT !.entries = <<e>> \o @]
      BY <1>3, <2>6, <2>7, <2>8, <2>9
    <2>11. Chunk(y, N)
      BY <2>5, <2>10, ChunkCons
    <2> QED BY <2>8, <2>9, <2>11
  <1> QED BY <1>4, <1>5, <1>6

-----------------------------------------------------------------------------
(* Parts of sequences.                                                     *)

\* Sequences with the same elements are the same.
LEMMA SameSeq ==
    ASSUME NEW S, NEW s \in Seq(S), NEW t \in Seq(S), Len(s) = Len(t),
           \A i \in 1 .. Len(s) : s[i] = t[i]
    PROVE  s = t
  OBVIOUS

LEMMA ConcatAt ==
    ASSUME NEW S, NEW s \in Seq(S), NEW t \in Seq(S)
    PROVE  /\ s \o t \in Seq(S) /\ Len(s \o t) = Len(s) + Len(t)
           /\ \A i \in 1 .. Len(s) : (s \o t)[i] = s[i]
           /\ \A i \in 1 .. Len(t) : (s \o t)[Len(s) + i] = t[i]
  OBVIOUS

LEMMA DropAt ==
    ASSUME NEW S, NEW s \in Seq(S), NEW n \in 0 .. Len(s)
    PROVE  /\ Drop(n, s) \in Seq(S) /\ Len(Drop(n, s)) = Len(s) - n
           /\ \A i \in 1 .. Len(s) - n : Drop(n, s)[i] = s[n + i]
  BY DEF Drop

LEMMA FirstAt ==
    ASSUME NEW S, NEW s \in Seq(S), NEW n \in Nat
    PROVE  /\ First(n, s) \in Seq(S) /\ Len(First(n, s)) = Shorter(n, Len(s))
           /\ Shorter(n, Len(s)) \in 0 .. Len(s) /\ Shorter(n, Len(s)) <= n
           /\ \A i \in 1 .. Shorter(n, Len(s)) : First(n, s)[i] = s[i]
  <1>1. PICK m \in 0 .. Len(s) : m = Shorter(n, Len(s)) /\ m <= n
    BY DEF Shorter
  <1>2. First(n, s) = SubSeq(s, 1, m)
    BY <1>1 DEF First
  <1>3. /\ SubSeq(s, 1, m) \in Seq(S) /\ Len(SubSeq(s, 1, m)) = m
        /\ \A i \in 1 .. m : SubSeq(s, 1, m)[i] = s[i]
    OBVIOUS
  <1> QED BY <1>1, <1>2, <1>3

\* What is dropped of a concatenation comes from its first part.
LEMMA DropConcat ==
    ASSUME NEW S, NEW s \in Seq(S), NEW t \in Seq(S), NEW n \in 0 .. Len(s)
    PROVE  Drop(n, s \o t) = Drop(n, s) \o t /\ n \in 0 .. Len(s \o t)
  <1>1. PICK m \in Nat, l \in Nat : m = Len(s) /\ l = Len(t)
    OBVIOUS
  <1>21. PICK u : u = s \o t
    OBVIOUS
  <1>2. /\ u = s \o t /\ u \in Seq(S) /\ Len(u) = m + l
        /\ \A i \in 1 .. m : u[i] = s[i]
        /\ \A i \in 1 .. l : u[m + i] = t[i]
    BY <1>1, <1>21, ConcatAt
  <1>3. n \in 0 .. Len(u) /\ n \in 0 .. m
    BY <1>1, <1>2
  <1>41. PICK v : v = Drop(n, u)
    OBVIOUS
  <1>4. /\ v = Drop(n, u) /\ v \in Seq(S) /\ Len(v) = (m + l) - n
        /\ \A i \in 1 .. (m + l) - n : v[i] = u[n + i]
    <2>1. u \in Seq(S) /\ n \in 0 .. Len(u)
      BY <1>2, <1>3
    <2>2. /\ Drop(n, u) \in Seq(S) /\ Len(Drop(n, u)) = Len(u) - n
          /\ \A i \in 1 .. Len(u) - n : Drop(n, u)[i] = u[n + i]
      BY <2>1, DropAt
    <2>3. Len(u) = m + l
      BY <1>2
    <2> QED BY <1>41, <2>2, <2>3
  <1>51. PICK w : w = Drop(n, s)
    OBVIOUS
  <1>5. /\ w = Drop(n, s) /\ w \in Seq(S) /\ Len(w) = m - n
        /\ \A i \in 1 .. m - n : w[i] = s[n + i]
    BY <1>1, <1>51, DropAt
  <1>61. PICK x : x = w \o t
    OBVIOUS
  <1>6. /\ x = w \o t /\ x \in Seq(S) /\ Len(x) = (m - n) + l
        /\ \A i \in 1 .. m - n : x[i] = w[i]
        /\ \A i \in 1 .. l : x[(m - n) + i] = t[i]
    <2>1. w \in Seq(S) /\ t \in Seq(S)
      BY <1>5
    <2>2. /\ w \o t \in Seq(S) /\ Len(w \o t) = Len(w) + Len(t)
          /\ \A i \in 1 .. Len(w) : (w \o t)[i] = w[i]
          /\ \A i \in 1 .. Len(t) : (w \o t)[Len(w) + i] = t[i]
      BY <2>1, ConcatAt
    <2>3. Len(w) = m - n /\ Len(t) = l
      BY <1>1, <1>5
    <2> QED BY <1>61, <2>2, <2>3
  <1>7. ASSUME NEW i \in 1 .. (m + l) - n PROVE v[i] = x[i]
    <2>1. v[i] = u[n + i]
      BY <1>4
    <2>2. CASE i <= m - n
      <3>1. n + i \in 1 .. m /\ i \in 1 .. m - n
        BY <1>3, <2>2
      <3>2. u[n + i] = s[n + i] /\ x[i] = w[i] /\ w[i] = s[n + i]
        BY <1>2, <1>5, <1>6, <3>1
      <3> QED BY <2>1, <3>2
    <2>3. CASE ~(i <= m - n)
      <3>1. PICK k \in 1 .. l : k = i - (m - n) /\ i = (m - n) + k /\ n + i = m + k
        BY <1>3, <2>3
      <3>2. u[m + k] = t[k] /\ x[(m - n) + k] = t[k]
        BY <1>2, <1>6
      <3> QED BY <2>1, <3>1, <3>2
    <2> QED BY <2>2, <2>3
  <1>8. Len(v) = Len(x) /\ \A i \in 1 .. Len(v) : v[i] = x[i]
    BY <1>3, <1>4, <1>6, <1>7
  <1>9. v = x
    <2>1. v \in Seq(S) /\ x \in Seq(S)
      BY <1>4, <1>6
    <2> QED BY <1>8, <2>1, SameSeq
  <1> QED BY <1>2, <1>3, <1>4, <1>5, <1>6, <1>9

\* The first part without its first k, and the rest, are the whole without its first k.
LEMMA DropFirst ==
    ASSUME NEW S, NEW s \in Seq(S), NEW n \in Nat, NEW k \in 0 .. Len(First(n, s))
    PROVE  Drop(k, First(n, s)) \o Drop(Len(First(n, s)), s) = Drop(k, s) /\ k \in 0 .. Len(s)
  <1>1. PICK m \in 0 .. Len(s), f \in Seq(S) : /\ f = First(n, s) /\ m = Len(f)
                                              /\ \A i \in 1 .. m : f[i] = s[i]
    <2>1. /\ First(n, s) \in Seq(S) /\ Len(First(n, s)) = Shorter(n, Len(s))
          /\ Shorter(n, Len(s)) \in 0 .. Len(s) /\ Shorter(n, Len(s)) <= n
          /\ \A i \in 1 .. Shorter(n, Len(s)) : First(n, s)[i] = s[i]
      BY FirstAt
    <2>2. \E f \in Seq(S) : f = First(n, s)
      BY <2>1
    <2> QED BY <2>1, <2>2
  <1>21. PICK g : g = Drop(m, s)
    OBVIOUS
  <1>2. /\ g = Drop(m, s) /\ g \in Seq(S) /\ Len(g) = Len(s) - m
        /\ \A i \in 1 .. Len(s) - m : g[i] = s[m + i]
    BY <1>21, DropAt
  <1>3. f \o g \in Seq(S) /\ Len(f \o g) = Len(s)
    BY <1>1, <1>2, ConcatAt
  <1>4. ASSUME NEW i \in 1 .. Len(s) PROVE (f \o g)[i] = s[i]
    <2>1. CASE i <= m
      <3>1. i \in 1 .. m
        BY <2>1
      <3> QED BY <1>1, <3>1, ConcatAt
    <2>2. CASE ~(i <= m)
      <3>1. PICK j \in 1 .. Len(s) - m : i = m + j
        BY <2>2
      <3>2. (f \o g)[m + j] = g[j]
        BY <1>1, <1>2, ConcatAt
      <3> QED BY <1>2, <3>1, <3>2
    <2> QED BY <2>1, <2>2
  <1>5. f \o g = s
    BY <1>3, <1>4, SameSeq
  <1>6. k \in 0 .. Len(f)
    BY <1>1
  <1>7. Drop(k, f \o g) = Drop(k, f) \o g /\ k \in 0 .. Len(f \o g)
    <2>1. f \in Seq(S) /\ g \in Seq(S)
      BY <1>1, <1>2
    <2> QED BY <1>6, <2>1, DropConcat
  <1> QED BY <1>1, <1>2, <1>5, <1>7

\* Dropping nothing.
LEMMA DropNone == ASSUME NEW S, NEW s \in Seq(S) PROVE Drop(0, s) = s
  <1>1. 0 \in 0 .. Len(s)
    OBVIOUS
  <1>21. PICK t : t = Drop(0, s)
    OBVIOUS
  <1>2. /\ t = Drop(0, s) /\ t \in Seq(S) /\ Len(t) = Len(s) - 0
        /\ \A i \in 1 .. Len(s) - 0 : t[i] = s[0 + i]
    BY <1>1, <1>21, DropAt
  <1>3. Len(t) = Len(s)
    BY <1>2
  <1>4. \A i \in 1 .. Len(t) : t[i] = s[i]
    BY <1>2
  <1> QED BY <1>2, <1>3, <1>4, SameSeq

\* The first part and the rest are the whole.
LEMMA FirstRest ==
    ASSUME NEW S, NEW s \in Seq(S), NEW n \in Nat
    PROVE  First(n, s) \o Drop(Len(First(n, s)), s) = s
  <1>0. First(n, s) \in Seq(S)
    BY FirstAt
  <1>1. First(n, s) \in Seq(S) /\ 0 \in 0 .. Len(First(n, s))
    <2>1. \A q \in Seq(S) : 0 \in 0 .. Len(q)
      OBVIOUS
    <2> QED BY <1>0, <2>1
  <1>2. Drop(0, First(n, s)) = First(n, s) /\ Drop(0, s) = s
    BY <1>1, DropNone
  <1>3. Drop(0, First(n, s)) \o Drop(Len(First(n, s)), s) = Drop(0, s)
    BY <1>1, DropFirst
  <1> QED BY <1>2, <1>3

-----------------------------------------------------------------------------
(* Paths: instructions from a to b, each where the one before it leads.    *)

After(s, a) == IF s = <<>> THEN a ELSE s[Len(s)].pred_npc
Path(s, a, b) ==
    /\ \A i \in 1 .. Len(s) : s[i].pc = IF i = 1 THEN a ELSE s[i - 1].pred_npc
    /\ b = After(s, a)

\* An instruction that is made of its own halfwords, and a sequence of them.
Own(e) == e.parts = IF e.pc \in Wide THEN <<e.pc, At(e.pc, 1)>> ELSE <<e.pc>>
Whole(s) == \A i \in 1 .. Len(s) : Own(s[i])

\* Nothing is a path from where it is.
LEMMA PathEmpty == ASSUME NEW a PROVE Path(<<>>, a, a) /\ Whole(<<>>)
  BY DEF Path, After, Whole

\* One instruction is a path.
LEMMA PathOne ==
    ASSUME NEW e, Own(e) PROVE Path(<<e>>, e.pc, e.pred_npc) /\ Whole(<<e>>)
  <1>1. Len(<<e>>) = 1 /\ <<e>>[1] = e /\ <<e>> # <<>>
    OBVIOUS
  <1>2. \A i \in 1 .. Len(<<e>>) : i = 1
    BY <1>1
  <1> QED BY <1>1, <1>2 DEF Path, After, Whole

\* A path behind a path.
LEMMA PathConcat ==
    ASSUME NEW S, NEW s \in Seq(S), NEW t \in Seq(S), NEW a, NEW b, NEW c,
           Path(s, a, b), Path(t, b, c)
    PROVE  Path(s \o t, a, c)
  <1>1. PICK m \in Nat, l \in Nat : m = Len(s) /\ l = Len(t)
    OBVIOUS
  <1>2. PICK u : u = s \o t
    OBVIOUS
  <1>3. /\ u \in Seq(S) /\ Len(u) = m + l
        /\ \A i \in 1 .. m : u[i] = s[i]
        /\ \A i \in 1 .. l : u[m + i] = t[i]
    <2>1. /\ s \o t \in Seq(S) /\ Len(s \o t) = Len(s) + Len(t)
          /\ \A i \in 1 .. Len(s) : (s \o t)[i] = s[i]
          /\ \A i \in 1 .. Len(t) : (s \o t)[Len(s) + i] = t[i]
      BY ConcatAt
    <2> QED BY <1>1, <1>2, <2>1
  <1>4. /\ s = <<>> <=> m = 0
        /\ t = <<>> <=> l = 0
        /\ u = <<>> <=> m + l = 0
    <2>1. \A q \in Seq(S) : q = <<>> <=> Len(q) = 0
      OBVIOUS
    <2> QED BY <1>1, <1>3, <2>1
  <1>5. b = IF m = 0 THEN a ELSE s[m].pred_npc
    BY <1>1, <1>4 DEF Path, After
  <1>6. c = IF l = 0 THEN b ELSE t[l].pred_npc
    BY <1>1, <1>4 DEF Path, After
  <1>7. ASSUME NEW i \in 1 .. m + l PROVE u[i].pc = IF i = 1 THEN a ELSE u[i - 1].pred_npc
    <2>1. CASE i <= m
      <3>1. i \in 1 .. m /\ (i # 1 => i - 1 \in 1 .. m)
        BY <2>1
      <3>2. s[i].pc = IF i = 1 THEN a ELSE s[i - 1].pred_npc
        BY <1>1, <3>1 DEF Path
      <3> QED BY <1>3, <3>1, <3>2
    <2>2. CASE ~(i <= m)
      <3>1. PICK k \in 1 .. l : i = m + k
        BY <2>2
      <3>2. t[k].pc = IF k = 1 THEN b ELSE t[k - 1].pred_npc
        BY <1>1 DEF Path
      <3>3. u[i] = t[k]
        BY <1>3, <3>1
      <3>4. CASE k = 1
        <4>1. u[i].pc = b
          BY <3>2, <3>3, <3>4
        <4>2. CASE m = 0
          BY <1>5, <3>1, <3>4, <4>1, <4>2
        <4>3. CASE m # 0
          <5>1. m \in 1 .. m /\ i - 1 = m /\ i # 1
            BY <3>1, <3>4, <4>3
          <5>2. u[m] = s[m]
            BY <1>3, <5>1
          <5> QED BY <1>5, <4>1, <4>3, <5>1, <5>2
        <4> QED BY <4>2, <4>3
      <3>5. CASE k # 1
        <4>1. k - 1 \in 1 .. l /\ m + (k - 1) = i - 1 /\ i # 1
          BY <3>1, <3>5
        <4>2. u[i - 1] = t[k - 1]
          BY <1>3, <4>1
        <4> QED BY <3>2, <3>3, <3>5, <4>1, <4>2
      <3> QED BY <3>4, <3>5
    <2> QED BY <2>1, <2>2
  <1>8. c = After(u, a)
    <2>1. CASE l # 0
      <3>1. l \in 1 .. l /\ m + l # 0
        BY <2>1
      <3>2. u[m + l] = t[l]
        BY <1>3, <3>1
      <3> QED BY <1>3, <1>4, <1>6, <2>1, <3>1, <3>2 DEF After
    <2>2. CASE l = 0 /\ m # 0
      <3>1. m \in 1 .. m /\ m + l = m
        BY <2>2
      <3>2. u[m] = s[m]
        BY <1>3, <3>1
      <3> QED BY <1>3, <1>4, <1>5, <1>6, <2>2, <3>1, <3>2 DEF After
    <2>3. CASE l = 0 /\ m = 0
      BY <1>4, <1>5, <1>6, <2>3 DEF After
    <2> QED BY <2>1, <2>2, <2>3
  <1>9. \A i \in 1 .. Len(u) : u[i].pc = IF i = 1 THEN a ELSE u[i - 1].pred_npc
    BY <1>3, <1>7
  <1> QED BY <1>2, <1>8, <1>9 DEF Path

LEMMA WholeConcat ==
    ASSUME NEW S, NEW s \in Seq(S), NEW t \in Seq(S), Whole(s), Whole(t)
    PROVE  Whole(s \o t)
  <1>1. PICK m \in Nat, l \in Nat : m = Len(s) /\ l = Len(t)
    OBVIOUS
  <1>2. PICK u : u = s \o t
    OBVIOUS
  <1>3. /\ Len(u) = m + l
        /\ \A i \in 1 .. m : u[i] = s[i]
        /\ \A i \in 1 .. l : u[m + i] = t[i]
    <2>1. /\ Len(s \o t) = Len(s) + Len(t)
          /\ \A i \in 1 .. Len(s) : (s \o t)[i] = s[i]
          /\ \A i \in 1 .. Len(t) : (s \o t)[Len(s) + i] = t[i]
      BY ConcatAt
    <2> QED BY <1>1, <1>2, <2>1
  <1>4. ASSUME NEW i \in 1 .. m + l PROVE Own(u[i])
    <2>1. CASE i <= m
      <3>1. i \in 1 .. m
        BY <2>1
      <3> QED BY <1>1, <1>3, <3>1 DEF Whole
    <2>2. CASE ~(i <= m)
      <3>1. PICK k \in 1 .. l : i = m + k
        BY <2>2
      <3> QED BY <1>1, <1>3, <3>1 DEF Whole
    <2> QED BY <2>1, <2>2
  <1> QED BY <1>2, <1>3, <1>4 DEF Whole

\* What is left of a path is a path from where the last instruction taken leads.
LEMMA PathDrop ==
    ASSUME NEW S, NEW s \in Seq(S), NEW a, NEW b, Path(s, a, b), Whole(s), NEW k \in 0 .. Len(s)
    PROVE  Path(Drop(k, s), IF k = 0 THEN a ELSE s[k].pred_npc, b) /\ Whole(Drop(k, s))
  <1>1. PICK m \in Nat : m = Len(s) /\ k <= m
    OBVIOUS
  <1>2. PICK d, e : d = Drop(k, s) /\ e = IF k = 0 THEN a ELSE s[k].pred_npc
    OBVIOUS
  <1>3. d \in Seq(S) /\ Len(d) = m - k /\ \A i \in 1 .. m - k : d[i] = s[k + i]
    <2>1. /\ Drop(k, s) \in Seq(S) /\ Len(Drop(k, s)) = Len(s) - k
          /\ \A i \in 1 .. Len(s) - k : Drop(k, s)[i] = s[k + i]
      BY DropAt
    <2> QED BY <1>1, <1>2, <2>1
  <1>4. /\ s = <<>> <=> m = 0
        /\ d = <<>> <=> m - k = 0
    <2>1. \A q \in Seq(S) : q = <<>> <=> Len(q) = 0
      OBVIOUS
    <2> QED BY <1>1, <1>3, <2>1
  <1>5. \A j \in 1 .. m : s[j].pc = (IF j = 1 THEN a ELSE s[j - 1].pred_npc) /\ Own(s[j])
    BY <1>1 DEF Path, Whole
  <1>6. ASSUME NEW i \in 1 .. m - k PROVE d[i].pc = (IF i = 1 THEN e ELSE d[i - 1].pred_npc) /\ Own(d[i])
    <2>1. PICK j \in 1 .. m : j = k + i
      BY <1>1
    <2>2. d[i] = s[j]
      BY <1>3, <2>1
    <2>3. CASE i = 1
      <3>1. k # 0 => j # 1 /\ j - 1 = k
        BY <1>1, <2>1, <2>3
      <3>2. k = 0 => j = 1
        BY <2>1, <2>3
      <3> QED BY <1>2, <1>5, <2>2, <2>3, <3>1, <3>2
    <2>4. CASE i # 1
      <3>1. i - 1 \in 1 .. m - k /\ k + (i - 1) = j - 1 /\ j # 1
        BY <2>1, <2>4
      <3>2. d[i - 1] = s[j - 1]
        BY <1>3, <3>1
      <3> QED BY <1>5, <2>2, <2>4, <3>1, <3>2
    <2> QED BY <2>3, <2>4
  <1>7. b = IF m = 0 THEN a ELSE s[m].pred_npc
    BY <1>1, <1>4 DEF Path, After
  <1>8. b = After(d, e)
    <2>1. CASE m - k = 0
      <3>1. m = k
        BY <1>1, <2>1
      <3> QED BY <1>2, <1>4, <1>7, <2>1, <3>1 DEF After
    <2>2. CASE m - k # 0
      <3>1. m - k \in 1 .. m - k /\ k + (m - k) = m /\ m # 0
        BY <1>1, <2>2
      <3>2. d[m - k] = s[m]
        BY <1>3, <3>1
      <3> QED BY <1>3, <1>4, <1>7, <2>2, <3>1, <3>2 DEF After
    <2> QED BY <2>1, <2>2
  <1>9. (\A i \in 1 .. Len(d) : d[i].pc = IF i = 1 THEN e ELSE d[i - 1].pred_npc) /\ Whole(d)
    BY <1>3, <1>6 DEF Whole
  <1> QED BY <1>2, <1>8, <1>9 DEF Path

-----------------------------------------------------------------------------
(* A cycle takes the oldest instructions and keeps the others in order.    *)

Taken(sel, ready) == IF ready THEN sel ELSE 0
All(pushed) == pending \o (fifo \o pushed)

\* What waits after a cycle, and where program order has arrived.
Moved(pushed, k) ==
    /\ k \in 0 .. Len(All(pushed))
    /\ pending' \o fifo' = Drop(k, All(pushed))
    /\ npc' = IF k = 0 THEN npc ELSE All(pushed)[k].pred_npc

Bounded(pushed) ==
    /\ pending' \in Seq(Entries) /\ Len(pending') <= RENAME_PENDING_DEPTH
    /\ fifo' \in Seq(Entries) /\ Len(fifo') <= Len(fifo) + Len(pushed)

\* What decode hands on of the instructions before it.
LEMMA FirstDecoded ==
    ASSUME NEW x \in Seq(Entries), NEW d, d = First(DISPATCH_WIDTH, x)
    PROVE  /\ d \in Seq(Entries) /\ Len(d) \in 0 .. Len(x) /\ Len(d) <= DISPATCH_WIDTH
           /\ \A i \in 1 .. Len(d) : d[i] = x[i]
  <1>1. DISPATCH_WIDTH \in Nat
    BY Constants
  <1>2. PICK m \in 0 .. Len(x) : m = Shorter(DISPATCH_WIDTH, Len(x)) /\ m <= DISPATCH_WIDTH
    BY <1>1 DEF Shorter
  <1>3. First(DISPATCH_WIDTH, x) \in Seq(Entries) /\ Len(First(DISPATCH_WIDTH, x)) = Shorter(DISPATCH_WIDTH, Len(x))
    BY <1>1, FirstAt
  <1>4. \A i \in 1 .. Shorter(DISPATCH_WIDTH, Len(x)) : First(DISPATCH_WIDTH, x)[i] = x[i]
    BY <1>1, FirstAt
  <1> QED BY <1>2, <1>3, <1>4

\* While instructions are pending, they are the ones that are dispatched.
LEMMA AdvancePending ==
    ASSUME ITypeOK, NEW pushed \in Seq(Entries), NEW sel \in Sels, NEW ready \in BOOLEAN,
           Advance(pushed, sel, ready), pending # <<>>
    PROVE  Moved(pushed, Taken(sel, ready)) /\ Bounded(pushed)
  <1>0. pending \in Seq(Entries) /\ fifo \in Seq(Entries) /\ Len(pending) <= RENAME_PENDING_DEPTH
    BY DEF ITypeOK
  <1>1. PICK p \in Seq(Entries), x \in Seq(Entries) : p = pending /\ x = fifo \o pushed
    BY <1>0, ConcatAt
  <1>2. Len(x) = Len(fifo) + Len(pushed) /\ Len(p) <= RENAME_PENDING_DEPTH
    BY <1>0, <1>1, ConcatAt
  <1>3. PICK f : f = First(DISPATCH_WIDTH, p)
    OBVIOUS
  <1>4. f \in Seq(Entries) /\ Len(f) \in 0 .. Len(p) /\ \A i \in 1 .. Len(f) : f[i] = p[i]
    BY <1>3, FirstDecoded
  <1>5. Source(pushed) = f
    BY <1>1, <1>3 DEF Source
  <1>6. sel \in 0 .. Len(f)
    BY <1>5 DEF Advance
  <1>7. PICK k \in 0 .. Len(p) : k = Taken(sel, ready)
    BY <1>4, <1>6 DEF Taken
  <1>8. PICK l : l = Left(sel, ready)
    OBVIOUS
  <1>9. l = Drop(k, p)
    <2>1. CASE ready
      BY <1>1, <1>7, <1>8, <2>1 DEF Left, Taken
    <2>2. CASE ~ready
      <3>1. Drop(0, p) = p
        BY DropNone
      <3> QED BY <1>1, <1>7, <1>8, <2>2, <3>1 DEF Left, Taken
    <2> QED BY <2>1, <2>2
  <1>10. l \in Seq(Entries) /\ Len(l) = Len(p) - k
    BY <1>9, DropAt
  <1>11. Drop(k, p \o x) = l \o x /\ k \in 0 .. Len(p \o x)
    BY <1>9, DropConcat
  <1>12. npc' = IF k = 0 THEN npc ELSE (p \o x)[k].pred_npc
    <2>1. CASE k = 0
      <3>1. ~(ready /\ sel # 0)
        BY <1>7, <2>1 DEF Taken
      <3> QED BY <2>1, <3>1 DEF Advance
    <2>2. CASE k # 0
      <3>1. ready /\ sel = k /\ sel # 0
        BY <1>7, <2>2 DEF Taken
      <3>2. k \in 1 .. Len(f) /\ k \in 1 .. Len(p)
        BY <1>4, <1>6, <2>2, <3>1
      <3>3. f[k] = p[k] /\ (p \o x)[k] = p[k]
        BY <1>4, <3>2, ConcatAt
      <3>4. npc' = f[k].pred_npc
        BY <1>5, <3>1 DEF Advance
      <3> QED BY <2>2, <3>3, <3>4
    <2> QED BY <2>1, <2>2
  <1>13. PICK d : d = First(DISPATCH_WIDTH, x)
    OBVIOUS
  <1>14. d \in Seq(Entries) /\ Len(d) \in 0 .. Len(x) /\ Decoded(pushed) = d
    <2>1. d \in Seq(Entries) /\ Len(d) \in 0 .. Len(x)
      BY <1>13, FirstDecoded
    <2>2. Decoded(pushed) = d
      BY <1>1, <1>13 DEF Decoded
    <2> QED BY <2>1, <2>2
  <1>15. Len(l) <= RENAME_PENDING_DEPTH
    BY <1>2, <1>7, <1>10, Constants
  <1>16. CASE HasRoom(pushed, sel, ready)
    <2>1. PICK g : g = Drop(Len(d), x)
      OBVIOUS
    <2>2. g \in Seq(Entries) /\ Len(g) = Len(x) - Len(d)
      BY <1>14, <2>1, DropAt
    <2>3. d \o g = x
      BY <1>13, <2>1, FirstRest, Constants
    <2>4. fifo' = g
      BY <1>1, <1>14, <1>16, <2>1 DEF Advance, decode_backend_ready
    <2>5. pending' = l \o d
      BY <1>8, <1>14, <1>16 DEF Advance, rename_pending_d
    <2>6. (l \o d) \o g = l \o (d \o g)
      <3>1. l \in Seq(Entries) /\ d \in Seq(Entries) /\ g \in Seq(Entries)
        BY <1>10, <1>14, <2>2
      <3> QED BY <3>1, SMTT(30)
    <2>7. pending' \o fifo' = Drop(k, p \o x)
      BY <1>11, <2>3, <2>4, <2>5, <2>6
    <2>8. Len(d) <= RENAME_PENDING_DEPTH - Len(l)
      BY <1>8, <1>14, <1>16 DEF HasRoom
    <2>9. pending' \in Seq(Entries) /\ Len(pending') = Len(l) + Len(d)
      BY <1>10, <1>14, <2>5, ConcatAt
    <2>10. Len(pending') <= RENAME_PENDING_DEPTH
      <3>1. Len(l) \in Nat /\ Len(d) \in Nat
        BY <1>10, <1>14
      <3> QED BY <2>8, <2>9, <3>1, Constants
    <2>11. Len(fifo') <= Len(fifo) + Len(pushed)
      BY <1>2, <1>14, <2>2, <2>4
    <2>12. All(pushed) = p \o x
      BY <1>1 DEF All
    <2>13. Moved(pushed, Taken(sel, ready))
      BY <1>7, <1>11, <1>12, <2>7, <2>12 DEF Moved
    <2>14. Bounded(pushed)
      BY <2>2, <2>4, <2>9, <2>10, <2>11 DEF Bounded
    <2> QED BY <2>13, <2>14
  <1>17. CASE ~HasRoom(pushed, sel, ready)
    <2>1. fifo' = x
      BY <1>1, <1>17 DEF Advance, decode_backend_ready
    <2>2. pending' = l
      BY <1>8, <1>17 DEF Advance, rename_pending_d
    <2>3. Len(x) <= Len(fifo) + Len(pushed)
      <3>1. Len(x) \in Nat
        OBVIOUS
      <3> QED BY <1>2, <3>1
    <2>4. All(pushed) = p \o x
      BY <1>1 DEF All
    <2>5. Moved(pushed, Taken(sel, ready))
      BY <1>7, <1>11, <1>12, <2>1, <2>2, <2>4 DEF Moved
    <2>6. Bounded(pushed)
      BY <1>10, <1>15, <2>1, <2>2, <2>3 DEF Bounded
    <2> QED BY <2>5, <2>6
  <1> QED BY <1>16, <1>17

\* With nothing pending, the ones that are decoded are dispatched.
LEMMA AdvanceDecoded ==
    ASSUME ITypeOK, NEW pushed \in Seq(Entries), NEW sel \in Sels, NEW ready \in BOOLEAN,
           Advance(pushed, sel, ready), pending = <<>>
    PROVE  Moved(pushed, Taken(sel, ready)) /\ Bounded(pushed)
  <1>0. pending \in Seq(Entries) /\ fifo \in Seq(Entries)
    BY DEF ITypeOK
  <1>1. PICK x \in Seq(Entries) : x = fifo \o pushed
    BY <1>0, ConcatAt
  <1>2. Len(x) = Len(fifo) + Len(pushed) /\ All(pushed) = x /\ Len(x) \in Nat
    BY <1>0, <1>1, ConcatAt DEF All
  <1>3. PICK d : d = First(DISPATCH_WIDTH, x)
    OBVIOUS
  <1>4. /\ d \in Seq(Entries) /\ Len(d) \in 0 .. Len(x) /\ Len(d) <= DISPATCH_WIDTH
        /\ Decoded(pushed) = d /\ \A i \in 1 .. Len(d) : d[i] = x[i]
    <2>1. /\ d \in Seq(Entries) /\ Len(d) \in 0 .. Len(x) /\ Len(d) <= DISPATCH_WIDTH
          /\ \A i \in 1 .. Len(d) : d[i] = x[i]
      BY <1>3, FirstDecoded
    <2>2. Decoded(pushed) = d
      BY <1>1, <1>3 DEF Decoded
    <2> QED BY <2>1, <2>2
  <1>5. Source(pushed) = d
    BY <1>4 DEF Source
  <1>6. sel \in 0 .. Len(d)
    BY <1>5 DEF Advance
  <1>7. PICK g : g = Drop(Len(d), x)
    OBVIOUS
  <1>8. g \in Seq(Entries) /\ Len(g) = Len(x) - Len(d)
    BY <1>4, <1>7, DropAt
  <1>9. CASE ready /\ sel # 0
    <2>1. fifo' = g /\ pending' = Drop(sel, d)
      BY <1>1, <1>4, <1>7, <1>9 DEF Advance, decode_backend_ready, rename_pending_d
    <2>2. sel \in 0 .. Len(First(DISPATCH_WIDTH, x))
      BY <1>3, <1>6
    <2>3. Drop(sel, First(DISPATCH_WIDTH, x)) \o Drop(Len(First(DISPATCH_WIDTH, x)), x)
            = Drop(sel, x) /\ sel \in 0 .. Len(x)
      BY <2>2, DropFirst, Constants
    <2>4. pending' \o fifo' = Drop(sel, x) /\ sel \in 0 .. Len(x)
      BY <1>3, <1>7, <2>1, <2>3
    <2>5. Drop(sel, d) \in Seq(Entries) /\ Len(Drop(sel, d)) = Len(d) - sel
      BY <1>4, <1>6, DropAt
    <2>6. Len(Drop(sel, d)) <= RENAME_PENDING_DEPTH
      BY <1>4, <1>6, <2>5, Constants
    <2>7. Len(g) <= Len(fifo) + Len(pushed)
      BY <1>2, <1>4, <1>8
    <2>8. npc' = x[sel].pred_npc
      <3>1. sel \in 1 .. Len(d)
        BY <1>6, <1>9
      <3>2. d[sel] = x[sel]
        BY <1>4, <3>1
      <3> QED BY <1>5, <1>9, <3>2 DEF Advance
    <2>9. Taken(sel, ready) = sel
      BY <1>9 DEF Taken
    <2> QED BY <1>2, <1>8, <1>9, <2>1, <2>4, <2>5, <2>6, <2>7, <2>8, <2>9 DEF Moved, Bounded
  <1>10. CASE ~(ready /\ sel # 0)
    <2>1. Taken(sel, ready) = 0
      BY <1>10 DEF Taken
    <2>2. pending' = <<>> /\ npc' = npc
      BY <1>10 DEF Advance, rename_pending_d
    <2>3. Drop(0, x) = x
      BY DropNone
    <2>4. fifo' = x
      <3>1. CASE decode_backend_ready(pushed, sel, ready)
        <4>1. d = <<>>
          BY <1>4, <1>10, <3>1 DEF decode_backend_ready
        <4>2. Len(d) = 0
          BY <4>1
        <4> QED BY <1>1, <1>4, <2>3, <3>1, <4>2 DEF Advance
      <3>2. CASE ~decode_backend_ready(pushed, sel, ready)
        BY <1>1, <3>2 DEF Advance
      <3> QED BY <3>1, <3>2
    <2>5. pending' \o fifo' = x
      BY <2>2, <2>4
    <2>6. pending' \in Seq(Entries) /\ Len(pending') = 0
      BY <2>2
    <2>7. Len(pending') <= RENAME_PENDING_DEPTH /\ 0 \in 0 .. Len(x)
      BY <1>2, <2>6, Constants
    <2>8. Len(x) <= Len(fifo) + Len(pushed)
      BY <1>2
    <2> QED BY <1>2, <2>1, <2>2, <2>3, <2>4, <2>5, <2>6, <2>7, <2>8 DEF Moved, Bounded
  <1> QED BY <1>9, <1>10

-----------------------------------------------------------------------------
(* A bundle is a path from where the last one ended to where the next one  *)
(* begins.                                                                 *)

\* No instruction begins inside another one.
NoOverlap == \A pc \in Starts \cap Wide : At(pc, 1) \notin Starts

\* No compressed branch goes to the instruction behind it.
NoJumpNext == \A pc \in DOMAIN Jumps \ Wide : Jumps[pc] # At(pc, 1)

\* Where the fetch unit goes on when the last bundle ended at e with carry k.
Ends(k, e, next) ==
    IF k = <<>> THEN next = e /\ e \in Starts
    ELSE k = <<e>> /\ e \in Starts \cap Wide /\ next = At(e, 1)

\* Cutting from an instruction on, in a bundle whose successor is in memory or ends in the slot
\* predicted taken, which cutting must not pass.
Begins(pc, slot, n, j) ==
    /\ At(pc, j) \in Starts
    /\ j > n - 2 => next_bundle(pc, slot) = At(pc, n)

Chunked(pc, slot, c, a) ==
    \E e : Path(c.entries, a, e) /\ Whole(c.entries) /\ Ends(c.carry, e, next_bundle(pc, slot))

\* A prediction behind the bundle is an address at which an instruction begins.
LEMMA NextStarts ==
    ASSUME NEW pc, NEW slot \in Predictions, CanPredict(pc, slot), slot # NoSlot
    PROVE  /\ next_bundle(pc, slot) = Jumps[SlotPc(pc, slot)]
           /\ SlotPc(pc, slot) \in DOMAIN Jumps
           /\ next_bundle(pc, slot) \in Starts /\ SlotPc(pc, slot) \in Starts
  BY Constants DEF next_bundle, CanPredict

\* The slot predicted taken is the last one of the bundle.
LEMMA StopsAtSlot ==
    ASSUME NEW pc \in Addresses, NEW slot \in Predictions, CanPredict(pc, slot),
           NEW n \in Nat, n = hw_count(slot), NEW j \in 0 .. n - 1
    PROVE  /\ stop_after_this(pc, slot, j) => slot # NoSlot /\ j = n - 2
           /\ (slot # NoSlot /\ j = n - 2) =>
                /\ At(pc, j) = SlotPc(pc, slot)
                /\ fe_pred_npc(pc, slot, j \div 2) = next_bundle(pc, slot)
                /\ is_low_half(j)
  <1>1. PICK k \in Nat : n = 2 * k
    BY HwCount
  <1>2. n <= 2 * FETCH_WIDTH /\ n >= 2
    BY HwCount
  <1>3. j \div 2 \in Slots
    <2>1. j \div 2 \in 0 .. FETCH_WIDTH - 1
      BY <1>1, <1>2, Constants
    <2> QED BY <2>1 DEF Slots
  <1>4. slot # NoSlot => slot \in Nat /\ n = 2 * slot + 2
    BY HwCount
  <1>5. ASSUME stop_after_this(pc, slot, j) PROVE slot # NoSlot /\ j = n - 2
    <2>1. j % 2 = 0
      BY <1>5 DEF stop_after_this, is_low_half
    <2>2. j = 2 * (j \div 2)
      BY <2>1
    <2>3. SlotPc(pc, j \div 2) = At(pc, j)
      BY <2>2 DEF SlotPc
    <2>4. fe_pred_npc(pc, slot, j \div 2) # At(At(pc, j), Size(At(pc, j)))
      BY <1>5 DEF stop_after_this
    <2>5. j \div 2 = slot
      BY <1>3, <2>3, <2>4, PredType
    <2>6. slot # NoSlot
      BY <1>3, <2>5, Constants DEF Slots, NoSlot
    <2>7. j = n - 2
      <3>1. slot \in Nat /\ n = 2 * slot + 2
        BY <1>4, <2>6
      <3>2. j = 2 * slot
        BY <2>2, <2>5
      <3> QED BY <3>1, <3>2
    <2> QED BY <2>6, <2>7
  <1>6. ASSUME slot # NoSlot, j = n - 2
        PROVE  /\ At(pc, j) = SlotPc(pc, slot)
               /\ fe_pred_npc(pc, slot, j \div 2) = next_bundle(pc, slot)
               /\ is_low_half(j)
    <2>0. slot \in Nat /\ n = 2 * slot + 2
      BY <1>4, <1>6
    <2>1. j = 2 * slot
      BY <1>6, <2>0
    <2>2. j \div 2 = slot /\ j % 2 = 0
      BY <2>0, <2>1
    <2>3. fe_pred_npc(pc, slot, slot) = Jumps[SlotPc(pc, slot)]
      BY DEF fe_pred_npc
    <2>4. next_bundle(pc, slot) = Jumps[SlotPc(pc, slot)]
      BY <1>6 DEF next_bundle
    <2> QED BY <2>1, <2>2, <2>3, <2>4 DEF SlotPc, is_low_half
  <1> QED BY <1>5, <1>6

\* The entry of a halfword is one of its own, and says where the next one is.
LEMMA EntryFields ==
    ASSUME NEW pc, NEW slot, NEW j
    PROVE  /\ EntryAt(pc, slot, j).pc = At(pc, j) /\ Own(EntryAt(pc, slot, j))
           /\ stop_after_this(pc, slot, j)
                => EntryAt(pc, slot, j).pred_npc = fe_pred_npc(pc, slot, j \div 2)
           /\ ~stop_after_this(pc, slot, j)
                => EntryAt(pc, slot, j).pred_npc = At(At(pc, j), Size(At(pc, j)))
  BY DEF EntryAt, Entry, Own

\* What is cut behind an instruction that does not end the bundle begins with an instruction.
LEMMA OnwardBegins ==
    ASSUME NoOverlap, NoJumpNext,
           NEW pc \in Addresses, NEW slot \in Predictions, CanPredict(pc, slot),
           NEW n \in Nat, n = hw_count(slot), NEW j \in 0 .. n - 1, Begins(pc, slot, n, j),
           ~stop_after_this(pc, slot, j), NEW m \in j + 1 .. n, m = j + Size(At(pc, j))
    PROVE  Begins(pc, slot, n, m) /\ At(At(pc, j), Size(At(pc, j))) = At(pc, m)
  <1>0. PICK here \in Starts : here = At(pc, j)
    BY DEF Begins
  <1>1. here \in Int /\ pc \in Int /\ j \in Int
    BY Constants
  <1>2. PICK z \in 1 .. 2 : z = Size(here) /\ (z = 2 <=> here \in Wide)
    BY DEF Size
  <1>3. At(here, z) = At(pc, m)
    <2>1. At(At(pc, j), z) = At(pc, j + z)
      BY <1>1, AtAt
    <2> QED BY <1>0, <1>2, <2>1
  <1>4. At(pc, m) \in Starts
    BY <1>2, <1>3, Constants
  <1>5. ASSUME m > n - 2 PROVE next_bundle(pc, slot) = At(pc, n)
    <2>1. CASE slot = NoSlot
      BY <2>1 DEF next_bundle, hw_count
    <2>2. CASE slot # NoSlot /\ j > n - 2
      BY <2>2 DEF Begins
    <2>3. CASE slot # NoSlot /\ j = n - 2
      <3>1. here = SlotPc(pc, slot) /\ here \in DOMAIN Jumps
            /\ next_bundle(pc, slot) = Jumps[here]
        BY <1>0, <2>3, StopsAtSlot, NextStarts
      <3>2. next_bundle(pc, slot) = At(here, z) \/ next_bundle(pc, slot) = At(here, 2)
        BY <1>0, <1>2, <2>3, StopsAtSlot DEF stop_after_this
      <3>3. z = 1 => next_bundle(pc, slot) # At(here, 1)
        BY <1>2, <3>1 DEF NoJumpNext
      <3>4. next_bundle(pc, slot) = At(here, 2)
        BY <3>2, <3>3
      <3>5. At(At(pc, j), 2) = At(pc, j + 2) /\ j + 2 = n
        <4>1. j + 2 = n
          BY <1>1, <2>3
        <4>2. At(At(pc, j), 2) = At(pc, j + 2)
          BY <1>1, AtAt
        <4> QED BY <4>1, <4>2
      <3> QED BY <1>0, <3>4, <3>5
    <2>4. CASE slot # NoSlot /\ j < n - 2
      <3>1. z = 2 /\ j = n - 3 /\ m = n - 1
        BY <1>0, <1>2, <1>5, <2>4
      <3>2. At(here, 1) = At(pc, n - 2)
        <4>1. j + 1 = n - 2
          BY <1>1, <3>1
        <4>2. At(At(pc, j), 1) = At(pc, j + 1)
          BY <1>1, AtAt
        <4> QED BY <1>0, <4>1, <4>2
      <3>3. n - 2 \in 0 .. n - 1
        BY <3>1
      <3>4. At(pc, n - 2) = SlotPc(pc, slot)
        BY <2>4, <3>3, StopsAtSlot
      <3>5. SlotPc(pc, slot) \in Starts
        BY <2>4, NextStarts
      <3> QED BY <1>2, <3>1, <3>2, <3>4, <3>5 DEF NoOverlap
    <2> QED BY <1>1, <2>1, <2>2, <2>3, <2>4
  <1> QED BY <1>0, <1>2, <1>3, <1>4, <1>5 DEF Begins

\* From every instruction of a bundle on, what is cut is a path to the next bundle.
LEMMA CutPath ==
    ASSUME NoOverlap, NoJumpNext,
           NEW pc \in Addresses, NEW slot \in Predictions, CanPredict(pc, slot)
    PROVE  \A j \in 0 .. hw_count(slot) :
              Begins(pc, slot, hw_count(slot), j) => Chunked(pc, slot, Cut(pc, slot)[j], At(pc, j))
  <1>0. PICK n \in Nat : n = hw_count(slot)
    BY HwCount
  <1>1. PICK c : c = Cut(pc, slot)
    OBVIOUS
  <1> DEFINE S == {j \in 0 .. n : Begins(pc, slot, n, j) => Chunked(pc, slot, c[j], At(pc, j))}
  <1>2. ASSUME NEW j \in 0 .. n, \A i \in j + 1 .. n : i \in S PROVE j \in S
    <2> SUFFICES ASSUME Begins(pc, slot, n, j) PROVE Chunked(pc, slot, c[j], At(pc, j))
      OBVIOUS
    <2>1. CutCase(pc, slot, n, c, j)
      BY <1>0, <1>1, CutCases
    <2>2. At(pc, j) \in Starts
      BY DEF Begins
    <2>3. CASE j = n
      <3>1. c[j].entries = <<>> /\ c[j].carry = <<>>
        BY <2>1, <2>3 DEF CutCase
      <3>2. next_bundle(pc, slot) = At(pc, j)
        BY <2>3 DEF Begins
      <3>3. Ends(<<>>, At(pc, j), next_bundle(pc, slot))
        BY <2>2, <3>2 DEF Ends
      <3>4. Path(<<>>, At(pc, j), At(pc, j)) /\ Whole(<<>>)
        BY PathEmpty
      <3> QED BY <3>1, <3>3, <3>4 DEF Chunked
    <2>4. CASE j # n /\ At(pc, j) \in Wide /\ j = n - 1
      <3>1. c[j].entries = <<>> /\ c[j].carry = <<At(pc, j)>>
        BY <2>1, <2>4 DEF CutCase
      <3>2. next_bundle(pc, slot) = At(pc, n)
        BY <2>4 DEF Begins
      <3>3. At(At(pc, j), 1) = At(pc, n)
        <4>1. j + 1 = n
          BY <2>4
        <4>2. At(At(pc, j), 1) = At(pc, j + 1)
          BY AtAt, Constants
        <4> QED BY <4>1, <4>2
      <3>4. <<At(pc, j)>> # <<>>
        OBVIOUS
      <3>5. Ends(<<At(pc, j)>>, At(pc, j), next_bundle(pc, slot))
        BY <2>2, <2>4, <3>2, <3>3, <3>4 DEF Ends
      <3>6. Path(<<>>, At(pc, j), At(pc, j)) /\ Whole(<<>>)
        BY PathEmpty
      <3> QED BY <3>1, <3>5, <3>6 DEF Chunked
    <2>5. CASE j # n /\ ~(At(pc, j) \in Wide /\ j = n - 1)
      <3>0. j \in 0 .. n - 1
        BY <2>5
      <3>1. PICK m \in j + 1 .. n : m = Onward(pc, slot, n, j)
        BY <2>1, <2>5 DEF CutCase
      <3>2. PICK e \in Entries : e = EntryAt(pc, slot, j)
        BY <1>0, <3>0, EntryType
      <3>3. c[j] = [c[m] EXCEPT !.entries = <<e>> \o @]
        BY <2>1, <2>5, <3>1, <3>2 DEF CutCase
      <3>4. Chunk(c[m], n - m) /\ n - m \in Nat /\ n - j \in Nat /\ n - m < n - j
        BY <1>0, <1>1, CutTyped
      <3>5. c[j].entries = <<e>> \o c[m].entries /\ c[j].carry = c[m].carry
        BY <3>3, <3>4, ChunkCons
      <3>6. e.pc = At(pc, j) /\ Own(e)
        BY <3>2, EntryFields
      <3>7. Path(<<e>>, At(pc, j), e.pred_npc) /\ Whole(<<e>>)
        BY <3>6, PathOne
      <3>8. <<e>> \in Seq(Entries) /\ c[m].entries \in Seq(Entries)
        BY <3>4 DEF Chunk
      <3>9. Chunked(pc, slot, c[m], e.pred_npc)
        <4>1. CASE stop_after_this(pc, slot, j)
          <5>1. m = n
            BY <3>1, <4>1 DEF Onward
          <5>2. CutCase(pc, slot, n, c, n)
            BY <1>0, <1>1, CutCases
          <5>3. c[m].entries = <<>> /\ c[m].carry = <<>>
            BY <5>1, <5>2 DEF CutCase
          <5>4. slot # NoSlot /\ j = n - 2
            BY <1>0, <3>0, <4>1, StopsAtSlot
          <5>5. fe_pred_npc(pc, slot, j \div 2) = next_bundle(pc, slot)
            BY <1>0, <3>0, <5>4, StopsAtSlot
          <5>6. e.pred_npc = next_bundle(pc, slot)
            BY <3>2, <4>1, <5>5, EntryFields
          <5>7. Ends(<<>>, e.pred_npc, next_bundle(pc, slot))
            BY <5>4, <5>6, NextStarts DEF Ends
          <5>8. Path(<<>>, e.pred_npc, e.pred_npc) /\ Whole(<<>>)
            BY PathEmpty
          <5> QED BY <5>3, <5>7, <5>8 DEF Chunked
        <4>2. CASE ~stop_after_this(pc, slot, j)
          <5>1. m = j + Size(At(pc, j))
            BY <3>1, <4>2 DEF Onward
          <5>2. Begins(pc, slot, n, m) /\ At(At(pc, j), Size(At(pc, j))) = At(pc, m)
            BY <1>0, <3>0, <4>2, <5>1, OnwardBegins
          <5>3. e.pred_npc = At(pc, m)
            BY <3>2, <4>2, <5>2, EntryFields
          <5>4. m \in S
            BY <1>2
          <5> QED BY <5>2, <5>3, <5>4
        <4> QED BY <4>1, <4>2
      <3>10. PICK b : /\ Path(c[m].entries, e.pred_npc, b) /\ Whole(c[m].entries)
                      /\ Ends(c[m].carry, b, next_bundle(pc, slot))
        BY <3>9 DEF Chunked
      <3>11. Path(<<e>> \o c[m].entries, At(pc, j), b)
        BY <3>7, <3>8, <3>10, PathConcat
      <3>12. Whole(<<e>> \o c[m].entries)
        BY <3>7, <3>8, <3>10, WholeConcat
      <3> QED BY <3>5, <3>10, <3>11, <3>12 DEF Chunked
    <2> QED BY <2>3, <2>4, <2>5
  <1> HIDE DEF S
  <1>3. \A j \in 0 .. n : j \in S
    BY <1>2, Backwards
  <1> QED BY <1>0, <1>1, <1>3 DEF S

\* So are the slots of a bundle of 32-bit instructions.
LEMMA SlotsStart ==
    ASSUME NEW pc \in Starts, NEW slot \in Predictions, WholeSlots(pc, slot),
           NEW k \in Nat, hw_count(slot) = 2 * k
    PROVE  /\ \A i \in 0 .. k : At(pc, 2 * i) \in Starts
           /\ \A i \in 0 .. k - 1 : /\ At(pc, 2 * i) \in Wide
                                    /\ At(At(pc, 2 * i), Size(At(pc, 2 * i))) = At(pc, 2 * (i + 1))
  <1>0. pc \in Int /\ pc \in Addresses
    BY Constants
  <1>1. ASSUME NEW i \in 0 .. k - 1
        PROVE  /\ At(pc, 2 * i) \in Wide
               /\ At(At(pc, 2 * i), Size(At(pc, 2 * i))) = At(pc, 2 * (i + 1))
    <2>1. PICK j \in 0 .. 2 * k - 1 : j = 2 * i /\ j % 2 = 0
      <3>1. 2 * i \in 0 .. 2 * k - 1 /\ (2 * i) % 2 = 0
        OBVIOUS
      <3> QED BY <3>1
    <2>2. At(pc, j) \in Wide
      BY <2>1 DEF WholeSlots, is_low_half
    <2>3. Size(At(pc, j)) = 2
      BY <2>2 DEF Size
    <2>4. At(At(pc, j), 2) = At(pc, j + 2)
      BY <1>0, AtAt
    <2>5. j + 2 = 2 * (i + 1)
      BY <2>1
    <2> QED BY <2>1, <2>2, <2>3, <2>4, <2>5
  <1> DEFINE S == {i \in Nat : i <= k => At(pc, 2 * i) \in Starts}
  <1>2. 0 \in S
    <2>1. At(pc, 0) = pc
      BY <1>0, AtZero
    <2>2. 2 * 0 = 0
      OBVIOUS
    <2> QED BY <2>1, <2>2
  <1>3. ASSUME NEW i \in Nat, i \in S PROVE i + 1 \in S
    <2> SUFFICES ASSUME i + 1 <= k PROVE At(pc, 2 * (i + 1)) \in Starts
      OBVIOUS
    <2>1. i \in 0 .. k - 1 /\ i <= k
      OBVIOUS
    <2>2. At(pc, 2 * i) \in Starts
      BY <1>3, <2>1
    <2>3. At(At(pc, 2 * i), Size(At(pc, 2 * i))) \in Starts
      BY <2>2, Constants
    <2> QED BY <1>1, <2>1, <2>3
  <1> HIDE DEF S
  <1>4. Nat \subseteq S
    BY <1>2, <1>3, InductionOver
  <1>5. ASSUME NEW i \in 0 .. k PROVE At(pc, 2 * i) \in Starts
    <2>1. i \in Nat /\ i <= k
      OBVIOUS
    <2>2. i \in S
      BY <1>4, <2>1
    <2> QED BY <2>1, <2>2 DEF S
  <1> QED BY <1>1, <1>5

LEMMA SlotsPath ==
    ASSUME NEW pc \in Starts, NEW slot \in Predictions, CanPredict(pc, slot), WholeSlots(pc, slot)
    PROVE  Chunked(pc, slot, [entries |-> SlotEntries(pc, slot), carry |-> <<>>], pc)
  <1>0. PICK k \in Nat : hw_count(slot) = 2 * k
    BY HwCount
  <1>1. k >= 1 /\ k <= FETCH_WIDTH /\ hw_count(slot) \div 2 = k
    <2>1. PICK n \in Nat : n = hw_count(slot)
      BY <1>0
    <2>2. n \in 2 .. 2 * FETCH_WIDTH /\ n = 2 * k
      BY <1>0, <2>1, HwCount
    <2>3. k >= 1 /\ k <= FETCH_WIDTH /\ n \div 2 = k
      BY <2>2, Constants
    <2> QED BY <2>1, <2>3
  <1>2. slot # NoSlot => slot = k - 1
    <2>1. slot # NoSlot => slot \in Nat /\ hw_count(slot) = 2 * slot + 2
      BY HwCount
    <2> QED BY <1>0, <2>1
  <1>3. PICK s : s = SlotEntries(pc, slot)
    OBVIOUS
  <1>4. pc \in Addresses
    BY Constants
  <1>5. /\ s \in Seq(Entries) /\ Len(s) = k
        /\ \A i \in 1 .. k :
              s[i] = Entry(SlotPc(pc, i - 1), <<SlotPc(pc, i - 1), At(SlotPc(pc, i - 1), 1)>>,
                           fe_pred_npc(pc, slot, i - 1))
    BY <1>1, <1>3, <1>4, SlotEntryAt
  <1>6. /\ \A i \in 0 .. k : At(pc, 2 * i) \in Starts
        /\ \A i \in 0 .. k - 1 : /\ At(pc, 2 * i) \in Wide
                                 /\ At(At(pc, 2 * i), Size(At(pc, 2 * i))) = At(pc, 2 * (i + 1))
    BY <1>0, SlotsStart
  <1>7. ASSUME NEW i \in 1 .. k
        PROVE  /\ s[i].pc = At(pc, 2 * (i - 1)) /\ Own(s[i])
               /\ i - 1 # slot => s[i].pred_npc = At(pc, 2 * i)
    <2>1. PICK j \in 0 .. k - 1 : j = i - 1 /\ i = j + 1
      OBVIOUS
    <2>2. PICK a : a = At(pc, 2 * j) /\ a = SlotPc(pc, j) /\ a \in Wide
      BY <1>6 DEF SlotPc
    <2>3. s[i] = Entry(a, <<a, At(a, 1)>>, fe_pred_npc(pc, slot, j))
      BY <1>5, <2>1, <2>2
    <2>4. /\ s[i].pc = a /\ s[i].parts = <<a, At(a, 1)>>
          /\ s[i].pred_npc = fe_pred_npc(pc, slot, j)
      BY <2>3 DEF Entry
    <2>5. j \in Slots
      BY <1>1, Constants DEF Slots
    <2>6. j # slot => fe_pred_npc(pc, slot, j) = At(a, Size(a))
      BY <1>4, <2>2, <2>5, PredType
    <2>7. At(a, Size(a)) = At(pc, 2 * i)
      BY <1>6, <2>1, <2>2
    <2> QED BY <2>1, <2>2, <2>4, <2>6, <2>7 DEF Own
  <1>8. PICK b : b = After(s, pc)
    OBVIOUS
  <1>9. b = s[k].pred_npc
    <2>1. s # <<>>
      BY <1>1, <1>5
    <2> QED BY <1>5, <1>8, <2>1 DEF After
  <1>10. ASSUME NEW i \in 1 .. k PROVE s[i].pc = IF i = 1 THEN pc ELSE s[i - 1].pred_npc
    <2>1. CASE i = 1
      <3>1. 2 * (i - 1) = 0
        BY <2>1
      <3>2. At(pc, 0) = pc
        BY <1>4, AtZero
      <3> QED BY <1>7, <2>1, <3>1, <3>2
    <2>2. CASE i # 1
      <3>1. PICK j \in 1 .. k : j = i - 1
        BY <2>2
      <3>2. j - 1 # slot
        <4>1. j - 1 \in Nat /\ j - 1 # k - 1
          BY <3>1
        <4> QED BY <1>2, <4>1 DEF NoSlot
      <3>3. s[j].pred_npc = At(pc, 2 * j)
        BY <1>7, <3>2
      <3> QED BY <1>7, <2>2, <3>1, <3>3
    <2> QED BY <2>1, <2>2
  <1>11. Path(s, pc, b) /\ Whole(s)
    BY <1>5, <1>7, <1>8, <1>10 DEF Path, Whole
  <1>12. b = next_bundle(pc, slot) /\ b \in Starts
    <2>0. k \in 1 .. k /\ k \in 0 .. k
      BY <1>1
    <2>1. CASE slot = NoSlot
      <3>1. k - 1 # slot
        BY <1>1, <2>1 DEF NoSlot
      <3>2. b = At(pc, 2 * k)
        BY <1>7, <1>9, <2>0, <3>1
      <3>3. hw_count(slot) = 2 * FETCH_WIDTH
        BY <2>1 DEF hw_count
      <3>4. next_bundle(pc, slot) = At(pc, 2 * k)
        BY <1>0, <2>1, <3>3 DEF next_bundle
      <3> QED BY <1>6, <2>0, <3>2, <3>4
    <2>2. CASE slot # NoSlot
      <3>1. s[k].pred_npc = fe_pred_npc(pc, slot, slot)
        BY <1>2, <1>5, <2>0, <2>2 DEF Entry
      <3>2. fe_pred_npc(pc, slot, slot) = Jumps[SlotPc(pc, slot)]
        BY DEF fe_pred_npc
      <3> QED BY <1>9, <2>2, <3>1, <3>2, NextStarts
    <2> QED BY <2>1, <2>2
  <1>13. Ends(<<>>, b, next_bundle(pc, slot))
    BY <1>12 DEF Ends
  <1> QED BY <1>3, <1>11, <1>13 DEF Chunked

\* A bundle, joined with the half left of the one before it.
LEMMA ExpandPath ==
    ASSUME NoOverlap, NoJumpNext, ITypeOK, NEW e, Ends(carry, e, fetch_pc),
           NEW slot \in Predictions, CanPredict(fetch_pc, slot)
    PROVE  Chunked(fetch_pc, slot, fe_expand(fetch_pc, slot), e)
  <1>0. PICK pc \in Addresses : pc = fetch_pc
    BY DEF ITypeOK
  <1>1. PICK n \in Nat : n = hw_count(slot) /\ n >= 2
    BY HwCount
  <1>2. CASE carry = <<>>
    <2>1. e = pc /\ pc \in Starts
      BY <1>0, <1>2 DEF Ends
    <2>2. CASE WholeSlots(pc, slot)
      BY <1>0, <1>2, <2>1, <2>2, SlotsPath DEF fe_expand
    <2>3. CASE ~WholeSlots(pc, slot)
      <3>1. At(pc, 0) = pc /\ 0 \in 0 .. n /\ ~(0 > n - 2)
        BY <1>1, AtZero
      <3>2. Begins(pc, slot, n, 0)
        BY <2>1, <3>1 DEF Begins
      <3>3. Chunked(pc, slot, Cut(pc, slot)[0], At(pc, 0))
        BY <1>0, <1>1, <3>1, <3>2, CutPath
      <3> QED BY <1>0, <1>2, <2>1, <2>3, <3>1, <3>3 DEF fe_expand
    <2> QED BY <2>2, <2>3
  <1>3. CASE carry # <<>>
    <2>1. carry = <<e>> /\ e \in Starts /\ e \in Wide /\ pc = At(e, 1)
      BY <1>0, <1>3 DEF Ends
    <2>2. e \in Int /\ pc \in Int
      BY <2>1, Constants
    <2>3. At(pc, 1) = At(e, 2)
      <3>1. At(At(e, 1), 1) = At(e, 1 + 1) /\ 1 + 1 = 2
        BY <2>2, AtAt
      <3> QED BY <2>1, <3>1
    <2>4. At(pc, 1) \in Starts
      <3>1. At(e, Size(e)) \in Starts /\ Size(e) = 2
        BY <2>1, Constants DEF Size
      <3> QED BY <2>3, <3>1
    <2>5. Begins(pc, slot, n, 1)
      <3>1. ASSUME 1 > n - 2 PROVE next_bundle(pc, slot) = At(pc, n)
        <4>1. CASE slot = NoSlot
          BY <1>1, <4>1 DEF next_bundle, hw_count
        <4>2. CASE slot # NoSlot
          <5>1. n = 2 * slot + 2 /\ slot \in Nat
            BY <1>1, <4>2, HwCount
          <5>2. slot = 0
            BY <3>1, <5>1
          <5>3. SlotPc(pc, slot) = pc
            <6>1. 2 * slot = 0
              BY <5>2
            <6>2. At(pc, 0) = pc
              BY AtZero
            <6> QED BY <6>1, <6>2 DEF SlotPc
          <5>4. pc \in Starts
            BY <1>0, <4>2, <5>3, NextStarts
          <5> QED BY <2>1, <5>4 DEF NoOverlap
        <4> QED BY <4>1, <4>2
      <3> QED BY <2>4, <3>1 DEF Begins
    <2>6. PICK c, d : c = Cut(pc, slot)[1] /\ d = Entry(e, <<e, pc>>, At(e, 2))
      OBVIOUS
    <2>7. Chunked(pc, slot, c, At(pc, 1))
      <3>1. 1 \in 0 .. n
        BY <1>1
      <3> QED BY <1>0, <1>1, <2>5, <2>6, <3>1, CutPath
    <2>8. d.pc = e /\ d.pred_npc = At(pc, 1) /\ d.parts = <<e, pc>>
      BY <2>3, <2>6 DEF Entry
    <2>9. Own(d) /\ d \in Entries
      <3>1. Own(d)
        BY <2>1, <2>8 DEF Own
      <3>2. e \in Addresses /\ At(pc, 1) \in Addresses
        BY <2>1, <2>4, Constants
      <3>3. d = [pc |-> e, parts |-> <<e, pc>>, pred_npc |-> At(e, 2)]
        BY <2>6 DEF Entry
      <3> QED BY <2>3, <3>1, <3>2, <3>3 DEF Entries
    <2>10. PICK x : x = fe_expand(pc, slot)
      OBVIOUS
    <2>11. x = [c EXCEPT !.entries = <<d>> \o @]
      BY <1>0, <1>3, <2>1, <2>6, <2>10 DEF fe_expand
    <2>12. Chunk(c, n - 1) /\ n - 1 \in Nat /\ n - 1 < n
      <3>1. 1 \in 0 .. n /\ n - 1 \in Nat /\ n - 1 < n
        BY <1>1
      <3>2. Chunk(c, n - 1)
        BY <1>0, <1>1, <2>6, <3>1, CutTyped
      <3> QED BY <3>1, <3>2
    <2>13. x.entries = <<d>> \o c.entries /\ x.carry = c.carry
      <3>1. d \in Entries
        BY <2>9
      <3> QED BY <2>11, <2>12, <3>1, ChunkCons
    <2>14. PICK b : /\ Path(c.entries, At(pc, 1), b) /\ Whole(c.entries)
                    /\ Ends(c.carry, b, next_bundle(pc, slot))
      BY <2>7 DEF Chunked
    <2>15. Path(<<d>>, e, At(pc, 1)) /\ Whole(<<d>>)
      BY <2>8, <2>9, PathOne
    <2>16. <<d>> \in Seq(Entries) /\ c.entries \in Seq(Entries)
      BY <2>9, <2>12 DEF Chunk
    <2>17. Path(<<d>> \o c.entries, e, b)
      BY <2>14, <2>15, <2>16, PathConcat
    <2>18. Whole(<<d>> \o c.entries)
      BY <2>14, <2>15, <2>16, WholeConcat
    <2> QED BY <1>0, <2>10, <2>13, <2>14, <2>17, <2>18 DEF Chunked
  <1> QED BY <1>2, <1>3

-----------------------------------------------------------------------------
(* The invariants.                                                         *)

\* What waits is a path to the fetch unit, of whole instructions.
OnTrack(q, from, k, pc) == \E e : Path(q, from, e) /\ Whole(q) /\ Ends(k, e, pc)
PathInv == ITypeOK /\ OnTrack(Queue, npc, carry, fetch_pc)

\* A cycle that pushes a path behind the queue.
LEMMA AdvanceTrack ==
    ASSUME ITypeOK, NEW pushed \in Seq(Entries), NEW k, Moved(pushed, k),
           NEW a, NEW b, Path(Queue, npc, a), Whole(Queue), Path(pushed, a, b), Whole(pushed)
    PROVE  Path(Queue', npc', b) /\ Whole(Queue')
  <1>0. pending \in Seq(Entries) /\ fifo \in Seq(Entries)
    BY DEF ITypeOK
  <1>1. Queue \in Seq(Entries)
    BY <1>0, ConcatAt DEF Queue
  <1>2. PICK x \in Seq(Entries) : x = Queue \o pushed
    BY <1>1, ConcatAt
  <1>3. All(pushed) = x
    BY <1>0, <1>2, ConcatAssociative DEF All, Queue
  <1>4. Path(x, npc, b)
    BY <1>1, <1>2, PathConcat
  <1>5. Whole(x)
    BY <1>1, <1>2, WholeConcat
  <1>6. /\ k \in 0 .. Len(x) /\ pending' \o fifo' = Drop(k, x)
        /\ npc' = IF k = 0 THEN npc ELSE x[k].pred_npc
    BY <1>3 DEF Moved
  <1>7. Path(Drop(k, x), IF k = 0 THEN npc ELSE x[k].pred_npc, b) /\ Whole(Drop(k, x))
    BY <1>4, <1>5, <1>6, PathDrop
  <1>8. Queue' = Drop(k, x)
    BY <1>6 DEF Queue
  <1> QED BY <1>6, <1>7, <1>8

\* Both kinds of cycle.
LEMMA AdvanceMoved ==
    ASSUME ITypeOK, NEW pushed \in Seq(Entries), NEW sel \in Sels, NEW ready \in BOOLEAN,
           Advance(pushed, sel, ready)
    PROVE  Moved(pushed, Taken(sel, ready)) /\ Bounded(pushed)
  <1>1. CASE pending # <<>>
    BY <1>1, AdvancePending
  <1>2. CASE pending = <<>>
    BY <1>2, AdvanceDecoded
  <1> QED BY <1>1, <1>2

\* Where program order has arrived stays an address.
LEMMA NpcType ==
    ASSUME ITypeOK, NEW pushed \in Seq(Entries), NEW k, Moved(pushed, k)
    PROVE  npc' \in Addresses
  <1>1. PICK x \in Seq(Entries) : x = All(pushed)
    <2>1. pending \in Seq(Entries) /\ fifo \in Seq(Entries)
      BY DEF ITypeOK
    <2>2. fifo \o pushed \in Seq(Entries)
      BY <2>1, ConcatAt
    <2>3. pending \o (fifo \o pushed) \in Seq(Entries)
      BY <2>1, <2>2, ConcatAt
    <2> QED BY <2>3 DEF All
  <1>2. k \in 0 .. Len(x) /\ npc' = IF k = 0 THEN npc ELSE x[k].pred_npc
    BY <1>1 DEF Moved
  <1>3. CASE k = 0
    BY <1>2, <1>3 DEF ITypeOK
  <1>4. CASE k # 0
    <2>1. k \in 1 .. Len(x)
      BY <1>2, <1>4
    <2>2. x[k] \in Entries
      BY <2>1, ElementOfSeq
    <2>3. x[k].pred_npc \in Addresses
      BY <2>2 DEF Entries
    <2> QED BY <1>2, <1>4, <2>3
  <1> QED BY <1>3, <1>4

\* Types of a cycle with a bundle.
LEMMA BundleTypes ==
    ASSUME ITypeOK, NEW slot \in Predictions, NEW sel \in Sels, NEW ready \in BOOLEAN,
           WithBundle(slot, sel, ready)
    PROVE  ITypeOK'
  <1>1. PICK x : x = fe_expand(fetch_pc, slot)
    OBVIOUS
  <1>2. CanPredict(fetch_pc, slot)
    BY DEF WithBundle
  <1>3. Chunk(x, 2 * FETCH_WIDTH)
    BY <1>1, <1>2, ExpandType
  <1>4. PICK s \in Seq(Entries) : s = x.entries
    BY <1>3 DEF Chunk
  <1>5. Advance(s, sel, ready) /\ carry' = x.carry /\ fetch_pc' = next_bundle(fetch_pc, slot)
    BY <1>1, <1>4 DEF WithBundle
  <1>6. Moved(s, Taken(sel, ready)) /\ Bounded(s)
    BY <1>5, AdvanceMoved
  <1>7. npc' \in Addresses
    BY <1>6, NpcType
  <1>8. carry' \in Carries
    BY <1>3, <1>5 DEF Chunk
  <1>9. next_bundle(fetch_pc, slot) \in Addresses
    <2>1. CASE slot = NoSlot
      <3>1. fetch_pc \in Int /\ 2 * FETCH_WIDTH \in Int
        BY Constants DEF ITypeOK
      <3>2. At(fetch_pc, 2 * FETCH_WIDTH) \in Addresses
        BY <3>1, AtType
      <3> QED BY <2>1, <3>2 DEF next_bundle
    <2>2. CASE slot # NoSlot
      BY <1>2, <2>2, NextStarts, Constants
    <2> QED BY <2>1, <2>2
  <1>10. Len(fifo') <= IB_DEPTH
    <2>1. IB_DEPTH - Len(fifo) >= Len(s)
      BY <1>1, <1>4 DEF WithBundle, fe_ready
    <2>2. Len(fifo') <= Len(fifo) + Len(s) /\ Len(fifo') \in Nat
      BY <1>6 DEF Bounded
    <2>3. Len(fifo) \in Nat /\ Len(s) \in Nat
      BY DEF ITypeOK
    <2> QED BY <2>1, <2>2, <2>3, Constants
  <1> QED BY <1>5, <1>6, <1>7, <1>8, <1>9, <1>10 DEF ITypeOK, Bounded, Carries

\* Types of a cycle without one.
LEMMA NoBundleTypes ==
    ASSUME ITypeOK, NEW sel \in Sels, NEW ready \in BOOLEAN, WithoutBundle(sel, ready)
    PROVE  ITypeOK'
  <1>0. <<>> \in Seq(Entries)
    OBVIOUS
  <1>1. PICK s \in Seq(Entries) : s = <<>>
    BY <1>0, Zenon
  <1>2. Advance(s, sel, ready) /\ carry' = carry /\ fetch_pc' = fetch_pc
    BY <1>1 DEF WithoutBundle
  <1>3. Moved(s, Taken(sel, ready)) /\ Bounded(s)
    BY <1>2, AdvanceMoved
  <1>4. npc' \in Addresses
    BY <1>3, NpcType
  <1>5. Len(fifo') <= IB_DEPTH
    <2>1. Len(s) = 0
      BY <1>1
    <2>2. Len(fifo') <= Len(fifo) + Len(s) /\ Len(fifo') \in Nat
      BY <1>3 DEF Bounded
    <2>3. Len(fifo) \in Nat /\ Len(fifo) <= IB_DEPTH
      BY DEF ITypeOK
    <2> QED BY <2>1, <2>2, <2>3, Constants
  <1> QED BY <1>2, <1>3, <1>4, <1>5 DEF ITypeOK, Bounded

LEMMA TypesInit == IInit => ITypeOK
  <1> SUFFICES ASSUME IInit PROVE ITypeOK
    OBVIOUS
  <1>1. 0 \in Addresses
    BY Constants
  <1>2. <<>> \in Seq(Entries) /\ Len(<<>>) = 0
    OBVIOUS
  <1>3. 0 <= IB_DEPTH /\ 0 <= RENAME_PENDING_DEPTH
    BY Constants
  <1> QED BY <1>1, <1>2, <1>3 DEF IInit, ITypeOK

LEMMA TypesNext == ITypeOK /\ [INext]_ivars => ITypeOK'
  <1> SUFFICES ASSUME ITypeOK, [INext]_ivars PROVE ITypeOK'
    OBVIOUS
  <1>1. ASSUME NEW ready \in BOOLEAN, Fetched(ready) PROVE ITypeOK'
    <2>1. PICK slot \in Predictions, sel \in Sels : WithBundle(slot, sel, ready)
      BY <1>1 DEF Fetched, Predictions
    <2> QED BY <2>1, BundleTypes
  <1>2. ASSUME NEW ready \in BOOLEAN, Waited(ready) PROVE ITypeOK'
    <2>1. PICK sel \in Sels : WithoutBundle(sel, ready)
      BY <1>2 DEF Waited
    <2> QED BY <2>1, NoBundleTypes
  <1>3. ASSUME NEW pc \in Starts, IFlush(pc) PROVE ITypeOK'
    <2>1. pc \in Addresses
      BY Constants
    <2>2. <<>> \in Seq(Entries) /\ Len(<<>>) = 0
      OBVIOUS
    <2>3. 0 <= IB_DEPTH /\ 0 <= RENAME_PENDING_DEPTH
      BY Constants
    <2> QED BY <1>3, <2>1, <2>2, <2>3 DEF IFlush, ITypeOK
  <1>4. CASE UNCHANGED ivars
    BY <1>4 DEF ivars, ITypeOK
  <1> QED BY <1>1, <1>2, <1>3, <1>4 DEF INext

\* Types, for every program: the instruction buffer never takes a bundle it has no room for, and
\* what waits before rename never exceeds RENAME_PENDING_DEPTH.
THEOREM IngressTypes == ISpec => []ITypeOK
  BY TypesInit, TypesNext, PTL DEF ISpec

\* Every bundle that can arrive, in whatever way it is cut and joined, fits into an empty buffer:
\* fe_ready never holds a bundle back for good.
BundleFits ==
    \A slot \in Predictions :
        CanPredict(fetch_pc, slot) => Len(fe_expand(fetch_pc, slot).entries) <= IB_DEPTH

\* Every bundle fits, for every program, also behind a carried half.
THEOREM EveryBundleFits == ISpec => []BundleFits
  <1>1. ITypeOK => BundleFits
    <2> SUFFICES ASSUME ITypeOK, NEW slot \in Predictions, CanPredict(fetch_pc, slot)
                 PROVE  Len(fe_expand(fetch_pc, slot).entries) <= IB_DEPTH
      BY DEF BundleFits
    <2>1. Chunk(fe_expand(fetch_pc, slot), 2 * FETCH_WIDTH)
      BY ExpandType
    <2>2. PICK s \in Seq(Entries) : s = fe_expand(fetch_pc, slot).entries
      BY <2>1 DEF Chunk
    <2>3. Len(s) <= 2 * FETCH_WIDTH /\ Len(s) \in Nat
      BY <2>1, <2>2 DEF Chunk
    <2>4. Len(s) <= IB_DEPTH
      BY <2>3, Constants
    <2> QED BY <2>2, <2>4
  <1> QED BY <1>1, IngressTypes, PTL

LEMMA TrackInit == IInit => OnTrack(Queue, npc, carry, fetch_pc)
  <1> SUFFICES ASSUME IInit PROVE OnTrack(Queue, npc, carry, fetch_pc)
    OBVIOUS
  <1>1. Queue = <<>>
    BY DEF IInit, Queue
  <1>2. Path(<<>>, 0, 0) /\ Whole(<<>>)
    BY PathEmpty
  <1>3. Ends(<<>>, 0, 0)
    BY Constants DEF Ends
  <1> QED BY <1>1, <1>2, <1>3 DEF IInit, OnTrack

LEMMA TrackNext ==
    ASSUME NoOverlap, NoJumpNext, PathInv, [INext]_ivars
    PROVE  OnTrack(Queue, npc, carry, fetch_pc)'
  <1>0. ITypeOK
    BY DEF PathInv
  <1>1. PICK e : Path(Queue, npc, e) /\ Whole(Queue) /\ Ends(carry, e, fetch_pc)
    BY DEF PathInv, OnTrack
  <1>2. ASSUME NEW ready \in BOOLEAN, Fetched(ready) PROVE OnTrack(Queue, npc, carry, fetch_pc)'
    <2>1. PICK slot \in Predictions, sel \in Sels : WithBundle(slot, sel, ready)
      BY <1>2 DEF Fetched, Predictions
    <2>2. PICK x : x = fe_expand(fetch_pc, slot)
      OBVIOUS
    <2>3. CanPredict(fetch_pc, slot)
      BY <2>1 DEF WithBundle
    <2>4. Chunk(x, 2 * FETCH_WIDTH)
      BY <1>0, <2>2, <2>3, ExpandType
    <2>5. PICK s \in Seq(Entries) : s = x.entries
      BY <2>4 DEF Chunk
    <2>6. Advance(s, sel, ready) /\ carry' = x.carry /\ fetch_pc' = next_bundle(fetch_pc, slot)
      BY <2>1, <2>2, <2>5 DEF WithBundle
    <2>7. Chunked(fetch_pc, slot, x, e)
      BY <1>0, <1>1, <2>2, <2>3, ExpandPath
    <2>8. PICK b : Path(s, e, b) /\ Whole(s) /\ Ends(x.carry, b, next_bundle(fetch_pc, slot))
      BY <2>5, <2>7 DEF Chunked
    <2>9. Moved(s, Taken(sel, ready))
      BY <1>0, <2>6, AdvanceMoved
    <2>10. Path(Queue', npc', b) /\ Whole(Queue')
      BY <1>0, <1>1, <2>8, <2>9, AdvanceTrack
    <2>11. Ends(carry', b, fetch_pc')
      BY <2>6, <2>8
    <2> QED BY <2>10, <2>11 DEF OnTrack
  <1>3. ASSUME NEW ready \in BOOLEAN, Waited(ready) PROVE OnTrack(Queue, npc, carry, fetch_pc)'
    <2>1. PICK sel \in Sels : WithoutBundle(sel, ready)
      BY <1>3 DEF Waited
    <2>0. <<>> \in Seq(Entries)
      OBVIOUS
    <2>2. PICK s \in Seq(Entries) : s = <<>>
      BY <2>0, Zenon
    <2>3. Advance(s, sel, ready) /\ carry' = carry /\ fetch_pc' = fetch_pc
      BY <2>1, <2>2 DEF WithoutBundle
    <2>4. Path(s, e, e) /\ Whole(s)
      BY <2>2, PathEmpty
    <2>5. Moved(s, Taken(sel, ready))
      BY <1>0, <2>3, AdvanceMoved
    <2>6. Path(Queue', npc', e) /\ Whole(Queue')
      BY <1>0, <1>1, <2>4, <2>5, AdvanceTrack
    <2>7. Ends(carry', e, fetch_pc')
      BY <1>1, <2>3
    <2> QED BY <2>6, <2>7 DEF OnTrack
  <1>4. ASSUME NEW pc \in Starts, IFlush(pc) PROVE OnTrack(Queue, npc, carry, fetch_pc)'
    <2>1. Queue' = <<>>
      BY <1>4 DEF IFlush, Queue
    <2>2. Path(<<>>, pc, pc) /\ Whole(<<>>)
      BY PathEmpty
    <2>3. Ends(<<>>, pc, pc)
      BY DEF Ends
    <2> QED BY <1>4, <2>1, <2>2, <2>3 DEF IFlush, OnTrack
  <1>5. CASE UNCHANGED ivars
    <2>1. Queue' = Queue /\ npc' = npc /\ carry' = carry /\ fetch_pc' = fetch_pc
      BY <1>5 DEF ivars, Queue
    <2> QED BY <1>1, <2>1 DEF OnTrack
  <1> QED BY <1>2, <1>3, <1>4, <1>5 DEF INext

\* The inductive invariant.
LEMMA OnTrackAlways ==
    ASSUME NoOverlap, NoJumpNext PROVE ISpec => []PathInv
  <1>1. IInit => PathInv
    BY TypesInit, TrackInit DEF PathInv
  <1>2. PathInv /\ [INext]_ivars => PathInv'
    <2> SUFFICES ASSUME PathInv, [INext]_ivars PROVE PathInv'
      OBVIOUS
    <2>1. ITypeOK'
      BY TypesNext DEF PathInv
    <2>2. OnTrack(Queue, npc, carry, fetch_pc)'
      BY TrackNext
    <2> QED BY <2>1, <2>2 DEF PathInv
  <1> QED BY <1>1, <1>2, PTL DEF ISpec

\* Nothing between fetch and rename is lost, repeated or out of order: the pending instructions
\* and the buffer form one path from where program order has arrived to the fetch unit.
THEOREM PathUnbroken == ASSUME NoOverlap, NoJumpNext PROVE ISpec => []OnePath
  <1>1. PathInv => OnePath
    <2> SUFFICES ASSUME PathInv PROVE OnePath
      OBVIOUS
    <2>1. PICK e : Path(Queue, npc, e) /\ Whole(Queue) /\ Ends(carry, e, fetch_pc)
      BY DEF PathInv, OnTrack
    <2>2. e = End
      BY <2>1 DEF Path, After, End
    <2>3. \A i \in 1 .. Len(Queue) : Queue[i].pc = IF i = 1 THEN npc ELSE Queue[i - 1].pred_npc
      BY <2>1 DEF Path
    <2>4. IF carry = <<>> THEN fetch_pc = End ELSE carry[1] = End /\ fetch_pc = At(End, 1)
      BY <2>1, <2>2 DEF Ends
    <2> QED BY <2>3, <2>4 DEF OnePath
  <1> QED BY <1>1, OnTrackAlways, PTL

\* Every instruction that waits is made of its own halfwords, also one that two bundles hold.
THEOREM InstructionsWhole == ASSUME NoOverlap, NoJumpNext PROVE ISpec => []WholeInstructions
  <1>1. PathInv => WholeInstructions
    BY DEF PathInv, OnTrack, Whole, Own, WholeInstructions
  <1> QED BY <1>1, OnTrackAlways, PTL

=============================================================================
