-------------------------- MODULE LoadStoreProofs --------------------------
(***************************************************************************)
(* Proofs about LoadStore.tla and the store buffer, for every depth, width *)
(* and word size, every set of words, any number of lanes and any number   *)
(* of instructions: the store queue and the store buffer hold the stores   *)
(* of the program in its order, and memory, as the buffer drains into it,  *)
(* is the memory of the committed instructions; and loads see it.          *)
(***************************************************************************)
EXTENDS LoadStore, FiniteSetTheorems, SequenceTheorems, TLAPS

-----------------------------------------------------------------------------
(* Remainders, and induction over the naturals.                            *)

\* A multiple of n closer to zero than n is zero.
LEMMA MulBound ==
    ASSUME NEW n \in Nat \ {0}, NEW k \in Int, k * n < n, -n < k * n PROVE k = 0
  <1>1. CASE k >= 1
    <2>1. PICK j \in Nat : k = j + 1
      BY <1>1
    <2>2. k * n = j * n + n /\ j * n >= 0
      BY <2>1
    <2> QED BY <2>2
  <1>2. CASE k <= -1
    <2>1. PICK j \in Nat : k = -j - 1
      BY <1>2
    <2>2. k * n = -(j * n) - n /\ j * n >= 0
      BY <2>1
    <2> QED BY <2>2
  <1> QED BY <1>1, <1>2

\* Quotient and remainder.
LEMMA ModSplit ==
    ASSUME NEW n \in Nat \ {0}, NEW x \in Int
    PROVE  x % n \in 0 .. n - 1 /\ x \div n \in Int /\ x = (x \div n) * n + (x % n)
  OBVIOUS

\* The same with names for both.
LEMMA ModForm ==
    ASSUME NEW n \in Nat \ {0}, NEW x \in Int
    PROVE  \E p \in Int, s \in 0 .. n - 1 : s = x % n /\ x = p * n + s
  <1>1. x % n \in 0 .. n - 1 /\ x \div n \in Int /\ x = (x \div n) * n + (x % n)
    BY ModSplit
  <1> WITNESS x \div n \in Int, x % n \in 0 .. n - 1
  <1> QED BY <1>1

\* They are unique.
LEMMA ModUnique ==
    ASSUME NEW n \in Nat \ {0}, NEW x \in Int, NEW q \in Int, NEW r \in 0 .. n - 1, x = q * n + r
    PROVE  x % n = r
  <1>1. PICK p \in Int, s \in 0 .. n - 1 : s = x % n /\ x = p * n + s
    BY ModForm
  <1>2. (q - p) * n = s - r
    <2>1. (q - p) * n = q * n - p * n
      OBVIOUS
    <2> QED BY <2>1, <1>1
  <1>3. q - p = 0
    BY <1>2, MulBound
  <1> QED BY <1>1, <1>2, <1>3

\* What is within one modulus of the range is brought back by one.
LEMMA ModNear ==
    ASSUME NEW n \in Nat \ {0}, NEW x \in Int
    PROVE  /\ x \in 0 .. n - 1 => x % n = x
           /\ x \in n .. 2 * n - 1 => x % n = x - n
           /\ x \in -n .. -1 => x % n = x + n
  <1>1. x \in 0 .. n - 1 => x % n = x
    <2>1. x = 0 * n + x
      OBVIOUS
    <2> QED BY <2>1, ModUnique
  <1>2. x \in n .. 2 * n - 1 => x % n = x - n
    <2>1. x = 1 * n + (x - n)
      OBVIOUS
    <2>2. x \in n .. 2 * n - 1 => x - n \in 0 .. n - 1
      OBVIOUS
    <2> QED BY <2>1, <2>2, ModUnique
  <1>3. x \in -n .. -1 => x % n = x + n
    <2>1. x = (-1) * n + (x + n)
      OBVIOUS
    <2>2. x \in -n .. -1 => x + n \in 0 .. n - 1
      OBVIOUS
    <2> QED BY <2>1, <2>2, ModUnique
  <1> QED BY <1>1, <1>2, <1>3

\* Numbers less than the modulus apart have different remainders.
LEMMA ModApart ==
    ASSUME NEW n \in Nat \ {0}, NEW x \in Int, NEW y \in Int, x % n = y % n, x - y < n, y - x < n
    PROVE  x = y
  <1>1. PICK p \in Int, s \in 0 .. n - 1 : s = x % n /\ x = p * n + s
    BY ModForm
  <1>2. PICK q \in Int, t \in 0 .. n - 1 : t = y % n /\ y = q * n + t
    BY ModForm
  <1>3. (p - q) * n = x - y
    <2>1. (p - q) * n = p * n - q * n
      OBVIOUS
    <2>2. s = t
      BY <1>1, <1>2
    <2>3. x = p * n + s /\ y = q * n + s
      BY <1>1, <1>2, <2>2
    <2> QED BY <2>1, <2>3
  <1>4. p - q = 0
    BY <1>3, MulBound
  <1> QED BY <1>3, <1>4

\* A set of numbers has a least one.
LEMMA LeastNat ==
    ASSUME NEW T, T \subseteq Nat, T # {} PROVE \E x \in T : \A y \in T : x <= y
  <1>1. PICK x \in T : \A y \in T : ~(<<y, x>> \in OpToRel(<, Nat))
    BY NatLessThanWellFounded, WFMin
  <1>2. ASSUME NEW y \in T PROVE x <= y
    <2>1. x \in Nat /\ y \in Nat
      OBVIOUS
    <2>2. y < x => <<y, x>> \in OpToRel(<, Nat)
      BY <2>1 DEF OpToRel
    <2>3. ~(y < x)
      BY <1>1, <2>2
    <2> QED BY <2>1, <2>3
  <1> QED BY <1>2

\* Induction, for a set of numbers.
LEMMA InductionOver ==
    ASSUME NEW S, 0 \in S, \A n \in Nat : n \in S => n + 1 \in S PROVE Nat \subseteq S
  <1> SUFFICES ASSUME Nat \ S # {} PROVE FALSE
    OBVIOUS
  <1>1. PICK x \in Nat \ S : \A y \in Nat \ S : x <= y
    BY LeastNat
  <1>2. x - 1 \in Nat
    BY <1>1
  <1>3. x - 1 \in S
    BY <1>1, <1>2
  <1>4. (x - 1) + 1 \in S
    BY <1>2, <1>3
  <1>5. (x - 1) + 1 = x
    BY <1>1
  <1> QED BY <1>1, <1>4, <1>5


-----------------------------------------------------------------------------
(* Ranks: how many elements of a set of positions are at most n.           *)

UpTo(S, n) == {j \in S : j <= n}
Count(S, n) == Cardinality(UpTo(S, n))

\* A set of positions counts from zero, and each position counts for one.
LEMMA CountSteps ==
    ASSUME NEW S, S \subseteq Nat \ {0}
    PROVE  /\ Count(S, 0) = 0
           /\ \A n \in Nat : Count(S, n) \in Nat /\ IsFiniteSet(UpTo(S, n))
           /\ \A n \in Nat : Count(S, n + 1) = IF n + 1 \in S THEN Count(S, n) + 1 ELSE Count(S, n)
  <1>0. \A j \in S : j \in Nat /\ j > 0
    OBVIOUS
  <1>1. Count(S, 0) = 0
    <2>1. UpTo(S, 0) = {}
      <3>1. \A j \in S : ~(j <= 0)
        BY <1>0
      <3> QED BY <3>1 DEF UpTo
    <2> QED BY <2>1, FS_EmptySet DEF Count
  <1>2. ASSUME NEW n \in Nat PROVE Count(S, n) \in Nat /\ IsFiniteSet(UpTo(S, n))
    <2>1. UpTo(S, n) \in SUBSET Nat /\ \A s \in UpTo(S, n) : s <= n
      BY DEF UpTo
    <2>2. IsFiniteSet(UpTo(S, n))
      BY <2>1, FS_BoundedSetOfNaturals
    <2> QED BY <2>2, FS_CardinalityType DEF Count
  <1>3. ASSUME NEW n \in Nat
        PROVE  Count(S, n + 1) = IF n + 1 \in S THEN Count(S, n) + 1 ELSE Count(S, n)
    <2>1. CASE n + 1 \in S
      <3>1. UpTo(S, n + 1) = UpTo(S, n) \cup {n + 1}
        <4>1. \A j \in S : j <= n + 1 <=> j <= n \/ j = n + 1
          BY <1>0
        <4>2. n + 1 <= n + 1
          OBVIOUS
        <4> QED BY <2>1, <4>1, <4>2 DEF UpTo
      <3>2. n + 1 \notin UpTo(S, n)
        BY DEF UpTo
      <3> QED BY <2>1, <3>1, <3>2, <1>2, FS_AddElement DEF Count
    <2>2. CASE n + 1 \notin S
      <3>1. UpTo(S, n + 1) = UpTo(S, n)
        <4>1. \A j \in S : j <= n + 1 <=> j <= n
          BY <1>0, <2>2
        <4> QED BY <4>1 DEF UpTo
      <3> QED BY <2>2, <3>1 DEF Count
    <2> QED BY <2>1, <2>2
  <1> QED BY <1>1, <1>2, <1>3

\* Ranks grow.
LEMMA CountGrows ==
    ASSUME NEW S, S \subseteq Nat \ {0}, NEW m \in Nat, NEW n \in Nat, m <= n
    PROVE  Count(S, m) <= Count(S, n) /\ Count(S, n) <= Count(S, m) + (n - m)
  <1> DEFINE T == {d \in Nat : Count(S, m) <= Count(S, m + d) /\ Count(S, m + d) <= Count(S, m) + d}
  <1>1. 0 \in T
    <2>1. Count(S, m) \in Nat
      BY CountSteps
    <2>2. m + 0 = m
      OBVIOUS
    <2> QED BY <2>1, <2>2
  <1>2. ASSUME NEW d \in Nat, d \in T PROVE d + 1 \in T
    <2>1. m + (d + 1) = (m + d) + 1 /\ m + d \in Nat
      OBVIOUS
    <2>2. /\ Count(S, m) \in Nat /\ Count(S, m + d) \in Nat
          /\ Count(S, (m + d) + 1) = IF (m + d) + 1 \in S THEN Count(S, m + d) + 1 ELSE Count(S, m + d)
      BY <2>1, CountSteps
    <2>3. Count(S, m) <= Count(S, m + d) /\ Count(S, m + d) <= Count(S, m) + d
      BY <1>2
    <2>4. Count(S, m) <= Count(S, (m + d) + 1) /\ Count(S, (m + d) + 1) <= Count(S, m) + (d + 1)
      BY <2>2, <2>3
    <2> QED BY <2>1, <2>4
  <1> HIDE DEF T
  <1>3. Nat \subseteq T
    BY <1>1, <1>2, InductionOver
  <1>4. n - m \in T
    BY <1>3
  <1>5. m + (n - m) = n
    OBVIOUS
  <1> QED BY <1>4, <1>5 DEF T

\* Every rank below that of n belongs to an element.
LEMMA CountOnto ==
    ASSUME NEW S, S \subseteq Nat \ {0}, NEW n \in Nat, NEW q \in Nat, q < Count(S, n)
    PROVE  \E i \in S : i <= n /\ Count(S, i - 1) = q
  <1> DEFINE T == {d \in Nat : q < Count(S, d) => \E i \in S : i <= d /\ Count(S, i - 1) = q}
  <1>1. 0 \in T
    <2>1. Count(S, 0) = 0
      BY CountSteps
    <2> QED BY <2>1
  <1>2. ASSUME NEW d \in Nat, d \in T PROVE d + 1 \in T
    <2>1. /\ Count(S, d) \in Nat
          /\ Count(S, d + 1) = IF d + 1 \in S THEN Count(S, d) + 1 ELSE Count(S, d)
      BY CountSteps
    <2>2. CASE q < Count(S, d)
      <3>1. PICK i \in S : i <= d /\ Count(S, i - 1) = q
        BY <1>2, <2>2
      <3>2. i <= d + 1
        BY <3>1
      <3> QED BY <3>1, <3>2
    <2>3. CASE ~(q < Count(S, d)) /\ q < Count(S, d + 1)
      <3>1. d + 1 \in S /\ Count(S, d) = q
        BY <2>1, <2>3
      <3>2. (d + 1) - 1 = d /\ d + 1 <= d + 1
        OBVIOUS
      <3> QED BY <3>1, <3>2
    <2> QED BY <2>2, <2>3
  <1> HIDE DEF T
  <1>3. Nat \subseteq T
    BY <1>1, <1>2, InductionOver
  <1> QED BY <1>3 DEF T

\* Different elements have different ranks.
LEMMA CountApart ==
    ASSUME NEW S, S \subseteq Nat \ {0}, NEW i \in S, NEW j \in S, Count(S, i - 1) = Count(S, j - 1)
    PROVE  i = j
  <1>1. ASSUME NEW a \in S, NEW b \in S, a < b PROVE Count(S, a - 1) < Count(S, b - 1)
    <2>1. a - 1 \in Nat /\ b - 1 \in Nat /\ (a - 1) + 1 = a /\ a \in Nat /\ a <= b - 1
      BY <1>1
    <2>2. Count(S, a) = Count(S, a - 1) + 1
      <3>1. Count(S, (a - 1) + 1) = IF (a - 1) + 1 \in S THEN Count(S, a - 1) + 1 ELSE Count(S, a - 1)
        BY <2>1, CountSteps
      <3> QED BY <2>1, <3>1
    <2>3. Count(S, a) <= Count(S, b - 1)
      BY <2>1, CountGrows
    <2>4. \A n \in Nat : Count(S, n) \in Nat
      BY CountSteps
    <2>5. Count(S, a - 1) \in Nat /\ Count(S, a) \in Nat /\ Count(S, b - 1) \in Nat
      BY <2>1, <2>4
    <2> QED BY <2>2, <2>3, <2>5
  <1>2. i - 1 \in Nat /\ j - 1 \in Nat
    OBVIOUS
  <1>3. Count(S, i - 1) \in Nat /\ Count(S, j - 1) \in Nat
    BY <1>2, CountSteps
  <1>4. ~(i < j) /\ ~(j < i)
    BY <1>1, <1>3
  <1> QED BY <1>4

\* T is S moved down by k, up to m.
Shifted(S, T, k, m) ==
    /\ S \subseteq Nat \ {0} /\ T \subseteq Nat \ {0} /\ k \in Nat /\ m \in Nat
    /\ \A j \in 1 .. m : j \in T <=> j + k \in S

\* The ranks in a set moved down by k are the ranks less the one of k.
LEMMA CountMoved ==
    ASSUME NEW S, NEW T, NEW k, NEW m, Shifted(S, T, k, m)
    PROVE  \A n \in 0 .. m : Count(T, n) = Count(S, n + k) - Count(S, k)
  <1>0. S \subseteq Nat \ {0} /\ T \subseteq Nat \ {0} /\ k \in Nat /\ m \in Nat
    BY DEF Shifted
  <1> DEFINE U == {d \in Nat : d <= m => Count(T, d) = Count(S, d + k) - Count(S, k)}
  <1>1. 0 \in U
    <2>1. Count(T, 0) = 0 
      BY <1>0, CountSteps
    <2>2. Count(S, k) \in Nat
      BY <1>0, CountSteps
    <2>3. 0 + k = k 
      BY <1>0
    <2> QED BY <2>1, <2>2, <2>3
  <1>2. ASSUME NEW d \in Nat, d \in U PROVE d + 1 \in U
    <2> SUFFICES ASSUME d + 1 <= m PROVE Count(T, d + 1) = Count(S, (d + 1) + k) - Count(S, k)
      OBVIOUS
    <2>1. (d + 1) + k = (d + k) + 1 /\ d + k \in Nat /\ d + 1 \in 1 .. m /\ d <= m
      BY <1>0
    <2>2. Count(T, d) = Count(S, d + k) - Count(S, k)
      BY <1>2, <2>1
    <2>3. d + 1 \in T <=> (d + k) + 1 \in S
      BY <2>1 DEF Shifted
    <2>4. /\ Count(T, d) \in Nat /\ Count(S, d + k) \in Nat /\ Count(S, k) \in Nat
          /\ Count(T, d + 1) = IF d + 1 \in T THEN Count(T, d) + 1 ELSE Count(T, d)
          /\ Count(S, (d + k) + 1) = IF (d + k) + 1 \in S THEN Count(S, d + k) + 1 ELSE Count(S, d + k)
      BY <1>0, <2>1, CountSteps
    <2> QED BY <2>1, <2>2, <2>3, <2>4
  <1> HIDE DEF U
  <1>3. Nat \subseteq U
    BY <1>1, <1>2, InductionOver
  <1> QED BY <1>0, <1>3 DEF U

-----------------------------------------------------------------------------
(* The two rings: entries of the store buffer and ROB tags.                *)

\* A remainder may be taken early.
LEMMA ModAdd ==
    ASSUME NEW n \in Nat \ {0}, NEW x \in Int, NEW y \in Int
    PROVE  ((x % n) + y) % n = (x + y) % n
  <1>1. PICK p \in Int, s \in 0 .. n - 1 : s = x % n /\ x = p * n + s
    BY ModForm
  <1>2. PICK z \in Int : z = s + y
    OBVIOUS
  <1>3. PICK q \in Int, t \in 0 .. n - 1 : t = z % n /\ z = q * n + t
    BY ModForm
  <1>4. PICK v \in Int : v = x + y
    OBVIOUS
  <1>5. (p + q) * n = p * n + q * n
    OBVIOUS
  <1>6. p + q \in Int /\ p * n \in Int /\ q * n \in Int
    OBVIOUS
  <1>7. v = (p * n + q * n) + t
    <2>1. PICK a \in Int, b \in Int : a = p * n /\ b = q * n
      BY <1>6
    <2>2. x = a + s /\ z = b + t
      BY <1>1, <1>3, <2>1
    <2>3. v = (a + b) + t
      BY <1>2, <1>4, <2>2
    <2> QED BY <2>1, <2>3
  <1>8. v = (p + q) * n + t
    BY <1>5, <1>7
  <1>9. v % n = t
    BY <1>6, <1>8, ModUnique
  <1> QED BY <1>1, <1>2, <1>3, <1>4, <1>9

\* Walking around the store buffer.
LEMMA SbRing ==
    ASSUME NEW h \in SbId
    PROVE  /\ \A n \in Int : SbSlot(h, n) \in SbId
           /\ \A a, b \in Int : SbSlot(SbSlot(h, a), b) = SbSlot(h, a + b)
           /\ \A m, n \in Int : SbSlot(h, m) = SbSlot(h, n) /\ m - n < SB_DEPTH /\ n - m < SB_DEPTH => m = n
           /\ SbSlot(h, 0) = h /\ SbSlot(h, SB_DEPTH) = h
           /\ \A s \in SbId : (s - h) % SB_DEPTH \in 0 .. SB_DEPTH - 1 /\ SbSlot(h, (s - h) % SB_DEPTH) = s
  <1>0. SB_DEPTH \in Nat \ {0} /\ h \in Int /\ h \in 0 .. SB_DEPTH - 1
    BY SbAssumption DEF SbId
  <1>1. ASSUME NEW n \in Int PROVE SbSlot(h, n) \in SbId
    BY <1>0 DEF SbSlot, SbId
  <1>2. ASSUME NEW a \in Int, NEW b \in Int PROVE SbSlot(SbSlot(h, a), b) = SbSlot(h, a + b)
    <2>1. h + a \in Int /\ (h + a) + b = h + (a + b)
      BY <1>0
    <2>2. (((h + a) % SB_DEPTH) + b) % SB_DEPTH = ((h + a) + b) % SB_DEPTH
      BY <1>0, <2>1, ModAdd
    <2> QED BY <2>1, <2>2 DEF SbSlot
  <1>3. ASSUME NEW m \in Int, NEW n \in Int, SbSlot(h, m) = SbSlot(h, n), m - n < SB_DEPTH, n - m < SB_DEPTH
        PROVE  m = n
    <2>1. /\ h + m \in Int /\ h + n \in Int
          /\ (h + m) - (h + n) < SB_DEPTH /\ (h + n) - (h + m) < SB_DEPTH
      BY <1>0, <1>3
    <2>2. (h + m) % SB_DEPTH = (h + n) % SB_DEPTH
      BY <1>3 DEF SbSlot
    <2>3. h + m = h + n
      BY <1>0, <2>1, <2>2, ModApart
    <2> QED BY <1>0, <2>3
  <1>4. SbSlot(h, 0) = h /\ SbSlot(h, SB_DEPTH) = h
    <2>1. h + 0 = h /\ h + SB_DEPTH \in SB_DEPTH .. 2 * SB_DEPTH - 1 /\ (h + SB_DEPTH) - SB_DEPTH = h
      BY <1>0
    <2>2. h % SB_DEPTH = h
      BY <1>0, ModNear
    <2>3. (h + SB_DEPTH) % SB_DEPTH = (h + SB_DEPTH) - SB_DEPTH
      BY <1>0, <2>1, ModNear
    <2> QED BY <2>1, <2>2, <2>3 DEF SbSlot
  <1>5. ASSUME NEW s \in SbId
        PROVE  (s - h) % SB_DEPTH \in 0 .. SB_DEPTH - 1 /\ SbSlot(h, (s - h) % SB_DEPTH) = s
    <2>1. s \in 0 .. SB_DEPTH - 1 /\ s - h \in Int
      BY <1>0 DEF SbId
    <2>2. (s - h) % SB_DEPTH \in 0 .. SB_DEPTH - 1
      BY <1>0, <2>1, ModSplit
    <2>3. (((s - h) % SB_DEPTH) + h) % SB_DEPTH = ((s - h) + h) % SB_DEPTH
      BY <1>0, <2>1, ModAdd
    <2>4. (s - h) + h = s /\ h + ((s - h) % SB_DEPTH) = ((s - h) % SB_DEPTH) + h
      BY <1>0, <2>1, <2>2
    <2>5. s % SB_DEPTH = s
      BY <1>0, <2>1, ModNear
    <2> QED BY <2>2, <2>3, <2>4, <2>5 DEF SbSlot
  <1> QED BY <1>1, <1>2, <1>3, <1>4, <1>5

\* ROB tags: they name the instructions in flight, and keep naming them when older ones retire.
LEMMA Tags ==
    ASSUME rob_head \in RobTags
    PROVE  /\ \A i \in Int : Tag(i) \in RobTags
           /\ \A i \in 1 .. ROB_DEPTH : Pos(Tag(i)) = i
           /\ \A i \in 1 .. ROB_DEPTH : (Tag(i) - rob_head) % ROB_DEPTH = i - 1
           /\ \A i, j \in 1 .. ROB_DEPTH : Tag(i) = Tag(j) => i = j
  <1>0. ROB_DEPTH \in Nat \ {0} /\ rob_head \in Int /\ rob_head \in 0 .. ROB_DEPTH - 1
    BY LsAssumption DEF RobTags
  <1>1. ASSUME NEW i \in Int PROVE Tag(i) \in RobTags
    BY <1>0 DEF Tag, RobTags
  <1>2. ASSUME NEW i \in 1 .. ROB_DEPTH PROVE (Tag(i) - rob_head) % ROB_DEPTH = i - 1
    <2>1. /\ rob_head + i - 1 \in Int /\ -rob_head \in Int /\ i - 1 \in 0 .. ROB_DEPTH - 1
          /\ (rob_head + i - 1) + (-rob_head) = i - 1
      BY <1>0
    <2>2. (((rob_head + i - 1) % ROB_DEPTH) + (-rob_head)) % ROB_DEPTH = (i - 1) % ROB_DEPTH
      BY <1>0, <2>1, ModAdd
    <2>3. (i - 1) % ROB_DEPTH = i - 1
      <3>1. PICK z \in Int : z = i - 1
        BY <2>1
      <3>2. z % ROB_DEPTH = z
        BY <1>0, <2>1, <3>1, ModNear
      <3> QED BY <3>1, <3>2
    <2>4. Tag(i) \in Int /\ Tag(i) - rob_head = Tag(i) + (-rob_head)
      BY <1>0, <1>1 DEF RobTags
    <2> QED BY <2>2, <2>3, <2>4 DEF Tag
  <1>3. ASSUME NEW i \in 1 .. ROB_DEPTH PROVE Pos(Tag(i)) = i
    BY <1>0, <1>2 DEF Pos
  <1>4. ASSUME NEW i \in 1 .. ROB_DEPTH, NEW j \in 1 .. ROB_DEPTH, Tag(i) = Tag(j) PROVE i = j
    <2>1. i - 1 = j - 1
      BY <1>2, <1>4
    <2> QED BY <2>1
  <1> QED BY <1>1, <1>2, <1>3, <1>4

\* The tag of an instruction does not change when k older ones retire.
LEMMA TagMoves ==
    ASSUME rob_head \in RobTags, NEW k \in Nat, rob_head' = (rob_head + k) % ROB_DEPTH
    PROVE  rob_head' \in RobTags /\ \A i \in Int : Tag(i)' = Tag(i + k)
  <1>0. ROB_DEPTH \in Nat \ {0} /\ rob_head \in Int
    BY LsAssumption DEF RobTags
  <1>1. rob_head' \in RobTags
    BY <1>0 DEF RobTags
  <1>2. ASSUME NEW i \in Int PROVE Tag(i)' = Tag(i + k)
    <2>1. rob_head + k \in Int /\ i - 1 \in Int /\ (rob_head + k) + (i - 1) = rob_head + (i + k) - 1
      BY <1>0
    <2>2. (((rob_head + k) % ROB_DEPTH) + (i - 1)) % ROB_DEPTH = ((rob_head + k) + (i - 1)) % ROB_DEPTH
      BY <1>0, <2>1, ModAdd
    <2>3. rob_head' + i - 1 = rob_head' + (i - 1)
      BY <1>1 DEF RobTags
    <2>4. Tag(i)' = (rob_head' + i - 1) % ROB_DEPTH
      BY DEF Tag
    <2> QED BY <2>1, <2>2, <2>3, <2>4 DEF Tag
  <1> QED BY <1>1, <1>2


-----------------------------------------------------------------------------
(* Writing a list of stores to memory, one after the other.  The committed *)
(* entries of the store buffer and the retiring instructions are both such *)
(* lists; an element that is off writes nothing.                           *)

Apply(mem, w) == IF w.on THEN Written(mem, w.e) ELSE mem

\* f is memory before and after each of the first n writes.
RunOf(f, base, ws, n) == f = [i \in 0 .. n |-> IF i = 0 THEN base ELSE Apply(f[i - 1], ws[i])]

\* The recursion is well defined.
LEMMA RunExists ==
    ASSUME NEW base, NEW ws, NEW D \in Nat PROVE \E f : RunOf(f, base, ws, D)
  <1> DEFINE S == {n \in Nat : \E f : RunOf(f, base, ws, n)}
  <1>1. 0 \in S
    <2>1. RunOf([i \in 0 .. 0 |-> base], base, ws, 0)
      BY DEF RunOf
    <2> QED BY <2>1
  <1>2. ASSUME NEW n \in Nat, n \in S PROVE n + 1 \in S
    <2>1. PICK f : RunOf(f, base, ws, n)
      BY <1>2
    <2> DEFINE g == [i \in 0 .. n + 1 |-> IF i <= n THEN f[i] ELSE Apply(f[n], ws[i])]
    <2>2. ASSUME NEW i \in 0 .. n + 1 PROVE g[i] = IF i = 0 THEN base ELSE Apply(g[i - 1], ws[i])
      <3>1. CASE i = 0
        <4>1. i \in 0 .. n /\ i <= n
          BY <3>1
        <4> QED BY <2>1, <3>1, <4>1 DEF RunOf
      <3>2. CASE i # 0 /\ i <= n
        <4>1. i \in 0 .. n /\ i - 1 \in 0 .. n /\ i - 1 \in 0 .. n + 1 /\ i - 1 <= n
          BY <3>2
        <4>2. g[i] = f[i] /\ g[i - 1] = f[i - 1]
          BY <3>2, <4>1
        <4>3. f[i] = Apply(f[i - 1], ws[i])
          BY <2>1, <3>2, <4>1 DEF RunOf
        <4> QED BY <3>2, <4>2, <4>3
      <3>3. CASE i = n + 1
        <4>1. i - 1 = n /\ i - 1 \in 0 .. n + 1 /\ i - 1 <= n /\ ~(i <= n) /\ i # 0
          BY <3>3
        <4>2. g[i - 1] = f[n] /\ g[i] = Apply(f[n], ws[i])
          BY <4>1
        <4> QED BY <4>1, <4>2
      <3> QED BY <3>1, <3>2, <3>3
    <2>3. g = [i \in 0 .. n + 1 |-> g[i]]
      OBVIOUS
    <2> HIDE DEF g
    <2>4. RunOf(g, base, ws, n + 1)
      BY <2>2, <2>3 DEF RunOf
    <2> QED BY <2>4
  <1> HIDE DEF S
  <1>3. Nat \subseteq S
    BY <1>1, <1>2, InductionOver
  <1> QED BY <1>3 DEF S

\* Memory after the first n of the D writes ws to base.
Run(base, ws, D) == CHOOSE f : RunOf(f, base, ws, D)

LEMMA RunSteps ==
    ASSUME NEW base, NEW ws, NEW D \in Nat
    PROVE  /\ Run(base, ws, D)[0] = base
           /\ \A n \in 0 .. D - 1 : Run(base, ws, D)[n + 1] = Apply(Run(base, ws, D)[n], ws[n + 1])
  <1> DEFINE f == Run(base, ws, D)
  <1>1. RunOf(f, base, ws, D)
    BY RunExists DEF Run
  <1> HIDE DEF f
  <1>2. f[0] = base
    BY <1>1 DEF RunOf
  <1>3. ASSUME NEW n \in 0 .. D - 1 PROVE f[n + 1] = Apply(f[n], ws[n + 1])
    <2>1. n + 1 \in 0 .. D /\ n + 1 # 0 /\ (n + 1) - 1 = n
      OBVIOUS
    <2> QED BY <1>1, <2>1 DEF RunOf
  <1> QED BY <1>2, <1>3 DEF f

\* Writes that are off change nothing.
LEMMA RunOff ==
    ASSUME NEW base, NEW ws, NEW D \in Nat, NEW a \in 0 .. D, \A i \in a + 1 .. D : ~ws[i].on
    PROVE  Run(base, ws, D)[D] = Run(base, ws, D)[a]
  <1> DEFINE S == {d \in Nat : a + d <= D => Run(base, ws, D)[a + d] = Run(base, ws, D)[a]}
  <1>1. 0 \in S
    OBVIOUS
  <1>2. ASSUME NEW d \in Nat, d \in S PROVE d + 1 \in S
    <2> SUFFICES ASSUME a + (d + 1) <= D PROVE Run(base, ws, D)[a + (d + 1)] = Run(base, ws, D)[a]
      OBVIOUS
    <2>1. a + d \in 0 .. D - 1 /\ a + (d + 1) = (a + d) + 1 /\ (a + d) + 1 \in a + 1 .. D /\ a + d <= D
      OBVIOUS
    <2>2. Run(base, ws, D)[(a + d) + 1] = Apply(Run(base, ws, D)[a + d], ws[(a + d) + 1])
      BY <2>1, RunSteps
    <2>3. ~ws[(a + d) + 1].on
      BY <2>1
    <2> QED BY <1>2, <2>1, <2>2, <2>3 DEF Apply
  <1> HIDE DEF S
  <1>3. Nat \subseteq S
    BY <1>1, <1>2, InductionOver
  <1>4. D - a \in Nat /\ a + (D - a) = D
    OBVIOUS
  <1>5. D - a \in S
    BY <1>3, <1>4
  <1> QED BY <1>4, <1>5 DEF S

\* Two lists that agree from p on, from the same memory.
LEMMA RunMoved ==
    ASSUME NEW base, NEW ws, NEW D \in Nat, NEW base2, NEW ws2, NEW D2 \in Nat,
           NEW p \in 0 .. D, NEW m \in 0 .. D2, m + p <= D,
           base2 = Run(base, ws, D)[p], \A i \in 1 .. m : ws2[i] = ws[i + p]
    PROVE  Run(base2, ws2, D2)[m] = Run(base, ws, D)[m + p]
  <1> DEFINE S == {d \in Nat : d <= m => Run(base2, ws2, D2)[d] = Run(base, ws, D)[d + p]}
  <1>1. 0 \in S
    <2>1. Run(base2, ws2, D2)[0] = base2
      BY RunSteps
    <2>2. 0 + p = p
      OBVIOUS
    <2> QED BY <2>1, <2>2
  <1>2. ASSUME NEW d \in Nat, d \in S PROVE d + 1 \in S
    <2> SUFFICES ASSUME d + 1 <= m PROVE Run(base2, ws2, D2)[d + 1] = Run(base, ws, D)[(d + 1) + p]
      OBVIOUS
    <2>1. /\ d \in 0 .. D2 - 1 /\ d + p \in 0 .. D - 1 /\ (d + 1) + p = (d + p) + 1
          /\ d <= m /\ d + 1 \in 1 .. m
      OBVIOUS
    <2>2. Run(base2, ws2, D2)[d + 1] = Apply(Run(base2, ws2, D2)[d], ws2[d + 1])
      BY <2>1, RunSteps
    <2>3. Run(base, ws, D)[(d + p) + 1] = Apply(Run(base, ws, D)[d + p], ws[(d + p) + 1])
      BY <2>1, RunSteps
    <2>4. ws2[d + 1] = ws[(d + p) + 1]
      BY <2>1
    <2> QED BY <1>2, <2>1, <2>2, <2>3, <2>4
  <1> HIDE DEF S
  <1>3. Nat \subseteq S
    BY <1>1, <1>2, InductionOver
  <1>4. m \in S /\ m <= m
    BY <1>3
  <1> QED BY <1>4 DEF S

-----------------------------------------------------------------------------
(* The inductive invariant.                                                *)

\* The n-th entry of the store buffer from its head.
Nth(n) == sb.mem[SbSlot(sb.head, n)]

\* Committed entries of the buffer, and its entry for the i-th instruction in flight.
NumCommitted == Cardinality(Committed)
Own(i) == Nth(NumCommitted + Count(StoresInFlight, i - 1))

Vals == {NoVal} \cup [1 .. 1 -> Byte] \cup [1 .. BYTES -> Byte]
RobEntry == [op : MemOps, word : Words, off : Offsets, id : 0 .. MaxOps, sb : SbId, stage : Stages,
             exc : BOOLEAN, val : Vals, sc_fail : BOOLEAN]
SbOps == {"LW", "SW", "SB", "SC_FAIL"}
SbEntry == [valid : BOOLEAN, committed : BOOLEAN, ready : BOOLEAN, word : Words, off : Offsets,
            op : SbOps, data : 0 .. MaxOps, tag : RobTags]
Buffer == [mem : [SbId -> SbEntry], head : SbId, tail : SbId, count : 0 .. SB_DEPTH]
Image == [Words -> [Offsets -> Byte]]

\* Everything has its type; words are aligned.
Typed ==
    /\ rob \in Seq(RobEntry) /\ Len(rob) <= ROB_DEPTH /\ rob_head \in RobTags
    /\ \A i \in Positions : rob[i].op \in ByteOps \/ rob[i].off = 0
    /\ \A i \in Positions : rob[i].sc_fail => rob[i].op = "SC"
    /\ sb \in Buffer
    /\ memory \in Image /\ arch \in Image
    /\ res = {} \/ \E w \in Words : res = {w}
    /\ xlate \in Translation
    /\ dispatched \in 0 .. MaxOps

\* The registers of the LSU front and its queues against the stages of the instructions: at most
\* one is in translation, at most one waits in the store write-back queue, and the store queue
\* holds that one unless it faulted.
Linked ==
    /\ front = {} \/ \E i \in Positions : front = {Tag(i)}
    /\ \A i \in Positions : Tag(i) \in front <=> rob[i].stage = "front"
    /\ store_wb = <<>> \/ \E i \in Positions : store_wb = <<Tag(i)>> /\ rob[i].stage = "store_wb"
    /\ \A i \in Positions : rob[i].stage = "store_wb" =>
         /\ store_wb = <<Tag(i)>> /\ ~is_load(rob[i].op)
         /\ sq = IF rob[i].exc THEN <<>> ELSE <<SqEntry(i)>>
    /\ store_wb = <<>> => sq = <<>>
    /\ \A i \in Positions : rob[i].stage \in InLane => is_load(rob[i].op)

\* A store has written its entry of the buffer: when it fired, or an AMO when it wrote back.
Executed(i) ==
    /\ ~rob[i].exc
    /\ rob[i].stage = "complete" \/ (rob[i].stage = "store_wb" /\ rob[i].op # "AMO")
BufferOp(o) == CASE o.op = "AMO" -> "SW"
                 [] o.op = "SC" -> IF o.sc_fail THEN "SC_FAIL" ELSE "SW"
                 [] OTHER -> o.op
Holds(e, o) == e.ready /\ e.word = o.word /\ e.off = o.off /\ e.data = o.id /\ e.op = BufferOp(o)
Filled == \A i \in StoresInFlight : Executed(i) => Holds(Own(i), rob[i])

LsInv == Typed /\ Linked /\ StoresInOrder /\ Filled /\ MemoryIsArchitectural

\* The choices of a clock cycle: what Clock quantifies over, with its guards.
Chosen(bundle, issue, fire, fault, accept, wb, k) ==
    /\ k \in RetireChoices /\ wb \in WriteBackChoices /\ accept \in AtMostOne(MayAccept)
    /\ fault \in BOOLEAN /\ fire \in AtMostOne(MayFire(wb, fault)) /\ issue \in AtMostOne(MayIssue)
    /\ fire = {} => ~fault
    /\ issue = {} \/ fire = {}
    /\ bundle \in Bundles /\ Room(bundle)

\* An entry of the buffer after the execution writes of a cycle.
Fill(b, s, ex) ==
    IF \E x \in ex : x.sb = s
    THEN LET x == CHOOSE y \in ex : y.sb = s
         IN  [b.mem[s] EXCEPT !.ready = TRUE, !.word = x.word, !.off = x.off,
                              !.op = x.op, !.data = x.data, !.tag = x.tag]
    ELSE b.mem[s]

-----------------------------------------------------------------------------
(* The store buffer by itself: what a clock edge and a flush do to the     *)
(* n-th entry from the head.                                               *)

\* The entries of "done" are the r entries from the c-th on.
Window(b, done, c, r) ==
    \A m \in 0 .. SB_DEPTH - 1 : SbSlot(b.head, m) \in done <=> c <= m /\ m < c + r

\* q is b after an edge that commits that window, takes n new entries and p away at the head.
Stepped(b, q, ex, n, c, r, p) ==
    /\ q.head = SbSlot(b.head, p) /\ q.count = b.count + n - p /\ q.tail = SbSlot(q.head, q.count)
    /\ \A m \in 0 .. SB_DEPTH - 1 :
         q.mem[SbSlot(q.head, m)] =
           IF m + p = SB_DEPTH THEN Free
           ELSE IF b.count <= m + p /\ m + p < b.count + n THEN Allocated
           ELSE IF c <= m + p /\ m + p < c + r
           THEN [Fill(b, SbSlot(b.head, m + p), ex) EXCEPT !.committed = TRUE]
           ELSE Fill(b, SbSlot(b.head, m + p), ex)

LEMMA EdgeEntries ==
    ASSUME NEW b \in Buffer, NEW c \in Nat, NEW r \in Nat, NEW n \in Nat, NEW ex, NEW pop \in BOOLEAN,
           NEW done, NEW p \in 0 .. 1, p = IF pop THEN 1 ELSE 0,
           b.tail = SbSlot(b.head, b.count), c + r <= b.count, b.count + n <= SB_DEPTH, pop => c > 0,
           Window(b, done, c, r)
    PROVE  Stepped(b, Edge(b, ex, n, done, pop), ex, n, c, r, p)
  <1> DEFINE q == Edge(b, ex, n, done, pop)
             new == {alloc_id(b, i) : i \in 1 .. n}
  <1>0. /\ SB_DEPTH \in Nat \ {0} /\ b.head \in SbId /\ b.tail \in SbId /\ b.count \in 0 .. SB_DEPTH
        /\ b.head \in Int /\ b.tail \in Int
    BY SbAssumption DEF Buffer, SbId
  <1>r. \A x, y \in Int : SbSlot(SbSlot(b.head, x), y) = SbSlot(b.head, x + y)
    BY <1>0, SbRing
  <1>1. q.head = SbSlot(b.head, p)
    BY <1>0, SbRing DEF Edge
  <1>2. q.count = b.count + n - p
    BY <1>0 DEF Edge
  <1>3. q.tail = SbSlot(q.head, q.count)
    <2>1. q.tail = SbSlot(b.tail, n)
      BY DEF Edge
    <2>2. SbSlot(b.tail, n) = SbSlot(b.head, b.count + n)
      <3>1. b.count \in Int /\ n \in Int
        BY <1>0
      <3>2. SbSlot(SbSlot(b.head, b.count), n) = SbSlot(b.head, b.count + n)
        BY <3>1, <1>r
      <3> QED BY <3>2
    <2>3. b.count + n - p \in Int /\ p \in Int /\ p + (b.count + n - p) = b.count + n
      BY <1>0
    <2>4. SbSlot(SbSlot(b.head, p), b.count + n - p) = SbSlot(b.head, p + (b.count + n - p))
      BY <2>3, <1>r
    <2> QED BY <1>1, <1>2, <2>1, <2>2, <2>3, <2>4
  <1>4. ASSUME NEW m \in 0 .. SB_DEPTH - 1
        PROVE  /\ m + p \in Int /\ SbSlot(q.head, m) = SbSlot(b.head, m + p)
               /\ SbSlot(b.head, m + p) \in SbId
    <2>1. m + p \in Int /\ p + m = m + p /\ m \in Int /\ p \in Int
      BY <1>0
    <2>2. SbSlot(SbSlot(b.head, p), m) = SbSlot(b.head, p + m)
      BY <2>1, <1>r
    <2>3. SbSlot(b.head, m + p) \in SbId
      BY <1>0, <2>1, SbRing
    <2> QED BY <1>1, <2>1, <2>2, <2>3
  <1>5. ASSUME NEW j \in 0 .. SB_DEPTH - 1
        PROVE  SbSlot(b.head, j) \in new <=> b.count <= j /\ j < b.count + n
    <2>1. ASSUME NEW i \in 1 .. n
          PROVE  alloc_id(b, i) = SbSlot(b.head, b.count + (i - 1)) /\ b.count + (i - 1) \in 0 .. SB_DEPTH - 1
      <3>1. i - 1 \in Int /\ b.count \in Int /\ b.count + (i - 1) \in 0 .. SB_DEPTH - 1
        BY <1>0
      <3>2. SbSlot(SbSlot(b.head, b.count), i - 1) = SbSlot(b.head, b.count + (i - 1))
        BY <3>1, <1>r
      <3> QED BY <3>1, <3>2 DEF alloc_id
    <2>2. ASSUME SbSlot(b.head, j) \in new PROVE b.count <= j /\ j < b.count + n
      <3>1. PICK i \in 1 .. n : SbSlot(b.head, j) = alloc_id(b, i)
        BY <2>2
      <3>2. PICK z \in 0 .. SB_DEPTH - 1 : z = b.count + (i - 1)
        BY <2>1
      <3>3. SbSlot(b.head, j) = SbSlot(b.head, z)
        BY <2>1, <3>1, <3>2
      <3>4. j \in Int /\ z \in Int /\ j - z < SB_DEPTH /\ z - j < SB_DEPTH
        BY <1>0
      <3>5. j = z
        BY <1>0, <3>3, <3>4, SbRing
      <3> QED BY <1>0, <3>2, <3>5
    <2>3. ASSUME b.count <= j, j < b.count + n PROVE SbSlot(b.head, j) \in new
      <3>1. PICK i \in 1 .. n : b.count + (i - 1) = j
        <4>1. j - b.count + 1 \in 1 .. n /\ b.count + ((j - b.count + 1) - 1) = j
          BY <1>0, <2>3
        <4> QED BY <4>1
      <3>2. SbSlot(b.head, j) = alloc_id(b, i)
        BY <2>1, <3>1
      <3> QED BY <3>2
    <2> QED BY <2>2, <2>3
  <1>6. ASSUME NEW j \in 0 .. SB_DEPTH - 1
        PROVE  q.mem[SbSlot(b.head, j)] =
                  IF pop /\ j = 0 THEN Free
                  ELSE IF b.count <= j /\ j < b.count + n THEN Allocated
                  ELSE IF c <= j /\ j < c + r
                  THEN [Fill(b, SbSlot(b.head, j), ex) EXCEPT !.committed = TRUE]
                  ELSE Fill(b, SbSlot(b.head, j), ex)
    <2>0. j \in Int
      BY <1>0
    <2>1. PICK s \in SbId : s = SbSlot(b.head, j)
      BY <1>0, <2>0, SbRing
    <2>2. PICK f : f = Fill(b, s, ex)
      OBVIOUS
    <2>3. q.mem[s] = EntryAfter(b, s, ex, new, done, pop)
      BY DEF Edge
    <2>4. s \in new <=> b.count <= j /\ j < b.count + n
      BY <1>5, <2>1
    <2>5. s \in done <=> c <= j /\ j < c + r
      BY <2>1 DEF Window
    <2>6. s = b.head <=> j = 0
      <3>1. j = 0 => s = b.head
        BY <1>0, <2>1, SbRing
      <3>2. ASSUME s = b.head PROVE j = 0
        <4>1. SbSlot(b.head, j) = SbSlot(b.head, 0)
          BY <1>0, <2>1, <3>2, SbRing
        <4>2. j \in Int /\ 0 \in Int /\ j - 0 < SB_DEPTH /\ 0 - j < SB_DEPTH
          BY <1>0
        <4> QED BY <1>0, <4>1, <4>2, SbRing
      <3> QED BY <3>1, <3>2
    <2> HIDE DEF new, q
    <2>7. q.mem[s] = CASE pop /\ s = b.head -> Free
                       [] s \in new -> Allocated
                       [] s \in done -> [f EXCEPT !.committed = TRUE]
                       [] OTHER -> f
      BY <2>2, <2>3, Zenon DEF EntryAfter, Fill
    <2>8. q.mem[s] = IF pop /\ j = 0 THEN Free
                     ELSE IF b.count <= j /\ j < b.count + n THEN Allocated
                     ELSE IF c <= j /\ j < c + r THEN [f EXCEPT !.committed = TRUE] ELSE f
      BY <1>0, <2>4, <2>5, <2>6, <2>7
    <2> QED BY <2>1, <2>2, <2>8
  <1>7. ASSUME NEW m \in 0 .. SB_DEPTH - 1
        PROVE  q.mem[SbSlot(q.head, m)] =
                  IF m + p = SB_DEPTH THEN Free
                  ELSE IF b.count <= m + p /\ m + p < b.count + n THEN Allocated
                  ELSE IF c <= m + p /\ m + p < c + r
                  THEN [Fill(b, SbSlot(b.head, m + p), ex) EXCEPT !.committed = TRUE]
                  ELSE Fill(b, SbSlot(b.head, m + p), ex)
    <2>1. SbSlot(q.head, m) = SbSlot(b.head, m + p) /\ m + p \in Int
      BY <1>4
    <2> HIDE DEF q, new
    <2>2. CASE m + p = SB_DEPTH
      <3>1. pop /\ 0 \in 0 .. SB_DEPTH - 1
        BY <1>0, <2>2
      <3>2. SbSlot(b.head, m + p) = SbSlot(b.head, 0)
        BY <1>0, <2>2, SbRing
      <3> QED BY <1>6, <2>1, <2>2, <3>1, <3>2
    <2>3. CASE m + p # SB_DEPTH
      <3>1. PICK j \in 0 .. SB_DEPTH - 1 : j = m + p
        BY <1>0, <2>3
      <3>2. ~(pop /\ j = 0)
        BY <3>1
      <3>3. q.mem[SbSlot(b.head, j)] =
                  IF b.count <= j /\ j < b.count + n THEN Allocated
                  ELSE IF c <= j /\ j < c + r
                  THEN [Fill(b, SbSlot(b.head, j), ex) EXCEPT !.committed = TRUE]
                  ELSE Fill(b, SbSlot(b.head, j), ex)
        BY <1>6, <3>2
      <3> QED BY <2>1, <2>3, <3>1, <3>3
    <2> QED BY <2>2, <2>3
  <1> HIDE DEF q
  <1>8. Stepped(b, q, ex, n, c, r, p)
    BY <1>1, <1>2, <1>3, <1>7 DEF Stepped
  <1> QED BY <1>8 DEF q

\* A flush keeps a prefix of the buffer.
LEMMA FlushEntries ==
    ASSUME NEW b \in Buffer, NEW c \in 0 .. SB_DEPTH, NEW done,
           \A m \in 0 .. SB_DEPTH - 1 : Survives(b, SbSlot(b.head, m), done) <=> m < c
    PROVE  /\ Flushed(b, done).head = b.head /\ Flushed(b, done).count = c
           /\ Flushed(b, done).tail = SbSlot(b.head, c)
           /\ \A m \in 0 .. SB_DEPTH - 1 :
                Flushed(b, done).mem[SbSlot(b.head, m)] =
                  IF m < c THEN [b.mem[SbSlot(b.head, m)] EXCEPT !.committed = TRUE] ELSE Free
  <1> DEFINE q == Flushed(b, done)
             kept == Cardinality(Kept(b, SB_DEPTH - 1, done))
             Source(d) == CHOOSE n \in 0 .. SB_DEPTH - 1 :
                            /\ Survives(b, SbSlot(b.head, n), done)
                            /\ Cardinality(Kept(b, n, done)) = d + 1
             Index(s) == (s - b.head) % SB_DEPTH
  <1>0. SB_DEPTH \in Nat \ {0} /\ b.head \in SbId /\ b.head \in Int
    BY SbAssumption DEF Buffer, SbId
  <1>1. ASSUME NEW n \in 0 .. SB_DEPTH - 1
        PROVE  Cardinality(Kept(b, n, done)) = IF n < c THEN n + 1 ELSE c
    <2>1. \A m \in 0 .. n : m \in 0 .. SB_DEPTH - 1
      BY <1>0
    <2>2. CASE n < c
      <3>1. Kept(b, n, done) = 0 .. n
        <4>1. \A m \in 0 .. n : m < c
          BY <2>2
        <4> QED BY <2>1, <4>1 DEF Kept
      <3> QED BY <2>2, <3>1, FS_Interval
    <2>3. CASE ~(n < c)
      <3>1. Kept(b, n, done) = 0 .. c - 1
        <4>1. \A m : m \in 0 .. c - 1 <=> m \in 0 .. n /\ m < c
          BY <2>3
        <4>2. \A m : m \in Kept(b, n, done) <=> m \in 0 .. n /\ m < c
          BY <2>1 DEF Kept
        <4> QED BY <4>1, <4>2
      <3>2. Cardinality(0 .. c - 1) = IF 0 > c - 1 THEN 0 ELSE (c - 1) - 0 + 1
        BY FS_Interval
      <3> QED BY <2>3, <3>1, <3>2
    <2> QED BY <2>2, <2>3
  <1>2. kept = c
    <2>1. SB_DEPTH - 1 \in 0 .. SB_DEPTH - 1
      BY <1>0
    <2> QED BY <1>0, <1>1, <2>1
  <1>3. ASSUME NEW d \in 0 .. SB_DEPTH - 1, d < c PROVE Source(d) = d
    <2>1. Survives(b, SbSlot(b.head, d), done) /\ Cardinality(Kept(b, d, done)) = d + 1
      BY <1>1, <1>3
    <2>2. ASSUME NEW n \in 0 .. SB_DEPTH - 1, Survives(b, SbSlot(b.head, n), done),
                 Cardinality(Kept(b, n, done)) = d + 1
          PROVE  n = d
      <3>1. n < c
        BY <2>2
      <3>2. n + 1 = d + 1
        BY <1>1, <2>2, <3>1
      <3> QED BY <3>2
    <2> QED BY <2>1, <2>2
  <1>4. /\ q.head = b.head /\ q.count = kept /\ q.tail = SbSlot(b.head, kept)
        /\ q.mem = [s \in SbId |-> IF Index(s) < kept
                                   THEN [b.mem[SbSlot(b.head, Source(Index(s)))] EXCEPT !.committed = TRUE]
                                   ELSE Free]
    BY DEF Flushed
  <1> HIDE DEF q, kept, Source
  <1>5. ASSUME NEW m \in 0 .. SB_DEPTH - 1 PROVE SbSlot(b.head, m) \in SbId /\ Index(SbSlot(b.head, m)) = m
    <2>1. m \in Int /\ SbSlot(b.head, m) \in SbId
      BY <1>0, SbRing
    <2>2. PICK s \in SbId : s = SbSlot(b.head, m)
      BY <2>1
    <2>3. PICK z \in 0 .. SB_DEPTH - 1 : z = Index(s)
      BY <1>0, SbRing
    <2>4. SbSlot(b.head, z) = SbSlot(b.head, m)
      BY <1>0, <2>2, <2>3, SbRing
    <2>5. z \in Int /\ z - m < SB_DEPTH /\ m - z < SB_DEPTH
      BY <1>0
    <2>6. z = m
      BY <1>0, <2>1, <2>4, <2>5, SbRing
    <2> QED BY <2>1, <2>2, <2>3, <2>6
  <1> HIDE DEF Index
  <1>6. ASSUME NEW m \in 0 .. SB_DEPTH - 1
        PROVE  q.mem[SbSlot(b.head, m)] =
                  IF m < c THEN [b.mem[SbSlot(b.head, m)] EXCEPT !.committed = TRUE] ELSE Free
    <2>1. PICK s \in SbId : s = SbSlot(b.head, m)
      BY <1>5
    <2>2. Index(s) = m
      BY <1>5, <2>1
    <2>3. q.mem[s] = IF m < c THEN [b.mem[SbSlot(b.head, Source(m))] EXCEPT !.committed = TRUE] ELSE Free
      BY <1>2, <1>4, <2>2
    <2>4. m < c => Source(m) = m
      BY <1>3
    <2> QED BY <2>1, <2>3, <2>4
  <1> QED BY <1>2, <1>4, <1>6 DEF q

-----------------------------------------------------------------------------
(* What a clock cycle does to the instructions in flight.                  *)

\* Retirement takes complete instructions.
LEMMA ChosenRetire ==
    ASSUME Typed, NEW k \in RetireChoices
    PROVE  k \in Nat /\ k <= Len(rob) /\ \A i \in 1 .. k : rob[i].stage = "complete" /\ ~rob[i].exc
  <1>0. Len(rob) \in Nat /\ Width \in Nat
    BY LsAssumption DEF Typed
  <1>1. k \in 0 .. Min({Width, Len(rob)}) /\ Retirable(k)
    BY DEF RetireChoices
  <1>2. Min({Width, Len(rob)}) \in Nat /\ Min({Width, Len(rob)}) <= Len(rob)
    <2>1. \E x \in {Width, Len(rob)} : \A y \in {Width, Len(rob)} : x =< y
      BY <1>0
    <2> QED BY <1>0, <2>1 DEF Min
  <1> QED BY <1>0, <1>1, <1>2 DEF Retirable

LEMMA PositionsAre == Typed => Len(rob) \in Nat /\ Positions = 1 .. Len(rob) /\ Positions \subseteq 1 .. ROB_DEPTH
  BY LsAssumption DEF Typed, Positions

LEMMA RobTyped ==
    ASSUME Typed, NEW i \in Positions
    PROVE  /\ rob[i] \in RobEntry /\ rob[i].off \in Offsets /\ rob[i].word \in Words /\ rob[i].op \in MemOps
           /\ rob[i].id \in 0 .. MaxOps /\ rob[i].sb \in SbId /\ rob[i].stage \in Stages
           /\ rob[i].op \in ByteOps \/ rob[i].off = 0
           /\ rob[i].exc \in BOOLEAN /\ rob[i].sc_fail \in BOOLEAN
  <1>1. rob[i] \in RobEntry
    BY PositionsAre, ElementOfSeq DEF Typed
  <1>2. rob[i].op \in ByteOps \/ rob[i].off = 0
    BY DEF Typed
  <1> QED BY <1>1, <1>2 DEF RobEntry

\* Stores write back before loads, and the store queue's head is the store that does.
LEMMA ChosenWriteBack ==
    ASSUME Typed, Linked, NEW wb \in WriteBackChoices
    PROVE  /\ \A i \in wb : /\ i \in Positions /\ wb = {i}
                            /\ IF store_wb # <<>> THEN rob[i].stage = "store_wb" /\ store_wb = <<Tag(i)>>
                               ELSE rob[i].stage \in {"S_LD_RSP", "S_RESP"}
           /\ store_wb # <<>> => wb # {}
  <1>1. CASE store_wb # <<>>
    <2>1. PICK i \in Positions : store_wb = <<Tag(i)>> /\ rob[i].stage = "store_wb"
      BY <1>1 DEF Linked
    <2>2. Head(store_wb) = Tag(i)
      BY <2>1
    <2>3. Pos(Tag(i)) = i
      BY PositionsAre, Tags DEF Typed
    <2>4. wb = {i}
      BY <1>1, <2>2, <2>3 DEF WriteBackChoices, StoreWb
    <2> QED BY <1>1, <2>1, <2>4
  <1>2. CASE store_wb = <<>>
    <2>1. wb \in AtMostOne(LaneWb)
      BY <1>2 DEF WriteBackChoices
    <2> QED BY <1>2, <2>1 DEF AtMostOne, LaneWb
  <1> QED BY <1>1, <1>2

\* The instructions chosen in a cycle, and where they are.
LEMMA ChosenAre ==
    ASSUME Typed, Linked, NEW bundle, NEW issue, NEW fire, NEW fault, NEW accept, NEW wb, NEW k,
           Chosen(bundle, issue, fire, fault, accept, wb, k)
    PROVE  /\ k \in Nat /\ k <= Len(rob) /\ \A i \in 1 .. k : rob[i].stage = "complete" /\ ~rob[i].exc
           /\ \A i \in wb : /\ i \in Positions /\ wb = {i}
                            /\ IF store_wb # <<>> THEN rob[i].stage = "store_wb" /\ store_wb = <<Tag(i)>>
                               ELSE rob[i].stage \in {"S_LD_RSP", "S_RESP"}
           /\ store_wb # <<>> => wb # {}
           /\ \A i \in fire : /\ i \in Positions /\ fire = {i} /\ issue = {}
                              /\ \/ rob[i].stage = "front" /\ front = {Tag(i)}
                                 \/ rob[i].stage = "rs" /\ front = {} /\ (xlate => fault)
           /\ \A i \in issue : i \in Positions /\ issue = {i} /\ rob[i].stage = "rs" /\ front = {} /\ fire = {}
           /\ \A i \in accept : i \in Positions /\ accept = {i} /\ rob[i].stage = "S_LD_REQ"
  <1>1. k \in Nat /\ k <= Len(rob) /\ \A i \in 1 .. k : rob[i].stage = "complete" /\ ~rob[i].exc
    BY ChosenRetire DEF Chosen
  <1>2. /\ \A i \in wb : /\ i \in Positions /\ wb = {i}
                         /\ IF store_wb # <<>> THEN rob[i].stage = "store_wb" /\ store_wb = <<Tag(i)>>
                            ELSE rob[i].stage \in {"S_LD_RSP", "S_RESP"}
        /\ store_wb # <<>> => wb # {}
    BY ChosenWriteBack DEF Chosen
  <1>3. ASSUME NEW i \in fire
        PROVE  /\ i \in Positions /\ fire = {i} /\ issue = {}
               /\ \/ rob[i].stage = "front" /\ front = {Tag(i)}
                  \/ rob[i].stage = "rs" /\ front = {} /\ (xlate => fault)
    <2>1. i \in MayFire(wb, fault) /\ fire = {i} /\ issue = {}
      BY DEF Chosen, AtMostOne
    <2>2. i \in Positions /\ (Tag(i) \in front \/ ((xlate => fault) /\ Issuable(i)))
      BY <2>1 DEF MayFire
    <2>3. CASE Tag(i) \in front
      <3>1. rob[i].stage = "front" /\ front = {Tag(i)}
        BY <2>2, <2>3 DEF Linked
      <3> QED BY <2>1, <2>2, <3>1
    <2>4. CASE (xlate => fault) /\ Issuable(i)
      BY <2>1, <2>2, <2>4 DEF Issuable
    <2> QED BY <2>2, <2>3, <2>4
  <1>4. ASSUME NEW i \in issue
        PROVE  i \in Positions /\ issue = {i} /\ rob[i].stage = "rs" /\ front = {} /\ fire = {}
    BY DEF Chosen, AtMostOne, MayIssue, Issuable
  <1>5. ASSUME NEW i \in accept PROVE i \in Positions /\ accept = {i} /\ rob[i].stage = "S_LD_REQ"
    BY DEF Chosen, AtMostOne, MayAccept
  <1> QED BY <1>1, <1>2, <1>3, <1>4, <1>5

\* Bytes and values.
LEMMA TouchesIs ==
    ASSUME NEW op, NEW off \in Offsets, op \in ByteOps \/ off = 0
    PROVE  /\ Size(op) \in {1, BYTES} /\ BYTES \in Nat \ {0}
           /\ \A j \in 1 .. Size(op) : off + j - 1 \in Offsets /\ off + j - 1 \in Touches(op, off)
           /\ \A b \in Touches(op, off) : b \in Offsets /\ b - off \in Offsets /\ (b - off) + 1 \in 1 .. Size(op)
  <1>1. BYTES \in Nat \ {0}
    BY SbAssumption
  <1>2. CASE op \in ByteOps
    BY <1>1, <1>2 DEF Size, Touches, Offsets
  <1>3. CASE op \notin ByteOps
    BY <1>1, <1>3 DEF Size, Touches, Offsets
  <1> QED BY <1>2, <1>3

\* A value of as many bytes as the instruction loads.
LEMMA ValTyped ==
    ASSUME NEW op, NEW f, f \in [1 .. Size(op) -> Byte] PROVE f \in Vals
  BY DEF Size, Vals

\* What a store queue entry holds.
LEMMA SqByte ==
    ASSUME Typed, NEW i \in Positions, NEW b \in DOMAIN SqEntry(i).data
    PROVE  SqEntry(i).data[b] \in Byte
  <1>1. /\ rob[i] \in RobEntry /\ rob[i].off \in Offsets /\ rob[i].id \in 0 .. MaxOps
        /\ rob[i].op \in ByteOps \/ rob[i].off = 0
    BY RobTyped
  <1>2. b \in Touches(rob[i].op, rob[i].off) /\ SqEntry(i).data[b] = <<rob[i].id, b - rob[i].off>>
    BY DEF SqEntry
  <1>3. b - rob[i].off \in Offsets
    BY <1>1, <1>2, TouchesIs
  <1> QED BY <1>1, <1>2, <1>3 DEF Byte


\* The store queue is empty or holds the one store that waits for write-back.
LEMMA SqIs ==
    ASSUME Linked
    PROVE  \/ sq = <<>>
           \/ \E j \in Positions : /\ sq = <<SqEntry(j)>> /\ rob[j].stage = "store_wb"
                                   /\ ~rob[j].exc /\ store_wb = <<Tag(j)>>
  <1>1. CASE store_wb = <<>>
    BY <1>1 DEF Linked
  <1>2. CASE store_wb # <<>>
    <2>1. PICK i \in Positions : store_wb = <<Tag(i)>> /\ rob[i].stage = "store_wb"
      BY <1>2 DEF Linked
    <2>2. sq = IF rob[i].exc THEN <<>> ELSE <<SqEntry(i)>>
      BY <2>1 DEF Linked
    <2> QED BY <2>1, <2>2
  <1> QED BY <1>1, <1>2

\* The store buffer's answer is the matching entry nearest to the tail.
LEMMA LoadEntryIs ==
    ASSUME NEW b \in Buffer, NEW word, NEW off, NEW older, load_hit(b, word, off, older)
    PROVE  \E n \in Matches(b, word, off, older) :
             /\ load_entry(b, word, off, older) = b.mem[Back(b, n)]
             /\ \A m \in Matches(b, word, off, older) : n <= m
             /\ n \in 0 .. SB_DEPTH - 1 /\ Back(b, n) \in SbId
  <1> DEFINE ms == Matches(b, word, off, older)
  <1>0. SB_DEPTH \in Nat \ {0} /\ b.tail \in Int
    BY SbAssumption DEF Buffer, SbId
  <1>1. ms \subseteq 0 .. SB_DEPTH - 1 /\ ms # {}
    BY DEF load_hit, Matches
  <1>2. ms \subseteq Nat
    BY <1>0, <1>1
  <1> HIDE DEF ms
  <1>3. \E n \in ms : \A m \in ms : n <= m
    BY <1>1, <1>2, LeastNat
  <1>4. PICK n : n = CHOOSE x \in ms : \A m \in ms : x <= m
    OBVIOUS
  <1>5. n \in ms /\ \A m \in ms : n <= m
    BY <1>3, <1>4
  <1>6. n \in 0 .. SB_DEPTH - 1 /\ n \in Int
    BY <1>0, <1>1, <1>5
  <1>7. Back(b, n) \in SbId
    BY <1>0, <1>6 DEF Back, SbId
  <1>8. load_entry(b, word, off, older) = b.mem[Back(b, n)]
    BY <1>4 DEF load_entry, ms
  <1> QED BY <1>5, <1>6, <1>7, <1>8 DEF ms

\* Forwarded data is made of bytes.
LEMMA ForwardedTyped ==
    ASSUME Typed, Linked, NEW i \in Positions PROVE Forwarded(i) \in Vals
  <1>1. /\ rob[i].off \in Offsets /\ (rob[i].op \in ByteOps \/ rob[i].off = 0) /\ sb \in Buffer
    BY RobTyped DEF Typed
  <1>2. CASE fwd_query_hit(i)
    <2>1. ASSUME NEW j \in 1 .. Size(rob[i].op) PROVE fwd_query_byte(i, rob[i].off + j - 1) \in Byte
      <3>1. PICK b \in Touches(rob[i].op, rob[i].off) : b = rob[i].off + j - 1
        BY <1>1, TouchesIs
      <3>2. SqFor(i, b) # {}
        BY <1>2 DEF fwd_query_hit
      <3>3. sq # <<>>
        <4>1. sq = <<>> => 1 .. Len(sq) = {}
          OBVIOUS
        <4> QED BY <3>2, <4>1 DEF SqFor
      <3>4. PICK l \in Positions : sq = <<SqEntry(l)>>
        BY <3>3, SqIs
      <3>5. Len(sq) = 1 /\ sq[1] = SqEntry(l) /\ 1 .. Len(sq) = {1}
        BY <3>4
      <3>6. SqFor(i, b) = {1}
        BY <3>2, <3>5 DEF SqFor
      <3>7. Max(SqFor(i, b)) = 1
        BY <3>6 DEF Max
      <3>8. b \in DOMAIN sq[1].data
        BY <3>6 DEF SqFor
      <3> QED BY <3>1, <3>5, <3>7, <3>8, SqByte DEF fwd_query_byte
    <2>2. Forwarded(i) = [j \in 1 .. Size(rob[i].op) |-> fwd_query_byte(i, rob[i].off + j - 1)]
      BY <1>2 DEF Forwarded
    <2> QED BY <2>1, <2>2, ValTyped
  <1>3. CASE ~fwd_query_hit(i) /\ load_hit(sb, rob[i].word, rob[i].off, OlderTags(i))
    <2>1. PICK e : e = load_entry(sb, rob[i].word, rob[i].off, OlderTags(i))
      OBVIOUS
    <2>2. e.data \in 0 .. MaxOps
      <3>1. PICK s \in SbId : e = sb.mem[s]
        BY <1>1, <1>3, <2>1, LoadEntryIs
      <3> QED BY <1>1, <3>1 DEF Buffer, SbEntry
    <2>3. ASSUME NEW j \in 1 .. Size(rob[i].op) PROVE <<e.data, j - 1>> \in Byte
      <3>1. j - 1 \in Offsets
        <4>1. Size(rob[i].op) \in {1, BYTES} /\ BYTES \in Nat \ {0}
          BY <1>1, TouchesIs
        <4> QED BY <4>1 DEF Offsets
      <3> QED BY <2>2, <3>1 DEF Byte
    <2>4. Forwarded(i) = [j \in 1 .. Size(rob[i].op) |-> <<e.data, j - 1>>]
      BY <1>3, <2>1 DEF Forwarded
    <2> QED BY <2>3, <2>4, ValTyped
  <1>4. CASE ~fwd_query_hit(i) /\ ~load_hit(sb, rob[i].word, rob[i].off, OlderTags(i))
    BY <1>4 DEF Forwarded, Vals
  <1> QED BY <1>2, <1>3, <1>4

LEMMA LoadedTyped ==
    ASSUME Typed, NEW i \in Positions PROVE Loaded(i) \in Vals
  <1>1. /\ rob[i].off \in Offsets /\ rob[i].word \in Words /\ (rob[i].op \in ByteOps \/ rob[i].off = 0)
        /\ memory \in Image
    BY RobTyped DEF Typed
  <1>2. ASSUME NEW j \in 1 .. Size(rob[i].op) PROVE memory[rob[i].word][rob[i].off + j - 1] \in Byte
    BY <1>1, TouchesIs DEF Image
  <1> QED BY <1>2, ValTyped DEF Loaded

\* What firing does to an instruction.
LEMMA FiredIs ==
    ASSUME Typed, Linked, NEW i \in Positions, NEW fault \in BOOLEAN, NEW f, f = Fired(i, fault)
    PROVE  /\ f \in RobEntry
           /\ f.op = rob[i].op /\ f.word = rob[i].word /\ f.off = rob[i].off /\ f.id = rob[i].id
           /\ f.sb = rob[i].sb /\ f.exc = fault
           /\ IF is_load(rob[i].op)
              THEN f.sc_fail = rob[i].sc_fail /\ f.stage \in {"S_LD_REQ", "S_RESP"}
              ELSE /\ f.sc_fail = (rob[i].op = "SC" /\ ~sc_success(i)) /\ f.stage = "store_wb"
                   /\ f.val = rob[i].val
  <1>1. rob[i] \in RobEntry
    BY RobTyped
  <1>2. PICK o \in RobEntry : o = [rob[i] EXCEPT !.exc = fault]
    BY <1>1 DEF RobEntry
  <1>3. /\ o.op = rob[i].op /\ o.word = rob[i].word /\ o.off = rob[i].off /\ o.id = rob[i].id
        /\ o.sb = rob[i].sb /\ o.exc = fault /\ o.sc_fail = rob[i].sc_fail /\ o.val = rob[i].val
    BY <1>1, <1>2 DEF RobEntry
  <1>4. f = IF ~is_load(o.op)
            THEN [o EXCEPT !.stage = "store_wb", !.sc_fail = (o.op = "SC" /\ ~sc_success(i))]
            ELSE IF fault THEN [o EXCEPT !.stage = "S_RESP"]
            ELSE IF Forwarded(i) = NoVal THEN [o EXCEPT !.stage = "S_LD_REQ"]
            ELSE [o EXCEPT !.stage = "S_RESP", !.val = Forwarded(i)]
    BY <1>2 DEF Fired
  <1>5. PICK w \in Vals : w = Forwarded(i)
    BY ForwardedTyped
  <1>6. PICK z \in BOOLEAN : z = (o.op = "SC" /\ ~sc_success(i))
    OBVIOUS
  <1>7. CASE ~is_load(o.op)
    <2>1. f = [o EXCEPT !.stage = "store_wb", !.sc_fail = z]
      BY <1>4, <1>6, <1>7
    <2> QED BY <1>3, <1>6, <1>7, <2>1 DEF RobEntry, Stages
  <1>8. CASE is_load(o.op)
    <2>1. \/ f = [o EXCEPT !.stage = "S_RESP"]
          \/ f = [o EXCEPT !.stage = "S_LD_REQ"]
          \/ f = [o EXCEPT !.stage = "S_RESP", !.val = w]
      <3>1. CASE fault
        BY <1>4, <1>8, <3>1
      <3>2. CASE ~fault /\ Forwarded(i) = NoVal
        BY <1>4, <1>8, <3>2
      <3>3. CASE ~fault /\ Forwarded(i) # NoVal
        BY <1>4, <1>5, <1>8, <3>3
      <3> QED BY <3>1, <3>2, <3>3
    <2>2. CASE f = [o EXCEPT !.stage = "S_RESP", !.val = w]
      BY <1>3, <1>8, <2>2 DEF RobEntry, Stages
    <2>3. CASE f # [o EXCEPT !.stage = "S_RESP", !.val = w]
      BY <1>3, <1>8, <2>1, <2>3 DEF RobEntry, Stages
    <2> QED BY <2>2, <2>3
  <1> QED BY <1>7, <1>8

\* The new state of every instruction: it stays itself, and its stage moves as the LSU says.
LEMMA AfterTyped ==
    ASSUME Typed, Linked, NEW bundle, NEW issue, NEW fire, NEW fault, NEW accept, NEW wb, NEW k,
           Chosen(bundle, issue, fire, fault, accept, wb, k), NEW i \in Positions,
           NEW a, a = After(i, issue, fire, fault, accept, wb)
    PROVE  /\ a \in RobEntry
           /\ a.op = rob[i].op /\ a.word = rob[i].word /\ a.off = rob[i].off /\ a.id = rob[i].id
           /\ a.sb = rob[i].sb
           /\ a.sc_fail => a.op = "SC"
           /\ i \notin fire => a.exc = rob[i].exc /\ a.sc_fail = rob[i].sc_fail
           /\ i \in fire => /\ a.exc = fault /\ (is_load(rob[i].op) => a.stage \in {"S_LD_REQ", "S_RESP"})
                            /\ ~is_load(rob[i].op) => /\ a.stage = "store_wb"
                                                      /\ a.sc_fail = (rob[i].op = "SC" /\ ~sc_success(i))
           /\ i \in wb => a.stage = "complete"
           /\ i \in issue => a.stage = "front"
           /\ i \in accept => a.stage = "S_LD_RSP"
           /\ i \notin wb \cup fire \cup issue \cup accept => a = rob[i]
           /\ i \in wb \cup issue => a.val = rob[i].val
           /\ i \in accept => a.val = Loaded(i)
           /\ i \in fire => a = Fired(i, fault)
  <1>1. rob[i] \in RobEntry /\ (rob[i].sc_fail => rob[i].op = "SC")
    BY RobTyped DEF Typed
  <1>2. fault \in BOOLEAN
    BY DEF Chosen
  <1>3. /\ i \in wb => i \notin fire /\ i \notin issue /\ i \notin accept
        /\ i \in fire => i \notin issue /\ i \notin accept
        /\ i \in issue => i \notin accept
    BY ChosenAre
  <1>a. /\ i \in wb => After(i, issue, fire, fault, accept, wb) = [rob[i] EXCEPT !.stage = "complete"]
        /\ i \in fire => After(i, issue, fire, fault, accept, wb) = Fired(i, fault)
        /\ i \in issue => After(i, issue, fire, fault, accept, wb) = [rob[i] EXCEPT !.stage = "front"]
        /\ i \in accept => After(i, issue, fire, fault, accept, wb) =
                             [rob[i] EXCEPT !.stage = "S_LD_RSP", !.val = Loaded(i)]
        /\ i \notin wb \cup fire \cup issue \cup accept =>
             After(i, issue, fire, fault, accept, wb) = rob[i]
    BY <1>3 DEF After
  <1>4. CASE i \in wb
    <2>1. a = [rob[i] EXCEPT !.stage = "complete"]
      BY <1>4, <1>a
    <2> QED BY <1>1, <1>3, <1>4, <2>1 DEF RobEntry, Stages
  <1>5. CASE i \in fire
    <2>1. a = Fired(i, fault)
      BY <1>5, <1>a
    <2>2. /\ a \in RobEntry
          /\ a.op = rob[i].op /\ a.word = rob[i].word /\ a.off = rob[i].off /\ a.id = rob[i].id
          /\ a.sb = rob[i].sb /\ a.exc = fault
          /\ IF is_load(rob[i].op)
             THEN a.sc_fail = rob[i].sc_fail /\ a.stage \in {"S_LD_REQ", "S_RESP"}
             ELSE a.sc_fail = (rob[i].op = "SC" /\ ~sc_success(i)) /\ a.stage = "store_wb"
      BY <1>2, <2>1, FiredIs
    <2> QED BY <1>1, <1>3, <1>5, <2>1, <2>2
  <1>6. CASE i \in issue
    <2>1. a = [rob[i] EXCEPT !.stage = "front"]
      BY <1>6, <1>a
    <2> QED BY <1>1, <1>3, <1>6, <2>1 DEF RobEntry, Stages
  <1>7. CASE i \in accept
    <2>1. a = [rob[i] EXCEPT !.stage = "S_LD_RSP", !.val = Loaded(i)]
      BY <1>7, <1>a
    <2>2. PICK v \in Vals : v = Loaded(i)
      BY LoadedTyped
    <2>3. a = [rob[i] EXCEPT !.stage = "S_LD_RSP", !.val = v]
      BY <2>1, <2>2
    <2> QED BY <1>1, <1>3, <1>7, <2>2, <2>3 DEF RobEntry, Stages
  <1>8. CASE i \notin wb \cup fire \cup issue \cup accept
    BY <1>1, <1>8, <1>a
  <1> QED BY <1>4, <1>5, <1>6, <1>7, <1>8

\* A bundle and the entries it makes.
LEMMA BundleIs ==
    ASSUME Typed, NEW bundle \in Bundles, Room(bundle)
    PROVE  /\ Len(bundle) \in Nat /\ Len(rob) + Len(bundle) <= ROB_DEPTH
           /\ dispatched + Len(bundle) <= MaxOps
           /\ bundle \in Seq(NewOps)
           /\ \A n \in 1 .. Len(bundle) : bundle[n] \in NewOps
  <1>1. PICK n \in 0 .. Width : bundle \in [1 .. n -> NewOps]
    BY DEF Bundles
  <1>2. n \in Nat
    BY LsAssumption
  <1>3. bundle \in Seq(NewOps) /\ Len(bundle) = n
    BY <1>1, <1>2
  <1> QED BY <1>1, <1>2, <1>3 DEF Room

\* The stores of a bundle and their ranks.
BundleStores(bundle) == {n \in 1 .. Len(bundle) : is_store(bundle[n].op)}

LEMMA StoreCounts ==
    ASSUME NEW bundle \in Seq(NewOps)
    PROVE  /\ BundleStores(bundle) \subseteq Nat \ {0}
           /\ StoreCount(bundle) = Count(BundleStores(bundle), Len(bundle))
           /\ \A n \in 1 .. Len(bundle) :
                StoreCount(SubSeq(bundle, 1, n)) = Count(BundleStores(bundle), n)
           /\ StoreCount(bundle) \in Nat
  <1>0. Len(bundle) \in Nat
    OBVIOUS
  <1>1. BundleStores(bundle) \subseteq Nat \ {0}
    BY <1>0 DEF BundleStores
  <1>2. StoreCount(bundle) = Count(BundleStores(bundle), Len(bundle))
    <2>1. UpTo(BundleStores(bundle), Len(bundle)) = {n \in 1 .. Len(bundle) : is_store(bundle[n].op)}
      BY <1>0 DEF UpTo, BundleStores
    <2> QED BY <2>1 DEF StoreCount, Count
  <1>3. ASSUME NEW n \in 1 .. Len(bundle)
        PROVE  StoreCount(SubSeq(bundle, 1, n)) = Count(BundleStores(bundle), n)
    <2>1. PICK s : s = SubSeq(bundle, 1, n)
      OBVIOUS
    <2>2. Len(s) = n /\ \A j \in 1 .. n : s[j] = bundle[j]
      BY <1>0, <2>1
    <2>3. {j \in 1 .. n : is_store(s[j].op)} = UpTo(BundleStores(bundle), n)
      <3>1. \A j : j \in 1 .. n <=> j \in 1 .. Len(bundle) /\ j <= n
        BY <1>0
      <3> QED BY <2>2, <3>1 DEF UpTo, BundleStores
    <2> QED BY <2>1, <2>2, <2>3 DEF StoreCount, Count
  <1>4. StoreCount(bundle) \in Nat
    <2>1. \A n \in Nat : Count(BundleStores(bundle), n) \in Nat
      BY <1>1, CountSteps
    <2> QED BY <1>0, <1>2, <2>1
  <1> QED BY <1>1, <1>2, <1>3, <1>4

\* The entries a bundle brings into the ROB.
LEMMA NewIs ==
    ASSUME Typed, NEW bundle \in Bundles, Room(bundle), NEW n \in 1 .. Len(bundle), NEW a,
           a = NewEntries(bundle)[n]
    PROVE  /\ a \in RobEntry /\ a.op = bundle[n].op /\ (a.op \in ByteOps \/ a.off = 0)
           /\ a.stage = "rs" /\ a.exc = FALSE /\ a.sc_fail = FALSE /\ a.val = NoVal
           /\ is_store(a.op) => a.sb = SbSlot(sb.tail, Count(BundleStores(bundle), n) - 1)
           /\ a.id = dispatched + n
  <1>0. /\ Len(bundle) \in Nat /\ bundle \in Seq(NewOps) /\ bundle[n] \in NewOps
        /\ dispatched + Len(bundle) <= MaxOps
    BY BundleIs
  <1>1. PICK s : s = IF is_store(bundle[n].op) THEN Entry(bundle, n) ELSE 0
    OBVIOUS
  <1>2. a = Dispatched(bundle[n], dispatched + n, s)
    BY <1>1 DEF NewEntries
  <1>3. is_store(bundle[n].op) => s = SbSlot(sb.tail, Count(BundleStores(bundle), n) - 1)
    BY <1>0, <1>1, StoreCounts DEF Entry, alloc_id
  <1>4. s \in SbId
    <2>1. n \in Nat
      BY <1>0
    <2>2. Count(BundleStores(bundle), n) \in Nat
      BY <1>0, <2>1, StoreCounts, CountSteps
    <2>3. sb.tail \in SbId /\ Count(BundleStores(bundle), n) - 1 \in Int
      BY <2>2 DEF Typed, Buffer
    <2>4. SbSlot(sb.tail, Count(BundleStores(bundle), n) - 1) \in SbId
      BY <2>3, SbRing
    <2>5. 0 \in SbId
      BY SbAssumption DEF SbId
    <2> QED BY <1>1, <1>3, <2>4, <2>5
  <1>5. dispatched + n \in 0 .. MaxOps
    BY <1>0, LsAssumption DEF Typed
  <1>6. PICK o \in NewOps : o = bundle[n]
    BY <1>0
  <1>7. o.op \in MemOps /\ o.word \in Words /\ o.off \in Offsets /\ (o.op \in ByteOps \/ o.off = 0)
    BY <1>6 DEF NewOps
  <1>8. NoVal \in Vals /\ "rs" \in Stages
    BY DEF Vals, Stages
  <1>9. PICK d \in 0 .. MaxOps : d = dispatched + n
    BY <1>5
  <1>10. a = [op |-> o.op, word |-> o.word, off |-> o.off, id |-> d, sb |-> s,
              stage |-> "rs", exc |-> FALSE, val |-> NoVal, sc_fail |-> FALSE]
    BY <1>2, <1>6, <1>9 DEF Dispatched
  <1>11. a \in RobEntry
    BY <1>4, <1>7, <1>8, <1>10 DEF RobEntry
  <1> QED BY <1>3, <1>6, <1>7, <1>9, <1>10, <1>11

\* The window after a cycle: what did not retire, then the bundle.
LEMMA RobNext ==
    ASSUME Typed, Linked, NEW bundle, NEW issue, NEW fire, NEW fault, NEW accept, NEW wb, NEW k, NEW ready,
           Chosen(bundle, issue, fire, fault, accept, wb, k),
           Cycle(bundle, issue, fire, fault, accept, wb, k, ready)
    PROVE  /\ k \in Nat /\ k <= Len(rob) /\ Len(rob) \in Nat /\ Len(bundle) \in Nat
           /\ Len(rob') = Len(rob) - k + Len(bundle)
           /\ Positions' = 1 .. Len(rob') /\ rob' \in Seq(RobEntry)
           /\ \A i \in 1 .. Len(rob) - k : /\ i \in Positions' /\ i + k \in Positions
                                           /\ rob'[i] = After(i + k, issue, fire, fault, accept, wb)
           /\ \A n \in 1 .. Len(bundle) : /\ Len(rob) - k + n \in Positions'
                                          /\ rob'[Len(rob) - k + n] = NewEntries(bundle)[n]
           /\ \A i \in Positions' :
                i \in 1 .. Len(rob) - k \/ \E n \in 1 .. Len(bundle) : i = Len(rob) - k + n
  <1>0. k \in Nat /\ k <= Len(rob) /\ Len(rob) \in Nat /\ Positions = 1 .. Len(rob)
    BY ChosenAre, PositionsAre
  <1>1. bundle \in Bundles /\ Room(bundle) /\ Len(bundle) \in Nat
    BY BundleIs DEF Chosen
  <1> DEFINE moved == [i \in Positions |-> After(i, issue, fire, fault, accept, wb)]
             news == NewEntries(bundle)
  <1>2. rob' = SubSeq(moved, k + 1, Len(rob)) \o news
    BY DEF Cycle
  <1>3. \A i \in Positions : moved[i] \in RobEntry
    BY AfterTyped
  <1>4. moved \in Seq(RobEntry) /\ Len(moved) = Len(rob)
    BY <1>0, <1>3
  <1>5. \A n \in 1 .. Len(bundle) : news[n] \in RobEntry
    BY <1>1, NewIs
  <1>6. news \in Seq(RobEntry) /\ Len(news) = Len(bundle)
    <2>1. news = [n \in 1 .. Len(bundle) |-> news[n]]
      BY DEF NewEntries
    <2> HIDE DEF news
    <2> QED BY <1>1, <1>5, <2>1
  <1>7. \A i \in Positions : moved[i] = After(i, issue, fire, fault, accept, wb)
    OBVIOUS
  <1> HIDE DEF moved, news
  <1>8. PICK rest : rest = SubSeq(moved, k + 1, Len(rob))
    OBVIOUS
  <1>9. /\ rest \in Seq(RobEntry) /\ Len(rest) = Len(rob) - k
        /\ \A i \in 1 .. Len(rob) - k : i + k \in Positions /\ rest[i] = moved[i + k]
    <2>1. k + 1 \in 1 .. Len(moved) + 1 /\ Len(rob) \in k .. Len(moved)
      BY <1>0, <1>4
    <2>2. rest \in Seq(RobEntry)
      BY <1>0, <1>4, <1>8, <2>1
    <2>3. Len(rest) = Len(rob) - k
      BY <1>0, <1>4, <1>8, <2>1
    <2>4. ASSUME NEW i \in 1 .. Len(rob) - k PROVE i + k \in Positions /\ rest[i] = moved[i + k]
      <3>1. i + k \in Positions /\ k + 1 + i - 1 = i + k
        BY <1>0
      <3> QED BY <1>0, <1>4, <1>8, <2>1, <3>1
    <2> QED BY <2>2, <2>3, <2>4
  <1>10. /\ rob' \in Seq(RobEntry) /\ Len(rob') = Len(rob) - k + Len(bundle)
         /\ \A i \in 1 .. Len(rob) - k : rob'[i] = rest[i]
         /\ \A n \in 1 .. Len(bundle) : rob'[Len(rob) - k + n] = news[n]
    <2>1. rob' = rest \o news
      BY <1>2, <1>8
    <2>2. PICK l \in Nat : l = Len(rob) - k
      BY <1>0
    <2>3. PICK m \in Nat : m = Len(bundle)
      BY <1>1
    <2>4. rob' \in Seq(RobEntry) /\ Len(rob') = l + m
      BY <1>6, <1>9, <2>1, <2>2, <2>3
    <2>5. \A i \in 1 .. l : rob'[i] = rest[i]
      BY <1>6, <1>9, <2>1, <2>2, <2>3
    <2>6. ASSUME NEW n \in 1 .. m PROVE rob'[l + n] = news[n]
      <3>1. l + n \in 1 .. l + m /\ l + n > l /\ (l + n) - l = n
        OBVIOUS
      <3>2. Len(rest) = l /\ Len(news) = m
        BY <1>6, <1>9, <2>2, <2>3
      <3>3. PICK x \in 1 .. l + m : x = l + n
        BY <3>1
      <3>4. (rest \o news)[x] = news[x - l]
        BY <1>6, <1>9, <3>1, <3>2, <3>3
      <3> QED BY <2>1, <3>1, <3>3, <3>4
    <2> QED BY <2>2, <2>3, <2>4, <2>5, <2>6
  <1>11. Positions' = 1 .. Len(rob')
    BY DEF Positions
  <1>12. \A i \in 1 .. Len(rob) - k : i \in Positions'
    BY <1>0, <1>1, <1>10, <1>11
  <1>13. \A n \in 1 .. Len(bundle) : Len(rob) - k + n \in Positions'
    BY <1>0, <1>1, <1>10, <1>11
  <1>14. ASSUME NEW i \in Positions'
         PROVE  i \in 1 .. Len(rob) - k \/ \E n \in 1 .. Len(bundle) : i = Len(rob) - k + n
    <2>1. i \in 1 .. Len(rob) - k + Len(bundle)
      BY <1>10, <1>11
    <2>2. CASE ~(i \in 1 .. Len(rob) - k)
      <3>1. i - (Len(rob) - k) \in 1 .. Len(bundle) /\ i = Len(rob) - k + (i - (Len(rob) - k))
        BY <1>0, <1>1, <2>1, <2>2
      <3> QED BY <3>1
    <2> QED BY <2>2
  <1>15. \A i \in 1 .. Len(rob) - k : /\ i \in Positions' /\ i + k \in Positions
                                      /\ rob'[i] = After(i + k, issue, fire, fault, accept, wb)
    BY <1>7, <1>9, <1>10, <1>12
  <1> QED BY <1>0, <1>1, <1>10, <1>11, <1>13, <1>14, <1>15 DEF news

-----------------------------------------------------------------------------
(* The store buffer in terms of the number c of its committed entries.     *)

InOrder(c) ==
    /\ c \in 0 .. SB_DEPTH
    /\ sb.count = c + Count(StoresInFlight, Len(rob))
    /\ sb.tail = SbSlot(sb.head, sb.count)
    /\ \A n \in 0 .. SB_DEPTH - 1 : /\ Nth(n).committed <=> n < c
                                    /\ Nth(n).valid <=> n < sb.count
                                    /\ n < c => Nth(n).ready
    /\ \A i \in StoresInFlight : rob[i].sb = SbSlot(sb.head, c + Count(StoresInFlight, i - 1))

\* The stores in flight are positions; their number is the rank of the last position.
LEMMA FlightIs ==
    ASSUME Typed
    PROVE  /\ StoresInFlight \subseteq Nat \ {0} /\ StoresInFlight \subseteq Positions
           /\ Cardinality(StoresInFlight) = Count(StoresInFlight, Len(rob))
           /\ \A i \in StoresInFlight :
                /\ i \in Nat \ {0} /\ i - 1 \in Nat /\ i <= Len(rob)
                /\ Cardinality({j \in StoresInFlight : j < i}) = Count(StoresInFlight, i - 1)
  <1>1. Len(rob) \in Nat /\ Positions = 1 .. Len(rob)
    BY PositionsAre
  <1>2. StoresInFlight \subseteq Positions /\ StoresInFlight \subseteq Nat \ {0}
    BY <1>1 DEF StoresInFlight
  <1>3. \A i \in StoresInFlight : i \in Nat \ {0} /\ i - 1 \in Nat /\ i <= Len(rob)
    BY <1>1, <1>2
  <1>4. UpTo(StoresInFlight, Len(rob)) = StoresInFlight
    BY <1>3 DEF UpTo
  <1>5. ASSUME NEW i \in StoresInFlight PROVE {j \in StoresInFlight : j < i} = UpTo(StoresInFlight, i - 1)
    <2>1. \A j \in StoresInFlight : j < i <=> j <= i - 1
      BY <1>3
    <2> QED BY <2>1 DEF UpTo
  <1> QED BY <1>2, <1>3, <1>4, <1>5 DEF Count

LEMMA NthTyped ==
    ASSUME Typed, NEW n \in Int
    PROVE  /\ Nth(n) \in SbEntry /\ SbSlot(sb.head, n) \in SbId /\ sb.head \in SbId
           /\ Nth(n).committed \in BOOLEAN /\ Nth(n).valid \in BOOLEAN /\ Nth(n).ready \in BOOLEAN
  <1>1. sb.head \in SbId /\ sb.mem \in [SbId -> SbEntry]
    BY DEF Typed, Buffer
  <1>2. SbSlot(sb.head, n) \in SbId
    BY <1>1, SbRing
  <1>3. Nth(n) \in SbEntry
    BY <1>1, <1>2 DEF Nth
  <1> QED BY <1>1, <1>2, <1>3 DEF SbEntry

\* A prefix of the buffer is committed: how long it is.
LEMMA PrefixCommitted ==
    ASSUME NEW c \in 0 .. SB_DEPTH, \A n \in 0 .. SB_DEPTH - 1 : Nth(n).committed <=> n < c
    PROVE  Committed = 0 .. c - 1 /\ Cardinality(Committed) = c
  <1>0. SB_DEPTH \in Nat
    BY SbAssumption
  <1>1. Committed = 0 .. c - 1
    <2>1. \A n : n \in 0 .. c - 1 <=> n \in 0 .. SB_DEPTH - 1 /\ n < c
      BY <1>0
    <2> QED BY <2>1 DEF Committed, Nth
  <1>2. Cardinality(0 .. c - 1) = IF 0 > c - 1 THEN 0 ELSE (c - 1) - 0 + 1
    BY <1>0, FS_Interval
  <1> QED BY <1>0, <1>1, <1>2

LEMMA InOrderIs ==
    ASSUME Typed
    PROVE  /\ StoresInOrder => InOrder(NumCommitted)
           /\ \A c : InOrder(c) => StoresInOrder /\ c = NumCommitted
  <1>0. SB_DEPTH \in Nat
    BY SbAssumption
  <1>1. ASSUME StoresInOrder PROVE InOrder(NumCommitted)
    <2>1. Committed \subseteq 0 .. SB_DEPTH - 1
      BY DEF Committed
    <2>2. IsFiniteSet(0 .. SB_DEPTH - 1) /\ Cardinality(0 .. SB_DEPTH - 1) <= SB_DEPTH
      <3>1. PICK z \in Int : z = SB_DEPTH - 1
        BY <1>0
      <3>2. IsFiniteSet(0 .. z) /\ Cardinality(0 .. z) = IF 0 > z THEN 0 ELSE z - 0 + 1
        BY FS_Interval
      <3> QED BY <1>0, <3>1, <3>2
    <2>3. IsFiniteSet(Committed) /\ Cardinality(Committed) <= Cardinality(0 .. SB_DEPTH - 1)
      BY <2>1, <2>2, FS_Subset
    <2>4. NumCommitted \in Nat
      BY <2>3, FS_CardinalityType DEF NumCommitted
    <2>5. Cardinality(0 .. SB_DEPTH - 1) \in Nat
      BY <2>2, FS_CardinalityType
    <2>6. NumCommitted \in 0 .. SB_DEPTH
      BY <1>0, <2>2, <2>3, <2>4, <2>5 DEF NumCommitted
    <2>7. PICK c \in 0 .. SB_DEPTH : c = NumCommitted
      BY <2>6
    <2>8. Committed = 0 .. c - 1
      BY <1>1, <2>7 DEF StoresInOrder, NumCommitted
    <2>9. ASSUME NEW n \in 0 .. SB_DEPTH - 1
          PROVE  /\ Nth(n).committed <=> n < c
                 /\ Nth(n).valid <=> n < sb.count
                 /\ n < c => Nth(n).ready
      <3>1. n \in Committed <=> n < c
        BY <1>0, <2>8
      <3>2. n \in Committed <=> Nth(n).committed
        BY DEF Committed, Nth
      <3>3. n \in Committed => Nth(n).ready
        BY <1>1 DEF StoresInOrder, Nth
      <3>4. Nth(n).valid <=> n < sb.count
        BY <1>1 DEF StoresInOrder, Nth
      <3> QED BY <3>1, <3>2, <3>3, <3>4
    <2>10. sb.count = c + Cardinality(StoresInFlight) /\ sb.tail = SbSlot(sb.head, sb.count)
      BY <1>1, <2>7 DEF StoresInOrder, NumCommitted
    <2>11. \A i \in StoresInFlight :
             rob[i].sb = SbSlot(sb.head, c + Cardinality({j \in StoresInFlight : j < i}))
      BY <1>1, <2>7 DEF StoresInOrder, NumCommitted
    <2>12. InOrder(c)
      BY <2>9, <2>10, <2>11, FlightIs DEF InOrder
    <2> QED BY <2>7, <2>12
  <1>2. ASSUME NEW c, InOrder(c) PROVE StoresInOrder /\ c = NumCommitted
    <2>1. c \in 0 .. SB_DEPTH /\ \A n \in 0 .. SB_DEPTH - 1 : Nth(n).committed <=> n < c
      BY <1>2 DEF InOrder
    <2>2. Committed = 0 .. c - 1 /\ Cardinality(Committed) = c
      BY <2>1, PrefixCommitted
    <2>3. \A n \in Committed : sb.mem[SbSlot(sb.head, n)].ready
      <3>1. \A n \in 0 .. c - 1 : n \in 0 .. SB_DEPTH - 1 /\ n < c
        BY <1>0, <2>1
      <3> QED BY <1>2, <2>2, <3>1 DEF InOrder, Nth
    <2>4. sb.count = c + Cardinality(StoresInFlight) /\ sb.tail = SbSlot(sb.head, sb.count)
      BY <1>2, FlightIs DEF InOrder
    <2>5. \A n \in 0 .. SB_DEPTH - 1 : sb.mem[SbSlot(sb.head, n)].valid <=> n < sb.count
      BY <1>2 DEF InOrder, Nth
    <2>6. \A i \in StoresInFlight :
             rob[i].sb = SbSlot(sb.head, c + Cardinality({j \in StoresInFlight : j < i}))
      BY <1>2, FlightIs DEF InOrder
    <2> QED BY <2>2, <2>3, <2>4, <2>5, <2>6 DEF StoresInOrder, NumCommitted
  <1> QED BY <1>1, <1>2

\* Each store in flight has an entry of its own, behind the committed ones.
LEMMA OwnEntries ==
    ASSUME Typed, NEW c, InOrder(c)
    PROVE  /\ \A i \in StoresInFlight :
                /\ Count(StoresInFlight, i - 1) \in Nat /\ c + Count(StoresInFlight, i - 1) \in 0 .. SB_DEPTH - 1
                /\ c + Count(StoresInFlight, i - 1) < sb.count
           /\ \A i, j \in StoresInFlight : rob[i].sb = rob[j].sb => i = j
           /\ \A i \in StoresInFlight, m \in 0 .. SB_DEPTH - 1 :
                rob[i].sb = SbSlot(sb.head, m) <=> m = c + Count(StoresInFlight, i - 1)
           /\ \A k \in 0 .. Len(rob) : Count(StoresInFlight, k) \in Nat /\ c + Count(StoresInFlight, k) <= sb.count
  <1>0. SB_DEPTH \in Nat /\ c \in 0 .. SB_DEPTH /\ sb.count \in 0 .. SB_DEPTH /\ sb.head \in SbId /\ Len(rob) \in Nat
    BY SbAssumption, PositionsAre DEF InOrder, Typed, Buffer
  <1>1. StoresInFlight \subseteq Nat \ {0}
    BY FlightIs
  <1>2. sb.count = c + Count(StoresInFlight, Len(rob)) /\ Count(StoresInFlight, Len(rob)) \in Nat
    BY <1>0, <1>1, CountSteps DEF InOrder
  <1>3. ASSUME NEW k \in 0 .. Len(rob)
        PROVE  Count(StoresInFlight, k) \in Nat /\ c + Count(StoresInFlight, k) <= sb.count
    <2>1. k \in Nat /\ k <= Len(rob)
      BY <1>0
    <2>2. Count(StoresInFlight, k) \in Nat
      BY <1>1, <2>1, CountSteps
    <2>3. Count(StoresInFlight, k) <= Count(StoresInFlight, Len(rob))
      BY <1>0, <1>1, <2>1, CountGrows
    <2> QED BY <1>0, <1>2, <2>2, <2>3
  <1>4. ASSUME NEW i \in StoresInFlight
        PROVE  /\ Count(StoresInFlight, i - 1) \in Nat /\ c + Count(StoresInFlight, i - 1) \in 0 .. SB_DEPTH - 1
               /\ c + Count(StoresInFlight, i - 1) < sb.count
    <2>1. i \in 0 .. Len(rob) /\ i - 1 \in Nat /\ (i - 1) + 1 = i
      <3>1. i \in Nat \ {0} /\ i - 1 \in Nat /\ i <= Len(rob)
        BY FlightIs
      <3> QED BY <1>0, <3>1
    <2>2. Count(StoresInFlight, (i - 1) + 1) =
             IF (i - 1) + 1 \in StoresInFlight THEN Count(StoresInFlight, i - 1) + 1 ELSE Count(StoresInFlight, i - 1)
      BY <1>1, <2>1, CountSteps
    <2>3. Count(StoresInFlight, i) = Count(StoresInFlight, i - 1) + 1
      BY <2>1, <2>2
    <2>4. Count(StoresInFlight, i - 1) \in Nat
      BY <1>1, <2>1, CountSteps
    <2>5. c + Count(StoresInFlight, i) <= sb.count
      BY <1>3, <2>1
    <2> QED BY <1>0, <2>3, <2>4, <2>5
  <1>5. ASSUME NEW i \in StoresInFlight, NEW m \in 0 .. SB_DEPTH - 1, rob[i].sb = SbSlot(sb.head, m)
        PROVE  m = c + Count(StoresInFlight, i - 1)
    <2>1. PICK z \in 0 .. SB_DEPTH - 1 : z = c + Count(StoresInFlight, i - 1)
      BY <1>4
    <2>2. SbSlot(sb.head, m) = SbSlot(sb.head, z)
      BY <1>5, <2>1 DEF InOrder
    <2>3. m \in Int /\ z \in Int /\ m - z < SB_DEPTH /\ z - m < SB_DEPTH
      BY <1>0
    <2>4. m = z
      BY <1>0, <2>2, <2>3, SbRing
    <2> QED BY <2>1, <2>4
  <1>6. ASSUME NEW i \in StoresInFlight, NEW m \in 0 .. SB_DEPTH - 1, m = c + Count(StoresInFlight, i - 1)
        PROVE  rob[i].sb = SbSlot(sb.head, m)
    BY <1>6 DEF InOrder
  <1>7. ASSUME NEW i \in StoresInFlight, NEW j \in StoresInFlight, rob[i].sb = rob[j].sb PROVE i = j
    <2>1. PICK m \in 0 .. SB_DEPTH - 1 : m = c + Count(StoresInFlight, i - 1)
      BY <1>4
    <2>2. rob[j].sb = SbSlot(sb.head, m)
      BY <1>6, <1>7, <2>1
    <2>3. m = c + Count(StoresInFlight, j - 1)
      BY <1>5, <2>2
    <2>4. Count(StoresInFlight, i - 1) = Count(StoresInFlight, j - 1)
      BY <1>0, <1>4, <2>1, <2>3
    <2> QED BY <1>1, <2>4, CountApart
  <1> QED BY <1>3, <1>4, <1>5, <1>6, <1>7

\* The entries of the first k instructions are the next ones behind the committed entries.
LEMMA RetiredIs ==
    ASSUME Typed, NEW c, InOrder(c), NEW k \in 0 .. Len(rob), NEW m \in 0 .. SB_DEPTH - 1
    PROVE  SbSlot(sb.head, m) \in Retired(k) <=> c <= m /\ m < c + Count(StoresInFlight, k)
  <1> DEFINE F == StoresInFlight
  <1>0. SB_DEPTH \in Nat /\ c \in 0 .. SB_DEPTH /\ Len(rob) \in Nat /\ Positions = 1 .. Len(rob)
    BY SbAssumption, PositionsAre DEF InOrder
  <1>1. StoresOf(k) = {i \in F : i <= k}
    <2>1. \A i : i \in 1 .. k <=> i \in Positions /\ i <= k
      BY <1>0
    <2> QED BY <2>1 DEF StoresOf, StoresInFlight
  <1>2. F \subseteq Nat \ {0} /\ \A i \in F : i \in Nat \ {0} /\ i - 1 \in Nat /\ i <= Len(rob)
    BY FlightIs
  <1>3. k \in Nat /\ Count(F, k) \in Nat
    <2>1. \A n \in Nat : Count(F, n) \in Nat
      BY <1>2, CountSteps
    <2> QED BY <1>0, <2>1
  <1>4. ASSUME SbSlot(sb.head, m) \in Retired(k) PROVE c <= m /\ m < c + Count(F, k)
    <2>1. PICK i \in F : i <= k /\ rob[i].sb = SbSlot(sb.head, m)
      BY <1>1, <1>4 DEF Retired
    <2>2. m = c + Count(F, i - 1) /\ Count(F, i - 1) \in Nat
      BY <2>1, OwnEntries
    <2>3. i \in Nat /\ i - 1 \in Nat /\ (i - 1) + 1 = i
      BY <1>2
    <2>4. Count(F, (i - 1) + 1) = IF (i - 1) + 1 \in F THEN Count(F, i - 1) + 1 ELSE Count(F, i - 1)
      BY <1>2, <2>3, CountSteps
    <2>5. Count(F, i) = Count(F, i - 1) + 1
      BY <2>3, <2>4
    <2>6. Count(F, i) <= Count(F, k)
      BY <1>2, <1>3, <2>1, <2>3, CountGrows
    <2> QED BY <1>0, <1>3, <2>2, <2>5, <2>6
  <1>5. ASSUME c <= m, m < c + Count(F, k) PROVE SbSlot(sb.head, m) \in Retired(k)
    <2>1. PICK q \in Nat : q = m - c
      BY <1>0, <1>5
    <2>2. q < Count(F, k) /\ m = c + q
      BY <1>0, <1>3, <1>5, <2>1
    <2>3. PICK i \in F : i <= k /\ Count(F, i - 1) = q
      BY <1>2, <1>3, <2>2, CountOnto
    <2>4. rob[i].sb = SbSlot(sb.head, m)
      BY <2>2, <2>3, OwnEntries
    <2> QED BY <1>1, <2>3, <2>4 DEF Retired
  <1> QED BY <1>4, <1>5

\* The stores that write the buffer in a cycle.
Writers(fire, fault, wb) == StoresFired(fire, fault) \cup AmosDone(wb)

LEMMA WritersAre ==
    ASSUME Typed, Linked, NEW bundle, NEW issue, NEW fire, NEW fault, NEW accept, NEW wb, NEW k,
           Chosen(bundle, issue, fire, fault, accept, wb, k)
    PROVE  /\ Writers(fire, fault, wb) \subseteq StoresInFlight
           /\ \A i \in Writers(fire, fault, wb) : StoreOp(i) \in SbOps
           /\ \A i \in Writers(fire, fault, wb) : rob[i].stage # "complete"
  <1>1. /\ \A i \in fire : i \in Positions /\ rob[i].stage \in {"front", "rs"}
        /\ \A i \in wb : i \in Positions /\ rob[i].stage \in {"store_wb", "S_LD_RSP", "S_RESP"}
    BY ChosenAre
  <1>2. ASSUME NEW i \in Writers(fire, fault, wb)
        PROVE  i \in StoresInFlight /\ StoreOp(i) \in SbOps /\ rob[i].stage # "complete"
    <2>1. i \in Positions /\ rob[i].stage # "complete" /\ (~is_load(rob[i].op) \/ rob[i].op = "AMO")
      BY <1>1 DEF Writers, StoresFired, AmosDone
    <2>2. rob[i].op \in {"LW", "LB", "SW", "SB", "LR", "SC", "AMO"}
      BY <2>1, RobTyped, LsAssumption
    <2>3. rob[i].op \in {"SW", "SB", "SC", "AMO"}
      BY <2>1, <2>2 DEF is_load
    <2>4. i \in StoresInFlight
      BY <2>1, <2>3 DEF StoresInFlight, is_store
    <2>5. StoreOp(i) \in SbOps
      BY <2>3 DEF StoreOp, SbOps
    <2> QED BY <2>1, <2>4, <2>5
  <1> QED BY <1>2

\* What the execution writes do to the entries of the buffer.
LEMMA FillIs ==
    ASSUME Typed, NEW c, InOrder(c), NEW W \in SUBSET StoresInFlight, \A i \in W : StoreOp(i) \in SbOps,
           NEW ex, ex = {ExWrite(i) : i \in W}
    PROVE  /\ \A i \in StoresInFlight : i \notin W => Fill(sb, rob[i].sb, ex) = sb.mem[rob[i].sb]
           /\ \A i \in W : /\ Fill(sb, rob[i].sb, ex).ready /\ Fill(sb, rob[i].sb, ex).word = rob[i].word
                           /\ Fill(sb, rob[i].sb, ex).off = rob[i].off
                           /\ Fill(sb, rob[i].sb, ex).op = StoreOp(i)
                           /\ Fill(sb, rob[i].sb, ex).data = rob[i].id
                           /\ Fill(sb, rob[i].sb, ex).tag = Tag(i)
           /\ \A m \in 0 .. SB_DEPTH - 1 :
                m < c \/ sb.count <= m => Fill(sb, SbSlot(sb.head, m), ex) = Nth(m)
           /\ \A s \in SbId : /\ Fill(sb, s, ex) \in SbEntry
                              /\ Fill(sb, s, ex).committed = sb.mem[s].committed
                              /\ Fill(sb, s, ex).valid = sb.mem[s].valid
                              /\ sb.mem[s].ready => Fill(sb, s, ex).ready
  <1>0. sb.mem \in [SbId -> SbEntry] /\ sb.head \in SbId /\ SB_DEPTH \in Nat /\ sb.count \in Nat /\ c \in Nat
    BY SbAssumption DEF Typed, Buffer, InOrder
  <1>1. \A i \in StoresInFlight : rob[i].sb \in SbId
    BY FlightIs, RobTyped
  <1>2. \A i \in W : ExWrite(i).sb = rob[i].sb
    BY DEF ExWrite
  <1>3. ASSUME NEW s \in SbId, \A i \in W : rob[i].sb # s PROVE Fill(sb, s, ex) = sb.mem[s]
    <2>1. ~\E x \in ex : x.sb = s
      BY <1>2, <1>3
    <2> QED BY <2>1 DEF Fill
  <1>4. ASSUME NEW i \in W
        PROVE  Fill(sb, rob[i].sb, ex) =
                  [sb.mem[rob[i].sb] EXCEPT !.ready = TRUE, !.word = rob[i].word, !.off = rob[i].off,
                                            !.op = StoreOp(i), !.data = rob[i].id, !.tag = Tag(i)]
    <2>1. ExWrite(i) \in ex /\ ExWrite(i).sb = rob[i].sb
      BY <1>2
    <2>2. ASSUME NEW y \in ex, y.sb = rob[i].sb PROVE y = ExWrite(i)
      <3>1. PICK j \in W : y = ExWrite(j)
        OBVIOUS
      <3>2. rob[j].sb = rob[i].sb
        BY <1>2, <2>2, <3>1
      <3>3. i = j
        BY <3>2, OwnEntries
      <3> QED BY <3>1, <3>3
    <2>3. (CHOOSE y \in ex : y.sb = rob[i].sb) = ExWrite(i)
      BY <2>1, <2>2
    <2>4. Fill(sb, rob[i].sb, ex) =
            [sb.mem[rob[i].sb] EXCEPT !.ready = TRUE, !.word = ExWrite(i).word, !.off = ExWrite(i).off,
                     !.op = ExWrite(i).op, !.data = ExWrite(i).data, !.tag = ExWrite(i).tag]
      BY <2>1, <2>3 DEF Fill
    <2>5. /\ ExWrite(i).word = rob[i].word /\ ExWrite(i).off = rob[i].off /\ ExWrite(i).op = StoreOp(i)
          /\ ExWrite(i).data = rob[i].id /\ ExWrite(i).tag = Tag(i)
      BY DEF ExWrite
    <2> QED BY <2>4, <2>5
  <1>5. ASSUME NEW i \in W
        PROVE  LET f == Fill(sb, rob[i].sb, ex)
                   e == sb.mem[rob[i].sb]
               IN  /\ f \in SbEntry /\ f.committed = e.committed /\ f.valid = e.valid
                   /\ f.ready /\ f.word = rob[i].word /\ f.off = rob[i].off /\ f.op = StoreOp(i)
                   /\ f.data = rob[i].id /\ f.tag = Tag(i)
    <2>1. PICK e \in SbEntry : e = sb.mem[rob[i].sb]
      BY <1>0, <1>1
    <2>2. rob[i].word \in Words /\ rob[i].off \in Offsets /\ rob[i].id \in 0 .. MaxOps
      BY FlightIs, RobTyped
    <2>3. PICK w \in Words : w = rob[i].word
      BY <2>2
    <2>4. PICK o \in Offsets : o = rob[i].off
      BY <2>2
    <2>5. PICK d \in 0 .. MaxOps : d = rob[i].id
      BY <2>2
    <2>6. PICK t \in RobTags : t = Tag(i)
      <3>1. i \in Int /\ rob_head \in RobTags
        BY FlightIs DEF Typed
      <3> QED BY <3>1, Tags
    <2>7. PICK p \in SbOps : p = StoreOp(i)
      OBVIOUS
    <2>8. PICK f : f = [e EXCEPT !.ready = TRUE, !.word = w, !.off = o, !.op = p, !.data = d, !.tag = t]
      OBVIOUS
    <2>9. Fill(sb, rob[i].sb, ex) = f
      BY <1>4, <2>1, <2>3, <2>4, <2>5, <2>6, <2>7, <2>8
    <2>10. /\ f \in SbEntry /\ f.committed = e.committed /\ f.valid = e.valid
           /\ f.ready /\ f.word = w /\ f.off = o /\ f.op = p /\ f.data = d /\ f.tag = t
      BY <2>8 DEF SbEntry
    <2> QED BY <2>1, <2>3, <2>4, <2>5, <2>6, <2>7, <2>9, <2>10
  <1>6. \A i \in StoresInFlight : i \notin W => Fill(sb, rob[i].sb, ex) = sb.mem[rob[i].sb]
    <2> SUFFICES ASSUME NEW i \in StoresInFlight, i \notin W PROVE Fill(sb, rob[i].sb, ex) = sb.mem[rob[i].sb]
      OBVIOUS
    <2>1. \A j \in W : rob[j].sb # rob[i].sb
      BY OwnEntries
    <2> QED BY <1>1, <1>3, <2>1
  <1>7. ASSUME NEW m \in 0 .. SB_DEPTH - 1, m < c \/ sb.count <= m
        PROVE  Fill(sb, SbSlot(sb.head, m), ex) = Nth(m)
    <2>1. \A i \in W : rob[i].sb # SbSlot(sb.head, m)
      <3> SUFFICES ASSUME NEW i \in W, rob[i].sb = SbSlot(sb.head, m) PROVE FALSE
        OBVIOUS
      <3>1. m = c + Count(StoresInFlight, i - 1)
        BY OwnEntries
      <3>2. Count(StoresInFlight, i - 1) \in Nat /\ c + Count(StoresInFlight, i - 1) < sb.count
        BY OwnEntries
      <3> QED BY <1>0, <1>7, <3>1, <3>2
    <2>2. m \in Int
      BY <1>0
    <2>3. SbSlot(sb.head, m) \in SbId
      BY <1>0, <2>2, SbRing
    <2> QED BY <1>3, <2>1, <2>3 DEF Nth
  <1>8. ASSUME NEW s \in SbId
        PROVE  /\ Fill(sb, s, ex) \in SbEntry
               /\ Fill(sb, s, ex).committed = sb.mem[s].committed
               /\ Fill(sb, s, ex).valid = sb.mem[s].valid
               /\ sb.mem[s].ready => Fill(sb, s, ex).ready
    <2>1. CASE \E i \in W : rob[i].sb = s
      BY <1>5, <2>1
    <2>2. CASE ~\E i \in W : rob[i].sb = s
      BY <1>0, <1>3, <2>2
    <2> QED BY <2>1, <2>2
  <1> QED BY <1>5, <1>6, <1>7, <1>8

\* Only a committed entry leaves the buffer.
LEMMA PopIsCommitted ==
    ASSUME Typed, NEW c, InOrder(c), NEW ready, wb_fire(sb, ready) PROVE c > 0
  <1>0. SB_DEPTH \in Nat \ {0} /\ sb.head \in SbId
    BY SbAssumption DEF Typed, Buffer
  <1>1. AtHead(sb) = Nth(0)
    BY <1>0, SbRing DEF AtHead, Nth
  <1>2. 0 \in 0 .. SB_DEPTH - 1
    BY <1>0
  <1>3. Nth(0).committed
    BY <1>1 DEF wb_fire, Drainable
  <1> QED BY <1>2, <1>3 DEF InOrder

\* A cycle and its choices.
Step(bundle, issue, fire, fault, accept, wb, k, ready) ==
    /\ Chosen(bundle, issue, fire, fault, accept, wb, k)
    /\ Cycle(bundle, issue, fire, fault, accept, wb, k, ready)

\* The parts of a cycle of the buffer: c entries committed, r that commit, n new ones, p taken away.
Parts(c, r, n, p, ex, bundle, fire, fault, wb, k, ready) ==
    /\ r = Count(StoresInFlight, k) /\ n = StoreCount(bundle)
    /\ p = IF wb_fire(sb, ready) THEN 1 ELSE 0
    /\ ex = {ExWrite(i) : i \in Writers(fire, fault, wb)}

\* What they make of it.
Buffered(c, r, n, p, ex, k, ready) ==
    /\ r \in Nat /\ n \in Nat /\ p \in 0 .. 1 /\ p <= c
    /\ c + r <= sb.count /\ sb.count + n <= SB_DEPTH
    /\ sb'.head = SbSlot(sb.head, p) /\ sb'.count = sb.count + n - p
    /\ sb'.tail = SbSlot(sb'.head, sb'.count)
    /\ \A m \in 0 .. SB_DEPTH - 1 :
         Nth(m)' = IF m + p = SB_DEPTH THEN Free
                   ELSE IF sb.count <= m + p /\ m + p < sb.count + n THEN Allocated
                   ELSE IF c <= m + p /\ m + p < c + r
                   THEN [Fill(sb, SbSlot(sb.head, m + p), ex) EXCEPT !.committed = TRUE]
                   ELSE Fill(sb, SbSlot(sb.head, m + p), ex)
    /\ sb' = Edge(sb, ex, n, Retired(k), wb_fire(sb, ready))

\* The buffer after a cycle.
LEMMA BufferNext ==
    ASSUME Typed, Linked, NEW bundle, NEW issue, NEW fire, NEW fault, NEW accept, NEW wb, NEW k, NEW ready,
           Step(bundle, issue, fire, fault, accept, wb, k, ready),
           NEW c, InOrder(c), NEW r, NEW n, NEW p, NEW ex,
           Parts(c, r, n, p, ex, bundle, fire, fault, wb, k, ready)
    PROVE  Buffered(c, r, n, p, ex, k, ready)
  <1>s. /\ Chosen(bundle, issue, fire, fault, accept, wb, k)
        /\ Cycle(bundle, issue, fire, fault, accept, wb, k, ready)
    BY DEF Step
  <1>h. /\ r = Count(StoresInFlight, k) /\ n = StoreCount(bundle)
        /\ p = IF wb_fire(sb, ready) THEN 1 ELSE 0
        /\ ex = {ExWrite(i) : i \in Writers(fire, fault, wb)}
    BY DEF Parts
  <1>0. /\ sb \in Buffer /\ c \in Nat /\ sb.count \in Nat /\ SB_DEPTH \in Nat
        /\ sb.tail = SbSlot(sb.head, sb.count)
    BY SbAssumption DEF Typed, InOrder, Buffer
  <1>1. k \in 0 .. Len(rob)
    BY <1>s, RobNext
  <1>2. bundle \in Seq(NewOps) /\ Room(bundle)
    BY <1>s, BundleIs DEF Chosen
  <1>3. n \in Nat /\ sb.count + n <= SB_DEPTH
    BY <1>h, <1>2, StoreCounts DEF Room, alloc_ready
  <1>4. r \in Nat /\ c + r <= sb.count
    BY <1>h, <1>1, OwnEntries
  <1>5. PICK pop \in BOOLEAN : pop = wb_fire(sb, ready)
    BY Zenon DEF wb_fire
  <1>6. p \in 0 .. 1 /\ p = (IF pop THEN 1 ELSE 0) /\ (pop => c > 0) /\ p <= c
    BY <1>h, <1>0, <1>5, PopIsCommitted
  <1>7. sb' = Edge(sb, ex, n, Retired(k), pop)
    BY <1>s, <1>h, <1>5, Zenon DEF Cycle, Writers
  <1>8. \A m \in 0 .. SB_DEPTH - 1 : SbSlot(sb.head, m) \in Retired(k) <=> c <= m /\ m < c + r
    BY <1>h, <1>1, RetiredIs
  <1>9. PICK done : done = Retired(k)
    OBVIOUS
  <1>10. PICK b \in Buffer : b = sb
    BY <1>0
  <1>11. sb' = Edge(b, ex, n, done, pop)
    BY <1>7, <1>9, <1>10
  <1>12. \A m \in 0 .. SB_DEPTH - 1 : Nth(m)' = sb'.mem[SbSlot(sb'.head, m)]
    BY DEF Nth
  <1>13. Stepped(b, sb', ex, n, c, r, p)
    <2>1. b.tail = SbSlot(b.head, b.count) /\ c + r <= b.count /\ b.count + n <= SB_DEPTH
      BY <1>0, <1>3, <1>4, <1>10
    <2>2. Window(b, done, c, r)
      BY <1>8, <1>9, <1>10 DEF Window
    <2>3. c \in Nat /\ r \in Nat /\ n \in Nat /\ p \in 0 .. 1 /\ p = (IF pop THEN 1 ELSE 0) /\ (pop => c > 0)
      BY <1>0, <1>3, <1>4, <1>6
    <2>4. Stepped(b, Edge(b, ex, n, done, pop), ex, n, c, r, p)
      BY <2>1, <2>2, <2>3, EdgeEntries
    <2> QED BY <1>11, <2>4
  <1> QED BY <1>3, <1>4, <1>5, <1>6, <1>7, <1>10, <1>12, <1>13 DEF Stepped, Buffered

-----------------------------------------------------------------------------
(* A clock cycle preserves the invariant.                                  *)

\* The stores in flight after a cycle, and their ranks.
LEMMA FlightNext ==
    ASSUME Typed, Linked, NEW bundle, NEW issue, NEW fire, NEW fault, NEW accept, NEW wb, NEW k, NEW ready,
           Step(bundle, issue, fire, fault, accept, wb, k, ready)
    PROVE  /\ StoresInFlight' \subseteq Nat \ {0} /\ StoresInFlight' \subseteq Positions'
           /\ \A i \in 1 .. Len(rob) - k : i \in StoresInFlight' <=> i + k \in StoresInFlight
           /\ \A n \in 1 .. Len(bundle) : Len(rob) - k + n \in StoresInFlight' <=> n \in BundleStores(bundle)
           /\ \A i \in 0 .. Len(rob) - k :
                Count(StoresInFlight', i) = Count(StoresInFlight, i + k) - Count(StoresInFlight, k)
           /\ \A n \in 0 .. Len(bundle) :
                Count(StoresInFlight', Len(rob) - k + n) =
                  Count(StoresInFlight, Len(rob)) - Count(StoresInFlight, k) + Count(BundleStores(bundle), n)
  <1>0. /\ k \in Nat /\ k <= Len(rob) /\ Len(rob) \in Nat /\ Len(bundle) \in Nat
        /\ Len(rob') = Len(rob) - k + Len(bundle) /\ Positions' = 1 .. Len(rob')
    BY RobNext DEF Step
  <1>1. PICK F : F = StoresInFlight'
    OBVIOUS
  <1>2. F = {i \in Positions' : is_store(rob'[i].op)}
    BY <1>1 DEF StoresInFlight, is_store
  <1>3. F \subseteq Positions' /\ F \subseteq Nat \ {0}
    BY <1>0, <1>2
  <1>4. ASSUME NEW i \in 1 .. Len(rob) - k PROVE i \in F <=> i + k \in StoresInFlight
    <2>1. i \in Positions' /\ i + k \in Positions /\ rob'[i] = After(i + k, issue, fire, fault, accept, wb)
      BY RobNext DEF Step
    <2>2. rob'[i].op = rob[i + k].op
      BY <2>1, AfterTyped DEF Step
    <2> QED BY <1>2, <2>1, <2>2 DEF StoresInFlight
  <1>5. ASSUME NEW n \in 1 .. Len(bundle) PROVE Len(rob) - k + n \in F <=> n \in BundleStores(bundle)
    <2>1. Len(rob) - k + n \in Positions' /\ rob'[Len(rob) - k + n] = NewEntries(bundle)[n]
      BY RobNext DEF Step
    <2>2. rob'[Len(rob) - k + n].op = bundle[n].op
      BY <2>1, NewIs DEF Step, Chosen
    <2> QED BY <1>2, <2>1, <2>2 DEF BundleStores
  <1>6. StoresInFlight \subseteq Nat \ {0}
    BY FlightIs
  <1>7. PICK l \in Nat : l = Len(rob) - k
    <2>1. Len(rob) - k \in Nat
      BY <1>0
    <2> QED BY <2>1
  <1>8. \A i \in 0 .. l : Count(F, i) = Count(StoresInFlight, i + k) - Count(StoresInFlight, k)
    <2>1. Shifted(StoresInFlight, F, k, l)
      BY <1>0, <1>3, <1>4, <1>6, <1>7 DEF Shifted
    <2> QED BY <2>1, CountMoved
  <1>9. BundleStores(bundle) \subseteq Nat \ {0}
    BY <1>0 DEF BundleStores
  <1>10. \A n \in 0 .. Len(bundle) : Count(BundleStores(bundle), n) = Count(F, n + l) - Count(F, l)
    <2>1. \A n \in 1 .. Len(bundle) : n \in BundleStores(bundle) <=> n + l \in F
      <3>1. \A n \in 1 .. Len(bundle) : n + l = Len(rob) - k + n
        BY <1>0, <1>7
      <3> QED BY <1>5, <3>1
    <2>2. Shifted(F, BundleStores(bundle), l, Len(bundle))
      BY <1>0, <1>3, <1>9, <2>1 DEF Shifted
    <2> QED BY <2>2, CountMoved
  <1>11. ASSUME NEW n \in 0 .. Len(bundle)
         PROVE  Count(F, Len(rob) - k + n) =
                  Count(StoresInFlight, Len(rob)) - Count(StoresInFlight, k) + Count(BundleStores(bundle), n)
    <2>1. l \in 0 .. l /\ l + k = Len(rob) /\ n + l = Len(rob) - k + n /\ n + l \in Nat
      BY <1>0, <1>7
    <2>2. Count(F, l) = Count(StoresInFlight, Len(rob)) - Count(StoresInFlight, k)
      BY <1>8, <2>1
    <2>3. Count(BundleStores(bundle), n) = Count(F, n + l) - Count(F, l)
      BY <1>10
    <2>4. \A x \in Nat : Count(F, x) \in Nat
      BY <1>3, CountSteps
    <2>5. Count(F, n + l) \in Nat /\ Count(F, l) \in Nat
      BY <2>1, <2>4
    <2>6. Count(F, n + l) = Count(F, l) + Count(BundleStores(bundle), n)
      BY <2>3, <2>5
    <2> QED BY <2>1, <2>2, <2>6
  <1> QED BY <1>1, <1>3, <1>4, <1>5, <1>7, <1>8, <1>11

\* The invariant of the instructions themselves.
LEMMA StepTyped ==
    ASSUME Typed, Linked, NEW bundle, NEW issue, NEW fire, NEW fault, NEW accept, NEW wb, NEW k, NEW ready,
           Step(bundle, issue, fire, fault, accept, wb, k, ready)
    PROVE  /\ rob' \in Seq(RobEntry) /\ Len(rob') <= ROB_DEPTH /\ rob_head' \in RobTags
           /\ \A i \in Positions' : rob'[i].op \in ByteOps \/ rob'[i].off = 0
           /\ \A i \in Positions' : rob'[i].sc_fail => rob'[i].op = "SC"
           /\ res' = {} \/ \E w \in Words : res' = {w}
           /\ xlate' \in Translation
           /\ dispatched' \in 0 .. MaxOps
  <1>0. /\ k \in Nat /\ k <= Len(rob) /\ Len(rob) \in Nat /\ Len(bundle) \in Nat
        /\ Len(rob') = Len(rob) - k + Len(bundle) /\ rob' \in Seq(RobEntry)
    BY RobNext DEF Step
  <1>1. bundle \in Bundles /\ Room(bundle)
    BY DEF Step, Chosen
  <1>2. Len(rob') <= ROB_DEPTH
    BY <1>0, <1>1, LsAssumption DEF Room
  <1>3. rob_head' \in RobTags
    BY <1>0, TagMoves DEF Step, Cycle, Typed
  <1>4. ASSUME NEW i \in Positions'
        PROVE  (rob'[i].op \in ByteOps \/ rob'[i].off = 0) /\ (rob'[i].sc_fail => rob'[i].op = "SC")
    <2>1. CASE i \in 1 .. Len(rob) - k
      <3>1. i + k \in Positions /\ rob'[i] = After(i + k, issue, fire, fault, accept, wb)
        BY <2>1, RobNext DEF Step
      <3>2. /\ rob'[i].op = rob[i + k].op /\ rob'[i].off = rob[i + k].off
            /\ rob'[i].sc_fail => rob'[i].op = "SC"
        BY <3>1, AfterTyped DEF Step
      <3> QED BY <3>1, <3>2, RobTyped
    <2>2. CASE \E n \in 1 .. Len(bundle) : i = Len(rob) - k + n
      <3>1. PICK n \in 1 .. Len(bundle) : i = Len(rob) - k + n
        BY <2>2
      <3>2. rob'[i] = NewEntries(bundle)[n]
        BY <3>1, RobNext DEF Step
      <3>3. (rob'[i].op \in ByteOps \/ rob'[i].off = 0) /\ rob'[i].sc_fail = FALSE
        BY <1>1, <3>2, NewIs
      <3> QED BY <3>3
    <2> QED BY <2>1, <2>2, RobNext DEF Step
  <1>5. res' = {} \/ \E w \in Words : res' = {w}
    <2>1. res' = ResAfter(fire, fault, wb)
      BY DEF Step, Cycle
    <2>2. res = {} \/ \E w \in Words : res = {w}
      BY DEF Typed
    <2>3. CASE \E i \in fire : rob[i].op = "LR"
      <3>1. PICK i \in fire : rob[i].op = "LR"
        BY <2>3
      <3>2. i \in Positions /\ fire = {i}
        BY ChosenAre DEF Step
      <3>3. rob[i].word \in Words /\ {rob[j].word : j \in fire} = {rob[i].word}
        BY <3>2, RobTyped
      <3> QED BY <2>1, <2>3, <3>3 DEF ResAfter
    <2>4. CASE ~\E i \in fire : rob[i].op = "LR"
      BY <2>1, <2>2, <2>4 DEF ResAfter
    <2> QED BY <2>3, <2>4
  <1>6. xlate' \in Translation
    BY DEF Step, Cycle, Typed
  <1>7. dispatched' \in 0 .. MaxOps
    BY <1>0, <1>1, LsAssumption DEF Step, Cycle, Typed, Room
  <1> QED BY <1>0, <1>2, <1>3, <1>4, <1>5, <1>6, <1>7

\* The entry of a retiring store is filled.
LEMMA RetiringReady ==
    ASSUME Typed, NEW c, InOrder(c), Filled, NEW k \in 0 .. Len(rob),
           \A i \in 1 .. k : rob[i].stage = "complete" /\ ~rob[i].exc,
           NEW m \in 0 .. SB_DEPTH - 1, c <= m, m < c + Count(StoresInFlight, k)
    PROVE  \E i \in StoresInFlight : /\ i <= k /\ m = c + Count(StoresInFlight, i - 1)
                                     /\ Holds(Nth(m), rob[i]) /\ rob[i].sb = SbSlot(sb.head, m)
  <1>0. /\ Len(rob) \in Nat /\ k \in Nat /\ c \in Nat /\ m \in Nat
        /\ StoresInFlight \subseteq Nat \ {0} /\ StoresInFlight \subseteq Positions
        /\ Positions = 1 .. Len(rob)
    BY PositionsAre, FlightIs, SbAssumption DEF InOrder
  <1>1. PICK q \in Nat : q = m - c
    BY <1>0
  <1>2. Count(StoresInFlight, k) \in Nat
    BY <1>0, CountSteps
  <1>3. q < Count(StoresInFlight, k) /\ m = c + q
    BY <1>0, <1>1, <1>2
  <1>4. PICK i \in StoresInFlight : i <= k /\ Count(StoresInFlight, i - 1) = q
    BY <1>0, <1>3, CountOnto
  <1>5. i \in 1 .. k
    BY <1>0, <1>4
  <1>6. Executed(i)
    BY <1>5 DEF Executed
  <1>7. c = NumCommitted
    BY InOrderIs
  <1>8. Own(i) = Nth(m)
    BY <1>3, <1>4, <1>7 DEF Own
  <1>9. Holds(Nth(m), rob[i])
    BY <1>6, <1>8 DEF Filled
  <1>10. rob[i].sb = SbSlot(sb.head, m)
    BY <1>3, <1>4 DEF InOrder
  <1> QED BY <1>3, <1>4, <1>9, <1>10

\* The entries after a cycle, one by one.
LEMMA EntriesNext ==
    ASSUME Typed, Linked, Filled, NEW bundle, NEW issue, NEW fire, NEW fault, NEW accept, NEW wb, NEW k, NEW ready,
           Step(bundle, issue, fire, fault, accept, wb, k, ready),
           NEW c, InOrder(c), NEW r, NEW n, NEW p, NEW ex,
           Parts(c, r, n, p, ex, bundle, fire, fault, wb, k, ready),
           NEW m \in 0 .. SB_DEPTH - 1
    PROVE  /\ Nth(m)' \in SbEntry
           /\ Nth(m)'.committed <=> m < c + r - p
           /\ Nth(m)'.valid <=> m < sb'.count
           /\ m < c + r - p => Nth(m)'.ready
  <1> DEFINE F == StoresInFlight
             e == Fill(sb, SbSlot(sb.head, m + p), ex)
  <1>0. /\ r \in Nat /\ n \in Nat /\ p \in 0 .. 1 /\ p <= c
        /\ c + r <= sb.count /\ sb.count + n <= SB_DEPTH /\ sb'.count = sb.count + n - p
        /\ Nth(m)' = IF m + p = SB_DEPTH THEN Free
                     ELSE IF sb.count <= m + p /\ m + p < sb.count + n THEN Allocated
                     ELSE IF c <= m + p /\ m + p < c + r THEN [e EXCEPT !.committed = TRUE]
                     ELSE e
    BY BufferNext DEF Buffered
  <1>1. /\ SB_DEPTH \in Nat \ {0} /\ c \in Nat /\ sb.count \in Nat /\ sb \in Buffer /\ sb.head \in SbId
        /\ m \in Nat /\ 0 \in Words
    BY SbAssumption, LsAssumption DEF InOrder, Typed, Buffer
  <1>2. Free \in SbEntry /\ Allocated \in SbEntry /\ ~Free.committed /\ ~Free.valid
        /\ ~Allocated.committed /\ Allocated.valid
    <2>1. 0 \in Offsets /\ 0 \in RobTags /\ 0 \in 0 .. MaxOps /\ "LW" \in SbOps
      BY SbAssumption, LsAssumption DEF Offsets, RobTags, SbOps
    <2> QED BY <1>1, <2>1 DEF Free, Allocated, SbEntry
  <1>3. CASE m + p = SB_DEPTH
    BY <1>0, <1>1, <1>2, <1>3
  <1>4. CASE m + p # SB_DEPTH /\ sb.count <= m + p /\ m + p < sb.count + n
    BY <1>0, <1>1, <1>2, <1>4
  <1>5. ASSUME m + p # SB_DEPTH, ~(sb.count <= m + p /\ m + p < sb.count + n)
        PROVE  /\ Nth(m)' \in SbEntry
               /\ Nth(m)'.committed <=> m < c + r - p
               /\ Nth(m)'.valid <=> m < sb'.count
               /\ m < c + r - p => Nth(m)'.ready
    <2>1. PICK j \in 0 .. SB_DEPTH - 1 : j = m + p
      BY <1>0, <1>1, <1>5
    <2>2. PICK s \in SbId : s = SbSlot(sb.head, j)
      <3>1. j \in Int
        BY <1>1
      <3> QED BY <1>1, <3>1, SbRing
    <2>3. PICK f : f = Fill(sb, s, ex)
      OBVIOUS
    <2>w. Writers(fire, fault, wb) \subseteq StoresInFlight /\ \A i \in Writers(fire, fault, wb) : StoreOp(i) \in SbOps
      BY WritersAre DEF Step
    <2>4. /\ f \in SbEntry /\ f.committed = sb.mem[s].committed /\ f.valid = sb.mem[s].valid
          /\ sb.mem[s].ready => f.ready
      <3>1. PICK W \in SUBSET StoresInFlight : W = Writers(fire, fault, wb)
        BY <2>w
      <3>2. ex = {ExWrite(i) : i \in W} /\ \A i \in W : StoreOp(i) \in SbOps
        BY <2>w, <3>1 DEF Parts
      <3> QED BY <2>3, <3>2, FillIs
    <2>5. /\ sb.mem[s].committed <=> j < c
          /\ sb.mem[s].valid <=> j < sb.count
          /\ j < c => sb.mem[s].ready
      BY <2>2 DEF InOrder, Nth
    <2>6. /\ f.committed <=> j < c
          /\ f.valid <=> j < sb.count
          /\ j < c => f.ready
      BY <2>4, <2>5
    <2>7. CASE c <= j /\ j < c + r
      <3>1. Nth(m)' = [f EXCEPT !.committed = TRUE]
        BY <1>0, <1>5, <2>1, <2>2, <2>3, <2>7
      <3>2. sb.mem[s].ready
        <4>1. /\ k \in 0 .. Len(rob)
              /\ \A i \in 1 .. k : rob[i].stage = "complete" /\ ~rob[i].exc
          BY ChosenAre, PositionsAre DEF Step
        <4>2. \E i \in StoresInFlight : Holds(Nth(j), rob[i])
          BY <2>7, <4>1, RetiringReady DEF Parts
        <4> QED BY <2>2, <4>2 DEF Holds, Nth
      <3>3. f.ready
        BY <2>4, <3>2
      <3>4. PICK g : g = [f EXCEPT !.committed = TRUE]
        OBVIOUS
      <3>5. g \in SbEntry /\ g.committed = TRUE /\ g.valid = f.valid /\ g.ready = f.ready
        BY <2>4, <3>4 DEF SbEntry
      <3>6. j < sb.count /\ m < c + r - p /\ m < sb'.count
        BY <1>0, <1>1, <2>1, <2>7
      <3> QED BY <2>6, <3>1, <3>3, <3>4, <3>5, <3>6
    <2>8. CASE ~(c <= j /\ j < c + r)
      <3>1. Nth(m)' = f
        BY <1>0, <1>5, <2>1, <2>2, <2>3, <2>8
      <3>2. (j < c <=> m < c + r - p) /\ (j < sb.count <=> m < sb'.count)
        BY <1>0, <1>1, <1>5, <2>1, <2>8
      <3> QED BY <2>4, <2>6, <3>1, <3>2
    <2> QED BY <2>7, <2>8
  <1> QED BY <1>3, <1>4, <1>5

\* Every entry of the ring is the n-th from the head for some n.
LEMMA RingCovered ==
    ASSUME NEW h \in SbId, NEW s \in SbId PROVE \E m \in 0 .. SB_DEPTH - 1 : s = SbSlot(h, m)
  BY SbRing

\* The buffer keeps its type.
LEMMA BufferTyped ==
    ASSUME Typed, Linked, Filled, NEW bundle, NEW issue, NEW fire, NEW fault, NEW accept, NEW wb, NEW k, NEW ready,
           Step(bundle, issue, fire, fault, accept, wb, k, ready),
           NEW c, InOrder(c), NEW r, NEW n, NEW p, NEW ex,
           Parts(c, r, n, p, ex, bundle, fire, fault, wb, k, ready)
    PROVE  sb' \in Buffer
  <1>0. /\ r \in Nat /\ n \in Nat /\ p \in 0 .. 1 /\ p <= c
        /\ c + r <= sb.count /\ sb.count + n <= SB_DEPTH /\ sb'.count = sb.count + n - p
        /\ sb'.head = SbSlot(sb.head, p) /\ sb'.tail = SbSlot(sb'.head, sb'.count)
        /\ sb' = Edge(sb, ex, n, Retired(k), wb_fire(sb, ready))
    BY BufferNext DEF Buffered
  <1>1. SB_DEPTH \in Nat \ {0} /\ c \in Nat /\ sb.count \in Nat /\ sb.head \in SbId
    BY SbAssumption DEF InOrder, Typed, Buffer
  <1>2. sb'.count \in 0 .. SB_DEPTH /\ sb'.count \in Int /\ p \in Int
    BY <1>0, <1>1
  <1>3. sb'.head \in SbId
    BY <1>0, <1>1, <1>2, SbRing
  <1>4. sb'.tail \in SbId
    BY <1>0, <1>2, <1>3, SbRing
  <1>5. PICK M : sb' = [mem |-> [s \in SbId |-> M[s]], head |-> sb'.head, tail |-> sb'.tail, count |-> sb'.count]
    <2> DEFINE N == [s \in SbId |-> EntryAfter(sb, s, ex, {alloc_id(sb, i) : i \in 1 .. n}, Retired(k), wb_fire(sb, ready))]
    <2>1. sb' = [mem |-> N, head |-> sb'.head, tail |-> sb'.tail, count |-> sb'.count]
      BY <1>0 DEF Edge
    <2>2. N = [s \in SbId |-> N[s]]
      OBVIOUS
    <2> HIDE DEF N
    <2> QED BY <2>1, <2>2
  <1>6. sb'.mem = [s \in SbId |-> M[s]]
    BY <1>5
  <1>7. ASSUME NEW s \in SbId PROVE M[s] \in SbEntry
    <2>1. PICK h \in SbId : h = sb'.head
      BY <1>3
    <2>2. PICK m \in 0 .. SB_DEPTH - 1 : s = SbSlot(h, m)
      BY RingCovered
    <2>3. Nth(m)' \in SbEntry
      BY EntriesNext
    <2>4. Nth(m)' = sb'.mem[s]
      BY <2>1, <2>2 DEF Nth
    <2> QED BY <1>6, <2>3, <2>4
  <1>8. [s \in SbId |-> M[s]] \in [SbId -> SbEntry]
    BY <1>7
  <1> QED BY <1>2, <1>3, <1>4, <1>5, <1>8 DEF Buffer

\* The buffer stays in order.
LEMMA InOrderNext ==
    ASSUME Typed, Linked, Filled, NEW bundle, NEW issue, NEW fire, NEW fault, NEW accept, NEW wb, NEW k, NEW ready,
           Step(bundle, issue, fire, fault, accept, wb, k, ready),
           NEW c, InOrder(c), NEW r, NEW n, NEW p, NEW ex,
           Parts(c, r, n, p, ex, bundle, fire, fault, wb, k, ready),
           NEW d, d = c + r - p
    PROVE  InOrder(d)'
  <1> DEFINE F == StoresInFlight
             B == BundleStores(bundle)
             l == Len(rob) - k
  <1>0. /\ r \in Nat /\ n \in Nat /\ p \in 0 .. 1 /\ p <= c
        /\ c + r <= sb.count /\ sb.count + n <= SB_DEPTH /\ sb'.count = sb.count + n - p
        /\ sb'.head = SbSlot(sb.head, p) /\ sb'.tail = SbSlot(sb'.head, sb'.count)
    BY BufferNext DEF Buffered
  <1>1. /\ SB_DEPTH \in Nat \ {0} /\ c \in Nat /\ sb.count \in Nat /\ sb.head \in SbId
        /\ sb.tail = SbSlot(sb.head, sb.count) /\ sb.count = c + Count(F, Len(rob))
        /\ r = Count(F, k) /\ n = StoreCount(bundle)
    BY SbAssumption DEF InOrder, Typed, Buffer, Parts
  <1>2. /\ k \in Nat /\ k <= Len(rob) /\ Len(rob) \in Nat /\ Len(bundle) \in Nat
        /\ Len(rob') = l + Len(bundle) /\ Positions' = 1 .. Len(rob')
    BY RobNext DEF Step
  <1>3. F \subseteq Nat \ {0} /\ F \subseteq Positions
    BY FlightIs
  <1>4. bundle \in Bundles /\ Room(bundle) /\ bundle \in Seq(NewOps)
    BY BundleIs DEF Step, Chosen
  <1>5. B \subseteq Nat \ {0} /\ n = Count(B, Len(bundle))
    BY <1>1, <1>4, StoreCounts
  <1>6. /\ StoresInFlight' \subseteq Positions'
        /\ \A i \in 1 .. l : i \in StoresInFlight' <=> i + k \in F
        /\ \A x \in 1 .. Len(bundle) : l + x \in StoresInFlight' <=> x \in B
        /\ \A i \in 0 .. l : Count(StoresInFlight', i) = Count(F, i + k) - Count(F, k)
        /\ \A x \in 0 .. Len(bundle) :
             Count(StoresInFlight', l + x) = Count(F, Len(rob)) - Count(F, k) + Count(B, x)
    BY FlightNext
  <1>7. /\ \A x \in Nat : Count(F, x) \in Nat
        /\ \A x \in Nat : Count(B, x) \in Nat
    BY <1>3, <1>5, CountSteps
  <1>r. \A x, y \in Int : SbSlot(SbSlot(sb.head, x), y) = SbSlot(sb.head, x + y)
    BY <1>1, SbRing
  <1> HIDE DEF B
  <1>8. d \in 0 .. SB_DEPTH
    BY <1>0, <1>1
  <1>d. d \in Int /\ d + p = c + r /\ sb'.count \in Int /\ sb'.count + p = sb.count + n
    <2>1. PICK c1 \in Int, r1 \in Int, p1 \in Int, n1 \in Int, t \in Int :
             c1 = c /\ r1 = r /\ p1 = p /\ n1 = n /\ t = sb.count
      BY <1>0, <1>1
    <2>2. d = c1 + r1 - p1 /\ sb'.count = t + n1 - p1
      BY <1>0, <2>1
    <2> QED BY <2>1, <2>2
  <1>t. /\ c \in Int /\ r \in Int /\ p \in Int /\ n \in Int /\ sb.count \in Int /\ d \in Int
        /\ \A a \in Int : d + (a - r) \in Int /\ p + (d + (a - r)) = c + a
    <2>1. c \in Int /\ r \in Int /\ p \in Int /\ n \in Int /\ sb.count \in Int
      BY <1>0, <1>1
    <2> QED BY <1>d, <2>1
  <1>9. sb'.count = d + Count(StoresInFlight', Len(rob'))
    <2>1. Len(bundle) \in 0 .. Len(bundle)
      BY <1>2
    <2>2. Count(StoresInFlight', l + Len(bundle)) = Count(F, Len(rob)) - Count(F, k) + Count(B, Len(bundle))
      BY <1>6, <2>1
    <2>3. Count(F, Len(rob)) \in Nat
      BY <1>2, <1>7
    <2>4. PICK a \in Nat : a = Count(F, Len(rob))
      BY <2>3
    <2>5. Count(StoresInFlight', Len(rob')) = a - r + n /\ sb.count = c + a
      BY <1>1, <1>2, <1>5, <2>2, <2>4
    <2>6. sb'.count = d + (a - r + n)
      <3>1. sb.count = c + a
        BY <2>5
      <3> QED BY <1>d, <1>t, <3>1
    <2> QED BY <2>5, <2>6
  <1>10. \A m \in 0 .. SB_DEPTH - 1 : /\ Nth(m)'.committed <=> m < d
                                      /\ Nth(m)'.valid <=> m < sb'.count
                                      /\ m < d => Nth(m)'.ready
    BY EntriesNext
  <1>11. ASSUME NEW i \in StoresInFlight'
         PROVE  rob'[i].sb = SbSlot(sb'.head, d + Count(StoresInFlight', i - 1))
    <2>1. CASE i \in 1 .. l
      <3>1. PICK j \in F : j = i + k
        BY <1>6, <2>1
      <3>2. rob'[i] = After(i + k, issue, fire, fault, accept, wb) /\ i + k \in Positions
        BY <2>1, RobNext DEF Step
      <3>3. rob'[i].sb = rob[j].sb
        BY <3>1, <3>2, AfterTyped DEF Step
      <3>4. rob[j].sb = SbSlot(sb.head, c + Count(F, j - 1))
        BY DEF InOrder
      <3>5. i - 1 \in 0 .. l /\ (i - 1) + k = j - 1 /\ j - 1 \in Nat
        BY <1>2, <2>1, <3>1
      <3>6. Count(StoresInFlight', i - 1) = Count(F, j - 1) - r
        BY <1>1, <1>6, <3>5
      <3>7. PICK a \in Nat : a = Count(F, j - 1)
        BY <1>7, <3>5
      <3>8. p \in Int /\ d + (a - r) \in Int /\ p + (d + (a - r)) = c + a
        BY <1>t
      <3>9. SbSlot(SbSlot(sb.head, p), d + (a - r)) = SbSlot(sb.head, p + (d + (a - r)))
        BY <1>r, <3>8
      <3> QED BY <1>0, <3>3, <3>4, <3>6, <3>7, <3>8, <3>9
    <2>2. CASE ~(i \in 1 .. l)
      <3>0. i \in Positions'
        BY <1>6
      <3>1. PICK x \in 1 .. Len(bundle) : i = l + x
        BY <2>2, <3>0, RobNext DEF Step
      <3>2. x \in B
        BY <1>6, <3>1
      <3>3. rob'[i] = NewEntries(bundle)[x]
        BY <3>1, RobNext DEF Step
      <3>4. rob'[i].op = bundle[x].op /\ (is_store(rob'[i].op) => rob'[i].sb = SbSlot(sb.tail, Count(B, x) - 1))
        BY <1>4, <3>3, NewIs DEF B
      <3>5. is_store(rob'[i].op)
        BY <3>2, <3>4 DEF B, BundleStores
      <3>6. x - 1 \in Nat /\ x - 1 \in 0 .. Len(bundle) /\ (x - 1) + 1 = x /\ i - 1 = l + (x - 1)
        BY <1>2, <3>1
      <3>7. Count(B, x) = Count(B, x - 1) + 1
        <4>1. Count(B, (x - 1) + 1) = IF (x - 1) + 1 \in B THEN Count(B, x - 1) + 1 ELSE Count(B, x - 1)
          BY <1>5, <3>6, CountSteps
        <4> QED BY <3>2, <3>6, <4>1
      <3>8. Count(StoresInFlight', i - 1) = Count(F, Len(rob)) - r + Count(B, x - 1)
        BY <1>1, <1>6, <3>6
      <3>9. PICK a \in Nat : a = Count(F, Len(rob))
        BY <1>2, <1>7
      <3>10. PICK b \in Nat : b = Count(B, x - 1)
        BY <1>7, <3>6
      <3>11. /\ p \in Int /\ d + (a - r + b) \in Int /\ p + (d + (a - r + b)) = sb.count + b
             /\ sb.count \in Int /\ b \in Int /\ (b + 1) - 1 = b
        <4>1. sb.count = c + a
          BY <1>1, <3>9
        <4> QED BY <1>d, <1>t, <4>1
      <3>12. SbSlot(SbSlot(sb.head, p), d + (a - r + b)) = SbSlot(sb.head, p + (d + (a - r + b)))
        BY <1>r, <3>11
      <3>13. SbSlot(SbSlot(sb.head, sb.count), b) = SbSlot(sb.head, sb.count + b)
        BY <1>r, <3>11
      <3>14. rob'[i].sb = SbSlot(sb.tail, b)
        BY <3>4, <3>5, <3>7, <3>10, <3>11
      <3> QED BY <1>0, <1>1, <3>8, <3>9, <3>10, <3>11, <3>12, <3>13, <3>14
    <2> QED BY <2>1, <2>2
  <1> QED BY <1>0, <1>8, <1>9, <1>10, <1>11 DEF InOrder

\* A store that has written its entry did so before, or in this cycle.
LEMMA ExecutedNext ==
    ASSUME Typed, Linked, NEW bundle, NEW issue, NEW fire, NEW fault, NEW accept, NEW wb, NEW k, NEW ready,
           Step(bundle, issue, fire, fault, accept, wb, k, ready),
           NEW j \in StoresInFlight, NEW a, a = After(j, issue, fire, fault, accept, wb)
    PROVE  /\ ~a.exc /\ (a.stage = "complete" \/ (a.stage = "store_wb" /\ a.op # "AMO"))
              => j \in Writers(fire, fault, wb) \/ Executed(j)
           /\ j \in Writers(fire, fault, wb) => BufferOp(a) = StoreOp(j)
           /\ Executed(j) => BufferOp(a) = BufferOp(rob[j])
  <1>c. Chosen(bundle, issue, fire, fault, accept, wb, k)
    BY DEF Step
  <1>0. j \in Positions /\ is_store(rob[j].op)
    BY DEF StoresInFlight
  <1>1. /\ a.op = rob[j].op
        /\ j \notin fire => a.exc = rob[j].exc /\ a.sc_fail = rob[j].sc_fail
        /\ j \in fire => /\ a.exc = fault /\ (is_load(rob[j].op) => a.stage \in {"S_LD_REQ", "S_RESP"})
                         /\ ~is_load(rob[j].op) => /\ a.stage = "store_wb"
                                                   /\ a.sc_fail = (rob[j].op = "SC" /\ ~sc_success(j))
        /\ j \in issue => a.stage = "front"
        /\ j \in accept => a.stage = "S_LD_RSP"
        /\ j \notin wb \cup fire \cup issue \cup accept => a = rob[j]
    BY <1>c, <1>0, AfterTyped
  <1>2. /\ j \in wb => IF store_wb # <<>> THEN rob[j].stage = "store_wb" ELSE rob[j].stage \in {"S_LD_RSP", "S_RESP"}
        /\ j \in fire => rob[j].stage \in {"front", "rs"}
        /\ j \in wb => j \notin fire
    BY <1>c, ChosenAre
  <1>3. ASSUME ~a.exc, a.stage = "complete" \/ (a.stage = "store_wb" /\ a.op # "AMO"),
               j \notin Writers(fire, fault, wb)
        PROVE  Executed(j)
    <2>1. CASE j \in wb /\ store_wb # <<>>
      <3>1. rob[j].stage = "store_wb" /\ ~rob[j].exc
        BY <1>1, <1>2, <1>3, <2>1
      <3>2. ~is_load(rob[j].op)
        BY <1>0, <3>1 DEF Linked
      <3> QED BY <3>1, <3>2 DEF Executed, is_load
    <2>2. CASE j \in wb /\ store_wb = <<>>
      <3>1. rob[j].stage \in {"S_LD_RSP", "S_RESP"} /\ ~rob[j].exc
        BY <1>1, <1>2, <1>3, <2>2
      <3>2. is_load(rob[j].op)
        BY <1>0, <3>1 DEF Linked, InLane
      <3>3. rob[j].op = "AMO"
        BY <1>0, <3>2 DEF is_load, is_store
      <3> QED BY <1>3, <2>2, <3>1, <3>3 DEF Writers, AmosDone
    <2>3. CASE j \in fire
      <3>1. ~is_load(rob[j].op) /\ ~fault
        BY <1>1, <1>3, <2>3
      <3> QED BY <1>3, <2>3, <3>1 DEF Writers, StoresFired
    <2>4. CASE j \in issue \cup accept
      BY <1>1, <1>3, <2>4
    <2>5. CASE j \notin wb \cup fire \cup issue \cup accept
      BY <1>1, <1>3, <2>5 DEF Executed
    <2> QED BY <2>1, <2>2, <2>3, <2>4, <2>5
  <1>4. ASSUME j \in Writers(fire, fault, wb) PROVE BufferOp(a) = StoreOp(j)
    <2>1. CASE j \in fire /\ ~is_load(rob[j].op)
      <3>1. a.sc_fail = (rob[j].op = "SC" /\ ~sc_success(j)) /\ a.op = rob[j].op /\ rob[j].op # "AMO"
        BY <1>1, <2>1 DEF is_load
      <3>2. CASE rob[j].op = "SC"
        BY <3>1, <3>2 DEF BufferOp, StoreOp
      <3>3. CASE rob[j].op # "SC"
        BY <3>1, <3>3 DEF BufferOp, StoreOp
      <3> QED BY <3>2, <3>3
    <2>2. CASE rob[j].op = "AMO"
      BY <1>1, <2>2 DEF BufferOp, StoreOp
    <2> QED BY <1>4, <2>1, <2>2 DEF Writers, StoresFired, AmosDone
  <1>5. ASSUME Executed(j) PROVE BufferOp(a) = BufferOp(rob[j])
    <2>1. j \notin fire
      BY <1>2, <1>5 DEF Executed
    <2> QED BY <1>1, <2>1 DEF BufferOp
  <1> QED BY <1>3, <1>4, <1>5

\* The entry of a store that stays in flight.
LEMMA KeptEntry ==
    ASSUME Typed, Linked, NEW bundle, NEW issue, NEW fire, NEW fault, NEW accept, NEW wb, NEW k, NEW ready,
           Step(bundle, issue, fire, fault, accept, wb, k, ready),
           NEW c, InOrder(c), NEW r, NEW n, NEW p, NEW ex,
           Parts(c, r, n, p, ex, bundle, fire, fault, wb, k, ready),
           NEW d, d = c + r - p, NEW i \in StoresInFlight', i \in 1 .. Len(rob) - k, NEW j, j = i + k
    PROVE  /\ j \in StoresInFlight
           /\ \E m \in 0 .. SB_DEPTH - 1 :
                m = d + Count(StoresInFlight', i - 1) /\ Nth(m)' = Fill(sb, rob[j].sb, ex)
  <1> DEFINE F == StoresInFlight
  <1>0. /\ r \in Nat /\ n \in Nat /\ p \in 0 .. 1 /\ p <= c
        /\ c + r <= sb.count /\ sb.count + n <= SB_DEPTH
    BY BufferNext DEF Buffered
  <1>1. SB_DEPTH \in Nat \ {0} /\ c \in Nat /\ sb.count \in Nat
    BY SbAssumption DEF InOrder, Typed, Buffer
  <1>r. r = Count(F, k)
    BY DEF Parts
  <1>2. k \in Nat /\ k <= Len(rob) /\ Len(rob) \in Nat /\ Len(bundle) \in Nat
    BY RobNext DEF Step
  <1>3. j \in F
    BY FlightNext
  <1>4. Count(StoresInFlight', i - 1) = Count(F, j - 1) - r
    <2>1. i - 1 \in 0 .. Len(rob) - k /\ (i - 1) + k = j - 1
      BY <1>2
    <2>2. Count(StoresInFlight', i - 1) = Count(F, (i - 1) + k) - Count(F, k)
      BY <2>1, FlightNext
    <2> QED BY <1>r, <2>1, <2>2
  <1>5. PICK q \in Nat : q = Count(F, j - 1)
    BY <1>3, OwnEntries
  <1>6. PICK z \in 0 .. SB_DEPTH - 1 : z = c + q /\ z < sb.count
    <2>1. c + q \in 0 .. SB_DEPTH - 1 /\ c + q < sb.count
      BY <1>3, <1>5, OwnEntries
    <2> QED BY <2>1
  <1>7. r <= q
    <2>1. k <= j - 1 /\ j - 1 \in Nat
      BY <1>2
    <2>2. Count(F, k) <= Count(F, j - 1)
      BY <1>2, <2>1, FlightIs, CountGrows
    <2> QED BY <1>r, <1>5, <2>2
  <1>8. PICK m \in 0 .. SB_DEPTH - 1 : m = z - p
    BY <1>0, <1>1, <1>6
  <1>9. d + Count(StoresInFlight', i - 1) = m
    <2>1. PICK c1 \in Int, r1 \in Int, p1 \in Int : c1 = c /\ r1 = r /\ p1 = p
      BY <1>0, <1>1
    <2>2. d = c1 + r1 - p1 /\ Count(StoresInFlight', i - 1) = q - r1 /\ m = c1 + q - p1
      BY <1>4, <1>5, <1>6, <1>8, <2>1
    <2> QED BY <2>2
  <1>10. Nth(m)' = Fill(sb, SbSlot(sb.head, m + p), ex)
    <2>1. m + p = z
      BY <1>0, <1>6, <1>8
    <2>2. /\ m + p # SB_DEPTH /\ ~(sb.count <= m + p /\ m + p < sb.count + n)
          /\ ~(c <= m + p /\ m + p < c + r)
      BY <1>0, <1>1, <1>6, <1>7, <2>1
    <2>3. Nth(m)' = IF m + p = SB_DEPTH THEN Free
                    ELSE IF sb.count <= m + p /\ m + p < sb.count + n THEN Allocated
                    ELSE IF c <= m + p /\ m + p < c + r
                    THEN [Fill(sb, SbSlot(sb.head, m + p), ex) EXCEPT !.committed = TRUE]
                    ELSE Fill(sb, SbSlot(sb.head, m + p), ex)
      BY BufferNext DEF Buffered
    <2> QED BY <2>2, <2>3
  <1>11. rob[j].sb = SbSlot(sb.head, m + p)
    <2>1. m + p = z
      BY <1>0, <1>6, <1>8
    <2> QED BY <1>3, <1>5, <1>6, <2>1 DEF InOrder
  <1> QED BY <1>3, <1>8, <1>9, <1>10, <1>11

\* Executed stores have their entries filled.
LEMMA FilledNext ==
    ASSUME Typed, Linked, Filled, NEW bundle, NEW issue, NEW fire, NEW fault, NEW accept, NEW wb, NEW k, NEW ready,
           Step(bundle, issue, fire, fault, accept, wb, k, ready),
           NEW c, InOrder(c), NEW r, NEW n, NEW p, NEW ex,
           Parts(c, r, n, p, ex, bundle, fire, fault, wb, k, ready),
           NEW d, d = c + r - p, d = NumCommitted'
    PROVE  Filled'
  <1> SUFFICES ASSUME NEW i \in StoresInFlight', Executed(i)'
               PROVE  Holds(Own(i), rob[i])'
    BY DEF Filled
  <1>c. Chosen(bundle, issue, fire, fault, accept, wb, k) /\ bundle \in Bundles /\ Room(bundle)
    BY DEF Step, Chosen
  <1>1. i \in 1 .. Len(rob) - k
    <2>1. ASSUME NEW x \in 1 .. Len(bundle), i = Len(rob) - k + x PROVE FALSE
      <3>1. rob'[i] = NewEntries(bundle)[x]
        BY <2>1, RobNext DEF Step
      <3>2. rob'[i].stage = "rs"
        BY <1>c, <3>1, NewIs
      <3> QED BY <3>2 DEF Executed
    <2>2. i \in Positions'
      BY FlightNext
    <2> QED BY <2>1, <2>2, RobNext DEF Step
  <1>2. PICK j : j = i + k
    OBVIOUS
  <1>3. j \in StoresInFlight /\ Own(i)' = Fill(sb, rob[j].sb, ex)
    <2>1. PICK m : m = d + Count(StoresInFlight', i - 1) /\ Nth(m)' = Fill(sb, rob[j].sb, ex)
      BY <1>1, <1>2, KeptEntry
    <2>2. Own(i)' = Nth(m)'
      BY <2>1 DEF Own, Nth
    <2> QED BY <1>1, <1>2, <2>1, <2>2, KeptEntry
  <1>h. \A f, a : Own(i)' = f /\ rob'[i] = a /\ Holds(f, a) => Holds(Own(i), rob[i])'
    BY DEF Holds, BufferOp
  <1>4. j \in Positions /\ rob'[i] = After(j, issue, fire, fault, accept, wb)
    BY <1>1, <1>2, RobNext DEF Step
  <1>5. PICK a : a = After(j, issue, fire, fault, accept, wb)
    OBVIOUS
  <1>6. a.op = rob[j].op /\ a.word = rob[j].word /\ a.off = rob[j].off /\ a.id = rob[j].id
    BY <1>c, <1>4, <1>5, AfterTyped
  <1>7. /\ j \in Writers(fire, fault, wb) \/ Executed(j)
        /\ j \in Writers(fire, fault, wb) => BufferOp(a) = StoreOp(j)
        /\ Executed(j) => BufferOp(a) = BufferOp(rob[j])
    <2>1. ~a.exc /\ (a.stage = "complete" \/ (a.stage = "store_wb" /\ a.op # "AMO"))
      BY <1>4, <1>5 DEF Executed
    <2> QED BY <1>3, <1>5, <2>1, ExecutedNext
  <1>8. PICK W \in SUBSET StoresInFlight : W = Writers(fire, fault, wb)
    BY <1>c, WritersAre
  <1>9. ex = {ExWrite(x) : x \in W} /\ \A x \in W : StoreOp(x) \in SbOps
    BY <1>c, <1>8, WritersAre DEF Parts
  <1>10. CASE j \in W
    <2>1. PICK f : f = Fill(sb, rob[j].sb, ex)
      OBVIOUS
    <2>2. f.ready /\ f.word = rob[j].word /\ f.off = rob[j].off /\ f.op = StoreOp(j) /\ f.data = rob[j].id
      BY <1>9, <1>10, <2>1, FillIs
    <2>3. Holds(f, a)
      BY <1>6, <1>7, <1>8, <1>10, <2>2 DEF Holds
    <2> QED BY <1>3, <1>4, <1>5, <1>h, <2>1, <2>3
  <1>11. CASE j \notin W
    <2>1. Fill(sb, rob[j].sb, ex) = sb.mem[rob[j].sb]
      BY <1>3, <1>9, <1>11, FillIs
    <2>2. Executed(j)
      BY <1>7, <1>8, <1>11
    <2>3. Holds(Own(j), rob[j])
      BY <1>3, <2>2 DEF Filled
    <2>4. c = NumCommitted
      BY InOrderIs
    <2>5. Own(j) = sb.mem[rob[j].sb]
      BY <1>3, <2>4 DEF Own, Nth, InOrder
    <2>6. Holds(sb.mem[rob[j].sb], a)
      BY <1>6, <1>7, <2>2, <2>3, <2>5 DEF Holds
    <2> QED BY <1>3, <1>4, <1>5, <1>h, <2>1, <2>6
  <1> QED BY <1>10, <1>11

\* The queues of the LSU after a cycle: what was in them has gone, what fired is in them.
LEMMA QueuesNext ==
    ASSUME Typed, Linked, NEW bundle, NEW issue, NEW fire, NEW fault, NEW accept, NEW wb, NEW k, NEW ready,
           Step(bundle, issue, fire, fault, accept, wb, k, ready)
    PROVE  /\ (\A i \in fire : is_load(rob[i].op)) => store_wb' = <<>> /\ sq' = <<>>
           /\ \A i \in fire : ~is_load(rob[i].op) =>
                /\ store_wb' = <<Tag(i)>>
                /\ sq' = IF fault THEN <<>> ELSE <<SqEntry(i)>>
  <1> DEFINE wbRest == IF store_wb = <<>> THEN <<>> ELSE Tail(store_wb)
             sqPop == \E i \in wb : ~is_load(rob[i].op) /\ ~rob[i].exc
             sqRest == IF sqPop THEN Tail(sq) ELSE sq
             stores == {i \in fire : ~is_load(rob[i].op)}
             wbNew == [n \in 1 .. Cardinality(stores) |-> Tag(CHOOSE i \in fire : TRUE)]
             sqNew == [n \in 1 .. Cardinality(StoresFired(fire, fault)) |-> SqEntry(CHOOSE i \in fire : TRUE)]
  <1>0. store_wb' = wbRest \o wbNew /\ sq' = sqRest \o sqNew
    BY DEF Step, Cycle
  <1>c. Chosen(bundle, issue, fire, fault, accept, wb, k)
    BY DEF Step
  <1>1. wbRest = <<>> /\ sqRest = <<>>
    <2>1. CASE store_wb = <<>>
      <3>1. sq = <<>>
        BY <2>1 DEF Linked
      <3>2. ~sqPop
        <4>1. \A i \in wb : i \in Positions /\ rob[i].stage \in {"S_LD_RSP", "S_RESP"}
          BY <1>c, <2>1, ChosenAre
        <4> QED BY <4>1 DEF Linked, InLane
      <3> QED BY <2>1, <3>1, <3>2
    <2>2. CASE store_wb # <<>>
      <3>1. PICK i \in Positions : store_wb = <<Tag(i)>> /\ rob[i].stage = "store_wb"
        BY <2>2 DEF Linked
      <3>2. sq = (IF rob[i].exc THEN <<>> ELSE <<SqEntry(i)>>) /\ ~is_load(rob[i].op)
        BY <3>1 DEF Linked
      <3>3. PICK x \in wb : store_wb = <<Tag(x)>> /\ x \in Positions /\ wb = {x}
        BY <1>c, <2>2, ChosenAre
      <3>4. x = i
        <4>1. Tag(x) = Tag(i)
          BY <3>1, <3>3
        <4> QED BY <3>1, <3>3, <4>1, PositionsAre, Tags DEF Typed
      <3>5. sqPop <=> ~rob[i].exc
        BY <3>2, <3>3, <3>4
      <3>6. wbRest = <<>>
        BY <2>2, <3>1
      <3>7. sqRest = <<>>
        BY <3>2, <3>5
      <3> QED BY <3>6, <3>7
    <2> QED BY <2>1, <2>2
  <1>2. ASSUME \A i \in fire : is_load(rob[i].op) PROVE store_wb' = <<>> /\ sq' = <<>>
    <2>1. stores = {} /\ StoresFired(fire, fault) = {}
      BY <1>2 DEF StoresFired
    <2>2. Cardinality(stores) = 0 /\ Cardinality(StoresFired(fire, fault)) = 0
      BY <2>1, FS_EmptySet
    <2>3. wbNew = <<>> /\ sqNew = <<>>
      <3>1. 1 .. 0 = {}
        OBVIOUS
      <3> HIDE DEF stores
      <3> QED BY <2>2, <3>1
    <2> HIDE DEF wbRest, sqRest, wbNew, sqNew
    <2> QED BY <1>0, <1>1, <2>3
  <1>3. ASSUME NEW i \in fire, ~is_load(rob[i].op)
        PROVE  store_wb' = <<Tag(i)>> /\ sq' = IF fault THEN <<>> ELSE <<SqEntry(i)>>
    <2>1. fire = {i} /\ (CHOOSE x \in fire : TRUE) = i
      BY <1>c, ChosenAre
    <2>2. stores = {i} /\ StoresFired(fire, fault) = IF fault THEN {} ELSE {i}
      BY <1>3, <2>1 DEF StoresFired
    <2>3. Cardinality(stores) = 1 /\ Cardinality(StoresFired(fire, fault)) = IF fault THEN 0 ELSE 1
      BY <2>2, FS_EmptySet, FS_Singleton
    <2>4. 1 .. 0 = {} /\ 1 .. 1 = {1}
      OBVIOUS
    <2>5. wbNew = <<Tag(i)>>
      <3> HIDE DEF stores
      <3> QED BY <2>1, <2>3, <2>4
    <2>6. sqNew = IF fault THEN <<>> ELSE <<SqEntry(i)>>
      <3>1. PICK x : x = SqEntry(i)
        OBVIOUS
      <3>2. sqNew = [y \in 1 .. Cardinality(StoresFired(fire, fault)) |-> x]
        BY <2>1, <3>1
      <3> HIDE DEF sqNew
      <3>3. CASE fault
        BY <2>3, <2>4, <3>2, <3>3
      <3>4. CASE ~fault
        BY <2>3, <2>4, <3>1, <3>2, <3>4
      <3> QED BY <3>3, <3>4
    <2>7. PICK t : t = Tag(i)
      OBVIOUS
    <2>8. PICK e : e = SqEntry(i)
      OBVIOUS
    <2> HIDE DEF wbRest, sqRest, wbNew, sqNew
    <2>9. store_wb' = <<t>>
      BY <1>0, <1>1, <2>5, <2>7
    <2>10. sq' = IF fault THEN <<>> ELSE <<e>>
      BY <1>0, <1>1, <2>6, <2>8
    <2> QED BY <2>7, <2>8, <2>9, <2>10
  <1> QED BY <1>2, <1>3

\* The registers of the LSU still agree with the stages.
LEMMA LinkedNext ==
    ASSUME Typed, Linked, NEW bundle, NEW issue, NEW fire, NEW fault, NEW accept, NEW wb, NEW k, NEW ready,
           Step(bundle, issue, fire, fault, accept, wb, k, ready)
    PROVE  Linked'
  <1> DEFINE l == Len(rob) - k
             New(j) == After(j, issue, fire, fault, accept, wb)
  <1>c. /\ Chosen(bundle, issue, fire, fault, accept, wb, k) /\ bundle \in Bundles /\ Room(bundle)
        /\ fault \in BOOLEAN
    BY DEF Step, Chosen
  <1>0. /\ k \in Nat /\ k <= Len(rob) /\ Len(rob) \in Nat /\ Len(bundle) \in Nat
        /\ Len(rob') = l + Len(bundle) /\ Positions' = 1 .. Len(rob')
        /\ Positions = 1 .. Len(rob) /\ Len(rob) + Len(bundle) <= ROB_DEPTH /\ ROB_DEPTH \in Nat
    BY <1>c, RobNext, PositionsAre, BundleIs, LsAssumption DEF Step
  <1>1. \A i \in Int : Tag(i)' = Tag(i + k)
    BY <1>0, TagMoves DEF Step, Cycle, Typed
  <1>2. \A i, j \in 1 .. ROB_DEPTH : Tag(i) = Tag(j) => i = j
    BY Tags DEF Typed
  <1>3. /\ \A i \in wb : /\ i \in Positions /\ rob[i].stage \in {"store_wb", "S_LD_RSP", "S_RESP"}
                         /\ store_wb = <<>> => rob[i].stage # "store_wb"
        /\ store_wb # <<>> => \E i \in wb : store_wb = <<Tag(i)>>
        /\ \A i \in fire : /\ i \in Positions /\ fire = {i} /\ issue = {}
                           /\ \/ rob[i].stage = "front" /\ front = {Tag(i)}
                              \/ rob[i].stage = "rs" /\ front = {}
        /\ \A i \in issue : i \in Positions /\ issue = {i} /\ rob[i].stage = "rs" /\ front = {} /\ fire = {}
        /\ \A i \in accept : i \in Positions /\ rob[i].stage = "S_LD_REQ"
        /\ \A i \in 1 .. k : rob[i].stage = "complete"
    BY <1>c, ChosenAre
  <1>4. ASSUME NEW j \in Positions
        PROVE  /\ New(j).op = rob[j].op /\ New(j).word = rob[j].word /\ New(j).off = rob[j].off
               /\ New(j).id = rob[j].id
               /\ j \notin fire => New(j).exc = rob[j].exc
               /\ j \in fire => /\ New(j).exc = fault
                                /\ is_load(rob[j].op) => New(j).stage \in {"S_LD_REQ", "S_RESP"}
                                /\ ~is_load(rob[j].op) => New(j).stage = "store_wb"
               /\ j \in wb => New(j).stage = "complete"
               /\ j \in issue => New(j).stage = "front"
               /\ j \in accept => New(j).stage = "S_LD_RSP"
               /\ j \notin wb \cup fire \cup issue \cup accept => New(j) = rob[j]
    BY <1>c, AfterTyped
  <1> HIDE DEF New
  <1>5. ASSUME NEW i \in Positions'
        PROVE  \/ /\ i \in 1 .. l /\ i + k \in Positions /\ rob'[i] = New(i + k) /\ Tag(i)' = Tag(i + k)
               \/ /\ rob'[i].stage = "rs" /\ Tag(i)' = Tag(i + k) /\ i + k \in 1 .. ROB_DEPTH
                  /\ i + k \notin Positions
    <2>1. i \in Int /\ Tag(i)' = Tag(i + k)
      BY <1>0, <1>1
    <2>2. CASE i \in 1 .. l
      BY <2>1, <2>2, RobNext DEF Step, New
    <2>3. CASE i \notin 1 .. l
      <3>1. PICK x \in 1 .. Len(bundle) : i = l + x
        BY <2>3, RobNext DEF Step
      <3>2. rob'[i] = NewEntries(bundle)[x]
        BY <3>1, RobNext DEF Step
      <3>3. rob'[i].stage = "rs"
        BY <1>c, <3>2, NewIs
      <3>4. i + k \in 1 .. ROB_DEPTH /\ i + k \notin Positions
        BY <1>0, <3>1
      <3> QED BY <2>1, <3>3, <3>4
    <2> QED BY <2>2, <2>3
  <1>6. ASSUME NEW j \in Positions, rob[j].stage # "complete"
        PROVE  \E i \in 1 .. l : i \in Positions' /\ i + k = j /\ rob'[i] = New(j) /\ Tag(i)' = Tag(j)
    <2>1. j \notin 1 .. k
      BY <1>3, <1>6
    <2>2. PICK i \in 1 .. l : i + k = j
      <3>1. j - k \in 1 .. l /\ (j - k) + k = j
        BY <1>0, <2>1
      <3> QED BY <3>1
    <2>3. i \in Positions' /\ rob'[i] = New(i + k)
      BY RobNext DEF Step, New
    <2>4. i \in Int
      BY <1>0
    <2> QED BY <1>1, <2>2, <2>3, <2>4
  <1>7. front' = ({Tag(i) : i \in issue} \cup front) \ {Tag(i) : i \in fire}
    BY DEF Step, Cycle
  <1>8. \A j \in Positions : Tag(j) \in front' <=> New(j).stage = "front"
    <2> SUFFICES ASSUME NEW j \in Positions PROVE Tag(j) \in front' <=> New(j).stage = "front"
      OBVIOUS
    <2>0. \A i \in Positions : Tag(i) = Tag(j) => i = j
      BY <1>0, <1>2
    <2>1. Tag(j) \in {Tag(i) : i \in issue} <=> j \in issue
      BY <1>3, <2>0
    <2>2. Tag(j) \in {Tag(i) : i \in fire} <=> j \in fire
      BY <1>3, <2>0
    <2>3. Tag(j) \in front <=> rob[j].stage = "front"
      BY DEF Linked
    <2>4. Tag(j) \in front' <=> (j \in issue \/ rob[j].stage = "front") /\ j \notin fire
      BY <1>7, <2>1, <2>2, <2>3
    <2>5. CASE j \in wb
      BY <1>3, <1>4, <2>4, <2>5
    <2>6. CASE j \in fire
      BY <1>3, <1>4, <2>4, <2>6
    <2>7. CASE j \in issue
      BY <1>3, <1>4, <2>4, <2>7
    <2>8. CASE j \in accept
      BY <1>3, <1>4, <2>4, <2>8
    <2>9. CASE j \notin wb \cup fire \cup issue \cup accept
      BY <1>4, <2>4, <2>9
    <2> QED BY <2>5, <2>6, <2>7, <2>8, <2>9
  <1>9. front' = {} \/ \E j \in Positions : front' = {Tag(j)} /\ rob[j].stage # "complete"
    <2>1. CASE \E i \in issue : TRUE
      <3>1. PICK i \in issue : TRUE
        BY <2>1
      <3>2. i \in Positions /\ issue = {i} /\ rob[i].stage = "rs" /\ front = {} /\ fire = {}
        BY <1>3
      <3>3. front' = {Tag(i)}
        BY <1>7, <3>2
      <3> QED BY <3>2, <3>3
    <2>2. CASE issue = {}
      <3>1. front' = {} \/ front' = front
        <4>1. front = {} \/ \E i \in Positions : front = {Tag(i)}
          BY DEF Linked
        <4>2. front' = front \ {Tag(i) : i \in fire}
          BY <1>7, <2>2
        <4> QED BY <4>1, <4>2
      <3>2. CASE front # {}
        <4>1. PICK i \in Positions : front = {Tag(i)}
          BY <3>2 DEF Linked
        <4>2. rob[i].stage = "front"
          BY <4>1 DEF Linked
        <4> QED BY <3>1, <4>1, <4>2
      <3> QED BY <3>1, <3>2
    <2> QED BY <2>1, <2>2
  <1>10. front' = {} \/ \E i \in Positions' : front' = {Tag(i)'}
    BY <1>6, <1>9
  <1>11. \A i \in Positions' : Tag(i)' \in front' <=> rob'[i].stage = "front"
    <2> SUFFICES ASSUME NEW i \in Positions' PROVE Tag(i)' \in front' <=> rob'[i].stage = "front"
      OBVIOUS
    <2>1. CASE i \in 1 .. l /\ i + k \in Positions /\ rob'[i] = New(i + k) /\ Tag(i)' = Tag(i + k)
      BY <1>8, <2>1
    <2>2. CASE rob'[i].stage = "rs" /\ Tag(i)' = Tag(i + k) /\ i + k \in 1 .. ROB_DEPTH /\ i + k \notin Positions
      <3>1. \A j \in Positions : Tag(j) # Tag(i + k)
        BY <1>0, <1>2, <2>2
      <3>2. Tag(i + k) \notin front'
        BY <1>9, <3>1
      <3> QED BY <2>2, <3>2
    <2> QED BY <1>5, <2>1, <2>2
  \* The stores that wait for write-back are the ones that fired.
  <1>12. ASSUME NEW i \in Positions', rob'[i].stage = "store_wb"
         PROVE  \E j \in fire : /\ j = i + k /\ ~is_load(rob[j].op) /\ rob'[i] = New(j) /\ Tag(i)' = Tag(j)
                                /\ j \in Positions
    <2>1. i + k \in Positions /\ rob'[i] = New(i + k) /\ Tag(i)' = Tag(i + k)
      BY <1>5, <1>12
    <2>2. PICK j \in Positions : j = i + k
      BY <2>1
    <2>3. New(j).stage = "store_wb"
      BY <1>12, <2>1, <2>2
    <2>4. j \in fire
      <3>1. j \notin wb \cup issue
        BY <1>4, <2>3
      <3>2. j \notin accept
        BY <1>4, <2>3
      <3>3. ASSUME j \notin wb \cup fire \cup issue \cup accept PROVE FALSE
        <4>1. rob[j].stage = "store_wb"
          BY <1>4, <2>3, <3>3
        <4>2. store_wb = <<Tag(j)>>
          BY <4>1 DEF Linked
        <4>3. PICK x \in wb : store_wb = <<Tag(x)>> /\ x \in Positions
          BY <1>3, <4>2
        <4>4. Tag(x) = Tag(j)
          BY <4>2, <4>3
        <4>5. x = j
          BY <1>0, <1>2, <4>3, <4>4
        <4> QED BY <3>3, <4>5
      <3> QED BY <3>1, <3>2, <3>3
    <2>5. ~is_load(rob[j].op)
      BY <1>4, <2>3, <2>4
    <2> QED BY <2>1, <2>2, <2>4, <2>5
  <1>13. store_wb' = <<>> \/ \E i \in Positions' : store_wb' = <<Tag(i)'>> /\ rob'[i].stage = "store_wb"
    <2>1. CASE \A j \in fire : is_load(rob[j].op)
      BY <2>1, QueuesNext
    <2>2. CASE \E j \in fire : ~is_load(rob[j].op)
      <3>1. PICK j \in fire : ~is_load(rob[j].op)
        BY <2>2
      <3>2. j \in Positions /\ rob[j].stage # "complete" /\ New(j).stage = "store_wb"
        BY <1>3, <1>4, <3>1
      <3>3. PICK i \in Positions' : rob'[i] = New(j) /\ Tag(i)' = Tag(j)
        BY <1>6, <3>2
      <3>4. store_wb' = <<Tag(j)>>
        BY <3>1, QueuesNext
      <3> QED BY <3>2, <3>3, <3>4
    <2> QED BY <2>1, <2>2
  <1>14. ASSUME NEW i \in Positions', rob'[i].stage = "store_wb"
         PROVE  /\ store_wb' = <<Tag(i)'>> /\ ~is_load(rob'[i].op)
                /\ sq' = IF rob'[i].exc THEN <<>> ELSE <<SqEntry(i)'>>
    <2>1. PICK j \in fire : /\ j = i + k /\ ~is_load(rob[j].op) /\ rob'[i] = New(j) /\ Tag(i)' = Tag(j)
                            /\ j \in Positions
      BY <1>12, <1>14
    <2>2. store_wb' = <<Tag(j)>> /\ sq' = IF fault THEN <<>> ELSE <<SqEntry(j)>>
      BY <2>1, QueuesNext
    <2>3. /\ rob'[i].op = rob[j].op /\ rob'[i].word = rob[j].word /\ rob'[i].off = rob[j].off
          /\ rob'[i].id = rob[j].id /\ rob'[i].exc = fault
      BY <1>4, <2>1
    <2>4. SqEntry(i)' = SqEntry(j)
      BY <2>1, <2>3 DEF SqEntry, Touches, Size
    <2> QED BY <2>1, <2>2, <2>3, <2>4
  <1>15. store_wb' = <<>> => sq' = <<>>
    <2>1. CASE \A j \in fire : is_load(rob[j].op)
      BY <2>1, QueuesNext
    <2>2. CASE \E j \in fire : ~is_load(rob[j].op)
      <3>1. PICK j \in fire : ~is_load(rob[j].op)
        BY <2>2
      <3>2. store_wb' = <<Tag(j)>>
        BY <3>1, QueuesNext
      <3> QED BY <3>2
    <2> QED BY <2>1, <2>2
  <1>16. ASSUME NEW i \in Positions', rob'[i].stage \in InLane PROVE is_load(rob'[i].op)
    <2>1. i + k \in Positions /\ rob'[i] = New(i + k)
      BY <1>5, <1>16 DEF InLane
    <2>2. PICK j \in Positions : j = i + k
      BY <2>1
    <2>3. New(j).stage \in InLane /\ New(j).op = rob[j].op
      BY <1>4, <1>16, <2>1, <2>2
    <2>4. CASE j \in fire
      BY <1>4, <2>1, <2>2, <2>3, <2>4 DEF InLane
    <2>5. CASE j \in accept
      <3>1. rob[j].stage \in InLane
        BY <1>3, <2>5 DEF InLane
      <3>2. is_load(rob[j].op)
        BY <3>1 DEF Linked
      <3> QED BY <2>1, <2>2, <2>3, <3>2
    <2>6. CASE j \in wb \cup issue
      BY <1>4, <2>3, <2>6 DEF InLane
    <2>7. CASE j \notin wb \cup fire \cup issue \cup accept
      <3>1. rob[j].stage \in InLane
        BY <1>4, <2>3, <2>7
      <3>2. is_load(rob[j].op)
        BY <3>1 DEF Linked
      <3> QED BY <2>1, <2>2, <2>3, <3>2
    <2> QED BY <2>4, <2>5, <2>6, <2>7
  <1> QED BY <1>10, <1>11, <1>13, <1>14, <1>15, <1>16 DEF Linked, is_load, InLane

-----------------------------------------------------------------------------
(* Memory: the committed entries of the buffer and the retiring            *)
(* instructions as lists of writes.                                        *)

MemWrites == [i \in 1 .. SB_DEPTH |->
                [on |-> Nth(i - 1).committed /\ Nth(i - 1).op # "SC_FAIL", e |-> Nth(i - 1)]]
ArchWrites(k) == [i \in 1 .. k |->
                    [on |-> is_store(rob[i].op) /\ ~rob[i].sc_fail,
                     e |-> [op |-> rob[i].op, word |-> rob[i].word, off |-> rob[i].off, data |-> rob[i].id]]]

\* A recursion has one solution.
LEMMA RunUnique ==
    ASSUME NEW base, NEW ws, NEW D \in Nat, NEW f, RunOf(f, base, ws, D) PROVE f = Run(base, ws, D)
  <1> DEFINE g == Run(base, ws, D)
             S == {n \in Nat : n <= D => f[n] = g[n]}
  <1>1. RunOf(g, base, ws, D)
    BY RunExists DEF Run
  <1>2. g[0] = base /\ \A n \in 0 .. D - 1 : g[n + 1] = Apply(g[n], ws[n + 1])
    BY RunSteps
  <1> HIDE DEF g
  <1>3. 0 \in S
    <2>1. f[0] = base
      BY DEF RunOf
    <2> QED BY <1>2, <2>1
  <1>4. ASSUME NEW n \in Nat, n \in S PROVE n + 1 \in S
    <2> SUFFICES ASSUME n + 1 <= D PROVE f[n + 1] = g[n + 1]
      OBVIOUS
    <2>1. n + 1 \in 0 .. D /\ n + 1 # 0 /\ (n + 1) - 1 = n /\ n \in 0 .. D - 1 /\ n <= D
      OBVIOUS
    <2>2. f[n + 1] = Apply(f[n], ws[n + 1])
      BY <2>1 DEF RunOf
    <2> QED BY <1>2, <1>4, <2>1, <2>2
  <1> HIDE DEF S
  <1>5. Nat \subseteq S
    BY <1>3, <1>4, InductionOver
  <1>6. \A n \in 0 .. D : f[n] = g[n]
    BY <1>5 DEF S
  <1>7. f = [n \in 0 .. D |-> f[n]] /\ g = [n \in 0 .. D |-> g[n]]
    BY <1>1 DEF RunOf
  <1> QED BY <1>6, <1>7 DEF g

\* Memory with the committed entries written after it.
MemIsRun == MemoryIsArchitectural <=> Run(memory, MemWrites, SB_DEPTH)[SB_DEPTH] = arch

LEMMA MemoryRun == MemIsRun
  <1> DEFINE f[n \in 0 .. SB_DEPTH] ==
               IF n = 0 THEN memory
               ELSE LET e == sb.mem[SbSlot(sb.head, n - 1)]
                    IN  IF e.committed /\ e.op # "SC_FAIL" THEN Written(f[n - 1], e) ELSE f[n - 1]
             Body(g) == [n \in 0 .. SB_DEPTH |->
               IF n = 0 THEN memory
               ELSE LET e == sb.mem[SbSlot(sb.head, n - 1)]
                    IN  IF e.committed /\ e.op # "SC_FAIL" THEN Written(g[n - 1], e) ELSE g[n - 1]]
  <1>0. SB_DEPTH \in Nat
    BY SbAssumption
  <1>1. ASSUME NEW g PROVE g = Body(g) <=> RunOf(g, memory, MemWrites, SB_DEPTH)
    <2>1. ASSUME NEW n \in 0 .. SB_DEPTH
          PROVE  Body(g)[n] = IF n = 0 THEN memory ELSE Apply(g[n - 1], MemWrites[n])
      <3>1. CASE n = 0
        BY <3>1
      <3>2. CASE n # 0
        <4>1. n \in 1 .. SB_DEPTH
          BY <1>0, <3>2
        <4>2. PICK e : e = Nth(n - 1)
          OBVIOUS
        <4>3. MemWrites[n] = [on |-> e.committed /\ e.op # "SC_FAIL", e |-> e]
          BY <4>1, <4>2 DEF MemWrites
        <4>4. Apply(g[n - 1], MemWrites[n]) =
                IF e.committed /\ e.op # "SC_FAIL" THEN Written(g[n - 1], e) ELSE g[n - 1]
          <5>1. PICK z \in BOOLEAN : z = (e.committed /\ e.op # "SC_FAIL")
            OBVIOUS
          <5>2. PICK w : w = MemWrites[n]
            OBVIOUS
          <5>3. w.on = z /\ w.e = e
            BY <4>3, <5>1, <5>2
          <5>4. Apply(g[n - 1], w) = IF z THEN Written(g[n - 1], e) ELSE g[n - 1]
            BY <5>3 DEF Apply
          <5> QED BY <5>1, <5>2, <5>4
        <4>5. Body(g)[n] = IF e.committed /\ e.op # "SC_FAIL" THEN Written(g[n - 1], e) ELSE g[n - 1]
          BY <3>2, <4>2 DEF Nth
        <4> QED BY <3>2, <4>4, <4>5
      <3> QED BY <3>1, <3>2
    <2>2. Body(g) = [n \in 0 .. SB_DEPTH |-> Body(g)[n]]
      OBVIOUS
    <2>3. PICK b : b = Body(g)
      OBVIOUS
    <2> HIDE DEF Body
    <2>4. b = [n \in 0 .. SB_DEPTH |-> IF n = 0 THEN memory ELSE Apply(g[n - 1], MemWrites[n])]
      BY <2>1, <2>2, <2>3
    <2> QED BY <2>3, <2>4 DEF RunOf
  <1>2. f = CHOOSE g : g = Body(g)
    OBVIOUS
  <1>3. MemoryIsArchitectural <=> f[SB_DEPTH] = arch
    BY DEF MemoryIsArchitectural
  <1>4. \E g : RunOf(g, memory, MemWrites, SB_DEPTH)
    BY <1>0, RunExists
  <1> HIDE DEF f, Body
  <1>5. f = Body(f)
    BY <1>1, <1>2, <1>4
  <1>6. RunOf(f, memory, MemWrites, SB_DEPTH)
    BY <1>1, <1>5
  <1>7. f = Run(memory, MemWrites, SB_DEPTH)
    BY <1>0, <1>6, RunUnique
  <1> QED BY <1>3, <1>7 DEF MemIsRun

\* The same after a step.
LEMMA MemoryRunNext == MemIsRun'
  BY MemoryRun, PTL

\* Retirement writes the stores that retire, one after the other.
LEMMA ArchRun ==
    ASSUME NEW k \in Nat PROVE ArchAfter(k) = Run(arch, ArchWrites(k), k)[k]
  <1> DEFINE f[n \in 0 .. k] ==
               IF n = 0 THEN arch
               ELSE IF is_store(rob[n].op) /\ ~rob[n].sc_fail
               THEN Written(f[n - 1], [op |-> rob[n].op, word |-> rob[n].word, off |-> rob[n].off,
                                       data |-> rob[n].id])
               ELSE f[n - 1]
             Body(g) == [n \in 0 .. k |->
               IF n = 0 THEN arch
               ELSE IF is_store(rob[n].op) /\ ~rob[n].sc_fail
               THEN Written(g[n - 1], [op |-> rob[n].op, word |-> rob[n].word, off |-> rob[n].off,
                                       data |-> rob[n].id])
               ELSE g[n - 1]]
  <1>1. ASSUME NEW g PROVE g = Body(g) <=> RunOf(g, arch, ArchWrites(k), k)
    <2>1. ASSUME NEW n \in 0 .. k
          PROVE  Body(g)[n] = IF n = 0 THEN arch ELSE Apply(g[n - 1], ArchWrites(k)[n])
      <3>1. CASE n = 0
        BY <3>1
      <3>2. CASE n # 0
        <4>1. n \in 1 .. k
          BY <3>2
        <4>2. PICK e : e = [op |-> rob[n].op, word |-> rob[n].word, off |-> rob[n].off, data |-> rob[n].id]
          OBVIOUS
        <4>3. ArchWrites(k)[n] = [on |-> is_store(rob[n].op) /\ ~rob[n].sc_fail, e |-> e]
          BY <4>1, <4>2 DEF ArchWrites
        <4>4. Apply(g[n - 1], ArchWrites(k)[n]) =
                IF is_store(rob[n].op) /\ ~rob[n].sc_fail THEN Written(g[n - 1], e) ELSE g[n - 1]
          <5>1. PICK z \in BOOLEAN : z = (is_store(rob[n].op) /\ ~rob[n].sc_fail)
            OBVIOUS
          <5>2. PICK w : w = ArchWrites(k)[n]
            OBVIOUS
          <5>3. w.on = z /\ w.e = e
            BY <4>3, <5>1, <5>2
          <5>4. Apply(g[n - 1], w) = IF z THEN Written(g[n - 1], e) ELSE g[n - 1]
            BY <5>3 DEF Apply
          <5> QED BY <5>1, <5>2, <5>4
        <4>5. Body(g)[n] = IF is_store(rob[n].op) /\ ~rob[n].sc_fail THEN Written(g[n - 1], e) ELSE g[n - 1]
          BY <3>2, <4>2
        <4> QED BY <3>2, <4>4, <4>5
      <3> QED BY <3>1, <3>2
    <2>2. Body(g) = [n \in 0 .. k |-> Body(g)[n]]
      OBVIOUS
    <2>3. PICK b : b = Body(g)
      OBVIOUS
    <2> HIDE DEF Body
    <2>4. b = [n \in 0 .. k |-> IF n = 0 THEN arch ELSE Apply(g[n - 1], ArchWrites(k)[n])]
      BY <2>1, <2>2, <2>3
    <2> QED BY <2>3, <2>4 DEF RunOf
  <1>2. f = CHOOSE g : g = Body(g)
    OBVIOUS
  <1>3. ArchAfter(k) = f[k]
    BY DEF ArchAfter
  <1>4. \E g : RunOf(g, arch, ArchWrites(k), k)
    BY RunExists
  <1> HIDE DEF f, Body
  <1>5. f = Body(f)
    BY <1>1, <1>2, <1>4
  <1>6. RunOf(f, arch, ArchWrites(k), k)
    BY <1>1, <1>5
  <1>7. f = Run(arch, ArchWrites(k), k)
    BY <1>6, RunUnique
  <1> QED BY <1>3, <1>7

\* A store writes bytes to a word.
LEMMA WrittenTyped ==
    ASSUME NEW mem \in Image, NEW e, e.word \in Words, e.off \in Offsets, e.data \in 0 .. MaxOps
    PROVE  Written(mem, e) \in Image
  <1>1. BYTES \in Nat
    BY SbAssumption
  <1>2. PICK w \in Words : w = e.word
    OBVIOUS
  <1>3. ASSUME NEW b \in Offsets
        PROVE  (IF b \in Touches(e.op, e.off) THEN <<e.data, b - e.off>> ELSE mem[w][b]) \in Byte
    <2>1. CASE b \in Touches(e.op, e.off)
      <3>1. b >= e.off
        BY <2>1 DEF Touches
      <3>2. b - e.off \in Offsets
        BY <1>1, <3>1 DEF Offsets
      <3> QED BY <2>1, <3>2 DEF Byte
    <2>2. CASE b \notin Touches(e.op, e.off)
      BY <1>2, <2>2 DEF Image
    <2> QED BY <2>1, <2>2
  <1>4. PICK v : v = [b \in Offsets |-> IF b \in Touches(e.op, e.off) THEN <<e.data, b - e.off>> ELSE mem[w][b]]
    OBVIOUS
  <1>5. v \in [Offsets -> Byte]
    BY <1>3, <1>4
  <1>6. Written(mem, e) = [mem EXCEPT ![w] = v]
    BY <1>2, <1>4 DEF Written, Image
  <1> QED BY <1>5, <1>6 DEF Image

\* A step of memory: p committed entries reach it, the stores of the first k instructions commit,
\* and every other entry of the buffer stays what it is.
Drained(c, r, p, k) ==
    /\ p \in 0 .. 1 /\ p <= c /\ c \in Nat /\ r \in Nat /\ c + r <= SB_DEPTH
    /\ r = Count(StoresInFlight, k) /\ k \in 0 .. Len(rob)
    /\ \A i \in 1 .. k : rob[i].stage = "complete" /\ ~rob[i].exc
    /\ \A m \in 0 .. SB_DEPTH - 1 : m < c - p => Nth(m)' = Nth(m + p)
    /\ \A m \in 0 .. SB_DEPTH - 1 :
         c - p <= m /\ m < c + r - p => Nth(m)' = [Nth(m + p) EXCEPT !.committed = TRUE]
    /\ \A m \in 0 .. SB_DEPTH - 1 : c + r - p <= m => ~Nth(m)'.committed
    /\ memory' = Run(memory, MemWrites, SB_DEPTH)[p]
    /\ arch' = ArchAfter(k)

\* A write of the buffer and the write of the instruction it belongs to are the same.
LEMMA SameWrite ==
    ASSUME Typed, NEW i \in StoresInFlight, NEW e \in SbEntry, Holds(e, rob[i]), NEW mem,
           NEW w, w = [on |-> e.op # "SC_FAIL", e |-> [e EXCEPT !.committed = TRUE]],
           NEW v, v = [on |-> is_store(rob[i].op) /\ ~rob[i].sc_fail,
                       e |-> [op |-> rob[i].op, word |-> rob[i].word, off |-> rob[i].off, data |-> rob[i].id]]
    PROVE  Apply(mem, w) = Apply(mem, v)
  <1>0. i \in Positions /\ is_store(rob[i].op)
    BY DEF StoresInFlight
  <1>1. rob[i].sc_fail \in BOOLEAN /\ (rob[i].sc_fail => rob[i].op = "SC")
    BY <1>0, RobTyped DEF Typed
  <1>2. e.word = rob[i].word /\ e.off = rob[i].off /\ e.data = rob[i].id /\ e.op = BufferOp(rob[i])
    BY DEF Holds
  <1>3. rob[i].op \in {"SW", "SB", "SC", "AMO"}
    BY <1>0 DEF is_store
  <1>4. e.op # "SC_FAIL" <=> ~rob[i].sc_fail
    BY <1>1, <1>2, <1>3 DEF BufferOp
  <1>5. e.op \in ByteOps <=> rob[i].op \in ByteOps
    BY <1>2, <1>3 DEF BufferOp, ByteOps
  <1>6. PICK x : x = [e EXCEPT !.committed = TRUE]
    OBVIOUS
  <1>7. x.word = e.word /\ x.off = e.off /\ x.data = e.data /\ x.op = e.op
    BY <1>6 DEF SbEntry
  <1>8. PICK y : y = [op |-> rob[i].op, word |-> rob[i].word, off |-> rob[i].off, data |-> rob[i].id]
    OBVIOUS
  <1>9. y.word = x.word /\ y.off = x.off /\ y.data = x.data /\ y.op = rob[i].op
    BY <1>2, <1>7, <1>8
  <1>10. Size(x.op) = Size(y.op)
    BY <1>5, <1>7, <1>9 DEF Size
  <1>11. Touches(x.op, x.off) = Touches(y.op, y.off)
    BY <1>9, <1>10 DEF Touches
  <1>12. Written(mem, x) = Written(mem, y)
    BY <1>9, <1>11 DEF Written
  <1>13. PICK z \in BOOLEAN : z = ~rob[i].sc_fail
    OBVIOUS
  <1>14. w.on = z /\ w.e = x
    <2>1. PICK b \in BOOLEAN : b = (e.op # "SC_FAIL")
      OBVIOUS
    <2>2. w = [on |-> b, e |-> x]
      BY <1>6, <2>1
    <2> QED BY <1>4, <1>13, <2>1, <2>2
  <1>15. v.on = z /\ v.e = y
    <2>1. PICK b \in BOOLEAN : b = (is_store(rob[i].op) /\ ~rob[i].sc_fail)
      OBVIOUS
    <2>2. v = [on |-> b, e |-> y]
      BY <1>8, <2>1
    <2> QED BY <1>0, <1>13, <2>1, <2>2
  <1> QED BY <1>12, <1>14, <1>15 DEF Apply

\* Such a step keeps memory and the committed program in agreement.
LEMMA MemoryNext ==
    ASSUME Typed, Filled, MemoryIsArchitectural, NEW c, InOrder(c), NEW r, NEW p, NEW k, Drained(c, r, p, k)
    PROVE  MemoryIsArchitectural'
  <1> DEFINE F == StoresInFlight
             R == Run(memory, MemWrites, SB_DEPTH)
             Q == Run(arch, ArchWrites(k), k)
  <1>0. /\ SB_DEPTH \in Nat \ {0} /\ p \in 0 .. 1 /\ p <= c /\ c \in Nat /\ r \in Nat /\ c + r <= SB_DEPTH
        /\ k \in 0 .. Len(rob) /\ Len(rob) \in Nat /\ k \in Nat
    BY SbAssumption, PositionsAre DEF Drained
  <1>1. PICK ws2 : ws2 = MemWrites'
    OBVIOUS
  <1>2. ASSUME NEW i \in 1 .. SB_DEPTH, NEW m, m = i - 1
        PROVE  ws2[i] = [on |-> Nth(m)'.committed /\ Nth(m)'.op # "SC_FAIL", e |-> Nth(m)']
    BY <1>1, <1>2 DEF MemWrites, Nth
  <1>3. ASSUME NEW i \in 1 .. SB_DEPTH
        PROVE  MemWrites[i] = [on |-> Nth(i - 1).committed /\ Nth(i - 1).op # "SC_FAIL", e |-> Nth(i - 1)]
    BY DEF MemWrites
  <1>4. PICK a \in 0 .. SB_DEPTH : a = c - p
    BY <1>0
  <1>5. PICK ws : ws = MemWrites
    OBVIOUS
  <1>6. \A i \in 1 .. a : ws2[i] = ws[i + p]
    <2> SUFFICES ASSUME NEW i \in 1 .. a PROVE ws2[i] = ws[i + p]
      OBVIOUS
    <2>1. i \in 1 .. SB_DEPTH /\ i + p \in 1 .. SB_DEPTH /\ i - 1 \in 0 .. SB_DEPTH - 1
      BY <1>0, <1>4
    <2>2. PICK m \in 0 .. SB_DEPTH - 1 : m = i - 1
      BY <2>1
    <2>3. m + p = (i + p) - 1 /\ m < c - p
      BY <1>0, <1>4, <2>2
    <2>4. Nth(m)' = Nth(m + p)
      BY <2>3 DEF Drained
    <2>5. ws2[i] = [on |-> Nth(m)'.committed /\ Nth(m)'.op # "SC_FAIL", e |-> Nth(m)']
      BY <1>2, <2>1, <2>2
    <2>6. ws[i + p] = [on |-> Nth((i + p) - 1).committed /\ Nth((i + p) - 1).op # "SC_FAIL", e |-> Nth((i + p) - 1)]
      BY <1>3, <1>5, <2>1
    <2>7. PICK x : x = Nth(m + p)
      OBVIOUS
    <2>8. ws2[i] = [on |-> x.committed /\ x.op # "SC_FAIL", e |-> x]
      BY <2>4, <2>5, <2>7
    <2>9. ws[i + p] = [on |-> x.committed /\ x.op # "SC_FAIL", e |-> x]
      BY <2>3, <2>6, <2>7
    <2> QED BY <2>8, <2>9
  <1>7. PICK base2 : base2 = memory' /\ base2 = R[p]
    BY DEF Drained
  <1>8. PICK base : base = memory
    OBVIOUS
  <1>9. R = Run(base, ws, SB_DEPTH)
    BY <1>5, <1>8
  <1> DEFINE R2 == Run(base2, ws2, SB_DEPTH)
  <1>10. R2[a] = R[c]
    <2>1. p \in 0 .. SB_DEPTH /\ a + p <= SB_DEPTH /\ a + p = c
      BY <1>0, <1>4
    <2>2. base2 = Run(base, ws, SB_DEPTH)[p]
      BY <1>7, <1>9
    <2>3. Run(base2, ws2, SB_DEPTH)[a] = Run(base, ws, SB_DEPTH)[a + p]
      BY <1>0, <1>6, <2>1, <2>2, RunMoved
    <2> QED BY <1>9, <2>1, <2>3
  <1>11. R[SB_DEPTH] = R[c]
    <2>1. \A i \in c + 1 .. SB_DEPTH : ~ws[i].on
      <3> SUFFICES ASSUME NEW i \in c + 1 .. SB_DEPTH PROVE ~ws[i].on
        OBVIOUS
      <3>1. i \in 1 .. SB_DEPTH /\ i - 1 \in 0 .. SB_DEPTH - 1 /\ ~(i - 1 < c)
        BY <1>0
      <3>2. ~Nth(i - 1).committed
        BY <3>1 DEF InOrder
      <3>3. PICK z \in BOOLEAN : z = (Nth(i - 1).committed /\ Nth(i - 1).op # "SC_FAIL")
        OBVIOUS
      <3>4. ws[i] = [on |-> z, e |-> Nth(i - 1)]
        BY <1>3, <1>5, <3>1, <3>3
      <3>5. z = FALSE
        BY <3>2, <3>3
      <3>6. ws[i].on = z
        BY <3>4
      <3> QED BY <3>5, <3>6
    <2>2. c \in 0 .. SB_DEPTH
      BY <1>0
    <2>3. Run(base, ws, SB_DEPTH)[SB_DEPTH] = Run(base, ws, SB_DEPTH)[c]
      BY <1>0, <2>1, <2>2, RunOff
    <2> QED BY <1>9, <2>3
  <1>12. R[SB_DEPTH] = arch
    BY MemoryRun DEF MemIsRun
  <1>13. R2[a] = arch
    BY <1>10, <1>11, <1>12
  <1>14. F \subseteq Nat \ {0} /\ F \subseteq Positions /\ Positions = 1 .. Len(rob)
    BY FlightIs, PositionsAre
  <1>15. \A x \in Nat : Count(F, x) \in Nat
    BY <1>14, CountSteps
  <1>r. r = Count(F, k)
    BY DEF Drained
  <1> DEFINE S == {n \in Nat : n <= k => R2[a + Count(F, n)] = Q[n]}
  <1>16. 0 \in S
    <2>1. Count(F, 0) = 0
      BY <1>14, CountSteps
    <2>2. Q[0] = arch
      BY <1>0, RunSteps
    <2>3. a + 0 = a
      BY <1>4
    <2> QED BY <1>13, <2>1, <2>2, <2>3
  <1> HIDE DEF R2, R, Q
  <1>17. ASSUME NEW n \in Nat, n \in S PROVE n + 1 \in S
    <2> SUFFICES ASSUME n + 1 <= k PROVE R2[a + Count(F, n + 1)] = Q[n + 1]
      OBVIOUS
    <2>1. n \in 0 .. k - 1 /\ n + 1 \in 1 .. k /\ n <= k
      BY <1>0
    <2>2. R2[a + Count(F, n)] = Q[n]
      BY <1>17, <2>1
    <2>3. Q[n + 1] = Apply(Q[n], ArchWrites(k)[n + 1])
      BY <1>0, <2>1, RunSteps DEF Q
    <2>4. Count(F, n + 1) = IF n + 1 \in F THEN Count(F, n) + 1 ELSE Count(F, n)
      BY <1>14, CountSteps
    <2>5. ArchWrites(k)[n + 1] =
             [on |-> is_store(rob[n + 1].op) /\ ~rob[n + 1].sc_fail,
              e |-> [op |-> rob[n + 1].op, word |-> rob[n + 1].word, off |-> rob[n + 1].off, data |-> rob[n + 1].id]]
      BY <2>1 DEF ArchWrites
    <2>6. n + 1 \in Positions
      BY <1>0, <1>14, <2>1
    <2>7. CASE n + 1 \notin F
      <3>1. ~is_store(rob[n + 1].op)
        BY <2>6, <2>7 DEF StoresInFlight
      <3>2. ~ArchWrites(k)[n + 1].on
        <4>1. PICK z \in BOOLEAN : z = (is_store(rob[n + 1].op) /\ ~rob[n + 1].sc_fail)
          OBVIOUS
        <4>2. PICK y : y = [op |-> rob[n + 1].op, word |-> rob[n + 1].word, off |-> rob[n + 1].off, data |-> rob[n + 1].id]
          OBVIOUS
        <4>3. ArchWrites(k)[n + 1] = [on |-> z, e |-> y]
          BY <2>5, <4>1, <4>2
        <4>4. z = FALSE
          BY <3>1, <4>1
        <4>5. ArchWrites(k)[n + 1].on = z
          BY <4>3
        <4> QED BY <4>4, <4>5
      <3> QED BY <2>2, <2>3, <2>4, <2>7, <3>2 DEF Apply
    <2>8. CASE n + 1 \in F
      <3>1. PICK q \in Nat : q = Count(F, n)
        BY <1>15
      <3>2. q + 1 <= r
        <4>1. Count(F, n + 1) <= Count(F, k)
          <5>1. n + 1 \in Nat /\ n + 1 <= k
            BY <2>1
          <5> HIDE DEF F
          <5> QED BY <1>0, <1>14, <5>1, CountGrows
        <4> QED BY <1>r, <2>4, <2>8, <3>1, <4>1
      <3>3. PICK x \in 0 .. SB_DEPTH - 1 : x = a + q
        BY <1>0, <1>4, <3>1, <3>2
      <3>4. PICK z \in 0 .. SB_DEPTH - 1 : z = c + q
        BY <1>0, <3>1, <3>2
      <3>5. x + p = z /\ c - p <= x /\ x < c + r - p /\ c <= z /\ z < c + r
        BY <1>0, <1>4, <3>2, <3>3, <3>4
      <3>6. Nth(x)' = [Nth(z) EXCEPT !.committed = TRUE]
        BY <3>5 DEF Drained
      <3>7. Holds(Nth(z), rob[n + 1])
        <4>1. c = NumCommitted
          BY InOrderIs
        <4>2. Own(n + 1) = Nth(z)
          <5>1. (n + 1) - 1 = n
            OBVIOUS
          <5> QED BY <3>1, <3>4, <4>1, <5>1 DEF Own
        <4>3. Executed(n + 1)
          BY <2>1 DEF Executed, Drained
        <4> QED BY <2>8, <4>2, <4>3 DEF Filled
      <3>8. PICK e \in SbEntry : e = Nth(z)
        <4>1. z \in Int
          BY <1>0
        <4> QED BY <4>1, NthTyped
      <3>9. PICK g : g = [e EXCEPT !.committed = TRUE]
        OBVIOUS
      <3>10. g.committed = TRUE /\ g.op = e.op
        BY <3>8, <3>9 DEF SbEntry
      <3>11. x + 1 \in 1 .. SB_DEPTH /\ x = (x + 1) - 1
        BY <1>0
      <3>12. ws2[x + 1] = [on |-> Nth(x)'.committed /\ Nth(x)'.op # "SC_FAIL", e |-> Nth(x)']
        BY <1>2, <3>11
      <3>13. Nth(x)' = g
        BY <3>6, <3>8, <3>9
      <3>14. ws2[x + 1] = [on |-> e.op # "SC_FAIL", e |-> g]
        BY <3>10, <3>12, <3>13
      <3>15. PICK w : w = ws2[x + 1]
        OBVIOUS
      <3>16. PICK v : v = ArchWrites(k)[n + 1]
        OBVIOUS
      <3>17. Apply(Q[n], w) = Apply(Q[n], v)
        BY <2>5, <2>8, <3>7, <3>8, <3>9, <3>14, <3>15, <3>16, SameWrite
      <3>18. R2[x + 1] = Apply(R2[x], ws2[x + 1])
        BY <1>0, RunSteps DEF R2
      <3>19. a + Count(F, n + 1) = x + 1
        BY <1>4, <2>4, <2>8, <3>1, <3>3
      <3> QED BY <2>2, <2>3, <3>1, <3>3, <3>15, <3>16, <3>17, <3>18, <3>19
    <2> QED BY <2>7, <2>8
  <1> HIDE DEF S
  <1>18. Nat \subseteq S
    BY <1>16, <1>17, InductionOver
  <1>19. R2[a + r] = Q[k]
    BY <1>0, <1>18, <1>r DEF S
  <1>20. arch' = Q[k]
    BY <1>0, ArchRun DEF Drained, Q
  <1>21. R2[SB_DEPTH] = R2[a + r]
    <2>1. PICK b \in 0 .. SB_DEPTH : b = a + r
      BY <1>0, <1>4
    <2>2. \A i \in b + 1 .. SB_DEPTH : ~ws2[i].on
      <3> SUFFICES ASSUME NEW i \in b + 1 .. SB_DEPTH PROVE ~ws2[i].on
        OBVIOUS
      <3>1. i \in 1 .. SB_DEPTH
        BY <1>0
      <3>2. PICK m \in 0 .. SB_DEPTH - 1 : m = i - 1
        BY <1>0
      <3>3. c + r - p <= m
        BY <1>0, <1>4, <2>1, <3>2
      <3>4. ~Nth(m)'.committed
        BY <3>3 DEF Drained
      <3>5. PICK z \in BOOLEAN : z = (Nth(m)'.committed /\ Nth(m)'.op # "SC_FAIL")
        OBVIOUS
      <3>6. ws2[i] = [on |-> z, e |-> Nth(m)']
        BY <1>2, <3>1, <3>2, <3>5
      <3>7. z = FALSE
        BY <3>4, <3>5
      <3>8. ws2[i].on = z
        BY <3>6
      <3> QED BY <3>7, <3>8
    <2>3. Run(base2, ws2, SB_DEPTH)[SB_DEPTH] = Run(base2, ws2, SB_DEPTH)[b]
      BY <1>0, <2>2, RunOff
    <2> QED BY <2>1, <2>3 DEF R2
  <1>22. Run(memory', MemWrites', SB_DEPTH)[SB_DEPTH] = arch'
    BY <1>1, <1>7, <1>19, <1>20, <1>21 DEF R2
  <1>23. MemoryIsArchitectural' <=> Run(memory', MemWrites', SB_DEPTH)[SB_DEPTH] = arch'
    BY MemoryRunNext DEF MemIsRun, Run, RunOf
  <1> QED BY <1>22, <1>23

\* Retirement leaves a memory.
LEMMA ArchTyped ==
    ASSUME Typed, NEW k \in 0 .. Len(rob) PROVE ArchAfter(k) \in Image
  <1> DEFINE Q == Run(arch, ArchWrites(k), k)
             S == {n \in Nat : n <= k => Q[n] \in Image}
  <1>0. Len(rob) \in Nat /\ k \in Nat /\ Positions = 1 .. Len(rob)
    BY PositionsAre
  <1>1. Q[0] = arch /\ \A n \in 0 .. k - 1 : Q[n + 1] = Apply(Q[n], ArchWrites(k)[n + 1])
    BY <1>0, RunSteps
  <1>2. ArchAfter(k) = Q[k]
    BY <1>0, ArchRun
  <1> HIDE DEF Q
  <1>3. 0 \in S
    BY <1>1 DEF Typed
  <1>4. ASSUME NEW n \in Nat, n \in S PROVE n + 1 \in S
    <2> SUFFICES ASSUME n + 1 <= k PROVE Q[n + 1] \in Image
      OBVIOUS
    <2>1. n \in 0 .. k - 1 /\ n + 1 \in 1 .. k /\ n <= k /\ n + 1 \in Positions
      BY <1>0
    <2>2. Q[n + 1] = Apply(Q[n], ArchWrites(k)[n + 1]) /\ Q[n] \in Image
      BY <1>1, <1>4, <2>1
    <2>3. PICK y : y = [op |-> rob[n + 1].op, word |-> rob[n + 1].word, off |-> rob[n + 1].off, data |-> rob[n + 1].id]
      OBVIOUS
    <2>4. ArchWrites(k)[n + 1].e = y
      BY <2>1, <2>3 DEF ArchWrites
    <2>5. rob[n + 1].word \in Words /\ rob[n + 1].off \in Offsets /\ rob[n + 1].id \in 0 .. MaxOps
      BY <2>1, RobTyped
    <2>6. y.word \in Words /\ y.off \in Offsets /\ y.data \in 0 .. MaxOps
      BY <2>3, <2>5
    <2>7. Written(Q[n], y) \in Image
      BY <2>2, <2>6, WrittenTyped
    <2> QED BY <2>2, <2>4, <2>7 DEF Apply
  <1> HIDE DEF S
  <1>5. Nat \subseteq S
    BY <1>3, <1>4, InductionOver
  <1> QED BY <1>0, <1>2, <1>5 DEF S

\* The cache takes the entry at the head exactly when it leaves the buffer, unless it is a failed SC.
LEMMA HeadWritten ==
    ASSUME Typed, NEW ready, NEW p, p = IF wb_fire(sb, ready) THEN 1 ELSE 0,
           memory' = IF dcache_req_valid(sb) /\ ready THEN Written(memory, AtHead(sb)) ELSE memory
    PROVE  memory' = Run(memory, MemWrites, SB_DEPTH)[p] /\ memory' \in Image
  <1> DEFINE R == Run(memory, MemWrites, SB_DEPTH)
  <1>0. SB_DEPTH \in Nat \ {0} /\ sb.head \in SbId /\ 0 \in 0 .. SB_DEPTH - 1 /\ 1 \in 1 .. SB_DEPTH
    BY SbAssumption DEF Typed, Buffer
  <1>1. R[0] = memory /\ R[0 + 1] = Apply(R[0], MemWrites[0 + 1])
    BY <1>0, RunSteps
  <1>2. AtHead(sb) = Nth(0)
    BY <1>0, SbRing DEF AtHead, Nth
  <1>3. PICK e \in SbEntry : e = Nth(0)
    BY NthTyped
  <1>4. PICK z \in BOOLEAN : z = (e.committed /\ e.op # "SC_FAIL")
    OBVIOUS
  <1>5. MemWrites[1].on = z /\ MemWrites[1].e = e
    <2>1. 1 - 1 = 0
      OBVIOUS
    <2>2. MemWrites[1] = [on |-> z, e |-> e]
      BY <1>0, <1>3, <1>4, <2>1 DEF MemWrites
    <2> QED BY <2>2
  <1> HIDE DEF R
  <1>6. R[1] = IF z THEN Written(memory, e) ELSE memory
    BY <1>1, <1>5 DEF Apply
  <1>7. Written(memory, e) \in Image
    BY <1>3, WrittenTyped DEF Typed, SbEntry
  <1>8. memory' \in Image
    BY <1>2, <1>3, <1>7 DEF Typed
  <1>9. CASE wb_fire(sb, ready)
    <2>1. e.committed /\ (ready \/ e.op = "SC_FAIL") /\ e.valid /\ e.ready
      BY <1>2, <1>3, <1>9 DEF wb_fire, Drainable, is_dummy_store
    <2>2. dcache_req_valid(sb) /\ ready <=> e.op # "SC_FAIL" 
      BY <1>2, <1>3, <2>1 DEF dcache_req_valid, Drainable, is_dummy_store
    <2>3. z <=> e.op # "SC_FAIL"
      BY <1>4, <2>1
    <2> QED BY <1>2, <1>3, <1>6, <1>8, <1>9, <2>2, <2>3 DEF R
  <1>10. CASE ~wb_fire(sb, ready)
    <2>1. ~(dcache_req_valid(sb) /\ ready)
      BY <1>10 DEF wb_fire, dcache_req_valid
    <2> QED BY <1>1, <1>8, <1>10, <2>1 DEF R
  <1> QED BY <1>9, <1>10

LEMMA StepDrained ==
    ASSUME Typed, Linked, Filled, NEW bundle, NEW issue, NEW fire, NEW fault, NEW accept, NEW wb, NEW k, NEW ready,
           Step(bundle, issue, fire, fault, accept, wb, k, ready),
           NEW c, InOrder(c), NEW r, NEW n, NEW p, NEW ex,
           Parts(c, r, n, p, ex, bundle, fire, fault, wb, k, ready)
    PROVE  Drained(c, r, p, k) /\ memory' \in Image /\ arch' \in Image
  <1>0. /\ r \in Nat /\ n \in Nat /\ p \in 0 .. 1 /\ p <= c
        /\ c + r <= sb.count /\ sb.count + n <= SB_DEPTH
    BY BufferNext DEF Buffered
  <1>1. SB_DEPTH \in Nat \ {0} /\ c \in Nat /\ sb.count \in Nat /\ sb.head \in SbId
    BY SbAssumption DEF InOrder, Typed, Buffer
  <1>c. Chosen(bundle, issue, fire, fault, accept, wb, k)
    BY DEF Step
  <1>r. r = Count(StoresInFlight, k)
    BY DEF Parts
  <1>2. k \in 0 .. Len(rob) /\ \A i \in 1 .. k : rob[i].stage = "complete" /\ ~rob[i].exc
    BY <1>c, ChosenAre, PositionsAre
  <1>3. PICK W \in SUBSET StoresInFlight : W = Writers(fire, fault, wb)
    BY <1>c, WritersAre
  <1>4. /\ ex = {ExWrite(i) : i \in W} /\ \A i \in W : StoreOp(i) \in SbOps
        /\ \A i \in W : rob[i].stage # "complete"
    BY <1>c, <1>3, WritersAre DEF Parts
  <1>5. ASSUME NEW m \in 0 .. SB_DEPTH - 1
        PROVE  Nth(m)' = IF m + p = SB_DEPTH THEN Free
                         ELSE IF sb.count <= m + p /\ m + p < sb.count + n THEN Allocated
                         ELSE IF c <= m + p /\ m + p < c + r
                         THEN [Fill(sb, SbSlot(sb.head, m + p), ex) EXCEPT !.committed = TRUE]
                         ELSE Fill(sb, SbSlot(sb.head, m + p), ex)
    BY BufferNext DEF Buffered
  <1>6. ASSUME NEW m \in 0 .. SB_DEPTH - 1, m < c - p PROVE Nth(m)' = Nth(m + p)
    <2>1. PICK j \in 0 .. SB_DEPTH - 1 : j = m + p /\ j < c
      BY <1>0, <1>1, <1>6
    <2>2. ~(j = SB_DEPTH) /\ ~(sb.count <= j /\ j < sb.count + n) /\ ~(c <= j /\ j < c + r)
      BY <1>0, <1>1, <2>1
    <2>3. Nth(m)' = Fill(sb, SbSlot(sb.head, j), ex)
      BY <1>5, <2>1, <2>2
    <2>4. Fill(sb, SbSlot(sb.head, j), ex) = Nth(j)
      BY <1>4, <2>1, FillIs
    <2> QED BY <2>1, <2>3, <2>4
  <1>7. ASSUME NEW m \in 0 .. SB_DEPTH - 1, c - p <= m /\ m < c + r - p
        PROVE  Nth(m)' = [Nth(m + p) EXCEPT !.committed = TRUE]
    <2>1. PICK j \in 0 .. SB_DEPTH - 1 : j = m + p /\ c <= j /\ j < c + r
      BY <1>0, <1>1, <1>7
    <2>2. ~(j = SB_DEPTH) /\ ~(sb.count <= j /\ j < sb.count + n)
      BY <1>0, <1>1, <2>1
    <2>3. Nth(m)' = [Fill(sb, SbSlot(sb.head, j), ex) EXCEPT !.committed = TRUE]
      BY <1>5, <2>1, <2>2
    <2>4. Fill(sb, SbSlot(sb.head, j), ex) = Nth(j)
      <3>1. j < c + Count(StoresInFlight, k)
        BY <1>r, <2>1
      <3>2. PICK i \in StoresInFlight : i <= k /\ rob[i].sb = SbSlot(sb.head, j)
        BY <1>2, <2>1, <3>1, RetiringReady
      <3>3. i \in 1 .. k
        <4>1. i \in Nat \ {0}
          BY FlightIs
        <4> QED BY <1>2, <3>2, <4>1
      <3>4. i \notin W
        BY <1>2, <1>4, <3>3
      <3>5. Fill(sb, rob[i].sb, ex) = sb.mem[rob[i].sb]
        BY <1>4, <3>4, FillIs
      <3> QED BY <3>2, <3>5 DEF Nth
    <2> QED BY <2>1, <2>3, <2>4
  <1>8. ASSUME NEW m \in 0 .. SB_DEPTH - 1, c + r - p <= m PROVE ~Nth(m)'.committed
    <2>1. Nth(m)'.committed <=> m < c + r - p
      BY EntriesNext
    <2> QED BY <1>0, <1>1, <1>8, <2>1
  <1>9. memory' = Run(memory, MemWrites, SB_DEPTH)[p] /\ memory' \in Image
    <2>1. memory' = IF dcache_req_valid(sb) /\ ready THEN Written(memory, AtHead(sb)) ELSE memory
      BY DEF Step, Cycle
    <2>2. p = IF wb_fire(sb, ready) THEN 1 ELSE 0
      BY DEF Parts
    <2> QED BY <2>1, <2>2, HeadWritten
  <1>10. arch' = ArchAfter(k)
    BY DEF Step, Cycle
  <1>11. arch' \in Image
    BY <1>2, <1>10, ArchTyped
  <1>12. c + r <= SB_DEPTH
    BY <1>0, <1>1
  <1> QED BY <1>0, <1>1, <1>r, <1>2, <1>6, <1>7, <1>8, <1>9, <1>10, <1>11, <1>12 DEF Drained

\* The number of committed entries is what the buffer's order says.
Ordered == Typed => \A c : InOrder(c) => StoresInOrder /\ c = NumCommitted

LEMMA OrderedNow == Ordered
  BY InOrderIs DEF Ordered

LEMMA OrderedNext == Ordered'
  BY OrderedNow, PTL

\* A clock cycle preserves the invariant.
LEMMA StepKeeps ==
    ASSUME LsInv, NEW bundle, NEW issue, NEW fire, NEW fault, NEW accept, NEW wb, NEW k, NEW ready,
           Step(bundle, issue, fire, fault, accept, wb, k, ready)
    PROVE  LsInv'
  <1>0. Typed /\ Linked /\ StoresInOrder /\ Filled /\ MemoryIsArchitectural
    BY DEF LsInv
  <1>1. PICK c : InOrder(c)
    BY <1>0, InOrderIs
  <1>2. PICK r : r = Count(StoresInFlight, k)
    OBVIOUS
  <1>3. PICK n : n = StoreCount(bundle)
    OBVIOUS
  <1>4. PICK p : p = IF wb_fire(sb, ready) THEN 1 ELSE 0
    OBVIOUS
  <1>5. PICK ex : ex = {ExWrite(i) : i \in Writers(fire, fault, wb)}
    OBVIOUS
  <1>6. Parts(c, r, n, p, ex, bundle, fire, fault, wb, k, ready)
    BY <1>2, <1>3, <1>4, <1>5 DEF Parts
  <1>7. PICK d : d = c + r - p
    OBVIOUS
  <1>8. Drained(c, r, p, k) /\ memory' \in Image /\ arch' \in Image
    BY <1>0, <1>1, <1>6, StepDrained
  <1>9. sb' \in Buffer
    BY <1>0, <1>1, <1>6, BufferTyped
  <1>10. Typed'
    <2>1. /\ rob' \in Seq(RobEntry) /\ Len(rob') <= ROB_DEPTH /\ rob_head' \in RobTags
          /\ \A i \in Positions' : rob'[i].op \in ByteOps \/ rob'[i].off = 0
          /\ \A i \in Positions' : rob'[i].sc_fail => rob'[i].op = "SC"
          /\ res' = {} \/ \E w \in Words : res' = {w}
          /\ xlate' \in Translation
          /\ dispatched' \in 0 .. MaxOps
      BY <1>0, StepTyped
    <2> QED BY <1>8, <1>9, <2>1 DEF Typed, Buffer, SbEntry, RobEntry, Image, Byte, Vals
  <1>11. InOrder(d)'
    BY <1>0, <1>1, <1>6, <1>7, InOrderNext
  <1>12. StoresInOrder' /\ d = NumCommitted'
    BY <1>10, <1>11, OrderedNext DEF Ordered
  <1>13. Filled'
    BY <1>0, <1>1, <1>6, <1>7, <1>12, FilledNext
  <1>14. Linked'
    BY <1>0, LinkedNext
  <1>15. MemoryIsArchitectural'
    BY <1>0, <1>1, <1>8, MemoryNext
  <1> QED BY <1>10, <1>12, <1>13, <1>14, <1>15 DEF LsInv

-----------------------------------------------------------------------------
(* A flush.                                                                *)

LEMMA EmptyWindow ==
    ASSUME rob' = <<>>
    PROVE  Positions' = {} /\ StoresInFlight' = {} /\ Len(rob') = 0 /\ Count(StoresInFlight', Len(rob')) = 0
  <1>1. Len(rob') = 0 /\ 1 .. 0 = {}
    OBVIOUS
  <1>2. Positions' = {}
    BY <1>1 DEF Positions
  <1>3. StoresInFlight' = {}
    BY <1>2 DEF StoresInFlight
  <1>4. UpTo({}, 0) = {}
    BY DEF UpTo
  <1> QED BY <1>1, <1>2, <1>3, <1>4, FS_EmptySet DEF Count

\* What a flush keeps of the buffer: the committed entries and the ones that commit with it.
LEMMA FlushedIs ==
    ASSUME Typed, Filled, NEW k \in RetireChoices, Flush(k), NEW c, InOrder(c), NEW r, r = Count(StoresInFlight, k)
    PROVE  /\ c + r \in 0 .. SB_DEPTH /\ r \in Nat /\ c \in Nat
           /\ sb'.head = sb.head /\ sb'.count = c + r /\ sb'.tail = SbSlot(sb'.head, sb'.count)
           /\ \A m \in 0 .. SB_DEPTH - 1 :
                Nth(m)' = IF m < c + r THEN [Nth(m) EXCEPT !.committed = TRUE] ELSE Free
  <1>0. SB_DEPTH \in Nat \ {0} /\ c \in Nat /\ sb.count \in 0 .. SB_DEPTH /\ sb \in Buffer
    BY SbAssumption DEF InOrder, Typed, Buffer
  <1>1. k \in 0 .. Len(rob) /\ \A i \in 1 .. k : rob[i].stage = "complete" /\ ~rob[i].exc
    BY ChosenRetire, PositionsAre
  <1>2. r \in Nat /\ c + r <= sb.count
    BY <1>1, OwnEntries
  <1>3. PICK d \in 0 .. SB_DEPTH : d = c + r
    BY <1>0, <1>2
  <1>4. PICK done : done = Retired(k)
    OBVIOUS
  <1>5. PICK b \in Buffer : b = sb
    BY <1>0
  <1>6. ASSUME NEW m \in 0 .. SB_DEPTH - 1 PROVE Survives(b, SbSlot(b.head, m), done) <=> m < d
    <2>1. /\ Nth(m).valid <=> m < sb.count
          /\ Nth(m).committed <=> m < c
      BY DEF InOrder
    <2>2. SbSlot(sb.head, m) \in done <=> c <= m /\ m < d
      BY <1>1, <1>3, <1>4, RetiredIs
    <2>3. Survives(b, SbSlot(b.head, m), done) <=> m < sb.count /\ (m < c \/ (c <= m /\ m < d))
      BY <1>5, <2>1, <2>2 DEF Survives, Nth
    <2> QED BY <1>0, <1>2, <1>3, <2>3
  <1>7. PICK q : q = Flushed(b, done) /\ q = sb'
    BY <1>4, <1>5 DEF Flush
  <1>8. /\ q.head = b.head /\ q.count = d /\ q.tail = SbSlot(b.head, d)
        /\ \A m \in 0 .. SB_DEPTH - 1 :
             q.mem[SbSlot(b.head, m)] = IF m < d THEN [b.mem[SbSlot(b.head, m)] EXCEPT !.committed = TRUE] ELSE Free
    <2>1. \A m \in 0 .. SB_DEPTH - 1 : Survives(b, SbSlot(b.head, m), done) <=> m < d
      BY <1>6
    <2>2. /\ Flushed(b, done).head = b.head /\ Flushed(b, done).count = d
          /\ Flushed(b, done).tail = SbSlot(b.head, d)
          /\ \A m \in 0 .. SB_DEPTH - 1 :
                Flushed(b, done).mem[SbSlot(b.head, m)] =
                  IF m < d THEN [b.mem[SbSlot(b.head, m)] EXCEPT !.committed = TRUE] ELSE Free
      BY <2>1, FlushEntries
    <2> QED BY <1>7, <2>2
  <1>9. ASSUME NEW m \in 0 .. SB_DEPTH - 1
        PROVE  Nth(m)' = IF m < d THEN [Nth(m) EXCEPT !.committed = TRUE] ELSE Free
    BY <1>5, <1>7, <1>8 DEF Nth
  <1> QED BY <1>0, <1>2, <1>3, <1>5, <1>7, <1>8, <1>9

LEMMA FreeTyped == Free \in SbEntry /\ ~Free.committed /\ ~Free.valid
  <1>1. 0 \in Offsets /\ 0 \in RobTags /\ 0 \in 0 .. MaxOps /\ "LW" \in SbOps /\ 0 \in Words
    BY SbAssumption, LsAssumption DEF Offsets, RobTags, SbOps
  <1> QED BY <1>1 DEF Free, SbEntry

LEMMA FlushKeeps ==
    ASSUME LsInv, NEW k \in RetireChoices, Flush(k) PROVE LsInv'
  <1>0. Typed /\ Linked /\ StoresInOrder /\ Filled /\ MemoryIsArchitectural
    BY DEF LsInv
  <1>1. PICK c : InOrder(c)
    BY <1>0, InOrderIs
  <1>2. PICK r : r = Count(StoresInFlight, k)
    OBVIOUS
  <1>3. PICK d : d = c + r
    OBVIOUS
  <1>4. /\ d \in 0 .. SB_DEPTH /\ r \in Nat /\ c \in Nat
        /\ sb'.head = sb.head /\ sb'.count = d /\ sb'.tail = SbSlot(sb'.head, sb'.count)
        /\ \A m \in 0 .. SB_DEPTH - 1 :
             Nth(m)' = IF m < d THEN [Nth(m) EXCEPT !.committed = TRUE] ELSE Free
    BY <1>0, <1>1, <1>2, <1>3, FlushedIs
  <1>5. SB_DEPTH \in Nat \ {0} /\ sb.head \in SbId
    BY <1>0, SbAssumption DEF Typed, Buffer
  <1>6. k \in 0 .. Len(rob) /\ \A i \in 1 .. k : rob[i].stage = "complete" /\ ~rob[i].exc
    BY <1>0, ChosenRetire, PositionsAre
  <1>7. c + r <= sb.count
    BY <1>0, <1>1, <1>2, <1>6, OwnEntries
  <1>8. ASSUME NEW m \in 0 .. SB_DEPTH - 1
        PROVE  /\ Nth(m)' \in SbEntry
               /\ Nth(m)'.committed <=> m < d
               /\ Nth(m)'.valid <=> m < d
               /\ m < d => Nth(m)'.ready
    <2>1. PICK e \in SbEntry : e = Nth(m)
      <3>1. m \in Int
        BY <1>5
      <3> QED BY <1>0, <3>1, NthTyped
    <2>2. /\ e.valid <=> m < sb.count
          /\ e.committed <=> m < c
          /\ m < c => e.ready
      BY <1>1, <2>1 DEF InOrder
    <2>3. CASE m < d
      <3>1. Nth(m)' = [e EXCEPT !.committed = TRUE]
        BY <1>4, <2>1, <2>3
      <3>2. PICK g : g = [e EXCEPT !.committed = TRUE]
        OBVIOUS
      <3>3. g \in SbEntry /\ g.committed = TRUE /\ g.valid = e.valid /\ g.ready = e.ready
        BY <2>1, <3>2 DEF SbEntry
      <3>4. e.ready
        <4>1. CASE m < c
          BY <2>2, <4>1
        <4>2. CASE ~(m < c)
          <5>1. c <= m /\ m < c + Count(StoresInFlight, k)
            BY <1>2, <1>3, <1>4, <1>5, <2>3, <4>2
          <5>2. \E i \in StoresInFlight : Holds(Nth(m), rob[i])
            BY <1>0, <1>1, <1>6, <5>1, RetiringReady
          <5> QED BY <2>1, <5>2 DEF Holds
        <4> QED BY <4>1, <4>2
      <3>5. e.valid
        <4>1. sb.count \in Int /\ c + r \in Int /\ d = c + r /\ m \in Int
          BY <1>0, <1>3, <1>4, <1>5 DEF Typed, Buffer
        <4>2. m < sb.count
          BY <1>7, <2>3, <4>1
        <4> QED BY <2>2, <4>2
      <3> QED BY <2>3, <3>1, <3>2, <3>3, <3>4, <3>5
    <2>4. CASE ~(m < d)
      BY <1>4, <2>4, FreeTyped
    <2> QED BY <2>3, <2>4
  <1>9. sb' \in Buffer
    <2>1. sb'.head \in SbId /\ sb'.count \in 0 .. SB_DEPTH /\ sb'.count \in Int
      BY <1>4, <1>5
    <2>2. sb'.tail \in SbId
      BY <1>4, <2>1, SbRing
    <2>3. PICK M : sb' = [mem |-> [s \in SbId |-> M[s]], head |-> sb'.head, tail |-> sb'.tail, count |-> sb'.count]
      <3>1. PICK q : q = Flushed(sb, Retired(k)) /\ q = sb'
        BY DEF Flush
      <3>2. PICK N : q = [mem |-> [s \in SbId |-> N[s]], head |-> q.head, tail |-> q.tail, count |-> q.count]
        <4> DEFINE kept == Cardinality(Kept(sb, SB_DEPTH - 1, Retired(k)))
                   Source(x) == CHOOSE n \in 0 .. SB_DEPTH - 1 :
                                  /\ Survives(sb, SbSlot(sb.head, n), Retired(k))
                                  /\ Cardinality(Kept(sb, n, Retired(k))) = x + 1
                   Index(s) == (s - sb.head) % SB_DEPTH
                   N == [s \in SbId |-> IF Index(s) < kept
                                        THEN [sb.mem[SbSlot(sb.head, Source(Index(s)))] EXCEPT !.committed = TRUE]
                                        ELSE Free]
        <4>1. q = [mem |-> N, head |-> q.head, tail |-> q.tail, count |-> q.count]
          BY <3>1 DEF Flushed
        <4>2. N = [s \in SbId |-> N[s]]
          OBVIOUS
        <4> HIDE DEF N
        <4> QED BY <4>1, <4>2
      <3> QED BY <3>1, <3>2
    <2>4. sb'.mem = [s \in SbId |-> M[s]]
      BY <2>3
    <2>5. ASSUME NEW s \in SbId PROVE M[s] \in SbEntry
      <3>1. PICK h \in SbId : h = sb'.head
        BY <2>1
      <3>2. PICK m \in 0 .. SB_DEPTH - 1 : s = SbSlot(h, m)
        BY RingCovered
      <3>3. Nth(m)' \in SbEntry
        BY <1>8
      <3>4. Nth(m)' = sb'.mem[s]
        BY <3>1, <3>2 DEF Nth
      <3> QED BY <2>4, <3>3, <3>4
    <2>6. [s \in SbId |-> M[s]] \in [SbId -> SbEntry]
      BY <2>5
    <2> QED BY <2>1, <2>2, <2>3, <2>6 DEF Buffer
  <1>10. /\ rob' = <<>> /\ rob_head' = 0 /\ sq' = <<>> /\ store_wb' = <<>> /\ front' = {} /\ res' = {}
         /\ arch' = ArchAfter(k) /\ xlate' = xlate /\ memory' = memory /\ dispatched' = dispatched
    BY DEF Flush
  <1>11. Positions' = {} /\ StoresInFlight' = {} /\ Len(rob') = 0 /\ Count(StoresInFlight', Len(rob')) = 0
    BY <1>10, EmptyWindow
  <1>12. arch' \in Image
    BY <1>0, <1>6, <1>10, ArchTyped
  <1>13. Typed'
    <2>1. rob' \in Seq(RobEntry)
      BY <1>10
    <2>2. rob_head' \in RobTags /\ Len(rob') <= ROB_DEPTH
      BY <1>10, <1>11, LsAssumption DEF RobTags
    <2>3. memory' \in Image /\ xlate' \in Translation /\ dispatched' \in 0 .. MaxOps
      BY <1>0, <1>10 DEF Typed
    <2> QED BY <1>9, <1>10, <1>11, <1>12, <2>1, <2>2, <2>3 DEF Typed, Buffer, SbEntry, RobEntry, Image, Byte, Vals
  <1>14. InOrder(d)'
    <2>1. sb'.count = d + Count(StoresInFlight', Len(rob'))
      BY <1>4, <1>5, <1>11
    <2> QED BY <1>4, <1>8, <1>11, <2>1 DEF InOrder
  <1>15. StoresInOrder'
    BY <1>13, <1>14, OrderedNext DEF Ordered
  <1>16. Filled'
    BY <1>11 DEF Filled
  <1>17. Linked'
    BY <1>10, <1>11 DEF Linked
  <1>18. MemoryIsArchitectural'
    <2>1. PICK p : p = 0
      OBVIOUS
    <2>2. ASSUME NEW m \in 0 .. SB_DEPTH - 1 PROVE m + p = m
      BY <1>5, <2>1
    <2>3. ASSUME NEW m \in 0 .. SB_DEPTH - 1, m < c - p PROVE Nth(m)' = Nth(m + p)
      <3>1. m < c /\ m < d
        BY <1>3, <1>4, <1>5, <2>1, <2>3
      <3>2. PICK e \in SbEntry : e = Nth(m)
        <4>1. m \in Int
          BY <1>5
        <4> QED BY <1>0, <4>1, NthTyped
      <3>3. e.committed = TRUE
        <4>1. e.committed
          BY <1>1, <3>1, <3>2 DEF InOrder
        <4> QED BY <3>2, <4>1 DEF SbEntry
      <3>4. [e EXCEPT !.committed = TRUE] = e
        BY <3>2, <3>3 DEF SbEntry
      <3> QED BY <1>4, <2>2, <3>1, <3>2, <3>4
    <2>4. ASSUME NEW m \in 0 .. SB_DEPTH - 1, c - p <= m /\ m < c + r - p
          PROVE  Nth(m)' = [Nth(m + p) EXCEPT !.committed = TRUE]
      <3>1. m < d
        BY <1>3, <1>4, <2>1, <2>4
      <3> QED BY <1>4, <2>2, <3>1
    <2>5. ASSUME NEW m \in 0 .. SB_DEPTH - 1, c + r - p <= m PROVE ~Nth(m)'.committed
      <3>1. ~(m < d)
        BY <1>3, <1>4, <1>5, <2>1, <2>5
      <3> QED BY <1>8, <3>1
    <2>6. memory' = Run(memory, MemWrites, SB_DEPTH)[p]
      BY <1>5, <1>10, <2>1, RunSteps
    <2>7. p \in 0 .. 1 /\ p <= c /\ c + r <= SB_DEPTH
      BY <1>3, <1>4, <2>1
    <2>8. Drained(c, r, p, k)
      BY <1>2, <1>4, <1>6, <1>10, <2>3, <2>4, <2>5, <2>6, <2>7 DEF Drained
    <2> QED BY <1>0, <1>1, <2>8, MemoryNext
  <1> QED BY <1>13, <1>15, <1>16, <1>17, <1>18 DEF LsInv

\* The initial state.
LEMMA InitKeeps == Init => LsInv
  <1> SUFFICES ASSUME Init PROVE LsInv
    OBVIOUS
  <1>0. /\ rob = <<>> /\ rob_head = 0 /\ sb = Reset /\ sq = <<>> /\ store_wb = <<>> /\ front = {} /\ res = {}
        /\ xlate \in Translation /\ memory = [w \in Words |-> [b \in Offsets |-> <<0, b>>]]
        /\ arch = memory /\ dispatched = 0
    BY DEF Init
  <1>1. SB_DEPTH \in Nat \ {0} /\ MaxOps \in Nat /\ 0 \in SbId /\ 0 \in RobTags
    BY SbAssumption, LsAssumption DEF SbId, RobTags
  <1>2. Len(rob) = 0 /\ Positions = {} /\ StoresInFlight = {}
    <2>1. Len(rob) = 0 /\ 1 .. 0 = {}
      BY <1>0
    <2>2. Positions = {}
      BY <2>1 DEF Positions
    <2> QED BY <2>1, <2>2 DEF StoresInFlight
  <1>3. sb.head = 0 /\ sb.tail = 0 /\ sb.count = 0 /\ sb.mem = [s \in SbId |-> Free]
    BY <1>0 DEF Reset
  <1>4. sb \in Buffer
    <2>1. [s \in SbId |-> Free] \in [SbId -> SbEntry]
      BY FreeTyped
    <2>2. 0 \in 0 .. SB_DEPTH
      BY <1>1
    <2> QED BY <1>0, <1>1, <2>1, <2>2 DEF Reset, Buffer
  <1>5. memory \in Image
    <2>1. \A b \in Offsets : <<0, b>> \in Byte
      BY <1>1 DEF Byte
    <2> QED BY <1>0, <2>1 DEF Image
  <1>6. Typed
    <2>1. rob \in Seq(RobEntry)
      BY <1>0
    <2>2. Len(rob) <= ROB_DEPTH
      BY <1>2, LsAssumption
    <2>3. rob_head \in RobTags /\ dispatched \in 0 .. MaxOps /\ res = {} /\ arch \in Image
      BY <1>0, <1>1, <1>5
    <2> QED BY <1>0, <1>2, <1>4, <1>5, <2>1, <2>2, <2>3 DEF Typed
  <1>7. \A n \in 0 .. SB_DEPTH - 1 : Nth(n) = Free
    <2> SUFFICES ASSUME NEW n \in 0 .. SB_DEPTH - 1 PROVE Nth(n) = Free
      OBVIOUS
    <2>1. n \in Int
      BY <1>1
    <2>2. SbSlot(sb.head, n) \in SbId
      BY <1>1, <1>3, <2>1, SbRing
    <2> QED BY <1>3, <2>2 DEF Nth
  <1>8. InOrder(0)
    <2>1. Count(StoresInFlight, Len(rob)) = 0
      <3>1. UpTo({}, 0) = {}
        BY DEF UpTo
      <3> QED BY <1>2, <3>1, FS_EmptySet DEF Count
    <2>2. sb.tail = SbSlot(sb.head, sb.count)
      BY <1>1, <1>3, SbRing
    <2>3. \A n \in 0 .. SB_DEPTH - 1 : ~(n < 0)
      BY <1>1
    <2> QED BY <1>1, <1>2, <1>3, <1>7, <2>1, <2>2, <2>3, FreeTyped DEF InOrder
  <1>9. StoresInOrder
    BY <1>6, <1>8, InOrderIs
  <1>10. Filled
    BY <1>2 DEF Filled
  <1>11. Linked
    BY <1>0, <1>2 DEF Linked
  <1>12. MemoryIsArchitectural
    <2>1. PICK ws : ws = MemWrites
      OBVIOUS
    <2>2. \A i \in 0 + 1 .. SB_DEPTH : ~ws[i].on
      <3> SUFFICES ASSUME NEW i \in 0 + 1 .. SB_DEPTH PROVE ~ws[i].on
        OBVIOUS
      <3>1. i \in 1 .. SB_DEPTH /\ i - 1 \in 0 .. SB_DEPTH - 1
        BY <1>1
      <3>2. Nth(i - 1) = Free
        BY <1>7, <3>1
      <3>3. PICK z \in BOOLEAN : z = (Nth(i - 1).committed /\ Nth(i - 1).op # "SC_FAIL")
        OBVIOUS
      <3>4. ws[i] = [on |-> z, e |-> Nth(i - 1)]
        BY <2>1, <3>1, <3>3 DEF MemWrites
      <3>5. z = FALSE
        BY <3>2, <3>3, FreeTyped
      <3>6. ws[i].on = z
        BY <3>4
      <3> QED BY <3>5, <3>6
    <2>3. 0 \in 0 .. SB_DEPTH
      BY <1>1
    <2>4. PICK base : base = memory
      OBVIOUS
    <2>5. Run(base, ws, SB_DEPTH)[SB_DEPTH] = Run(base, ws, SB_DEPTH)[0]
      BY <1>1, <2>2, <2>3, RunOff
    <2>6. Run(base, ws, SB_DEPTH)[0] = base
      BY <1>1, RunSteps
    <2> QED BY <1>0, <2>1, <2>4, <2>5, <2>6, MemoryRun DEF MemIsRun
  <1> QED BY <1>6, <1>9, <1>10, <1>11, <1>12 DEF LsInv

\* Every step preserves the invariant.
LEMMA NextKeeps == LsInv /\ [Next]_vars => LsInv'
  <1> SUFFICES ASSUME LsInv, [Next]_vars PROVE LsInv'
    OBVIOUS
  <1>1. CASE Clock
    <2>1. PICK k \in RetireChoices, wb \in WriteBackChoices, accept \in AtMostOne(MayAccept), ready \in BOOLEAN :
          \E fault \in BOOLEAN :
          \E fire \in AtMostOne(MayFire(wb, fault)), issue \in AtMostOne(MayIssue) :
            /\ fire = {} => ~fault
            /\ issue = {} \/ fire = {}
            /\ (fire \cup issue # {}) \in BOOLEAN
            /\ \E bundle \in {b \in Bundles : Room(b)} :
                  Cycle(bundle, issue, fire, fault, accept, wb, k, ready)
      BY <1>1 DEF Clock, Steps
    <2>2. PICK fault \in BOOLEAN :
          \E fire \in AtMostOne(MayFire(wb, fault)), issue \in AtMostOne(MayIssue) :
            /\ fire = {} => ~fault
            /\ issue = {} \/ fire = {}
            /\ \E bundle \in {b \in Bundles : Room(b)} :
                  Cycle(bundle, issue, fire, fault, accept, wb, k, ready)
      BY <2>1
    <2>3. PICK fire \in AtMostOne(MayFire(wb, fault)), issue \in AtMostOne(MayIssue) :
            /\ fire = {} => ~fault
            /\ issue = {} \/ fire = {}
            /\ \E bundle \in {b \in Bundles : Room(b)} :
                  Cycle(bundle, issue, fire, fault, accept, wb, k, ready)
      BY <2>2
    <2>4. PICK bundle \in {b \in Bundles : Room(b)} : Cycle(bundle, issue, fire, fault, accept, wb, k, ready)
      BY <2>3
    <2>5. Step(bundle, issue, fire, fault, accept, wb, k, ready)
      BY <2>3, <2>4 DEF Step, Chosen
    <2> QED BY <2>5, StepKeeps
  <1>2. CASE Squash
    BY <1>2, FlushKeeps DEF Squash
  <1>3. CASE UNCHANGED vars
    <2>1. /\ rob' = rob /\ rob_head' = rob_head /\ sb' = sb /\ sq' = sq /\ store_wb' = store_wb /\ front' = front
          /\ res' = res /\ xlate' = xlate /\ memory' = memory /\ arch' = arch /\ dispatched' = dispatched
      BY <1>3 DEF vars
    <2>2. Typed' /\ Linked'
      BY <2>1 DEF LsInv, Typed, Linked, Positions, Tag, SqEntry
    <2>3. StoresInOrder' /\ Filled'
      BY <2>1 DEF LsInv, StoresInOrder, Filled, StoresInFlight, Committed, Positions, Executed, Own, Nth, NumCommitted
    <2>4. MemoryIsArchitectural'
      BY <2>1 DEF LsInv, MemoryIsArchitectural
    <2> QED BY <2>2, <2>3, <2>4 DEF LsInv
  <1> QED BY <1>1, <1>2, <1>3 DEF Next

-----------------------------------------------------------------------------
(* The theorems.                                                           *)

LEMMA LsSafe == Spec => []LsInv
  <1> QED BY InitKeeps, NextKeeps, PTL DEF Spec

\* The whole load/store path keeps its types: at most one instruction in translation and one store
\* in each queue of the LSU, at most one reservation, and only real bytes in memory, whatever the
\* depth of the ROB and of the store buffer.
THEOREM LsTypes == Spec => []LsTypeOK
  <1>1. LsInv => LsTypeOK
    <2> SUFFICES ASSUME LsInv PROVE LsTypeOK
      OBVIOUS
    <2>0. Typed /\ Linked
      BY DEF LsInv
    <2>1. Len(rob) <= ROB_DEPTH /\ rob_head \in RobTags /\ sb \in Buffer
      BY <2>0 DEF Typed
    <2>2. \A i \in Positions : rob[i].stage \in Stages /\ rob[i].sb \in SbId
      BY <2>0, RobTyped
    <2>3. sb.head \in SbId /\ sb.tail \in SbId /\ sb.count \in 0 .. SB_DEPTH
      BY <2>1 DEF Buffer
    <2>4. memory \in [Words -> [Offsets -> Byte]] /\ arch \in [Words -> [Offsets -> Byte]]
      BY <2>0 DEF Typed, Image
    <2>5. res \subseteq Words /\ Cardinality(res) <= 1
      <3>1. CASE res = {}
        BY <3>1, FS_EmptySet
      <3>2. CASE \E w \in Words : res = {w}
        BY <3>2, FS_Singleton
      <3> QED BY <2>0, <3>1, <3>2 DEF Typed
    <2>6. front \subseteq RobTags /\ Cardinality(front) <= 1
      <3>1. CASE front = {}
        BY <3>1, FS_EmptySet
      <3>2. CASE \E i \in Positions : front = {Tag(i)}
        <4>1. PICK i \in Positions : front = {Tag(i)}
          BY <3>2
        <4>2. i \in Int
          BY <2>0, PositionsAre
        <4>3. Tag(i) \in RobTags
          BY <2>1, <4>2, Tags
        <4>4. PICK t \in RobTags : t = Tag(i)
          BY <4>3
        <4>5. front = {t}
          BY <4>1, <4>4
        <4>6. Cardinality(front) = 1
          BY <4>5, FS_Singleton
        <4>7. front \subseteq RobTags
          BY <4>5
        <4> QED BY <4>6, <4>7
      <3> QED BY <2>0, <3>1, <3>2 DEF Linked
    <2>7. Len(sq) <= 1
      <3>1. CASE sq = <<>>
        BY <3>1
      <3>2. CASE \E j \in Positions : sq = <<SqEntry(j)>>
        <4>1. PICK j, e : sq = <<e>> /\ e = SqEntry(j)
          BY <3>2
        <4> QED BY <4>1
      <3> QED BY <2>0, <3>1, <3>2, SqIs
    <2>8. Len(store_wb) <= 1
      <3>1. CASE store_wb = <<>>
        BY <3>1
      <3>2. CASE \E i \in Positions : store_wb = <<Tag(i)>>
        <4>1. PICK i, t : store_wb = <<t>> /\ t = Tag(i)
          BY <3>2
        <4> QED BY <4>1
      <3> QED BY <2>0, <3>1, <3>2 DEF Linked
    <2> QED BY <2>1, <2>2, <2>3, <2>4, <2>5, <2>6, <2>7, <2>8 DEF LsTypeOK
  <1> QED BY <1>1, LsSafe, PTL

\* The store buffer is always the program's stores in order: the committed ones, filled, from its
\* head on, then one entry for each store in flight under the index that store carries, through
\* full buffers, wrap-around, several dispatches, commits and a dequeue in one cycle, and flushes.
THEOREM BufferInOrder == Spec => []StoresInOrder
  <1>1. LsInv => StoresInOrder
    BY DEF LsInv
  <1> QED BY <1>1, LsSafe, PTL

\* Memory, with the committed entries of the store buffer written after it, is the memory the
\* committed program has made: no committed store is lost, repeated, reordered or written with the
\* wrong bytes, and no store of a flushed instruction or failed SC reaches it.
THEOREM CommittedReachMemory == Spec => []MemoryIsArchitectural
  <1>1. LsInv => MemoryIsArchitectural
    BY DEF LsInv
  <1> QED BY <1>1, LsSafe, PTL

-----------------------------------------------------------------------------
(* What a load sees.  The theorem is about full words under translation:   *)
(* with other sizes, failed SCs or without translation the code is wrong.  *)

FullWords == MemOps \subseteq {"LW", "SW", "LR", "AMO"} /\ Translation \subseteq {TRUE}

\* The bytes of a full-word store, and bytes as the value of a load.
Bytes(id) == [b \in Offsets |-> <<id, b>>]
AsVal(v) == [x \in 1 .. BYTES |-> v[x - 1]]

\* The stores to word w before the i-th instruction: none, the last one, and what they leave there.
Hits(j, w) == Effective(j) /\ rob[j].word = w
NoStore(i, w) == \A l \in 1 .. i - 1 : ~Hits(l, w)
LastStore(i, w, j) == j \in 1 .. i - 1 /\ Hits(j, w) /\ \A l \in j + 1 .. i - 1 : ~Hits(l, w)
Sees(i, w, v) ==
    \/ \E j \in 1 .. i - 1 : LastStore(i, w, j) /\ v = Bytes(rob[j].id)
    \/ NoStore(i, w) /\ v = arch[w]

\* A load leaves the station behind stores that have their address and data.
Settled(i) == \A j \in 1 .. i - 1 : is_store(rob[j].op) => rob[j].stage \in {"store_wb", "complete"}
Behind == \A i \in Positions : is_load(rob[i].op) /\ rob[i].stage # "rs" => Settled(i)

\* What is in translation meets an empty store queue, and no AMO in the lanes.
FrontClear == sq # <<>> \/ amo_inflight => front = {}

\* The tag a filled entry of the buffer is searched by is that of its store.
Tagged == \A j \in StoresInFlight : Own(j).ready => Executed(j) /\ Own(j).tag = Tag(j)

\* The committed entries are full words.
CommittedWords == \A n \in 0 .. NumCommitted - 1 : Nth(n).op = "SW" /\ Nth(n).off = 0

\* No store is left that the cache has not seen.
InCache(i, w) == NoStore(i, w) /\ \A n \in 0 .. NumCommitted - 1 : Nth(n).word # w
Asked == \A i \in Positions : rob[i].stage = "S_LD_REQ" => InCache(i, rob[i].word)

Right(i) == \E v : Sees(i, rob[i].word, v) /\ rob[i].val = AsVal(v)
Valued == \A i \in Positions : rob[i].val # NoVal =>
             /\ is_load(rob[i].op) /\ rob[i].stage \in {"S_LD_RSP", "S_RESP", "complete"}
             /\ Right(i)

LoadInv == LsInv /\ Behind /\ FrontClear /\ Tagged /\ CommittedWords /\ Asked /\ Valued

\* Instructions of full words.
LEMMA FullOp ==
    ASSUME FullWords, Typed, NEW i \in Positions
    PROVE  /\ rob[i].op \in {"LW", "SW", "LR", "AMO"} /\ rob[i].op \notin ByteOps
           /\ Size(rob[i].op) = BYTES /\ rob[i].off = 0 /\ Touches(rob[i].op, rob[i].off) = Offsets
           /\ ~rob[i].sc_fail /\ rob[i].word \in Words /\ rob[i].id \in 0 .. MaxOps
           /\ is_store(rob[i].op) => BufferOp(rob[i]) = "SW"
           /\ Effective(i) <=> is_store(rob[i].op) /\ ~rob[i].exc
  <1>1. /\ rob[i].off \in Offsets /\ rob[i].word \in Words /\ rob[i].op \in MemOps /\ rob[i].id \in 0 .. MaxOps
        /\ rob[i].op \in ByteOps \/ rob[i].off = 0
    BY RobTyped
  <1>2. rob[i].op \in {"LW", "SW", "LR", "AMO"}
    BY <1>1 DEF FullWords
  <1>3. rob[i].op \notin ByteOps
    BY <1>2 DEF ByteOps
  <1>4. Size(rob[i].op) = BYTES /\ rob[i].off = 0
    BY <1>1, <1>3 DEF Size
  <1>5. Touches(rob[i].op, rob[i].off) = Offsets
    <2>1. \A b \in Offsets : b >= 0 /\ b < 0 + BYTES
      BY SbAssumption DEF Offsets
    <2> QED BY <1>4, <2>1 DEF Touches
  <1>6. ~rob[i].sc_fail
    BY <1>2 DEF Typed
  <1>7. is_store(rob[i].op) => BufferOp(rob[i]) = "SW"
    BY <1>2 DEF is_store, BufferOp
  <1> QED BY <1>1, <1>2, <1>3, <1>4, <1>5, <1>6, <1>7 DEF Effective

-----------------------------------------------------------------------------
(* Lists of full-word writes.                                              *)

FullWrite(e) == e.word \in Words /\ e.off = 0 /\ e.data \in 0 .. MaxOps /\ Touches(e.op, 0) = Offsets
FullList(ws, D) == \A n \in 1 .. D : ws[n].on => FullWrite(ws[n].e)

LEMMA WriteWord ==
    ASSUME NEW mem \in Image, NEW e, FullWrite(e), NEW w \in Words
    PROVE  Written(mem, e) \in Image /\ Written(mem, e)[w] = IF w = e.word THEN Bytes(e.data) ELSE mem[w]
  <1>1. e.word \in Words /\ e.off = 0 /\ e.data \in 0 .. MaxOps /\ Touches(e.op, e.off) = Offsets
    BY DEF FullWrite
  <1>2. 0 \in Offsets
    BY SbAssumption DEF Offsets
  <1>3. Written(mem, e) \in Image
    BY <1>1, <1>2, WrittenTyped
  <1>4. Written(mem, e) = [mem EXCEPT ![e.word] =
          [b \in Offsets |-> IF b \in Offsets THEN <<e.data, b - 0>> ELSE mem[e.word][b]]]
    BY <1>1 DEF Written
  <1>5. [b \in Offsets |-> IF b \in Offsets THEN <<e.data, b - 0>> ELSE mem[e.word][b]] = Bytes(e.data)
    <2>1. \A b \in Offsets : b - 0 = b
      BY DEF Offsets
    <2> QED BY <2>1 DEF Bytes
  <1>6. DOMAIN mem = Words
    BY DEF Image
  <1> QED BY <1>1, <1>3, <1>4, <1>5, <1>6

LEMMA RunImages ==
    ASSUME NEW base \in Image, NEW ws, NEW D \in Nat, FullList(ws, D)
    PROVE  \A n \in 0 .. D : Run(base, ws, D)[n] \in Image
  <1> DEFINE R == Run(base, ws, D)
             T == {d \in Nat : d <= D => R[d] \in Image}
  <1>0. R[0] = base /\ \A n \in 0 .. D - 1 : R[n + 1] = Apply(R[n], ws[n + 1])
    BY RunSteps
  <1> HIDE DEF R
  <1>1. 0 \in T
    BY <1>0
  <1>2. ASSUME NEW d \in Nat, d \in T PROVE d + 1 \in T
    <2> SUFFICES ASSUME d + 1 <= D PROVE R[d + 1] \in Image
      OBVIOUS
    <2>1. d \in 0 .. D - 1 /\ d + 1 \in 1 .. D /\ R[d] \in Image
      BY <1>2
    <2>2. PICK x : x = R[d]
      OBVIOUS
    <2>3. PICK e : e = ws[d + 1]
      OBVIOUS
    <2>4. R[d + 1] = Apply(x, e) /\ x \in Image /\ (e.on => FullWrite(e.e))
      BY <1>0, <2>1, <2>2, <2>3 DEF FullList
    <2>5. PICK z : z \in Words
      BY LsAssumption
    <2>6. e.on => Written(x, e.e) \in Image
      BY <2>4, <2>5, WriteWord
    <2> QED BY <2>4, <2>6 DEF Apply
  <1> HIDE DEF T
  <1>3. Nat \subseteq T
    BY <1>1, <1>2, InductionOver
  <1> QED BY <1>3 DEF T, R

\* Writes elsewhere leave a word alone.
LEMMA RunElsewhere ==
    ASSUME NEW base \in Image, NEW ws, NEW D \in Nat, FullList(ws, D), NEW w \in Words, NEW a \in 0 .. D,
           \A n \in a + 1 .. D : ws[n].on => ws[n].e.word # w
    PROVE  Run(base, ws, D)[D][w] = Run(base, ws, D)[a][w]
  <1> DEFINE R == Run(base, ws, D)
             T == {d \in Nat : a + d <= D => R[a + d][w] = R[a][w]}
  <1>0. \A n \in 0 .. D - 1 : R[n + 1] = Apply(R[n], ws[n + 1])
    BY RunSteps
  <1>i. \A n \in 0 .. D : R[n] \in Image
    BY RunImages
  <1> HIDE DEF R
  <1>1. 0 \in T
    <2>1. a + 0 = a
      OBVIOUS
    <2> QED BY <2>1
  <1>2. ASSUME NEW d \in Nat, d \in T PROVE d + 1 \in T
    <2> SUFFICES ASSUME a + (d + 1) <= D PROVE R[a + (d + 1)][w] = R[a][w]
      OBVIOUS
    <2>1. PICK m \in Nat : m = a + d
      OBVIOUS
    <2>2. m \in 0 .. D - 1 /\ m + 1 = a + (d + 1) /\ m + 1 \in a + 1 .. D /\ m + 1 \in 1 .. D /\ m \in 0 .. D
      BY <2>1
    <2>3. R[m][w] = R[a][w]
      BY <1>2, <2>1, <2>2
    <2>4. PICK x : x = R[m]
      OBVIOUS
    <2>5. PICK e : e = ws[m + 1]
      OBVIOUS
    <2>6. R[m + 1] = Apply(x, e) /\ x \in Image /\ (e.on => FullWrite(e.e) /\ e.e.word # w)
      BY <1>0, <1>i, <2>2, <2>4, <2>5 DEF FullList
    <2>7. Apply(x, e)[w] = x[w]
      <3>1. CASE e.on
        <4>1. Written(x, e.e)[w] = IF w = e.e.word THEN Bytes(e.e.data) ELSE x[w]
          BY <2>6, <3>1, WriteWord
        <4> QED BY <2>6, <3>1, <4>1 DEF Apply
      <3>2. CASE ~e.on
        BY <3>2 DEF Apply
      <3> QED BY <3>1, <3>2
    <2> QED BY <2>2, <2>3, <2>4, <2>6, <2>7
  <1> HIDE DEF T
  <1>3. Nat \subseteq T
    BY <1>1, <1>2, InductionOver
  <1>4. PICK d \in Nat : d = D - a
    OBVIOUS
  <1>5. a + d = D
    BY <1>4
  <1> QED BY <1>3, <1>5 DEF T, R

\* The last write to a word is what it holds.
LEMMA RunLast ==
    ASSUME NEW base \in Image, NEW ws, NEW D \in Nat, FullList(ws, D), NEW w \in Words, NEW a \in 1 .. D,
           ws[a].on, ws[a].e.word = w, \A n \in a + 1 .. D : ws[n].on => ws[n].e.word # w
    PROVE  Run(base, ws, D)[D][w] = Bytes(ws[a].e.data)
  <1>1. Run(base, ws, D)[D][w] = Run(base, ws, D)[a][w]
    <2>1. a \in 0 .. D
      OBVIOUS
    <2> QED BY <2>1, RunElsewhere
  <1>2. PICK m \in 0 .. D - 1 : m + 1 = a
    <2>1. a - 1 \in 0 .. D - 1 /\ (a - 1) + 1 = a
      OBVIOUS
    <2> QED BY <2>1
  <1>3. PICK x : x = Run(base, ws, D)[m]
    OBVIOUS
  <1>4. x \in Image
    <2>1. m \in 0 .. D
      OBVIOUS
    <2> QED BY <1>3, <2>1, RunImages
  <1>5. Run(base, ws, D)[a] = Apply(x, ws[a])
    BY <1>2, <1>3, RunSteps
  <1>6. FullWrite(ws[a].e)
    BY DEF FullList
  <1>7. PICK e : e = ws[a].e
    OBVIOUS
  <1>8. Written(x, e)[w] = IF w = e.word THEN Bytes(e.data) ELSE x[w]
    BY <1>4, <1>6, <1>7, WriteWord
  <1>9. Apply(x, ws[a]) = Written(x, e)
    BY <1>7 DEF Apply
  <1> QED BY <1>1, <1>5, <1>7, <1>8, <1>9

-----------------------------------------------------------------------------
(* What committing and draining do to a word.                              *)

\* Retirement leaves a word to the last of the retiring stores.
LEMMA ArchWord ==
    ASSUME FullWords, Typed, NEW k \in 0 .. Len(rob), NEW w \in Words,
           \A i \in 1 .. k : rob[i].stage = "complete" /\ ~rob[i].exc
    PROVE  /\ (\A l \in 1 .. k : ~Hits(l, w)) => ArchAfter(k)[w] = arch[w]
           /\ \A j \in 1 .. k : Hits(j, w) /\ (\A l \in j + 1 .. k : ~Hits(l, w))
                 => ArchAfter(k)[w] = Bytes(rob[j].id)
  <1>0. k \in Nat /\ Positions = 1 .. Len(rob) /\ Len(rob) \in Nat
    BY PositionsAre
  <1>1. PICK ws : ws = ArchWrites(k)
    OBVIOUS
  <1>2. ArchAfter(k) = Run(arch, ws, k)[k] /\ arch \in Image
    BY <1>0, <1>1, ArchRun DEF Typed
  <1>3. \A n \in 1 .. k : /\ ws[n].on <=> Effective(n)
                          /\ ws[n].e.word = rob[n].word /\ ws[n].e.data = rob[n].id
                          /\ FullWrite(ws[n].e)
    <2> SUFFICES ASSUME NEW n \in 1 .. k
                 PROVE  /\ ws[n].on <=> Effective(n)
                        /\ ws[n].e.word = rob[n].word /\ ws[n].e.data = rob[n].id
                        /\ FullWrite(ws[n].e)
      OBVIOUS
    <2>1. n \in Positions
      BY <1>0
    <2>2. /\ rob[n].off = 0 /\ Touches(rob[n].op, rob[n].off) = Offsets
          /\ ~rob[n].sc_fail /\ rob[n].word \in Words /\ rob[n].id \in 0 .. MaxOps
          /\ Effective(n) <=> is_store(rob[n].op) /\ ~rob[n].exc
      BY <2>1, FullOp
    <2>3. ws[n] = [on |-> is_store(rob[n].op) /\ ~rob[n].sc_fail,
                   e |-> [op |-> rob[n].op, word |-> rob[n].word, off |-> rob[n].off, data |-> rob[n].id]]
      BY <1>1 DEF ArchWrites
    <2>4. ws[n].on <=> Effective(n)
      <3>1. ws[n].on = (is_store(rob[n].op) /\ ~rob[n].sc_fail)
        BY <2>3
      <3>2. (is_store(rob[n].op) /\ ~rob[n].sc_fail) <=> Effective(n)
        BY <2>2
      <3> QED BY <3>1, <3>2, Zenon
    <2> QED BY <2>2, <2>3, <2>4 DEF FullWrite
  <1>4. FullList(ws, k)
    BY <1>3 DEF FullList
  <1>5. ASSUME \A l \in 1 .. k : ~Hits(l, w) PROVE ArchAfter(k)[w] = arch[w]
    <2>1. \A n \in 0 + 1 .. k : ws[n].on => ws[n].e.word # w
      BY <1>3, <1>5 DEF Hits
    <2>2. 0 \in 0 .. k
      BY <1>0
    <2>3. Run(arch, ws, k)[k][w] = Run(arch, ws, k)[0][w]
      BY <1>0, <1>2, <1>4, <2>1, <2>2, RunElsewhere
    <2>4. Run(arch, ws, k)[0] = arch
      BY <1>0, RunSteps
    <2> QED BY <1>2, <2>3, <2>4
  <1>6. ASSUME NEW j \in 1 .. k, Hits(j, w), \A l \in j + 1 .. k : ~Hits(l, w)
        PROVE  ArchAfter(k)[w] = Bytes(rob[j].id)
    <2>1. \A n \in j + 1 .. k : ws[n].on => ws[n].e.word # w
      BY <1>0, <1>3, <1>6 DEF Hits
    <2>2. ws[j].on /\ ws[j].e.word = w /\ ws[j].e.data = rob[j].id
      BY <1>3, <1>6 DEF Hits
    <2>3. Run(arch, ws, k)[k][w] = Bytes(ws[j].e.data)
      BY <1>0, <1>2, <1>4, <2>1, <2>2, RunLast
    <2> QED BY <1>2, <2>2, <2>3
  <1> QED BY <1>5, <1>6

\* A committed entry is a full write to memory.
LEMMA MemFull ==
    ASSUME LsInv, CommittedWords
    PROVE  /\ FullList(MemWrites, SB_DEPTH) /\ memory \in Image /\ NumCommitted \in 0 .. SB_DEPTH
           /\ Run(memory, MemWrites, SB_DEPTH)[SB_DEPTH] = arch
           /\ \A n \in 1 .. SB_DEPTH : /\ MemWrites[n].on <=> n <= NumCommitted
                                       /\ MemWrites[n].e = Nth(n - 1)
  <1>0. Typed /\ InOrder(NumCommitted) /\ SB_DEPTH \in Nat /\ BYTES \in Nat \ {0}
    BY InOrderIs, SbAssumption DEF LsInv
  <1>1. PICK c : c = NumCommitted
    OBVIOUS
  <1>2. c \in 0 .. SB_DEPTH /\ \A n \in 0 .. SB_DEPTH - 1 : Nth(n).committed <=> n < c
    BY <1>0, <1>1 DEF InOrder
  <1>3. \A n \in 0 .. c - 1 : Nth(n).op = "SW" /\ Nth(n).off = 0
    BY <1>1 DEF CommittedWords
  <1>4. Touches("SW", 0) = Offsets
    BY <1>0 DEF Touches, Size, ByteOps, Offsets
  <1>5. ASSUME NEW n \in 1 .. SB_DEPTH
        PROVE  /\ MemWrites[n].on <=> n <= c
               /\ MemWrites[n].e = Nth(n - 1)
               /\ MemWrites[n].on => FullWrite(MemWrites[n].e)
    <2>1. PICK m \in 0 .. SB_DEPTH - 1 : m = n - 1
      BY <1>0
    <2>2. MemWrites[n] = [on |-> Nth(m).committed /\ Nth(m).op # "SC_FAIL", e |-> Nth(m)]
      BY <2>1 DEF MemWrites
    <2>3. m < c <=> n <= c
      BY <1>2, <2>1
    <2>4. m < c => Nth(m).op = "SW" /\ Nth(m).off = 0
      BY <1>2, <1>3
    <2>5. MemWrites[n].on <=> n <= c
      <3>1. MemWrites[n].on = (Nth(m).committed /\ Nth(m).op # "SC_FAIL")
        BY <2>2
      <3>2. (Nth(m).committed /\ Nth(m).op # "SC_FAIL") <=> n <= c
        BY <1>2, <2>3, <2>4
      <3> QED BY <3>1, <3>2, Zenon
    <2>6. Nth(m) \in SbEntry
      BY <1>0, NthTyped
    <2>7. Nth(m).word \in Words /\ Nth(m).data \in 0 .. MaxOps
      BY <2>6 DEF SbEntry
    <2>8. m < c => FullWrite(Nth(m))
      BY <1>4, <2>4, <2>7 DEF FullWrite
    <2>9. MemWrites[n].e = Nth(n - 1) /\ MemWrites[n].e = Nth(m)
      BY <2>1, <2>2
    <2> QED BY <2>3, <2>5, <2>8, <2>9
  <1>6. FullList(MemWrites, SB_DEPTH)
    BY <1>5 DEF FullList
  <1>7. Run(memory, MemWrites, SB_DEPTH)[SB_DEPTH] = arch
    BY MemoryRun DEF MemIsRun, LsInv
  <1> QED BY <1>0, <1>1, <1>2, <1>5, <1>6, <1>7 DEF Typed

\* Memory is the committed program's in a word no committed entry is about; else the youngest of
\* them has the committed value.
LEMMA MemWord ==
    ASSUME LsInv, CommittedWords, NEW w \in Words
    PROVE  /\ (\A n \in 0 .. NumCommitted - 1 : Nth(n).word # w) => memory[w] = arch[w]
           /\ \A m \in 0 .. NumCommitted - 1 :
                 Nth(m).word = w /\ (\A n \in m + 1 .. NumCommitted - 1 : Nth(n).word # w)
                 => arch[w] = Bytes(Nth(m).data)
  <1>0. SB_DEPTH \in Nat
    BY SbAssumption
  <1>1. PICK c : c = NumCommitted
    OBVIOUS
  <1>2. PICK ws : ws = MemWrites
    OBVIOUS
  <1>3. /\ FullList(ws, SB_DEPTH) /\ memory \in Image /\ c \in 0 .. SB_DEPTH
        /\ Run(memory, ws, SB_DEPTH)[SB_DEPTH] = arch
        /\ \A n \in 1 .. SB_DEPTH : (ws[n].on <=> n <= c) /\ ws[n].e = Nth(n - 1)
    BY <1>1, <1>2, MemFull
  <1>4. ASSUME \A n \in 0 .. c - 1 : Nth(n).word # w PROVE memory[w] = arch[w]
    <2>1. ASSUME NEW n \in 0 + 1 .. SB_DEPTH, ws[n].on PROVE ws[n].e.word # w
      <3>1. n \in 1 .. SB_DEPTH /\ n - 1 \in 0 .. c - 1
        BY <1>0, <1>3, <2>1
      <3>2. Nth(n - 1).word # w
        BY <1>4, <3>1
      <3> QED BY <1>3, <3>1, <3>2
    <2>2. 0 \in 0 .. SB_DEPTH
      BY <1>0
    <2>3. Run(memory, ws, SB_DEPTH)[SB_DEPTH][w] = Run(memory, ws, SB_DEPTH)[0][w]
      BY <1>0, <1>3, <2>1, <2>2, RunElsewhere
    <2>4. Run(memory, ws, SB_DEPTH)[0] = memory
      BY <1>0, RunSteps
    <2> QED BY <1>3, <2>3, <2>4
  <1>5. ASSUME NEW m \in 0 .. c - 1, Nth(m).word = w, \A n \in m + 1 .. c - 1 : Nth(n).word # w
        PROVE  arch[w] = Bytes(Nth(m).data)
    <2>1. PICK a \in 1 .. SB_DEPTH : a = m + 1
      BY <1>0, <1>3
    <2>2. a - 1 = m /\ a <= c
      BY <1>3, <2>1
    <2>3. ws[a].on /\ ws[a].e = Nth(m)
      BY <1>3, <2>1, <2>2
    <2>4. ASSUME NEW n \in a + 1 .. SB_DEPTH, ws[n].on PROVE ws[n].e.word # w
      <3>1. n \in 1 .. SB_DEPTH /\ n - 1 \in m + 1 .. c - 1
        BY <1>0, <1>3, <2>1, <2>4
      <3>2. Nth(n - 1).word # w
        BY <1>5, <3>1
      <3> QED BY <1>3, <3>1, <3>2
    <2>5. ws[a].e.word = w
      BY <1>5, <2>3
    <2>6. Run(memory, ws, SB_DEPTH)[SB_DEPTH][w] = Bytes(ws[a].e.data)
      BY <1>0, <1>3, <2>3, <2>4, <2>5, RunLast
    <2> QED BY <1>3, <2>3, <2>6
  <1> QED BY <1>1, <1>4, <1>5

-----------------------------------------------------------------------------
(* The search of the store buffer.                                         *)

\* From the tail back: the youngest match is found, and none is missed.
LEMMA Searched ==
    ASSUME Typed, NEW c, InOrder(c), NEW w, NEW off, NEW older
    PROVE  /\ ~load_hit(sb, w, off, older) =>
                \A m \in 0 .. sb.count - 1 : ~Match(Nth(m), w, off, older)
           /\ load_hit(sb, w, off, older) =>
                \E m \in 0 .. sb.count - 1 :
                   /\ Match(Nth(m), w, off, older) /\ load_entry(sb, w, off, older) = Nth(m)
                   /\ \A x \in m + 1 .. sb.count - 1 : ~Match(Nth(x), w, off, older)
  <1>0. /\ SB_DEPTH \in Nat \ {0} /\ sb \in Buffer /\ sb.head \in SbId /\ sb.count \in 0 .. SB_DEPTH
        /\ sb.tail = SbSlot(sb.head, sb.count)
        /\ \A n \in 0 .. SB_DEPTH - 1 : Nth(n).valid <=> n < sb.count
    BY SbAssumption DEF Typed, Buffer, InOrder
  <1>1. ASSUME NEW n \in 0 .. SB_DEPTH - 1 PROVE Back(sb, n) = SbSlot(sb.head, sb.count - 1 - n)
    <2>1. PICK y \in Int : y = -1 - n
      OBVIOUS
    <2>2. Back(sb, n) = SbSlot(sb.tail, y)
      <3>1. sb.tail - 1 - n = sb.tail + y
        BY <1>0, <2>1 DEF Buffer, SbId
      <3> QED BY <3>1 DEF Back, SbSlot
    <2>3. SbSlot(SbSlot(sb.head, sb.count), y) = SbSlot(sb.head, sb.count + y)
      <3>1. PICK h \in SbId, q \in Int : h = sb.head /\ q = sb.count
        BY <1>0
      <3>2. SbSlot(SbSlot(h, q), y) = SbSlot(h, q + y)
        BY SbRing
      <3> QED BY <3>1, <3>2
    <2>4. sb.count + y = sb.count - 1 - n
      BY <1>0, <2>1
    <2> QED BY <1>0, <2>2, <2>3, <2>4
  <1>2. ASSUME NEW n \in 0 .. SB_DEPTH - 1, n < sb.count
        PROVE  sb.count - 1 - n \in 0 .. sb.count - 1 /\ sb.mem[Back(sb, n)] = Nth(sb.count - 1 - n)
    BY <1>0, <1>1, <1>2 DEF Nth
  <1>3. ASSUME NEW n \in Matches(sb, w, off, older)
        PROVE  n \in 0 .. SB_DEPTH - 1 /\ n < sb.count /\ Match(Nth(sb.count - 1 - n), w, off, older)
    <2>1. n \in 0 .. SB_DEPTH - 1 /\ Match(sb.mem[Back(sb, n)], w, off, older)
      BY <1>3 DEF Matches
    <2>2. n < sb.count
      <3> SUFFICES ASSUME sb.count <= n PROVE FALSE
        BY <1>0, <2>1
      <3>1. PICK a \in Int : a = sb.count - 1 - n
        BY <1>0, <2>1
      <3>2. PICK m \in 0 .. SB_DEPTH - 1 : m = a + SB_DEPTH
        BY <1>0, <2>1, <3>1
      <3>3. SbSlot(sb.head, a) = SbSlot(SbSlot(sb.head, SB_DEPTH), a)
        BY <1>0, SbRing
      <3>4. SbSlot(SbSlot(sb.head, SB_DEPTH), a) = SbSlot(sb.head, SB_DEPTH + a)
        BY <1>0, SbRing
      <3>5. SB_DEPTH + a = m /\ sb.count <= m
        BY <1>0, <2>1, <3>1, <3>2
      <3>6. sb.mem[Back(sb, n)] = Nth(m)
        BY <1>1, <2>1, <3>1, <3>3, <3>4, <3>5 DEF Nth
      <3>7. ~Nth(m).valid
        BY <1>0, <3>2, <3>5
      <3> QED BY <2>1, <3>6, <3>7 DEF Match
    <2> QED BY <1>2, <2>1, <2>2
  <1>4. ASSUME NEW m \in 0 .. sb.count - 1, Match(Nth(m), w, off, older)
        PROVE  sb.count - 1 - m \in Matches(sb, w, off, older)
    <2>1. PICK n \in 0 .. SB_DEPTH - 1 : n = sb.count - 1 - m
      BY <1>0
    <2>2. n < sb.count /\ sb.count - 1 - n = m
      BY <1>0, <2>1
    <2>3. sb.mem[Back(sb, n)] = Nth(m)
      BY <1>2, <2>1, <2>2
    <2> QED BY <1>4, <2>1, <2>3 DEF Matches
  <1>5. ASSUME ~load_hit(sb, w, off, older), NEW m \in 0 .. sb.count - 1 PROVE ~Match(Nth(m), w, off, older)
    BY <1>4, <1>5 DEF load_hit
  <1>6. ASSUME load_hit(sb, w, off, older)
        PROVE  \E m \in 0 .. sb.count - 1 :
                   /\ Match(Nth(m), w, off, older) /\ load_entry(sb, w, off, older) = Nth(m)
                   /\ \A x \in m + 1 .. sb.count - 1 : ~Match(Nth(x), w, off, older)
    <2>1. PICK n \in Matches(sb, w, off, older) :
              /\ load_entry(sb, w, off, older) = sb.mem[Back(sb, n)]
              /\ \A m \in Matches(sb, w, off, older) : n <= m
              /\ n \in 0 .. SB_DEPTH - 1 /\ Back(sb, n) \in SbId
      BY <1>0, <1>6, LoadEntryIs
    <2>2. n < sb.count /\ Match(Nth(sb.count - 1 - n), w, off, older)
      BY <1>3
    <2>3. PICK m \in 0 .. sb.count - 1 : m = sb.count - 1 - n
      BY <1>0, <2>1, <2>2
    <2>4. Match(Nth(m), w, off, older) /\ load_entry(sb, w, off, older) = Nth(m)
      BY <1>2, <2>1, <2>2, <2>3
    <2>5. ASSUME NEW x \in m + 1 .. sb.count - 1, Match(Nth(x), w, off, older) PROVE FALSE
      <3>1. x \in 0 .. sb.count - 1
        BY <1>0, <2>3
      <3>2. n <= sb.count - 1 - x
        BY <1>4, <2>1, <2>5, <3>1
      <3> QED BY <1>0, <2>1, <2>3, <3>1, <3>2
    <2> QED BY <2>4, <2>5
  <1> QED BY <1>5, <1>6

\* Older tags are the tags of older instructions.
LEMMA OlderIs ==
    ASSUME Typed, NEW i \in Positions, NEW j \in Positions PROVE Tag(j) \in OlderTags(i) <=> j < i
  <1>0. i \in 1 .. ROB_DEPTH /\ j \in 1 .. ROB_DEPTH /\ rob_head \in RobTags /\ ROB_DEPTH \in Nat
    BY PositionsAre, LsAssumption DEF Typed
  <1>1. (Tag(j) - rob_head) % ROB_DEPTH = j - 1 /\ (Tag(i) - rob_head) % ROB_DEPTH = i - 1
    BY <1>0, Tags
  <1>2. Tag(j) \in RobTags
    <2>1. j \in Int
      BY <1>0
    <2> QED BY <1>0, <2>1, Tags
  <1>3. j - 1 < i - 1 <=> j < i
    BY <1>0
  <1> QED BY <1>1, <1>2, <1>3 DEF OlderTags

\* A settled store that does not fault has executed.
LEMMA SettledExecuted ==
    ASSUME Typed, Linked, NEW i \in Positions, Settled(i), NEW j \in 1 .. i - 1, j \in StoresInFlight, Effective(j)
    PROVE  Executed(j)
  <1>1. rob[j].stage \in {"store_wb", "complete"} /\ ~rob[j].exc
    BY DEF Settled, Effective
  <1>2. j \in Positions
    BY FlightIs
  <1>3. rob[j].stage = "store_wb" => ~is_load(rob[j].op)
    BY <1>2 DEF Linked
  <1>4. rob[j].stage = "store_wb" => rob[j].op # "AMO"
    BY <1>3 DEF is_load
  <1> QED BY <1>1, <1>4 DEF Executed

\* The entries a load matches are the committed ones of its word and those of the older stores to it.
Matching(i, w) ==
    /\ \A m \in 0 .. NumCommitted - 1 : Match(Nth(m), w, 0, OlderTags(i)) <=> Nth(m).word = w
    /\ \A j \in StoresInFlight : j < i /\ Hits(j, w) => Match(Own(j), w, 0, OlderTags(i))
    /\ \A j \in StoresInFlight : Match(Own(j), w, 0, OlderTags(i))
            => j < i /\ Hits(j, w) /\ Own(j).data = rob[j].id

LEMMA MatchIs ==
    ASSUME FullWords, LsInv, Tagged, CommittedWords, NEW i \in Positions, Settled(i), NEW w
    PROVE  Matching(i, w)
  <1>0. Typed /\ Linked /\ Filled /\ InOrder(NumCommitted) /\ SB_DEPTH \in Nat
    BY InOrderIs, SbAssumption DEF LsInv
  <1>i. i \in Nat /\ i \in Positions /\ StoresInFlight \subseteq Positions /\ \A j \in StoresInFlight : j \in Nat \ {0}
    BY <1>0, PositionsAre, FlightIs
  <1>1. ASSUME NEW m \in 0 .. NumCommitted - 1
        PROVE  Match(Nth(m), w, 0, OlderTags(i)) <=> Nth(m).word = w
    <2>1. NumCommitted \in 0 .. SB_DEPTH
      BY <1>0 DEF InOrder
    <2>2. m \in 0 .. SB_DEPTH - 1 /\ m < NumCommitted /\ sb.count \in Nat /\ m < sb.count
      <3>1. Count(StoresInFlight, Len(rob)) \in Nat
        <4>1. 0 \in 0 .. Len(rob) /\ Len(rob) \in 0 .. Len(rob)
          BY <1>0, PositionsAre
        <4> QED BY <1>0, <4>1, OwnEntries
      <3>2. sb.count = NumCommitted + Count(StoresInFlight, Len(rob))
        BY <1>0 DEF InOrder
      <3> QED BY <1>0, <2>1, <3>1, <3>2
    <2>3. Nth(m).valid /\ Nth(m).committed /\ Nth(m).ready
      BY <1>0, <2>2 DEF InOrder
    <2>4. Nth(m).off = 0
      BY DEF CommittedWords
    <2> QED BY <2>3, <2>4 DEF Match
  <1>2. ASSUME NEW j \in StoresInFlight
        PROVE  /\ Own(j).valid /\ ~Own(j).committed
               /\ Executed(j) => Own(j).word = rob[j].word /\ Own(j).off = 0 /\ Own(j).data = rob[j].id /\ Own(j).ready
    <2>1. PICK m : m = NumCommitted + Count(StoresInFlight, j - 1)
      OBVIOUS
    <2>2. m \in 0 .. SB_DEPTH - 1 /\ m < sb.count /\ ~(m < NumCommitted)
      <3>1. Count(StoresInFlight, j - 1) \in Nat
        BY <1>0, OwnEntries
      <3>2. m \in 0 .. SB_DEPTH - 1 /\ m < sb.count
        BY <1>0, <2>1, OwnEntries
      <3>3. NumCommitted \in 0 .. SB_DEPTH
        BY <1>0 DEF InOrder
      <3> QED BY <1>0, <2>1, <3>1, <3>2, <3>3
    <2>3. Own(j) = Nth(m)
      BY <2>1 DEF Own
    <2>4. Nth(m).valid /\ ~Nth(m).committed
      BY <1>0, <2>2 DEF InOrder
    <2>5. Executed(j) => Holds(Own(j), rob[j])
      BY <1>0 DEF Filled
    <2>6. rob[j].off = 0
      BY <1>0, <1>i, FullOp
    <2> QED BY <2>3, <2>4, <2>5, <2>6 DEF Holds
  <1>3. ASSUME NEW j \in StoresInFlight, j < i, Hits(j, w) PROVE Match(Own(j), w, 0, OlderTags(i))
    <2>1. j \in 1 .. i - 1
      BY <1>i, <1>3
    <2>2. Executed(j)
      BY <1>0, <1>3, <2>1, SettledExecuted DEF Hits
    <2>3. Own(j).tag = Tag(j)
      BY <1>2, <2>2 DEF Tagged
    <2>4. Tag(j) \in OlderTags(i)
      BY <1>0, <1>i, <1>3, OlderIs
    <2> QED BY <1>2, <1>3, <2>2, <2>3, <2>4 DEF Match, Hits
  <1>4. ASSUME NEW j \in StoresInFlight, Match(Own(j), w, 0, OlderTags(i))
        PROVE  j < i /\ Hits(j, w) /\ Own(j).data = rob[j].id
    <2>1. Own(j).ready /\ Own(j).word = w /\ Own(j).tag \in OlderTags(i)
      BY <1>2, <1>4 DEF Match
    <2>2. Executed(j) /\ Own(j).tag = Tag(j)
      BY <2>1 DEF Tagged
    <2>3. j < i
      BY <1>0, <1>i, <2>1, <2>2, OlderIs
    <2>4. Effective(j)
      <3>1. is_store(rob[j].op) /\ ~rob[j].exc
        BY <2>2 DEF StoresInFlight, Executed
      <3>2. j \in Positions
        BY <1>i
      <3> QED BY <1>0, <3>1, <3>2, FullOp
    <2> QED BY <1>2, <2>1, <2>2, <2>3, <2>4 DEF Hits
  <1> QED BY <1>1, <1>3, <1>4 DEF Matching

\* A value of full words is not the value of a load that has none.
LEMMA AsValIs == ASSUME NEW v PROVE AsVal(v) # NoVal
  <1>1. 1 \in 1 .. BYTES
    BY SbAssumption
  <1>2. DOMAIN AsVal(v) = 1 .. BYTES
    BY DEF AsVal
  <1>3. DOMAIN NoVal = {}
    BY DEF NoVal
  <1> QED BY <1>1, <1>2, <1>3

\* What a load that leaves translation gets from the store queue and the store buffer.
LEMMA ForwardIs ==
    ASSUME FullWords, LsInv, NEW i \in Positions, sq = <<>>
    PROVE  Forwarded(i) = IF load_hit(sb, rob[i].word, 0, OlderTags(i))
                          THEN AsVal(Bytes(load_entry(sb, rob[i].word, 0, OlderTags(i)).data))
                          ELSE NoVal
  <1>0. Typed /\ BYTES \in Nat \ {0}
    BY SbAssumption DEF LsInv
  <1>1. Size(rob[i].op) = BYTES /\ rob[i].off = 0 /\ Touches(rob[i].op, rob[i].off) = Offsets
    BY <1>0, FullOp
  <1>2. ~fwd_query_hit(i)
    <2>1. 0 \in Offsets
      BY <1>0 DEF Offsets
    <2>2. Len(sq) = 0
      OBVIOUS
    <2>3. SqFor(i, 0) = {}
      BY <2>2 DEF SqFor
    <2> QED BY <1>1, <2>1, <2>3 DEF fwd_query_hit
  <1>3. ASSUME NEW d PROVE [x \in 1 .. BYTES |-> <<d, x - 1>>] = AsVal(Bytes(d))
    <2>1. \A x \in 1 .. BYTES : Bytes(d)[x - 1] = <<d, x - 1>>
      BY <1>0 DEF Bytes, Offsets
    <2> QED BY <2>1 DEF AsVal
  <1>4. PICK e : e = load_entry(sb, rob[i].word, 0, OlderTags(i)).data
    OBVIOUS
  <1>5. Forwarded(i) = IF load_hit(sb, rob[i].word, 0, OlderTags(i))
                       THEN [x \in 1 .. BYTES |-> <<e, x - 1>>] ELSE NoVal
    BY <1>1, <1>2, <1>4 DEF Forwarded
  <1> QED BY <1>3, <1>4, <1>5

\* The search finds what program order says, or nothing when only the cache knows.
LEMMA Found ==
    ASSUME FullWords, LsInv, Tagged, CommittedWords, NEW i \in Positions, Settled(i), sq = <<>>,
           NEW w, w = rob[i].word
    PROVE  /\ Forwarded(i) # NoVal => \E v : Sees(i, w, v) /\ Forwarded(i) = AsVal(v)
           /\ Forwarded(i) = NoVal => InCache(i, w)
  <1>0. Typed /\ Linked /\ InOrder(NumCommitted) /\ SB_DEPTH \in Nat
    BY InOrderIs, SbAssumption DEF LsInv
  <1>i. /\ i \in Nat /\ StoresInFlight \subseteq Nat \ {0} /\ w \in Words
        /\ Positions = 1 .. Len(rob) /\ Len(rob) \in Nat /\ i \in 1 .. Len(rob)
    BY <1>0, PositionsAre, FlightIs, RobTyped
  <1>c. PICK c : c = NumCommitted
    OBVIOUS
  <1>o. PICK older : older = OlderTags(i)
    OBVIOUS
  <1>1. /\ \A m \in 0 .. c - 1 : Match(Nth(m), w, 0, older) <=> Nth(m).word = w
        /\ \A j \in StoresInFlight : j < i /\ Hits(j, w) => Match(Own(j), w, 0, older)
        /\ \A j \in StoresInFlight : Match(Own(j), w, 0, older)
             => j < i /\ Hits(j, w) /\ Own(j).data = rob[j].id
    <2>1. Matching(i, w)
      BY MatchIs
    <2> QED BY <1>c, <1>o, <2>1 DEF Matching
  <1>2. /\ c \in 0 .. SB_DEPTH /\ sb.count = c + Count(StoresInFlight, Len(rob))
        /\ Count(StoresInFlight, Len(rob)) \in Nat /\ sb.count \in Nat
    <2>1. c \in 0 .. SB_DEPTH /\ sb.count = c + Count(StoresInFlight, Len(rob))
      BY <1>0, <1>c DEF InOrder
    <2>2. Count(StoresInFlight, Len(rob)) \in Nat
      BY <1>i, CountSteps
    <2> QED BY <1>0, <2>1, <2>2
  <1>3. ASSUME NEW j \in StoresInFlight
        PROVE  \E m \in c .. sb.count - 1 : m = c + Count(StoresInFlight, j - 1) /\ Own(j) = Nth(m)
    <2>1. PICK m : m = c + Count(StoresInFlight, j - 1)
      OBVIOUS
    <2>2. Count(StoresInFlight, j - 1) \in Nat /\ m < sb.count
      BY <1>0, <1>c, <2>1, OwnEntries
    <2>3. m \in c .. sb.count - 1
      BY <1>2, <2>1, <2>2
    <2>4. Own(j) = Nth(m)
      BY <1>c, <2>1 DEF Own
    <2> QED BY <2>1, <2>3, <2>4
  <1>4. ASSUME NEW l \in 1 .. i - 1, Hits(l, w) PROVE l \in StoresInFlight /\ l < i
    <2>1. l \in Positions /\ l < i
      BY <1>i
    <2> QED BY <1>4, <2>1 DEF StoresInFlight, Hits, Effective
  <1>5. PICK hit : hit = load_hit(sb, w, 0, older)
    OBVIOUS
  <1>6. PICK e : e = load_entry(sb, w, 0, older)
    OBVIOUS
  <1>7. Forwarded(i) = IF hit THEN AsVal(Bytes(e.data)) ELSE NoVal
    BY <1>o, <1>5, <1>6, ForwardIs
  <1>8. /\ ~hit => \A m \in 0 .. sb.count - 1 : ~Match(Nth(m), w, 0, older)
        /\ hit => \E m \in 0 .. sb.count - 1 :
                     /\ Match(Nth(m), w, 0, older) /\ e = Nth(m)
                     /\ \A x \in m + 1 .. sb.count - 1 : ~Match(Nth(x), w, 0, older)
    BY <1>0, <1>5, <1>6, Searched
  <1>9. CASE ~hit
    <2>1. NoStore(i, w)
      <3> SUFFICES ASSUME NEW l \in 1 .. i - 1, Hits(l, w) PROVE FALSE
        BY DEF NoStore
      <3>1. l \in StoresInFlight /\ Match(Own(l), w, 0, older)
        BY <1>1, <1>4
      <3>2. PICK m \in c .. sb.count - 1 : Own(l) = Nth(m)
        BY <1>3, <3>1
      <3>3. m \in 0 .. sb.count - 1
        BY <1>2
      <3> QED BY <1>8, <1>9, <3>1, <3>2, <3>3
    <2>2. ASSUME NEW m \in 0 .. c - 1 PROVE Nth(m).word # w
      <3>1. m \in 0 .. sb.count - 1
        BY <1>2
      <3> QED BY <1>1, <1>8, <1>9, <3>1
    <2>3. InCache(i, w)
      BY <1>c, <2>1, <2>2 DEF InCache
    <2> QED BY <1>7, <1>9, <2>3
  <1>10. CASE hit
    <2>1. PICK m \in 0 .. sb.count - 1 :
             /\ Match(Nth(m), w, 0, older) /\ e = Nth(m)
             /\ \A x \in m + 1 .. sb.count - 1 : ~Match(Nth(x), w, 0, older)
      BY <1>8, <1>10
    <2>2. Forwarded(i) = AsVal(Bytes(e.data)) /\ Forwarded(i) # NoVal
      BY <1>7, <1>10, AsValIs
    <2>3. CASE m < c
      <3>1. NoStore(i, w)
        <4> SUFFICES ASSUME NEW l \in 1 .. i - 1, Hits(l, w) PROVE FALSE
          BY DEF NoStore
        <4>1. l \in StoresInFlight /\ Match(Own(l), w, 0, older)
          BY <1>1, <1>4
        <4>2. PICK x \in c .. sb.count - 1 : Own(l) = Nth(x)
          BY <1>3, <4>1
        <4>3. x \in m + 1 .. sb.count - 1
          BY <1>2, <2>3
        <4> QED BY <2>1, <4>1, <4>2, <4>3
      <3>2. m \in 0 .. c - 1
        BY <1>2, <2>3
      <3>3. Nth(m).word = w
        BY <1>1, <2>1, <3>2
      <3>4. ASSUME NEW x \in m + 1 .. c - 1 PROVE Nth(x).word # w
        <4>1. x \in 0 .. c - 1 /\ x \in m + 1 .. sb.count - 1
          BY <1>2
        <4> QED BY <1>1, <2>1, <4>1
      <3>5. arch[w] = Bytes(Nth(m).data)
        BY <1>c, <1>i, <3>2, <3>3, <3>4, MemWord
      <3>6. Sees(i, w, Bytes(e.data))
        BY <2>1, <3>1, <3>5 DEF Sees
      <3> QED BY <2>2, <3>6
    <2>4. CASE c <= m
      <3>1. PICK q \in Nat : q = m - c
        BY <1>2, <2>4
      <3>2. q < Count(StoresInFlight, Len(rob)) /\ m = c + q
        BY <1>2, <3>1
      <3>3. PICK j \in StoresInFlight : j <= Len(rob) /\ Count(StoresInFlight, j - 1) = q
        BY <1>i, <3>2, CountOnto
      <3>4. Own(j) = Nth(m)
        BY <1>c, <3>2, <3>3 DEF Own
      <3>5. j < i /\ Hits(j, w) /\ Own(j).data = rob[j].id
        BY <1>1, <2>1, <3>4
      <3>6. ASSUME NEW l \in j + 1 .. i - 1, Hits(l, w) PROVE FALSE
        <4>1. j \in Nat \ {0} /\ l \in 1 .. i - 1 /\ j <= l - 1 /\ l - 1 \in Nat /\ j - 1 \in Nat /\ (j - 1) + 1 = j
          BY <1>i
        <4>2. l \in StoresInFlight /\ Match(Own(l), w, 0, older)
          BY <1>1, <1>4, <3>6, <4>1
        <4>3. Count(StoresInFlight, j) <= Count(StoresInFlight, l - 1)
          BY <1>i, <4>1, CountGrows
        <4>4. Count(StoresInFlight, j) = Count(StoresInFlight, j - 1) + 1
          <5>1. Count(StoresInFlight, (j - 1) + 1) = IF (j - 1) + 1 \in StoresInFlight
                  THEN Count(StoresInFlight, j - 1) + 1 ELSE Count(StoresInFlight, j - 1)
            BY <1>i, <4>1, CountSteps
          <5> QED BY <4>1, <5>1
        <4>5. PICK x \in c .. sb.count - 1 : x = c + Count(StoresInFlight, l - 1) /\ Own(l) = Nth(x)
          BY <1>3, <4>2
        <4>6. Count(StoresInFlight, l - 1) \in Nat
          BY <1>i, <4>1, CountSteps
        <4>7. x \in m + 1 .. sb.count - 1
          BY <1>2, <3>2, <3>3, <4>3, <4>4, <4>5, <4>6
        <4> QED BY <2>1, <4>2, <4>5, <4>7
      <3>7. j \in 1 .. i - 1
        BY <1>i, <3>5
      <3>8. LastStore(i, w, j)
        BY <3>5, <3>6, <3>7 DEF LastStore
      <3>9. e.data = rob[j].id
        BY <2>1, <3>4, <3>5
      <3>10. Sees(i, w, Bytes(e.data))
        BY <3>7, <3>8, <3>9 DEF Sees
      <3> QED BY <2>2, <3>10
    <2> QED BY <1>2, <2>2, <2>3, <2>4
  <1> QED BY <1>5, <1>9, <1>10

\* Memory answers a load whose word no older store is about.
LEMMA CacheAnswers ==
    ASSUME FullWords, LsInv, CommittedWords, NEW i \in Positions, NEW w, w = rob[i].word, InCache(i, w)
    PROVE  Sees(i, w, arch[w]) /\ Loaded(i) = AsVal(arch[w])
  <1>0. Typed /\ BYTES \in Nat \ {0}
    BY SbAssumption DEF LsInv
  <1>1. Size(rob[i].op) = BYTES /\ rob[i].off = 0 /\ w \in Words
    BY <1>0, FullOp
  <1>2. memory[w] = arch[w]
    BY <1>1, MemWord DEF InCache
  <1>3. \A x \in 1 .. BYTES : 0 + x - 1 = x - 1
    BY <1>0
  <1>4. Loaded(i) = [x \in 1 .. BYTES |-> memory[w][0 + x - 1]]
    BY <1>1 DEF Loaded
  <1>5. Loaded(i) = AsVal(arch[w])
    BY <1>2, <1>3, <1>4 DEF AsVal
  <1> QED BY <1>5 DEF Sees, InCache

\* What a load sees, byte by byte.
LEMMA SeesBytes ==
    ASSUME FullWords, Typed, NEW i \in Positions, NEW w, NEW v, Sees(i, w, v), NEW b \in Offsets
    PROVE  ProgramByte(i, w, b) = v[b]
  <1>i. i \in Nat /\ Positions = 1 .. Len(rob) /\ Len(rob) \in Nat /\ i <= Len(rob)
    BY PositionsAre
  <1>1. PICK S : S = {j \in 1 .. i - 1 :
                        Effective(j) /\ rob[j].word = w /\ b \in Touches(rob[j].op, rob[j].off)}
    OBVIOUS
  <1>2. \A j \in 1 .. i - 1 : j \in S <=> Hits(j, w)
    <2> SUFFICES ASSUME NEW j \in 1 .. i - 1 PROVE j \in S <=> Hits(j, w)
      OBVIOUS
    <2>1. Touches(rob[j].op, rob[j].off) = Offsets
      <3>1. j \in Positions
        BY <1>i
      <3> QED BY <3>1, FullOp
    <2> QED BY <1>1, <2>1 DEF Hits
  <1>3. S \subseteq 1 .. i - 1
    BY <1>1
  <1>4. ProgramByte(i, w, b) = IF S = {} THEN arch[w][b] ELSE <<rob[Max(S)].id, b - rob[Max(S)].off>>
    BY <1>1 DEF ProgramByte
  <1>5. ASSUME NEW j \in 1 .. i - 1, LastStore(i, w, j), v = Bytes(rob[j].id) PROVE ProgramByte(i, w, b) = v[b]
    <2>1. j \in S
      BY <1>2, <1>5 DEF LastStore
    <2>2. ASSUME NEW x \in S PROVE j >= x
      <3>1. x \in 1 .. i - 1 /\ Hits(x, w)
        BY <1>2, <1>3
      <3>2. x \notin j + 1 .. i - 1
        BY <1>5, <3>1 DEF LastStore
      <3> QED BY <3>1, <3>2
    <2>3. Max(S) = j
      <3>1. \A x \in S : (\A y \in S : x >= y) => x = j
        BY <1>3, <2>1, <2>2
      <3>2. Max(S) = CHOOSE x \in S : \A y \in S : x >= y
        BY DEF Max
      <3> QED BY <2>1, <2>2, <3>1, <3>2
    <2>4. rob[j].off = 0
      <3>1. j \in Positions
        BY <1>i
      <3> QED BY <3>1, FullOp
    <2>5. b - 0 = b /\ v[b] = <<rob[j].id, b>>
      BY <1>5 DEF Bytes, Offsets
    <2> QED BY <1>4, <2>1, <2>3, <2>4, <2>5
  <1>6. ASSUME NoStore(i, w), v = arch[w] PROVE ProgramByte(i, w, b) = v[b]
    <2>1. S = {}
      BY <1>2, <1>3, <1>6 DEF NoStore
    <2> QED BY <1>4, <1>6, <2>1
  <1> QED BY <1>5, <1>6 DEF Sees

-----------------------------------------------------------------------------
(* A clock cycle.                                                          *)

\* What has left the station, or leaves it, is behind settled stores.
LEMMA LeavesSettled ==
    ASSUME Typed, Linked, Behind, NEW bundle, NEW issue, NEW fire, NEW fault, NEW accept, NEW wb, NEW k,
           Chosen(bundle, issue, fire, fault, accept, wb, k), NEW i \in Positions, is_load(rob[i].op),
           rob[i].stage # "rs" \/ i \in fire \/ i \in issue
    PROVE  Settled(i)
  <1>1. CASE rob[i].stage # "rs"
    BY <1>1 DEF Behind
  <1>2. CASE rob[i].stage = "rs"
    <2>1. Issuable(i)
      <3>1. CASE i \in fire
        <4>1. i \in MayFire(wb, fault)
          BY <3>1 DEF Chosen, AtMostOne
        <4>2. Tag(i) \notin front
          BY <1>2 DEF Linked
        <4> QED BY <4>1, <4>2 DEF MayFire
      <3>2. CASE i \in issue
        <4>1. i \in MayIssue
          BY <3>2 DEF Chosen, AtMostOne
        <4> QED BY <4>1 DEF MayIssue
      <3> QED BY <1>2, <3>1, <3>2
    <2>2. ~block_load(i) /\ front = {} /\ ~amo_inflight
      BY <2>1 DEF Issuable
    <2> SUFFICES ASSUME NEW j \in 1 .. i - 1, is_store(rob[j].op) PROVE rob[j].stage \in {"store_wb", "complete"}
      BY DEF Settled
    <2>3. j \in Positions
      BY PositionsAre
    <2>4. rob[j].stage \in Stages
      BY <2>3, RobTyped
    <2>5. rob[j].stage # "rs"
      BY <2>2 DEF block_load
    <2>6. rob[j].stage # "front"
      BY <2>2, <2>3 DEF Linked
    <2>7. rob[j].stage \notin InLane
      <3> SUFFICES ASSUME rob[j].stage \in InLane PROVE FALSE
        OBVIOUS
      <3>1. is_load(rob[j].op)
        BY <2>3 DEF Linked
      <3>2. rob[j].op = "AMO"
        BY <3>1 DEF is_load, is_store
      <3> QED BY <2>2, <2>3, <3>2 DEF amo_inflight
    <2> QED BY <2>4, <2>5, <2>6, <2>7 DEF Stages, InLane
  <1> QED BY <1>1, <1>2

\* The stages the moving instructions come from.
LEMMA ChosenStages ==
    ASSUME Typed, Linked, NEW bundle, NEW issue, NEW fire, NEW fault, NEW accept, NEW wb, NEW k,
           Chosen(bundle, issue, fire, fault, accept, wb, k)
    PROVE  /\ \A i \in fire : rob[i].stage \in {"front", "rs"}
           /\ \A i \in issue : rob[i].stage = "rs"
           /\ \A i \in accept : rob[i].stage = "S_LD_REQ"
           /\ \A i \in wb : rob[i].stage \in {"store_wb", "S_LD_RSP", "S_RESP"}
  <1>1. \A i \in fire : \/ rob[i].stage = "front" /\ front = {Tag(i)}
                        \/ rob[i].stage = "rs" /\ front = {} /\ (xlate => fault)
    BY ChosenAre
  <1>2. \A i \in issue : rob[i].stage = "rs"
    BY ChosenAre
  <1>3. \A i \in accept : rob[i].stage = "S_LD_REQ"
    BY ChosenAre
  <1>4. \A i \in wb : IF store_wb # <<>> THEN rob[i].stage = "store_wb" /\ store_wb = <<Tag(i)>>
                      ELSE rob[i].stage \in {"S_LD_RSP", "S_RESP"}
    BY ChosenAre
  <1> QED BY <1>1, <1>2, <1>3, <1>4

\* The instructions before a settled one stay what they are.
LEMMA SettledKeep ==
    ASSUME Typed, Linked, NEW bundle, NEW issue, NEW fire, NEW fault, NEW accept, NEW wb, NEW k, NEW ready,
           Step(bundle, issue, fire, fault, accept, wb, k, ready),
           NEW j \in 1 .. Len(rob) - k, NEW i, i = j + k, Settled(i), NEW l \in 1 .. j - 1, NEW x, x = l + k
    PROVE  /\ x \in 1 .. i - 1 /\ x \in Positions
           /\ rob'[l].op = rob[x].op /\ rob'[l].id = rob[x].id /\ rob'[l].word = rob[x].word
           /\ is_store(rob[x].op) => /\ rob'[l].exc = rob[x].exc /\ rob'[l].sc_fail = rob[x].sc_fail
                                     /\ rob'[l].stage \in {"store_wb", "complete"}
  <1>c. Chosen(bundle, issue, fire, fault, accept, wb, k)
    BY DEF Step
  <1>0. k \in Nat /\ Len(rob) \in Nat
    BY RobNext DEF Step
  <1>1. x \in 1 .. i - 1 /\ l \in 1 .. Len(rob) - k
    BY <1>0
  <1>2. x \in Positions /\ rob'[l] = After(x, issue, fire, fault, accept, wb)
    BY <1>1, RobNext DEF Step
  <1>3. PICK a : a = After(x, issue, fire, fault, accept, wb)
    OBVIOUS
  <1>4. /\ a.op = rob[x].op /\ a.id = rob[x].id /\ a.word = rob[x].word
        /\ x \notin fire => a.exc = rob[x].exc /\ a.sc_fail = rob[x].sc_fail
        /\ x \in wb => a.stage = "complete"
        /\ x \notin wb \cup fire \cup issue \cup accept => a = rob[x]
    BY <1>c, <1>2, <1>3, AfterTyped
  <1>5. ASSUME is_store(rob[x].op)
        PROVE  /\ a.exc = rob[x].exc /\ a.sc_fail = rob[x].sc_fail
               /\ a.stage \in {"store_wb", "complete"}
    <2>1. rob[x].stage \in {"store_wb", "complete"}
      BY <1>1, <1>5 DEF Settled
    <2>2. x \notin fire /\ x \notin issue /\ x \notin accept
      <3>1. /\ \A q \in fire : rob[q].stage \in {"front", "rs"}
            /\ \A q \in issue : rob[q].stage = "rs"
            /\ \A q \in accept : rob[q].stage = "S_LD_REQ"
        BY <1>c, ChosenStages
      <3> QED BY <2>1, <3>1
    <2> QED BY <1>4, <2>1, <2>2
  <1> QED BY <1>1, <1>2, <1>3, <1>4, <1>5

LEMMA SettledNext ==
    ASSUME Typed, Linked, NEW bundle, NEW issue, NEW fire, NEW fault, NEW accept, NEW wb, NEW k, NEW ready,
           Step(bundle, issue, fire, fault, accept, wb, k, ready),
           NEW j \in 1 .. Len(rob) - k, NEW i, i = j + k, Settled(i)
    PROVE  /\ Settled(j)'
           /\ \A l \in 1 .. j - 1 : /\ l + k \in 1 .. i - 1 /\ rob'[l].id = rob[l + k].id
                                    /\ \A w : Hits(l, w)' <=> Hits(l + k, w)
  <1>1. ASSUME NEW l \in 1 .. j - 1
        PROVE  /\ l + k \in 1 .. i - 1 /\ rob'[l].id = rob[l + k].id
               /\ \A w : Hits(l, w)' <=> Hits(l + k, w)
               /\ is_store(rob'[l].op) => rob'[l].stage \in {"store_wb", "complete"}
    <2>1. PICK x : x = l + k
      OBVIOUS
    <2>2. /\ x \in 1 .. i - 1 /\ x \in Positions
          /\ rob'[l].op = rob[x].op /\ rob'[l].id = rob[x].id /\ rob'[l].word = rob[x].word
          /\ is_store(rob[x].op) => /\ rob'[l].exc = rob[x].exc /\ rob'[l].sc_fail = rob[x].sc_fail
                                    /\ rob'[l].stage \in {"store_wb", "complete"}
      BY <2>1, SettledKeep
    <2>3. \A w : Hits(l, w)' <=> Hits(x, w)
      BY <2>2 DEF Hits, Effective
    <2> QED BY <2>1, <2>2, <2>3
  <1>2. Settled(j)'
    BY <1>1 DEF Settled
  <1> QED BY <1>1, <1>2

\* What a load sees does not change, whatever retires.
LEMMA SeesNext ==
    ASSUME FullWords, Typed, Linked,
           NEW bundle, NEW issue, NEW fire, NEW fault, NEW accept, NEW wb, NEW k, NEW ready,
           Step(bundle, issue, fire, fault, accept, wb, k, ready),
           NEW j \in 1 .. Len(rob) - k, NEW i, i = j + k, Settled(i), NEW w \in Words, NEW v, Sees(i, w, v)
    PROVE  Sees(j, w, v)'
  <1>c. Chosen(bundle, issue, fire, fault, accept, wb, k)
    BY DEF Step
  <1>0. k \in Nat /\ Len(rob) \in Nat /\ k \in 0 .. Len(rob) /\ i \in Nat
    BY RobNext DEF Step
  <1>1. \A l \in 1 .. j - 1 : /\ l + k \in 1 .. i - 1 /\ rob'[l].id = rob[l + k].id
                              /\ \A z : Hits(l, z)' <=> Hits(l + k, z)
    BY SettledNext
  <1>2. /\ (\A l \in 1 .. k : ~Hits(l, w)) => arch'[w] = arch[w]
        /\ \A y \in 1 .. k : Hits(y, w) /\ (\A l \in y + 1 .. k : ~Hits(l, w)) => arch'[w] = Bytes(rob[y].id)
    <2>1. \A y \in 1 .. k : rob[y].stage = "complete" /\ ~rob[y].exc
      BY <1>c, ChosenAre
    <2>2. arch' = ArchAfter(k)
      BY DEF Step, Cycle
    <2>3. /\ (\A l \in 1 .. k : ~Hits(l, w)) => ArchAfter(k)[w] = arch[w]
          /\ \A y \in 1 .. k : Hits(y, w) /\ (\A l \in y + 1 .. k : ~Hits(l, w)) => ArchAfter(k)[w] = Bytes(rob[y].id)
      BY <1>0, <2>1, ArchWord
    <2> QED BY <2>2, <2>3
  <1>3. ASSUME NEW y \in 1 .. i - 1, LastStore(i, w, y), v = Bytes(rob[y].id) PROVE Sees(j, w, v)'
    <2>1. Hits(y, w) /\ \A l \in y + 1 .. i - 1 : ~Hits(l, w)
      BY <1>3 DEF LastStore
    <2>2. CASE y <= k
      <3>1. arch'[w] = v
        <4>1. y \in 1 .. k /\ \A l \in y + 1 .. k : l \in y + 1 .. i - 1
          BY <1>0, <2>2
        <4> QED BY <1>2, <1>3, <2>1, <4>1
      <3>2. ASSUME NEW l \in 1 .. j - 1 PROVE ~Hits(l, w)'
        <4>1. l + k \in y + 1 .. i - 1
          BY <1>0, <2>2
        <4> QED BY <1>1, <2>1, <4>1
      <3>3. NoStore(j, w)'
        BY <3>2 DEF NoStore
      <3> QED BY <3>1, <3>3 DEF Sees
    <2>3. CASE k < y
      <3>1. PICK z \in 1 .. j - 1 : z + k = y
        <4>1. y - k \in 1 .. j - 1 /\ (y - k) + k = y
          BY <1>0, <2>3
        <4> QED BY <4>1
      <3>2. Hits(z, w)' /\ rob'[z].id = rob[y].id
        BY <1>1, <2>1, <3>1
      <3>3. ASSUME NEW l \in z + 1 .. j - 1 PROVE ~Hits(l, w)'
        <4>1. l \in 1 .. j - 1 /\ l + k \in y + 1 .. i - 1
          BY <1>0, <3>1
        <4> QED BY <1>1, <2>1, <4>1
      <3>4. LastStore(j, w, z)'
        BY <3>2, <3>3 DEF LastStore
      <3>5. v = Bytes(rob'[z].id)
        BY <1>3, <3>2
      <3>6. Sees(j, w, v)' <=> \/ \E q \in 1 .. j - 1 : LastStore(j, w, q)' /\ v = Bytes(rob'[q].id)
                               \/ NoStore(j, w)' /\ v = arch'[w]
        BY DEF Sees, Bytes
      <3> QED BY <3>4, <3>5, <3>6
    <2> QED BY <1>0, <2>2, <2>3
  <1>4. ASSUME NoStore(i, w), v = arch[w] PROVE Sees(j, w, v)'
    <2>1. arch'[w] = v
      <3>1. \A l \in 1 .. k : l \in 1 .. i - 1
        BY <1>0
      <3> QED BY <1>2, <1>4, <3>1 DEF NoStore
    <2>2. NoStore(j, w)'
      BY <1>1, <1>4 DEF NoStore
    <2> QED BY <2>1, <2>2 DEF Sees
  <1> QED BY <1>3, <1>4 DEF Sees

\* Where a committed entry comes from: it was one, or its store retires.
Descends(e, k) ==
    \/ \E m \in 0 .. NumCommitted - 1 : e.op = Nth(m).op /\ e.off = Nth(m).off /\ e.word = Nth(m).word
    \/ \E i \in StoresInFlight : i <= k /\ e.op = BufferOp(rob[i]) /\ e.off = rob[i].off /\ e.word = rob[i].word

LEMMA DescendsIs ==
    ASSUME LsInv, NEW k \in 0 .. Len(rob), \A i \in 1 .. k : rob[i].stage = "complete" /\ ~rob[i].exc,
           NEW m \in 0 .. SB_DEPTH - 1, m < NumCommitted + Count(StoresInFlight, k), NEW e,
           e = Nth(m) \/ e = [Nth(m) EXCEPT !.committed = TRUE]
    PROVE  Descends(e, k)
  <1>0. Typed /\ Filled /\ InOrder(NumCommitted)
    BY InOrderIs DEF LsInv
  <1>1. e.op = Nth(m).op /\ e.off = Nth(m).off /\ e.word = Nth(m).word
    <2>1. Nth(m) \in SbEntry
      BY <1>0, NthTyped
    <2> QED BY <2>1 DEF SbEntry
  <1>2. CASE m < NumCommitted
    <2>1. NumCommitted \in 0 .. SB_DEPTH /\ SB_DEPTH \in Nat
      BY <1>0, SbAssumption DEF InOrder
    <2>2. m \in 0 .. NumCommitted - 1
      BY <1>2, <2>1
    <2> QED BY <1>1, <2>2 DEF Descends
  <1>3. CASE NumCommitted <= m
    <2>1. PICK i \in StoresInFlight : i <= k /\ Holds(Nth(m), rob[i])
      BY <1>0, <1>3, RetiringReady
    <2> QED BY <1>1, <2>1 DEF Holds, Descends
  <1>4. NumCommitted \in Int
    BY <1>0 DEF InOrder
  <1> QED BY <1>2, <1>3, <1>4

\* The quantities of a cycle.
Counted(c, r, n, p, ex, d, bundle, fire, fault, wb, k, ready) ==
    /\ InOrder(c) /\ c = NumCommitted /\ Parts(c, r, n, p, ex, bundle, fire, fault, wb, k, ready)
    /\ d = c + r - p /\ d = NumCommitted' /\ Drained(c, r, p, k) /\ Buffered(c, r, n, p, ex, k, ready)

LEMMA StepCounted ==
    ASSUME LsInv, NEW bundle, NEW issue, NEW fire, NEW fault, NEW accept, NEW wb, NEW k, NEW ready,
           Step(bundle, issue, fire, fault, accept, wb, k, ready)
    PROVE  \E c, r, n, p, ex, d : Counted(c, r, n, p, ex, d, bundle, fire, fault, wb, k, ready)
  <1>0. Typed /\ Linked /\ StoresInOrder /\ Filled
    BY DEF LsInv
  <1>1. PICK c : c = NumCommitted /\ InOrder(c)
    BY <1>0, InOrderIs
  <1>2. PICK r : r = Count(StoresInFlight, k)
    OBVIOUS
  <1>3. PICK n : n = StoreCount(bundle)
    OBVIOUS
  <1>4. PICK p : p = IF wb_fire(sb, ready) THEN 1 ELSE 0
    OBVIOUS
  <1>5. PICK ex : ex = {ExWrite(i) : i \in Writers(fire, fault, wb)}
    OBVIOUS
  <1>6. Parts(c, r, n, p, ex, bundle, fire, fault, wb, k, ready)
    BY <1>2, <1>3, <1>4, <1>5 DEF Parts
  <1>7. PICK d : d = c + r - p
    OBVIOUS
  <1>8. Drained(c, r, p, k)
    BY <1>0, <1>1, <1>6, StepDrained
  <1>9. Buffered(c, r, n, p, ex, k, ready)
    BY <1>0, <1>1, <1>6, BufferNext
  <1>10. InOrder(d)'
    BY <1>0, <1>1, <1>6, <1>7, InOrderNext
  <1>11. Typed'
    BY StepKeeps DEF LsInv
  <1>12. d = NumCommitted'
    BY <1>10, <1>11, OrderedNext DEF Ordered
  <1>13. Counted(c, r, n, p, ex, d, bundle, fire, fault, wb, k, ready)
    BY <1>1, <1>6, <1>7, <1>8, <1>9, <1>12 DEF Counted
  <1> QED BY <1>13, Zenon

LEMMA CommittedNext ==
    ASSUME LsInv, NEW bundle, NEW issue, NEW fire, NEW fault, NEW accept, NEW wb, NEW k, NEW ready,
           Step(bundle, issue, fire, fault, accept, wb, k, ready), NEW x \in 0 .. NumCommitted' - 1,
           NEW e, e = Nth(x)'
    PROVE  Descends(e, k)
  <1>0. Typed /\ SB_DEPTH \in Nat
    BY SbAssumption DEF LsInv
  <1>1. PICK c, r, n, p, ex, d : Counted(c, r, n, p, ex, d, bundle, fire, fault, wb, k, ready)
    BY StepCounted
  <1>2. c = NumCommitted /\ d = c + r - p /\ d = NumCommitted' /\ Drained(c, r, p, k)
    BY <1>1 DEF Counted
  <1>3. /\ p \in 0 .. 1 /\ p <= c /\ c \in Nat /\ r \in Nat /\ c + r <= SB_DEPTH
        /\ r = Count(StoresInFlight, k) /\ k \in 0 .. Len(rob)
        /\ \A i \in 1 .. k : rob[i].stage = "complete" /\ ~rob[i].exc
        /\ \A m \in 0 .. SB_DEPTH - 1 : m < c - p => Nth(m)' = Nth(m + p)
        /\ \A m \in 0 .. SB_DEPTH - 1 :
             c - p <= m /\ m < c + r - p => Nth(m)' = [Nth(m + p) EXCEPT !.committed = TRUE]
    BY <1>2 DEF Drained
  <1>4. x \in 0 .. SB_DEPTH - 1 /\ x < c + r - p
    BY <1>0, <1>2, <1>3
  <1>5. PICK m : m = x + p
    OBVIOUS
  <1>6. m \in 0 .. SB_DEPTH - 1 /\ m < c + r
    BY <1>0, <1>3, <1>4, <1>5
  <1>7. e = Nth(m) \/ e = [Nth(m) EXCEPT !.committed = TRUE]
    BY <1>3, <1>4, <1>5
  <1>8. m < NumCommitted + Count(StoresInFlight, k)
    BY <1>2, <1>3, <1>6
  <1> QED BY <1>3, <1>6, <1>7, <1>8, DescendsIs

\* A word that is settled in the cache stays so.
LEMMA InCacheNext ==
    ASSUME FullWords, LsInv, NEW bundle, NEW issue, NEW fire, NEW fault, NEW accept, NEW wb, NEW k, NEW ready,
           Step(bundle, issue, fire, fault, accept, wb, k, ready),
           NEW j \in 1 .. Len(rob) - k, NEW i, i = j + k, Settled(i), NEW w, InCache(i, w)
    PROVE  InCache(j, w)'
  <1>0. Typed /\ Linked
    BY DEF LsInv
  <1>c. Chosen(bundle, issue, fire, fault, accept, wb, k)
    BY DEF Step
  <1>k. k \in Nat /\ Len(rob) \in Nat /\ k \in 0 .. Len(rob) /\ i \in Nat
    BY <1>0, RobNext DEF Step
  <1>1. NoStore(j, w)'
    <2>1. \A l \in 1 .. j - 1 : /\ l + k \in 1 .. i - 1 /\ rob'[l].id = rob[l + k].id
                                /\ \A z : Hits(l, z)' <=> Hits(l + k, z)
      BY <1>0, SettledNext
    <2> QED BY <2>1 DEF InCache, NoStore
  <1>2. ASSUME NEW x \in 0 .. NumCommitted' - 1 PROVE Nth(x)'.word # w
    <2>1. PICK e : e = Nth(x)'
      OBVIOUS
    <2>2. Descends(e, k)
      BY <2>1, CommittedNext
    <2>3. ASSUME NEW l \in StoresInFlight, l <= k, e.word = rob[l].word PROVE e.word # w
      <3>1. l \in Positions /\ l \in Nat \ {0}
        BY <1>0, FlightIs
      <3>2. l \in 1 .. k /\ l \in 1 .. i - 1
        BY <1>k, <2>3, <3>1
      <3>3. ~rob[l].exc
        BY <1>0, <1>c, <3>2, ChosenAre
      <3>4. Effective(l)
        BY <1>0, <3>1, <3>3, FullOp DEF StoresInFlight
      <3>5. ~Hits(l, w)
        BY <3>2 DEF InCache, NoStore
      <3> QED BY <2>3, <3>4, <3>5 DEF Hits
    <2> QED BY <2>1, <2>2, <2>3 DEF Descends, InCache
  <1> QED BY <1>1, <1>2 DEF InCache

LEMMA CommittedWordsNext ==
    ASSUME FullWords, LsInv, CommittedWords, NEW k, NEW e, Descends(e, k)
    PROVE  e.op = "SW" /\ e.off = 0
  <1>0. Typed
    BY DEF LsInv
  <1>1. ASSUME NEW i \in StoresInFlight, e.op = BufferOp(rob[i]), e.off = rob[i].off
        PROVE  e.op = "SW" /\ e.off = 0
    <2>1. i \in Positions /\ is_store(rob[i].op)
      BY <1>0, FlightIs DEF StoresInFlight
    <2> QED BY <1>0, <1>1, <2>1, FullOp
  <1> QED BY <1>1 DEF Descends, CommittedWords

\* What has left the station after a cycle, or has a value, was in flight before.
LEMMA Survivor ==
    ASSUME Typed, Linked, NEW bundle, NEW issue, NEW fire, NEW fault, NEW accept, NEW wb, NEW k, NEW ready,
           Step(bundle, issue, fire, fault, accept, wb, k, ready),
           NEW i \in Positions', rob'[i].stage # "rs" \/ rob'[i].val # NoVal
    PROVE  /\ i \in 1 .. Len(rob) - k /\ i + k \in Positions
           /\ rob'[i] = After(i + k, issue, fire, fault, accept, wb)
  <1>1. bundle \in Bundles /\ Room(bundle)
    BY DEF Step, Chosen
  <1>2. ASSUME NEW n \in 1 .. Len(bundle), i = Len(rob) - k + n PROVE FALSE
    <2>1. PICK a : a = NewEntries(bundle)[n]
      OBVIOUS
    <2>2. rob'[i] = a
      BY <1>2, <2>1, RobNext DEF Step
    <2>3. a.stage = "rs"
      BY <1>1, <2>1, NewIs
    <2>4. a.val = NoVal
      BY <2>1 DEF NewEntries, Dispatched
    <2> QED BY <2>2, <2>3, <2>4
  <1>3. i \in 1 .. Len(rob) - k
    BY <1>2, RobNext DEF Step
  <1> QED BY <1>3, RobNext DEF Step

LEMMA BehindNext ==
    ASSUME Typed, Linked, Behind,
           NEW bundle, NEW issue, NEW fire, NEW fault, NEW accept, NEW wb, NEW k, NEW ready,
           Step(bundle, issue, fire, fault, accept, wb, k, ready),
           NEW i \in Positions', is_load(rob'[i].op), rob'[i].stage # "rs"
    PROVE  Settled(i + k) /\ Settled(i)'
  <1>c. Chosen(bundle, issue, fire, fault, accept, wb, k)
    BY DEF Step
  <1>1. PICK x : x = i + k
    OBVIOUS
  <1>2. i \in 1 .. Len(rob) - k /\ x \in Positions /\ rob'[i] = After(x, issue, fire, fault, accept, wb)
    BY <1>1, Survivor
  <1>3. PICK a : a = After(x, issue, fire, fault, accept, wb)
    OBVIOUS
  <1>4. a.op = rob[x].op /\ (x \notin wb \cup fire \cup issue \cup accept => a = rob[x])
    BY <1>c, <1>2, <1>3, AfterTyped
  <1>5. rob[x].stage # "rs" \/ x \in fire \/ x \in issue
    <2>1. (x \in accept => rob[x].stage = "S_LD_REQ") /\ (x \in wb => rob[x].stage \in {"store_wb", "S_LD_RSP", "S_RESP"})
      BY <1>c, ChosenStages
    <2> QED BY <1>2, <1>3, <1>4, <2>1
  <1>6. is_load(rob[x].op)
    BY <1>2, <1>3, <1>4
  <1>7. Settled(x)
    BY <1>c, <1>2, <1>5, <1>6, LeavesSettled
  <1>8. Settled(i)'
    BY <1>1, <1>2, <1>7, SettledNext
  <1> QED BY <1>1, <1>7, <1>8

LEMMA FrontNext ==
    ASSUME Typed, Linked, FrontClear,
           NEW bundle, NEW issue, NEW fire, NEW fault, NEW accept, NEW wb, NEW k, NEW ready,
           Step(bundle, issue, fire, fault, accept, wb, k, ready)
    PROVE  FrontClear'
  <1>c. Chosen(bundle, issue, fire, fault, accept, wb, k)
    BY DEF Step
  <1> SUFFICES ASSUME sq' # <<>> \/ amo_inflight' PROVE front' = {}
    BY DEF FrontClear
  <1>1. front' = ({Tag(i) : i \in issue} \cup front) \ {Tag(i) : i \in fire}
    BY DEF Step, Cycle
  <1>2. CASE fire # {}
    <2>1. PICK q : q \in fire
      BY <1>2
    <2>2. fire = {q} /\ issue = {}
      BY <1>c, <2>1, ChosenAre
    <2>3. \/ rob[q].stage = "front" /\ front = {Tag(q)}
          \/ rob[q].stage = "rs" /\ front = {} /\ (xlate => fault)
      BY <1>c, <2>1, ChosenAre
    <2> QED BY <1>1, <2>2, <2>3
  <1>3. CASE fire = {}
    <2>1. sq' = <<>>
      BY <1>3, QueuesNext
    <2>2. PICK i \in Positions' : rob'[i].op = "AMO" /\ rob'[i].stage \in InLane
      BY <2>1 DEF amo_inflight
    <2>3. rob'[i].stage # "rs"
      BY <2>2 DEF InLane
    <2>4. PICK x : x = i + k
      OBVIOUS
    <2>5. x \in Positions /\ rob'[i] = After(x, issue, fire, fault, accept, wb)
      BY <2>3, <2>4, Survivor
    <2>6. PICK a : a = After(x, issue, fire, fault, accept, wb)
      OBVIOUS
    <2>7. /\ a.op = rob[x].op /\ (x \in wb => a.stage = "complete") /\ (x \in issue => a.stage = "front")
          /\ x \notin wb \cup fire \cup issue \cup accept => a = rob[x]
      BY <1>c, <2>5, <2>6, AfterTyped
    <2>8. x \in accept => rob[x].stage = "S_LD_REQ"
      BY <1>c, ChosenStages
    <2>9. rob[x].op = "AMO" /\ rob[x].stage \in InLane
      BY <1>3, <2>2, <2>5, <2>6, <2>7, <2>8 DEF InLane
    <2>10. amo_inflight
      BY <2>5, <2>9 DEF amo_inflight
    <2>11. front = {}
      BY <2>10 DEF FrontClear
    <2>12. issue = {}
      BY <2>10 DEF Step, Chosen, AtMostOne, MayIssue, Issuable
    <2> QED BY <1>1, <2>11, <2>12
  <1> QED BY <1>2, <1>3

\* A new entry of the buffer is not filled.
LEMMA NewOwn ==
    ASSUME LsInv, NEW bundle, NEW issue, NEW fire, NEW fault, NEW accept, NEW wb, NEW k, NEW ready,
           Step(bundle, issue, fire, fault, accept, wb, k, ready),
           NEW x \in 1 .. Len(bundle), NEW i, i = Len(rob) - k + x, i \in StoresInFlight'
    PROVE  ~Own(i)'.ready
  <1>0. Typed /\ Linked /\ SB_DEPTH \in Nat
    BY SbAssumption DEF LsInv
  <1>b. bundle \in Seq(NewOps) /\ Len(bundle) \in Nat
    <2>1. bundle \in Bundles /\ Room(bundle)
      BY DEF Step, Chosen
    <2> QED BY <1>0, <2>1, BundleIs
  <1>k. k \in Nat /\ Len(rob) \in Nat /\ k <= Len(rob)
    BY <1>0, RobNext DEF Step
  <1>1. PICK c, r, n, p, ex, d : Counted(c, r, n, p, ex, d, bundle, fire, fault, wb, k, ready)
    BY StepCounted
  <1>2. /\ d = c + r - p /\ d = NumCommitted' /\ Buffered(c, r, n, p, ex, k, ready) /\ InOrder(c)
        /\ r = Count(StoresInFlight, k) /\ n = StoreCount(bundle)
    BY <1>1 DEF Counted, Parts
  <1>3. PICK B : B = BundleStores(bundle)
    OBVIOUS
  <1>4. B \subseteq Nat \ {0} /\ n = Count(B, Len(bundle))
    BY <1>b, <1>2, <1>3, StoreCounts
  <1>5. x \in B
    BY <1>0, <1>3, FlightNext
  <1>6. Count(B, x - 1) \in Nat /\ Count(B, x - 1) < n
    <2>1. x - 1 \in Nat /\ (x - 1) + 1 = x /\ x \in Nat /\ x <= Len(bundle)
      BY <1>b
    <2>2. Count(B, (x - 1) + 1) = IF (x - 1) + 1 \in B THEN Count(B, x - 1) + 1 ELSE Count(B, x - 1)
      BY <1>4, <2>1, CountSteps
    <2>3. Count(B, x) <= Count(B, Len(bundle))
      BY <1>b, <1>4, <2>1, CountGrows
    <2>4. \A y \in Nat : Count(B, y) \in Nat
      BY <1>4, CountSteps
    <2>5. Count(B, x) = Count(B, x - 1) + 1
      BY <1>5, <2>1, <2>2
    <2> QED BY <1>b, <1>4, <2>1, <2>3, <2>4, <2>5
  <1>7. Count(StoresInFlight', i - 1) = Count(StoresInFlight, Len(rob)) - r + Count(B, x - 1)
    <2>1. x - 1 \in 0 .. Len(bundle) /\ i - 1 = Len(rob) - k + (x - 1)
      BY <1>b, <1>k
    <2>2. Count(StoresInFlight', Len(rob) - k + (x - 1)) =
            Count(StoresInFlight, Len(rob)) - Count(StoresInFlight, k) + Count(BundleStores(bundle), x - 1)
      BY <1>0, <2>1, FlightNext
    <2> QED BY <1>2, <1>3, <2>1, <2>2
  <1>8. PICK m : m = d + Count(StoresInFlight', i - 1)
    OBVIOUS
  <1>9. /\ r \in Nat /\ n \in Nat /\ p \in 0 .. 1 /\ c \in 0 .. SB_DEPTH /\ sb.count + n <= SB_DEPTH
        /\ sb.count = c + Count(StoresInFlight, Len(rob)) /\ Count(StoresInFlight, Len(rob)) \in Nat
    <2>1. r \in Nat /\ n \in Nat /\ p \in 0 .. 1 /\ sb.count + n <= SB_DEPTH
      BY <1>2 DEF Buffered
    <2>2. c \in 0 .. SB_DEPTH /\ sb.count = c + Count(StoresInFlight, Len(rob))
      BY <1>2 DEF InOrder
    <2>3. Len(rob) \in 0 .. Len(rob)
      BY <1>k
    <2>4. Count(StoresInFlight, Len(rob)) \in Nat
      BY <1>0, <1>2, <2>3, OwnEntries
    <2> QED BY <2>1, <2>2, <2>4
  <1>10. m + p = sb.count + Count(B, x - 1) /\ m \in 0 .. SB_DEPTH - 1
    <2>1. PICK t \in Nat, u \in Nat : t = Count(StoresInFlight, Len(rob)) /\ u = Count(B, x - 1)
      BY <1>6, <1>9
    <2>2. m = (c + r - p) + (t - r + u) /\ sb.count = c + t /\ u < n
      BY <1>2, <1>6, <1>7, <1>8, <1>9, <2>1
    <2>3. c <= sb.count /\ p <= c
      BY <1>2, <1>9, <2>1, <2>2 DEF Buffered
    <2>4. PICK q \in Nat : q = sb.count
      BY <1>9, <2>1
    <2>5. q = c + t /\ m = q - p + u /\ q + n <= SB_DEPTH /\ p <= q
      <3>1. c \in Int /\ r \in Int /\ p \in Int
        BY <1>9
      <3>2. p <= c /\ c + t = q /\ q + n <= SB_DEPTH /\ m = (c + r - p) + (t - r + u)
        BY <1>9, <2>2, <2>3, <2>4
      <3>3. (c + r - p) + (t - r + u) = (c + t) - p + u /\ p <= c + t
        BY <3>1, <3>2
      <3> QED BY <3>2, <3>3
    <2>6. m + p = q + u /\ m \in 0 .. SB_DEPTH - 1
      <3>1. p \in Nat /\ n \in Nat /\ u < n
        BY <1>9, <2>2
      <3> QED BY <1>0, <2>4, <2>5, <3>1, SMTT(30)
    <2> QED BY <2>1, <2>4, <2>6
  <1>11. Nth(m)' = Allocated
    <2>1. m + p # SB_DEPTH /\ sb.count <= m + p /\ m + p < sb.count + n
      BY <1>0, <1>6, <1>9, <1>10
    <2> QED BY <1>2, <1>10, <2>1 DEF Buffered
  <1>12. Own(i)' = Nth(m)'
    BY <1>2, <1>8 DEF Own, Nth
  <1> QED BY <1>11, <1>12 DEF Allocated, Free

\* The execution write puts the store's tag into its entry.
LEMMA TaggedNext ==
    ASSUME LsInv, Tagged, NEW bundle, NEW issue, NEW fire, NEW fault, NEW accept, NEW wb, NEW k, NEW ready,
           Step(bundle, issue, fire, fault, accept, wb, k, ready)
    PROVE  Tagged'
  <1>0. Typed /\ Linked
    BY DEF LsInv
  <1>c. Chosen(bundle, issue, fire, fault, accept, wb, k)
    BY DEF Step
  <1> SUFFICES ASSUME NEW i \in StoresInFlight', Own(i)'.ready PROVE Executed(i)' /\ Own(i)'.tag = Tag(i)'
    BY DEF Tagged
  <1>1. i \in 1 .. Len(rob) - k
    <2>1. i \in Positions'
      BY <1>0, FlightNext
    <2>2. i \in 1 .. Len(rob) - k \/ \E x \in 1 .. Len(bundle) : i = Len(rob) - k + x
      BY <1>0, <2>1, RobNext DEF Step
    <2> QED BY <2>2, NewOwn
  <1>2. PICK j : j = i + k
    OBVIOUS
  <1>3. PICK c, r, n, p, ex, d : Counted(c, r, n, p, ex, d, bundle, fire, fault, wb, k, ready)
    BY StepCounted
  <1>4. /\ d = c + r - p /\ d = NumCommitted' /\ InOrder(c) /\ c = NumCommitted
        /\ Parts(c, r, n, p, ex, bundle, fire, fault, wb, k, ready)
    BY <1>3 DEF Counted
  <1>5. j \in StoresInFlight /\ Own(i)' = Fill(sb, rob[j].sb, ex)
    <2>1. PICK m : m = d + Count(StoresInFlight', i - 1) /\ Nth(m)' = Fill(sb, rob[j].sb, ex)
      BY <1>0, <1>1, <1>2, <1>4, KeptEntry
    <2>2. Own(i)' = Nth(m)'
      BY <1>4, <2>1 DEF Own, Nth
    <2> QED BY <1>0, <1>1, <1>2, <1>4, <2>1, <2>2, KeptEntry
  <1>6. j \in Positions /\ rob'[i] = After(j, issue, fire, fault, accept, wb) /\ k \in Nat
    BY <1>0, <1>1, <1>2, RobNext DEF Step
  <1>7. PICK a : a = After(j, issue, fire, fault, accept, wb)
    OBVIOUS
  <1>8. /\ a.op = rob[j].op
        /\ j \notin fire => a.exc = rob[j].exc
        /\ j \in fire => a.exc = fault /\ (~is_load(rob[j].op) => a.stage = "store_wb")
        /\ j \in wb => a.stage = "complete"
        /\ j \notin wb \cup fire \cup issue \cup accept => a = rob[j]
    BY <1>0, <1>c, <1>6, <1>7, AfterTyped
  <1>9. Tag(i)' = Tag(j)
    <2>1. rob_head \in RobTags /\ rob_head' = (rob_head + k) % ROB_DEPTH
      BY <1>0 DEF Typed, Step, Cycle
    <2>2. i \in Int
      BY <1>1
    <2> QED BY <1>2, <1>6, <2>1, <2>2, TagMoves
  <1>10. PICK W \in SUBSET StoresInFlight : W = Writers(fire, fault, wb)
    BY <1>0, <1>c, WritersAre
  <1>11. ex = {ExWrite(x) : x \in W} /\ \A x \in W : StoreOp(x) \in SbOps
    BY <1>0, <1>c, <1>4, <1>10, WritersAre DEF Parts
  <1>12. Executed(i)' <=> ~a.exc /\ (a.stage = "complete" \/ (a.stage = "store_wb" /\ a.op # "AMO"))
    BY <1>6, <1>7 DEF Executed
  <1>s. /\ \A q \in fire : rob[q].stage \in {"front", "rs"}
        /\ \A q \in issue : rob[q].stage = "rs"
        /\ \A q \in accept : rob[q].stage = "S_LD_REQ"
        /\ \A q \in wb : rob[q].stage \in {"store_wb", "S_LD_RSP", "S_RESP"}
    BY <1>0, <1>c, ChosenStages
  <1>13. CASE j \in W
    <2>1. Own(i)'.tag = Tag(i)'
      <3>1. Fill(sb, rob[j].sb, ex).tag = Tag(j)
        BY <1>0, <1>4, <1>11, <1>13, FillIs
      <3> QED BY <1>5, <1>9, <3>1
    <2>2. CASE j \in StoresFired(fire, fault)
      <3>1. j \in fire /\ ~is_load(rob[j].op) /\ ~fault
        BY <2>2 DEF StoresFired
      <3>2. a.op # "AMO"
        BY <1>8, <3>1 DEF is_load
      <3> QED BY <1>8, <1>12, <2>1, <3>1, <3>2
    <2>3. CASE j \in AmosDone(wb)
      <3>1. j \in wb /\ ~rob[j].exc
        BY <2>3 DEF AmosDone
      <3>2. j \notin fire
        BY <1>s, <3>1
      <3> QED BY <1>8, <1>12, <2>1, <3>1, <3>2
    <2> QED BY <1>10, <1>13, <2>2, <2>3 DEF Writers
  <1>14. CASE j \notin W
    <2>1. Fill(sb, rob[j].sb, ex) = sb.mem[rob[j].sb]
      BY <1>0, <1>4, <1>5, <1>11, <1>14, FillIs
    <2>2. Own(j) = sb.mem[rob[j].sb]
      BY <1>4, <1>5 DEF Own, Nth, InOrder
    <2>3. Own(i)' = Own(j)
      BY <1>5, <2>1, <2>2
    <2>4. Executed(j) /\ Own(j).tag = Tag(j)
      BY <1>5, <2>3 DEF Tagged
    <2>5. ~rob[j].exc /\ (rob[j].stage = "complete" \/ (rob[j].stage = "store_wb" /\ rob[j].op # "AMO"))
      BY <2>4 DEF Executed
    <2>6. j \notin fire /\ j \notin issue /\ j \notin accept
      BY <1>s, <2>5
    <2>7. Executed(i)'
      BY <1>8, <1>12, <2>5, <2>6
    <2> QED BY <1>9, <2>3, <2>4, <2>7
  <1> QED BY <1>13, <1>14

\* A load that fires without a fault comes from translation, and no store is in the store queue.
LEMMA FiredLoad ==
    ASSUME FullWords, LsInv, FrontClear,
           NEW bundle, NEW issue, NEW fire, NEW fault, NEW accept, NEW wb, NEW k,
           Chosen(bundle, issue, fire, fault, accept, wb, k), NEW i \in fire, ~fault
    PROVE  sq = <<>> /\ rob[i].stage = "front"
  <1>0. Typed /\ Linked
    BY DEF LsInv
  <1>1. xlate
    BY <1>0 DEF Typed, FullWords
  <1>2. \/ rob[i].stage = "front" /\ front = {Tag(i)}
        \/ rob[i].stage = "rs" /\ front = {} /\ (xlate => fault)
    BY <1>0, ChosenAre
  <1> QED BY <1>1, <1>2 DEF FrontClear

\* What firing gives a load.
LEMMA FiredVal ==
    ASSUME Typed, NEW i \in Positions, NEW fault \in BOOLEAN, NEW f, f = Fired(i, fault), is_load(rob[i].op)
    PROVE  /\ fault => f.stage = "S_RESP" /\ f.val = rob[i].val
           /\ ~fault /\ Forwarded(i) = NoVal => f.stage = "S_LD_REQ" /\ f.val = rob[i].val
           /\ ~fault /\ Forwarded(i) # NoVal => f.stage = "S_RESP" /\ f.val = Forwarded(i)
  <1>1. PICK o : o = [rob[i] EXCEPT !.exc = fault]
    OBVIOUS
  <1>2. rob[i] \in RobEntry
    BY RobTyped
  <1>3. /\ o.op = rob[i].op /\ o.val = rob[i].val /\ o \in RobEntry
    BY <1>1, <1>2 DEF RobEntry
  <1>4. f = IF ~is_load(o.op)
            THEN [o EXCEPT !.stage = "store_wb", !.sc_fail = (o.op = "SC" /\ ~sc_success(i))]
            ELSE IF fault THEN [o EXCEPT !.stage = "S_RESP"]
            ELSE IF Forwarded(i) = NoVal THEN [o EXCEPT !.stage = "S_LD_REQ"]
            ELSE [o EXCEPT !.stage = "S_RESP", !.val = Forwarded(i)]
    BY <1>1 DEF Fired
  <1>5. fault => f = [o EXCEPT !.stage = "S_RESP"]
    BY <1>3, <1>4
  <1>6. ~fault /\ Forwarded(i) = NoVal => f = [o EXCEPT !.stage = "S_LD_REQ"]
    BY <1>3, <1>4
  <1>7. ~fault /\ Forwarded(i) # NoVal => f = [o EXCEPT !.stage = "S_RESP", !.val = Forwarded(i)]
    BY <1>3, <1>4
  <1> QED BY <1>3, <1>5, <1>6, <1>7 DEF RobEntry

\* The loads that ask the cache.
LEMMA AskedNext ==
    ASSUME FullWords, LoadInv, NEW bundle, NEW issue, NEW fire, NEW fault, NEW accept, NEW wb, NEW k, NEW ready,
           Step(bundle, issue, fire, fault, accept, wb, k, ready)
    PROVE  Asked'
  <1>0. Typed /\ Linked /\ LsInv /\ Behind /\ FrontClear /\ Tagged /\ CommittedWords /\ Asked
    BY DEF LoadInv, LsInv
  <1>c. Chosen(bundle, issue, fire, fault, accept, wb, k) /\ fault \in BOOLEAN
    BY DEF Step, Chosen
  <1> SUFFICES ASSUME NEW i \in Positions', rob'[i].stage = "S_LD_REQ" PROVE InCache(i, rob[i].word)'
    BY DEF Asked
  <1>1. PICK x : x = i + k
    OBVIOUS
  <1>2. i \in 1 .. Len(rob) - k /\ x \in Positions /\ rob'[i] = After(x, issue, fire, fault, accept, wb)
    BY <1>0, <1>1, Survivor
  <1>3. PICK a : a = After(x, issue, fire, fault, accept, wb)
    OBVIOUS
  <1>4. /\ a.op = rob[x].op /\ a.word = rob[x].word
        /\ x \in fire => a = Fired(x, fault) /\ (~is_load(rob[x].op) => a.stage = "store_wb")
        /\ x \in wb => a.stage = "complete"
        /\ x \in issue => a.stage = "front"
        /\ x \in accept => a.stage = "S_LD_RSP"
        /\ x \notin wb \cup fire \cup issue \cup accept => a = rob[x]
    BY <1>0, <1>c, <1>2, <1>3, AfterTyped
  <1>5. PICK w : w = rob[x].word
    OBVIOUS
  <1>6. InCache(x, w)
    <2>1. CASE x \in fire
      <3>1. is_load(rob[x].op)
        BY <1>2, <1>3, <1>4, <2>1
      <3>2. a.stage = "S_LD_REQ"
        BY <1>2, <1>3
      <3>3. ~fault /\ Forwarded(x) = NoVal
        <4>1. a = Fired(x, fault)
          BY <1>4, <2>1
        <4>2. /\ fault => a.stage = "S_RESP"
              /\ ~fault /\ Forwarded(x) # NoVal => a.stage = "S_RESP"
          BY <1>0, <1>c, <1>2, <3>1, <4>1, FiredVal
        <4> QED BY <1>c, <3>2, <4>2
      <3>4. sq = <<>>
        BY <1>0, <1>c, <2>1, <3>3, FiredLoad
      <3>5. Settled(x)
        BY <1>0, <1>c, <1>2, <2>1, <3>1, LeavesSettled
      <3> QED BY <1>0, <1>2, <1>5, <3>3, <3>4, <3>5, Found
    <2>2. CASE x \notin fire
      <3>1. rob[x].stage = "S_LD_REQ"
        BY <1>2, <1>3, <1>4, <2>2
      <3> QED BY <1>0, <1>2, <1>5, <3>1 DEF Asked
    <2> QED BY <2>1, <2>2
  <1>7. Settled(x)
    <2>1. is_load(rob'[i].op) /\ rob'[i].stage # "rs"
      <3>1. Linked'
        BY <1>0, LinkedNext
      <3> QED BY <3>1 DEF Linked, InLane
    <2> QED BY <1>0, <1>1, <2>1, BehindNext
  <1>8. InCache(i, w)'
    BY <1>0, <1>1, <1>2, <1>6, <1>7, InCacheNext
  <1>9. rob'[i].word = w
    BY <1>2, <1>3, <1>4, <1>5
  <1>10. \A z : z = rob'[i].word /\ InCache(i, z)' => InCache(i, rob[i].word)'
    BY DEF InCache, NoStore, Hits
  <1> QED BY <1>8, <1>9, <1>10

\* The loads that have their data.
LEMMA ValuedNext ==
    ASSUME FullWords, LoadInv, NEW bundle, NEW issue, NEW fire, NEW fault, NEW accept, NEW wb, NEW k, NEW ready,
           Step(bundle, issue, fire, fault, accept, wb, k, ready),
           NEW i \in Positions', rob'[i].val # NoVal
    PROVE  is_load(rob'[i].op) /\ rob'[i].stage \in {"S_LD_RSP", "S_RESP", "complete"} /\ Right(i)'
  <1>0. Typed /\ Linked /\ LsInv /\ Behind /\ FrontClear /\ Tagged /\ CommittedWords /\ Asked /\ Valued
    BY DEF LoadInv, LsInv
  <1>c. Chosen(bundle, issue, fire, fault, accept, wb, k) /\ fault \in BOOLEAN
    BY DEF Step, Chosen
  <1>1. PICK x : x = i + k
    OBVIOUS
  <1>2. i \in 1 .. Len(rob) - k /\ x \in Positions /\ rob'[i] = After(x, issue, fire, fault, accept, wb)
    BY <1>0, <1>1, Survivor
  <1>3. PICK a : a = After(x, issue, fire, fault, accept, wb)
    OBVIOUS
  <1>4. /\ a.op = rob[x].op /\ a.word = rob[x].word
        /\ x \in wb => a.stage = "complete"
        /\ x \in accept => a.stage = "S_LD_RSP" /\ a.val = Loaded(x)
        /\ x \in fire => a = Fired(x, fault)
        /\ x \in wb \cup issue => a.val = rob[x].val
        /\ x \notin wb \cup fire \cup issue \cup accept => a = rob[x]
    BY <1>0, <1>c, <1>2, <1>3, AfterTyped
  <1>5. PICK w : w = rob[x].word
    OBVIOUS
  <1>6. w \in Words
    BY <1>0, <1>2, <1>5, RobTyped
  <1>s. /\ \A q \in fire : rob[q].stage \in {"front", "rs"}
        /\ \A q \in issue : rob[q].stage = "rs"
        /\ \A q \in accept : rob[q].stage = "S_LD_REQ"
        /\ \A q \in wb : rob[q].stage \in {"store_wb", "S_LD_RSP", "S_RESP"}
    BY <1>0, <1>c, ChosenStages
  <1>v. rob[x].val # NoVal => /\ is_load(rob[x].op) /\ rob[x].stage \in {"S_LD_RSP", "S_RESP", "complete"}
                              /\ Right(x)
    BY <1>0, <1>2 DEF Valued
  <1>7. a.val # NoVal
    BY <1>2, <1>3
  <1>8. /\ is_load(rob[x].op) /\ a.stage \in {"S_LD_RSP", "S_RESP", "complete"}
        /\ rob[x].stage # "rs" \/ x \in fire \/ x \in issue
        /\ \E v : Sees(x, w, v) /\ a.val = AsVal(v)
    <2>1. CASE x \in fire
      <3>1. a = Fired(x, fault) /\ rob[x].val = NoVal
        BY <1>4, <1>s, <1>v, <2>1
      <3>2. is_load(rob[x].op)
        <4>1. ~is_load(rob[x].op) => a.val = rob[x].val
          BY <1>0, <1>c, <1>2, <3>1, FiredIs
        <4> QED BY <1>7, <3>1, <4>1
      <3>3. /\ fault => a.stage = "S_RESP" /\ a.val = rob[x].val
            /\ ~fault /\ Forwarded(x) = NoVal => a.stage = "S_LD_REQ" /\ a.val = rob[x].val
            /\ ~fault /\ Forwarded(x) # NoVal => a.stage = "S_RESP" /\ a.val = Forwarded(x)
        BY <1>0, <1>c, <1>2, <3>1, <3>2, FiredVal
      <3>4. ~fault /\ Forwarded(x) # NoVal /\ a.stage = "S_RESP" /\ a.val = Forwarded(x)
        BY <1>c, <1>7, <3>1, <3>3
      <3>5. sq = <<>>
        BY <1>0, <1>c, <2>1, <3>4, FiredLoad
      <3>6. Settled(x)
        BY <1>0, <1>c, <1>2, <2>1, <3>2, LeavesSettled
      <3>7. \E v : Sees(x, w, v) /\ Forwarded(x) = AsVal(v)
        BY <1>0, <1>2, <1>5, <3>4, <3>5, <3>6, Found
      <3> QED BY <2>1, <3>2, <3>4, <3>7
    <2>2. CASE x \in accept
      <3>1. rob[x].stage = "S_LD_REQ"
        BY <1>s, <2>2
      <3>2. is_load(rob[x].op)
        BY <1>0, <1>2, <3>1 DEF Linked, InLane
      <3>3. InCache(x, w)
        BY <1>0, <1>2, <1>5, <3>1 DEF Asked
      <3>4. Sees(x, w, arch[w]) /\ Loaded(x) = AsVal(arch[w])
        BY <1>0, <1>2, <1>5, <3>3, CacheAnswers
      <3>5. a.val = AsVal(arch[w]) /\ a.stage = "S_LD_RSP"
        BY <1>4, <2>2, <3>4
      <3> QED BY <3>1, <3>2, <3>4, <3>5
    <2>3. CASE x \notin fire /\ x \notin accept
      <3>1. a.val = rob[x].val
        BY <1>4, <2>3
      <3>2. /\ is_load(rob[x].op) /\ rob[x].stage \in {"S_LD_RSP", "S_RESP", "complete"} /\ Right(x)
        BY <1>7, <1>v, <3>1
      <3>3. x \notin issue
        BY <1>s, <3>2
      <3>4. a.stage \in {"S_LD_RSP", "S_RESP", "complete"}
        BY <1>4, <2>3, <3>2, <3>3
      <3>5. \E v : Sees(x, w, v) /\ rob[x].val = AsVal(v)
        BY <1>5, <3>2 DEF Right
      <3> QED BY <3>1, <3>2, <3>4, <3>5
    <2> QED BY <2>1, <2>2, <2>3
  <1>9. PICK v : Sees(x, w, v) /\ a.val = AsVal(v)
    BY <1>8
  <1>10. Settled(x)
    BY <1>0, <1>c, <1>2, <1>8, LeavesSettled
  <1>11. Sees(i, w, v)'
    BY <1>0, <1>1, <1>2, <1>6, <1>9, <1>10, SeesNext
  <1>12. rob'[i].word = w /\ rob'[i].val = AsVal(v)
    BY <1>2, <1>3, <1>4, <1>5, <1>9
  <1>13. Right(i)' <=> \E u : Sees(i, rob[i].word, u)' /\ rob'[i].val = AsVal(u)
    BY DEF Right, AsVal
  <1>14. \A z : z = rob'[i].word /\ Sees(i, z, v)' => Sees(i, rob[i].word, v)'
    BY DEF Sees, NoStore, LastStore, Hits
  <1>15. Right(i)'
    BY <1>11, <1>12, <1>13, <1>14
  <1> QED BY <1>2, <1>3, <1>4, <1>8, <1>15

LEMMA StepLoads ==
    ASSUME FullWords, LoadInv, NEW bundle, NEW issue, NEW fire, NEW fault, NEW accept, NEW wb, NEW k, NEW ready,
           Step(bundle, issue, fire, fault, accept, wb, k, ready)
    PROVE  LoadInv'
  <1>0. Typed /\ Linked /\ LsInv /\ Behind /\ FrontClear /\ Tagged /\ CommittedWords
    BY DEF LoadInv, LsInv
  <1>1. LsInv'
    BY <1>0, StepKeeps
  <1>2. Behind'
    <2> SUFFICES ASSUME NEW i \in Positions', is_load(rob'[i].op), rob'[i].stage # "rs" PROVE Settled(i)'
      BY DEF Behind
    <2> QED BY <1>0, BehindNext
  <1>3. FrontClear'
    BY <1>0, FrontNext
  <1>4. Tagged'
    BY <1>0, TaggedNext
  <1>5. CommittedWords'
    <2> SUFFICES ASSUME NEW x \in 0 .. NumCommitted' - 1 PROVE Nth(x)'.op = "SW" /\ Nth(x)'.off = 0
      BY DEF CommittedWords
    <2>1. PICK e : e = Nth(x)'
      OBVIOUS
    <2>2. Descends(e, k)
      BY <1>0, <2>1, CommittedNext
    <2> QED BY <1>0, <2>1, <2>2, CommittedWordsNext
  <1>6. Asked'
    BY AskedNext
  <1>7. Valued'
    <2> SUFFICES ASSUME NEW i \in Positions', rob'[i].val # NoVal
                 PROVE  is_load(rob'[i].op) /\ rob'[i].stage \in {"S_LD_RSP", "S_RESP", "complete"} /\ Right(i)'
      BY DEF Valued, NoVal
    <2> QED BY ValuedNext
  <1> QED BY <1>1, <1>2, <1>3, <1>4, <1>5, <1>6, <1>7 DEF LoadInv

\* A flush leaves no load, and commits full words.
LEMMA FlushLoads ==
    ASSUME FullWords, LoadInv, NEW k \in RetireChoices, Flush(k) PROVE LoadInv'
  <1>0. Typed /\ Filled /\ LsInv /\ CommittedWords /\ StoresInOrder /\ SB_DEPTH \in Nat
    BY SbAssumption DEF LoadInv, LsInv
  <1>1. LsInv'
    BY <1>0, FlushKeeps
  <1>2. rob' = <<>> /\ sq' = <<>> /\ front' = {}
    BY DEF Flush
  <1>3. Positions' = {} /\ StoresInFlight' = {} /\ Count(StoresInFlight', Len(rob')) = 0
    BY <1>2, EmptyWindow
  <1>4. Behind' /\ FrontClear' /\ Tagged' /\ Asked' /\ Valued'
    BY <1>2, <1>3 DEF Behind, FrontClear, Tagged, Asked, Valued
  <1>5. CommittedWords'
    <2>1. PICK c : c = NumCommitted /\ InOrder(c)
      BY <1>0, InOrderIs
    <2>2. PICK r : r = Count(StoresInFlight, k)
      OBVIOUS
    <2>3. /\ c + r \in 0 .. SB_DEPTH /\ r \in Nat /\ c \in Nat
          /\ \A m \in 0 .. SB_DEPTH - 1 : Nth(m)' = IF m < c + r THEN [Nth(m) EXCEPT !.committed = TRUE] ELSE Free
      BY <1>0, <2>1, <2>2, FlushedIs
    <2>4. NumCommitted' = c + r
      <3>1. PICK d : InOrder(d)' /\ d = NumCommitted'
        <4>1. (Typed => (StoresInOrder => InOrder(NumCommitted)))'
          BY InOrderIs, PTL
        <4> QED BY <1>1, <4>1 DEF LsInv
      <3>2. sb'.count = d + Count(StoresInFlight', Len(rob'))
        BY <3>1 DEF InOrder
      <3>3. sb'.count = c + r
        BY <1>0, <2>1, <2>2, FlushedIs
      <3>4. d \in Nat
        BY <1>0, <3>1 DEF InOrder
      <3> QED BY <1>3, <2>3, <3>1, <3>2, <3>3, <3>4
    <2>5. k \in 0 .. Len(rob) /\ \A i \in 1 .. k : rob[i].stage = "complete" /\ ~rob[i].exc
      <3>1. Len(rob) \in Nat
        BY <1>0, PositionsAre
      <3> QED BY <1>0, <3>1, ChosenRetire
    <2> SUFFICES ASSUME NEW x \in 0 .. NumCommitted' - 1 PROVE Nth(x)'.op = "SW" /\ Nth(x)'.off = 0
      BY DEF CommittedWords
    <2>6. x \in 0 .. SB_DEPTH - 1 /\ x < c + r
      BY <1>0, <2>3, <2>4
    <2>7. PICK e : e = Nth(x)'
      OBVIOUS
    <2>8. e = [Nth(x) EXCEPT !.committed = TRUE]
      BY <2>3, <2>6, <2>7
    <2>9. x < NumCommitted + Count(StoresInFlight, k)
      BY <2>1, <2>2, <2>6
    <2>10. Descends(e, k)
      BY <1>0, <2>5, <2>6, <2>8, <2>9, DescendsIs
    <2> QED BY <1>0, <2>7, <2>10, CommittedWordsNext
  <1> QED BY <1>1, <1>4, <1>5 DEF LoadInv

LEMMA InitLoads == Init => LoadInv
  <1> SUFFICES ASSUME Init PROVE LoadInv
    OBVIOUS
  <1>1. LsInv
    BY InitKeeps
  <1>2. rob = <<>> /\ sq = <<>> /\ front = {} /\ sb = Reset
    BY DEF Init
  <1>3. Positions = {} /\ StoresInFlight = {}
    <2>1. Len(rob) = 0
      BY <1>2
    <2> QED BY <2>1 DEF Positions, StoresInFlight
  <1>4. Behind /\ FrontClear /\ Tagged /\ Asked /\ Valued
    BY <1>2, <1>3 DEF Behind, FrontClear, Tagged, Asked, Valued
  <1>5. CommittedWords
    <2>1. Committed = {}
      <3> SUFFICES ASSUME NEW n \in 0 .. SB_DEPTH - 1 PROVE ~sb.mem[SbSlot(sb.head, n)].committed
        BY DEF Committed
      <3>1. sb.head = 0 /\ 0 \in SbId
        BY <1>2, SbAssumption DEF Reset, SbId
      <3>2. SbSlot(0, n) \in SbId
        BY <3>1, SbRing
      <3> QED BY <1>2, <3>1, <3>2 DEF Reset, Free
    <2>2. NumCommitted = 0
      BY <2>1, FS_EmptySet DEF NumCommitted
    <2> QED BY <2>2 DEF CommittedWords
  <1> QED BY <1>1, <1>4, <1>5 DEF LoadInv

LEMMA NextLoads == FullWords /\ LoadInv /\ [Next]_vars => LoadInv'
  <1> SUFFICES ASSUME FullWords, LoadInv, [Next]_vars PROVE LoadInv'
    OBVIOUS
  <1>1. CASE Clock
    <2>1. PICK k \in RetireChoices, wb \in WriteBackChoices, accept \in AtMostOne(MayAccept), ready \in BOOLEAN :
          \E fault \in BOOLEAN :
          \E fire \in AtMostOne(MayFire(wb, fault)), issue \in AtMostOne(MayIssue) :
            /\ fire = {} => ~fault
            /\ issue = {} \/ fire = {}
            /\ (fire \cup issue # {}) \in BOOLEAN
            /\ \E bundle \in {b \in Bundles : Room(b)} :
                  Cycle(bundle, issue, fire, fault, accept, wb, k, ready)
      BY <1>1 DEF Clock, Steps
    <2>2. PICK fault \in BOOLEAN :
          \E fire \in AtMostOne(MayFire(wb, fault)), issue \in AtMostOne(MayIssue) :
            /\ fire = {} => ~fault
            /\ issue = {} \/ fire = {}
            /\ \E bundle \in {b \in Bundles : Room(b)} :
                  Cycle(bundle, issue, fire, fault, accept, wb, k, ready)
      BY <2>1
    <2>3. PICK fire \in AtMostOne(MayFire(wb, fault)), issue \in AtMostOne(MayIssue) :
            /\ fire = {} => ~fault
            /\ issue = {} \/ fire = {}
            /\ \E bundle \in {b \in Bundles : Room(b)} :
                  Cycle(bundle, issue, fire, fault, accept, wb, k, ready)
      BY <2>2
    <2>4. PICK bundle \in {b \in Bundles : Room(b)} : Cycle(bundle, issue, fire, fault, accept, wb, k, ready)
      BY <2>3
    <2>5. Step(bundle, issue, fire, fault, accept, wb, k, ready)
      BY <2>3, <2>4 DEF Step, Chosen
    <2> QED BY <2>5, StepLoads
  <1>2. CASE Squash
    BY <1>2, FlushLoads DEF Squash
  <1>3. CASE UNCHANGED vars
    <2>0. LsInv'
      BY NextKeeps DEF LoadInv
    <2>1. /\ rob' = rob /\ rob_head' = rob_head /\ sb' = sb /\ sq' = sq /\ store_wb' = store_wb /\ front' = front
          /\ res' = res /\ xlate' = xlate /\ memory' = memory /\ arch' = arch /\ dispatched' = dispatched
      BY <1>3 DEF vars
    <2>2. Behind' /\ FrontClear' /\ CommittedWords'
      BY <2>1 DEF LoadInv, Behind, Settled, FrontClear, CommittedWords, Positions, amo_inflight, Nth, NumCommitted, Committed
    <2>3. Tagged'
      BY <2>1 DEF LoadInv, Tagged, StoresInFlight, Positions, Own, Nth, NumCommitted, Committed, Executed, Tag, Count, UpTo
    <2>4. Asked'
      BY <2>1 DEF LoadInv, Asked, InCache, NoStore, Hits, Effective, Positions, Nth, NumCommitted, Committed
    <2>5. Valued'
      BY <2>1 DEF LoadInv, Valued, Right, Sees, LastStore, NoStore, Hits, Effective, Positions
    <2> QED BY <2>0, <2>2, <2>3, <2>4, <2>5 DEF LoadInv
  <1> QED BY <1>1, <1>2, <1>3 DEF Next

\* A load with a value has the bytes program order gives it.
LEMMA LoadsFollow == FullWords /\ LoadInv => LoadIsProgramOrder
  <1> SUFFICES ASSUME FullWords, LoadInv, NEW i \in Positions, rob[i].val # NoVal
               PROVE  rob[i].val = [j \in 1 .. Size(rob[i].op) |-> ProgramByte(i, rob[i].word, rob[i].off + j - 1)]
    BY DEF LoadIsProgramOrder
  <1>0. Typed /\ Valued /\ BYTES \in Nat
    BY SbAssumption DEF LoadInv, LsInv
  <1>1. PICK v : Sees(i, rob[i].word, v) /\ rob[i].val = AsVal(v)
    BY <1>0 DEF Valued, Right
  <1>2. Size(rob[i].op) = BYTES /\ rob[i].off = 0
    BY <1>0, FullOp
  <1>3. ASSUME NEW j \in 1 .. BYTES PROVE ProgramByte(i, rob[i].word, rob[i].off + j - 1) = v[j - 1]
    <2>1. PICK b \in Offsets : b = j - 1
      BY <1>0 DEF Offsets
    <2>2. ProgramByte(i, rob[i].word, b) = v[b]
      BY <1>0, <1>1, SeesBytes
    <2>3. rob[i].off + j - 1 = b
      BY <1>2, <2>1
    <2> QED BY <2>1, <2>2, <2>3
  <1> QED BY <1>1, <1>2, <1>3 DEF AsVal

\* Of a program of full-word loads and stores, LR and AMO under translation, every load that has its
\* data has the bytes of the youngest older store to each of them, or of the committed memory,
\* whichever of the store buffer and the cache they came from, for every number of lanes and every
\* depth of ROB and buffer, whatever faults and flushes come between.
THEOREM LoadsSeeProgramOrder == ASSUME FullWords PROVE Spec => []LoadIsProgramOrder
  <1>1. Init => LoadInv
    BY InitLoads
  <1>2. LoadInv /\ [Next]_vars => LoadInv'
    BY NextLoads
  <1>3. LoadInv => LoadIsProgramOrder
    BY LoadsFollow
  <1> QED BY <1>1, <1>2, <1>3, PTL DEF Spec

=============================================================================
