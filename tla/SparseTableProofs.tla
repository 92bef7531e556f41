-------------------------- MODULE SparseTableProofs --------------------------
(***************************************************************************)
(* Proofs about SparseTable, for groups and tables of every size and keys  *)
(* with any hashes: every safety property, and that the table implements   *)
(* KeyMap.  They are for programs that make no call the code gets wrong    *)
(* (Careless = {}; the run sparse_reuse shows what such a call does).      *)
(*                                                                         *)
(* The invariant, TableInv: the number of buckets is a power of two, every *)
(* item is on the way of its key with no empty bucket before it, no key is *)
(* there twice (GoodTable); the counters are those of the buckets and less *)
(* than half of them is in use (Sound); what is remembered of the last     *)
(* search and of an iteration is about the table as it is.                 *)
(***************************************************************************)
EXTENDS SparseTable, Induction

-----------------------------------------------------------------------------
(* Sparse arrays: one does what a dense one does.  What is behind it is    *)
(* that the place of an item in its packed array is counted, never stored: *)
(* setting one bit must move exactly the items behind it, by one.          *)

\* Arrays whose groups have an item for every bit of their bitmap.
Group(Items) == [bmOccupied : SUBSET Positions, binSparse : Seq(Items)]
Matching(group) == Len(group.binSparse) = Cardinality(group.bmOccupied)
SparseArrays(Items) == {bins \in Seq(Group(Items)) :
                          \A g \in DOMAIN bins : Matching(bins[g])}

-----------------------------------------------------------------------------
(* Counting bits (EntriesUpto, libchash.c:380).                            *)

\* The positions of a group are numbers.
LEMMA BitsAreNumbers ==
  ASSUME NEW bm \in SUBSET Positions, NEW p \in bm
  PROVE  p \in Int /\ GroupSize \in Int /\ 0 <= p /\ p < GroupSize
<1>1. p \in Positions
  OBVIOUS
<1> QED
  BY <1>1, GroupAssumption DEF Positions

\* A bitmap is a finite set.
LEMMA BitmapFinite ==
  ASSUME NEW bm \in SUBSET Positions
  PROVE  /\ IsFiniteSet(bm) /\ Cardinality(bm) \in Nat
         /\ \A i \in Int : /\ IsFiniteSet({p \in bm : p < i})
                           /\ EntriesUpto(bm, i) \in Nat
                           /\ EntriesUpto(bm, i) <= Cardinality(bm)
<1>1. IsFiniteSet(Positions)
  BY GroupAssumption, FS_Interval DEF Positions
<1>2. IsFiniteSet(bm)
  BY <1>1, FS_Subset
<1>3. ASSUME NEW i \in Int
      PROVE  /\ IsFiniteSet({p \in bm : p < i})
             /\ Cardinality({p \in bm : p < i}) <= Cardinality(bm)
  <2>1. {p \in bm : p < i} \in SUBSET bm
    OBVIOUS
  <2> QED
    BY <1>2, <2>1, FS_Subset
<1> QED
  BY <1>2, <1>3, FS_CardinalityType DEF EntriesUpto

\* What is counted before a position is a number.
LEMMA CountIsNumber ==
  ASSUME NEW bm \in SUBSET Positions, NEW i \in Int
  PROVE  EntriesUpto(bm, i) \in Int
<1>1. EntriesUpto(bm, i) \in Nat
  BY BitmapFinite, Zenon
<1> QED
  BY <1>1

\* The bits are counted in order: further on there are no fewer, and more behind
\* a bit that is set.
LEMMA CountGrows ==
  ASSUME NEW bm \in SUBSET Positions, NEW i \in Int, NEW j \in Int, i <= j
  PROVE  /\ EntriesUpto(bm, i) <= EntriesUpto(bm, j)
         /\ i \in bm /\ i < j => EntriesUpto(bm, i) < EntriesUpto(bm, j)
<1> DEFINE A == {p \in bm : p < i}
           B == {p \in bm : p < j}
<1>1. IsFiniteSet(A) /\ IsFiniteSet(B) /\ A \in SUBSET B
  <2>1. A \in SUBSET B
    <3>1. ASSUME NEW p \in A
          PROVE  p \in B
      BY BitsAreNumbers
    <3> QED
      BY <3>1
  <2> QED
    BY <2>1, BitmapFinite
<1>2. Cardinality(A) \in Nat /\ Cardinality(B) \in Nat
  BY <1>1, FS_CardinalityType
<1>3. Cardinality(A) <= Cardinality(B) /\ (Cardinality(A) = Cardinality(B) => A = B)
  BY <1>1, FS_Subset
<1>4. i \in bm /\ i < j => A # B
  OBVIOUS
<1> QED
  BY <1>2, <1>3, <1>4 DEF EntriesUpto

\* The items of a group are in range of their packed array.
LEMMA OffsetInRange ==
  ASSUME NEW bm \in SUBSET Positions, NEW i \in bm
  PROVE  EntriesUpto(bm, i) + 1 \in 1 .. Cardinality(bm)
<1>1. i \in Int /\ GroupSize \in Int /\ i < GroupSize
  BY BitsAreNumbers
<1>2. {p \in bm : p < GroupSize} = bm
  BY BitsAreNumbers
<1>3. EntriesUpto(bm, i) < EntriesUpto(bm, GroupSize)
  BY <1>1, CountGrows
<1> QED
  BY <1>1, <1>2, <1>3, BitmapFinite DEF EntriesUpto

\* No two buckets of a group have their items in one place.
LEMMA OffsetsDiffer ==
  ASSUME NEW bm \in SUBSET Positions, NEW i \in bm, NEW j \in bm, i # j
  PROVE  EntriesUpto(bm, i) # EntriesUpto(bm, j)
<1>1. i \in Int /\ j \in Int
  BY BitsAreNumbers
<1>2. EntriesUpto(bm, i) \in Nat /\ EntriesUpto(bm, j) \in Nat
  BY <1>1, BitmapFinite
<1>3. CASE i < j
  BY <1>1, <1>2, <1>3, CountGrows
<1>4. CASE j < i
  BY <1>1, <1>2, <1>4, CountGrows
<1> QED
  BY <1>1, <1>3, <1>4

\* One more bit: the counts behind it go up by one, and no others.
LEMMA CountWithBit ==
  ASSUME NEW bm \in SUBSET Positions, NEW i \in Positions, i \notin bm,
         NEW j \in Int
  PROVE  EntriesUpto(bm \cup {i}, j) = EntriesUpto(bm, j) + (IF i < j THEN 1 ELSE 0)
<1> DEFINE A == {p \in bm : p < j}
<1>1. IsFiniteSet(A) /\ i \notin A /\ Cardinality(A) \in Nat
  BY BitmapFinite, FS_CardinalityType
<1>2. CASE i < j
  <2>1. {p \in bm \cup {i} : p < j} = A \cup {i}
    BY <1>2
  <2>2. Cardinality(A \cup {i}) = Cardinality(A) + 1
    BY <1>1, FS_AddElement
  <2> QED
    BY <1>2, <2>1, <2>2 DEF EntriesUpto
<1>3. CASE ~(i < j)
  <2>1. {p \in bm \cup {i} : p < j} = A
    BY <1>3
  <2> QED
    BY <1>1, <1>3, <2>1 DEF EntriesUpto
<1> QED
  BY <1>2, <1>3

-----------------------------------------------------------------------------
(* One group.                                                              *)

\* What InsertAt puts where.
LEMMA InsertedAt ==
  ASSUME NEW Items, NEW s \in Seq(Items), NEW i \in 1 .. (Len(s) + 1),
         NEW e \in Items
  PROVE  /\ InsertAt(s, i, e) \in Seq(Items)
         /\ Len(InsertAt(s, i, e)) = Len(s) + 1
         /\ InsertAt(s, i, e)[i] = e
         /\ \A n \in 1 .. (i - 1) : InsertAt(s, i, e)[n] = s[n]
         /\ \A n \in i .. Len(s) : InsertAt(s, i, e)[n + 1] = s[n]
<1> DEFINE a == SubSeq(s, 1, i - 1)
           b == SubSeq(s, i, Len(s))
<1>1. Len(s) \in Nat /\ i \in Int /\ 1 <= i /\ i <= Len(s) + 1
  OBVIOUS
<1>2. a \in Seq(Items) /\ Len(a) = i - 1 /\ \A n \in 1 .. (i - 1) : a[n] = s[n]
  BY <1>1
<1>3. /\ b \in Seq(Items) /\ Len(b) = Len(s) - i + 1
      /\ \A n \in 1 .. (Len(s) - i + 1) : b[n] = s[i + n - 1]
  BY <1>1
<1> DEFINE m == a \o <<e>>
<1>4. /\ m \in Seq(Items) /\ Len(m) = i /\ m[i] = e
      /\ \A n \in 1 .. (i - 1) : m[n] = a[n]
  BY <1>1, <1>2
<1> HIDE DEF a, b, m
<1> DEFINE r == m \o b
<1>5. /\ r \in Seq(Items) /\ Len(r) = Len(s) + 1
      /\ \A n \in 1 .. i : r[n] = m[n]
      /\ \A n \in 1 .. (Len(s) - i + 1) : r[i + n] = b[n]
  BY <1>1, <1>3, <1>4
<1>6. InsertAt(s, i, e) = r
  BY DEF InsertAt, a, b, m
<1> HIDE DEF r
<1>7. ASSUME NEW n \in i .. Len(s)
      PROVE  r[n + 1] = s[n]
  <2> DEFINE k == n - i + 1
  <2>1. k \in 1 .. (Len(s) - i + 1) /\ i + k = n + 1 /\ i + k - 1 = n
    BY <1>1
  <2>2. r[i + k] = b[k] /\ b[k] = s[i + k - 1]
    BY <1>3, <1>5, <2>1
  <2> QED
    BY <2>1, <2>2
<1>8. \A n \in 1 .. (i - 1) : r[n] = s[n]
  BY <1>1, <1>2, <1>4, <1>5
<1>9. r[i] = e
  BY <1>1, <1>4, <1>5
<1> QED
  BY <1>5, <1>6, <1>7, <1>8, <1>9

-----------------------------------------------------------------------------
(* The array.                                                              *)

\* A bucket is in one group and at one position of it, and no other bucket is
\* there too (location >> LOG_LOW_BIN_SIZE and MOD2, libchash.c:472-475).
LEMMA Addresses ==
  ASSUME NEW len \in Nat, NEW loc \in 0 .. (GroupSize * len - 1)
  PROVE  /\ Bin(loc) \in 1 .. len /\ Pos(loc) \in Positions
         /\ loc = GroupSize * (Bin(loc) - 1) + Pos(loc)
<1>1. GroupSize \in Nat /\ GroupSize >= 1 /\ loc \in Nat
  BY GroupAssumption
<1> DEFINE q == loc \div GroupSize
           r == loc % GroupSize
<1>2. q \in Int /\ r \in 0 .. (GroupSize - 1) /\ loc = GroupSize * q + r
  BY <1>1, Z3
<1> HIDE DEF q, r
<1>3. q >= 0
  BY <1>1, <1>2, Z3
<1>4. q < len
  BY <1>1, <1>2, Z3
<1>5. Bin(loc) = q + 1 /\ Pos(loc) = r
  BY DEF Bin, Pos, q, r
<1> QED
  BY <1>2, <1>3, <1>4, <1>5 DEF Positions

\* Two buckets that share the group and the position are one.
LEMMA AddressesDiffer ==
  ASSUME NEW len \in Nat, NEW loc \in 0 .. (GroupSize * len - 1),
         NEW other \in 0 .. (GroupSize * len - 1),
         Bin(loc) = Bin(other), Pos(loc) = Pos(other)
  PROVE  loc = other
BY Addresses

\* What is known of one group of a sparse array.
LEMMA GroupFacts ==
  ASSUME NEW Items, NEW bins \in SparseArrays(Items), NEW g \in DOMAIN bins
  PROVE  /\ bins[g] \in Group(Items)
         /\ bins[g].bmOccupied \in SUBSET Positions
         /\ bins[g].binSparse \in Seq(Items)
         /\ Len(bins[g].binSparse) = Cardinality(bins[g].bmOccupied)
<1>1. bins \in Seq(Group(Items)) /\ Matching(bins[g])
  BY DEF SparseArrays
<1>2. bins[g] \in Group(Items)
  BY <1>1
<1> QED
  BY <1>1, <1>2 DEF Group, Matching

\* Buckets of an array are those of its groups.
LEMMA BucketFacts ==
  ASSUME NEW Items, NEW bins \in SparseArrays(Items),
         NEW loc \in 0 .. (SizeOf(bins) - 1)
  PROVE  /\ Len(bins) \in Nat /\ loc \in 0 .. (GroupSize * Len(bins) - 1)
         /\ Bin(loc) \in DOMAIN bins /\ Pos(loc) \in Positions
<1>1. bins \in Seq(Group(Items))
  BY DEF SparseArrays
<1>2. Len(bins) \in Nat /\ DOMAIN bins = 1 .. Len(bins)
  BY <1>1
<1> QED
  BY <1>2, Addresses DEF SizeOf

\* The item of a bucket that has one, as a sparse array finds it.
ItemAt(bins, loc) ==
  bins[Bin(loc)].binSparse[EntriesUpto(bins[Bin(loc)].bmOccupied, Pos(loc)) + 1]

\* The item that is found is one.
LEMMA ItemFound ==
  ASSUME NEW Items, NEW bins \in SparseArrays(Items),
         NEW loc \in 0 .. (SizeOf(bins) - 1), ~SparseIsEmpty(bins, loc)
  PROVE  /\ Deref(bins, SPARSE_BUCKET(bins, loc)) = ItemAt(bins, loc)
         /\ ItemAt(bins, loc) \in Items
         /\ EntriesUpto(bins[Bin(loc)].bmOccupied, Pos(loc)) + 1
              \in 1 .. Len(bins[Bin(loc)].binSparse)
<1>1. Bin(loc) \in DOMAIN bins
  BY BucketFacts
<1>2. Pos(loc) \in bins[Bin(loc)].bmOccupied
  BY DEF SparseIsEmpty
<1> DEFINE off == EntriesUpto(bins[Bin(loc)].bmOccupied, Pos(loc)) + 1
<1>3. off \in 1 .. Len(bins[Bin(loc)].binSparse)
  BY <1>1, <1>2, GroupFacts, OffsetInRange
<1>4. bins[Bin(loc)].binSparse \in Seq(Items)
  BY <1>1, GroupFacts
<1>5. bins[Bin(loc)].binSparse[off] \in Items
  BY <1>3, <1>4
<1>6. Deref(bins, SPARSE_BUCKET(bins, loc)) = ItemAt(bins, loc)
  BY DEF Deref, SPARSE_BUCKET, ItemAt
<1> QED
  BY <1>3, <1>5, <1>6 DEF ItemAt

\* An insertion into an empty bucket keeps the bitmaps and the packed arrays in
\* agreement, and every other bucket finds the item it found before.
LEMMA OpenedFacts ==
  ASSUME NEW Items, NEW bins \in SparseArrays(Items), NEW item \in Items,
         NEW loc \in 0 .. (SizeOf(bins) - 1), SparseIsEmpty(bins, loc)
  PROVE  /\ Opened(bins, loc, item) \in SparseArrays(Items)
         /\ Len(Opened(bins, loc, item)) = Len(bins)
         /\ \A l \in 0 .. (SizeOf(bins) - 1) :
              /\ SparseIsEmpty(Opened(bins, loc, item), l)
                   <=> SparseIsEmpty(bins, l) /\ l # loc
              /\ l = loc => ItemAt(Opened(bins, loc, item), l) = item
              /\ l # loc /\ ~SparseIsEmpty(bins, l) =>
                   ItemAt(Opened(bins, loc, item), l) = ItemAt(bins, l)
<1> DEFINE g == Bin(loc)
           i == Pos(loc)
           bm == bins[g].bmOccupied
           s == bins[g].binSparse
           off == EntriesUpto(bm, i) + 1
           new == [bmOccupied |-> bm \cup {i}, binSparse |-> InsertAt(s, off, item)]
           opened == Opened(bins, loc, item)
<1>1. /\ g \in DOMAIN bins /\ i \in Positions /\ i \in Int
      /\ bins \in Seq(Group(Items)) /\ DOMAIN bins = 1 .. Len(bins) /\ Len(bins) \in Nat
  <2>1. g \in DOMAIN bins /\ i \in Positions /\ Len(bins) \in Nat
    BY BucketFacts
  <2>2. bins \in Seq(Group(Items))
    BY DEF SparseArrays
  <2> QED
    BY <2>1, <2>2 DEF Positions
<1>2. /\ bm \in SUBSET Positions /\ s \in Seq(Items) /\ Len(s) = Cardinality(bm)
      /\ Len(s) \in Nat
  BY <1>1, GroupFacts
<1>3. i \notin bm
  BY DEF SparseIsEmpty
<1>4. off \in 1 .. (Len(s) + 1)
  <2>1. EntriesUpto(bm, i) \in Nat /\ EntriesUpto(bm, i) <= Cardinality(bm)
    BY <1>1, <1>2, BitmapFinite
  <2> QED
    BY <1>2, <2>1
<1>5. /\ InsertAt(s, off, item) \in Seq(Items)
      /\ Len(InsertAt(s, off, item)) = Len(s) + 1
      /\ InsertAt(s, off, item)[off] = item
      /\ \A n \in 1 .. (off - 1) : InsertAt(s, off, item)[n] = s[n]
      /\ \A n \in off .. Len(s) : InsertAt(s, off, item)[n + 1] = s[n]
  <2>1. ASSUME NEW t \in Seq(Items), NEW k \in 1 .. (Len(t) + 1)
        PROVE  /\ InsertAt(t, k, item) \in Seq(Items)
               /\ Len(InsertAt(t, k, item)) = Len(t) + 1
               /\ InsertAt(t, k, item)[k] = item
               /\ \A n \in 1 .. (k - 1) : InsertAt(t, k, item)[n] = t[n]
               /\ \A n \in k .. Len(t) : InsertAt(t, k, item)[n + 1] = t[n]
    BY InsertedAt
  <2>2. s \in Seq(Items) /\ off \in 1 .. (Len(s) + 1)
    BY <1>2, <1>4
  <2> HIDE DEF off, s
  <2> QED
    BY <2>1, <2>2
<1>6. opened = [bins EXCEPT ![g] = new]
  BY DEF Opened, SPARSE_BUCKET
<1>7. new \in Group(Items) /\ Matching(new)
  <2>1. bm \cup {i} \in SUBSET Positions
    BY <1>1, <1>2
  <2>2. Cardinality(bm \cup {i}) = Cardinality(bm) + 1
    BY <1>2, <1>3, BitmapFinite, FS_AddElement
  <2> QED
    BY <1>2, <1>5, <2>1, <2>2 DEF Group, Matching
<1> HIDE DEF g, i, bm, s, off, new, opened
<1>8. opened \in Seq(Group(Items)) /\ Len(opened) = Len(bins)
  BY <1>1, <1>6, <1>7
<1>9. opened[g] = new /\ \A h \in DOMAIN bins : h # g => opened[h] = bins[h]
  BY <1>1, <1>6
<1>10. opened \in SparseArrays(Items)
  <2>1. ASSUME NEW h \in DOMAIN opened
        PROVE  Matching(opened[h])
    <3>1. h \in DOMAIN bins
      BY <1>1, <1>8
    <3>2. Matching(bins[h])
      BY <3>1 DEF SparseArrays
    <3> QED
      BY <1>7, <1>9, <3>1, <3>2
  <2> QED
    BY <1>8, <2>1 DEF SparseArrays
<1>11. new.bmOccupied = bm \cup {i} /\ new.binSparse = InsertAt(s, off, item)
  BY DEF new
<1>12. bins[g].bmOccupied = bm /\ bins[g].binSparse = s
  BY DEF bm, s
<1>13. ASSUME NEW l \in 0 .. (SizeOf(bins) - 1)
       PROVE  /\ SparseIsEmpty(opened, l) <=> SparseIsEmpty(bins, l) /\ l # loc
              /\ l = loc => ItemAt(opened, l) = item
              /\ l # loc /\ ~SparseIsEmpty(bins, l) => ItemAt(opened, l) = ItemAt(bins, l)
  <2>1. Bin(l) \in DOMAIN bins /\ Pos(l) \in Positions /\ Pos(l) \in Int
    BY BucketFacts DEF Positions
  <2>2. CASE Bin(l) # g
    <3>1. opened[Bin(l)] = bins[Bin(l)] /\ l # loc
      BY <1>9, <2>1, <2>2 DEF g
    <3> QED
      BY <3>1 DEF SparseIsEmpty, ItemAt
  <2>3. CASE l = loc
    <3>1. Bin(l) = g /\ Pos(l) = i
      BY <2>3 DEF g, i
    <3>2. ~SparseIsEmpty(opened, l)
      BY <1>9, <1>11, <3>1 DEF SparseIsEmpty
    <3>3. EntriesUpto(bm \cup {i}, i) = EntriesUpto(bm, i)
      <4>1. EntriesUpto(bm \cup {i}, i) = EntriesUpto(bm, i) + (IF i < i THEN 1 ELSE 0)
        BY <1>1, <1>2, <1>3, CountWithBit
      <4>2. EntriesUpto(bm, i) \in Nat
        BY <1>1, <1>2, BitmapFinite
      <4> QED
        BY <1>1, <4>1, <4>2
    <3>4. ItemAt(opened, l) = InsertAt(s, off, item)[EntriesUpto(bm, i) + 1]
      BY <1>9, <1>11, <3>1, <3>3 DEF ItemAt
    <3>5. ItemAt(opened, l) = item
      BY <1>5, <3>4 DEF off
    <3> QED
      BY <2>3, <3>2, <3>5
  <2>4. CASE Bin(l) = g /\ l # loc
    <3> DEFINE j == Pos(l)
    <3>1. j # i
      <4>1. /\ Len(bins) \in Nat
            /\ l \in 0 .. (GroupSize * Len(bins) - 1)
            /\ loc \in 0 .. (GroupSize * Len(bins) - 1)
        BY BucketFacts
      <4> QED
        BY <2>4, <4>1, AddressesDiffer DEF g, i
    <3>2. SparseIsEmpty(opened, l) <=> SparseIsEmpty(bins, l)
      BY <1>9, <1>11, <1>12, <2>4, <3>1 DEF SparseIsEmpty
    <3>3. ASSUME ~SparseIsEmpty(bins, l)
          PROVE  ItemAt(opened, l) = ItemAt(bins, l)
      <4> DEFINE n == EntriesUpto(bm, j) + 1
      <4>1. j \in bm
        BY <1>12, <2>4, <3>3 DEF SparseIsEmpty
      <4>2. n \in 1 .. Len(s) /\ ItemAt(bins, l) = s[n]
        BY <1>2, <1>12, <2>4, <4>1, OffsetInRange DEF ItemAt
      <4>3. ItemAt(opened, l) = InsertAt(s, off, item)[EntriesUpto(bm \cup {i}, j) + 1]
        BY <1>9, <1>11, <2>4 DEF ItemAt
      <4>4. EntriesUpto(bm, i) \in Nat /\ EntriesUpto(bm, j) \in Nat
        BY <1>1, <1>2, <2>1, BitmapFinite
      <4>5. EntriesUpto(bm \cup {i}, j) = EntriesUpto(bm, j) + (IF i < j THEN 1 ELSE 0)
        BY <1>1, <1>2, <1>3, <2>1, CountWithBit
      <4>6. CASE j < i
        <5>1. EntriesUpto(bm, j) < EntriesUpto(bm, i)
          BY <1>1, <1>2, <2>1, <4>1, <4>6, CountGrows
        <5>2. n \in 1 .. (off - 1)
          BY <4>2, <4>4, <5>1 DEF off
        <5>3. EntriesUpto(bm \cup {i}, j) + 1 = n
          BY <1>1, <2>1, <4>4, <4>5, <4>6
        <5> QED
          BY <1>5, <4>2, <4>3, <5>2, <5>3
      <4>7. CASE i < j
        <5>1. EntriesUpto(bm, i) <= EntriesUpto(bm, j)
          BY <1>1, <1>2, <2>1, <4>7, CountGrows
        <5>2. n \in off .. Len(s)
          BY <4>2, <4>4, <5>1 DEF off
        <5>3. EntriesUpto(bm \cup {i}, j) + 1 = n + 1
          BY <4>4, <4>5, <4>7
        <5> QED
          BY <1>5, <4>2, <4>3, <5>2, <5>3
      <4> QED
        BY <1>1, <2>1, <3>1, <4>6, <4>7
    <3> QED
      BY <2>4, <3>2, <3>3
  <2> QED
    BY <2>2, <2>3, <2>4
<1> QED
  BY <1>8, <1>10, <1>13 DEF opened

\* An item that is replaced is the only one that changes.
LEMMA OverwriteFacts ==
  ASSUME NEW Items, NEW bins \in SparseArrays(Items), NEW item \in Items,
         NEW loc \in 0 .. (SizeOf(bins) - 1), ~SparseIsEmpty(bins, loc),
         NEW over, over = Overwrite(bins, SPARSE_BUCKET(bins, loc), item)
  PROVE  /\ over \in SparseArrays(Items)
         /\ Len(over) = Len(bins)
         /\ \A l \in 0 .. (SizeOf(bins) - 1) :
              /\ SparseIsEmpty(over, l) <=> SparseIsEmpty(bins, l)
              /\ l = loc => ItemAt(over, l) = item
              /\ l # loc /\ ~SparseIsEmpty(bins, l) => ItemAt(over, l) = ItemAt(bins, l)
<1> DEFINE g == Bin(loc)
           bm == bins[g].bmOccupied
           s == bins[g].binSparse
           off == EntriesUpto(bm, Pos(loc)) + 1
           new == [bmOccupied |-> bm, binSparse |-> [s EXCEPT ![off] = item]]
<1>1. /\ g \in DOMAIN bins /\ Pos(loc) \in bm
      /\ bins \in Seq(Group(Items)) /\ DOMAIN bins = 1 .. Len(bins) /\ Len(bins) \in Nat
  <2>1. g \in DOMAIN bins /\ Pos(loc) \in bm
    BY BucketFacts DEF SparseIsEmpty
  <2>2. bins \in Seq(Group(Items))
    BY DEF SparseArrays
  <2> QED
    BY <2>1, <2>2
<1>2. bm \in SUBSET Positions /\ s \in Seq(Items) /\ Len(s) = Cardinality(bm)
  BY <1>1, GroupFacts
<1>3. off \in 1 .. Len(s)
  BY <1>1, <1>2, OffsetInRange
<1>4. bins[g] \in Group(Items)
  BY <1>1, GroupFacts
<1>5. over = [bins EXCEPT ![g] = new]
  <2>1. over = [bins EXCEPT ![g].binSparse = [s EXCEPT ![off] = item]]
    BY DEF Overwrite, SPARSE_BUCKET, ReplaceAt
  <2>2. [bins[g] EXCEPT !.binSparse = [s EXCEPT ![off] = item]] = new
    BY <1>4 DEF Group
  <2> QED
    BY <2>1, <2>2
<1>6. /\ [s EXCEPT ![off] = item] \in Seq(Items)
      /\ Len([s EXCEPT ![off] = item]) = Len(s)
      /\ \A n \in 1 .. Len(s) :
           [s EXCEPT ![off] = item][n] = IF n = off THEN item ELSE s[n]
  BY <1>2, <1>3
<1>7. new \in Group(Items) /\ Matching(new)
  BY <1>2, <1>6 DEF Group, Matching
<1>8. bins[g].bmOccupied = bm /\ bins[g].binSparse = s /\ new.bmOccupied = bm
      /\ \A n \in 1 .. Len(s) : new.binSparse[n] = IF n = off THEN item ELSE s[n]
  BY <1>6
<1> HIDE DEF g, bm, s, new
<1>9. over \in Seq(Group(Items)) /\ Len(over) = Len(bins)
  BY <1>1, <1>5, <1>7
<1>10. over[g] = new /\ \A h \in DOMAIN bins : h # g => over[h] = bins[h]
  BY <1>1, <1>5
<1>11. over \in SparseArrays(Items)
  <2>1. ASSUME NEW h \in DOMAIN over
        PROVE  Matching(over[h])
    <3>1. h \in DOMAIN bins
      BY <1>1, <1>9
    <3>2. Matching(bins[h])
      BY <3>1 DEF SparseArrays
    <3> QED
      BY <1>7, <1>10, <3>1, <3>2
  <2> QED
    BY <1>9, <2>1 DEF SparseArrays
<1>12. ASSUME NEW l \in 0 .. (SizeOf(bins) - 1)
       PROVE  /\ SparseIsEmpty(over, l) <=> SparseIsEmpty(bins, l)
              /\ l = loc => ItemAt(over, l) = item
              /\ l # loc /\ ~SparseIsEmpty(bins, l) => ItemAt(over, l) = ItemAt(bins, l)
  <2>1. Bin(l) \in DOMAIN bins
    BY BucketFacts
  <2>2. CASE Bin(l) # g
    <3>1. over[Bin(l)] = bins[Bin(l)] /\ l # loc
      BY <1>10, <2>1, <2>2 DEF g
    <3> QED
      BY <3>1 DEF SparseIsEmpty, ItemAt
  <2>3. CASE Bin(l) = g
    <3>1. SparseIsEmpty(over, l) <=> SparseIsEmpty(bins, l)
      BY <1>8, <1>10, <2>3 DEF SparseIsEmpty
    <3>2. ASSUME ~SparseIsEmpty(bins, l)
          PROVE  ItemAt(over, l) = IF l = loc THEN item ELSE ItemAt(bins, l)
      <4> DEFINE n == EntriesUpto(bm, Pos(l)) + 1
      <4>1. Pos(l) \in bm
        BY <1>8, <2>3, <3>2 DEF SparseIsEmpty
      <4>2. n \in 1 .. Len(s)
        BY <1>2, <4>1, OffsetInRange
      <4>3. ItemAt(bins, l) = s[n] /\ ItemAt(over, l) = new.binSparse[n]
        BY <1>8, <1>10, <2>3 DEF ItemAt
      <4>4. l # loc => n # off
        <5>1. /\ Len(bins) \in Nat
              /\ l \in 0 .. (GroupSize * Len(bins) - 1)
              /\ loc \in 0 .. (GroupSize * Len(bins) - 1)
          BY BucketFacts
        <5>2. l # loc => Pos(l) # Pos(loc)
          BY <2>3, <5>1, AddressesDiffer DEF g
        <5>3. l # loc => EntriesUpto(bm, Pos(l)) # EntriesUpto(bm, Pos(loc))
          BY <1>1, <1>2, <4>1, <5>2, OffsetsDiffer
        <5>4. EntriesUpto(bm, Pos(l)) \in Int /\ EntriesUpto(bm, Pos(loc)) \in Int
          <6>1. Pos(l) \in Int /\ Pos(loc) \in Int
            BY <1>1, <1>2, <4>1, BitsAreNumbers
          <6>2. bm \in SUBSET Positions
            BY <1>2
          <6> HIDE DEF bm, off, n
          <6> QED
            BY <6>1, <6>2, CountIsNumber, Zenon
        <5> QED
          BY <5>3, <5>4
      <4>5. l = loc => n = off
        OBVIOUS
      <4> QED
        BY <1>8, <4>2, <4>3, <4>4, <4>5
    <3> QED
      BY <3>1, <3>2
  <2> QED
    BY <2>2, <2>3
<1> QED
  BY <1>9, <1>11, <1>12

\* An insertion into a sparse array is one into the dense array it stands for,
\* for groups of every size: the bucket gets the item or keeps its own, no other
\* bucket changes, and the array stays one with an item for every bit.
THEOREM SparseInsertIsDense ==
  ASSUME NEW Items, EMPTY \notin Items,
         NEW bins \in SparseArrays(Items), NEW item \in Items,
         NEW loc \in 0 .. (SizeOf(bins) - 1), NEW overwrite \in BOOLEAN
  PROVE  /\ SparseInsert(bins, loc, item, overwrite) \in SparseArrays(Items)
         /\ Dense(SparseInsert(bins, loc, item, overwrite)) =
              DenseInsert(Dense(bins), loc, item, overwrite)
<1> DEFINE new == SparseInsert(bins, loc, item, overwrite)
           at(b, l) == IF SparseIsEmpty(b, l) THEN EMPTY
                       ELSE Deref(b, SPARSE_BUCKET(b, l))
<1>1. ASSUME Len(new) = Len(bins), new \in SparseArrays(Items),
             \A l \in 0 .. (SizeOf(bins) - 1) :
               at(new, l) = IF l = loc /\ (at(bins, loc) = EMPTY \/ overwrite)
                            THEN item ELSE at(bins, l)
      PROVE  Dense(new) = DenseInsert(Dense(bins), loc, item, overwrite)
  <2>1. SizeOf(new) = SizeOf(bins)
    BY <1>1 DEF SizeOf
  <2>2. Dense(bins)[loc] = at(bins, loc)
    BY DEF Dense
  <2>3. Dense(new) = [l \in 0 .. (SizeOf(bins) - 1) |-> at(new, l)]
    BY <2>1 DEF Dense
  <2>4. Dense(bins) = [l \in 0 .. (SizeOf(bins) - 1) |-> at(bins, l)]
    BY DEF Dense
  <2> HIDE DEF new, at
  <2>5. CASE at(bins, loc) = EMPTY \/ overwrite
    <3>1. Dense(new) = [Dense(bins) EXCEPT ![loc] = item]
      BY <1>1, <2>3, <2>4, <2>5
    <3> QED
      BY <2>2, <2>5, <3>1 DEF DenseInsert
  <2>6. CASE ~(at(bins, loc) = EMPTY \/ overwrite)
    <3>1. Dense(new) = Dense(bins)
      BY <1>1, <2>3, <2>4, <2>6
    <3> QED
      BY <2>2, <2>6, <3>1 DEF DenseInsert
  <2> QED
    BY <2>5, <2>6
<1>2. ASSUME NEW b \in SparseArrays(Items), Len(b) = Len(bins),
             NEW l \in 0 .. (SizeOf(bins) - 1)
      PROVE  at(b, l) = IF SparseIsEmpty(b, l) THEN EMPTY ELSE ItemAt(b, l)
  <2>1. SizeOf(b) = SizeOf(bins)
    BY <1>2 DEF SizeOf
  <2> QED
    BY <2>1, ItemFound
<1>3. CASE SparseIsEmpty(bins, loc)
  <2>1. new = Opened(bins, loc, item)
    BY <1>3 DEF SparseInsert
  <2>2. new \in SparseArrays(Items) /\ Len(new) = Len(bins)
    BY <1>3, <2>1, OpenedFacts
  <2>3. \A l \in 0 .. (SizeOf(bins) - 1) :
          at(new, l) = IF l = loc /\ (at(bins, loc) = EMPTY \/ overwrite)
                       THEN item ELSE at(bins, l)
    <3> TAKE l \in 0 .. (SizeOf(bins) - 1)
    <3>1. /\ at(new, l) = IF SparseIsEmpty(new, l) THEN EMPTY ELSE ItemAt(new, l)
          /\ at(bins, l) = IF SparseIsEmpty(bins, l) THEN EMPTY ELSE ItemAt(bins, l)
          /\ at(bins, loc) = EMPTY
      BY <1>2, <1>3, <2>2
    <3>2. /\ SparseIsEmpty(new, l) <=> SparseIsEmpty(bins, l) /\ l # loc
          /\ l = loc => ItemAt(new, l) = item
          /\ l # loc /\ ~SparseIsEmpty(bins, l) => ItemAt(new, l) = ItemAt(bins, l)
      BY <1>3, <2>1, OpenedFacts
    <3> HIDE DEF new, at
    <3> QED
      BY <3>1, <3>2
  <2> QED
    BY <1>1, <2>2, <2>3
<1>4. CASE ~SparseIsEmpty(bins, loc) /\ overwrite
  <2>1. new = Overwrite(bins, SPARSE_BUCKET(bins, loc), item)
    BY <1>4 DEF SparseInsert
  <2> HIDE DEF new
  <2>2. new \in SparseArrays(Items) /\ Len(new) = Len(bins)
    BY <1>4, <2>1, OverwriteFacts
  <2>3. \A l \in 0 .. (SizeOf(bins) - 1) :
          at(new, l) = IF l = loc /\ (at(bins, loc) = EMPTY \/ overwrite)
                       THEN item ELSE at(bins, l)
    <3> TAKE l \in 0 .. (SizeOf(bins) - 1)
    <3>1. /\ at(new, l) = IF SparseIsEmpty(new, l) THEN EMPTY ELSE ItemAt(new, l)
          /\ at(bins, l) = IF SparseIsEmpty(bins, l) THEN EMPTY ELSE ItemAt(bins, l)
      BY <1>2, <2>2
    <3>2. /\ SparseIsEmpty(new, l) <=> SparseIsEmpty(bins, l)
          /\ l = loc => ItemAt(new, l) = item
          /\ l # loc /\ ~SparseIsEmpty(bins, l) => ItemAt(new, l) = ItemAt(bins, l)
      BY <1>4, <2>1, OverwriteFacts
    <3> HIDE DEF at
    <3> QED
      BY <1>4, <3>1, <3>2
  <2> QED
    BY <1>1, <2>2, <2>3 DEF new
<1>5. CASE ~SparseIsEmpty(bins, loc) /\ ~overwrite
  <2>1. new = bins
    BY <1>5 DEF SparseInsert
  <2>2. at(bins, loc) # EMPTY
    BY <1>5, ItemFound
  <2>3. \A l \in 0 .. (SizeOf(bins) - 1) :
          at(new, l) = IF l = loc /\ (at(bins, loc) = EMPTY \/ overwrite)
                       THEN item ELSE at(bins, l)
    BY <1>5, <2>1, <2>2
  <2> QED
    BY <1>1, <2>1, <2>3
<1> QED
  BY <1>3, <1>4, <1>5

-----------------------------------------------------------------------------
(* Powers of two.                                                          *)

\* What PowerOfTwo says, with a product in place of a remainder.
LEMMA OddDivisor ==
  ASSUME NEW p \in Nat, PowerOfTwo(p), NEW r \in Nat, NEW q \in Nat,
         p = r * q, r % 2 = 1
  PROVE  r = 1
<1>1. p > 0
  BY DEF PowerOfTwo
<1>2. q >= 1 /\ r >= 1
  BY <1>1, Z3
<1>3. r <= p
  BY <1>2, Z3
<1>4. ASSUME r >= 2
      PROVE  p % r = 0
  <2> DEFINE d == p \div r
             m == p % r
  <2>1. d \in Int /\ m \in 0 .. (r - 1) /\ p = r * d + m
    BY <1>4, Z3
  <2> HIDE DEF d, m
  <2>2. r * (q - d) = m
    BY <2>1, Z3
  <2>3. ~ (q - d >= 1) /\ ~ (q - d <= -1)
    BY <1>4, <2>1, <2>2, Z3
  <2>4. q = d
    BY <2>1, <2>3
  <2>5. m = 0
    BY <2>1, <2>2, <2>4, Z3
  <2> QED
    BY <2>5 DEF m
<1>5. CASE r >= 2
  BY <1>3, <1>4, <1>5 DEF PowerOfTwo
<1> QED
  BY <1>2, <1>5

\* And back.
LEMMA PowerFrom ==
  ASSUME NEW p \in Nat \ {0},
         \A r, q \in Nat : p = r * q /\ r % 2 = 1 => r = 1
  PROVE  PowerOfTwo(p)
<1> SUFFICES ASSUME NEW r \in 2 .. p, r % 2 = 1, p % r = 0
             PROVE  FALSE
  BY DEF PowerOfTwo
<1> DEFINE q == p \div r
<1>1. q \in Int /\ p = r * q + (p % r)
  BY Z3
<1> HIDE DEF q
<1>2. p = r * q
  BY <1>1
<1>3. q >= 0
  BY <1>1, <1>2, Z3
<1> QED
  BY <1>1, <1>2, <1>3

\* One is a power of two, and so is twice one.
LEMMA PowerOne == PowerOfTwo(1)
BY DEF PowerOfTwo

\* Twice a power of two is one.
LEMMA PowerDouble ==
  ASSUME NEW p \in Nat, PowerOfTwo(p)
  PROVE  PowerOfTwo(2 * p)
<1>1. p > 0
  BY DEF PowerOfTwo
<1>2. ASSUME NEW r \in Nat, NEW q \in Nat, 2 * p = r * q, r % 2 = 1
      PROVE  r = 1
  <2>1. PICK c \in Nat : r = 2 * c + 1
    BY <1>2
  <2>2. 2 * p = 2 * (c * q) + q
    BY <1>2, <2>1, Z3
  <2>3. c * q \in Nat
    BY <2>1, Z3
  <2>4. q = 2 * (p - c * q)
    BY <2>2, <2>3
  <2>5. PICK h \in Nat : q = 2 * h
    BY <2>3, <2>4
  <2>6. p = r * h
    BY <1>2, <2>5, Z3
  <2> QED
    BY <1>2, <2>6, OddDivisor
<1> QED
  BY <1>1, <1>2, PowerFrom

\* A power of two that is not one is twice another.
LEMMA PowerHalf ==
  ASSUME NEW p \in Nat, PowerOfTwo(p), p # 1
  PROVE  \E h \in Nat \ {0} : p = 2 * h /\ PowerOfTwo(h)
<1>1. p > 0
  BY DEF PowerOfTwo
<1>2. p % 2 = 0
  <2>1. p = p * 1
    BY Z3
  <2>2. p % 2 # 1
    BY <2>1, OddDivisor
  <2> QED
    BY <2>2
<1>3. PICK h \in Nat \ {0} : p = 2 * h
  BY <1>1, <1>2
<1>4. ASSUME NEW r \in Nat, NEW q \in Nat, h = r * q, r % 2 = 1
      PROVE  r = 1
  <2>1. p = r * (2 * q) /\ 2 * q \in Nat
    BY <1>3, <1>4, Z3
  <2> QED
    BY <1>4, <2>1, OddDivisor
<1> QED
  BY <1>3, <1>4, PowerFrom

\* Of two powers of two the smaller divides the other.
LEMMA PowersDivide ==
  ASSUME NEW p \in Nat, PowerOfTwo(p), NEW q \in Nat, PowerOfTwo(q), p <= q
  PROVE  \E m \in Nat \ {0} : q = p * m
<1> DEFINE S == {n \in Nat : PowerOfTwo(n) =>
                   \A a \in Nat : PowerOfTwo(a) /\ a <= n =>
                     \E m \in Nat \ {0} : n = a * m}
<1>1. ASSUME NEW n \in Nat, \A m \in 0 .. (n - 1) : m \in S
      PROVE  n \in S
  <2> SUFFICES ASSUME PowerOfTwo(n), NEW a \in Nat, PowerOfTwo(a), a <= n
               PROVE  \E m \in Nat \ {0} : n = a * m
    OBVIOUS
  <2>1. n > 0 /\ a > 0
    BY DEF PowerOfTwo
  <2>2. CASE a = 1
    <3>1. n = a * n
      BY <2>2, Z3
    <3> QED
      BY <2>1, <3>1
  <2>3. CASE a # 1
    <3>1. PICK b \in Nat \ {0} : a = 2 * b /\ PowerOfTwo(b)
      BY <2>3, PowerHalf
    <3>2. n # 1
      BY <3>1
    <3>3. PICK h \in Nat \ {0} : n = 2 * h /\ PowerOfTwo(h)
      BY <3>2, PowerHalf
    <3>4. h \in S /\ b <= h
      BY <1>1, <3>1, <3>3
    <3>5. PICK m \in Nat \ {0} : h = b * m
      BY <3>1, <3>3, <3>4
    <3>6. n = a * m
      BY <3>1, <3>3, <3>5, Z3
    <3> QED
      BY <3>6
  <2> QED
    BY <2>2, <2>3
<1> HIDE DEF S
<1>2. \A n \in Nat : n \in S
  BY <1>1, SetInduction
<1>3. q \in S
  BY <1>2
<1> QED
  BY <1>3 DEF S

\* NextPow2 of a number above 0 is a power of two and more than the number.
LEMMA NextPowerFacts ==
  ASSUME NEW x \in Nat, x > 0
  PROVE  /\ NextPow2(x) \in Nat /\ PowerOfTwo(NextPow2(x))
         /\ NextPow2(x) > x
<1> DEFINE S == {n \in Nat : n > 0 =>
                   \E p \in 1 .. n : PowerOfTwo(p) /\ n < 2 * p}
<1>1. ASSUME NEW n \in Nat, \A m \in 0 .. (n - 1) : m \in S
      PROVE  n \in S
  <2>1. CASE n = 0
    BY <2>1
  <2>2. CASE n = 1
    BY <2>2, PowerOne
  <2>3. CASE n > 1
    <3>1. n - 1 \in S /\ n - 1 > 0
      BY <1>1, <2>3
    <3>2. PICK p \in 1 .. (n - 1) : PowerOfTwo(p) /\ n - 1 < 2 * p
      BY <3>1
    <3>3. CASE n < 2 * p
      BY <3>2, <3>3
    <3>4. CASE n >= 2 * p
      <4>1. n = 2 * p /\ PowerOfTwo(2 * p)
        BY <3>2, <3>4, PowerDouble
      <4> QED
        BY <2>3, <4>1
    <3> QED
      BY <3>2, <3>3, <3>4
  <2> QED
    BY <2>1, <2>2, <2>3
<1> HIDE DEF S
<1>2. x \in S
  <2>1. \A n \in Nat : n \in S
    BY <1>1, SetInduction
  <2> QED
    BY <2>1
<1>3. \E p \in 1 .. x : PowerOfTwo(p) /\ x < 2 * p
  BY <1>2 DEF S
<1> DEFINE p == CHOOSE p \in 1 .. x : PowerOfTwo(p) /\ x < 2 * p
<1>4. p \in 1 .. x /\ PowerOfTwo(p) /\ x < 2 * p
  BY <1>3
<1>5. NextPow2(x) = 2 * p
  BY DEF NextPow2
<1> HIDE DEF p
<1> QED
  BY <1>4, <1>5, PowerDouble

Divides(p, x) == \E q \in Nat : x = p * q

\* A power of two that divides a product with an odd factor divides the other.
LEMMA OddFactor ==
  ASSUME NEW p \in Nat, PowerOfTwo(p), NEW a \in Nat, a % 2 = 1, NEW b \in Nat,
         Divides(p, a * b)
  PROVE  Divides(p, b)
<1> DEFINE S == {n \in Nat : PowerOfTwo(n) =>
                   \A y \in Nat : a * b = n * y => \E r \in Nat : b = n * r}
<1>1. ASSUME NEW n \in Nat, \A m \in 0 .. (n - 1) : m \in S
      PROVE  n \in S
  <2> SUFFICES ASSUME PowerOfTwo(n), NEW y \in Nat, a * b = n * y
               PROVE  \E r \in Nat : b = n * r
    OBVIOUS
  <2>1. CASE n = 1
    <3>1. b = n * b
      BY <2>1, Z3
    <3> QED
      BY <3>1
  <2>2. CASE n # 1
    <3>1. PICK h \in Nat \ {0} : n = 2 * h /\ PowerOfTwo(h)
      BY <2>2, PowerHalf
    <3>2. h \in S
      <4>1. h \in 0 .. (n - 1)
        BY <3>1
      <4> HIDE DEF S
      <4> QED
        BY <1>1, <4>1
    <3>3. a * b = h * (2 * y) /\ 2 * y \in Nat
      BY <3>1, Z3
    <3>4. PICK r \in Nat : b = h * r
      BY <3>1, <3>2, <3>3
    <3>5. a * r = 2 * y
      <4>1. h * (a * r) = h * (2 * y)
        BY <3>3, <3>4, Z3
      <4>2. a * r \in Int /\ 2 * y \in Int /\ h > 0
        BY Z3
      <4> QED
        BY <4>1, <4>2, Z3
    <3>6. PICK c \in Nat : a = 2 * c + 1
      OBVIOUS
    <3>7. c * r \in Nat /\ r = 2 * (y - c * r)
      BY <3>5, <3>6, Z3
    <3>8. PICK u \in Nat : r = 2 * u
      <4> DEFINE v == y - c * r
      <4>1. v \in Int /\ r = 2 * v
        BY <3>7
      <4> HIDE DEF v
      <4>2. v \in Nat
        BY <4>1
      <4> QED
        BY <4>1, <4>2
    <3>9. b = n * u
      BY <3>1, <3>4, <3>8, Z3
    <3> QED
      BY <3>9
  <2> QED
    BY <2>1, <2>2
<1> HIDE DEF S
<1>2. p \in S
  <2>1. \A n \in Nat : n \in S
    BY <1>1, SetInduction
  <2> QED
    BY <2>1
<1>3. PICK q \in Nat : a * b = p * q
  BY DEF Divides
<1> QED
  BY <1>2, <1>3 DEF S, Divides

-----------------------------------------------------------------------------
(* Probing.                                                                *)

\* The distance probed after n jumps.
Triangle(n) == (n * (n + 1)) \div 2

\* A whole number: n or n + 1 is even.
LEMMA TriangleFacts ==
  ASSUME NEW n \in Nat
  PROVE  Triangle(n) \in Nat /\ 2 * Triangle(n) = n * (n + 1)
<1>1. PICK u \in Nat : n * (n + 1) = 2 * u
  <2>1. CASE n % 2 = 0
    <3>1. PICK h \in Nat : n = 2 * h
      BY <2>1
    <3>2. n * (n + 1) = 2 * (h * (n + 1)) /\ h * (n + 1) \in Nat
      BY <3>1, Z3
    <3> QED
      BY <3>2
  <2>2. CASE n % 2 = 1
    <3>1. PICK h \in Nat : n + 1 = 2 * h
      <4>1. PICK g \in Nat : n = 2 * g + 1
        BY <2>2
      <4>2. n + 1 = 2 * (g + 1) /\ g + 1 \in Nat
        BY <4>1
      <4> QED
        BY <4>2
    <3>2. n * (n + 1) = 2 * (n * h) /\ n * h \in Nat
      BY <3>1, Z3
    <3> QED
      BY <3>2
  <2> QED
    BY <2>1, <2>2
<1>2. (2 * u) \div 2 = u
  OBVIOUS
<1>3. Triangle(n) = u
  BY <1>1, <1>2 DEF Triangle
<1> QED
  BY <1>1, <1>3

\* As many probes as there are buckets go to different ones, since the number of
\* buckets is a power of two: of the two factors of the distance between two
\* probes one is odd, and the other too small for it to be divided.
LEMMA ProbesDiffer ==
  ASSUME NEW N \in Nat, PowerOfTwo(N), NEW h \in Nat,
         NEW n \in 0 .. (N - 1), NEW m \in 0 .. (N - 1), m < n
  PROVE  (h + Triangle(m)) % N # (h + Triangle(n)) % N
<1> SUFFICES ASSUME (h + Triangle(m)) % N = (h + Triangle(n)) % N
             PROVE  FALSE
  OBVIOUS
<1> DEFINE a == n - m
           b == n + m + 1
           x == h + Triangle(n)
           y == h + Triangle(m)
<1>1. /\ x \in Nat /\ y \in Nat /\ N > 0
      /\ 2 * (x - y) = n * (n + 1) - m * (m + 1)
  <2>1. Triangle(n) \in Nat /\ 2 * Triangle(n) = n * (n + 1)
    BY TriangleFacts
  <2>2. Triangle(m) \in Nat /\ 2 * Triangle(m) = m * (m + 1)
    BY TriangleFacts
  <2>3. N > 0
    BY DEF PowerOfTwo
  <2>4. x - y = Triangle(n) - Triangle(m) /\ x \in Nat /\ y \in Nat
    BY <2>1, <2>2
  <2> HIDE DEF x, y
  <2>5. 2 * (x - y) = 2 * Triangle(n) - 2 * Triangle(m)
    BY <2>1, <2>2, <2>4
  <2> QED
    BY <2>1, <2>2, <2>3, <2>4, <2>5
<1>2. n * (n + 1) - m * (m + 1) = a * b
  BY Z3
<1>3. x % N = y % N
  OBVIOUS
<1> HIDE DEF x, y
<1>4. PICK q \in Int : x - y = N * q
  <2> DEFINE d == x \div N
             e == y \div N
             r == x % N
  <2>1. d \in Int /\ e \in Int /\ r \in Int /\ x = N * d + r /\ y = N * e + r
    BY <1>1, <1>3, Z3
  <2> HIDE DEF d, e, r
  <2>2. x - y = N * (d - e) /\ d - e \in Int
    BY <1>1, <2>1, Z3
  <2> QED
    BY <2>2
<1>5. a * b = (2 * N) * q
  BY <1>1, <1>2, <1>4, Z3
<1>6. a \in Nat /\ b \in Nat /\ 0 < a /\ a < 2 * N /\ 0 < b /\ b < 2 * N
  OBVIOUS
<1>7. a % 2 = 1 \/ b % 2 = 1
  <2>1. a + b = 2 * n + 1
    OBVIOUS
  <2> HIDE DEF a, b
  <2> QED
    BY <1>6, <2>1
<1> HIDE DEF a, b
<1>8. q \in Nat
  <2>1. a * b > 0
    BY <1>6, Z3
  <2>2. (2 * N) * q > 0
    BY <1>5, <2>1
  <2> QED
    BY <1>1, <2>2, Z3
<1> DEFINE M == 2 * N
<1>9. /\ M \in Nat /\ PowerOfTwo(M) /\ Divides(M, a * b)
      /\ 0 < a /\ a < M /\ 0 < b /\ b < M
  BY <1>5, <1>6, <1>8, PowerDouble DEF Divides
<1> HIDE DEF M
<1>10. ASSUME NEW c \in Nat, 0 < c, c < M
       PROVE  ~Divides(M, c)
  <2> SUFFICES ASSUME NEW r \in Nat, c = M * r
               PROVE  FALSE
    BY DEF Divides
  <2> QED
    BY <1>9, <1>10, Z3
<1>11. CASE a % 2 = 1
  <2>1. Divides(M, b)
    BY <1>6, <1>9, <1>11, OddFactor
  <2> QED
    BY <1>6, <1>9, <1>10, <2>1
<1>12. CASE b % 2 = 1
  <2>1. a * b = b * a
    BY <1>6, Z3
  <2>2. Divides(M, a)
    BY <1>6, <1>9, <1>12, <2>1, OddFactor
  <2> QED
    BY <1>6, <1>9, <1>10, <2>2
<1> QED
  BY <1>7, <1>11, <1>12

\* Numbers of buckets and buckets probed are in range.
LEMMA ProbeRange ==
  ASSUME NEW t, SizeOf(t) \in Nat, PowerOfTwo(SizeOf(t)), NEW k \in Keys,
         NEW n \in Nat
  PROVE  /\ Hash(t, k) \in Nat
         /\ Probe(t, k, n) = (Hash(t, k) + Triangle(n)) % SizeOf(t)
         /\ Probe(t, k, n) \in Buckets(t)
<1> DEFINE N == SizeOf(t)
<1>1. N \in Nat /\ N > 0
  BY DEF PowerOfTwo
<1>2. HashOf[k] \in Nat
  BY TableAssumption
<1>3. HashOf[k] % N \in Nat
  BY <1>1, <1>2, Z3
<1>4. Hash(t, k) \in Nat
  BY <1>3 DEF Hash
<1>5. Triangle(n) \in Nat
  BY TriangleFacts
<1>6. (Hash(t, k) + Triangle(n)) % N \in 0 .. (N - 1)
  BY <1>1, <1>4, <1>5, Z3
<1> QED
  BY <1>4, <1>6 DEF Probe, Triangle, Buckets

\* Every bucket is probed.
LEMMA ProbeCovers ==
  ASSUME NEW t, SizeOf(t) \in Nat, PowerOfTwo(SizeOf(t)), NEW k \in Keys,
         NEW loc \in Buckets(t)
  PROVE  \E n \in Buckets(t) : Probe(t, k, n) = loc
<1> SUFFICES ASSUME \A n \in Buckets(t) : Probe(t, k, n) # loc
             PROVE  FALSE
  OBVIOUS
<1> DEFINE N == SizeOf(t)
           S == 0 .. (N - 1)
           T == S \ {loc}
           f == [n \in S |-> Probe(t, k, n)]
<1>1. N \in Nat /\ N > 0 /\ S = Buckets(t)
  BY DEF PowerOfTwo, Buckets
<1>2. IsFiniteSet(S) /\ Cardinality(S) = N
  BY <1>1, FS_Interval
<1>3. IsFiniteSet(T) /\ Cardinality(T) = N - 1
  BY <1>1, <1>2, FS_RemoveElement
<1>4. f \in [S -> T]
  <2>1. ASSUME NEW n \in S
        PROVE  Probe(t, k, n) \in T
    <3>1. n \in Nat
      BY <1>1
    <3> QED
      BY <1>1, <2>1, <3>1, ProbeRange
  <2> QED
    BY <2>1
<1>5. PICK x \in S, y \in S : x # y /\ f[x] = f[y]
  <2>1. Cardinality(T) < Cardinality(S)
    BY <1>1, <1>2, <1>3
  <2> HIDE DEF f, S, T
  <2> QED
    BY <1>2, <1>3, <1>4, <2>1, FS_PigeonHole
<1>6. Probe(t, k, x) = Probe(t, k, y)
  BY <1>5
<1>7. x \in Nat /\ y \in Nat
  BY <1>1
<1>8. (Hash(t, k) + Triangle(x)) % N = (Hash(t, k) + Triangle(y)) % N
  BY <1>6, <1>7, ProbeRange
<1>9. Hash(t, k) \in Nat
  BY <1>7, ProbeRange
<1>10. CASE x < y
  BY <1>1, <1>8, <1>9, <1>10, ProbesDiffer
<1>11. CASE y < x
  BY <1>1, <1>8, <1>9, <1>11, ProbesDiffer
<1> QED
  BY <1>5, <1>7, <1>10, <1>11

\* FirstProbe is the first of as many probes as there are buckets that ends in
\* stops, if one does.
LEMMA FirstProbeFacts ==
  ASSUME NEW t, SizeOf(t) \in Nat, PowerOfTwo(SizeOf(t)), NEW k \in Keys,
         NEW stops, NEW loc \in stops \cap Buckets(t)
  PROVE  \E n \in Buckets(t) :
           /\ FirstProbe(t, k, stops) = {n}
           /\ Probe(t, k, n) \in stops
           /\ \A m \in 0 .. (n - 1) : Probe(t, k, m) \notin stops
<1> DEFINE hits == {n \in Buckets(t) : Probe(t, k, n) \in stops}
<1>1. hits # {} /\ hits \in SUBSET (0 .. (SizeOf(t) - 1))
  BY ProbeCovers DEF Buckets
<1>2. \E n \in hits : \A m \in hits : n <= m
  <2>1. SizeOf(t) \in Int
    OBVIOUS
  <2> HIDE DEF hits
  <2> QED
    BY <1>1, <2>1, Least
<1> DEFINE n == CHOOSE n \in hits : \A m \in hits : n <= m
<1>3. n \in hits /\ \A m \in hits : n <= m
  BY <1>2
<1>4. FirstProbe(t, k, stops) = {n}
  BY <1>1 DEF FirstProbe
<1> HIDE DEF n
<1>5. \A m \in 0 .. (n - 1) : Probe(t, k, m) \notin stops
  BY <1>3 DEF Buckets
<1> QED
  BY <1>3, <1>4, <1>5

-----------------------------------------------------------------------------
(* Tables.                                                                 *)

TableItems == [key : Keys, data : Data \cup {DELETED}]
Tables == {t \in SparseArrays(TableItems) : PowerOfTwo(SizeOf(t))}

\* A table has as many buckets as a power of two, a finite number.
LEMMA TableFacts ==
  ASSUME NEW t \in Tables
  PROVE  /\ t \in SparseArrays(TableItems) /\ Len(t) \in Nat
         /\ SizeOf(t) \in Nat /\ SizeOf(t) > 0 /\ PowerOfTwo(SizeOf(t))
         /\ Buckets(t) = 0 .. (SizeOf(t) - 1)
         /\ IsFiniteSet(Buckets(t)) /\ Cardinality(Buckets(t)) = SizeOf(t)
<1>1. t \in SparseArrays(TableItems) /\ PowerOfTwo(SizeOf(t))
  BY DEF Tables
<1>2. Len(t) \in Nat
  BY <1>1 DEF SparseArrays
<1>3. SizeOf(t) \in Nat /\ SizeOf(t) > 0
  <2>1. GroupSize * Len(t) \in Nat
    BY <1>2, GroupAssumption, Z3
  <2> QED
    BY <1>1, <2>1 DEF SizeOf, PowerOfTwo
<1>4. IsFiniteSet(Buckets(t)) /\ Cardinality(Buckets(t)) = SizeOf(t)
  BY <1>3, FS_Interval DEF Buckets
<1> QED
  BY <1>1, <1>2, <1>3, <1>4 DEF Buckets

\* The item of a bucket that has one.
LEMMA ItemFacts ==
  ASSUME NEW t \in Tables, NEW loc \in Buckets(t), ~SparseIsEmpty(t, loc)
  PROVE  /\ Deref(t, SPARSE_BUCKET(t, loc)) = ItemAt(t, loc)
         /\ ItemAt(t, loc) \in TableItems
         /\ KeyAt(t, loc) = ItemAt(t, loc).key /\ KeyAt(t, loc) \in Keys
         /\ DataAt(t, loc) = ItemAt(t, loc).data
         /\ DataAt(t, loc) \in Data \cup {DELETED}
         /\ ItemAt(t, loc) = Item(KeyAt(t, loc), DataAt(t, loc))
<1>1. t \in SparseArrays(TableItems) /\ loc \in 0 .. (SizeOf(t) - 1)
  BY TableFacts
<1>2. Deref(t, SPARSE_BUCKET(t, loc)) = ItemAt(t, loc) /\ ItemAt(t, loc) \in TableItems
  BY <1>1, ItemFound
<1>3. KeyAt(t, loc) = ItemAt(t, loc).key /\ DataAt(t, loc) = ItemAt(t, loc).data
  BY <1>2 DEF KeyAt, DataAt
<1> QED
  BY <1>2, <1>3 DEF TableItems, Item

\* Two buckets with items have their items in different places.
LEMMA PointersDiffer ==
  ASSUME NEW t \in Tables, NEW l \in Buckets(t), NEW m \in Buckets(t),
         ~SparseIsEmpty(t, l), ~SparseIsEmpty(t, m),
         SPARSE_BUCKET(t, l) = SPARSE_BUCKET(t, m)
  PROVE  l = m
<1>1. t \in SparseArrays(TableItems) /\ l \in 0 .. (SizeOf(t) - 1) /\ m \in 0 .. (SizeOf(t) - 1)
  BY TableFacts
<1> DEFINE bm == t[Bin(l)].bmOccupied
<1>2. /\ Bin(l) = Bin(m)
      /\ EntriesUpto(bm, Pos(l)) + 1 = EntriesUpto(bm, Pos(m)) + 1
  BY DEF SPARSE_BUCKET
<1>3. bm \in SUBSET Positions /\ Pos(l) \in bm /\ Pos(m) \in bm
  <2>1. Bin(l) \in DOMAIN t
    BY <1>1, BucketFacts
  <2> QED
    BY <1>1, <1>2, <2>1, GroupFacts DEF SparseIsEmpty
<1>4. EntriesUpto(bm, Pos(l)) \in Int /\ EntriesUpto(bm, Pos(m)) \in Int
  <2>1. Pos(l) \in Int /\ Pos(m) \in Int
    BY <1>3, BitsAreNumbers
  <2> HIDE DEF bm
  <2> QED
    BY <1>3, <2>1, CountIsNumber
<1>5. Pos(l) = Pos(m)
  BY <1>2, <1>3, <1>4, OffsetsDiffer
<1> QED
  BY <1>1, <1>2, <1>5, AddressesDiffer, BucketFacts

\* A pointer to an item is not NULL.
LEMMA PointerNotNull ==
  ASSUME NEW t \in Tables, NEW loc \in Buckets(t), ~SparseIsEmpty(t, loc)
  PROVE  /\ SPARSE_BUCKET(t, loc) # Null
         /\ SPARSE_BUCKET(t, loc).bin \in DOMAIN t
         /\ SPARSE_BUCKET(t, loc).bin > 0 /\ SPARSE_BUCKET(t, loc).off > 0
         /\ SPARSE_BUCKET(t, loc) \in [bin : Nat, off : Nat]
<1>1. t \in SparseArrays(TableItems) /\ loc \in 0 .. (SizeOf(t) - 1)
  BY TableFacts
<1>2. Bin(loc) \in DOMAIN t /\ Bin(loc) \in Nat /\ Bin(loc) > 0
  <2>1. Bin(loc) \in DOMAIN t
    BY <1>1, BucketFacts
  <2>2. t \in Seq(Group(TableItems))
    BY <1>1 DEF SparseArrays
  <2>3. DOMAIN t = 1 .. Len(t) /\ Len(t) \in Nat
    BY <2>2
  <2> QED
    BY <2>1, <2>3
<1> DEFINE off == EntriesUpto(t[Bin(loc)].bmOccupied, Pos(loc)) + 1
<1>3. off \in Nat /\ off > 0
  <2>1. off \in 1 .. Len(t[Bin(loc)].binSparse)
    BY <1>1, ItemFound
  <2> QED
    BY <2>1
<1>4. SPARSE_BUCKET(t, loc) = [bin |-> Bin(loc), off |-> off]
  BY DEF SPARSE_BUCKET
<1> HIDE DEF off
<1> QED
  BY <1>2, <1>3, <1>4, GroupAssumption

\* A bucket is empty, marked or live.
LEMMA Kinds ==
  ASSUME NEW t \in Tables
  PROVE  /\ EmptyBuckets(t) \in SUBSET Buckets(t)
         /\ LiveBuckets(t) \in SUBSET Buckets(t)
         /\ DeletedBuckets(t) \in SUBSET Buckets(t)
         /\ \A loc \in Buckets(t) :
              /\ SparseIsEmpty(t, loc) <=> loc \in EmptyBuckets(t)
              /\ loc \in LiveBuckets(t) <=>
                   ~SparseIsEmpty(t, loc) /\ DataAt(t, loc) # DELETED
              /\ loc \in DeletedBuckets(t) <=>
                   ~SparseIsEmpty(t, loc) /\ DataAt(t, loc) = DELETED
BY DEF EmptyBuckets, LiveBuckets, DeletedBuckets

\* Two finite sets that share nothing are counted one after the other.
LEMMA CountApart ==
  ASSUME NEW A, NEW B, IsFiniteSet(A), IsFiniteSet(B), A \cap B = {}
  PROVE  /\ IsFiniteSet(A \cup B)
         /\ Cardinality(A \cup B) = Cardinality(A) + Cardinality(B)
<1>1. Cardinality(A \cap B) = 0
  BY FS_EmptySet
<1>2. /\ IsFiniteSet(A \cup B)
      /\ Cardinality(A \cup B) = Cardinality(A) + Cardinality(B) - Cardinality(A \cap B)
  BY FS_Union, Zenon
<1>3. Cardinality(A) \in Nat /\ Cardinality(B) \in Nat
  BY FS_CardinalityType
<1> QED
  BY <1>1, <1>2, <1>3

\* So they are counted.
LEMMA KindsCounted ==
  ASSUME NEW t \in Tables
  PROVE  /\ IsFiniteSet(LiveBuckets(t)) /\ IsFiniteSet(DeletedBuckets(t))
         /\ Cardinality(LiveBuckets(t)) \in Nat
         /\ Cardinality(DeletedBuckets(t)) \in Nat
         /\ Cardinality(Buckets(t) \ EmptyBuckets(t)) =
              Cardinality(LiveBuckets(t)) + Cardinality(DeletedBuckets(t))
         /\ Cardinality(LiveBuckets(t)) + Cardinality(DeletedBuckets(t)) < SizeOf(t)
              => EmptyBuckets(t) # {}
<1>1. /\ IsFiniteSet(Buckets(t)) /\ SizeOf(t) = Cardinality(Buckets(t))
      /\ IsFiniteSet(LiveBuckets(t)) /\ IsFiniteSet(DeletedBuckets(t))
  BY TableFacts, Kinds, FS_Subset
<1>2. /\ Cardinality(LiveBuckets(t)) \in Nat /\ Cardinality(DeletedBuckets(t)) \in Nat
  BY <1>1, FS_CardinalityType
<1>3. /\ Buckets(t) \ EmptyBuckets(t) = LiveBuckets(t) \cup DeletedBuckets(t)
      /\ LiveBuckets(t) \cap DeletedBuckets(t) = {}
  BY DEF EmptyBuckets, LiveBuckets, DeletedBuckets
<1>4. Cardinality(LiveBuckets(t) \cup DeletedBuckets(t)) =
        Cardinality(LiveBuckets(t)) + Cardinality(DeletedBuckets(t))
  BY <1>1, <1>3, CountApart, Zenon
<1>5. Cardinality(Buckets(t) \ EmptyBuckets(t)) =
        Cardinality(LiveBuckets(t)) + Cardinality(DeletedBuckets(t))
  BY <1>3, <1>4
<1>6. EmptyBuckets(t) = {} => Buckets(t) \ EmptyBuckets(t) = Buckets(t)
  OBVIOUS
<1>7. EmptyBuckets(t) = {} =>
        SizeOf(t) = Cardinality(LiveBuckets(t)) + Cardinality(DeletedBuckets(t))
  BY <1>1, <1>5, <1>6, Zenon
<1>8. Cardinality(LiveBuckets(t)) + Cardinality(DeletedBuckets(t)) < SizeOf(t)
        => EmptyBuckets(t) # {}
  BY <1>2, <1>7
<1> QED
  BY <1>1, <1>2, <1>5, <1>8

\* loc is a bucket on the way of k, none before it empty.
OnWay(t, k, loc) ==
  \E n \in Buckets(t) : /\ Probe(t, k, n) = loc
                        /\ \A m \in 0 .. (n - 1) : ~SparseIsEmpty(t, Probe(t, k, m))

\* Every item is on the way of its key, and no two have one key.
Hashed(t) == \A loc \in LiveBuckets(t) : OnWay(t, KeyAt(t, loc), loc)
Distinct(t) ==
  \A l, m \in LiveBuckets(t) : KeyAt(t, l) = KeyAt(t, m) => l = m

GoodTable(t) == t \in Tables /\ Hashed(t) /\ Distinct(t)

\* Find finds the item of a key that has one, and else NULL.
LEMMA FindFacts ==
  ASSUME NEW t, GoodTable(t), EmptyBuckets(t) # {}, NEW k \in Keys
  PROVE  /\ \A loc \in LiveBuckets(t) : KeyAt(t, loc) = k =>
              Find(t, k) = SPARSE_BUCKET(t, loc)
         /\ (\A loc \in LiveBuckets(t) : KeyAt(t, loc) # k) => Find(t, k) = Null
<1>1. t \in Tables /\ Hashed(t) /\ Distinct(t)
  BY DEF GoodTable
<1>2. PICK e \in EmptyBuckets(t) : e \in Buckets(t)
  BY <1>1, Kinds
<1>3. PICK n \in Buckets(t) :
        /\ FirstProbe(t, k, Stops(t, k)) = {n}
        /\ Probe(t, k, n) \in Stops(t, k)
        /\ \A m \in 0 .. (n - 1) : Probe(t, k, m) \notin Stops(t, k)
  <2>1. e \in Stops(t, k) \cap Buckets(t)
    BY <1>2 DEF Stops
  <2> QED
    BY <1>1, <2>1, TableFacts, FirstProbeFacts
<1>4. Find(t, k) = SparseFind(t, Probe(t, k, n))
  <2>1. (CHOOSE x \in {n} : TRUE) = n
    OBVIOUS
  <2> QED
    BY <1>3, <2>1 DEF Find
<1> DEFINE l == Probe(t, k, n)
<1>5. l \in EmptyBuckets(t) \/ (l \in LiveBuckets(t) /\ KeyAt(t, l) = k)
  BY <1>3 DEF Stops
<1>6. l \in Buckets(t)
  BY <1>1, <1>5, Kinds
<1>7. CASE l \in EmptyBuckets(t)
  <2>1. Find(t, k) = Null
    BY <1>1, <1>4, <1>6, <1>7, Kinds DEF SparseFind
  <2>2. ASSUME NEW loc \in LiveBuckets(t), KeyAt(t, loc) = k
        PROVE  FALSE
    <3>1. PICK a \in Buckets(t) :
            /\ Probe(t, k, a) = loc
            /\ \A m \in 0 .. (a - 1) : ~SparseIsEmpty(t, Probe(t, k, m))
      BY <1>1, <2>2 DEF Hashed, OnWay
    <3>2. a \in Nat /\ n \in Nat
      BY <1>1, TableFacts
    <3>3. Probe(t, k, a) \in Stops(t, k)
      BY <2>2, <3>1 DEF Stops
    <3>4. n <= a
      BY <1>3, <3>2, <3>3
    <3>5. n # a
      BY <1>1, <1>7, <2>2, <3>1, Kinds
    <3>6. ~SparseIsEmpty(t, l)
      BY <3>1, <3>2, <3>4, <3>5
    <3> QED
      BY <1>1, <1>6, <1>7, <3>6, Kinds
  <2> QED
    BY <2>1, <2>2
<1>8. CASE l \in LiveBuckets(t) /\ KeyAt(t, l) = k
  <2>1. Find(t, k) = SPARSE_BUCKET(t, l)
    BY <1>1, <1>4, <1>6, <1>8, Kinds DEF SparseFind
  <2>2. \A loc \in LiveBuckets(t) : KeyAt(t, loc) = k => loc = l
    BY <1>1, <1>8 DEF Distinct
  <2> QED
    BY <1>8, <2>1, <2>2
<1> QED
  BY <1>5, <1>7, <1>8

\* The bucket a search leaves for an insertion.
LEMMA OpenFacts ==
  ASSUME NEW t \in Tables, EmptyBuckets(t) # {}, NEW k \in Keys
  PROVE  /\ Open(t, k) \in EmptyBuckets(t) \cup DeletedBuckets(t)
         /\ Open(t, k) \in Buckets(t)
         /\ OnWay(t, k, Open(t, k))
<1> DEFINE free == EmptyBuckets(t) \cup DeletedBuckets(t)
<1>1. free \in SUBSET Buckets(t) /\ free # {}
  BY Kinds
<1>2. PICK n \in Buckets(t) :
        /\ FirstProbe(t, k, free) = {n}
        /\ Probe(t, k, n) \in free
        /\ \A m \in 0 .. (n - 1) : Probe(t, k, m) \notin free
  <2>1. PICK e : e \in free \cap Buckets(t)
    BY <1>1
  <2> HIDE DEF free
  <2> QED
    BY <2>1, TableFacts, FirstProbeFacts
<1>3. Open(t, k) = Probe(t, k, n)
  <2>1. (CHOOSE x \in {n} : TRUE) = n
    OBVIOUS
  <2> QED
    BY <1>2, <2>1 DEF Open
<1>4. ASSUME NEW m \in 0 .. (n - 1)
      PROVE  ~SparseIsEmpty(t, Probe(t, k, m))
  <2>1. m \in Nat
    BY TableFacts
  <2>2. Probe(t, k, m) \in Buckets(t)
    BY <2>1, TableFacts, ProbeRange
  <2> QED
    BY <1>2, <2>2, Kinds
<1> QED
  BY <1>1, <1>2, <1>3, <1>4 DEF OnWay

-----------------------------------------------------------------------------
(* Changing one bucket.                                                    *)

\* u is t with the item in bucket loc.
Put(t, u, loc, item) ==
  /\ u \in SparseArrays(TableItems) /\ Len(u) = Len(t)
  /\ \A l \in Buckets(t) :
       /\ SparseIsEmpty(u, l) <=> SparseIsEmpty(t, l) /\ l # loc
       /\ l = loc => ItemAt(u, l) = item
       /\ l # loc /\ ~SparseIsEmpty(t, l) => ItemAt(u, l) = ItemAt(t, l)

\* SparseInsert puts an item into an empty bucket, and into any if it may.
LEMMA InsertPuts ==
  ASSUME NEW t \in Tables, NEW loc \in Buckets(t), NEW item \in TableItems,
         NEW overwrite \in BOOLEAN, SparseIsEmpty(t, loc) \/ overwrite
  PROVE  Put(t, SparseInsert(t, loc, item, overwrite), loc, item)
<1>1. t \in SparseArrays(TableItems) /\ loc \in 0 .. (SizeOf(t) - 1)
      /\ Buckets(t) = 0 .. (SizeOf(t) - 1)
  BY TableFacts
<1>2. CASE SparseIsEmpty(t, loc)
  <2>1. SparseInsert(t, loc, item, overwrite) = Opened(t, loc, item)
    BY <1>2 DEF SparseInsert
  <2> QED
    BY <1>1, <1>2, <2>1, OpenedFacts DEF Put
<1>3. CASE ~SparseIsEmpty(t, loc)
  <2>1. SparseInsert(t, loc, item, overwrite) = Overwrite(t, SPARSE_BUCKET(t, loc), item)
    BY <1>3 DEF SparseInsert
  <2> QED
    BY <1>1, <1>3, <2>1, OverwriteFacts DEF Put
<1> QED
  BY <1>2, <1>3

\* So does replacing the item of a bucket.
LEMMA OverwritePuts ==
  ASSUME NEW t \in Tables, NEW loc \in Buckets(t), NEW item \in TableItems,
         ~SparseIsEmpty(t, loc)
  PROVE  Put(t, Overwrite(t, SPARSE_BUCKET(t, loc), item), loc, item)
<1>1. t \in SparseArrays(TableItems) /\ loc \in 0 .. (SizeOf(t) - 1)
      /\ Buckets(t) = 0 .. (SizeOf(t) - 1)
  BY TableFacts
<1> QED
  BY <1>1, OverwriteFacts DEF Put

\* The other buckets keep their kinds and their items, and probes their ways.
LEMMA PutFacts ==
  ASSUME NEW t \in Tables, NEW u, NEW loc \in Buckets(t), NEW item \in TableItems,
         Put(t, u, loc, item)
  PROVE  /\ u \in Tables /\ SizeOf(u) = SizeOf(t) /\ Buckets(u) = Buckets(t)
         /\ EmptyBuckets(u) = EmptyBuckets(t) \ {loc}
         /\ ItemAt(u, loc) = item
         /\ KeyAt(u, loc) = item.key /\ DataAt(u, loc) = item.data
         /\ \A l \in Buckets(t) : l # loc /\ ~SparseIsEmpty(t, l) =>
              /\ ItemAt(u, l) = ItemAt(t, l)
              /\ KeyAt(u, l) = KeyAt(t, l) /\ DataAt(u, l) = DataAt(t, l)
         /\ LiveBuckets(u) = IF item.data = DELETED THEN LiveBuckets(t) \ {loc}
                             ELSE LiveBuckets(t) \cup {loc}
         /\ DeletedBuckets(u) = IF item.data = DELETED THEN DeletedBuckets(t) \cup {loc}
                                ELSE DeletedBuckets(t) \ {loc}
         /\ \A k \in Keys, l \in Buckets(t) : OnWay(t, k, l) => OnWay(u, k, l)
<1>1. SizeOf(u) = SizeOf(t) /\ Buckets(u) = Buckets(t) /\ u \in Tables
  BY TableFacts DEF Put, SizeOf, Buckets, Tables
<1>2. \A l \in Buckets(t) : SparseIsEmpty(u, l) <=> SparseIsEmpty(t, l) /\ l # loc
  BY DEF Put
<1>3. EmptyBuckets(u) = EmptyBuckets(t) \ {loc}
  BY <1>1, <1>2 DEF EmptyBuckets
<1>4. ItemAt(u, loc) = item /\ KeyAt(u, loc) = item.key /\ DataAt(u, loc) = item.data
  <2>1. ItemAt(u, loc) = item /\ ~SparseIsEmpty(u, loc)
    BY <1>2 DEF Put
  <2> QED
    BY <1>1, <2>1, ItemFacts
<1>5. ASSUME NEW l \in Buckets(t), l # loc, ~SparseIsEmpty(t, l)
      PROVE  /\ ItemAt(u, l) = ItemAt(t, l)
             /\ KeyAt(u, l) = KeyAt(t, l) /\ DataAt(u, l) = DataAt(t, l)
  <2>1. ItemAt(u, l) = ItemAt(t, l) /\ ~SparseIsEmpty(u, l)
    BY <1>2, <1>5 DEF Put
  <2>2. KeyAt(u, l) = ItemAt(u, l).key /\ DataAt(u, l) = ItemAt(u, l).data
    BY <1>1, <2>1, ItemFacts
  <2>3. KeyAt(t, l) = ItemAt(t, l).key /\ DataAt(t, l) = ItemAt(t, l).data
    BY <1>5, ItemFacts
  <2> QED
    BY <2>1, <2>2, <2>3
<1>6. LiveBuckets(u) = IF item.data = DELETED THEN LiveBuckets(t) \ {loc}
                       ELSE LiveBuckets(t) \cup {loc}
  BY <1>1, <1>2, <1>4, <1>5 DEF LiveBuckets
<1>7. DeletedBuckets(u) = IF item.data = DELETED THEN DeletedBuckets(t) \cup {loc}
                          ELSE DeletedBuckets(t) \ {loc}
  BY <1>1, <1>2, <1>4, <1>5 DEF DeletedBuckets
<1>8. ASSUME NEW k \in Keys, NEW l \in Buckets(t), OnWay(t, k, l)
      PROVE  OnWay(u, k, l)
  <2>1. PICK n \in Buckets(t) :
          /\ Probe(t, k, n) = l
          /\ \A m \in 0 .. (n - 1) : ~SparseIsEmpty(t, Probe(t, k, m))
    BY <1>8 DEF OnWay
  <2>2. \A m : Probe(u, k, m) = Probe(t, k, m)
    BY <1>1 DEF Probe, Hash
  <2>3. ASSUME NEW m \in 0 .. (n - 1)
        PROVE  ~SparseIsEmpty(u, Probe(u, k, m))
    <3>1. m \in Nat
      BY TableFacts
    <3>2. Probe(t, k, m) \in Buckets(t)
      BY <3>1, TableFacts, ProbeRange
    <3> QED
      BY <1>2, <2>1, <2>2, <3>2
  <2> QED
    BY <1>1, <2>1, <2>2, <2>3 DEF OnWay
<1> QED
  BY <1>1, <1>3, <1>4, <1>5, <1>6, <1>7, <1>8

\* The other items alone.
LEMMA PutOthers ==
  ASSUME NEW t \in Tables, NEW u, NEW loc \in Buckets(t), NEW item \in TableItems,
         Put(t, u, loc, item), NEW l \in Buckets(t), l # loc, ~SparseIsEmpty(t, l)
  PROVE  /\ ~SparseIsEmpty(u, l) /\ ItemAt(u, l) = ItemAt(t, l)
         /\ KeyAt(u, l) = KeyAt(t, l) /\ DataAt(u, l) = DataAt(t, l)
BY PutFacts DEF Put

\* A new key at the bucket that its search left.
LEMMA PutNew ==
  ASSUME NEW t, GoodTable(t), NEW u, NEW loc \in Buckets(t), loc \notin LiveBuckets(t),
         NEW item \in TableItems, item.data # DELETED,
         \A l \in LiveBuckets(t) : KeyAt(t, l) # item.key,
         OnWay(t, item.key, loc), Put(t, u, loc, item)
  PROVE  GoodTable(u)
<1>1. t \in Tables /\ Hashed(t) /\ Distinct(t) /\ item.key \in Keys
  BY DEF GoodTable, TableItems
<1>2. u \in Tables /\ LiveBuckets(u) = LiveBuckets(t) \cup {loc} /\ KeyAt(u, loc) = item.key
  BY <1>1, PutFacts
<1>3. \A l \in LiveBuckets(t) : /\ l \in Buckets(t) /\ l # loc
                                /\ KeyAt(u, l) = KeyAt(t, l) /\ KeyAt(t, l) \in Keys
  <2> TAKE l \in LiveBuckets(t)
  <2>1. l \in Buckets(t) /\ l # loc /\ ~SparseIsEmpty(t, l)
    BY <1>1, Kinds
  <2>2. KeyAt(u, l) = KeyAt(t, l)
    BY <1>1, <2>1, PutOthers
  <2>3. KeyAt(t, l) \in Keys
    BY <1>1, <2>1, ItemFacts
  <2> QED
    BY <2>1, <2>2, <2>3
<1>4. Distinct(u)
  BY <1>1, <1>2, <1>3 DEF Distinct
<1>5. ASSUME NEW l \in LiveBuckets(u)
      PROVE  OnWay(u, KeyAt(u, l), l)
  <2>1. CASE l = loc
    BY <1>1, <1>2, <2>1, PutFacts
  <2>2. CASE l # loc
    <3>1. l \in LiveBuckets(t) /\ OnWay(t, KeyAt(t, l), l)
      BY <1>1, <1>2, <2>2 DEF Hashed
    <3> QED
      BY <1>1, <1>3, <3>1, PutFacts
  <2> QED
    BY <2>1, <2>2
<1> QED
  BY <1>2, <1>4, <1>5 DEF GoodTable, Hashed

\* New data, or a mark, for a key that is there.
LEMMA PutAgain ==
  ASSUME NEW t, GoodTable(t), NEW u, NEW loc \in LiveBuckets(t),
         NEW item \in TableItems, item.key = KeyAt(t, loc), Put(t, u, loc, item)
  PROVE  GoodTable(u)
<1>1. t \in Tables /\ Hashed(t) /\ Distinct(t) /\ loc \in Buckets(t)
  BY Kinds DEF GoodTable
<1>2. /\ u \in Tables /\ LiveBuckets(u) \subseteq LiveBuckets(t)
      /\ KeyAt(u, loc) = KeyAt(t, loc)
  BY <1>1, PutFacts
<1>3. \A l \in LiveBuckets(t) : /\ l \in Buckets(t)
                                /\ KeyAt(u, l) = KeyAt(t, l) /\ KeyAt(t, l) \in Keys
  BY <1>1, <1>2, Kinds, ItemFacts, PutFacts
<1>4. Distinct(u)
  BY <1>1, <1>2, <1>3 DEF Distinct
<1>5. ASSUME NEW l \in LiveBuckets(u)
      PROVE  OnWay(u, KeyAt(u, l), l)
  <2>1. l \in LiveBuckets(t) /\ OnWay(t, KeyAt(t, l), l)
    BY <1>1, <1>2 DEF Hashed
  <2> QED
    BY <1>1, <1>3, <2>1, PutFacts
<1> QED
  BY <1>2, <1>4, <1>5 DEF GoodTable, Hashed

-----------------------------------------------------------------------------
(* Allocating.                                                             *)

\* SparseAllocate makes whole groups of a power of two of buckets, all empty.
LEMMA AllocateFacts ==
  ASSUME NEW n \in Nat, PowerOfTwo(n), NEW t, t = SparseAllocate(n)
  PROVE  /\ GoodTable(t) /\ SizeOf(t) >= n
         /\ EmptyBuckets(t) = Buckets(t)
         /\ LiveBuckets(t) = {} /\ DeletedBuckets(t) = {} /\ t # <<>>
<1> DEFINE G == GroupSize
<1>1. G \in Nat /\ G > 0 /\ PowerOfTwo(G) /\ n > 0
  BY GroupAssumption, TableAssumption DEF PowerOfTwo
<1>2. PICK m \in Nat \ {0} : SPARSE_GROUPS(n) = m /\ PowerOfTwo(G * m) /\ G * m >= n
  <2>1. CASE n <= G
    <3>1. (n + G - 1) \div G = 1
      <4> DEFINE q == (n + G - 1) \div G
                 r == (n + G - 1) % G
      <4>1. q \in Int /\ r \in 0 .. (G - 1) /\ n + G - 1 = G * q + r
        BY <1>1, Z3
      <4> HIDE DEF q, r
      <4>2. G <= n + G - 1 /\ n + G - 1 < 2 * G
        BY <1>1, <2>1
      <4>3. ~(q <= 0) /\ ~(q >= 2)
        BY <1>1, <4>1, <4>2, Z3
      <4>4. q = 1
        BY <4>1, <4>3
      <4> QED
        BY <4>4 DEF q
    <3>2. G * 1 = G
      BY <1>1, Z3
    <3> QED
      BY <1>1, <2>1, <3>1, <3>2 DEF SPARSE_GROUPS
  <2>2. CASE n > G
    <3>1. PICK m \in Nat \ {0} : n = G * m
      BY <1>1, <2>2, PowersDivide
    <3>2. (n + G - 1) \div G = m
      <4> DEFINE q == (n + G - 1) \div G
                 r == (n + G - 1) % G
      <4>1. q \in Int /\ r \in 0 .. (G - 1) /\ n + G - 1 = G * q + r
        BY <1>1, Z3
      <4> HIDE DEF q, r
      <4>2. G * (q - m) = G - 1 - r
        BY <1>1, <3>1, <4>1, Z3
      <4>3. ~(q - m >= 1) /\ ~(q - m <= -1)
        BY <1>1, <4>1, <4>2, Z3
      <4>4. q = m
        BY <4>1, <4>3
      <4> QED
        BY <4>4 DEF q
    <3> QED
      BY <3>1, <3>2 DEF SPARSE_GROUPS
  <2> QED
    BY <1>1, <2>1, <2>2
<1>3. t = [g \in 1 .. m |-> NoItems]
  BY <1>2 DEF SparseAllocate
<1>4. NoItems \in Group(TableItems) /\ Matching(NoItems)
  <2>1. NoItems.binSparse = <<>> /\ NoItems.bmOccupied = {}
        /\ NoItems = [bmOccupied |-> {}, binSparse |-> <<>>]
    BY DEF NoItems
  <2>2. Cardinality({}) = 0
    BY FS_EmptySet
  <2> QED
    BY <2>1, <2>2 DEF Group, Matching
<1>5. t \in Seq(Group(TableItems)) /\ Len(t) = m /\ \A g \in DOMAIN t : t[g] = NoItems
  <2> HIDE DEF NoItems
  <2> QED
    BY <1>3, <1>4
<1>6. t \in SparseArrays(TableItems)
  BY <1>4, <1>5 DEF SparseArrays
<1>7. SizeOf(t) = G * m
  BY <1>5 DEF SizeOf
<1>8. t \in Tables
  BY <1>2, <1>6, <1>7 DEF Tables
<1>9. ASSUME NEW l \in Buckets(t)
      PROVE  SparseIsEmpty(t, l)
  <2>1. Bin(l) \in DOMAIN t
    BY <1>6, BucketFacts DEF Buckets
  <2>2. t[Bin(l)].bmOccupied = {}
    BY <1>5, <2>1 DEF NoItems
  <2> QED
    BY <2>2 DEF SparseIsEmpty
<1>10. EmptyBuckets(t) = Buckets(t) /\ LiveBuckets(t) = {} /\ DeletedBuckets(t) = {}
  BY <1>9 DEF EmptyBuckets, LiveBuckets, DeletedBuckets
<1>11. t # <<>>
  BY <1>2, <1>5
<1> QED
  BY <1>2, <1>7, <1>8, <1>10, <1>11 DEF GoodTable, Hashed, Distinct

-----------------------------------------------------------------------------
(* Rehashing.                                                              *)

\* u has the items of t's buckets S, each once, and no others.
Holds(u, t, S) ==
  /\ GoodTable(t) /\ GoodTable(u) /\ S \subseteq LiveBuckets(t)
  /\ DeletedBuckets(u) = {}
  /\ \A l \in LiveBuckets(u) : \E s \in S : ItemAt(u, l) = ItemAt(t, s)
  /\ \A s \in S : \E l \in LiveBuckets(u) : ItemAt(u, l) = ItemAt(t, s)
  /\ Cardinality(LiveBuckets(u)) = Cardinality(S)

\* A table that holds some items of t and gets one more.
LEMMA HoldsMore ==
  ASSUME NEW u, NEW t, NEW S, Holds(u, t, S), NEW s \in LiveBuckets(t) \ S,
         NEW v, NEW loc, NEW item, Put(u, v, loc, item), ItemAt(t, s) = item,
         loc \in EmptyBuckets(u), OnWay(u, item.key, loc)
  PROVE  /\ SizeOf(v) = SizeOf(u) /\ Holds(v, t, S \cup {s})
         /\ loc \in LiveBuckets(v) /\ ItemAt(v, loc) = item
<1>1. /\ GoodTable(t) /\ GoodTable(u) /\ t \in Tables /\ u \in Tables /\ Distinct(t)
      /\ S \subseteq LiveBuckets(t) /\ s \in LiveBuckets(t) /\ s \notin S
  BY DEF GoodTable, Holds
<1>2. s \in Buckets(t) /\ ~SparseIsEmpty(t, s) /\ DataAt(t, s) # DELETED
  BY <1>1, Kinds
<1>3. /\ item.key \in Keys /\ item.data # DELETED /\ item.key = KeyAt(t, s)
      /\ item \in TableItems
  BY <1>1, <1>2, ItemFacts
<1>4. loc \in Buckets(u) /\ SparseIsEmpty(u, loc) /\ loc \notin LiveBuckets(u)
  BY <1>1, Kinds
<1>5. ASSUME NEW l \in LiveBuckets(u)
      PROVE  KeyAt(u, l) # item.key /\ l # loc /\ ItemAt(v, l) = ItemAt(u, l)
  <2>1. PICK r \in S : ItemAt(u, l) = ItemAt(t, r)
    BY DEF Holds
  <2>2. r \in LiveBuckets(t) /\ r \in Buckets(t) /\ ~SparseIsEmpty(t, r) /\ r # s
    BY <1>1, <2>1, Kinds
  <2>3. l \in Buckets(u) /\ ~SparseIsEmpty(u, l) /\ l # loc
    BY <1>1, <1>4, Kinds
  <2>4. KeyAt(u, l) = ItemAt(u, l).key
    BY <1>1, <2>3, ItemFacts
  <2>5. KeyAt(t, r) = ItemAt(t, r).key
    BY <1>1, <2>2, ItemFacts
  <2>6. KeyAt(t, r) # KeyAt(t, s)
    BY <1>1, <2>2 DEF Distinct
  <2>7. ItemAt(v, l) = ItemAt(u, l)
    BY <2>3 DEF Put
  <2> QED
    BY <1>3, <2>1, <2>3, <2>4, <2>5, <2>6, <2>7
<1>6. GoodTable(v)
  BY <1>1, <1>3, <1>4, <1>5, PutNew
<1>7. /\ SizeOf(v) = SizeOf(u) /\ ItemAt(v, loc) = item
      /\ LiveBuckets(v) = LiveBuckets(u) \cup {loc}
      /\ DeletedBuckets(v) = DeletedBuckets(u) \ {loc}
  BY <1>1, <1>3, <1>4, PutFacts
<1>8. DeletedBuckets(v) = {}
  BY <1>7 DEF Holds
<1>9. ASSUME NEW l \in LiveBuckets(v)
      PROVE  \E r \in S \cup {s} : ItemAt(v, l) = ItemAt(t, r)
  <2>1. CASE l = loc
    BY <1>7, <2>1
  <2>2. CASE l \in LiveBuckets(u)
    BY <1>5, <2>2 DEF Holds
  <2> QED
    BY <1>7, <2>1, <2>2
<1>10. ASSUME NEW r \in S \cup {s}
       PROVE  \E l \in LiveBuckets(v) : ItemAt(v, l) = ItemAt(t, r)
  <2>1. CASE r = s
    BY <1>7, <2>1
  <2>2. CASE r \in S
    <3>1. PICK l \in LiveBuckets(u) : ItemAt(u, l) = ItemAt(t, r)
      BY <2>2 DEF Holds
    <3> QED
      BY <1>5, <1>7, <3>1
  <2> QED
    BY <2>1, <2>2
<1>11. Cardinality(LiveBuckets(v)) = Cardinality(S \cup {s})
  <2>1. IsFiniteSet(S) /\ IsFiniteSet(LiveBuckets(u))
    BY <1>1, KindsCounted, FS_Subset DEF Holds
  <2>2. Cardinality(LiveBuckets(u) \cup {loc}) = Cardinality(LiveBuckets(u)) + 1
    BY <1>4, <2>1, FS_AddElement
  <2>3. Cardinality(S \cup {s}) = Cardinality(S) + 1
    BY <2>1, FS_AddElement
  <2>4. Cardinality(LiveBuckets(u)) = Cardinality(S)
    BY DEF Holds
  <2> QED
    BY <1>7, <2>2, <2>3, <2>4
<1>12. Holds(v, t, S \cup {s})
  BY <1>1, <1>6, <1>8, <1>9, <1>10, <1>11 DEF Holds
<1> QED
  BY <1>7, <1>12

\* One more item is moved.
LEMMA PlaceFacts ==
  ASSUME NEW u, NEW t, NEW S, Holds(u, t, S), NEW s \in LiveBuckets(t) \ S,
         Cardinality(S) < SizeOf(u),
         NEW v, v = Placed(u, Deref(t, SPARSE_BUCKET(t, s)))
  PROVE  /\ SizeOf(v.table) = SizeOf(u) /\ Holds(v.table, t, S \cup {s})
         /\ v.table = Place(u, Deref(t, SPARSE_BUCKET(t, s)))
         /\ \E loc \in LiveBuckets(v.table) :
              v.item = SPARSE_BUCKET(v.table, loc) /\ ItemAt(v.table, loc) = ItemAt(t, s)
<1>1. t \in Tables /\ u \in Tables
  BY DEF GoodTable, Holds
<1>2. PICK item \in TableItems :
        /\ item = ItemAt(t, s) /\ item = Deref(t, SPARSE_BUCKET(t, s)) /\ item.key \in Keys
  <2>1. s \in Buckets(t) /\ ~SparseIsEmpty(t, s)
    BY <1>1, Kinds
  <2> QED
    BY <1>1, <2>1, ItemFacts
<1>3. EmptyBuckets(u) # {} /\ DeletedBuckets(u) = {}
  <2>1. DeletedBuckets(u) = {} /\ Cardinality(LiveBuckets(u)) = Cardinality(S)
    BY DEF Holds
  <2>2. Cardinality(DeletedBuckets(u)) = 0
    BY <2>1, FS_EmptySet
  <2>3. Cardinality(LiveBuckets(u)) \in Nat
    BY <1>1, KindsCounted
  <2>4. Cardinality(LiveBuckets(u)) + Cardinality(DeletedBuckets(u)) < SizeOf(u)
          => EmptyBuckets(u) # {}
    BY <1>1, KindsCounted
  <2>5. Cardinality(LiveBuckets(u)) + Cardinality(DeletedBuckets(u)) < SizeOf(u)
    BY <2>1, <2>2, <2>3
  <2> QED
    BY <2>1, <2>4, <2>5
<1>4. PICK loc \in EmptyBuckets(u) :
        loc = Open(u, item.key) /\ loc \in Buckets(u) /\ OnWay(u, item.key, loc)
  BY <1>1, <1>2, <1>3, OpenFacts
<1>5. PICK w : w = SparseInsert(u, loc, item, FALSE) /\ Put(u, w, loc, item)
  <2>1. SparseIsEmpty(u, loc)
    BY <1>1, <1>4, Kinds
  <2> QED
    BY <1>1, <1>2, <1>4, <2>1, InsertPuts
<1>6. /\ SizeOf(w) = SizeOf(u) /\ Holds(w, t, S \cup {s})
      /\ loc \in LiveBuckets(w) /\ ItemAt(w, loc) = item
  <2>1. /\ Put(u, w, loc, item) /\ ItemAt(t, s) = item
        /\ loc \in EmptyBuckets(u) /\ OnWay(u, item.key, loc)
    BY <1>2, <1>4, <1>5
  <2> QED
    BY <2>1, HoldsMore
<1>7. v.table = w /\ v.item = SPARSE_BUCKET(w, loc) /\ w = Place(u, item)
  BY <1>2, <1>4, <1>5 DEF Placed, Place
<1> QED
  BY <1>2, <1>6, <1>7

\* The tables on the way of MoveAll.
MovedTo(f, N, t, moving, new) ==
  f = [n \in 0 .. N |->
        IF n = 0 THEN new
        ELSE IF n - 1 \notin moving THEN f[n - 1]
        ELSE Place(f[n - 1], Deref(t, SPARSE_BUCKET(t, n - 1)))]

\* There are such tables.
LEMMA MovedToExists ==
  ASSUME NEW t, NEW moving, NEW new, NEW N \in Nat
  PROVE  \E f : MovedTo(f, N, t, moving, new)
<1> DEFINE S == {n \in Nat : \E f : MovedTo(f, n, t, moving, new)}
<1>1. ASSUME NEW n \in Nat, \A m \in 0 .. (n - 1) : m \in S
      PROVE  n \in S
  <2>1. CASE n = 0
    <3> DEFINE f == [m \in 0 .. 0 |-> new]
    <3>1. MovedTo(f, 0, t, moving, new)
      BY DEF MovedTo
    <3> QED
      BY <2>1, <3>1
  <2>2. CASE n > 0
    <3>1. n - 1 \in S
      <4>1. n - 1 \in 0 .. (n - 1)
        BY <2>2
      <4> HIDE DEF S
      <4> QED
        BY <1>1, <4>1
    <3>2. PICK g : MovedTo(g, n - 1, t, moving, new)
      BY <3>1
    <3> DEFINE last == IF n - 1 \notin moving THEN g[n - 1]
                       ELSE Place(g[n - 1], Deref(t, SPARSE_BUCKET(t, n - 1)))
               f == [m \in 0 .. n |-> IF m = n THEN last ELSE g[m]]
               val(h, m) == IF m = 0 THEN new
                            ELSE IF m - 1 \notin moving THEN h[m - 1]
                            ELSE Place(h[m - 1], Deref(t, SPARSE_BUCKET(t, m - 1)))
    <3>3. g = [m \in 0 .. (n - 1) |-> val(g, m)]
      BY <3>2 DEF MovedTo
    <3>4. ASSUME NEW m \in 0 .. n
          PROVE  f[m] = val(f, m)
      <4>1. CASE m = n
        <5>1. f[m] = last /\ f[m - 1] = g[n - 1]
          <6> HIDE DEF last
          <6> QED
            BY <2>2, <4>1
        <5>2. last = val(f, m)
          BY <2>2, <4>1, <5>1
        <5> QED
          BY <5>1, <5>2
      <4>2. CASE m # n
        <5>1. m \in 0 .. (n - 1) /\ f[m] = g[m]
          <6> HIDE DEF last
          <6> QED
            BY <4>2
        <5>2. m # 0 => f[m - 1] = g[m - 1]
          <6> HIDE DEF last
          <6> QED
            BY <5>1
        <5>3. g[m] = val(g, m)
          <6> HIDE DEF val
          <6> QED
            BY <3>3, <5>1
        <5>4. val(g, m) = val(f, m)
          <6> HIDE DEF f
          <6> QED
            BY <5>2
        <5> QED
          BY <5>1, <5>3, <5>4
      <4> QED
        BY <4>1, <4>2
    <3>5. f = [m \in 0 .. n |-> f[m]]
      <4> HIDE DEF last
      <4> QED
        OBVIOUS
    <3>6. f = [m \in 0 .. n |-> val(f, m)]
      <4> HIDE DEF f, val
      <4> QED
        BY <3>4, <3>5
    <3>7. MovedTo(f, n, t, moving, new)
      <4> HIDE DEF f
      <4> QED
        BY <3>6 DEF MovedTo
    <3> QED
      BY <3>7
  <2> QED
    BY <2>1, <2>2
<1> HIDE DEF S
<1>2. \A n \in Nat : n \in S
  BY <1>1, SetInduction
<1> QED
  BY <1>2 DEF S

\* MoveAll moves the items of the buckets that an iteration returns.
LEMMA MoveAllFacts ==
  ASSUME NEW t, GoodTable(t), NEW watch, NEW new, GoodTable(new),
         LiveBuckets(new) = {}, DeletedBuckets(new) = {},
         NEW S, S = Moving(t, watch), Cardinality(S) <= SizeOf(new),
         NEW u, u = MoveAll(t, watch, new)
  PROVE  SizeOf(u) = SizeOf(new) /\ Holds(u, t, S)
<1> DEFINE N == SizeOf(t)
           f == CHOOSE f : MovedTo(f, N, t, S, new)
           Below(n) == {l \in S : l < n}
           Done == {n \in Nat : n <= N =>
                      SizeOf(f[n]) = SizeOf(new) /\ Holds(f[n], t, Below(n))}
<1>1. t \in Tables /\ new \in Tables /\ N \in Nat /\ Buckets(t) = 0 .. (N - 1)
  BY TableFacts DEF GoodTable
<1>2. S \in SUBSET LiveBuckets(t) /\ S \in SUBSET (0 .. (N - 1))
  BY <1>1, Kinds DEF Moving
<1>3. IsFiniteSet(S) /\ \A n : IsFiniteSet(Below(n)) /\ Cardinality(Below(n)) \in Nat
                               /\ Cardinality(Below(n)) <= Cardinality(S)
  <2>1. IsFiniteSet(S)
    BY <1>1, <1>2, KindsCounted, FS_Subset
  <2> QED
    BY <2>1, FS_Subset, FS_CardinalityType
<1>4. MovedTo(f, N, t, S, new)
  BY <1>1, MovedToExists
<1>5. u = f[N]
  BY DEF MoveAll, MovedTo
<1> HIDE DEF f
<1>6. ASSUME NEW n \in Nat, \A m \in 0 .. (n - 1) : m \in Done
      PROVE  n \in Done
  <2> SUFFICES ASSUME n <= N
               PROVE  SizeOf(f[n]) = SizeOf(new) /\ Holds(f[n], t, Below(n))
    OBVIOUS
  <2>1. CASE n = 0
    <3>1. f[n] = new
      BY <1>1, <1>4, <2>1 DEF MovedTo
    <3>2. Below(n) = {}
      BY <1>1, <1>2, <2>1
    <3> HIDE DEF Below
    <3>3. Holds(f[n], t, Below(n))
      BY <3>1, <3>2 DEF Holds
    <3> QED
      BY <3>1, <3>3
  <2>2. CASE n > 0
    <3> DEFINE b == n - 1
    <3>1. b \in Nat /\ b <= N /\ b \in 0 .. (n - 1)
      <4> HIDE DEF N, Done, Below
      <4> QED
        BY <1>1, <2>2
    <3>2. SizeOf(f[b]) = SizeOf(new) /\ Holds(f[b], t, Below(b))
      <4>1. b \in Done
        <5> HIDE DEF Done
        <5> QED
          BY <1>6, <3>1
      <4> QED
        BY <3>1, <4>1
    <3>3. f[n] = IF b \notin S THEN f[b]
                 ELSE Place(f[b], Deref(t, SPARSE_BUCKET(t, b)))
      BY <1>1, <1>4, <2>2 DEF MovedTo
    <3>4. CASE b \notin S
      <4>1. Below(n) = Below(b)
        <5>1. \A l \in S : l < n <=> l < b
          BY <1>1, <1>2, <3>4
        <5> QED
          BY <5>1
      <4> QED
        BY <3>2, <3>3, <3>4, <4>1
    <3>5. CASE b \in S
      <4>1. Below(n) = Below(b) \cup {b} /\ b \notin Below(b) /\ Below(b) \in SUBSET S
        <5>1. \A l \in S : l < n <=> l < b \/ l = b
          BY <1>1, <1>2, <3>5
        <5> QED
          BY <3>5, <5>1
      <4>2. b \in LiveBuckets(t) /\ b \in Buckets(t) /\ ~SparseIsEmpty(t, b)
        BY <1>1, <1>2, <3>5, Kinds
      <4>5. Cardinality(Below(b)) < SizeOf(f[b])
        <5>1. Below(n) \in SUBSET S
          OBVIOUS
        <5>2. Cardinality(Below(n)) = Cardinality(Below(b)) + 1
          <6>1. IsFiniteSet(Below(b))
            BY <1>3
          <6> HIDE DEF Below
          <6> QED
            BY <4>1, <6>1, FS_AddElement
        <5>3. /\ Cardinality(Below(n)) <= Cardinality(S) /\ Cardinality(Below(b)) \in Nat
              /\ Cardinality(S) \in Nat /\ SizeOf(new) \in Nat
          BY <1>1, <1>3, FS_CardinalityType, TableFacts
        <5> HIDE DEF Below
        <5> QED
          BY <3>2, <5>2, <5>3
      <4> DEFINE v == Placed(f[b], Deref(t, SPARSE_BUCKET(t, b)))
      <4>7. f[n] = v.table
        BY <3>3, <3>5 DEF Place, Placed
      <4> HIDE DEF Below, v
      <4>8. /\ SizeOf(v.table) = SizeOf(f[b])
            /\ Holds(v.table, t, Below(b) \cup {b})
        <5>1. v = Placed(f[b], Deref(t, SPARSE_BUCKET(t, b)))
          BY DEF v
        <5> HIDE DEF b
        <5> QED
          BY <3>2, <4>1, <4>2, <4>5, <5>1, PlaceFacts
      <4> QED
        BY <3>2, <4>1, <4>7, <4>8
    <3> QED
      BY <3>4, <3>5
  <2> QED
    BY <2>1, <2>2
<1>7. N \in Done
  <2> HIDE DEF Done
  <2>1. \A n \in Nat : n \in Done
    BY <1>6, SetInduction
  <2> QED
    BY <1>1, <2>1
<1>8. Below(N) = S
  BY <1>1, <1>2
<1>9. SizeOf(f[N]) = SizeOf(new) /\ Holds(f[N], t, Below(N))
  <2>1. N <= N
    <3> HIDE DEF N
    <3> QED
      BY <1>1
  <2> HIDE DEF N, Below
  <2> QED
    BY <1>7, <2>1
<1> QED
  BY <1>5, <1>8, <1>9

\* Rehash keeps the items, ...
LEMMA RehashFacts ==
  ASSUME NEW t, GoodTable(t), NEW n \in Nat, PowerOfTwo(n),
         Cardinality(LiveBuckets(t)) < n, NEW u, u = Rehash(t, n, Null)
  PROVE  SizeOf(u.table) >= n /\ Holds(u.table, t, LiveBuckets(t))
<1>1. PICK new : /\ new = SparseAllocate(n) /\ GoodTable(new) /\ SizeOf(new) >= n
                 /\ LiveBuckets(new) = {} /\ DeletedBuckets(new) = {}
  BY AllocateFacts
<1>2. Moving(t, Null) = LiveBuckets(t)
  <2>1. t \in Tables
    BY DEF GoodTable
  <2>2. \A l \in LiveBuckets(t) : SPARSE_BUCKET(t, l) # Null
    BY <2>1, Kinds, PointerNotNull
  <2> QED
    BY <2>2 DEF Moving
<1>3. Cardinality(LiveBuckets(t)) <= SizeOf(new)
  <2>1. t \in Tables /\ new \in Tables
    BY <1>1 DEF GoodTable
  <2>2. Cardinality(LiveBuckets(t)) \in Nat /\ SizeOf(new) \in Nat
    BY <2>1, KindsCounted, TableFacts
  <2> QED
    BY <1>1, <2>2
<1>4. PICK v : v = MoveAll(t, Null, new) /\ SizeOf(v) = SizeOf(new)
               /\ Holds(v, t, LiveBuckets(t))
  BY <1>1, <1>2, <1>3, MoveAllFacts
<1>5. u.table = v
  BY <1>1, <1>4 DEF Rehash
<1> QED
  BY <1>1, <1>4, <1>5

\* ... and returns the one that is watched where it is now.
LEMMA RehashWatched ==
  ASSUME NEW t, GoodTable(t), NEW n \in Nat, PowerOfTwo(n),
         Cardinality(LiveBuckets(t)) < n, NEW w \in LiveBuckets(t),
         NEW u, u = Rehash(t, n, SPARSE_BUCKET(t, w))
  PROVE  /\ SizeOf(u.table) >= n /\ Holds(u.table, t, LiveBuckets(t))
         /\ \E l \in LiveBuckets(u.table) :
              u.item = SPARSE_BUCKET(u.table, l) /\ ItemAt(u.table, l) = ItemAt(t, w)
<1> DEFINE watch == SPARSE_BUCKET(t, w)
           S == LiveBuckets(t) \ {w}
<1>1. PICK new : /\ new = SparseAllocate(n) /\ GoodTable(new) /\ SizeOf(new) >= n
                 /\ LiveBuckets(new) = {} /\ DeletedBuckets(new) = {}
  BY AllocateFacts
<1>2. t \in Tables /\ w \in Buckets(t) /\ ~SparseIsEmpty(t, w)
  <2>1. t \in Tables
    BY DEF GoodTable
  <2> QED
    BY <2>1, Kinds
<1>3. Moving(t, watch) = S /\ watch # Null
  <2>1. \A l \in LiveBuckets(t) : SPARSE_BUCKET(t, l) = watch => l = w
    BY <1>2, Kinds, PointersDiffer
  <2>2. watch # Null
    BY <1>2, PointerNotNull
  <2> QED
    BY <2>1, <2>2 DEF Moving
<1>4. Cardinality(S) < Cardinality(LiveBuckets(t)) /\ Cardinality(S) < SizeOf(new)
  <2>1. new \in Tables
    BY <1>1 DEF GoodTable
  <2>2. /\ IsFiniteSet(LiveBuckets(t)) /\ Cardinality(LiveBuckets(t)) \in Nat
        /\ SizeOf(new) \in Nat
    BY <1>2, <2>1, KindsCounted, TableFacts
  <2>3. Cardinality(S) = Cardinality(LiveBuckets(t)) - 1
    BY <2>2, FS_RemoveElement
  <2> QED
    BY <1>1, <2>2, <2>3
<1>5. PICK v : v = MoveAll(t, watch, new) /\ SizeOf(v) = SizeOf(new) /\ Holds(v, t, S)
  <2>1. Cardinality(S) <= SizeOf(new)
    <3>1. new \in Tables /\ IsFiniteSet(S)
      BY <1>1, <1>2, KindsCounted, FS_Subset DEF GoodTable
    <3>2. Cardinality(S) \in Nat /\ SizeOf(new) \in Nat
      BY <3>1, FS_CardinalityType, TableFacts
    <3> HIDE DEF S
    <3> QED
      BY <1>4, <3>2
  <2> HIDE DEF S, watch
  <2> QED
    BY <1>1, <1>3, <2>1, MoveAllFacts
<1>6. u = Placed(v, Deref(t, watch))
  BY <1>1, <1>3, <1>5 DEF Rehash
<1>7. S \cup {w} = LiveBuckets(t) /\ w \in LiveBuckets(t) \ S
  OBVIOUS
<1>8. Cardinality(S) < SizeOf(v)
  BY <1>4, <1>5
<1> HIDE DEF S
<1>9. /\ SizeOf(u.table) = SizeOf(v) /\ Holds(u.table, t, S \cup {w})
      /\ \E l \in LiveBuckets(u.table) :
           u.item = SPARSE_BUCKET(u.table, l) /\ ItemAt(u.table, l) = ItemAt(t, w)
  BY <1>5, <1>6, <1>7, <1>8, PlaceFacts
<1> QED
  BY <1>1, <1>5, <1>7, <1>9

\* A table that holds the items of another one has as many, none marked, and for
\* every key it has what the other one has.
LEMMA HeldAll ==
  ASSUME NEW u, NEW t, Holds(u, t, LiveBuckets(t))
  PROVE  /\ GoodTable(u) /\ u # <<>> /\ DeletedBuckets(u) = {}
         /\ Cardinality(LiveBuckets(u)) = Cardinality(LiveBuckets(t))
         /\ \A k \in Keys : \A d : (\E l \in LiveBuckets(u) : ItemAt(u, l) = Item(k, d)) <=>
                               (\E l \in LiveBuckets(t) : ItemAt(t, l) = Item(k, d))
<1>1. u \in Tables
  BY DEF Holds, GoodTable
<1>2. u # <<>>
  <2>1. SizeOf(u) > 0 /\ SizeOf(u) \in Nat
    BY <1>1, TableFacts
  <2>2. SizeOf(<<>>) = 0
    BY GroupAssumption DEF SizeOf
  <2> QED
    BY <2>1, <2>2
<1> QED
  BY <1>2 DEF Holds

\* The buckets that an iteration returns k from.
BucketsWith(t, k) == {loc \in LiveBuckets(t) : KeyAt(t, loc) = k}

\* A key has an item or none, and a rehashed table has it as often.
LEMMA OneCopy ==
  ASSUME NEW t, GoodTable(t), NEW k \in Keys
  PROVE  /\ \A loc \in LiveBuckets(t) : KeyAt(t, loc) = k => BucketsWith(t, k) = {loc}
         /\ Cardinality(BucketsWith(t, k)) =
              IF \E l \in LiveBuckets(t) : KeyAt(t, l) = k THEN 1 ELSE 0
<1>1. \A loc \in LiveBuckets(t) : KeyAt(t, loc) = k => BucketsWith(t, k) = {loc}
  BY DEF BucketsWith, GoodTable, Distinct
<1>2. ASSUME NEW loc \in LiveBuckets(t), KeyAt(t, loc) = k
      PROVE  Cardinality(BucketsWith(t, k)) = 1
  BY <1>1, <1>2, FS_Singleton
<1>3. ASSUME \A l \in LiveBuckets(t) : KeyAt(t, l) # k
      PROVE  Cardinality(BucketsWith(t, k)) = 0
  <2>1. BucketsWith(t, k) = {}
    BY <1>3 DEF BucketsWith
  <2> QED
    BY <2>1, FS_EmptySet
<1> QED
  BY <1>1, <1>2, <1>3

-----------------------------------------------------------------------------
(* What a table has, and what the calls make of it.                        *)

\* The table t has k with d.
Has(t, k, d) == \E l \in LiveBuckets(t) : ItemAt(t, l) = Item(k, d)

\* What a bucket that an iteration returns has.
LEMMA LiveFacts ==
  ASSUME NEW t \in Tables, NEW l \in LiveBuckets(t)
  PROVE  /\ l \in Buckets(t) /\ ~SparseIsEmpty(t, l) /\ l \notin EmptyBuckets(t)
         /\ Deref(t, SPARSE_BUCKET(t, l)) = ItemAt(t, l)
         /\ ItemAt(t, l) = Item(KeyAt(t, l), DataAt(t, l))
         /\ KeyAt(t, l) \in Keys /\ DataAt(t, l) \in Data
         /\ SPARSE_BUCKET(t, l) # Null /\ SPARSE_BUCKET(t, l) # Unset
<1>1. l \in Buckets(t) /\ ~SparseIsEmpty(t, l) /\ DataAt(t, l) # DELETED
      /\ l \notin EmptyBuckets(t)
  BY Kinds
<1>2. SPARSE_BUCKET(t, l) # Null /\ SPARSE_BUCKET(t, l).bin > 0
  BY <1>1, PointerNotNull
<1>3. SPARSE_BUCKET(t, l) # Unset
  BY <1>2 DEF Unset
<1> QED
  BY <1>1, <1>2, <1>3, ItemFacts

\* An item is its key and its data.
LEMMA SameItem ==
  ASSUME NEW k, NEW d, NEW j, NEW e
  PROVE  Item(k, d) = Item(j, e) <=> k = j /\ d = e
<1>1. Item(k, d).key = k /\ Item(k, d).data = d
  BY DEF Item
<1>2. Item(j, e).key = j /\ Item(j, e).data = e
  BY DEF Item
<1> QED
  BY <1>1, <1>2

\* A table has a key where its item is, and at most once.
LEMMA HasFacts ==
  ASSUME NEW t, GoodTable(t), NEW k \in Keys
  PROVE  /\ \A l \in LiveBuckets(t) : KeyAt(t, l) = k =>
              \A d : Has(t, k, d) <=> d = DataAt(t, l)
         /\ (\A l \in LiveBuckets(t) : KeyAt(t, l) # k) => \A d : ~Has(t, k, d)
         /\ \A d : Has(t, k, d) => d \in Data
         /\ Cardinality(BucketsWith(t, k)) = IF \E d \in Data : Has(t, k, d) THEN 1 ELSE 0
<1>1. t \in Tables /\ Distinct(t)
  BY DEF GoodTable
<1>2. \A l \in LiveBuckets(t) : /\ ItemAt(t, l) = Item(KeyAt(t, l), DataAt(t, l))
                                /\ DataAt(t, l) \in Data
  BY <1>1, LiveFacts
<1>3. \A d : Has(t, k, d) <=>
               \E l \in LiveBuckets(t) : KeyAt(t, l) = k /\ DataAt(t, l) = d
  BY <1>2, SameItem DEF Has
<1>4. ASSUME NEW l \in LiveBuckets(t), KeyAt(t, l) = k
      PROVE  \A d : Has(t, k, d) <=> d = DataAt(t, l)
  BY <1>1, <1>3, <1>4 DEF Distinct
<1>5. (\E l \in LiveBuckets(t) : KeyAt(t, l) = k) <=> \E d \in Data : Has(t, k, d)
  BY <1>2, <1>3
<1> QED
  BY <1>2, <1>3, <1>4, <1>5, OneCopy

\* Find tells whether the table has the key, and where.
LEMMA FindHas ==
  ASSUME NEW t, GoodTable(t), EmptyBuckets(t) # {}, NEW k \in Keys
  PROVE  /\ Find(t, k) = Null => /\ \A l \in LiveBuckets(t) : KeyAt(t, l) # k
                                 /\ \A d : ~Has(t, k, d)
         /\ Find(t, k) # Null =>
              \E l \in LiveBuckets(t) : /\ Find(t, k) = SPARSE_BUCKET(t, l)
                                        /\ KeyAt(t, l) = k
<1>1. t \in Tables
  BY DEF GoodTable
<1>2. \A l \in LiveBuckets(t) : SPARSE_BUCKET(t, l) # Null
  BY <1>1, LiveFacts
<1>3. /\ \A l \in LiveBuckets(t) : KeyAt(t, l) = k => Find(t, k) = SPARSE_BUCKET(t, l)
      /\ (\A l \in LiveBuckets(t) : KeyAt(t, l) # k) => Find(t, k) = Null
  BY FindFacts
<1>4. (\A l \in LiveBuckets(t) : KeyAt(t, l) # k) => \A d : ~Has(t, k, d)
  BY HasFacts
<1> QED
  BY <1>2, <1>3, <1>4

\* The buckets of a table that another one is made from by one bucket.
LEMMA PutSets ==
  ASSUME NEW t \in Tables, NEW u, NEW loc \in Buckets(t), NEW item \in TableItems,
         Put(t, u, loc, item)
  PROVE  /\ u \in Tables /\ SizeOf(u) = SizeOf(t)
         /\ item.data # DELETED =>
              /\ LiveBuckets(u) = LiveBuckets(t) \cup {loc}
              /\ DeletedBuckets(u) = DeletedBuckets(t) \ {loc}
         /\ item.data = DELETED =>
              /\ LiveBuckets(u) = LiveBuckets(t) \ {loc}
              /\ DeletedBuckets(u) = DeletedBuckets(t) \cup {loc}
         /\ ItemAt(u, loc) = item
         /\ \A l \in LiveBuckets(t) : l # loc => ItemAt(u, l) = ItemAt(t, l)
<1>1. \A l \in LiveBuckets(t) : l \in Buckets(t) /\ ~SparseIsEmpty(t, l)
  BY LiveFacts
<1>2. \A l \in LiveBuckets(t) : l # loc => ItemAt(u, l) = ItemAt(t, l)
  BY <1>1 DEF Put
<1> QED
  BY <1>2, PutFacts

\* An item in a bucket makes it live.
LEMMA PutLive ==
  ASSUME NEW t \in Tables, NEW u, NEW loc \in Buckets(t), NEW item \in TableItems,
         Put(t, u, loc, item), item.data # DELETED
  PROVE  LiveBuckets(u) = LiveBuckets(t) \cup {loc}
<1>1. Buckets(u) = Buckets(t) /\ DataAt(u, loc) = item.data
  BY PutFacts
<1>2. ASSUME NEW l \in Buckets(t), l # loc, ~SparseIsEmpty(t, l)
      PROVE  DataAt(u, l) = DataAt(t, l)
  BY <1>2, PutOthers
<1>3. \A l \in Buckets(t) : SparseIsEmpty(u, l) <=> SparseIsEmpty(t, l) /\ l # loc
  BY DEF Put
<1> QED
  BY <1>1, <1>2, <1>3 DEF LiveBuckets

\* A new key.
LEMMA AddFacts ==
  ASSUME NEW t, GoodTable(t), EmptyBuckets(t) # {}, NEW k \in Keys, NEW d \in Data,
         \A l \in LiveBuckets(t) : KeyAt(t, l) # k,
         NEW loc, loc = Open(t, k), NEW overwrite \in BOOLEAN,
         SparseIsEmpty(t, loc) \/ overwrite,
         NEW u, u = SparseInsert(t, loc, Item(k, d), overwrite)
  PROVE  /\ GoodTable(u) /\ SizeOf(u) = SizeOf(t)
         /\ loc \in LiveBuckets(u) /\ ItemAt(u, loc) = Item(k, d)
         /\ Cardinality(LiveBuckets(u)) = Cardinality(LiveBuckets(t)) + 1
         /\ Cardinality(DeletedBuckets(u)) =
              Cardinality(DeletedBuckets(t)) - (IF ~SparseIsEmpty(t, loc) THEN 1 ELSE 0)
         /\ \A j \in Keys : \A e : Has(u, j, e) <=> IF j = k THEN e = d ELSE Has(t, j, e)
<1> DEFINE item == Item(k, d)
<1>1. t \in Tables
  BY DEF GoodTable
<1>2. item \in TableItems /\ item.key = k /\ item.data = d /\ d # DELETED
  BY TableAssumption DEF TableItems, Item
<1> HIDE DEF item
<1>3. /\ loc \in EmptyBuckets(t) \cup DeletedBuckets(t) /\ loc \in Buckets(t)
      /\ OnWay(t, k, loc)
  BY <1>1, OpenFacts
<1>4. loc \notin LiveBuckets(t) /\ (loc \in DeletedBuckets(t) <=> ~SparseIsEmpty(t, loc))
  BY <1>1, <1>3, Kinds
<1>5. Put(t, u, loc, item)
  <2>1. u = SparseInsert(t, loc, item, overwrite)
    BY DEF item
  <2> QED
    BY <1>1, <1>2, <1>3, <2>1, InsertPuts
<1>6. GoodTable(u)
  BY <1>2, <1>3, <1>4, <1>5, PutNew
<1>7. /\ u \in Tables /\ SizeOf(u) = SizeOf(t)
      /\ LiveBuckets(u) = LiveBuckets(t) \cup {loc}
      /\ DeletedBuckets(u) = DeletedBuckets(t) \ {loc}
      /\ ItemAt(u, loc) = item
      /\ \A l \in LiveBuckets(t) : l # loc => ItemAt(u, l) = ItemAt(t, l)
  BY <1>1, <1>2, <1>3, <1>5, PutSets
<1>8. /\ IsFiniteSet(LiveBuckets(t)) /\ IsFiniteSet(DeletedBuckets(t))
      /\ Cardinality(LiveBuckets(t)) \in Nat /\ Cardinality(DeletedBuckets(t)) \in Nat
  BY <1>1, KindsCounted
<1>9. Cardinality(LiveBuckets(u)) = Cardinality(LiveBuckets(t)) + 1
  BY <1>4, <1>7, <1>8, FS_AddElement
<1>10. Cardinality(DeletedBuckets(u)) =
         Cardinality(DeletedBuckets(t)) - (IF ~SparseIsEmpty(t, loc) THEN 1 ELSE 0)
  <2>1. CASE loc \in DeletedBuckets(t)
    <3>1. Cardinality(DeletedBuckets(t) \ {loc}) = Cardinality(DeletedBuckets(t)) - 1
      BY <1>8, <2>1, FS_RemoveElement
    <3> QED
      BY <1>4, <1>7, <2>1, <3>1
  <2>2. CASE loc \notin DeletedBuckets(t)
    <3>1. DeletedBuckets(t) \ {loc} = DeletedBuckets(t)
      BY <2>2
    <3> QED
      BY <1>4, <1>7, <1>8, <2>2, <3>1
  <2> QED
    BY <2>1, <2>2
<1>11. ASSUME NEW j \in Keys, NEW e
       PROVE  Has(u, j, e) <=> IF j = k THEN e = d ELSE Has(t, j, e)
  <2>1. Has(u, j, e) <=> \/ Item(k, d) = Item(j, e)
                         \/ \E l \in LiveBuckets(t) : ItemAt(t, l) = Item(j, e)
    BY <1>4, <1>7 DEF Has, item
  <2>2. j = k => ~Has(t, j, e)
    BY HasFacts
  <2> QED
    BY <2>1, <2>2, SameItem DEF Has
<1> QED
  BY <1>6, <1>7, <1>9, <1>10, <1>11 DEF item

\* Replacing an item leaves all items where they are.
LEMMA OverwriteKeepsPlaces ==
  ASSUME NEW t \in Tables, NEW loc \in Buckets(t), ~SparseIsEmpty(t, loc),
         NEW item \in TableItems,
         NEW u, u = Overwrite(t, SPARSE_BUCKET(t, loc), item)
  PROVE  \A l \in Buckets(t) : SPARSE_BUCKET(u, l) = SPARSE_BUCKET(t, l)
<1>1. t \in SparseArrays(TableItems) /\ loc \in 0 .. (SizeOf(t) - 1)
      /\ Buckets(t) = 0 .. (SizeOf(t) - 1)
  BY TableFacts
<1>2. SPARSE_BUCKET(t, loc).bin = Bin(loc)
  BY DEF SPARSE_BUCKET
<1>3. t \in Seq(Group(TableItems))
  BY <1>1 DEF SparseArrays
<1>4. ASSUME NEW g \in DOMAIN t
      PROVE  u[g].bmOccupied = t[g].bmOccupied
  <2>1. t[g] \in Group(TableItems) /\ t[Bin(loc)] \in Group(TableItems)
    BY <1>1, GroupFacts, BucketFacts
  <2> QED
    BY <1>2, <1>3, <2>1 DEF Overwrite, Group
<1>5. ASSUME NEW l \in Buckets(t)
      PROVE  SPARSE_BUCKET(u, l) = SPARSE_BUCKET(t, l)
  <2>1. Bin(l) \in DOMAIN t
    BY <1>1, BucketFacts
  <2> QED
    BY <1>4, <2>1 DEF SPARSE_BUCKET
<1> QED
  BY <1>5

\* New data for a key that is there.
LEMMA ReplaceFacts ==
  ASSUME NEW t, GoodTable(t), NEW loc \in LiveBuckets(t), NEW d \in Data,
         NEW u, u = Overwrite(t, SPARSE_BUCKET(t, loc), Item(KeyAt(t, loc), d))
  PROVE  /\ GoodTable(u) /\ SizeOf(u) = SizeOf(t)
         /\ LiveBuckets(u) = LiveBuckets(t) /\ DeletedBuckets(u) = DeletedBuckets(t)
         /\ ItemAt(u, loc) = Item(KeyAt(t, loc), d)
         /\ \A j \in Keys : \A e :
              Has(u, j, e) <=> IF j = KeyAt(t, loc) THEN e = d ELSE Has(t, j, e)
         /\ SPARSE_BUCKET(u, loc) = SPARSE_BUCKET(t, loc)
<1>1. t \in Tables /\ Distinct(t)
  BY DEF GoodTable
<1>2. PICK k \in Keys : k = KeyAt(t, loc)
  BY <1>1, LiveFacts
<1>3. PICK item \in TableItems :
        /\ item = Item(k, d) /\ item.key = k /\ item.data = d
        /\ d # DELETED /\ item.data # DELETED
  <2>1. d # DELETED
    BY TableAssumption
  <2>2. Item(k, d) \in TableItems /\ Item(k, d).key = k /\ Item(k, d).data = d
    BY DEF TableItems, Item
  <2> QED
    BY <2>1, <2>2
<1>4. loc \in Buckets(t) /\ ~SparseIsEmpty(t, loc)
  BY <1>1, LiveFacts
<1>5. Put(t, u, loc, item)
  BY <1>1, <1>2, <1>3, <1>4, OverwritePuts
<1>6. GoodTable(u)
  BY <1>2, <1>3, <1>5, PutAgain
<1>7. /\ SizeOf(u) = SizeOf(t)
      /\ LiveBuckets(u) = LiveBuckets(t) \cup {loc}
      /\ DeletedBuckets(u) = DeletedBuckets(t) \ {loc}
      /\ ItemAt(u, loc) = item
      /\ \A l \in LiveBuckets(t) : l # loc => ItemAt(u, l) = ItemAt(t, l)
  <2>0. t \in Tables
    BY <1>1
  <2>3. SizeOf(u) = SizeOf(t)
    BY <2>0, <1>4, <1>5, PutSets
  <2>4. LiveBuckets(u) = LiveBuckets(t) \cup {loc}
    BY <2>0, <1>3, <1>4, <1>5, PutLive
  <2>1. item.data # DELETED => DeletedBuckets(u) = DeletedBuckets(t) \ {loc}
    BY <2>0, <1>4, <1>5, PutSets
  <2>2. /\ ItemAt(u, loc) = item
        /\ \A l \in LiveBuckets(t) : l # loc => ItemAt(u, l) = ItemAt(t, l)
    BY <1>1, <1>4, <1>5, PutSets
  <2> QED
    BY <1>3, <2>1, <2>2, <2>3, <2>4
<1>8. LiveBuckets(u) = LiveBuckets(t) /\ DeletedBuckets(u) = DeletedBuckets(t)
  <2>1. loc \notin DeletedBuckets(t)
    BY DEF LiveBuckets, DeletedBuckets
  <2> QED
    BY <1>7, <2>1
<1>9. ASSUME NEW j \in Keys, NEW e
      PROVE  Has(u, j, e) <=> IF j = k THEN e = d ELSE Has(t, j, e)
  <2>1. \A l \in LiveBuckets(t) : ItemAt(t, l) = Item(KeyAt(t, l), DataAt(t, l))
    BY <1>1, LiveFacts
  <2>2. \A l \in LiveBuckets(t) : KeyAt(t, l) = k <=> l = loc
    BY <1>1, <1>2 DEF Distinct
  <2>3. CASE j = k
    <3>1. \A l \in LiveBuckets(t) : l # loc => ItemAt(u, l) # Item(j, e)
      BY <1>7, <2>1, <2>2, <2>3, SameItem
    <3> QED
      BY <1>3, <1>7, <1>8, <2>3, <3>1, SameItem DEF Has
  <2>4. CASE j # k
    <3>1. ItemAt(t, loc) # Item(j, e) /\ ItemAt(u, loc) # Item(j, e)
      BY <1>3, <1>7, <2>1, <2>2, <2>4, SameItem
    <3> QED
      BY <1>7, <1>8, <2>4, <3>1 DEF Has
  <2> QED
    BY <2>3, <2>4
<1>10. SPARSE_BUCKET(u, loc) = SPARSE_BUCKET(t, loc)
  BY <1>1, <1>2, <1>3, <1>4, OverwriteKeepsPlaces
<1> QED
  BY <1>2, <1>3, <1>6, <1>7, <1>8, <1>9, <1>10

\* A key that is marked.
LEMMA MarkFacts ==
  ASSUME NEW t, GoodTable(t), NEW loc \in LiveBuckets(t),
         NEW u, u = Overwrite(t, SPARSE_BUCKET(t, loc), Item(KeyAt(t, loc), DELETED))
  PROVE  /\ GoodTable(u) /\ SizeOf(u) = SizeOf(t)
         /\ Cardinality(LiveBuckets(u)) = Cardinality(LiveBuckets(t)) - 1
         /\ Cardinality(DeletedBuckets(u)) = Cardinality(DeletedBuckets(t)) + 1
         /\ \A j \in Keys : \A e :
              Has(u, j, e) <=> j # KeyAt(t, loc) /\ Has(t, j, e)
<1>1. t \in Tables /\ Distinct(t)
  BY DEF GoodTable
<1>2. PICK k \in Keys : k = KeyAt(t, loc)
  BY <1>1, LiveFacts
<1>3. PICK item \in TableItems :
        item = Item(k, DELETED) /\ item.key = k /\ item.data = DELETED
  <2>1. /\ Item(k, DELETED) \in TableItems /\ Item(k, DELETED).key = k
        /\ Item(k, DELETED).data = DELETED
    BY DEF TableItems, Item
  <2> QED
    BY <2>1
<1>4. loc \in Buckets(t) /\ ~SparseIsEmpty(t, loc) /\ loc \notin DeletedBuckets(t)
  <2>1. loc \notin DeletedBuckets(t)
    BY DEF LiveBuckets, DeletedBuckets
  <2> QED
    BY <1>1, <2>1, LiveFacts
<1>5. Put(t, u, loc, item)
  BY <1>1, <1>2, <1>3, <1>4, OverwritePuts
<1>6. GoodTable(u)
  BY <1>2, <1>3, <1>5, PutAgain
<1>7. /\ SizeOf(u) = SizeOf(t)
      /\ LiveBuckets(u) = LiveBuckets(t) \ {loc}
      /\ DeletedBuckets(u) = DeletedBuckets(t) \cup {loc}
      /\ \A l \in LiveBuckets(t) : l # loc => ItemAt(u, l) = ItemAt(t, l)
  BY <1>1, <1>3, <1>4, <1>5, PutSets
<1>8. /\ Cardinality(LiveBuckets(u)) = Cardinality(LiveBuckets(t)) - 1
      /\ Cardinality(DeletedBuckets(u)) = Cardinality(DeletedBuckets(t)) + 1
  <2>1. IsFiniteSet(LiveBuckets(t)) /\ IsFiniteSet(DeletedBuckets(t))
    BY <1>1, KindsCounted
  <2>2. Cardinality(LiveBuckets(t) \ {loc}) = Cardinality(LiveBuckets(t)) - 1
    BY <2>1, FS_RemoveElement
  <2>3. Cardinality(DeletedBuckets(t) \cup {loc}) = Cardinality(DeletedBuckets(t)) + 1
    BY <1>4, <2>1, FS_AddElement
  <2> QED
    BY <1>7, <2>2, <2>3
<1>9. ASSUME NEW j \in Keys, NEW e
      PROVE  Has(u, j, e) <=> j # k /\ Has(t, j, e)
  <2>1. \A l \in LiveBuckets(t) : ItemAt(t, l) = Item(KeyAt(t, l), DataAt(t, l))
    BY <1>1, LiveFacts
  <2>2. \A l \in LiveBuckets(t) : KeyAt(t, l) = k <=> l = loc
    BY <1>1, <1>2 DEF Distinct
  <2>3. CASE j = k
    <3>1. \A l \in LiveBuckets(t) : l # loc => ItemAt(u, l) # Item(j, e)
      BY <1>7, <2>1, <2>2, <2>3, SameItem
    <3> QED
      BY <1>7, <2>3, <3>1 DEF Has
  <2>4. CASE j # k
    <3>1. ItemAt(t, loc) # Item(j, e)
      BY <2>1, <2>2, <2>4, SameItem
    <3> QED
      BY <1>7, <2>4, <3>1 DEF Has
  <2> QED
    BY <2>3, <2>4
<1> QED
  BY <1>2, <1>6, <1>7, <1>8, <1>9

-----------------------------------------------------------------------------
(* The table and its counters.                                             *)

\* A table with these counts, less than half of its buckets in use.
Sound(t, items, deleted) ==
  /\ GoodTable(t) /\ t # <<>>
  /\ items = Cardinality(LiveBuckets(t))
  /\ deleted = Cardinality(DeletedBuckets(t))
  /\ 2 * (items + deleted) < SizeOf(t)

\* So there is an empty bucket.
LEMMA SoundFacts ==
  ASSUME NEW t, NEW items, NEW deleted, Sound(t, items, deleted)
  PROVE  /\ t \in Tables /\ GoodTable(t) /\ EmptyBuckets(t) # {}
         /\ items \in Nat /\ deleted \in Nat /\ SizeOf(t) \in Nat
         /\ items = Cardinality(LiveBuckets(t))
         /\ deleted = Cardinality(DeletedBuckets(t))
         /\ 2 * (items + deleted) < SizeOf(t)
<1>1. t \in Tables /\ 2 * (items + deleted) < SizeOf(t)
  BY DEF Sound, GoodTable
<1>2. items \in Nat /\ deleted \in Nat /\ SizeOf(t) \in Nat
  BY <1>1, KindsCounted, TableFacts DEF Sound
<1>3. Cardinality(LiveBuckets(t)) + Cardinality(DeletedBuckets(t)) < SizeOf(t)
  BY <1>1, <1>2 DEF Sound
<1>4. EmptyBuckets(t) # {}
  BY <1>1, <1>3, KindsCounted
<1> QED
  BY <1>1, <1>2, <1>4 DEF Sound

\* A new table, in AllocateHashTable and in ClearHashTable.
LEMMA NewTable ==
  ASSUME NEW t, t = SparseAllocate(MinSize)
  PROVE  Sound(t, 0, 0) /\ LiveBuckets(t) = {}
<1>1. /\ GoodTable(t) /\ t # <<>>
      /\ LiveBuckets(t) = {} /\ DeletedBuckets(t) = {}
  BY TableAssumption, AllocateFacts
<1>2. SizeOf(t) > 0
  BY <1>1, TableFacts DEF GoodTable
<1> QED
  BY <1>1, <1>2, FS_EmptySet DEF Sound

\* No table has no buckets.
LEMMA NoTable ==
  LiveBuckets(<<>>) = {} /\ DeletedBuckets(<<>>) = {} /\ Buckets(<<>>) = {}
<1>1. Buckets(<<>>) = {}
  BY GroupAssumption DEF Buckets, SizeOf
<1> QED
  BY <1>1 DEF LiveBuckets, DeletedBuckets

\* What Rehash is asked for has room for the items twice.
LEMMA BucketsForFacts ==
  ASSUME NEW items \in Nat, NEW goal \in Int, NEW n, n = BucketsFor(items, goal),
         items > 0 \/ n # 0
  PROVE  n \in Nat /\ PowerOfTwo(n) /\ 2 * items < n
<1> DEFINE x == 2 * (items + (IF goal > 0 THEN goal ELSE 0))
<1>1. x \in Nat /\ 2 * items <= x
  OBVIOUS
<1>2. n = NextPow2(x)
  BY DEF BucketsFor
<1>3. x > 0
  <2>1. x = 0 => n = 0
    BY <1>2 DEF NextPow2
  <2>2. items > 0 => x > 0
    OBVIOUS
  <2> HIDE DEF x
  <2> QED
    BY <1>1, <2>1, <2>2
<1> HIDE DEF x
<1>4. n \in Nat /\ PowerOfTwo(n) /\ n > x
  BY <1>1, <1>2, <1>3, NextPowerFacts
<1> QED
  BY <1>1, <1>4

\* A rehashed table has what it had, and no marks.
LEMMA RehashedSound ==
  ASSUME NEW u, NEW t, Holds(u, t, LiveBuckets(t)), NEW n \in Nat, SizeOf(u) >= n,
         2 * Cardinality(LiveBuckets(t)) < n
  PROVE  /\ Sound(u, Cardinality(LiveBuckets(t)), 0)
         /\ \A j \in Keys : \A e : Has(u, j, e) <=> Has(t, j, e)
<1>1. /\ GoodTable(u) /\ u # <<>> /\ DeletedBuckets(u) = {}
      /\ Cardinality(LiveBuckets(u)) = Cardinality(LiveBuckets(t))
      /\ \A j \in Keys : \A e : Has(u, j, e) <=> Has(t, j, e)
  BY HeldAll DEF Has
<1>2. u \in Tables /\ t \in Tables
  BY DEF Holds, GoodTable
<1>3. Cardinality(LiveBuckets(t)) \in Nat /\ SizeOf(u) \in Nat
  BY <1>2, KindsCounted, TableFacts
<1>4. Cardinality(DeletedBuckets(u)) = 0
  BY <1>1, FS_EmptySet
<1> QED
  BY <1>1, <1>3, <1>4 DEF Sound

-----------------------------------------------------------------------------
(* The calls that change the table.                                        *)

\* The returned item is one of the table's.
Returned(t, item) == \E l \in LiveBuckets(t) : item = SPARSE_BUCKET(t, l)

\* A new key.
LEMMA InsertNewFacts ==
  ASSUME Careless = {}, Sound(table, cItems, cDeletedItems), cDeltaGoalSize \in Int,
         NEW k \in Keys, NEW d \in Data, NEW overwrite \in BOOLEAN,
         Find(table, k) = Null, InsertNew(k, d, overwrite)
  PROVE  /\ Sound(table', cItems', cDeletedItems') /\ cDeltaGoalSize' \in Int
         /\ \E l \in LiveBuckets(table') :
              ret' = SPARSE_BUCKET(table', l) /\ ItemAt(table', l) = Item(k, d)
         /\ \A e : ~Has(table, k, e)
         /\ \A j \in Keys : \A e :
              Has(table', j, e) <=> IF j = k THEN e = d ELSE Has(table, j, e)
<1>1. PICK loc, t, deleted, goal :
        /\ loc = Open(table, k)
        /\ t = SparseInsert(table, loc, Item(k, d), overwrite)
        /\ deleted = cDeletedItems - (IF ~SparseIsEmpty(table, loc) THEN 1 ELSE 0)
        /\ goal = cDeltaGoalSize - (IF cDeltaGoalSize > 0 THEN 1 ELSE 0)
  OBVIOUS
<1> DEFINE items == cItems + 1
           new == Rehash(t, BucketsFor(items, goal), SPARSE_BUCKET(t, loc))
<1>2. /\ Find(table, k) = Null
      /\ ~SparseIsEmpty(table, loc) /\ ~overwrite => "reuse" \in Careless
      /\ cItems' = items /\ cDeltaGoalSize' = goal
      /\ IF TooFull(items, deleted, goal)
         THEN table' = new.table /\ ret' = new.item /\ cDeletedItems' = 0
         ELSE table' = t /\ ret' = SPARSE_BUCKET(t, loc) /\ cDeletedItems' = deleted
  BY <1>1 DEF InsertNew
<1>3. /\ table \in Tables /\ GoodTable(table) /\ EmptyBuckets(table) # {}
      /\ cItems \in Nat /\ cDeletedItems \in Nat
      /\ cItems = Cardinality(LiveBuckets(table))
      /\ cDeletedItems = Cardinality(DeletedBuckets(table))
  BY SoundFacts
<1>4. /\ \A l \in LiveBuckets(table) : KeyAt(table, l) # k
      /\ \A e : ~Has(table, k, e)
  BY <1>2, <1>3, FindHas
<1>5. SparseIsEmpty(table, loc) \/ overwrite
  BY <1>2
<1>6. /\ GoodTable(t) /\ SizeOf(t) = SizeOf(table)
      /\ loc \in LiveBuckets(t) /\ ItemAt(t, loc) = Item(k, d)
      /\ Cardinality(LiveBuckets(t)) = Cardinality(LiveBuckets(table)) + 1
      /\ Cardinality(DeletedBuckets(t)) = Cardinality(DeletedBuckets(table)) -
           (IF ~SparseIsEmpty(table, loc) THEN 1 ELSE 0)
      /\ \A j \in Keys : \A e : Has(t, j, e) <=> IF j = k THEN e = d ELSE Has(table, j, e)
  BY <1>1, <1>3, <1>4, <1>5, AddFacts
<1>7. /\ items = Cardinality(LiveBuckets(t)) /\ deleted = Cardinality(DeletedBuckets(t))
      /\ items \in Nat /\ deleted \in Nat /\ items > 0 /\ goal \in Int
  <2>1. t \in Tables
    BY <1>6 DEF GoodTable
  <2>2. Cardinality(DeletedBuckets(t)) \in Nat
    BY <2>1, KindsCounted
  <2> QED
    BY <1>1, <1>3, <1>6, <2>2
<1> HIDE DEF items
<1>8. CASE ~TooFull(items, deleted, goal)
  <2>1. 2 * (items + deleted) < SizeOf(t)
    <3>1. SizeOf(table) \in Nat
      BY SoundFacts
    <3> QED
      BY <1>6, <1>7, <1>8, <3>1 DEF TooFull, cBuckets
  <2>2. t # <<>>
    BY <1>6, NoTable
  <2>3. Sound(t, items, deleted)
    BY <1>6, <1>7, <2>1, <2>2 DEF Sound
  <2> QED
    BY <1>2, <1>4, <1>6, <1>7, <1>8, <2>3
<1>9. CASE TooFull(items, deleted, goal)
  <2>1. PICK n \in Nat : /\ n = BucketsFor(items, goal) /\ PowerOfTwo(n)
                         /\ 2 * items < n
    BY <1>7, BucketsForFacts
  <2>2. Cardinality(LiveBuckets(t)) < n
    BY <1>7, <2>1
  <2>3. PICK u : u = Rehash(t, n, SPARSE_BUCKET(t, loc))
    OBVIOUS
  <2>4. /\ SizeOf(u.table) >= n /\ Holds(u.table, t, LiveBuckets(t))
        /\ \E l \in LiveBuckets(u.table) :
             u.item = SPARSE_BUCKET(u.table, l) /\ ItemAt(u.table, l) = ItemAt(t, loc)
    BY <1>6, <2>1, <2>2, <2>3, RehashWatched
  <2>5. /\ Sound(u.table, items, 0)
        /\ \A j \in Keys : \A e : Has(u.table, j, e) <=> Has(t, j, e)
    BY <1>7, <2>1, <2>4, RehashedSound
  <2>6. table' = u.table /\ ret' = u.item /\ cDeletedItems' = 0 /\ cItems' = items
    BY <1>2, <1>9, <2>1, <2>3
  <2> HIDE DEF new
  <2> QED
    BY <1>2, <1>4, <1>6, <1>7, <2>4, <2>5, <2>6
<1> QED
  BY <1>8, <1>9

\* A key that is there.
LEMMA InsertFoundFacts ==
  ASSUME Sound(table, cItems, cDeletedItems), cDeltaGoalSize \in Int,
         NEW k \in Keys, NEW d \in Data, NEW overwrite \in BOOLEAN,
         NEW item, item = Find(table, k), item # Null, InsertFound(item, d, overwrite)
  PROVE  /\ Sound(table', cItems', cDeletedItems') /\ cDeltaGoalSize' \in Int
         /\ \E l \in LiveBuckets(table') :
              /\ ret' = SPARSE_BUCKET(table', l)
              /\ \E e : /\ ItemAt(table', l) = Item(k, e)
                        /\ IF overwrite THEN e = d ELSE Has(table, k, e)
         /\ \E e \in Data : Has(table, k, e)
         /\ \A j \in Keys : \A e :
              Has(table', j, e) <=> IF j = k /\ overwrite THEN e = d ELSE Has(table, j, e)
<1>1. /\ ret' = item
      /\ table' = IF overwrite
                  THEN Overwrite(table, item, [Deref(table, item) EXCEPT !.data = d])
                  ELSE table
      /\ cItems' = cItems /\ cDeletedItems' = cDeletedItems
      /\ cDeltaGoalSize' = cDeltaGoalSize
  BY DEF InsertFound, counts
<1>2. /\ table \in Tables /\ GoodTable(table) /\ EmptyBuckets(table) # {}
  BY SoundFacts
<1>3. PICK l \in LiveBuckets(table) : item = SPARSE_BUCKET(table, l) /\ KeyAt(table, l) = k
  BY <1>1, <1>2, FindHas
<1>4. /\ Deref(table, item) = Item(k, DataAt(table, l)) /\ DataAt(table, l) \in Data
      /\ ItemAt(table, l) = Item(k, DataAt(table, l))
  BY <1>2, <1>3, LiveFacts
<1>5. \A e : Has(table, k, e) <=> e = DataAt(table, l)
  BY <1>2, <1>3, HasFacts
<1>6. CASE ~overwrite
  <2>1. table' = table
    BY <1>1, <1>6
  <2> QED
    BY <1>1, <1>3, <1>4, <1>5, <1>6, <2>1
<1>7. CASE overwrite
  <2>1. [Deref(table, item) EXCEPT !.data = d] = Item(k, d)
    BY <1>4 DEF Item
  <2>2. table' = Overwrite(table, SPARSE_BUCKET(table, l), Item(KeyAt(table, l), d))
    BY <1>1, <1>3, <1>7, <2>1
  <2>0. PICK u : u = Overwrite(table, SPARSE_BUCKET(table, l), Item(KeyAt(table, l), d))
    OBVIOUS
  <2>9. table' = u
    BY <2>2, <2>0
  <2>3. /\ GoodTable(u) /\ SizeOf(u) = SizeOf(table)
        /\ LiveBuckets(u) = LiveBuckets(table) /\ DeletedBuckets(u) = DeletedBuckets(table)
        /\ ItemAt(u, l) = Item(KeyAt(table, l), d)
        /\ \A j \in Keys : \A e :
             Has(u, j, e) <=> IF j = KeyAt(table, l) THEN e = d ELSE Has(table, j, e)
        /\ SPARSE_BUCKET(u, l) = SPARSE_BUCKET(table, l)
    <3>1. /\ GoodTable(u) /\ SizeOf(u) = SizeOf(table)
          /\ SPARSE_BUCKET(u, l) = SPARSE_BUCKET(table, l)
          /\ ItemAt(u, l) = Item(KeyAt(table, l), d)
      BY <1>2, <2>0, ReplaceFacts
    <3>2. LiveBuckets(u) = LiveBuckets(table)
      BY <1>2, <2>0, ReplaceFacts
    <3>3. DeletedBuckets(u) = DeletedBuckets(table)
      BY <1>2, <2>0, ReplaceFacts
    <3>4. \A j \in Keys : \A e :
            Has(u, j, e) <=> IF j = KeyAt(table, l) THEN e = d ELSE Has(table, j, e)
      BY <1>2, <2>0, ReplaceFacts
    <3> QED
      BY <3>1, <3>2, <3>3, <3>4
  <2>4. Sound(table', cItems', cDeletedItems')
    <3>1. u # <<>>
      BY <2>3, NoTable
    <3> QED
      BY <1>1, <2>9, <2>3, <3>1 DEF Sound
  <2>5. l \in LiveBuckets(table') /\ ret' = SPARSE_BUCKET(table', l)
        /\ ItemAt(table', l) = Item(k, d)
    BY <1>1, <1>3, <2>9, <2>3
  <2>6. \A j \in Keys : \A e : Has(table', j, e) <=> IF j = k THEN e = d ELSE Has(table, j, e)
    BY <1>3, <2>9, <2>3
  <2> QED
    BY <1>1, <1>4, <1>5, <1>7, <2>4, <2>5, <2>6
<1> QED
  BY <1>6, <1>7

\* A key that goes.
LEMMA DeleteFacts ==
  ASSUME Careless = {}, Sound(table, cItems, cDeletedItems), cDeltaGoalSize \in Int,
         NEW l \in LiveBuckets(table), Delete(SPARSE_BUCKET(table, l)),
         NEW k, k = KeyAt(table, l)
  PROVE  /\ Sound(table', cItems', cDeletedItems') /\ cDeltaGoalSize' \in Int
         /\ \E e \in Data : Has(table, k, e)
         /\ \A j \in Keys : \A e : Has(table', j, e) <=> j # k /\ Has(table, j, e)
         /\ copies' = [copies EXCEPT ![k] = @ - 1]
         /\ posLastFind' = Null /\ call' = Call("delete", k) /\ ret' = Null
         /\ iter' = BeforeFirst /\ seen' = <<>>
<1>1. /\ table \in Tables /\ GoodTable(table)
      /\ cItems \in Nat /\ cDeletedItems \in Nat /\ SizeOf(table) \in Nat
      /\ cItems = Cardinality(LiveBuckets(table))
      /\ cDeletedItems = Cardinality(DeletedBuckets(table))
      /\ 2 * (cItems + cDeletedItems) < SizeOf(table)
  BY SoundFacts
<1>2. /\ Deref(table, SPARSE_BUCKET(table, l)) = Item(k, DataAt(table, l))
      /\ k \in Keys /\ DataAt(table, l) \in Data
  BY <1>1, LiveFacts
<1>3. Deref(table, SPARSE_BUCKET(table, l)).key = k
  BY <1>2 DEF Item
<1>4. \A e : Has(table, k, e) <=> e = DataAt(table, l)
  BY <1>1, <1>2, HasFacts
<1>5. PICK t, goal, size :
        /\ t = Overwrite(table, SPARSE_BUCKET(table, l), Item(k, DELETED))
        /\ goal = cDeltaGoalSize + (IF cDeltaGoalSize < 0 THEN 1 ELSE 0)
        /\ size = BucketsFor(cItems - 1, goal)
  OBVIOUS
<1>6. /\ TooEmpty(cItems - 1, goal) /\ size = 0 => "vanish" \in Careless
      /\ IF TooEmpty(cItems - 1, goal)
         THEN table' = Rehash(t, size, Null).table /\ cDeletedItems' = 0
         ELSE table' = t /\ cDeletedItems' = cDeletedItems + 1
      /\ cItems' = cItems - 1 /\ cDeltaGoalSize' = goal
      /\ copies' = [copies EXCEPT ![k] = @ - 1]
      /\ posLastFind' = Null /\ call' = Call("delete", k) /\ ret' = Null
      /\ iter' = BeforeFirst /\ seen' = <<>>
  BY <1>3, <1>5 DEF Delete, EndIteration
<1>7. /\ GoodTable(t) /\ SizeOf(t) = SizeOf(table)
      /\ Cardinality(LiveBuckets(t)) = Cardinality(LiveBuckets(table)) - 1
      /\ Cardinality(DeletedBuckets(t)) = Cardinality(DeletedBuckets(table)) + 1
      /\ \A j \in Keys : \A e : Has(t, j, e) <=> j # k /\ Has(table, j, e)
  BY <1>1, <1>5, MarkFacts
<1>8. /\ cItems - 1 = Cardinality(LiveBuckets(t)) /\ cItems - 1 \in Nat
      /\ cDeletedItems + 1 = Cardinality(DeletedBuckets(t)) /\ goal \in Int
      /\ SizeOf(t) \in Nat
  <2>1. t \in Tables
    BY <1>7 DEF GoodTable
  <2>2. Cardinality(LiveBuckets(t)) \in Nat /\ SizeOf(t) \in Nat
    BY <2>1, KindsCounted, TableFacts
  <2> QED
    BY <1>1, <1>5, <1>7, <2>2
<1>9. CASE ~TooEmpty(cItems - 1, goal)
  <2>1. t # <<>>
    <3>1. SizeOf(<<>>) = 0
      BY GroupAssumption DEF SizeOf
    <3>2. SizeOf(t) > 0
      BY <1>7, TableFacts DEF GoodTable
    <3> QED
      BY <3>1, <3>2
  <2>2. Sound(t, cItems - 1, cDeletedItems + 1)
    BY <1>1, <1>7, <1>8, <2>1 DEF Sound
  <2> QED
    BY <1>2, <1>4, <1>6, <1>7, <1>8, <1>9, <2>2
<1>10. CASE TooEmpty(cItems - 1, goal)
  <2>1. size \in Nat /\ PowerOfTwo(size) /\ 2 * (cItems - 1) < size
    <3>1. size # 0
      BY <1>6, <1>10
    <3> QED
      BY <1>5, <1>8, <3>1, BucketsForFacts
  <2>2. Cardinality(LiveBuckets(t)) < size
    BY <1>8, <2>1
  <2>3. PICK u : u = Rehash(t, size, Null)
    OBVIOUS
  <2>4. SizeOf(u.table) >= size /\ Holds(u.table, t, LiveBuckets(t))
    BY <1>7, <2>1, <2>2, <2>3, RehashFacts
  <2>5. /\ Sound(u.table, cItems - 1, 0)
        /\ \A j \in Keys : \A e : Has(u.table, j, e) <=> Has(t, j, e)
    BY <1>8, <2>1, <2>4, RehashedSound
  <2>6. table' = u.table /\ cDeletedItems' = 0
    BY <1>6, <1>10, <2>3
  <2> QED
    BY <1>2, <1>4, <1>6, <1>7, <1>8, <2>5, <2>6
<1> QED
  BY <1>9, <1>10

-----------------------------------------------------------------------------
(* The invariant.                                                          *)

\* What the calls keep up.
TableInv ==
  /\ cDeltaGoalSize \in Int
  /\ call = Call(call.op, call.key)
  /\ call.op = "free" <=> table = <<>>
  /\ table = <<>> => /\ cItems = 0 /\ cDeletedItems = 0
                     /\ posLastFind = Unset /\ iter = BeforeFirst
  /\ table # <<>> => Sound(table, cItems, cDeletedItems)
  /\ copies = [k \in Keys |-> Cardinality(BucketsWith(table, k))]
  /\ ret = Null \/ Returned(table, ret)
  /\ IF call.op \in {"find", "find_last"} THEN posLastFind = ret
     ELSE posLastFind \in {Null, Unset}

\* The record of a call.
LEMMA CallFacts ==
  ASSUME NEW op, NEW k, NEW c, c = Call(op, k)
  PROVE  c = Call(c.op, c.key) /\ c.op = op /\ c.key = k
BY DEF Call

\* A table that is sound, with copies as there should be.
LEMMA CopiesStep ==
  ASSUME NEW t, GoodTable(t), NEW u, GoodTable(u), NEW k \in Keys,
         NEW c, c = [j \in Keys |-> Cardinality(BucketsWith(t, j))], NEW n \in Int,
         \A j \in Keys : j # k => \A e : Has(u, j, e) <=> Has(t, j, e),
         n = (IF \E e \in Data : Has(u, k, e) THEN 1 ELSE 0)
             - (IF \E e \in Data : Has(t, k, e) THEN 1 ELSE 0)
  PROVE  [c EXCEPT ![k] = @ + n] = [j \in Keys |-> Cardinality(BucketsWith(u, j))]
<1>1. ASSUME NEW j \in Keys
      PROVE  [c EXCEPT ![k] = @ + n][j] = Cardinality(BucketsWith(u, j))
  <2>1. /\ Cardinality(BucketsWith(t, j)) = IF \E d \in Data : Has(t, j, d) THEN 1 ELSE 0
        /\ Cardinality(BucketsWith(u, j)) = IF \E d \in Data : Has(u, j, d) THEN 1 ELSE 0
    BY HasFacts
  <2>2. CASE j = k
    <3>1. [c EXCEPT ![k] = @ + n][j] = Cardinality(BucketsWith(t, k)) + n
      BY <2>2
    <3> QED
      BY <2>1, <2>2, <3>1
  <2>3. CASE j # k
    <3>1. [c EXCEPT ![k] = @ + n][j] = Cardinality(BucketsWith(t, j))
      BY <2>3
    <3>2. \A d : Has(t, j, d) <=> Has(u, j, d)
      BY <2>3
    <3> QED
      BY <2>1, <3>1, <3>2
  <2> QED
    BY <2>2, <2>3
<1> QED
  BY <1>1

\* Init.
LEMMA TableInvInit ==
  ASSUME Init
  PROVE  TableInv
<1>1. Sound(table, 0, 0) /\ LiveBuckets(table) = {} /\ table # <<>>
  <2>1. table = SparseAllocate(MinSize)
    BY DEF Init
  <2> QED
    BY <2>1, NewTable DEF Sound
<1>2. copies = [k \in Keys |-> Cardinality(BucketsWith(table, k))]
  <2>1. \A k \in Keys : BucketsWith(table, k) = {}
    BY <1>1 DEF BucketsWith
  <2> QED
    BY <2>1, FS_EmptySet DEF Init
<1>3. call = Call(call.op, call.key) /\ call.op = "allocate"
  BY CallFacts DEF Init
<1>4. posLastFind = Unset /\ ret = Null /\ cDeltaGoalSize = 0 /\ cItems = 0
      /\ cDeletedItems = 0
  BY DEF Init
<1> QED
  BY <1>1, <1>2, <1>3, <1>4 DEF TableInv

\* HashInsert and HashFindOrInsert.
LEMMA TableInvInsert ==
  ASSUME Careless = {}, TableInv, NEW op, op \notin {"free", "find", "find_last"},
         NEW k \in Keys, NEW d \in Own[k], NEW overwrite \in BOOLEAN,
         Insert(op, k, d, overwrite)
  PROVE  TableInv'
<1>1. /\ Sound(table, cItems, cDeletedItems) /\ cDeltaGoalSize \in Int /\ GoodTable(table)
      /\ copies = [j \in Keys |-> Cardinality(BucketsWith(table, j))]
  BY DEF TableInv, Insert, Sound
<1>2. /\ d \in Data /\ posLastFind' = Null /\ call' = Call(op, k)
      /\ LET item == Find(table, k)
         IN \/ item # Null /\ InsertFound(item, d, overwrite)
            \/ item = Null /\ InsertNew(k, d, overwrite)
  BY TableAssumption DEF Insert
<1>3. call' = Call(call'.op, call'.key) /\ call'.op = op
  BY <1>2, CallFacts
<1>4. CASE Find(table, k) = Null /\ InsertNew(k, d, overwrite)
  <2>1. /\ Sound(table', cItems', cDeletedItems') /\ cDeltaGoalSize' \in Int
        /\ \E l \in LiveBuckets(table') : ret' = SPARSE_BUCKET(table', l)
        /\ \A e : ~Has(table, k, e)
        /\ \A j \in Keys : \A e :
             Has(table', j, e) <=> IF j = k THEN e = d ELSE Has(table, j, e)
    BY <1>1, <1>2, <1>4, InsertNewFacts
  <2>2. copies' = [j \in Keys |-> Cardinality(BucketsWith(table', j))]
    <3>1. copies' = [copies EXCEPT ![k] = @ + 1]
      BY <1>4 DEF InsertNew
    <3>2. PICK u, c : u = table' /\ c = copies
      OBVIOUS
    <3>3. /\ GoodTable(u) /\ \A j \in Keys : j # k => \A e : Has(u, j, e) <=> Has(table, j, e)
          /\ \E e \in Data : Has(u, k, e)
      BY <1>2, <2>1, <3>2 DEF Sound
    <3>4. 1 = (IF \E e \in Data : Has(u, k, e) THEN 1 ELSE 0)
              - (IF \E e \in Data : Has(table, k, e) THEN 1 ELSE 0)
      BY <2>1, <3>3
    <3>5. [c EXCEPT ![k] = @ + 1] = [j \in Keys |-> Cardinality(BucketsWith(u, j))]
      BY <1>1, <3>2, <3>3, <3>4, CopiesStep
    <3> QED
      BY <3>1, <3>2, <3>5
  <2> QED
    BY <1>2, <1>3, <2>1, <2>2 DEF TableInv, Returned, Sound
<1>5. CASE Find(table, k) # Null /\ InsertFound(Find(table, k), d, overwrite)
  <2>1. /\ Sound(table', cItems', cDeletedItems') /\ cDeltaGoalSize' \in Int
        /\ \E l \in LiveBuckets(table') : ret' = SPARSE_BUCKET(table', l)
        /\ \E e \in Data : Has(table, k, e)
        /\ \A j \in Keys : \A e :
             Has(table', j, e) <=> IF j = k /\ overwrite THEN e = d ELSE Has(table, j, e)
    BY <1>1, <1>2, <1>5, InsertFoundFacts
  <2>2. copies' = [j \in Keys |-> Cardinality(BucketsWith(table', j))]
    <3>1. copies' = copies
      BY <1>5 DEF InsertFound
    <3>2. PICK u, c : u = table' /\ c = copies
      OBVIOUS
    <3>3. /\ GoodTable(u) /\ \A j \in Keys : j # k => \A e : Has(u, j, e) <=> Has(table, j, e)
          /\ \E e \in Data : Has(u, k, e)
      BY <1>2, <2>1, <3>2 DEF Sound
    <3>4. 0 = (IF \E e \in Data : Has(u, k, e) THEN 1 ELSE 0)
              - (IF \E e \in Data : Has(table, k, e) THEN 1 ELSE 0)
      BY <2>1, <3>3
    <3>5. [c EXCEPT ![k] = @ + 0] = [j \in Keys |-> Cardinality(BucketsWith(u, j))]
      BY <1>1, <3>2, <3>3, <3>4, CopiesStep
    <3>6. [c EXCEPT ![k] = @ + 0] = c
      <4>1. Cardinality(BucketsWith(table, k)) \in Int
        BY <1>1, HasFacts
      <4> QED
        BY <1>1, <3>2, <4>1
    <3> QED
      BY <3>1, <3>2, <3>5, <3>6
  <2> QED
    BY <1>2, <1>3, <2>1, <2>2 DEF TableInv, Returned, Sound
<1> QED
  BY <1>2, <1>4, <1>5

\* Delete.
LEMMA TableInvDelete ==
  ASSUME Careless = {}, TableInv, NEW l \in LiveBuckets(table),
         Delete(SPARSE_BUCKET(table, l))
  PROVE  TableInv'
<1>1. table # <<>>
  BY NoTable
<1>2. /\ Sound(table, cItems, cDeletedItems) /\ cDeltaGoalSize \in Int /\ GoodTable(table)
      /\ copies = [j \in Keys |-> Cardinality(BucketsWith(table, j))]
  BY <1>1 DEF TableInv, Sound
<1>3. PICK k : k = KeyAt(table, l) /\ k \in Keys
  BY <1>2, LiveFacts DEF GoodTable
<1>4. /\ Sound(table', cItems', cDeletedItems') /\ cDeltaGoalSize' \in Int
      /\ \E e \in Data : Has(table, k, e)
      /\ \A j \in Keys : \A e : Has(table', j, e) <=> j # k /\ Has(table, j, e)
      /\ copies' = [copies EXCEPT ![k] = @ - 1]
      /\ posLastFind' = Null /\ call' = Call("delete", k) /\ ret' = Null
  BY <1>2, <1>3, DeleteFacts
<1>5. call' = Call(call'.op, call'.key) /\ call'.op = "delete"
  BY <1>4, CallFacts
<1>6. copies' = [j \in Keys |-> Cardinality(BucketsWith(table', j))]
  <2>1. PICK u, c : u = table' /\ c = copies
    OBVIOUS
  <2>2. /\ GoodTable(u) /\ \A j \in Keys : j # k => \A e : Has(u, j, e) <=> Has(table, j, e)
        /\ ~\E e \in Data : Has(u, k, e)
    BY <1>3, <1>4, <2>1 DEF Sound
  <2>3. -1 = (IF \E e \in Data : Has(u, k, e) THEN 1 ELSE 0)
             - (IF \E e \in Data : Has(table, k, e) THEN 1 ELSE 0)
    BY <1>4, <2>2
  <2>4. [c EXCEPT ![k] = @ + (-1)] = [j \in Keys |-> Cardinality(BucketsWith(u, j))]
    BY <1>2, <1>3, <2>1, <2>2, <2>3, CopiesStep
  <2>5. [c EXCEPT ![k] = @ + (-1)] = [c EXCEPT ![k] = @ - 1]
    <3>1. Cardinality(BucketsWith(table, k)) \in Int
      BY <1>2, <1>3, HasFacts
    <3> QED
      BY <1>2, <1>3, <2>1, <3>1
  <2> QED
    BY <1>4, <2>1, <2>4, <2>5
<1> QED
  BY <1>4, <1>5, <1>6 DEF TableInv, Sound

\* ClearHashTable and FreeHashTable free every copy there is.
LEMMA NoCopyLeft ==
  ASSUME TableInv
  PROVE  CopiesLeft = [k \in Keys |-> 0]
<1>1. ASSUME NEW k \in Keys
      PROVE  copies[k] - Cardinality(BucketsWith(table, k)) = 0
  <2>1. Cardinality(BucketsWith(table, k)) \in Nat
    <3>1. CASE table = <<>>
      <4>1. BucketsWith(table, k) = {}
        BY <3>1, NoTable DEF BucketsWith
      <4> QED
        BY <4>1, FS_EmptySet
    <3>2. CASE table # <<>>
      BY <3>2, HasFacts DEF TableInv, Sound
    <3> QED
      BY <3>1, <3>2
  <2> QED
    BY <2>1 DEF TableInv
<1> QED
  BY <1>1 DEF CopiesLeft, BucketsWith

\* The searches and the calls that only look.
LEMMA TableInvStep ==
  ASSUME Careless = {}, TableInv, [Next]_tvars
  PROVE  TableInv'
<1> USE DEF counts, iteration, history
<1>1. ASSUME table # <<>>
      PROVE  /\ Sound(table, cItems, cDeletedItems) /\ GoodTable(table)
             /\ EmptyBuckets(table) # {} /\ table \in Tables
  BY <1>1, SoundFacts DEF TableInv
<1>2. ASSUME table # <<>>, NEW k \in Keys, Find(table, k) # Null
      PROVE  \E l \in LiveBuckets(table) : Find(table, k) = SPARSE_BUCKET(table, l)
  BY <1>1, <1>2, FindHas
<1>3. ASSUME NEW k \in Keys, NEW d \in Own[k], HashInsert(k, d)
      PROVE  TableInv'
  BY <1>3, TableInvInsert DEF HashInsert
<1>4. ASSUME NEW k \in Keys, NEW d \in Own[k], HashFindOrInsert(k, d)
      PROVE  TableInv'
  BY <1>4, TableInvInsert DEF HashFindOrInsert
<1>5. ASSUME NEW k \in Keys, HashFind(k)
      PROVE  TableInv'
  <2>1. call' = Call(call'.op, call'.key) /\ call'.op = "find"
    BY <1>5, CallFacts DEF HashFind
  <2>2. ret' = Null \/ Returned(table, ret')
    BY <1>2, <1>5 DEF HashFind, Returned
  <2> QED
    BY <1>5, <2>1, <2>2 DEF HashFind, TableInv, Returned, BucketsWith
<1>6. ASSUME NEW k \in Keys, HashDelete(k)
      PROVE  TableInv'
  <2>1. PICK l \in LiveBuckets(table) : Find(table, k) = SPARSE_BUCKET(table, l)
    BY <1>2, <1>6 DEF HashDelete
  <2> QED
    BY <1>6, <2>1, TableInvDelete DEF HashDelete
<1>7. ASSUME NEW k \in Keys, HashDeleteMissing(k)
      PROVE  TableInv'
  <2>1. call' = Call(call'.op, call'.key) /\ call'.op = "delete"
    BY <1>7, CallFacts DEF HashDeleteMissing
  <2> QED
    BY <1>7, <2>1 DEF HashDeleteMissing, TableInv, BucketsWith
<1>8. ASSUME HashFindLast
      PROVE  TableInv'
  <2>1. call' = Call(call'.op, call'.key) /\ call'.op = "find_last"
    BY <1>8, CallFacts DEF HashFindLast
  <2>2. table # <<>> /\ call.op # "free"
    BY <1>8 DEF HashFindLast, TableInv
  <2>3. ret' = Null \/ Returned(table, ret')
    BY <1>8 DEF HashFindLast, TableInv
  <2> QED
    BY <1>8, <2>1, <2>2, <2>3 DEF HashFindLast, TableInv, Returned, BucketsWith
<1>9. ASSUME HashDeleteLast
      PROVE  TableInv'
  <2>1. PICK l \in LiveBuckets(table) : posLastFind = SPARSE_BUCKET(table, l)
    BY <1>9 DEF HashDeleteLast, TableInv, Returned
  <2> QED
    BY <1>9, <2>1, TableInvDelete DEF HashDeleteLast
<1>10. ASSUME NEW n \in Goals, HashSetDeltaGoalSize(n)
       PROVE  TableInv'
  BY <1>10, TableAssumption DEF HashSetDeltaGoalSize, TableInv, Returned, BucketsWith
<1>11. ASSUME ClearHashTable
       PROVE  TableInv'
  <2>1. PICK u : u = table' /\ u = SparseAllocate(MinSize)
    BY <1>11 DEF ClearHashTable
  <2>2. Sound(u, 0, 0) /\ LiveBuckets(u) = {}
    BY <2>1, NewTable
  <2>3. copies' = [k \in Keys |-> Cardinality(BucketsWith(u, k))]
    <3>1. \A k \in Keys : BucketsWith(u, k) = {}
      BY <2>2 DEF BucketsWith
    <3>2. copies' = [k \in Keys |-> 0]
      BY <1>11, NoCopyLeft DEF ClearHashTable
    <3> QED
      BY <3>1, <3>2, FS_EmptySet
  <2>4. call' = Call(call'.op, call'.key) /\ call'.op = "clear"
    BY <1>11, CallFacts DEF ClearHashTable
  <2> QED
    BY <1>11, <2>1, <2>2, <2>3, <2>4 DEF ClearHashTable, TableInv, Sound
<1>12. ASSUME FreeHashTable
       PROVE  TableInv'
  <2>1. table' = <<>>
    BY <1>12 DEF FreeHashTable
  <2>2. copies' = [k \in Keys |-> Cardinality(BucketsWith(table', k))]
    <3>1. \A k \in Keys : BucketsWith(<<>>, k) = {}
      BY NoTable DEF BucketsWith
    <3>2. copies' = [k \in Keys |-> 0]
      BY <1>12, NoCopyLeft DEF FreeHashTable
    <3> QED
      BY <2>1, <3>1, <3>2, FS_EmptySet
  <2>3. call' = Call(call'.op, call'.key) /\ call'.op = "free"
    BY <1>12, CallFacts DEF FreeHashTable
  <2> QED
    BY <1>12, <2>1, <2>2, <2>3 DEF FreeHashTable, TableInv, EndIteration
<1>13. ASSUME AllocateHashTable
       PROVE  TableInv'
  <2>1. PICK u : u = table' /\ u = SparseAllocate(MinSize)
    BY <1>13 DEF AllocateHashTable
  <2>2. Sound(u, 0, 0) /\ LiveBuckets(u) = {} /\ table = <<>>
    BY <1>13, <2>1, NewTable DEF AllocateHashTable, TableInv
  <2>3. copies' = [k \in Keys |-> Cardinality(BucketsWith(u, k))]
    <3>1. \A k \in Keys : BucketsWith(u, k) = {} /\ BucketsWith(table, k) = {}
      BY <2>2, NoTable DEF BucketsWith
    <3>2. copies' = [k \in Keys |-> Cardinality(BucketsWith(table, k))]
      BY <1>13 DEF AllocateHashTable, TableInv
    <3> QED
      BY <3>1, <3>2
  <2>4. call' = Call(call'.op, call'.key) /\ call'.op = "allocate"
    BY <1>13, CallFacts DEF AllocateHashTable
  <2>5. ret = Null
    BY <2>2, NoTable DEF TableInv, Returned
  <2> QED
    BY <1>13, <2>1, <2>2, <2>3, <2>4, <2>5 DEF AllocateHashTable, TableInv, Sound
<1>14. ASSUME HashFirstBucket \/ HashNextBucket
       PROVE  TableInv'
  <2>1. UNCHANGED <<table, counts, posLastFind, copies, history>>
    BY <1>14 DEF HashFirstBucket, HashNextBucket, IterateFrom
  <2>2. table # <<>>
    BY <1>14 DEF HashFirstBucket, HashNextBucket, TableInv
  <2> QED
    BY <2>1, <2>2 DEF TableInv, Returned, BucketsWith
<1>15. CASE UNCHANGED tvars
  BY <1>15 DEF tvars, TableInv, Returned, BucketsWith
<1> QED
  BY <1>3, <1>4, <1>5, <1>6, <1>7, <1>8, <1>9, <1>10, <1>11, <1>12, <1>13, <1>14, <1>15
     DEF Next

-----------------------------------------------------------------------------
(* What the invariant shows.                                               *)

\* Every reachable state satisfies the invariant.
LEMMA TableInvHolds ==
  ASSUME Careless = {}
  PROVE  Spec => []TableInv
<1>1. Init => TableInv
  BY TableInvInit
<1>2. TableInv /\ [Next]_tvars => TableInv'
  BY TableInvStep
<1> QED
  BY <1>1, <1>2, PTL DEF Spec

\* TypeOK: groups match their bitmaps, items have keys, counters are numbers.
THEOREM TableTyped ==
  ASSUME Careless = {}
  PROVE  Spec => []TypeOK
<1>1. ASSUME TableInv
      PROVE  TypeOK
  <2>1. cItems \in Nat /\ cDeletedItems \in Nat
    BY <1>1, SoundFacts DEF TableInv
  <2>2. copies \in [Keys -> Nat]
    <3>1. ASSUME NEW k \in Keys
          PROVE  Cardinality(BucketsWith(table, k)) \in Nat
      <4>1. CASE table = <<>>
        <5>1. BucketsWith(table, k) = {}
          BY <4>1, NoTable DEF BucketsWith
        <5> QED
          BY <5>1, FS_EmptySet
      <4>2. CASE table # <<>>
        BY <1>1, <4>2, HasFacts DEF TableInv, Sound
      <4> QED
        BY <4>1, <4>2
    <3> QED
      BY <1>1, <3>1 DEF TableInv
  <2>3. ASSUME NEW g \in DOMAIN table
        PROVE  /\ table[g].bmOccupied \subseteq Positions
               /\ Len(table[g].binSparse) = Cardinality(table[g].bmOccupied)
               /\ \A i \in DOMAIN table[g].binSparse :
                    table[g].binSparse[i] \in [key : Keys, data : Data \cup {DELETED}]
    <3>1. table # <<>>
      OBVIOUS
    <3>2. table \in Tables
      BY <1>1, <3>1 DEF TableInv, Sound, GoodTable
    <3>3. /\ table[g].bmOccupied \in SUBSET Positions
          /\ table[g].binSparse \in Seq(TableItems)
          /\ Len(table[g].binSparse) = Cardinality(table[g].bmOccupied)
      BY <3>2, TableFacts, GroupFacts
    <3>4. \A i \in DOMAIN table[g].binSparse : table[g].binSparse[i] \in TableItems
      BY <3>3
    <3> QED
      BY <3>3, <3>4 DEF TableItems
  <2> QED
    BY <1>1, <2>1, <2>2, <2>3 DEF TypeOK, TableInv
<1> QED
  BY <1>1, TableInvHolds, PTL

\* CountsAgree: an iteration finds as many items as cItems says and as many
\* marked buckets as cDeletedItems, the assertion of PrintHashTable.
THEOREM CountsProved ==
  ASSUME Careless = {}
  PROVE  Spec => []CountsAgree
<1>1. ASSUME TableInv
      PROVE  CountsAgree
  <2>1. CASE table = <<>>
    <3>1. /\ LiveBuckets(table) = {} /\ Buckets(table) \ EmptyBuckets(table) = {}
          /\ cItems = 0 /\ cDeletedItems = 0
      BY <1>1, <2>1, NoTable DEF TableInv
    <3>2. Cardinality({}) = 0
      BY FS_EmptySet
    <3> QED
      BY <3>1, <3>2 DEF CountsAgree, PrintHashTable
  <2>2. CASE table # <<>>
    <3>1. Sound(table, cItems, cDeletedItems) /\ table \in Tables
      BY <1>1, <2>2 DEF TableInv, Sound, GoodTable
    <3>2. Cardinality(Buckets(table) \ EmptyBuckets(table)) = cItems + cDeletedItems
      BY <3>1, KindsCounted DEF Sound
    <3> QED
      BY <3>1, <3>2 DEF Sound, CountsAgree, PrintHashTable
  <2> QED
    BY <2>1, <2>2
<1> QED
  BY <1>1, TableInvHolds, PTL

\* SearchEnds: the loop of Find, which has no test for having been round, ends
\* for every key at an empty bucket.
THEOREM SearchEndsProved ==
  ASSUME Careless = {}
  PROVE  Spec => []SearchEnds
<1>1. ASSUME TableInv
      PROVE  SearchEnds
  <2> SUFFICES ASSUME call.op # "free", NEW k \in Keys
               PROVE  FirstProbe(table, k, EmptyBuckets(table)) # {}
    BY DEF SearchEnds
  <2>1. table \in Tables /\ EmptyBuckets(table) # {}
    BY <1>1, SoundFacts DEF TableInv
  <2>2. PICK e : e \in EmptyBuckets(table) \cap Buckets(table)
    BY <2>1, Kinds
  <2> QED
    <3>1. SizeOf(table) \in Nat /\ PowerOfTwo(SizeOf(table))
      BY <2>1, TableFacts
    <3>2. \E n \in Buckets(table) : FirstProbe(table, k, EmptyBuckets(table)) = {n}
      BY <2>2, <3>1, FirstProbeFacts
    <3> QED
      BY <3>2
<1> QED
  BY <1>1, TableInvHolds, PTL

\* CopiesOwned: every copy of a key that HashInsert made is that of an item.
THEOREM CopiesProved ==
  ASSUME Careless = {}
  PROVE  Spec => []CopiesOwned
<1>1. TableInv => CopiesOwned
  BY DEF TableInv, CopiesOwned, BucketsWith
<1> QED
  BY <1>1, TableInvHolds, PTL

\* LastFindLive: what HashDeleteLast marks is an item that an iteration returns.
THEOREM LastFindProved ==
  ASSUME Careless = {}
  PROVE  Spec => []LastFindLive
<1>1. TableInv => LastFindLive
  BY DEF TableInv, LastFindLive, Returned
<1> QED
  BY <1>1, TableInvHolds, PTL

\* Reachable: a search finds every item, whatever was deleted on its way.
THEOREM ReachableProved ==
  ASSUME Careless = {}
  PROVE  Spec => []Reachable
<1>1. ASSUME TableInv
      PROVE  Reachable
  <2> SUFFICES ASSUME NEW loc \in LiveBuckets(table)
               PROVE  Find(table, KeyAt(table, loc)) = SPARSE_BUCKET(table, loc)
    BY DEF Reachable
  <2>1. table # <<>>
    BY NoTable
  <2>2. /\ GoodTable(table) /\ EmptyBuckets(table) # {} /\ table \in Tables
    BY <1>1, <2>1, SoundFacts DEF TableInv
  <2>3. KeyAt(table, loc) \in Keys
    BY <2>2, LiveFacts
  <2> QED
    BY <2>2, <2>3, FindFacts
<1> QED
  BY <1>1, TableInvHolds, PTL

-----------------------------------------------------------------------------
(* Iterating.                                                              *)

\* The bits before position i are those before the first bit from i on, or all;
\* behind a bit there is one more.
LEMMA CountToNext ==
  ASSUME NEW bm \in SUBSET Positions, NEW i \in Int
  PROVE  /\ \A q \in bm : i <= q /\ (\A r \in bm : i <= r => q <= r) =>
              EntriesUpto(bm, q) = EntriesUpto(bm, i)
         /\ (\A q \in bm : q < i) => EntriesUpto(bm, i) = Cardinality(bm)
         /\ i \in bm => EntriesUpto(bm, i + 1) = EntriesUpto(bm, i) + 1
<1>1. bm \in SUBSET Int
  BY BitsAreNumbers
<1>2. ASSUME NEW q \in bm, i <= q, \A r \in bm : i <= r => q <= r
      PROVE  EntriesUpto(bm, q) = EntriesUpto(bm, i)
  <2>1. \A r \in bm : r < q <=> r < i
    BY <1>1, <1>2
  <2>2. {p \in bm : p < q} = {p \in bm : p < i}
    BY <2>1
  <2> QED
    BY <2>2 DEF EntriesUpto
<1>3. ASSUME \A q \in bm : q < i
      PROVE  EntriesUpto(bm, i) = Cardinality(bm)
  <2>1. {p \in bm : p < i} = bm
    BY <1>3
  <2> QED
    BY <2>1 DEF EntriesUpto
<1>4. ASSUME i \in bm
      PROVE  EntriesUpto(bm, i + 1) = EntriesUpto(bm, i) + 1
  <2>1. \A r \in bm : r < i + 1 <=> r < i \/ r = i
    BY <1>1
  <2>2. {p \in bm : p < i + 1} = {p \in bm : p < i} \cup {i}
    BY <1>4, <2>1
  <2>3. IsFiniteSet({p \in bm : p < i}) /\ i \notin {p \in bm : p < i}
    BY BitmapFinite
  <2>4. Cardinality({p \in bm : p < i} \cup {i}) = Cardinality({p \in bm : p < i}) + 1
    BY <2>3, FS_AddElement
  <2> QED
    BY <2>2, <2>4 DEF EntriesUpto
<1> QED
  BY <1>2, <1>3, <1>4

\* The buckets of an array in their order.
LEMMA AddressOrder ==
  ASSUME NEW len \in Nat, NEW l \in 0 .. (GroupSize * len - 1),
         NEW m \in 0 .. (GroupSize * len - 1)
  PROVE  l < m <=> Bin(l) < Bin(m) \/ (Bin(l) = Bin(m) /\ Pos(l) < Pos(m))
<1> DEFINE G == GroupSize
<1>1. G \in Nat /\ G > 0
  BY GroupAssumption
<1>2. PICK a \in Int, b \in Int, p \in 0 .. (G - 1), q \in 0 .. (G - 1) :
        /\ a = Bin(l) - 1 /\ b = Bin(m) - 1 /\ p = Pos(l) /\ q = Pos(m)
        /\ l = G * a + p /\ m = G * b + q
  <2>1. Bin(l) \in 1 .. len /\ Pos(l) \in Positions /\ l = GroupSize * (Bin(l) - 1) + Pos(l)
    BY Addresses
  <2>2. Bin(m) \in 1 .. len /\ Pos(m) \in Positions /\ m = GroupSize * (Bin(m) - 1) + Pos(m)
    BY Addresses
  <2>3. Bin(l) - 1 \in Int /\ Bin(m) - 1 \in Int
    BY <2>1, <2>2
  <2> QED
    BY <2>1, <2>2, <2>3 DEF Positions
<1>3. a < b => G * a + p < G * b + q
  <2>1. a < b => G * (b - a) >= G
    BY <1>1, Z3
  <2>2. G * (b - a) = G * b - G * a /\ G * a \in Int /\ G * b \in Int
    BY <1>1, Z3
  <2> QED
    BY <1>1, <2>1, <2>2
<1>4. b < a => G * b + q < G * a + p
  <2>1. b < a => G * (a - b) >= G
    BY <1>1, Z3
  <2>2. G * (a - b) = G * a - G * b /\ G * a \in Int /\ G * b \in Int
    BY <1>1, Z3
  <2> QED
    BY <1>1, <2>1, <2>2
<1>5. a = b => (G * a + p < G * b + q <=> p < q)
  <2>1. G * a \in Int
    BY <1>1, Z3
  <2> QED
    BY <1>1, <2>1
<1>6. l < m <=> a < b \/ (a = b /\ p < q)
  BY <1>2, <1>3, <1>4, <1>5
<1>7. Bin(l) < Bin(m) <=> a < b
  <2>1. Bin(l) = a + 1 /\ Bin(m) = b + 1
    <3>1. Bin(l) \in Int /\ Bin(m) \in Int
      BY Addresses
    <3> QED
      BY <1>2, <3>1
  <2> QED
    BY <2>1
<1>8. Bin(l) = Bin(m) <=> a = b
  <2>1. Bin(l) \in Int /\ Bin(m) \in Int
    BY Addresses
  <2> QED
    BY <1>2, <2>1
<1> QED
  BY <1>2, <1>6, <1>7, <1>8

\* Every position of a group is a bucket.
LEMMA AddressExists ==
  ASSUME NEW len \in Nat, NEW g \in 1 .. len, NEW p \in Positions
  PROVE  \E loc \in 0 .. (GroupSize * len - 1) : Bin(loc) = g /\ Pos(loc) = p
<1> DEFINE G == GroupSize
           loc == G * (g - 1) + p
<1>1. G \in Nat /\ G > 0 /\ p \in 0 .. (G - 1)
  BY GroupAssumption DEF Positions
<1>2. loc \div G = g - 1 /\ loc % G = p
  <2> DEFINE q == loc \div G
             r == loc % G
             a == g - 1
  <2>1. a \in Nat /\ G * a \in Int
    BY <1>1, Z3
  <2>2. loc \in Int
    BY <1>1, <2>1
  <2>3. q \in Int /\ r \in 0 .. (G - 1) /\ loc = G * q + r
    <3> HIDE DEF loc
    <3> QED
      BY <1>1, <2>2, Z3
  <2>4. loc = G * a + p
    OBVIOUS
  <2> HIDE DEF loc, q, r, a
  <2>5. G * (q - a) = p - r
    BY <1>1, <2>1, <2>3, <2>4, Z3
  <2>6. ~(q - a >= 1) /\ ~(q - a <= -1)
    BY <1>1, <2>1, <2>3, <2>5, Z3
  <2>7. q = a
    BY <2>1, <2>3, <2>6
  <2>8. r = p
    <3>1. G * q \in Int
      BY <1>1, <2>3, Z3
    <3> QED
      BY <1>1, <2>3, <2>4, <2>7, <3>1
  <2> QED
    BY <2>7, <2>8 DEF q, r, a
<1>3. loc \in 0 .. (G * len - 1)
  <2>1. G * (g - 1) >= 0 /\ G * (g - 1) \in Int
    BY <1>1, Z3
  <2>2. G * (len - g) >= 0 /\ G * (g - 1) + G + G * (len - g) = G * len /\ G * len \in Int
    BY <1>1, Z3
  <2> QED
    BY <1>1, <2>1, <2>2
<1>4. Bin(loc) = g /\ Pos(loc) = p
  <2> HIDE DEF loc
  <2> QED
    BY <1>2 DEF Bin, Pos
<1> HIDE DEF loc
<1> QED
  BY <1>3, <1>4

\* The buckets in use, and the iterator at one of them.
Used(t) == Buckets(t) \ EmptyBuckets(t)
PlaceOf(t, at) == IF at = -1 THEN BeforeFirst ELSE SPARSE_BUCKET(t, at)

\* The bits of a table are its buckets in use.
LEMMA UsedFacts ==
  ASSUME NEW t \in Tables
  PROVE  /\ DOMAIN t = 1 .. Len(t) /\ Len(t) \in Nat
         /\ \A g \in DOMAIN t :
              /\ t[g].bmOccupied \in SUBSET Positions /\ t[g].bmOccupied \subseteq Int
              /\ Len(t[g].binSparse) = Cardinality(t[g].bmOccupied)
              /\ t[g].binSparse = <<>> <=> t[g].bmOccupied = {}
         /\ \A m \in Used(t) : /\ m \in Buckets(t) /\ m \in Nat
                               /\ ~SparseIsEmpty(t, m)
                               /\ Bin(m) \in DOMAIN t /\ Pos(m) \in t[Bin(m)].bmOccupied
         /\ \A g \in DOMAIN t : \A p \in t[g].bmOccupied :
              \E m \in Used(t) : Bin(m) = g /\ Pos(m) = p
         /\ \A l, m \in Used(t) :
              l < m <=> Bin(l) < Bin(m) \/ (Bin(l) = Bin(m) /\ Pos(l) < Pos(m))
<1>1. /\ t \in SparseArrays(TableItems) /\ Buckets(t) = 0 .. (SizeOf(t) - 1)
      /\ Len(t) \in Nat /\ SizeOf(t) = GroupSize * Len(t)
  BY TableFacts DEF SizeOf
<1>2. DOMAIN t = 1 .. Len(t)
  BY <1>1 DEF SparseArrays
<1>3. ASSUME NEW g \in DOMAIN t
      PROVE  /\ t[g].bmOccupied \in SUBSET Positions /\ t[g].bmOccupied \subseteq Int
             /\ Len(t[g].binSparse) = Cardinality(t[g].bmOccupied)
             /\ t[g].binSparse = <<>> <=> t[g].bmOccupied = {}
  <2>1. /\ t[g].bmOccupied \in SUBSET Positions /\ t[g].binSparse \in Seq(TableItems)
        /\ Len(t[g].binSparse) = Cardinality(t[g].bmOccupied)
    BY <1>1, GroupFacts
  <2>2. t[g].binSparse = <<>> <=> Len(t[g].binSparse) = 0
    BY <2>1
  <2>3. IsFiniteSet(t[g].bmOccupied)
    BY <2>1, BitmapFinite
  <2>4. Cardinality(t[g].bmOccupied) = 0 <=> t[g].bmOccupied = {}
    BY <2>3, FS_EmptySet
  <2> QED
    BY <2>1, <2>2, <2>4, BitsAreNumbers
<1>4. ASSUME NEW m \in Used(t)
      PROVE  /\ m \in Buckets(t) /\ m \in Nat /\ ~SparseIsEmpty(t, m)
             /\ Bin(m) \in DOMAIN t /\ Pos(m) \in t[Bin(m)].bmOccupied
  <2>1. m \in Buckets(t) /\ ~SparseIsEmpty(t, m)
    BY Kinds DEF Used
  <2>2. Bin(m) \in DOMAIN t
    BY <1>1, <2>1, BucketFacts
  <2> QED
    BY <1>1, <2>1, <2>2 DEF SparseIsEmpty
<1>5. ASSUME NEW g \in DOMAIN t, NEW p \in t[g].bmOccupied
      PROVE  \E m \in Used(t) : Bin(m) = g /\ Pos(m) = p
  <2>1. g \in 1 .. Len(t) /\ p \in Positions
    BY <1>2, <1>3
  <2>2. PICK m \in 0 .. (GroupSize * Len(t) - 1) : Bin(m) = g /\ Pos(m) = p
    BY <1>1, <2>1, AddressExists
  <2>3. m \in Buckets(t) /\ ~SparseIsEmpty(t, m)
    BY <1>1, <2>2 DEF SparseIsEmpty
  <2> QED
    BY <2>2, <2>3, Kinds DEF Used
<1>6. ASSUME NEW l \in Used(t), NEW m \in Used(t)
      PROVE  l < m <=> Bin(l) < Bin(m) \/ (Bin(l) = Bin(m) /\ Pos(l) < Pos(m))
  <2>1. l \in 0 .. (GroupSize * Len(t) - 1) /\ m \in 0 .. (GroupSize * Len(t) - 1)
    BY <1>1, <1>4
  <2> QED
    BY <1>1, <2>1, AddressOrder
<1> QED
  BY <1>1, <1>2, <1>3, <1>4, <1>5, <1>6

\* SparseNextBucket goes to the next bucket in use, or ends behind the last one.
LEMMA NextBucketFacts ==
  ASSUME NEW t \in Tables, NEW at \in Used(t) \cup {-1},
         NEW later, later = {m \in Used(t) : at < m},
         NEW it, it = PlaceOf(t, at)
  PROVE  \/ later = {} /\ SparseNextBucket(t, it) = Null
         \/ \E m \in later : /\ \A n \in later : m <= n
                             /\ SparseNextBucket(t, it) = SPARSE_BUCKET(t, m)
<1> DEFINE bm(g) == t[g].bmOccupied
           behind == {h \in DOMAIN t : h > it.bin /\ t[h].binSparse # <<>>}
           inside == it.bin > 0 /\ it.off < Len(t[it.bin].binSparse)
<1>1. /\ DOMAIN t = 1 .. Len(t) /\ Len(t) \in Nat
      /\ \A g \in DOMAIN t :
           /\ bm(g) \in SUBSET Positions /\ bm(g) \subseteq Int
           /\ Len(t[g].binSparse) = Cardinality(bm(g))
           /\ t[g].binSparse = <<>> <=> bm(g) = {}
  BY UsedFacts
<1>2. \A m \in Used(t) : m \in Nat /\ Bin(m) \in DOMAIN t /\ Pos(m) \in bm(Bin(m))
  BY UsedFacts
<1>3. \A g \in DOMAIN t : \A p \in bm(g) : \E m \in Used(t) : Bin(m) = g /\ Pos(m) = p
  BY UsedFacts
<1>4. \A l, m \in Used(t) :
        l < m <=> Bin(l) < Bin(m) \/ (Bin(l) = Bin(m) /\ Pos(l) < Pos(m))
  BY UsedFacts
<1>5. at \in Int /\ at >= -1 /\ (at # -1 => at \in Used(t) /\ at >= 0)
  BY <1>2
<1>6. IF at = -1 THEN it.bin = 0
      ELSE it = [bin |-> Bin(at), off |-> EntriesUpto(bm(Bin(at)), Pos(at)) + 1]
  BY DEF PlaceOf, BeforeFirst, SPARSE_BUCKET
<1>7. it.bin \in Nat /\ (it.bin > 0 <=> at # -1) /\ (at # -1 => it.bin = Bin(at))
  <2>1. at # -1 => it.bin = Bin(at) /\ Bin(at) \in DOMAIN t
    BY <1>2, <1>5, <1>6
  <2> QED
    BY <1>1, <1>6, <2>1
<1> HIDE DEF bm
<1>8. ASSUME NEW g \in DOMAIN t, NEW i \in Int, NEW q0 \in bm(g), i <= q0
      PROVE  \E q \in bm(g) : i <= q /\ \A r \in bm(g) : i <= r => q <= r
  <2> DEFINE S == {r \in bm(g) : i <= r}
  <2>1. S \in SUBSET (0 .. (GroupSize - 1)) /\ S # {} /\ GroupSize \in Int
    BY <1>1, <1>8, GroupAssumption DEF Positions
  <2>2. \E a \in S : \A b \in S : a <= b
    <3> HIDE DEF S
    <3> QED
      BY <2>1, Least
  <2> QED
    BY <2>2
<1>9. CASE inside
  <2>1. at # -1 /\ at \in Used(t) /\ it.bin = Bin(at)
    BY <1>5, <1>7, <1>9
  <2>2. PICK g \in DOMAIN t, p \in Int :
          /\ g = Bin(at) /\ p = Pos(at) /\ p \in bm(g)
          /\ it = [bin |-> g, off |-> EntriesUpto(bm(g), p) + 1]
    BY <1>1, <1>2, <1>6, <2>1
  <2>3. it.off = EntriesUpto(bm(g), p) + 1 /\ it.bin = g /\ EntriesUpto(bm(g), p) \in Int
    BY <1>1, <2>2, CountIsNumber
  <2>4. EntriesUpto(bm(g), p + 1) = EntriesUpto(bm(g), p) + 1
    BY <1>1, <2>2, CountToNext
  <2>5. \E q0 \in bm(g) : p + 1 <= q0
    <3> SUFFICES ASSUME \A q \in bm(g) : q < p + 1
                 PROVE  FALSE
      BY <1>1, <2>2
    <3>1. p + 1 \in Int /\ bm(g) \in SUBSET Positions
      BY <1>1, <2>2
    <3>2. EntriesUpto(bm(g), p + 1) = Cardinality(bm(g))
      BY <3>1, CountToNext
    <3>3. Cardinality(bm(g)) \in Int
      BY <3>1, BitmapFinite
    <3> QED
      BY <1>1, <1>9, <2>3, <2>4, <3>2, <3>3
  <2>6. PICK q \in bm(g) : p + 1 <= q /\ \A r \in bm(g) : p + 1 <= r => q <= r
    BY <1>8, <2>2, <2>5
  <2>7. EntriesUpto(bm(g), q) = EntriesUpto(bm(g), p) + 1
    <3>1. p + 1 \in Int /\ bm(g) \in SUBSET Positions
      BY <1>1, <2>2
    <3> QED
      BY <2>4, <2>6, <3>1, CountToNext
  <2>8. PICK m \in Used(t) : Bin(m) = g /\ Pos(m) = q
    BY <1>3
  <2>9. m \in later /\ \A n \in later : m <= n
    <3>1. at < m
      BY <1>1, <1>4, <2>1, <2>2, <2>6, <2>8
    <3>2. ASSUME NEW n \in later
          PROVE  ~(n < m)
      <4>1. n \in Used(t) /\ at < n /\ Bin(n) \in Int /\ g \in Int
        BY <1>1, <1>2
      <4>2. g < Bin(n) \/ (g = Bin(n) /\ p < Pos(n))
        BY <1>4, <2>1, <2>2, <4>1
      <4>3. g = Bin(n) => Pos(n) \in bm(g) /\ Pos(n) \in Int /\ q \in Int
        BY <1>1, <1>2, <4>1
      <4>4. g = Bin(n) => p + 1 <= Pos(n)
        <5>1. g \in Int /\ p \in Int
          BY <1>1, <2>2
        <5> HIDE DEF behind, inside
        <5> QED
          BY <4>1, <4>2, <4>3, <5>1
      <4>5. g = Bin(n) => q <= Pos(n)
        BY <2>6, <4>3, <4>4
      <4>6. ~(Bin(n) < Bin(m) \/ (Bin(n) = Bin(m) /\ Pos(n) < Pos(m)))
        BY <2>8, <4>1, <4>2, <4>3, <4>5
      <4> QED
        BY <1>4, <2>8, <4>1, <4>6
    <3> QED
      BY <1>2, <2>8, <3>1, <3>2
  <2>10. SPARSE_BUCKET(t, m) = [bin |-> g, off |-> EntriesUpto(bm(g), p) + 1 + 1]
    BY <2>7, <2>8 DEF SPARSE_BUCKET, bm
  <2>11. SparseNextBucket(t, it) = [it EXCEPT !.off = @ + 1]
    BY <1>9 DEF SparseNextBucket
  <2>12. [it EXCEPT !.off = @ + 1] = [bin |-> g, off |-> EntriesUpto(bm(g), p) + 1 + 1]
    BY <2>2
  <2> QED
    BY <2>9, <2>10, <2>11, <2>12
<1>10. CASE ~inside
  <2>1. ASSUME NEW n \in later
        PROVE  n \in Used(t) /\ Bin(n) \in behind
    <3>1. n \in Used(t) /\ at < n /\ Bin(n) \in DOMAIN t /\ Bin(n) \in Int
          /\ Pos(n) \in bm(Bin(n))
      BY <1>1, <1>2
    <3>2. CASE at = -1
      BY <1>1, <1>7, <3>1, <3>2
    <3>3. CASE at # -1
      <4>1. PICK g \in DOMAIN t, p \in Int :
              /\ g = Bin(at) /\ p = Pos(at) /\ p \in bm(g) /\ g \in Int
              /\ it = [bin |-> g, off |-> EntriesUpto(bm(g), p) + 1]
        BY <1>1, <1>2, <1>5, <1>6, <3>3
      <4>2. g < Bin(n) \/ (g = Bin(n) /\ p < Pos(n))
        BY <1>4, <1>5, <3>1, <3>3, <4>1
      <4>3. ~(g = Bin(n) /\ p < Pos(n))
        <5> SUFFICES ASSUME g = Bin(n), p < Pos(n)
                     PROVE  FALSE
          OBVIOUS
        <5>1. Pos(n) \in bm(g) /\ bm(g) \in SUBSET Positions /\ Pos(n) \in Int
          BY <1>1, <3>1
        <5>2. /\ EntriesUpto(bm(g), p) < EntriesUpto(bm(g), Pos(n))
              /\ EntriesUpto(bm(g), p) \in Int /\ EntriesUpto(bm(g), Pos(n)) \in Int
          BY <4>1, <5>1, CountGrows, CountIsNumber
        <5>3. EntriesUpto(bm(g), Pos(n)) + 1 \in 1 .. Cardinality(bm(g))
          BY <5>1, OffsetInRange
        <5>4. Cardinality(bm(g)) \in Nat
          BY <5>1, BitmapFinite
        <5>5. EntriesUpto(bm(g), p) + 1 < Cardinality(bm(g))
          BY <5>2, <5>3, <5>4
        <5> QED
          BY <1>1, <1>7, <1>10, <3>3, <4>1, <5>5
      <4> QED
        BY <1>1, <3>1, <4>1, <4>2, <4>3
    <3> QED
      BY <3>2, <3>3
  <2>2. CASE behind = {}
    <3>1. later = {}
      <4> HIDE DEF behind
      <4> QED
        BY <2>1, <2>2
    <3>2. SparseNextBucket(t, it) = Null
      BY <1>10, <2>2 DEF SparseNextBucket
    <3> QED
      BY <3>1, <3>2
  <2>3. CASE behind # {}
    <3>1. PICK h \in behind : \A b \in behind : h <= b
      <4>1. behind \in SUBSET Nat
        BY <1>1
      <4> HIDE DEF behind
      <4> QED
        BY <2>3, <4>1, LeastNat
    <3>2. h \in DOMAIN t /\ h > it.bin /\ bm(h) # {} /\ h \in Int /\ bm(h) \in SUBSET Positions
      BY <1>1, <3>1
    <3>3. \A b \in behind : (\A c \in behind : b <= c) => b = h
      BY <1>1, <3>1
    <3>4. SparseNextBucket(t, it) = [bin |-> h, off |-> 1]
      <4>1. (CHOOSE b \in behind : \A c \in behind : b <= c) = h
        <5> HIDE DEF behind
        <5> QED
          BY <3>1, <3>3
      <4> QED
        BY <1>10, <2>3, <4>1 DEF SparseNextBucket
    <3>5. PICK q \in bm(h) : 0 <= q /\ \A r \in bm(h) : 0 <= r => q <= r
      <4>1. PICK q0 : q0 \in bm(h)
        BY <3>2
      <4>2. 0 <= q0
        BY <3>2, <4>1, BitsAreNumbers
      <4> QED
        BY <1>8, <3>2, <4>1, <4>2
    <3>6. EntriesUpto(bm(h), q) = 0
      <4>1. EntriesUpto(bm(h), q) = EntriesUpto(bm(h), 0)
        <5>1. 0 \in Int
          OBVIOUS
        <5> QED
          BY <3>2, <3>5, <5>1, CountToNext
      <4>2. {p \in bm(h) : p < 0} = {}
        BY <3>2, BitsAreNumbers
      <4> QED
        BY <4>1, <4>2, FS_EmptySet DEF EntriesUpto
    <3>7. PICK m \in Used(t) : Bin(m) = h /\ Pos(m) = q
      BY <1>3, <3>2, <3>5
    <3>8. SPARSE_BUCKET(t, m) = [bin |-> h, off |-> 1]
      BY <3>6, <3>7 DEF SPARSE_BUCKET, bm
    <3>9. at < m
      <4>1. CASE at = -1
        <5>1. m \in Nat
          BY <1>2, <3>7
        <5> QED
          BY <4>1, <5>1
      <4>2. CASE at # -1
        BY <1>4, <1>5, <1>7, <3>2, <3>7, <4>2
      <4> QED
        BY <4>1, <4>2
    <3>10. ASSUME NEW n \in later
           PROVE  m <= n
      <4>1. n \in Used(t) /\ Bin(n) \in behind /\ Bin(n) \in Int
        BY <1>1, <2>1
      <4>2. h <= Bin(n)
        BY <3>1, <4>1
      <4>3. h = Bin(n) => q <= Pos(n) /\ Pos(n) \in Int /\ q \in Int
        <5>1. h = Bin(n) => Pos(n) \in bm(h)
          BY <1>2, <4>1
        <5> QED
          BY <3>2, <3>5, <5>1, BitsAreNumbers
      <4>4. ~(Bin(n) < Bin(m) \/ (Bin(n) = Bin(m) /\ Pos(n) < Pos(m)))
        BY <3>2, <3>7, <4>1, <4>2, <4>3
      <4>5. ~(n < m) /\ n \in Int /\ m \in Int
        BY <1>2, <1>4, <3>7, <4>1, <4>4
      <4> QED
        BY <4>5
    <3> QED
      BY <3>4, <3>7, <3>8, <3>9, <3>10
  <2> QED
    BY <2>2, <2>3
<1> QED
  BY <1>9, <1>10

\* The iterator it is at a bucket in use, or at the end.
IterAt(t, it, at) ==
  \/ at \in Used(t) /\ it = SPARSE_BUCKET(t, at)
  \/ at = SizeOf(t) /\ it = Null

\* The items up to a bucket, and what has been seen there.
Visited(t, at) == {l \in LiveBuckets(t) : l <= at}
Seen(t, at, s) ==
  /\ s \in Seq(Keys)
  /\ ToSet(s) = {KeyAt(t, l) : l \in Visited(t, at)}
  /\ Len(s) = Cardinality(Visited(t, at))

\* Before the first bucket nothing has been seen.
LEMMA SeenNothing ==
  ASSUME NEW t \in Tables
  PROVE  Seen(t, -1, <<>>)
<1>1. Visited(t, -1) = {}
  <2>1. \A l \in LiveBuckets(t) : l \in Nat
    BY Kinds, TableFacts
  <2> QED
    BY <2>1 DEF Visited
<1>2. ToSet(<<>>) = {} /\ Len(<<>>) = 0 /\ <<>> \in Seq(Keys)
  BY DEF ToSet
<1> QED
  BY <1>1, <1>2, FS_EmptySet DEF Seen

\* A sequence with one more member.
LEMMA AppendFacts ==
  ASSUME NEW s \in Seq(Keys), NEW k \in Keys
  PROVE  /\ Append(s, k) \in Seq(Keys) /\ Len(Append(s, k)) = Len(s) + 1
         /\ ToSet(Append(s, k)) = ToSet(s) \cup {k}
<1> DEFINE u == Append(s, k)
<1>1. /\ u \in Seq(Keys) /\ Len(u) = Len(s) + 1 /\ u[Len(s) + 1] = k
      /\ \A i \in 1 .. Len(s) : u[i] = s[i]
  OBVIOUS
<1>2. DOMAIN u = 1 .. (Len(s) + 1) /\ DOMAIN s = 1 .. Len(s) /\ Len(s) \in Nat
  BY <1>1
<1> HIDE DEF u
<1>3. ToSet(u) \subseteq ToSet(s) \cup {k}
  <2>1. ASSUME NEW i \in DOMAIN u
        PROVE  u[i] \in ToSet(s) \cup {k}
    <3>1. i \in 1 .. Len(s) \/ i = Len(s) + 1
      BY <1>2
    <3> QED
      BY <1>1, <1>2, <3>1 DEF ToSet
  <2> QED
    BY <2>1 DEF ToSet
<1>4. ToSet(s) \cup {k} \subseteq ToSet(u)
  <2>1. ASSUME NEW i \in DOMAIN s
        PROVE  s[i] \in ToSet(u)
    <3>1. u[i] = s[i] /\ i \in DOMAIN u
      BY <1>1, <1>2
    <3> QED
      BY <3>1 DEF ToSet
  <2>2. k \in ToSet(u)
    <3>1. Len(s) + 1 \in DOMAIN u
      BY <1>2
    <3> QED
      BY <1>1, <3>1 DEF ToSet
  <2> QED
    BY <2>1, <2>2 DEF ToSet
<1> QED
  BY <1>1, <1>3, <1>4 DEF u

\* A round of the loops of HashFirstBucket and HashNextBucket.
LEMMA VisitNext ==
  ASSUME NEW t \in Tables, NEW at \in Used(t) \cup {-1}, NEW s, Seen(t, at, s),
         NEW next, next = SparseNextBucket(t, PlaceOf(t, at)),
         NEW u, u = IF next = Null \/ Deref(t, next).data = DELETED THEN s
                    ELSE Append(s, Deref(t, next).key)
  PROVE  \E a : IterAt(t, next, a) /\ Seen(t, a, u)
<1> DEFINE later == {m \in Used(t) : at < m}
<1>1. /\ \A l \in LiveBuckets(t) : l \in Used(t) /\ l \in Nat
      /\ \A m \in Used(t) : m \in Buckets(t) /\ m \in Nat /\ ~SparseIsEmpty(t, m)
      /\ at \in Int /\ SizeOf(t) \in Nat /\ IsFiniteSet(LiveBuckets(t))
      /\ Buckets(t) = 0 .. (SizeOf(t) - 1)
  <2>1. \A m \in Used(t) : m \in Buckets(t) /\ m \in Nat /\ ~SparseIsEmpty(t, m)
    BY UsedFacts
  <2>2. \A l \in LiveBuckets(t) : l \in Used(t)
    BY LiveFacts DEF Used
  <2>3. SizeOf(t) \in Nat /\ Buckets(t) = 0 .. (SizeOf(t) - 1)
    BY TableFacts
  <2>4. IsFiniteSet(LiveBuckets(t))
    BY KindsCounted
  <2>5. at \in Int
    BY <2>1
  <2> QED
    BY <2>1, <2>2, <2>3, <2>4, <2>5
<1>2. \/ later = {} /\ next = Null
      \/ \E m \in later : (\A n \in later : m <= n) /\ next = SPARSE_BUCKET(t, m)
  <2>1. PICK L, it : L = later /\ it = PlaceOf(t, at)
    OBVIOUS
  <2>2. \/ L = {} /\ SparseNextBucket(t, it) = Null
        \/ \E m \in L : /\ \A n \in L : m <= n
                       /\ SparseNextBucket(t, it) = SPARSE_BUCKET(t, m)
    BY <2>1, NextBucketFacts
  <2> QED
    BY <2>1, <2>2
<1>3. CASE later = {} /\ next = Null
  <2>1. Visited(t, SizeOf(t)) = Visited(t, at)
    <3>1. \A l \in LiveBuckets(t) : l <= SizeOf(t) /\ l <= at
      BY <1>1, <1>3
    <3> QED
      BY <3>1 DEF Visited
  <2> QED
    BY <1>3, <2>1 DEF IterAt, Seen
<1>4. ASSUME NEW m \in later, \A n \in later : m <= n, next = SPARSE_BUCKET(t, m)
      PROVE  \E a : IterAt(t, next, a) /\ Seen(t, a, u)
  <2>1. /\ m \in Used(t) /\ m \in Buckets(t) /\ ~SparseIsEmpty(t, m) /\ m \in Nat
        /\ at < m
    BY <1>1, <1>4
  <2>2. /\ Deref(t, next) = Item(KeyAt(t, m), DataAt(t, m)) /\ KeyAt(t, m) \in Keys
        /\ next # Null
    BY <1>4, <2>1, ItemFacts, PointerNotNull
  <2>3. Deref(t, next).key = KeyAt(t, m) /\ Deref(t, next).data = DataAt(t, m)
    BY <2>2 DEF Item
  <2>4. m \in LiveBuckets(t) <=> DataAt(t, m) # DELETED
    BY <2>1, Kinds
  <2>5. \A l \in LiveBuckets(t) : l <= m <=> l <= at \/ l = m
    <3> TAKE l \in LiveBuckets(t)
    <3>1. l \in Used(t) /\ l \in Nat
      BY <1>1
    <3>2. at < l => m <= l
      BY <1>4, <3>1
    <3> QED
      BY <1>1, <2>1, <3>1, <3>2
  <2>6. CASE m \notin LiveBuckets(t)
    <3>1. Visited(t, m) = Visited(t, at)
      BY <2>5, <2>6 DEF Visited
    <3>2. u = s
      BY <2>3, <2>4, <2>6
    <3> QED
      BY <1>4, <2>1, <3>1, <3>2 DEF IterAt, Seen
  <2>7. CASE m \in LiveBuckets(t)
    <3>1. Visited(t, m) = Visited(t, at) \cup {m} /\ m \notin Visited(t, at)
      <4>1. \A l \in LiveBuckets(t) : l = m => ~(l <= at)
        BY <1>1, <2>1
      <4> QED
        BY <2>5, <2>7, <4>1 DEF Visited
    <3>2. u = Append(s, KeyAt(t, m))
      BY <2>2, <2>3, <2>4, <2>7
    <3>3. s \in Seq(Keys) /\ ToSet(s) = {KeyAt(t, l) : l \in Visited(t, at)}
          /\ Len(s) = Cardinality(Visited(t, at))
      BY DEF Seen
    <3>4. /\ u \in Seq(Keys) /\ Len(u) = Len(s) + 1
          /\ ToSet(u) = ToSet(s) \cup {KeyAt(t, m)}
      BY <2>2, <3>2, <3>3, AppendFacts
    <3>5. ToSet(u) = {KeyAt(t, l) : l \in Visited(t, m)}
      BY <3>1, <3>3, <3>4
    <3>6. IsFiniteSet(Visited(t, at))
      BY <1>1, FS_Subset DEF Visited
    <3>7. Cardinality(Visited(t, m)) = Cardinality(Visited(t, at)) + 1
      BY <3>1, <3>6, FS_AddElement
    <3>8. Seen(t, m, u)
      BY <3>3, <3>4, <3>5, <3>7 DEF Seen
    <3> QED
      BY <1>4, <2>1, <3>8 DEF IterAt
  <2> QED
    BY <2>6, <2>7
<1> HIDE DEF later
<1> QED
  BY <1>2, <1>3, <1>4

\* An iteration has returned the items up to where it is.
IterInv ==
  iter # BeforeFirst => \E at : IterAt(table, iter, at) /\ Seen(table, at, seen)

\* Every call keeps it.
LEMMA IterInvStep ==
  ASSUME TableInv, IterInv, [Next]_tvars
  PROVE  IterInv'
<1>1. ASSUME table' = table, iter' = iter, seen' = seen
      PROVE  IterInv'
  BY <1>1 DEF IterInv
<1>2. ASSUME iter' = BeforeFirst
      PROVE  IterInv'
  BY <1>2 DEF IterInv
<1>3. ASSUME IterateFrom(iter), iter \notin {Null, BeforeFirst}
      PROVE  IterInv'
  <2>1. table # <<>>
    BY <1>3 DEF TableInv
  <2>2. table \in Tables
    BY <2>1 DEF TableInv, Sound, GoodTable
  <2>3. PICK at : at \in Used(table) /\ iter = SPARSE_BUCKET(table, at)
                  /\ Seen(table, at, seen)
    BY <1>3 DEF IterInv, IterAt
  <2>4. iter = PlaceOf(table, at)
    BY <2>2, <2>3, UsedFacts DEF PlaceOf
  <2>5. PICK next, u :
          /\ next = SparseNextBucket(table, PlaceOf(table, at)) /\ iter' = next
          /\ u = IF next = Null \/ Deref(table, next).data = DELETED THEN seen
                 ELSE Append(seen, Deref(table, next).key)
          /\ seen' = u /\ table' = table
    BY <1>3, <2>4 DEF IterateFrom
  <2>6. \E a : IterAt(table, next, a) /\ Seen(table, a, u)
    BY <2>2, <2>3, <2>5, VisitNext
  <2> QED
    BY <2>5, <2>6 DEF IterInv
<1>4. ASSUME IterateFrom(BeforeFirst), table # <<>>
      PROVE  IterInv'
  <2>1. table \in Tables
    BY <1>4 DEF TableInv, Sound, GoodTable
  <2>2. PICK next, u :
          /\ next = SparseNextBucket(table, PlaceOf(table, -1)) /\ iter' = next
          /\ u = IF next = Null \/ Deref(table, next).data = DELETED THEN <<>>
                 ELSE Append(<<>>, Deref(table, next).key)
          /\ seen' = u /\ table' = table
    BY <1>4 DEF IterateFrom, PlaceOf
  <2>3. Seen(table, -1, <<>>)
    BY <2>1, SeenNothing
  <2>4. \E a : IterAt(table, next, a) /\ Seen(table, a, u)
    BY <2>1, <2>2, <2>3, VisitNext
  <2> QED
    BY <2>2, <2>4 DEF IterInv
<1>5. CASE \E k \in Keys : \E d \in Own[k] : HashInsert(k, d) \/ HashFindOrInsert(k, d)
  BY <1>2, <1>5 DEF HashInsert, HashFindOrInsert, Insert, EndIteration
<1>6. CASE \E k \in Keys : HashFind(k) \/ HashDelete(k) \/ HashDeleteMissing(k)
  BY <1>1, <1>2, <1>6
     DEF HashFind, HashDelete, HashDeleteMissing, Delete, EndIteration, iteration
<1>7. CASE HashFindLast \/ HashDeleteLast
  BY <1>1, <1>2, <1>7 DEF HashFindLast, HashDeleteLast, Delete, EndIteration, iteration
<1>8. CASE \E n \in Goals : HashSetDeltaGoalSize(n)
  BY <1>1, <1>8 DEF HashSetDeltaGoalSize, iteration
<1>9. CASE ClearHashTable \/ FreeHashTable
  BY <1>2, <1>9 DEF ClearHashTable, FreeHashTable, EndIteration
<1>10. CASE AllocateHashTable
  <2>1. iter' = iter
    BY <1>10 DEF AllocateHashTable, iteration
  <2>2. iter = BeforeFirst
    BY <1>10 DEF AllocateHashTable, TableInv
  <2> QED
    BY <1>2, <2>1, <2>2
<1>11. CASE HashFirstBucket \/ HashNextBucket
  BY <1>3, <1>4, <1>11 DEF HashFirstBucket, HashNextBucket
<1>12. CASE UNCHANGED tvars
  BY <1>1, <1>12 DEF tvars, iteration
<1> QED
  BY <1>5, <1>6, <1>7, <1>8, <1>9, <1>10, <1>11, <1>12 DEF Next

\* IterationExact: HashFirstBucket and HashNextBucket return every item once.
THEOREM IterationProved ==
  ASSUME Careless = {}
  PROVE  Spec => []IterationExact
<1>1. Init => IterInv
  BY DEF Init, IterInv
<1>2. TableInv /\ IterInv /\ [Next]_tvars => IterInv'
  BY IterInvStep
<1>3. ASSUME TableInv, IterInv
      PROVE  IterationExact
  <2> SUFFICES ASSUME iter = Null
               PROVE  /\ ToSet(seen) = {KeyAt(table, loc) : loc \in LiveBuckets(table)}
                      /\ Len(seen) = cItems
    BY DEF IterationExact
  <2>1. iter # BeforeFirst
    BY GroupAssumption DEF BeforeFirst
  <2>2. Sound(table, cItems, cDeletedItems) /\ table \in Tables
    BY <1>3, <2>1 DEF TableInv, Sound, GoodTable
  <2>3. PICK at : IterAt(table, iter, at) /\ Seen(table, at, seen)
    BY <1>3, <2>1 DEF IterInv
  <2>4. at = SizeOf(table)
    <3>1. \A m \in Used(table) : SPARSE_BUCKET(table, m) # Null
      BY <2>2, UsedFacts, PointerNotNull
    <3> QED
      BY <2>3, <3>1 DEF IterAt
  <2>5. Visited(table, at) = LiveBuckets(table)
    <3>1. \A l \in LiveBuckets(table) : l <= SizeOf(table)
      BY <2>2, Kinds, TableFacts
    <3> QED
      BY <2>4, <3>1 DEF Visited
  <2> QED
    BY <2>2, <2>3, <2>5 DEF Seen, Sound
<1> QED
  BY <1>1, <1>2, <1>3, TableInvHolds, PTL DEF Spec

-----------------------------------------------------------------------------
(* The table as a map.                                                     *)

\* Every place of a packed array belongs to a bit.
LEMMA OffsetsCover ==
  ASSUME NEW bm \in SUBSET Positions, NEW i \in 1 .. Cardinality(bm)
  PROVE  \E p \in bm : EntriesUpto(bm, p) + 1 = i
<1> DEFINE S == {j \in 0 .. GroupSize : EntriesUpto(bm, j) >= i}
<1>1. GroupSize \in Nat /\ GroupSize > 0 /\ Cardinality(bm) \in Nat /\ i \in Nat
  BY GroupAssumption, BitmapFinite
<1>2. \A j \in Int : EntriesUpto(bm, j) \in Nat
  BY BitmapFinite
<1>3. PICK j \in S : \A h \in S : j <= h
  <2>1. EntriesUpto(bm, GroupSize) = Cardinality(bm)
    <3>1. \A q \in bm : q < GroupSize
      BY BitsAreNumbers
    <3> QED
      BY <1>1, <3>1, CountToNext
  <2>2. GroupSize \in S
    BY <1>1, <2>1
  <2>3. S \in SUBSET Nat
    BY <1>1
  <2> HIDE DEF S
  <2> QED
    BY <2>2, <2>3, LeastNat
<1>4. j \in 0 .. GroupSize /\ EntriesUpto(bm, j) >= i
  OBVIOUS
<1>5. j # 0
  <2>1. {p \in bm : p < 0} = {}
    BY BitsAreNumbers
  <2>2. EntriesUpto(bm, 0) = 0
    BY <2>1, FS_EmptySet DEF EntriesUpto
  <2> QED
    BY <1>4, <2>2
<1>6. PICK p \in Int : p = j - 1 /\ p \in 0 .. GroupSize /\ j = p + 1
  BY <1>1, <1>4, <1>5
<1>7. EntriesUpto(bm, p) < i
  <2>1. p \notin S
    BY <1>1, <1>3, <1>6
  <2> QED
    BY <1>1, <1>2, <1>6, <2>1
<1>8. p \in bm
  <2> SUFFICES ASSUME p \notin bm
               PROVE  FALSE
    OBVIOUS
  <2>1. \A q \in bm : q < j <=> q < p
    BY <1>6, BitsAreNumbers
  <2>2. {q \in bm : q < j} = {q \in bm : q < p}
    BY <2>1
  <2>3. EntriesUpto(bm, j) = EntriesUpto(bm, p)
    BY <2>2 DEF EntriesUpto
  <2>4. EntriesUpto(bm, p) \in Nat
    BY <1>2
  <2> HIDE DEF S
  <2> QED
    BY <1>1, <1>4, <1>7, <2>3, <2>4
<1>9. EntriesUpto(bm, p + 1) = EntriesUpto(bm, p) + 1 /\ EntriesUpto(bm, p) \in Nat
  BY <1>2, <1>8, CountToNext
<1> HIDE DEF S
<1> QED
  BY <1>1, <1>4, <1>6, <1>7, <1>8, <1>9

\* The items of a table are those of its buckets in use.
LEMMA StoredItems ==
  ASSUME NEW t \in Tables, NEW item
  PROVE  item \in UNION {ToSet(t[g].binSparse) : g \in DOMAIN t}
           <=> \E l \in Used(t) : item = ItemAt(t, l)
<1>1. ASSUME NEW l \in Used(t)
      PROVE  ItemAt(t, l) \in UNION {ToSet(t[g].binSparse) : g \in DOMAIN t}
  <2>1. /\ t \in SparseArrays(TableItems) /\ l \in 0 .. (SizeOf(t) - 1)
        /\ ~SparseIsEmpty(t, l) /\ Bin(l) \in DOMAIN t
    BY TableFacts, UsedFacts
  <2>2. EntriesUpto(t[Bin(l)].bmOccupied, Pos(l)) + 1 \in 1 .. Len(t[Bin(l)].binSparse)
    BY <2>1, ItemFound
  <2>3. t[Bin(l)].binSparse \in Seq(TableItems)
    BY <2>1, GroupFacts
  <2>4. ItemAt(t, l) \in ToSet(t[Bin(l)].binSparse)
    BY <2>2, <2>3 DEF ItemAt, ToSet
  <2> QED
    BY <2>1, <2>4
<1>2. ASSUME NEW g \in DOMAIN t, item \in ToSet(t[g].binSparse)
      PROVE  \E l \in Used(t) : item = ItemAt(t, l)
  <2>1. /\ t[g].binSparse \in Seq(TableItems) /\ t[g].bmOccupied \in SUBSET Positions
        /\ Len(t[g].binSparse) = Cardinality(t[g].bmOccupied)
    BY TableFacts, GroupFacts
  <2>2. PICK i \in 1 .. Cardinality(t[g].bmOccupied) : item = t[g].binSparse[i]
    BY <1>2, <2>1 DEF ToSet
  <2>3. PICK p \in t[g].bmOccupied : EntriesUpto(t[g].bmOccupied, p) + 1 = i
    BY <2>1, OffsetsCover
  <2>4. PICK l \in Used(t) : Bin(l) = g /\ Pos(l) = p
    BY UsedFacts
  <2> QED
    BY <2>2, <2>3, <2>4 DEF ItemAt
<1> QED
  BY <1>1, <1>2

\* What Entry makes of a table is what it has.
LEMMA EntryFacts ==
  ASSUME NEW t, GoodTable(t), NEW k \in Keys
  PROVE  /\ \A d : Has(t, k, d) => Entry(t)[k] = d /\ d # None
         /\ (\A d : ~Has(t, k, d)) => Entry(t)[k] = None
<1> DEFINE stored == UNION {ToSet(t[g].binSparse) : g \in DOMAIN t}
           items == {item \in stored : item.key = k /\ item.data # DELETED}
<1>1. Entry(t)[k] = IF items = {} THEN None ELSE (CHOOSE item \in items : TRUE).data
  BY DEF Entry
<1>2. t \in Tables
  BY DEF GoodTable
<1>3. \A item : item \in items <=> \E d : Has(t, k, d) /\ item = Item(k, d)
  <2> TAKE item
  <2>1. item \in stored <=> \E l \in Used(t) : item = ItemAt(t, l)
    BY <1>2, StoredItems
  <2>2. \A l \in Used(t) :
          /\ ItemAt(t, l) = Item(KeyAt(t, l), DataAt(t, l))
          /\ Item(KeyAt(t, l), DataAt(t, l)).key = KeyAt(t, l)
          /\ Item(KeyAt(t, l), DataAt(t, l)).data = DataAt(t, l)
          /\ l \in LiveBuckets(t) <=> DataAt(t, l) # DELETED
    <3> TAKE l \in Used(t)
    <3>1. l \in Buckets(t) /\ ~SparseIsEmpty(t, l)
      BY <1>2, UsedFacts
    <3>2. ItemAt(t, l) = Item(KeyAt(t, l), DataAt(t, l))
      BY <1>2, <3>1, ItemFacts
    <3> QED
      BY <1>2, <3>1, <3>2, Kinds DEF Item
  <2>3. LiveBuckets(t) \subseteq Used(t)
    BY <1>2, LiveFacts DEF Used
  <2> HIDE DEF stored
  <2>4. ASSUME item \in items
        PROVE  \E d : Has(t, k, d) /\ item = Item(k, d)
    <3>1. PICK l \in Used(t) : item = ItemAt(t, l)
      BY <2>1, <2>4
    <3>2. KeyAt(t, l) = k /\ DataAt(t, l) # DELETED
      BY <2>2, <2>4, <3>1
    <3>3. l \in LiveBuckets(t) /\ item = Item(k, DataAt(t, l))
      BY <2>2, <3>1, <3>2
    <3> QED
      BY <3>1, <3>3 DEF Has
  <2>5. ASSUME NEW d, Has(t, k, d), item = Item(k, d)
        PROVE  item \in items
    <3>1. PICK l \in LiveBuckets(t) : ItemAt(t, l) = Item(k, d)
      BY <2>5 DEF Has
    <3>2. KeyAt(t, l) = k /\ DataAt(t, l) = d
      BY <2>2, <2>3, <3>1, SameItem
    <3> QED
      BY <2>1, <2>2, <2>3, <2>5, <3>1, <3>2
  <2> QED
    BY <2>4, <2>5
<1> HIDE DEF stored, items
<1>4. ASSUME NEW d, Has(t, k, d)
      PROVE  Entry(t)[k] = d /\ d # None
  <2>1. \A e : Has(t, k, e) => e = d
    BY <1>4, HasFacts
  <2>2. items = {Item(k, d)}
    BY <1>3, <1>4, <2>1
  <2>3. (CHOOSE item \in items : TRUE) = Item(k, d)
    BY <2>2
  <2>4. d \in Data
    BY <1>4, HasFacts
  <2> QED
    BY <1>1, <2>2, <2>3, <2>4, TableAssumption DEF Item
<1>5. ASSUME \A d : ~Has(t, k, d)
      PROVE  Entry(t)[k] = None
  <2>1. items = {}
    BY <1>3, <1>5
  <2> QED
    BY <1>1, <2>1
<1> QED
  BY <1>4, <1>5

\* Tables that have nothing.
LEMMA EntryNothing ==
  ASSUME NEW t, t = <<>> \/ (GoodTable(t) /\ LiveBuckets(t) = {})
  PROVE  Entry(t) = [k \in Keys |-> None]
<1>1. CASE t = <<>>
  <2>1. UNION {ToSet(t[g].binSparse) : g \in DOMAIN t} = {}
    BY <1>1
  <2> QED
    BY <2>1 DEF Entry
<1>2. CASE GoodTable(t) /\ LiveBuckets(t) = {}
  <2>1. \A k \in Keys : Entry(t)[k] = None
    BY <1>2, EntryFacts DEF Has
  <2> QED
    BY <2>1 DEF Entry
<1> QED
  BY <1>1, <1>2

\* A table that has one key otherwise.
LEMMA EntryChanged ==
  ASSUME NEW t, GoodTable(t), NEW u, GoodTable(u), NEW k \in Keys, NEW v,
         \A j \in Keys : j # k => \A e : Has(u, j, e) <=> Has(t, j, e),
         Entry(u)[k] = v
  PROVE  Entry(u) = [Entry(t) EXCEPT ![k] = v]
<1>1. ASSUME NEW j \in Keys, j # k
      PROVE  Entry(u)[j] = Entry(t)[j]
  <2>1. \A e : Has(u, j, e) <=> Has(t, j, e)
    BY <1>1
  <2>2. CASE \E d : Has(t, j, d)
    <3>1. PICK d : Has(t, j, d)
      BY <2>2
    <3> QED
      BY <2>1, <3>1, EntryFacts
  <2>3. CASE \A d : ~Has(t, j, d)
    BY <2>1, <2>3, EntryFacts
  <2> QED
    BY <2>2, <2>3
<1>2. PICK e, f : e = Entry(t) /\ f = Entry(u)
  OBVIOUS
<1>3. e = [j \in Keys |-> e[j]] /\ f = [j \in Keys |-> f[j]]
  BY <1>2 DEF Entry
<1> QED
  BY <1>1, <1>2, <1>3

\* The answer of a pointer to an item.
LEMMA AnswerFacts ==
  ASSUME NEW t, GoodTable(t), NEW l \in LiveBuckets(t), NEW k, NEW d,
         ItemAt(t, l) = Item(k, d)
  PROVE  Answer(t, SPARSE_BUCKET(t, l)) = d
<1>1. t \in Tables
  BY DEF GoodTable
<1>2. /\ Deref(t, SPARSE_BUCKET(t, l)) = Item(k, d)
      /\ SPARSE_BUCKET(t, l) # Null
  BY <1>1, LiveFacts
<1> QED
  BY <1>2 DEF Answer, Item

\* The first table is an empty map.
LEMMA MapInit ==
  ASSUME Init
  PROVE  Map!Init
<1>1. GoodTable(table) /\ LiveBuckets(table) = {}
  <2>1. table = SparseAllocate(MinSize)
    BY DEF Init
  <2> QED
    BY <2>1, NewTable DEF Sound
<1>2. Entry(table) = [k \in Keys |-> None]
  BY <1>1, EntryNothing
<1>3. call = Call("allocate", None) /\ Answer(table, ret) = None
  BY DEF Init, Answer
<1> QED
  BY <1>2, <1>3 DEF Map!Init, Map!Empty, Map!Call, Call

\* Insert, for a key that is there: the item it returns, and what is had then.
LEMMA FoundFacts ==
  ASSUME Sound(table, cItems, cDeletedItems), cDeltaGoalSize \in Int,
         NEW k \in Keys, NEW d \in Data, NEW overwrite \in BOOLEAN,
         NEW item, item = Find(table, k), item # Null, InsertFound(item, d, overwrite)
  PROVE  /\ Sound(table', cItems', cDeletedItems')
         /\ \E l \in LiveBuckets(table'), e \in Data :
              /\ ret' = SPARSE_BUCKET(table', l)
              /\ ItemAt(table', l) = Item(k, e)
              /\ overwrite => e = d
              /\ ~overwrite => Has(table, k, e)
         /\ \A j \in Keys : \A e :
              (j # k \/ ~overwrite) => (Has(table', j, e) <=> Has(table, j, e))
<1>1. /\ Sound(table', cItems', cDeletedItems')
      /\ \E l \in LiveBuckets(table') :
           /\ ret' = SPARSE_BUCKET(table', l)
           /\ \E e : /\ ItemAt(table', l) = Item(k, e)
                     /\ IF overwrite THEN e = d ELSE Has(table, k, e)
      /\ \A j \in Keys : \A e :
           Has(table', j, e) <=> IF j = k /\ overwrite THEN e = d ELSE Has(table, j, e)
  BY InsertFoundFacts
<1>2. PICK u, r : u = table' /\ r = ret'
  OBVIOUS
<1>3. PICK l \in LiveBuckets(u) :
        /\ r = SPARSE_BUCKET(u, l)
        /\ \E e : /\ ItemAt(u, l) = Item(k, e)
                  /\ IF overwrite THEN e = d ELSE Has(table, k, e)
  BY <1>1, <1>2
<1>4. \E e \in Data : /\ ItemAt(u, l) = Item(k, e)
                      /\ overwrite => e = d
                      /\ ~overwrite => Has(table, k, e)
  <2>1. PICK e : /\ ItemAt(u, l) = Item(k, e)
                 /\ IF overwrite THEN e = d ELSE Has(table, k, e)
    BY <1>3
  <2>2. DataAt(u, l) \in Data /\ ItemAt(u, l) = Item(KeyAt(u, l), DataAt(u, l))
    BY <1>1, <1>2, <1>3, LiveFacts DEF Sound, GoodTable
  <2>3. e \in Data
    BY <2>1, <2>2 DEF Item
  <2> QED
    BY <2>1, <2>3
<1>5. \A j \in Keys : \A f :
        (j # k \/ ~overwrite) => (Has(table', j, f) <=> Has(table, j, f))
  BY <1>1
<1> QED
  BY <1>1, <1>2, <1>3, <1>4, <1>5

\* HashInsert.
LEMMA MapInsert ==
  ASSUME Careless = {}, TableInv, NEW k \in Keys, NEW d \in Own[k], HashInsert(k, d)
  PROVE  Map!HashInsert(k)
<1>1. /\ Sound(table, cItems, cDeletedItems) /\ cDeltaGoalSize \in Int /\ GoodTable(table)
  BY DEF TableInv, HashInsert, Insert, Sound
<1>2. /\ d \in Data /\ call' = Call("insert", k)
      /\ LET item == Find(table, k)
         IN \/ item # Null /\ InsertFound(item, d, TRUE)
            \/ item = Null /\ InsertNew(k, d, TRUE)
  BY TableAssumption DEF HashInsert, Insert
<1>3. /\ Sound(table', cItems', cDeletedItems')
      /\ \E l \in LiveBuckets(table') :
           ret' = SPARSE_BUCKET(table', l) /\ ItemAt(table', l) = Item(k, d)
      /\ \A j \in Keys : \A e : j # k => (Has(table', j, e) <=> Has(table, j, e))
  <2>1. CASE Find(table, k) = Null /\ InsertNew(k, d, TRUE)
    BY <1>1, <1>2, <2>1, InsertNewFacts
  <2>2. CASE Find(table, k) # Null /\ InsertFound(Find(table, k), d, TRUE)
    <3>1. PICK overwrite \in BOOLEAN : overwrite = TRUE
      OBVIOUS
    <3>2. PICK item : /\ item = Find(table, k) /\ item # Null
                      /\ InsertFound(item, d, overwrite)
      BY <2>2, <3>1
    <3>3. /\ Sound(table', cItems', cDeletedItems')
          /\ \E l \in LiveBuckets(table'), e \in Data :
               /\ ret' = SPARSE_BUCKET(table', l) /\ ItemAt(table', l) = Item(k, e)
               /\ overwrite => e = d
          /\ \A j \in Keys : \A e :
               (j # k \/ ~overwrite) => (Has(table', j, e) <=> Has(table, j, e))
      BY <1>1, <1>2, <3>2, FoundFacts
    <3> QED
      BY <3>1, <3>3
  <2> QED
    BY <1>2, <2>1, <2>2
<1>4. PICK u, r : u = table' /\ r = ret'
  OBVIOUS
<1>5. GoodTable(u) /\ Answer(u, r) = d
  BY <1>3, <1>4, AnswerFacts DEF Sound
<1>6. Entry(u) = [Entry(table) EXCEPT ![k] = d]
  <2>1. /\ \A j \in Keys : j # k => \A e : Has(u, j, e) <=> Has(table, j, e)
        /\ Has(u, k, d)
    <3>1. PICK l \in LiveBuckets(u) : ItemAt(u, l) = Item(k, d)
      BY <1>3, <1>4
    <3> QED
      BY <1>3, <1>4, <3>1 DEF Has
  <2>2. Entry(u)[k] = d
    BY <1>5, <2>1, EntryFacts
  <2> QED
    BY <1>1, <1>5, <2>1, <2>2, EntryChanged
<1>7. Answer(table', ret') = d /\ Entry(table') = [Entry(table) EXCEPT ![k] = d]
  BY <1>4, <1>5, <1>6
<1> QED
  BY <1>2, <1>7 DEF Map!HashInsert, Map!Call, Call

\* HashFindOrInsert.
LEMMA MapFindOrInsert ==
  ASSUME Careless = {}, TableInv, NEW k \in Keys, NEW d \in Own[k], HashFindOrInsert(k, d)
  PROVE  Map!HashFindOrInsert(k)
<1>1. /\ Sound(table, cItems, cDeletedItems) /\ cDeltaGoalSize \in Int /\ GoodTable(table)
  BY DEF TableInv, HashFindOrInsert, Insert, Sound
<1>2. /\ d \in Data /\ call' = Call("find_or_insert", k)
      /\ LET item == Find(table, k)
         IN \/ item # Null /\ InsertFound(item, d, FALSE)
            \/ item = Null /\ InsertNew(k, d, FALSE)
  BY TableAssumption DEF HashFindOrInsert, Insert
<1>3. \E v : /\ v \in IF Entry(table)[k] = None THEN Own[k] ELSE {Entry(table)[k]}
             /\ Answer(table', ret') = v
             /\ Entry(table') = [Entry(table) EXCEPT ![k] = v]
  <2>1. CASE Find(table, k) = Null /\ InsertNew(k, d, FALSE)
    <3>1. /\ Sound(table', cItems', cDeletedItems')
          /\ \E l \in LiveBuckets(table') :
               ret' = SPARSE_BUCKET(table', l) /\ ItemAt(table', l) = Item(k, d)
          /\ \A e : ~Has(table, k, e)
          /\ \A j \in Keys : \A e :
               Has(table', j, e) <=> IF j = k THEN e = d ELSE Has(table, j, e)
      BY <1>1, <1>2, <2>1, InsertNewFacts
    <3>2. PICK u, r : u = table' /\ r = ret'
      OBVIOUS
    <3>3. GoodTable(u) /\ Answer(u, r) = d
      BY <3>1, <3>2, AnswerFacts DEF Sound
    <3>4. Entry(table)[k] = None
      BY <1>1, <3>1, EntryFacts
    <3>5. /\ \A j \in Keys : j # k => \A e : Has(u, j, e) <=> Has(table, j, e)
          /\ Has(u, k, d)
      BY <3>1, <3>2
    <3>6. Entry(u)[k] = d
      BY <3>3, <3>5, EntryFacts
    <3>7. Entry(u) = [Entry(table) EXCEPT ![k] = d]
      BY <1>1, <3>3, <3>5, <3>6, EntryChanged
    <3> QED
      BY <3>2, <3>3, <3>4, <3>7
  <2>2. CASE Find(table, k) # Null /\ InsertFound(Find(table, k), d, FALSE)
    <3>1. /\ Sound(table', cItems', cDeletedItems')
          /\ \E l \in LiveBuckets(table') :
               /\ ret' = SPARSE_BUCKET(table', l)
               /\ \E e : ItemAt(table', l) = Item(k, e) /\ Has(table, k, e)
          /\ \A j \in Keys : \A e : Has(table', j, e) <=> Has(table, j, e)
      <4>1. PICK overwrite \in BOOLEAN : overwrite = FALSE
        OBVIOUS
      <4>2. PICK item : /\ item = Find(table, k) /\ item # Null
                        /\ InsertFound(item, d, overwrite)
        BY <2>2, <4>1
      <4> QED
        BY <1>1, <1>2, <4>1, <4>2, FoundFacts
    <3>2. PICK u, r : u = table' /\ r = ret'
      OBVIOUS
    <3>3. PICK e : Answer(u, r) = e /\ Has(table, k, e) /\ Has(u, k, e) /\ GoodTable(u)
      BY <3>1, <3>2, AnswerFacts DEF Sound
    <3>4. Entry(table)[k] = e /\ Entry(table)[k] # None /\ Entry(u)[k] = e
      BY <1>1, <3>3, EntryFacts
    <3>5. \A j \in Keys : j # k => \A f : Has(u, j, f) <=> Has(table, j, f)
      BY <3>1, <3>2
    <3>6. Entry(u) = [Entry(table) EXCEPT ![k] = e]
      BY <1>1, <3>3, <3>4, <3>5, EntryChanged
    <3> QED
      BY <3>2, <3>3, <3>4, <3>6
  <2> QED
    BY <1>2, <2>1, <2>2
<1> QED
  BY <1>2, <1>3 DEF Map!HashFindOrInsert, Map!Call, Call

\* Where the search for a key ends.
LEMMA SearchAnswer ==
  ASSUME TableInv, table # <<>>, NEW k \in Keys
  PROVE  /\ Answer(table, Find(table, k)) = Entry(table)[k]
         /\ Find(table, k) # Null =>
              \E l \in LiveBuckets(table) : /\ Find(table, k) = SPARSE_BUCKET(table, l)
                                            /\ KeyAt(table, l) = k
<1>1. GoodTable(table) /\ EmptyBuckets(table) # {} /\ table \in Tables
  BY SoundFacts DEF TableInv
<1>2. CASE Find(table, k) = Null
  <2>1. \A d : ~Has(table, k, d)
    BY <1>1, <1>2, FindHas
  <2> QED
    BY <1>1, <1>2, <2>1, EntryFacts DEF Answer
<1>3. CASE Find(table, k) # Null
  <2>1. PICK l \in LiveBuckets(table) :
          Find(table, k) = SPARSE_BUCKET(table, l) /\ KeyAt(table, l) = k
    BY <1>1, <1>3, FindHas
  <2>2. ItemAt(table, l) = Item(k, DataAt(table, l)) /\ Has(table, k, DataAt(table, l))
    BY <1>1, <2>1, LiveFacts DEF Has
  <2>3. Entry(table)[k] = DataAt(table, l)
    BY <1>1, <2>2, EntryFacts
  <2>4. Answer(table, SPARSE_BUCKET(table, l)) = DataAt(table, l)
    BY <1>1, <2>2, AnswerFacts
  <2> QED
    BY <2>1, <2>3, <2>4
<1> QED
  BY <1>2, <1>3

\* HashDelete and HashDeleteLast.
LEMMA MapDelete ==
  ASSUME Careless = {}, TableInv, NEW l \in LiveBuckets(table),
         Delete(SPARSE_BUCKET(table, l))
  PROVE  \E k \in Keys : Map!HashDelete(k)
<1>1. table # <<>>
  BY NoTable
<1>2. /\ Sound(table, cItems, cDeletedItems) /\ cDeltaGoalSize \in Int /\ GoodTable(table)
  BY <1>1 DEF TableInv, Sound
<1>3. PICK k : k = KeyAt(table, l) /\ k \in Keys
  BY <1>2, LiveFacts DEF GoodTable
<1>4. /\ Sound(table', cItems', cDeletedItems')
      /\ \A j \in Keys : \A e : Has(table', j, e) <=> j # k /\ Has(table, j, e)
      /\ call' = Call("delete", k) /\ ret' = Null
  BY <1>2, <1>3, DeleteFacts
<1>5. PICK u : u = table'
  OBVIOUS
<1>6. /\ GoodTable(u) /\ \A e : ~Has(u, k, e)
      /\ \A j \in Keys : j # k => \A e : Has(u, j, e) <=> Has(table, j, e)
  BY <1>3, <1>4, <1>5 DEF Sound
<1>7. Entry(u)[k] = None
  BY <1>3, <1>6, EntryFacts
<1>8. Entry(u) = [Entry(table) EXCEPT ![k] = None]
  BY <1>2, <1>3, <1>6, <1>7, EntryChanged
<1>9. Answer(table', ret') = None
  BY <1>4 DEF Answer
<1> QED
  BY <1>3, <1>4, <1>5, <1>8, <1>9 DEF Map!HashDelete, Map!Call, Call

\* Every call is a step of the map or changes nothing there.
LEMMA MapStep ==
  ASSUME Careless = {}, TableInv, [Next]_tvars
  PROVE  [Map!Next]_Map!kvars
<1> USE DEF counts, iteration, history
<1>1. ASSUME table' = table, call' = call, ret' = ret
      PROVE  UNCHANGED Map!kvars
  BY <1>1 DEF Map!kvars
<1>2. ASSUME NEW k \in Keys, NEW d \in Own[k], HashInsert(k, d) \/ HashFindOrInsert(k, d)
      PROVE  Map!Next
  BY <1>2, MapInsert, MapFindOrInsert DEF Map!Next
<1>3. ASSUME NEW k \in Keys, HashFind(k)
      PROVE  Map!Next
  <2>1. Answer(table', ret') = Entry(table)[k] /\ Entry(table') = Entry(table)
    BY <1>3, SearchAnswer DEF HashFind
  <2>2. Map!HashFind(k)
    BY <1>3, <2>1 DEF HashFind, Map!HashFind, Map!Call, Call
  <2> QED
    BY <2>2 DEF Map!Next
<1>4. ASSUME NEW k \in Keys, HashDelete(k)
      PROVE  Map!Next
  <2>1. PICK l \in LiveBuckets(table) : Find(table, k) = SPARSE_BUCKET(table, l)
    BY <1>4, SearchAnswer DEF HashDelete
  <2>2. \E j \in Keys : Map!HashDelete(j)
    BY <1>4, <2>1, MapDelete DEF HashDelete
  <2> QED
    BY <2>2 DEF Map!Next
<1>5. ASSUME NEW k \in Keys, HashDeleteMissing(k)
      PROVE  Map!Next
  <2>1. Entry(table)[k] = None
    BY <1>5, SearchAnswer DEF HashDeleteMissing, Answer
  <2>2. Entry(table') = [Entry(table) EXCEPT ![k] = None]
    <3>1. PICK e : e = Entry(table)
      OBVIOUS
    <3>2. e = [j \in Keys |-> e[j]]
      BY <3>1 DEF Entry
    <3>3. e = [e EXCEPT ![k] = None]
      BY <2>1, <3>1, <3>2
    <3> QED
      BY <1>5, <3>1, <3>3 DEF HashDeleteMissing
  <2>3. Answer(table', ret') = None
    BY <1>5 DEF HashDeleteMissing, Answer
  <2>4. Map!HashDelete(k)
    BY <1>5, <2>2, <2>3 DEF HashDeleteMissing, Map!HashDelete, Map!Call, Call
  <2> QED
    BY <2>4 DEF Map!Next
<1>6. ASSUME HashFindLast
      PROVE  Map!Next
  <2>1. table' = table /\ call' = Call("find_last", None)
        /\ ret' = posLastFind /\ posLastFind # Unset
    BY <1>6 DEF HashFindLast
  <2>2. ret' = IF call.op \in {"find", "find_last"} THEN ret ELSE Null
    BY <2>1 DEF TableInv
  <2>3. Answer(table', ret') =
          IF call.op \in {"find", "find_last"} THEN Answer(table, ret) ELSE None
    BY <2>1, <2>2 DEF Answer
  <2>4. Map!HashFindLast
    BY <2>1, <2>3 DEF Map!HashFindLast, Map!Call, Call
  <2> QED
    BY <2>4 DEF Map!Next
<1>7. ASSUME HashDeleteLast
      PROVE  Map!Next
  <2>1. PICK l \in LiveBuckets(table) : posLastFind = SPARSE_BUCKET(table, l)
    BY <1>7 DEF HashDeleteLast, TableInv, Returned
  <2>2. \E j \in Keys : Map!HashDelete(j)
    BY <1>7, <2>1, MapDelete DEF HashDeleteLast
  <2> QED
    BY <2>2 DEF Map!Next
<1>8. ASSUME ClearHashTable \/ FreeHashTable \/ AllocateHashTable
      PROVE  Map!Next
  <2>1. \/ table' = SparseAllocate(MinSize) \/ table' = <<>>
    BY <1>8 DEF ClearHashTable, FreeHashTable, AllocateHashTable
  <2>2. PICK u : u = table'
    OBVIOUS
  <2>3. u = <<>> \/ (GoodTable(u) /\ LiveBuckets(u) = {})
    BY <2>1, <2>2, NewTable DEF Sound
  <2>4. Entry(table') = [k \in Keys |-> None]
    BY <2>2, <2>3, EntryNothing
  <2>5. ret' = Null
    <3>1. CASE ClearHashTable \/ FreeHashTable
      BY <3>1 DEF ClearHashTable, FreeHashTable
    <3>2. CASE AllocateHashTable
      <4>1. table = <<>> /\ ret' = ret
        BY <3>2 DEF AllocateHashTable, TableInv
      <4> QED
        BY <4>1, NoTable DEF TableInv, Returned
    <3> QED
      BY <1>8, <3>1, <3>2
  <2>6. Answer(table', ret') = None
    BY <2>5 DEF Answer
  <2>7. call' \in {Call(op, None) : op \in {"clear", "free", "allocate"}}
    BY <1>8 DEF ClearHashTable, FreeHashTable, AllocateHashTable
  <2>8. Map!ClearHashTable
    BY <2>4, <2>6, <2>7 DEF Map!ClearHashTable, Map!Empty, Map!Call, Call
  <2> QED
    BY <2>8 DEF Map!Next
<1>9. ASSUME \/ \E n \in Goals : HashSetDeltaGoalSize(n)
             \/ HashFirstBucket \/ HashNextBucket
      PROVE  UNCHANGED Map!kvars
  BY <1>1, <1>9 DEF HashSetDeltaGoalSize, HashFirstBucket, HashNextBucket, IterateFrom
<1>10. CASE UNCHANGED tvars
  BY <1>1, <1>10 DEF tvars
<1> QED
  BY <1>2, <1>3, <1>4, <1>5, <1>6, <1>7, <1>8, <1>9, <1>10 DEF Next

\* ImplementsMap: the table implements the map of libchash.h.
THEOREM MapImplemented ==
  ASSUME Careless = {}
  PROVE  Spec => ImplementsMap
<1>1. Init => Map!Init
  BY MapInit
<1>2. TableInv /\ [Next]_tvars => [Map!Next]_Map!kvars
  BY MapStep
<1> QED
  BY <1>1, <1>2, TableInvHolds, PTL DEF Spec, ImplementsMap, Map!Spec

-----------------------------------------------------------------------------
(* Sparse arrays and dense ones.                                           *)

\* Whole groups are as many as they were (SPARSE_GROUPS, libchash.c:187).
LEMMA GroupsOf ==
  ASSUME NEW len \in Nat
  PROVE  SPARSE_GROUPS(GroupSize * len) = len
<1>1. GroupSize \in Nat /\ GroupSize > 0
  BY GroupAssumption
<1> DEFINE n == GroupSize * len + GroupSize - 1
           q == n \div GroupSize
           r == n % GroupSize
<1>2. n \in Int
  BY <1>1, Z3
<1>3. q \in Int /\ r \in 0 .. (GroupSize - 1) /\ n = GroupSize * q + r
  <2> HIDE DEF n
  <2> QED
    BY <1>1, <1>2, Z3
<1>4. n = GroupSize * len + GroupSize - 1
  OBVIOUS
<1> HIDE DEF n, q, r
<1>5. GroupSize * (len - q) = r - (GroupSize - 1)
  BY <1>1, <1>3, <1>4, Z3
<1>6. ~(len - q >= 1) /\ ~(len - q <= -1)
  BY <1>1, <1>3, <1>5, Z3
<1>7. q = len
  BY <1>3, <1>6
<1> QED
  BY <1>7 DEF SPARSE_GROUPS, q, n

\* The bucket that DenseWrite looks at for a bit is the one SparseWrite means.
LEMMA AddressIs ==
  ASSUME NEW len \in Nat, NEW g \in 1 .. len, NEW p \in Positions
  PROVE  LET loc == (g - 1) * GroupSize + p
         IN loc \in 0 .. (GroupSize * len - 1) /\ Bin(loc) = g /\ Pos(loc) = p
<1>1. PICK loc \in 0 .. (GroupSize * len - 1) : Bin(loc) = g /\ Pos(loc) = p
  BY AddressExists
<1>2. loc = GroupSize * (g - 1) + p
  BY <1>1, Addresses
<1>3. GroupSize * (g - 1) = (g - 1) * GroupSize
  BY GroupAssumption, Z3
<1>4. loc = (g - 1) * GroupSize + p
  BY <1>2, <1>3
<1> QED
  BY <1>1, <1>4

\* The dense array has an item where the bit of the bucket is set.
LEMMA DenseFacts ==
  ASSUME NEW Items, EMPTY \notin Items, NEW bins \in SparseArrays(Items)
  PROVE  /\ DOMAIN Dense(bins) = 0 .. (SizeOf(bins) - 1)
         /\ \A loc \in 0 .. (SizeOf(bins) - 1) :
              Dense(bins)[loc] # EMPTY <=> ~SparseIsEmpty(bins, loc)
<1>1. DOMAIN Dense(bins) = 0 .. (SizeOf(bins) - 1)
  BY DEF Dense
<1>2. ASSUME NEW loc \in 0 .. (SizeOf(bins) - 1)
      PROVE  Dense(bins)[loc] # EMPTY <=> ~SparseIsEmpty(bins, loc)
  <2>1. Dense(bins)[loc] = IF SparseIsEmpty(bins, loc) THEN EMPTY
                           ELSE Deref(bins, SPARSE_BUCKET(bins, loc))
    BY DEF Dense
  <2>2. ~SparseIsEmpty(bins, loc) => Deref(bins, SPARSE_BUCKET(bins, loc)) \in Items
    BY ItemFound
  <2> QED
    BY <2>1, <2>2
<1> QED
  BY <1>1, <1>2

\* Files: the words a dense array writes are the bitmaps of the sparse one, where
\* a bitmap is a word.
LEMMA SameFile ==
  ASSUME NEW Items, EMPTY \notin Items, NEW bins \in SparseArrays(Items),
         WordBits = GroupSize
  PROVE  DenseWrite(Dense(bins)) = SparseWrite(bins)
<1> DEFINE dense == Dense(bins)
           bits(g) == {p \in Positions : LET loc == (g - 1) * GroupSize + p
                                         IN loc \in DOMAIN dense /\ dense[loc] # EMPTY}
<1>1. Len(bins) \in Nat /\ DOMAIN bins = 1 .. Len(bins)
  BY DEF SparseArrays
<1>2. DOMAIN dense = 0 .. (GroupSize * Len(bins) - 1)
  BY DenseFacts DEF SizeOf
<1>3. Cardinality(DOMAIN dense) = GroupSize * Len(bins)
  <2>1. PICK n \in Nat : n = GroupSize * Len(bins)
    BY <1>1, GroupAssumption, Z3
  <2>2. Cardinality(0 .. (n - 1)) = n
    BY <2>1, FS_Interval
  <2> QED
    BY <1>2, <2>1, <2>2
<1>4. SPARSE_GROUPS(Cardinality(DOMAIN dense)) = Len(bins)
  BY <1>1, <1>3, GroupsOf
<1>5. ASSUME NEW g \in 1 .. Len(bins)
      PROVE  bits(g) = bins[g].bmOccupied
  <2>1. bins[g].bmOccupied \in SUBSET Positions
    BY <1>1, GroupFacts
  <2>2. ASSUME NEW p \in Positions
        PROVE  p \in bits(g) <=> p \in bins[g].bmOccupied
    <3>1. PICK loc : loc = (g - 1) * GroupSize + p
      OBVIOUS
    <3>2. loc \in 0 .. (GroupSize * Len(bins) - 1) /\ Bin(loc) = g /\ Pos(loc) = p
      BY <1>1, <3>1, AddressIs
    <3>3. loc \in 0 .. (SizeOf(bins) - 1)
      BY <3>2 DEF SizeOf
    <3>4. dense[loc] # EMPTY <=> ~SparseIsEmpty(bins, loc)
      BY <3>3, DenseFacts
    <3>5. ~SparseIsEmpty(bins, loc) <=> p \in bins[g].bmOccupied
      BY <3>2 DEF SparseIsEmpty
    <3>6. p \in bits(g) <=> loc \in DOMAIN dense /\ dense[loc] # EMPTY
      BY <3>1
    <3> HIDE DEF dense, bits
    <3> QED
      BY <1>2, <3>2, <3>4, <3>5, <3>6
  <2>3. bits(g) \in SUBSET Positions
    OBVIOUS
  <2> HIDE DEF bits
  <2> QED
    BY <2>1, <2>2, <2>3
<1>6. DenseWrite(dense) = [g \in 1 .. Len(bins) |-> bits(g)]
  <2>1. DenseWrite(dense) =
          [w \in 1 .. SPARSE_GROUPS(Cardinality(DOMAIN dense)) |->
            {p \in Positions : LET loc == (w - 1) * GroupSize + p
                               IN loc \in DOMAIN dense /\ dense[loc] # EMPTY}]
    <3> HIDE DEF dense, bits
    <3> QED
      BY DEF DenseWrite, SPARSE_GROUPS, Positions
  <2> QED
    BY <1>4, <2>1
<1> HIDE DEF dense, bits
<1>7. DenseWrite(dense) = [g \in 1 .. Len(bins) |-> bins[g].bmOccupied]
  BY <1>5, <1>6
<1> QED
  BY <1>1, <1>7 DEF SparseWrite, dense

\* And reading them makes the same buckets occupied.
LEMMA SameRead ==
  ASSUME NEW Items, EMPTY \notin Items, NEW bins \in SparseArrays(Items),
         WordBits = GroupSize
  PROVE  DenseRead(SizeOf(bins), SparseWrite(bins)) =
           {loc \in 0 .. (SizeOf(bins) - 1) : ~SparseIsEmpty(bins, loc)}
<1>1. bins \in Seq(Group(Items)) /\ Len(bins) \in Nat /\ DOMAIN bins = 1 .. Len(bins)
  BY DEF SparseArrays
<1>2. PICK f : f = [g \in 1 .. Len(bins) |-> bins[g].bmOccupied]
  OBVIOUS
<1>3. SparseWrite(bins) = f
  BY <1>1, <1>2 DEF SparseWrite
<1>4. \A g \in DOMAIN bins : f[g] = bins[g].bmOccupied
  BY <1>1, <1>2
<1>5. \A loc \in 0 .. (SizeOf(bins) - 1) :
        Pos(loc) \in f[Bin(loc)] <=> ~SparseIsEmpty(bins, loc)
  BY <1>4, BucketFacts DEF SparseIsEmpty
<1>6. DenseRead(SizeOf(bins), f) =
        {loc \in 0 .. (SizeOf(bins) - 1) : Pos(loc) \in f[Bin(loc)]}
  BY DEF DenseRead, Pos, Bin
<1> QED
  BY <1>3, <1>5, <1>6

\* Iterators: the next bucket of the dense array is where the sparse one goes.
LEMMA SameNext ==
  ASSUME NEW t \in Tables, NEW at \in Used(t) \cup {-1}, EMPTY \notin TableItems
  PROVE  {SparseNextBucket(t, PlaceOf(t, at))} \ {Null} =
           {PlaceOf(t, next) : next \in DenseNextBucket(Dense(t), at)}
<1> DEFINE dense == Dense(t)
           later == {m \in Used(t) : at < m}
<1>1. /\ \A m \in Used(t) : m \in Buckets(t) /\ m \in Nat /\ ~SparseIsEmpty(t, m)
      /\ t \in SparseArrays(TableItems) /\ Buckets(t) = 0 .. (SizeOf(t) - 1)
      /\ SizeOf(t) \in Nat
  BY UsedFacts, TableFacts
<1>2. at \in Int /\ at >= -1
  BY <1>1
<1>3. /\ DOMAIN dense = Buckets(t)
      /\ \A loc \in Buckets(t) : dense[loc] # EMPTY <=> loc \in Used(t)
  <2>1. \A loc \in Buckets(t) : loc \in Used(t) <=> ~SparseIsEmpty(t, loc)
    BY Kinds DEF Used
  <2> QED
    BY <1>1, <2>1, DenseFacts
<1>4. DenseNextBucket(dense, at) =
        {loc \in later : \A l \in (at + 1) .. (loc - 1) : dense[l] = EMPTY}
  <2> HIDE DEF dense
  <2> QED
    BY <1>1, <1>2, <1>3 DEF DenseNextBucket
<1>5. ASSUME NEW m \in later
      PROVE  m \in DenseNextBucket(dense, at) <=> \A n \in later : m <= n
  <2>1. m \in Nat /\ at < m /\ m \in Buckets(t)
    BY <1>1
  <2>2. \A l \in (at + 1) .. (m - 1) : l \in Buckets(t) /\ at < l /\ l < m
    BY <1>1, <1>2, <2>1
  <2>3. \A n \in later : n < m => n \in (at + 1) .. (m - 1)
    BY <1>1, <1>2, <2>1
  <2>4. \A n \in later : ~(n < m) <=> m <= n
    BY <1>1, <2>1
  <2>5. \A l \in Buckets(t) : at < l => (dense[l] # EMPTY <=> l \in later)
    BY <1>3
  <2> HIDE DEF dense, later
  <2> QED
    BY <1>4, <2>2, <2>3, <2>4, <2>5
<1>6. \/ later = {} /\ SparseNextBucket(t, PlaceOf(t, at)) = Null
      \/ \E m \in later : /\ \A n \in later : m <= n
                          /\ SparseNextBucket(t, PlaceOf(t, at)) = SPARSE_BUCKET(t, m)
  BY NextBucketFacts
<1>7. CASE later = {} /\ SparseNextBucket(t, PlaceOf(t, at)) = Null
  BY <1>4, <1>7
<1>8. ASSUME NEW m \in later, \A n \in later : m <= n,
             SparseNextBucket(t, PlaceOf(t, at)) = SPARSE_BUCKET(t, m)
      PROVE  {SparseNextBucket(t, PlaceOf(t, at))} \ {Null} =
               {PlaceOf(t, next) : next \in DenseNextBucket(dense, at)}
  <2>1. \A n \in later : n \in Nat /\ n # -1
    BY <1>1
  <2>2. DenseNextBucket(dense, at) = {m}
    <3>1. m \in DenseNextBucket(dense, at) /\ DenseNextBucket(dense, at) \subseteq later
      BY <1>4, <1>5, <1>8
    <3>2. \A n \in DenseNextBucket(dense, at) : n = m
      <4> HIDE DEF dense, later
      <4> QED
        BY <1>5, <1>8, <2>1, <3>1
    <3> QED
      BY <3>1, <3>2
  <2>3. PlaceOf(t, m) = SPARSE_BUCKET(t, m)
    BY <2>1 DEF PlaceOf
  <2>4. SPARSE_BUCKET(t, m) # Null
    BY <1>1, PointerNotNull
  <2> HIDE DEF dense, later
  <2> QED
    BY <1>8, <2>2, <2>3, <2>4
<1> QED
  BY <1>6, <1>7, <1>8

\* Sequences over more elements are more.
LEMMA SeqGrows ==
  ASSUME NEW A, NEW B, A \subseteq B
  PROVE  Seq(A) \subseteq Seq(B)
OBVIOUS

\* SparseIsDense: a build may take dense arrays in place of sparse ones.
THEOREM SparseIsDenseProved ==
  ASSUME Careless = {}
  PROVE  Spec => []SparseIsDense
<1>1. ASSUME TableInv
      PROVE  SparseIsDense
  <2> DEFINE item == Item(None, None)
             Items == TableItems \cup {item}
             dense == Dense(table)
             used == {loc \in Buckets(table) : DenseFind(dense, loc) # EMPTY}
             place(at) == IF at = -1 THEN BeforeFirst ELSE SPARSE_BUCKET(table, at)
  <2>1. EMPTY \notin Items
    <3>1. Items \subseteq [key : Keys \cup {None}, data : Data \cup {DELETED, None}]
      BY DEF TableItems, Item
    <3> QED
      BY <3>1, TableAssumption
  <2>2. table = <<>> \/ table \in Tables
    BY <1>1 DEF TableInv, Sound, GoodTable
  <2>3. table \in SparseArrays(Items)
    <3>1. CASE table = <<>>
      BY <3>1 DEF SparseArrays
    <3>2. CASE table \in Tables
      <4>1. table \in SparseArrays(TableItems)
        BY <3>2, TableFacts
      <4>2. Seq(Group(TableItems)) \subseteq Seq(Group(Items))
        <5>1. Seq(TableItems) \subseteq Seq(Items)
          BY SeqGrows
        <5>2. Group(TableItems) \subseteq Group(Items)
          BY <5>1 DEF Group
        <5> HIDE DEF Items
        <5> QED
          BY <5>2, SeqGrows
      <4> QED
        BY <4>1, <4>2 DEF SparseArrays
    <3> QED
      BY <2>2, <3>1, <3>2
  <2>4. Buckets(table) = 0 .. (SizeOf(table) - 1)
    BY DEF Buckets
  <2>5. used = {loc \in Buckets(table) : ~SparseIsEmpty(table, loc)}
    <3>1. \A loc \in Buckets(table) : DenseFind(dense, loc) # EMPTY <=> ~SparseIsEmpty(table, loc)
      <4> HIDE DEF Items
      <4> QED
        BY <2>1, <2>3, <2>4, DenseFacts DEF DenseFind
    <3> QED
      BY <3>1
  <2>6. ASSUME NEW loc \in Buckets(table), NEW overwrite \in BOOLEAN
        PROVE  Dense(SparseInsert(table, loc, item, overwrite)) =
                 DenseInsert(dense, loc, item, overwrite)
    <3>1. item \in Items
      OBVIOUS
    <3> HIDE DEF Items, item
    <3> QED
      BY <2>1, <2>3, <2>4, <3>1, SparseInsertIsDense
  <2>7. ASSUME NEW at \in used \cup {-1}
        PROVE  {SparseNextBucket(table, place(at))} \ {Null} =
                 {place(next) : next \in DenseNextBucket(dense, at)}
    <3>1. CASE table = <<>>
      <4>1. Buckets(table) = {} /\ at = -1 /\ DOMAIN table = {}
        BY <2>5, <3>1, NoTable
      <4>2. DOMAIN dense = {}
        BY <2>4, <4>1 DEF Dense
      <4>3. DenseNextBucket(dense, at) = {}
        BY <4>2 DEF DenseNextBucket
      <4>4. SparseNextBucket(table, place(at)) = Null
        BY <4>1 DEF SparseNextBucket, BeforeFirst
      <4> QED
        BY <4>3, <4>4
    <3>2. CASE table \in Tables
      <4>1. used = Used(table)
        <5>1. \A loc \in Buckets(table) : SparseIsEmpty(table, loc) <=> loc \in EmptyBuckets(table)
          BY <3>2, Kinds
        <5> HIDE DEF used
        <5> QED
          BY <2>5, <5>1 DEF Used
      <4>2. EMPTY \notin TableItems
        BY <2>1
      <4> QED
        BY <3>2, <4>1, <4>2, SameNext DEF PlaceOf
    <3> QED
      BY <2>2, <3>1, <3>2
  <2>8. WordBits = GroupSize => DenseWrite(dense) = SparseWrite(table)
    BY <2>1, <2>3, SameFile
  <2>9. WordBits = GroupSize => DenseRead(cBuckets, SparseWrite(table)) = used
    BY <2>1, <2>3, <2>4, <2>5, SameRead DEF cBuckets
  <2> HIDE DEF item, Items, used, place, dense
  <2>10. /\ \A loc \in Buckets(table), overwrite \in BOOLEAN :
              Dense(SparseInsert(table, loc, item, overwrite)) =
                DenseInsert(dense, loc, item, overwrite)
         /\ \A at \in used \cup {-1} :
              {SparseNextBucket(table, place(at))} \ {Null} =
                {place(next) : next \in DenseNextBucket(dense, at)}
         /\ WordBits = GroupSize =>
              /\ DenseWrite(dense) = SparseWrite(table)
              /\ DenseRead(cBuckets, SparseWrite(table)) = used
    BY <2>6, <2>7, <2>8, <2>9
  <2> QED
    BY <2>10 DEF SparseIsDense, item, used, place, dense
<1> QED
  BY <1>1, TableInvHolds, PTL

-----------------------------------------------------------------------------
(* Saving and loading.                                                     *)

\* Sets whose elements are paired have as many.
LEMMA Paired ==
  ASSUME NEW A, NEW B, IsFiniteSet(A), NEW f \in [A -> B],
         \A a, b \in A : f[a] = f[b] => a = b,
         \A y \in B : \E x \in A : f[x] = y
  PROVE  IsFiniteSet(B) /\ Cardinality(B) = Cardinality(A)
<1>1. f \in Bijection(A, B)
  BY DEF Bijection, Injection, IsInjective, Surjection
<1> QED
  BY <1>1, FS_Bijection DEF ExistsBijection

\* Ranks grow: the numbers before an element are among those before a later one.
LEMMA RankFacts ==
  ASSUME NEW S \in SUBSET Int, IsFiniteSet(S)
  PROVE  /\ \A x \in S : Rank(S, x) \in Nat /\ Rank(S, x) + 1 \in 1 .. Cardinality(S)
         /\ \A x, z \in S : x < z => Rank(S, x) < Rank(S, z)
         /\ \A x, z \in S : Rank(S, x) = Rank(S, z) => x = z
         /\ \A x \in S : Cardinality({y \in S : y <= x}) = Rank(S, x) + 1
<1>0. Cardinality(S) \in Nat
  BY FS_CardinalityType
<1>1. ASSUME NEW x \in S
      PROVE  /\ IsFiniteSet({y \in S : y < x}) /\ Rank(S, x) \in Nat
             /\ IsFiniteSet({y \in S : y <= x})
             /\ Cardinality({y \in S : y <= x}) = Rank(S, x) + 1
             /\ Cardinality({y \in S : y <= x}) <= Cardinality(S)
  <2>1. IsFiniteSet({y \in S : y < x}) /\ IsFiniteSet({y \in S : y <= x})
        /\ Cardinality({y \in S : y <= x}) <= Cardinality(S)
    <3>1. {y \in S : y < x} \in SUBSET S /\ {y \in S : y <= x} \in SUBSET S
      OBVIOUS
    <3> QED
      BY <3>1, FS_Subset
  <2>2. {y \in S : y <= x} = {y \in S : y < x} \cup {x} /\ x \notin {y \in S : y < x}
    <3>1. \A y \in S : (y <= x <=> y < x \/ y = x) /\ ~(x < x)
      OBVIOUS
    <3> QED
      BY <3>1
  <2>3. Cardinality({y \in S : y < x} \cup {x}) = Cardinality({y \in S : y < x}) + 1
    BY <2>1, <2>2, FS_AddElement
  <2> QED
    BY <2>1, <2>2, <2>3, FS_CardinalityType DEF Rank
<1>2. ASSUME NEW x \in S, NEW z \in S, x < z
      PROVE  Rank(S, x) < Rank(S, z)
  <2>1. {y \in S : y <= x} \in SUBSET {y \in S : y < z}
    <3>1. \A y \in S : y <= x => y < z
      BY <1>2
    <3> QED
      BY <3>1
  <2>2. Cardinality({y \in S : y <= x}) <= Rank(S, z)
    BY <1>1, <2>1, FS_Subset DEF Rank
  <2>3. Rank(S, x) \in Nat /\ Rank(S, z) \in Nat /\ Rank(S, x) + 1 <= Rank(S, z)
    BY <1>1, <2>2
  <2> QED
    BY <2>3
<1>3. ASSUME NEW x \in S, NEW z \in S, Rank(S, x) = Rank(S, z)
      PROVE  x = z
  <2>1. Rank(S, x) \in Nat /\ Rank(S, z) \in Nat /\ x \in Int /\ z \in Int
    BY <1>1
  <2> QED
    BY <1>2, <1>3, <2>1
<1>4. ASSUME NEW x \in S
      PROVE  Rank(S, x) + 1 \in 1 .. Cardinality(S)
  <2>1. Rank(S, x) \in Nat /\ Rank(S, x) + 1 <= Cardinality(S)
    BY <1>1
  <2> QED
    BY <1>0, <2>1
<1> QED
  BY <1>1, <1>2, <1>3, <1>4

\* Every place up to the number of elements is the rank of one.
LEMMA RankTaken ==
  ASSUME NEW S \in SUBSET Int, IsFiniteSet(S), NEW n \in 1 .. Cardinality(S)
  PROVE  \E x \in S : Rank(S, x) + 1 = n
<1> DEFINE f == [x \in S |-> Rank(S, x) + 1]
           T == 1 .. Cardinality(S)
<1>1. \A x \in S : Rank(S, x) \in Nat /\ Rank(S, x) + 1 \in T
  BY RankFacts
<1>2. \A x, z \in S : Rank(S, x) = Rank(S, z) => x = z
  BY RankFacts
<1>3. f \in Injection(S, T)
  <2>1. f \in [S -> T]
    BY <1>1
  <2>2. ASSUME NEW a \in S, NEW b \in S, f[a] = f[b]
        PROVE  a = b
    <3>1. Rank(S, a) + 1 = Rank(S, b) + 1 /\ Rank(S, a) \in Nat /\ Rank(S, b) \in Nat
      BY <1>1, <2>2
    <3>2. Rank(S, a) = Rank(S, b)
      BY <3>1
    <3> QED
      BY <1>2, <3>2
  <2> HIDE DEF f
  <2> QED
    BY <2>1, <2>2 DEF Injection, IsInjective
<1>4. Cardinality(S) \in Nat
  BY FS_CardinalityType
<1>5. IsFiniteSet(T) /\ Cardinality(T) = Cardinality(S)
  BY <1>4, FS_Interval
<1>6. f \in Surjection(S, T)
  <2> HIDE DEF f, T
  <2> QED
    BY <1>3, <1>5, FS_Injection
<1>7. \E x \in S : f[x] = n
  <2> HIDE DEF f
  <2> QED
    BY <1>6 DEF Surjection
<1> QED
  BY <1>7

\* The n-th element is the one with that rank.
LEMMA NthFacts ==
  ASSUME NEW S \in SUBSET Int, IsFiniteSet(S), NEW x \in S
  PROVE  Nth(S, Rank(S, x) + 1) = x
<1>1. \A z \in S : Rank(S, z) \in Nat /\ (Rank(S, x) = Rank(S, z) => x = z)
  BY RankFacts
<1>2. PICK n \in Int : n = Rank(S, x) + 1
  BY <1>1
<1>3. \A z \in S : Rank(S, z) = n - 1 <=> z = x
  BY <1>1, <1>2
<1>4. (CHOOSE z \in S : Rank(S, z) = n - 1) = x
  BY <1>3
<1>5. Nth(S, n) = x
  BY <1>4 DEF Nth
<1> QED
  BY <1>2, <1>5

\* Buckets in use are a finite set of numbers.
LEMMA UsedFinite ==
  ASSUME NEW t \in Tables, NEW S, S \subseteq Used(t)
  PROVE  S \in SUBSET Int /\ IsFiniteSet(S)
<1>1. Used(t) \subseteq Buckets(t) /\ IsFiniteSet(Buckets(t))
  BY TableFacts DEF Used
<1>2. Buckets(t) \subseteq Int
  BY TableFacts
<1> QED
  BY <1>1, <1>2, FS_Subset

\* The bits of the groups before one.
BitsBefore(t, g) == {b \in (1 .. (g - 1)) \X Positions : b[2] \in t[b[1]].bmOccupied}

\* The place of a bucket in an iteration: the bits of the groups before its own,
\* and those before its own bit.
LEMMA RankOfBucket ==
  ASSUME NEW t \in Tables, NEW l \in Used(t), NEW g, g = Bin(l)
  PROVE  /\ Cardinality(BitsBefore(t, g)) \in Nat
         /\ Rank(Used(t), l) = Cardinality(BitsBefore(t, g))
                               + EntriesUpto(t[g].bmOccupied, Pos(l))
<1> DEFINE A == {m \in Used(t) : Bin(m) < g}
           B == {m \in Used(t) : Bin(m) = g /\ Pos(m) < Pos(l)}
           bits == {p \in t[g].bmOccupied : p < Pos(l)}
<1>1. /\ DOMAIN t = 1 .. Len(t) /\ Len(t) \in Nat
      /\ \A h \in DOMAIN t : t[h].bmOccupied \in SUBSET Positions
      /\ \A m \in Used(t) : Bin(m) \in DOMAIN t /\ Pos(m) \in t[Bin(m)].bmOccupied
      /\ \A h \in DOMAIN t : \A p \in t[h].bmOccupied :
           \E m \in Used(t) : Bin(m) = h /\ Pos(m) = p
      /\ \A k, m \in Used(t) :
           k < m <=> Bin(k) < Bin(m) \/ (Bin(k) = Bin(m) /\ Pos(k) < Pos(m))
  BY UsedFacts
<1>2. g \in DOMAIN t /\ g \in Int
  BY <1>1
<1>3. \A k, m \in Used(t) : Bin(k) = Bin(m) /\ Pos(k) = Pos(m) => k = m
  <2> SUFFICES ASSUME NEW k \in Used(t), NEW m \in Used(t),
                      Bin(k) = Bin(m), Pos(k) = Pos(m)
               PROVE  k = m
    OBVIOUS
  <2>1. /\ k \in 0 .. (GroupSize * Len(t) - 1) /\ m \in 0 .. (GroupSize * Len(t) - 1)
        /\ Len(t) \in Nat
    BY TableFacts DEF Used, SizeOf
  <2> QED
    BY <2>1, AddressesDiffer
<1>4. {m \in Used(t) : m < l} = A \cup B
  BY <1>1
<1>5. A \cap B = {} /\ IsFiniteSet(A) /\ IsFiniteSet(B)
  <2>1. A \subseteq Used(t) /\ B \subseteq Used(t)
    OBVIOUS
  <2>2. A \cap B = {}
    BY <1>2
  <2> HIDE DEF A, B
  <2> QED
    BY <2>1, <2>2, UsedFinite
<1>6. Rank(Used(t), l) = Cardinality(A) + Cardinality(B)
  <2> HIDE DEF A, B
  <2> QED
    BY <1>4, <1>5, CountApart DEF Rank
<1>7. Cardinality(BitsBefore(t, g)) = Cardinality(A)
  <2> DEFINE f == [m \in A |-> <<Bin(m), Pos(m)>>]
  <2>1. ASSUME NEW m \in A
        PROVE  <<Bin(m), Pos(m)>> \in BitsBefore(t, g)
    <3>1. Bin(m) \in 1 .. (g - 1) /\ Pos(m) \in Positions /\ Pos(m) \in t[Bin(m)].bmOccupied
      BY <1>1, <1>2
    <3> QED
      BY <3>1 DEF BitsBefore
  <2>2. f \in [A -> BitsBefore(t, g)]
    <3> HIDE DEF A
    <3> QED
      BY <2>1
  <2>3. \A a, b \in A : f[a] = f[b] => a = b
    BY <1>3
  <2>4. ASSUME NEW y \in BitsBefore(t, g)
        PROVE  \E x \in A : f[x] = y
    <3>1. PICK h \in 1 .. (g - 1), p \in Positions : y = <<h, p>> /\ p \in t[h].bmOccupied
      BY DEF BitsBefore
    <3>2. h \in DOMAIN t /\ h < g
      BY <1>1, <1>2
    <3>3. PICK m \in Used(t) : Bin(m) = h /\ Pos(m) = p
      BY <1>1, <3>1, <3>2
    <3>4. m \in A
      BY <3>2, <3>3
    <3> QED
      BY <3>1, <3>3, <3>4
  <2> HIDE DEF f, A
  <2> QED
    BY <1>5, <2>2, <2>3, <2>4, Paired
<1>8. Cardinality(bits) = Cardinality(B)
  <2> DEFINE f == [m \in B |-> Pos(m)]
  <2>1. f \in [B -> bits]
    BY <1>1
  <2>2. \A a, b \in B : f[a] = f[b] => a = b
    BY <1>3
  <2>3. ASSUME NEW y \in bits
        PROVE  \E x \in B : f[x] = y
    <3>1. PICK m \in Used(t) : Bin(m) = g /\ Pos(m) = y
      BY <1>1, <1>2
    <3> QED
      BY <3>1
  <2> HIDE DEF f, B, bits
  <2> QED
    BY <1>5, <2>1, <2>2, <2>3, Paired
<1>9. Cardinality(bits) = EntriesUpto(t[g].bmOccupied, Pos(l))
  BY DEF EntriesUpto
<1>10. Cardinality(A) \in Nat
  <2> HIDE DEF A
  <2> QED
    BY <1>5, FS_CardinalityType
<1> HIDE DEF A, B, bits
<1> QED
  BY <1>6, <1>7, <1>8, <1>9, <1>10

\* What HashSave writes of a bucket, and where.
LEMMA SavedFacts ==
  ASSUME NEW t \in Tables, NEW f, f = HashSave(t)
  PROVE  /\ f.bitmaps = SparseWrite(t)
         /\ DOMAIN f.words = 1 .. Cardinality(Used(t))
         /\ \A l \in Used(t) : /\ Rank(Used(t), l) \in Nat
                               /\ Rank(Used(t), l) + 1 \in DOMAIN f.words
                               /\ f.words[Rank(Used(t), l) + 1] = DataAt(t, l)
         /\ \A l \in LiveBuckets(t) :
              /\ Rank(LiveBuckets(t), l) + 1 \in DOMAIN f.keys
              /\ f.keys[Rank(LiveBuckets(t), l) + 1] = KeyAt(t, l)
<1> DEFINE used == Used(t)
           live == LiveBuckets(t)
<1>1. /\ f.bitmaps = SparseWrite(t)
      /\ f.keys = [n \in 1 .. Cardinality(live) |-> KeyAt(t, Nth(live, n))]
      /\ f.words = [n \in 1 .. Cardinality(used) |-> DataAt(t, Nth(used, n))]
  BY DEF HashSave, Used
<1>2. used \in SUBSET Int /\ IsFiniteSet(used) /\ live \in SUBSET Int /\ IsFiniteSet(live)
  <2>1. live \subseteq used
    BY Kinds DEF Used
  <2> HIDE DEF live
  <2> QED
    BY <2>1, UsedFinite
<1> HIDE DEF used, live
<1>3. ASSUME NEW l \in used
      PROVE  /\ Rank(used, l) \in Nat /\ Rank(used, l) + 1 \in 1 .. Cardinality(used)
             /\ f.words[Rank(used, l) + 1] = DataAt(t, l)
  <2>1. Rank(used, l) \in Nat /\ Rank(used, l) + 1 \in 1 .. Cardinality(used)
    BY <1>2, RankFacts
  <2>2. Nth(used, Rank(used, l) + 1) = l
    BY <1>2, NthFacts
  <2> QED
    BY <1>1, <2>1, <2>2
<1>4. ASSUME NEW l \in live
      PROVE  /\ Rank(live, l) + 1 \in 1 .. Cardinality(live)
             /\ f.keys[Rank(live, l) + 1] = KeyAt(t, l)
  <2>1. Rank(live, l) + 1 \in 1 .. Cardinality(live)
    BY <1>2, RankFacts
  <2>2. Nth(live, Rank(live, l) + 1) = l
    BY <1>2, NthFacts
  <2> QED
    BY <1>1, <2>1, <2>2
<1> QED
  BY <1>1, <1>3, <1>4 DEF used, live

\* The words up to that of an item that are not the mark are those of the items
\* up to it: the key of an item is found by counting them.
LEMMA KeyNumber ==
  ASSUME NEW t \in Tables, NEW f, f = HashSave(t), NEW l \in LiveBuckets(t),
         NEW n, n = Rank(Used(t), l) + 1
  PROVE  Cardinality({m \in 1 .. n : f.words[m] # DELETED}) = Rank(LiveBuckets(t), l) + 1
<1> DEFINE used == Used(t)
           live == LiveBuckets(t)
           S == {y \in live : y <= l}
           W == {m \in 1 .. n : f.words[m] # DELETED}
           g == [y \in S |-> Rank(used, y) + 1]
<1>1. live \subseteq used /\ \A y \in used : y \in live <=> DataAt(t, y) # DELETED
  BY Kinds DEF Used
<1>2. used \in SUBSET Int /\ IsFiniteSet(used) /\ live \in SUBSET Int /\ IsFiniteSet(live)
  <2> HIDE DEF live
  <2> QED
    BY <1>1, UsedFinite
<1>3. \A y \in used : /\ Rank(used, y) \in Nat
                      /\ Rank(used, y) + 1 \in 1 .. Cardinality(used)
                      /\ f.words[Rank(used, y) + 1] = DataAt(t, y)
  BY SavedFacts
<1>4. /\ \A x, z \in used : x < z => Rank(used, x) < Rank(used, z)
      /\ \A x, z \in used : Rank(used, x) = Rank(used, z) => x = z
  <2> HIDE DEF used
  <2> QED
    BY <1>2, RankFacts
<1>5. l \in used /\ l \in live /\ n \in Nat /\ n \in 1 .. Cardinality(used)
      /\ Cardinality(used) \in Nat
  <2>1. Cardinality(used) \in Nat
    <3> HIDE DEF used
    <3> QED
      BY <1>2, FS_CardinalityType
  <2> QED
    BY <1>1, <1>3, <2>1
<1> HIDE DEF used, live
<1>6. g \in [S -> W]
  <2>1. ASSUME NEW y \in S
        PROVE  Rank(used, y) + 1 \in W
    <3>1. y \in live /\ y \in used /\ y <= l /\ y \in Int /\ l \in Int
      BY <1>1, <1>2, <1>5
    <3>2. Rank(used, y) <= Rank(used, l) /\ Rank(used, y) \in Nat /\ Rank(used, l) \in Nat
      BY <1>3, <1>4, <1>5, <3>1
    <3>3. n = Rank(used, l) + 1
      BY DEF used
    <3>4. Rank(used, y) + 1 \in 1 .. n
      BY <1>5, <3>2, <3>3
    <3> QED
      BY <1>1, <1>3, <3>1, <3>4
  <2> HIDE DEF S, W
  <2> QED
    BY <2>1
<1>7. \A a, b \in S : g[a] = g[b] => a = b
  <2> SUFFICES ASSUME NEW a \in S, NEW b \in S, g[a] = g[b]
               PROVE  a = b
    OBVIOUS
  <2>1. a \in used /\ b \in used
    BY <1>1
  <2>2. Rank(used, a) + 1 = Rank(used, b) + 1
    OBVIOUS
  <2>3. Rank(used, a) = Rank(used, b)
    BY <1>3, <2>1, <2>2
  <2> QED
    BY <1>4, <2>1, <2>3
<1>8. ASSUME NEW m \in W
      PROVE  \E y \in S : g[y] = m
  <2>1. m \in 1 .. Cardinality(used) /\ m <= n /\ m \in Int
    BY <1>5
  <2>2. PICK y \in used : Rank(used, y) + 1 = m
    BY <1>2, <2>1, RankTaken
  <2>3. y \in live
    BY <1>1, <1>3, <2>2
  <2>4. y <= l
    <3>1. n = Rank(used, l) + 1
      BY DEF used
    <3>2. /\ Rank(used, y) \in Nat /\ Rank(used, l) \in Nat /\ y \in Int /\ l \in Int
          /\ (l < y => Rank(used, l) < Rank(used, y))
      BY <1>2, <1>3, <1>4, <1>5, <2>2
    <3> QED
      BY <2>1, <2>2, <3>1, <3>2
  <2>5. y \in S
    BY <2>3, <2>4
  <2> QED
    BY <2>2, <2>5
<1>9. IsFiniteSet(S) /\ Cardinality(S) = Rank(live, l) + 1
  <2>1. S \in SUBSET live
    OBVIOUS
  <2>2. Cardinality(S) = Rank(live, l) + 1
    BY <1>2, <1>5, RankFacts
  <2> HIDE DEF S
  <2> QED
    BY <1>2, <2>1, <2>2, FS_Subset
<1>10. Cardinality(W) = Cardinality(S)
  <2> HIDE DEF g, S, W
  <2> QED
    BY <1>6, <1>7, <1>8, <1>9, Paired
<1> QED
  BY <1>9, <1>10 DEF live

\* The items that HashDoLoad makes of the words and the keys of a file.
LoadedItems(f, kept, short, onDisk) ==
  [n \in DOMAIN f.words |->
    IF Word(f.words[n], kept) = DELETED THEN Item(None, DELETED)
    ELSE LET m == Cardinality({i \in 1 .. n : Word(f.words[i], kept) # DELETED})
             k == IF m \in DOMAIN f.keys THEN f.keys[m] ELSE None
         IN Item(IF k \in short THEN None ELSE k,
                 IF onDisk THEN n ELSE Word(f.words[n], kept))]

\* A word of a table that fits in the file comes out as it went in.
LEMMA WordKept ==
  ASSUME NEW t \in Tables, NEW f, f = HashSave(t),
         NEW kept \in 1 .. GroupSize, Fits(t, kept), NEW n \in DOMAIN f.words
  PROVE  Word(f.words[n], kept) = f.words[n]
<1>1. CASE kept = GroupSize
  BY <1>1, GroupAssumption DEF Word
<1>2. CASE DeletedBuckets(t) = {}
  <2>1. PICK l \in Used(t) : Rank(Used(t), l) + 1 = n
    <3>1. n \in 1 .. Cardinality(Used(t))
      BY SavedFacts
    <3>2. Used(t) \in SUBSET Int /\ IsFiniteSet(Used(t))
      BY UsedFinite
    <3> QED
      BY <3>1, <3>2, RankTaken
  <2>2. f.words[n] = DataAt(t, l)
    BY <2>1, SavedFacts
  <2>3. ~SparseIsEmpty(t, l) /\ l \in Buckets(t)
    BY UsedFacts
  <2>4. f.words[n] # DELETED
    BY <1>2, <2>2, <2>3 DEF DeletedBuckets
  <2> QED
    BY <2>4 DEF Word
<1> QED
  BY <1>1, <1>2 DEF Fits

\* If the table fits in the file, the item of a bucket is as it was saved, but
\* for the key of a marked one or one that is short, and data that stay on disk.
LEMMA LoadedItem ==
  ASSUME NEW t \in Tables, NEW f, f = HashSave(t),
         NEW kept \in 1 .. GroupSize, Fits(t, kept), NEW short \in SUBSET Keys,
         NEW onDisk \in BOOLEAN, NEW l \in Used(t), NEW n, n = Rank(Used(t), l) + 1
  PROVE  LoadedItems(f, kept, short, onDisk)[n] =
           IF l \in LiveBuckets(t)
           THEN Item(IF KeyAt(t, l) \in short THEN None ELSE KeyAt(t, l),
                     IF onDisk THEN n ELSE DataAt(t, l))
           ELSE Item(None, DELETED)
<1>1. \A i \in DOMAIN f.words : Word(f.words[i], kept) = f.words[i]
  BY WordKept
<1>2. n \in DOMAIN f.words /\ f.words[n] = DataAt(t, l)
  BY SavedFacts
<1>3. l \in LiveBuckets(t) <=> DataAt(t, l) # DELETED
  BY Kinds DEF Used
<1>4. PICK m : m = Cardinality({i \in 1 .. n : f.words[i] # DELETED})
  OBVIOUS
<1>5. LoadedItems(f, kept, short, onDisk)[n] =
        IF f.words[n] = DELETED THEN Item(None, DELETED)
        ELSE LET k == IF m \in DOMAIN f.keys THEN f.keys[m] ELSE None
             IN Item(IF k \in short THEN None ELSE k, IF onDisk THEN n ELSE f.words[n])
  <2>1. {i \in 1 .. n : Word(f.words[i], kept) # DELETED} =
          {i \in 1 .. n : f.words[i] # DELETED}
    <3>1. IsFiniteSet(Used(t))
      BY UsedFinite
    <3>2. PICK c \in Nat : c = Cardinality(Used(t))
      BY <3>1, FS_CardinalityType
    <3>3. DOMAIN f.words = 1 .. c /\ n \in 1 .. c
      BY <1>2, <3>2, SavedFacts
    <3>4. \A i \in 1 .. n : i \in 1 .. c
      BY <3>2, <3>3
    <3> QED
      BY <1>1, <3>3, <3>4
  <2> QED
    BY <1>1, <1>2, <1>4, <2>1 DEF LoadedItems
<1>6. l \in LiveBuckets(t) => m \in DOMAIN f.keys /\ f.keys[m] = KeyAt(t, l)
  <2> SUFFICES ASSUME l \in LiveBuckets(t)
               PROVE  m \in DOMAIN f.keys /\ f.keys[m] = KeyAt(t, l)
    OBVIOUS
  <2>1. m = Rank(LiveBuckets(t), l) + 1
    BY <1>4, KeyNumber
  <2> QED
    BY <2>1, SavedFacts
<1> QED
  BY <1>2, <1>3, <1>5, <1>6

\* The bits before a group, counted in the bitmaps of a file.
BitsIn(w, g, K) == {b \in (1 .. (g - 1)) \X K : b[2] \in w[b[1]]}

\* The array that is read has the bitmaps that were written, if the file keeps
\* these bits, and its packed arrays take the items one after the other.
LEMMA ReadBack ==
  ASSUME NEW t \in Tables, NEW items, NEW K \in SUBSET Positions,
         \A g \in DOMAIN t : t[g].bmOccupied \subseteq K,
         NEW u, u = SparseRead(SparseWrite(t), K, items)
  PROVE  /\ SizeOf(u) = SizeOf(t) /\ Buckets(u) = Buckets(t)
         /\ \A l \in Buckets(t) :
              /\ SparseIsEmpty(u, l) <=> SparseIsEmpty(t, l)
              /\ SPARSE_BUCKET(u, l) = SPARSE_BUCKET(t, l)
         /\ \A l \in Used(t) :
              Deref(u, SPARSE_BUCKET(t, l)) = items[Rank(Used(t), l) + 1]
<1>1. /\ DOMAIN t = 1 .. Len(t) /\ Len(t) \in Nat
      /\ \A g \in DOMAIN t : t[g].bmOccupied \in SUBSET Positions
  BY UsedFacts
<1>2. /\ t \in SparseArrays(TableItems) /\ Buckets(t) = 0 .. (SizeOf(t) - 1)
  BY TableFacts
<1>3. PICK w : w = SparseWrite(t)
  OBVIOUS
<1>4. DOMAIN w = DOMAIN t /\ \A g \in DOMAIN t : w[g] = t[g].bmOccupied
  BY <1>3 DEF SparseWrite
<1>5. ASSUME NEW g \in DOMAIN t
      PROVE  w[g] \cap K = t[g].bmOccupied
             /\ BitsIn(w, g, K) = BitsBefore(t, g)
  <2>1. \A b \in (1 .. (g - 1)) \X Positions : b[1] \in DOMAIN t
    BY <1>1
  <2>2. \A b \in (1 .. (g - 1)) \X Positions : w[b[1]] = t[b[1]].bmOccupied
    BY <1>4, <2>1
  <2>3. \A b \in (1 .. (g - 1)) \X Positions : b[2] \in w[b[1]] => b[2] \in K
    BY <2>1, <2>2
  <2>4. BitsIn(w, g, K) = {b \in (1 .. (g - 1)) \X Positions : b[2] \in w[b[1]]}
    BY <2>3 DEF BitsIn
  <2> QED
    BY <1>1, <1>4, <2>2, <2>4 DEF BitsBefore
<1>6. u = [g \in DOMAIN t |->
            [bmOccupied |-> w[g] \cap K,
             binSparse |->
               [i \in 1 .. Cardinality(w[g] \cap K) |->
                 items[Cardinality(BitsIn(w, g, K)) + i]]]]
  BY <1>3, <1>4 DEF SparseRead, BitsIn
<1>7. /\ DOMAIN u = DOMAIN t
      /\ \A g \in DOMAIN t :
           /\ u[g].bmOccupied = t[g].bmOccupied
           /\ u[g].binSparse = [i \in 1 .. Cardinality(t[g].bmOccupied) |->
                                  items[Cardinality(BitsBefore(t, g)) + i]]
  <2>1. DOMAIN u = DOMAIN t
    BY <1>6
  <2>2. ASSUME NEW g \in DOMAIN t
        PROVE  /\ u[g].bmOccupied = t[g].bmOccupied
               /\ u[g].binSparse = [i \in 1 .. Cardinality(t[g].bmOccupied) |->
                                      items[Cardinality(BitsBefore(t, g)) + i]]
    <3>1. PICK bm, c : bm = w[g] \cap K /\ c = Cardinality(BitsIn(w, g, K))
      OBVIOUS
    <3>2. u[g] = [bmOccupied |-> bm,
                  binSparse |-> [i \in 1 .. Cardinality(bm) |-> items[c + i]]]
      BY <1>6, <3>1
    <3>3. bm = t[g].bmOccupied /\ c = Cardinality(BitsBefore(t, g))
      BY <1>5, <3>1
    <3> QED
      BY <3>2, <3>3
  <2> QED
    BY <2>1, <2>2
<1>8. Len(u) = Len(t)
  BY <1>1, <1>7
<1>9. SizeOf(u) = SizeOf(t) /\ Buckets(u) = Buckets(t)
  BY <1>8 DEF SizeOf, Buckets
<1>10. ASSUME NEW l \in Buckets(t)
       PROVE  /\ SparseIsEmpty(u, l) <=> SparseIsEmpty(t, l)
              /\ SPARSE_BUCKET(u, l) = SPARSE_BUCKET(t, l)
  <2>1. Bin(l) \in DOMAIN t
    BY <1>2, BucketFacts
  <2> QED
    BY <1>7, <2>1 DEF SparseIsEmpty, SPARSE_BUCKET
<1>11. ASSUME NEW l \in Used(t)
       PROVE  Deref(u, SPARSE_BUCKET(t, l)) = items[Rank(Used(t), l) + 1]
  <2>1. PICK g \in DOMAIN t : g = Bin(l) /\ Pos(l) \in t[g].bmOccupied
    BY UsedFacts
  <2>2. PICK off : off = EntriesUpto(t[g].bmOccupied, Pos(l))
    OBVIOUS
  <2>3. off + 1 \in 1 .. Cardinality(t[g].bmOccupied) /\ off \in Int
    <3>1. t[g].bmOccupied \in SUBSET Positions /\ Pos(l) \in Int
      BY <1>1, <2>1, BitsAreNumbers
    <3> QED
      BY <2>1, <2>2, <3>1, OffsetInRange, CountIsNumber
  <2>4. /\ Cardinality(BitsBefore(t, g)) \in Nat
        /\ Rank(Used(t), l) = Cardinality(BitsBefore(t, g)) + off
    BY <2>1, <2>2, RankOfBucket
  <2>5. Rank(Used(t), l) + 1 = Cardinality(BitsBefore(t, g)) + (off + 1)
    BY <2>3, <2>4
  <2>6. SPARSE_BUCKET(t, l) = [bin |-> g, off |-> off + 1]
    BY <2>1, <2>2 DEF SPARSE_BUCKET
  <2>7. u[g].binSparse[off + 1] = items[Cardinality(BitsBefore(t, g)) + (off + 1)]
    BY <1>7, <2>3
  <2> QED
    BY <2>5, <2>6, <2>7 DEF Deref
<1> QED
  BY <1>9, <1>10, <1>11

\* A table with the same bits, the key k where the other has it and marks where
\* the other has, finds the key in the same place.
LEMMA SameFind ==
  ASSUME NEW t, GoodTable(t), EmptyBuckets(t) # {}, NEW u, NEW k \in Keys,
         SizeOf(u) = SizeOf(t), Buckets(u) = Buckets(t),
         \A l \in Buckets(t) :
           /\ SparseIsEmpty(u, l) <=> SparseIsEmpty(t, l)
           /\ SPARSE_BUCKET(u, l) = SPARSE_BUCKET(t, l),
         \A l \in Used(t) : DataAt(u, l) = DELETED <=> DataAt(t, l) = DELETED,
         \A l \in LiveBuckets(t) : KeyAt(u, l) = k <=> KeyAt(t, l) = k
  PROVE  Find(u, k) = Find(t, k)
<1>1. t \in Tables /\ SizeOf(t) \in Nat /\ PowerOfTwo(SizeOf(t))
  BY TableFacts DEF GoodTable
<1>2. EmptyBuckets(u) = EmptyBuckets(t)
  BY DEF EmptyBuckets
<1>3. LiveBuckets(u) = LiveBuckets(t)
  <2>1. \A l \in Buckets(t) : l \in LiveBuckets(t) <=> l \in LiveBuckets(u)
    <3>1. \A l \in Buckets(t) : ~SparseIsEmpty(t, l) => l \in Used(t)
      BY <1>1, Kinds DEF Used
    <3> QED
      BY <3>1 DEF LiveBuckets
  <2>2. LiveBuckets(t) \subseteq Buckets(t) /\ LiveBuckets(u) \subseteq Buckets(t)
    BY DEF LiveBuckets
  <2> QED
    BY <2>1, <2>2
<1>4. Stops(u, k) = Stops(t, k)
  BY <1>2, <1>3 DEF Stops
<1>5. \A n : Probe(u, k, n) = Probe(t, k, n)
  BY DEF Probe, Hash
<1>6. FirstProbe(u, k, Stops(u, k)) = FirstProbe(t, k, Stops(t, k))
  BY <1>4, <1>5 DEF FirstProbe
<1>7. PICK n \in Buckets(t) : FirstProbe(t, k, Stops(t, k)) = {n}
  <2>1. PICK e : e \in EmptyBuckets(t) \cap Buckets(t)
    BY <1>1, Kinds
  <2>2. e \in Stops(t, k) \cap Buckets(t)
    BY <2>1 DEF Stops
  <2> QED
    BY <1>1, <2>2, FirstProbeFacts
<1>8. (CHOOSE m \in {n} : TRUE) = n
  OBVIOUS
<1>9. Find(t, k) = SparseFind(t, Probe(t, k, n))
  BY <1>7, <1>8 DEF Find
<1>10. Find(u, k) = SparseFind(u, Probe(t, k, n))
  BY <1>5, <1>6, <1>7, <1>8 DEF Find
<1>11. Probe(t, k, n) \in Buckets(t)
  <2>1. n \in Nat
    BY <1>1, TableFacts
  <2> QED
    BY <1>1, <2>1, ProbeRange
<1> QED
  BY <1>9, <1>10, <1>11 DEF SparseFind

\* What a file gives back.
LEMMA LoadFacts ==
  ASSUME NEW t, GoodTable(t), EmptyBuckets(t) # {}, NEW f, f = HashSave(t),
         NEW kept \in 1 .. GroupSize, Fits(t, kept), NEW short \in SUBSET Keys,
         NEW onDisk \in BOOLEAN, NEW u, u = HashDoLoad(f, kept, short, onDisk)
  PROVE  \A k \in Keys \ short :
           /\ Find(u, k) = Find(t, k)
           /\ Find(t, k) # Null =>
                /\ ~onDisk => Deref(u, Find(t, k)).data = Deref(t, Find(t, k)).data
                /\ onDisk => f.words[Deref(u, Find(t, k)).data] = Deref(t, Find(t, k)).data
<1> DEFINE key(l) == IF KeyAt(t, l) \in short THEN None ELSE KeyAt(t, l)
<1>1. t \in Tables /\ f.bitmaps = SparseWrite(t)
  <2>1. t \in Tables
    BY DEF GoodTable
  <2> QED
    BY <2>1, SavedFacts
<1>2. PICK items : items = LoadedItems(f, kept, short, onDisk)
  OBVIOUS
<1>3. PICK K \in SUBSET Positions :
        K = 0 .. (kept - 1) /\ \A g \in DOMAIN t : t[g].bmOccupied \subseteq K
  <2>1. 0 .. (kept - 1) \in SUBSET Positions
    BY GroupAssumption DEF Positions
  <2>2. \A g \in DOMAIN t : t[g].bmOccupied \subseteq Positions
    BY <1>1, UsedFacts
  <2>3. \A g \in DOMAIN t : t[g].bmOccupied \subseteq 0 .. (kept - 1)
    BY <2>2 DEF Fits, Positions
  <2> QED
    BY <2>1, <2>3
<1>4. u = SparseRead(SparseWrite(t), K, items)
  BY <1>1, <1>2, <1>3 DEF HashDoLoad, LoadedItems
<1>5. /\ SizeOf(u) = SizeOf(t) /\ Buckets(u) = Buckets(t)
      /\ \A l \in Buckets(t) :
           /\ SparseIsEmpty(u, l) <=> SparseIsEmpty(t, l)
           /\ SPARSE_BUCKET(u, l) = SPARSE_BUCKET(t, l)
      /\ \A l \in Used(t) :
           Deref(u, SPARSE_BUCKET(t, l)) = items[Rank(Used(t), l) + 1]
  BY <1>1, <1>3, <1>4, ReadBack
<1>6. ASSUME NEW l \in Used(t), NEW n, n = Rank(Used(t), l) + 1
      PROVE  /\ n \in Nat /\ f.words[n] = DataAt(t, l)
             /\ Deref(u, SPARSE_BUCKET(t, l)) =
                  IF l \in LiveBuckets(t)
                  THEN Item(key(l), IF onDisk THEN n ELSE DataAt(t, l))
                  ELSE Item(None, DELETED)
  <2>1. n \in Nat /\ f.words[n] = DataAt(t, l)
    BY <1>1, <1>6, SavedFacts
  <2>2. LoadedItems(f, kept, short, onDisk)[n] =
          IF l \in LiveBuckets(t)
          THEN Item(key(l), IF onDisk THEN n ELSE DataAt(t, l))
          ELSE Item(None, DELETED)
    BY <1>1, <1>6, LoadedItem
  <2>3. Deref(u, SPARSE_BUCKET(t, l)) = items[n]
    BY <1>5, <1>6
  <2> QED
    BY <1>2, <2>1, <2>2, <2>3
<1>7. ASSUME NEW l \in Used(t)
      PROVE  /\ DataAt(u, l) = DELETED <=> DataAt(t, l) = DELETED
             /\ l \in LiveBuckets(t) =>
                  /\ KeyAt(u, l) = key(l)
                  /\ ~onDisk => Deref(u, SPARSE_BUCKET(t, l)).data = DataAt(t, l)
                  /\ onDisk => f.words[Deref(u, SPARSE_BUCKET(t, l)).data] = DataAt(t, l)
  <2>1. l \in Buckets(t) /\ (l \in LiveBuckets(t) <=> DataAt(t, l) # DELETED)
    BY <1>1, Kinds DEF Used
  <2>2. PICK n : n = Rank(Used(t), l) + 1
    OBVIOUS
  <2>3. /\ n \in Nat /\ f.words[n] = DataAt(t, l)
        /\ Deref(u, SPARSE_BUCKET(t, l)) =
             IF l \in LiveBuckets(t)
             THEN Item(key(l), IF onDisk THEN n ELSE DataAt(t, l))
             ELSE Item(None, DELETED)
    BY <1>6, <2>2
  <2>4. /\ DataAt(u, l) = Deref(u, SPARSE_BUCKET(t, l)).data
        /\ KeyAt(u, l) = Deref(u, SPARSE_BUCKET(t, l)).key
    BY <1>5, <2>1 DEF DataAt, KeyAt
  <2>5. n # DELETED
    BY <2>3, TableAssumption
  <2> QED
    BY <2>1, <2>3, <2>4, <2>5 DEF Item
<1>8. LiveBuckets(t) \subseteq Used(t)
  BY <1>1, Kinds DEF Used
<1>9. ASSUME NEW k \in Keys \ short
      PROVE  Find(u, k) = Find(t, k)
  <2>1. \A l \in LiveBuckets(t) : KeyAt(u, l) = k <=> KeyAt(t, l) = k
    BY <1>7, <1>8, TableAssumption
  <2> QED
    BY <1>5, <1>7, <1>8, <2>1, SameFind
<1>10. ASSUME NEW k \in Keys \ short, Find(t, k) # Null
       PROVE  /\ ~onDisk => Deref(u, Find(t, k)).data = Deref(t, Find(t, k)).data
              /\ onDisk => f.words[Deref(u, Find(t, k)).data] = Deref(t, Find(t, k)).data
  <2>1. PICK l \in LiveBuckets(t) : Find(t, k) = SPARSE_BUCKET(t, l)
    BY <1>10, FindHas
  <2>2. Deref(t, Find(t, k)).data = DataAt(t, l)
    BY <2>1 DEF DataAt
  <2> QED
    BY <1>7, <1>8, <2>1, <2>2
<1> QED
  BY <1>9, <1>10

\* SavedWhole: the table that is loaded is the map that was saved, with its data
\* in memory or left on disk, whatever a file keeps of a word as long as the words
\* of this table survive it, but for keys shorter than a bucket's word.
THEOREM SavedWholeProved ==
  ASSUME Careless = {}
  PROVE  Spec => []SavedWhole
<1>1. ASSUME TableInv
      PROVE  SavedWhole
  <2> SUFFICES ASSUME table # <<>>, NEW kept \in 1 .. GroupSize,
                      NEW short \in SUBSET Keys, Fits(table, kept),
                      NEW k \in Keys \ short
               PROVE  /\ Lookup(HashDoLoad(HashSave(table), kept, short, FALSE), k)
                           = Lookup(table, k)
                      /\ LoadAndReturn(HashSave(table),
                                       HashDoLoad(HashSave(table), kept, short, TRUE), k)
                           = Lookup(table, k)
    BY DEF SavedWhole
  <2>1. GoodTable(table) /\ EmptyBuckets(table) # {}
    BY <1>1, SoundFacts DEF TableInv
  <2>2. PICK t, f : t = table /\ f = HashSave(table)
    OBVIOUS
  <2>3. ASSUME NEW u, u = HashDoLoad(f, kept, short, FALSE)
        PROVE  Lookup(u, k) = Lookup(t, k)
    <3>1. PICK onDisk \in BOOLEAN : onDisk = FALSE
      OBVIOUS
    <3>2. u = HashDoLoad(f, kept, short, onDisk)
      BY <2>3, <3>1
    <3>3. /\ Find(u, k) = Find(t, k)
          /\ Find(t, k) # Null =>
               (~onDisk => Deref(u, Find(t, k)).data = Deref(t, Find(t, k)).data)
      BY <2>1, <2>2, <3>2, LoadFacts
    <3> QED
      BY <3>1, <3>3 DEF Lookup
  <2>4. ASSUME NEW u, u = HashDoLoad(f, kept, short, TRUE)
        PROVE  LoadAndReturn(f, u, k) = Lookup(t, k)
    <3>1. PICK onDisk \in BOOLEAN : onDisk = TRUE
      OBVIOUS
    <3>2. u = HashDoLoad(f, kept, short, onDisk)
      BY <2>4, <3>1
    <3>3. /\ Find(u, k) = Find(t, k)
          /\ Find(t, k) # Null =>
               (onDisk => f.words[Deref(u, Find(t, k)).data] = Deref(t, Find(t, k)).data)
      BY <2>1, <2>2, <3>2, LoadFacts
    <3> QED
      BY <3>1, <3>3 DEF Lookup, LoadAndReturn
  <2> QED
    BY <2>2, <2>3, <2>4
<1> QED
  BY <1>1, TableInvHolds, PTL
==============================================================================
