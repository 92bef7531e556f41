----------------------------- MODULE SparseArray -----------------------------
(***************************************************************************)
(* The sparse arrays of libchash (src/src/sparsehash/libchash.c): an array *)
(* of buckets cut into groups.  A group has a bitmap that says which of    *)
(* its buckets hold an item, and a packed array of these items alone, in   *)
(* the order of the buckets; where the item of a bucket is in it follows   *)
(* from counting the bits before its own.                                  *)
(***************************************************************************)
EXTENDS Integers, FiniteSets, SequencesExt

CONSTANTS
  GroupSize, \* buckets of a group (1 << LOG_LOW_BIN_SIZE: 64, or 32)
  WordBits,  \* 8 * sizeof(ulong), which is 64 whatever the group
  Null,      \* the NULL pointer
  EMPTY      \* dense arrays: the item of a bucket that has none

ASSUME GroupAssumption ==
  /\ GroupSize \in Nat \ {0} /\ WordBits \in Nat \ {0}
  /\ Null \notin [bin : Nat, off : Nat]

Positions == 0 .. (GroupSize - 1)

\* A group; cOccupied is the length of binSparse.
NoItems == [bmOccupied |-> {}, binSparse |-> <<>>]

\* SPARSE_GROUPS: (n - 1) / GroupSize + 1, which for n = 0 is a number that
\* loses all its bits when SparseAllocate keeps it in an int.
SPARSE_GROUPS(n) == (n + GroupSize - 1) \div GroupSize

\* An array of at least n buckets: whole groups.
SparseAllocate(n) == [g \in 1 .. SPARSE_GROUPS(n) |-> NoItems]

\* The number of buckets SparseAllocate returned.
SizeOf(bins) == GroupSize * Len(bins)

Bin(loc) == loc \div GroupSize + 1
Pos(loc) == loc % GroupSize

\* The set bits before position i, added up byte by byte.
EntriesUpto(bm, i) == Cardinality({p \in bm : p < i})

\* SPARSE_BUCKET: a pointer to the item of a bucket, or to where it would be.
SPARSE_BUCKET(bins, loc) ==
  [bin |-> Bin(loc),
   off |-> EntriesUpto(bins[Bin(loc)].bmOccupied, Pos(loc)) + 1]

\* What a pointer points to.
Deref(bins, bck) == bins[bck.bin].binSparse[bck.off]

SparseIsEmpty(bins, loc) == Pos(loc) \notin bins[Bin(loc)].bmOccupied

SparseFind(bins, loc) ==
  IF SparseIsEmpty(bins, loc) THEN Null ELSE SPARSE_BUCKET(bins, loc)

\* The item of a bucket replaced.
Overwrite(bins, bck, item) ==
  [bins EXCEPT ![bck.bin].binSparse = ReplaceAt(@, bck.off, item)]

\* Mutant: memmove leaves the items behind the new one where they were.
OpenedOver(bins, loc, item) ==
  LET off == SPARSE_BUCKET(bins, loc).off
      bin == bins[Bin(loc)].binSparse
  IN [bins EXCEPT ![Bin(loc)] =
        [bmOccupied |-> @.bmOccupied \cup {Pos(loc)},
         binSparse |-> [i \in 1 .. (Len(bin) + 1) |->
                          IF i = off THEN item
                          ELSE IF i <= Len(bin) THEN bin[i] ELSE item]]]

\* Mutant: the bit is not set.
OpenedUnmarked(bins, loc, item) ==
  [bins EXCEPT ![Bin(loc)].binSparse =
     InsertAt(@, SPARSE_BUCKET(bins, loc).off, item)]

\* The packed array of the group grows by one and its end moves up.
Opened(bins, loc, item) ==
  [bins EXCEPT ![Bin(loc)] =
     [bmOccupied |-> @.bmOccupied \cup {Pos(loc)},
      binSparse  |-> InsertAt(@.binSparse, SPARSE_BUCKET(bins, loc).off, item)]]

\* An item that is in the bucket is replaced only if the caller says so.
SparseInsert(bins, loc, item, overwrite) ==
  IF SparseIsEmpty(bins, loc) THEN Opened(bins, loc, item)
  ELSE IF overwrite THEN Overwrite(bins, SPARSE_BUCKET(bins, loc), item)
  ELSE bins

\* SparseFirstBucket starts an iterator before the first group.
BeforeFirst == [bin |-> 0, off |-> 0]

\* Mutant: the array of the next group is entered at its second item.
NextBucketSecond(bins, iter) ==
  LET later == {g \in DOMAIN bins : g > iter.bin /\ Len(bins[g].binSparse) > 1}
      next  == CHOOSE g \in later : \A h \in later : g <= h
  IN IF iter.bin > 0 /\ iter.off < Len(bins[iter.bin].binSparse)
     THEN [iter EXCEPT !.off = @ + 1]
     ELSE IF later = {} THEN Null ELSE [bin |-> next, off |-> 2]

\* The next item of the group, the first of the next one that has any, or NULL.
SparseNextBucket(bins, iter) ==
  LET later == {g \in DOMAIN bins : g > iter.bin /\ bins[g].binSparse # <<>>}
      next  == CHOOSE g \in later : \A h \in later : g <= h
  IN IF iter.bin > 0 /\ iter.off < Len(bins[iter.bin].binSparse)
     THEN [iter EXCEPT !.off = @ + 1]
     ELSE IF later = {} THEN Null ELSE [bin |-> next, off |-> 1]

-----------------------------------------------------------------------------
(* Saving and loading: only the bitmaps of an array are kept.              *)

SparseWrite(bins) == [g \in DOMAIN bins |-> bins[g].bmOccupied]

\* An array with these bitmaps, of which the kept positions outlive the file, and
\* items[n] for the n-th item in the order of an iteration.
SparseRead(bitmaps, kept, items) ==
  LET bm(g)     == bitmaps[g] \cap kept
      before(g) == Cardinality({b \in (1 .. (g - 1)) \X kept : b[2] \in bitmaps[b[1]]})
  IN [g \in DOMAIN bitmaps |->
       [bmOccupied |-> bm(g),
        binSparse  |-> [i \in 1 .. Cardinality(bm(g)) |-> items[before(g) + i]]]]

-----------------------------------------------------------------------------
(* Dense arrays, which a build may choose in place of the sparse ones: one *)
(* bucket after the other.                                                 *)

DenseAllocate(n) == [loc \in 0 .. (n - 1) |-> EMPTY]

DenseFind(arr, loc) == arr[loc]

DenseInsert(arr, loc, item, overwrite) ==
  IF arr[loc] = EMPTY \/ overwrite THEN [arr EXCEPT ![loc] = item] ELSE arr

\* The first bucket behind pos that has an item; -1 is before all of them.
DenseNextBucket(arr, pos) ==
  {loc \in DOMAIN arr : /\ loc > pos /\ arr[loc] # EMPTY
                        /\ \A l \in (pos + 1) .. (loc - 1) : arr[l] = EMPTY}

\* The words DenseWrite puts together, bit after bit.  Where a bitmap has fewer
\* bits than a word, SET_BITMAP sets the others outside of it.
DenseWrite(arr) ==
  [w \in 1 .. ((Cardinality(DOMAIN arr) + WordBits - 1) \div WordBits) |->
    {p \in 0 .. (WordBits - 1) : LET loc == (w - 1) * WordBits + p
                                 IN loc \in DOMAIN arr /\ arr[loc] # EMPTY}]

\* DenseRead: of n buckets, those that the words make occupied.
DenseRead(n, words) ==
  {loc \in 0 .. (n - 1) : loc % WordBits \in words[loc \div WordBits + 1]}

\* The dense array that a sparse one stands for.
Dense(bins) ==
  [loc \in 0 .. (SizeOf(bins) - 1) |->
    IF SparseIsEmpty(bins, loc) THEN EMPTY
    ELSE Deref(bins, SPARSE_BUCKET(bins, loc))]
==============================================================================
