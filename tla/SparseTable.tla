----------------------------- MODULE SparseTable -----------------------------
(***************************************************************************)
(* The hash table of libchash (src/src/sparsehash/libchash.c), the engine  *)
(* behind BZ_ENGINE_SPARSE: open addressing with triangular probing over a *)
(* sparse array, deletion by a mark, growing and shrinking by rehashing.   *)
(* The calls are those of libchash.h, in any order its documentation       *)
(* allows, and with Careless also those it allows and the code gets wrong. *)
(* A call runs to its end in one thread, so it is one step.                *)
(***************************************************************************)
EXTENDS SparseArray

CONSTANTS
  Keys,      \* the keys
  HashOf,    \* HashOf[k]: the hash of k
  Data,      \* the data
  Own,       \* Own[k]: what may be stored with k
  DELETED,   \* the data of a deleted bucket
  None,      \* no data, no key
  MinSize,   \* MIN_HASH_SIZE (512), in whole groups
  Goals,     \* what is passed to HashSetDeltaGoalSize
  Careless   \* calls that the code gets wrong and that are made all the same

\* A power of two has no odd divisor but 1.
PowerOfTwo(p) == p > 0 /\ \A r \in 2 .. p : r % 2 = 1 => p % r # 0

ASSUME TableAssumption ==
  /\ HashOf \in [Keys -> Nat]
  /\ None \notin Keys \cup Data
  /\ DELETED \notin Data \cup {None} \cup Nat
  /\ PowerOfTwo(GroupSize)
  /\ MinSize \in Nat /\ PowerOfTwo(MinSize) /\ MinSize >= GroupSize
  /\ EMPTY \notin [key : Keys \cup {None}, data : Data \cup {DELETED, None}]
  /\ Goals \subseteq Int
  /\ Own \in [Keys -> SUBSET Data]
  /\ Careless \subseteq {"reuse", "vanish"}

VARIABLES
  table,          \* ht->table, the sparse array; empty: there is no table
  cItems,         \* items
  cDeletedItems,  \* buckets marked deleted
  cDeltaGoalSize, \* insertions (or deletions, if negative) announced
  posLastFind,    \* where the last search ended, NULL, or never set
  iter,           \* the iterator: NULL when it is over, BeforeFirst when none is
  seen,           \* history: the keys the iteration has returned
  copies,         \* the number of copies of each key on the heap
  call,           \* history: the last call: its name and key
  ret             \* history: the item it returned, or NULL

counts == <<cItems, cDeletedItems, cDeltaGoalSize>>
iteration == <<iter, seen>>
history == <<call, ret>>
tvars == <<table, counts, posLastFind, iteration, copies, history>>

Unset == [bin |-> 0, off |-> 1]  \* malloc leaves posLastFind as it is
Item(k, d) == [key |-> k, data |-> d]
Buckets(t) == 0 .. (SizeOf(t) - 1)
cBuckets == SizeOf(table)

-----------------------------------------------------------------------------
(* Probing.                                                                *)

\* The bucket a key belongs in: the number of buckets is a power of two.
Hash(t, k) == HashOf[k] % SizeOf(t)

\* The n-th bucket probed for k: JUMP adds 1, then 2, then 3.
Probe(t, k, n) == (Hash(t, k) + (n * (n + 1)) \div 2) % SizeOf(t)

\* The first probe of k, in as many as there are buckets, that ends in stops.
FirstProbe(t, k, stops) ==
  LET hits == {n \in Buckets(t) : Probe(t, k, n) \in stops}
  IN IF hits = {} THEN {} ELSE {CHOOSE n \in hits : \A m \in hits : n <= m}

EmptyBuckets(t) == {loc \in Buckets(t) : SparseIsEmpty(t, loc)}

DataAt(t, loc) == Deref(t, SPARSE_BUCKET(t, loc)).data
KeyAt(t, loc) == Deref(t, SPARSE_BUCKET(t, loc)).key

DeletedBuckets(t) ==
  {loc \in Buckets(t) : ~SparseIsEmpty(t, loc) /\ DataAt(t, loc) = DELETED}

LiveBuckets(t) ==
  {loc \in Buckets(t) : ~SparseIsEmpty(t, loc) /\ DataAt(t, loc) # DELETED}

\* Mutant: a search ends at a deleted bucket too.
StopsAtMark(t, k) ==
  EmptyBuckets(t) \cup DeletedBuckets(t) \cup
  {loc \in LiveBuckets(t) : KeyAt(t, loc) = k}

\* Where a search for k ends: at an empty bucket or at the item of k.
Stops(t, k) ==
  EmptyBuckets(t) \cup {loc \in LiveBuckets(t) : KeyAt(t, loc) = k}

\* Find: the item of k, or NULL.
Find(t, k) ==
  LET n == CHOOSE n \in FirstProbe(t, k, Stops(t, k)) : TRUE
  IN SparseFind(t, Probe(t, k, n))

\* *piEmpty of Find: the first empty or deleted bucket on the way.
Open(t, k) ==
  LET n == CHOOSE n \in
             FirstProbe(t, k, EmptyBuckets(t) \cup DeletedBuckets(t)) : TRUE
  IN Probe(t, k, n)

-----------------------------------------------------------------------------
(* Rehashing.                                                              *)

\* The highest power of two in x, doubled.  For 0 that is 0.
NextPow2(x) ==
  IF x = 0 THEN 0
  ELSE 2 * CHOOSE p \in 1 .. x : PowerOfTwo(p) /\ x < 2 * p

\* An item goes to the first empty bucket on its way.
Place(t, item) ==
  SparseInsert(t, Open(t, item.key), item, FALSE)

\* Mutant: marked items are taken along.
MovedItems(t, watch) ==
  {loc \in Buckets(t) \ EmptyBuckets(t) : SPARSE_BUCKET(t, loc) # watch}

\* The buckets an iteration returns, but for the one that watch points to.
Moving(t, watch) == {loc \in LiveBuckets(t) : SPARSE_BUCKET(t, loc) # watch}

\* Their items moved to the table new, in the order of the buckets.
MoveAll(t, watch, new) ==
  LET moving == Moving(t, watch)
      upTo[n \in 0 .. SizeOf(t)] ==
        IF n = 0 THEN new
        ELSE IF n - 1 \notin moving THEN upTo[n - 1]
        ELSE Place(upTo[n - 1], Deref(t, SPARSE_BUCKET(t, n - 1)))
  IN upTo[SizeOf(t)]

\* The item placed, and where.
Placed(t, item) ==
  LET loc == Open(t, item.key)
      new == SparseInsert(t, loc, item, FALSE)
  IN [table |-> new, item |-> SPARSE_BUCKET(new, loc)]

\* Mutant: the watched item is moved first.
RehashWatchedFirst(t, n, watch) ==
  LET none  == SparseAllocate(n)
      first == IF watch = Null THEN [table |-> none, item |-> Null]
               ELSE Placed(none, Deref(t, watch))
  IN [first EXCEPT !.table = MoveAll(t, watch, @)]

\* Rehash: everything but the marked items moves to a new array.  The watched
\* item is the last, so that none moves it away from where it is returned.
Rehash(t, n, watch) ==
  LET new == MoveAll(t, watch, SparseAllocate(n))
  IN IF watch = Null THEN [table |-> new, item |-> Null]
     ELSE Placed(new, Deref(t, watch))

-----------------------------------------------------------------------------
(* The calls.                                                              *)

Call(op, k) == [op |-> op, key |-> k]

Init ==
  /\ table = SparseAllocate(MinSize)
  /\ cItems = 0 /\ cDeletedItems = 0 /\ cDeltaGoalSize = 0
  /\ posLastFind = Unset
  /\ iter = BeforeFirst /\ seen = <<>>
  /\ copies = [k \in Keys |-> 0]
  /\ call = Call("allocate", None) /\ ret = Null

\* A call that may not come in the middle of an iteration ends it.
EndIteration == iter' = BeforeFirst /\ seen' = <<>>

\* Mutant: the table is filled to its last bucket.
TooFullLate(items, deleted, goal) == items + deleted > cBuckets \/ goal < 0

\* An insertion rehashes: half of the buckets are in use, marked ones included,
\* or deletions had been announced.
TooFull(items, deleted, goal) == 2 * (items + deleted) >= cBuckets \/ goal < 0

\* The buckets Rehash is asked for, at an occupancy of one half.
BucketsFor(items, goal) == NextPow2(2 * (items + (IF goal > 0 THEN goal ELSE 0)))

\* Insert, when the key has this item: its data is replaced or not.
InsertFound(item, d, overwrite) ==
  /\ table' = IF overwrite
              THEN Overwrite(table, item, [Deref(table, item) EXCEPT !.data = d])
              ELSE table
  /\ ret' = item
  /\ UNCHANGED <<counts, copies>>

\* Insert, when it is not: a copy of the key and the data go to the first open
\* bucket, and the table may be rehashed.  A bucket that is only marked deleted
\* counts as taken in SparseInsert, which leaves it if it may not overwrite.
InsertNew(k, d, overwrite) ==
  LET loc     == Open(table, k)
      reused  == ~SparseIsEmpty(table, loc)
      t       == SparseInsert(table, loc, Item(k, d), overwrite)
      deleted == cDeletedItems - (IF reused THEN 1 ELSE 0)
      goal    == cDeltaGoalSize - (IF cDeltaGoalSize > 0 THEN 1 ELSE 0)
      items   == cItems + 1
      new     == Rehash(t, BucketsFor(items, goal), SPARSE_BUCKET(t, loc))
  IN /\ reused /\ ~overwrite => "reuse" \in Careless
     /\ cItems' = items /\ cDeltaGoalSize' = goal
     /\ copies' = [copies EXCEPT ![k] = @ + 1]
     /\ IF TooFull(items, deleted, goal)
        THEN table' = new.table /\ ret' = new.item /\ cDeletedItems' = 0
        ELSE table' = t /\ ret' = SPARSE_BUCKET(t, loc) /\ cDeletedItems' = deleted

Insert(op, k, d, overwrite) ==
  /\ table # <<>>
  /\ LET item == Find(table, k)
     IN \/ item # Null /\ InsertFound(item, d, overwrite)
        \/ item = Null /\ InsertNew(k, d, overwrite)
  /\ posLastFind' = Null
  /\ call' = Call(op, k)
  /\ EndIteration

HashInsert(k, d) == Insert("insert", k, d, TRUE)
HashFindOrInsert(k, d) == Insert("find_or_insert", k, d, FALSE)

HashFind(k) ==
  /\ table # <<>>
  /\ posLastFind' = Find(table, k)
  /\ call' = Call("find", k) /\ ret' = posLastFind'
  /\ UNCHANGED <<table, counts, iteration, copies>>

\* What the last search found, if nothing came after it.  In a new table, that
\* is whatever malloc left there: it is not asked, here and in HashDeleteLast.
HashFindLast ==
  /\ posLastFind # Unset
  /\ ret' = posLastFind
  /\ call' = Call("find_last", None)
  /\ UNCHANGED <<table, counts, posLastFind, iteration, copies>>

\* The table shrinks when less than 40 percent of half of it would be in use.
TooEmpty(items, goal) ==
  /\ 5 * items < cBuckets
  /\ goal >= 0
  /\ cBuckets \div 2 >= MinSize

\* Mutant: posLastFind is left where it was.
DeleteKeepingLast(item) ==
  LET k     == Deref(table, item).key
      t     == Overwrite(table, item, Item(k, DELETED))
      goal  == cDeltaGoalSize + (IF cDeltaGoalSize < 0 THEN 1 ELSE 0)
      items == cItems - 1
      size  == BucketsFor(items, goal)
  IN /\ TooEmpty(items, goal) /\ size = 0 => "vanish" \in Careless
     /\ IF TooEmpty(items, goal)
        THEN table' = Rehash(t, size, Null).table /\ cDeletedItems' = 0
        ELSE table' = t /\ cDeletedItems' = cDeletedItems + 1
     /\ cItems' = items /\ cDeltaGoalSize' = goal
     /\ copies' = [copies EXCEPT ![k] = @ - 1]
     /\ posLastFind' = item /\ call' = Call("delete", k) /\ ret' = Null
     /\ EndIteration

\* Delete: the bucket is marked, the copy of the key freed.
Delete(item) ==
  LET k     == Deref(table, item).key
      t     == Overwrite(table, item, Item(k, DELETED))
      goal  == cDeltaGoalSize + (IF cDeltaGoalSize < 0 THEN 1 ELSE 0)
      items == cItems - 1
      size  == BucketsFor(items, goal)
  IN /\ TooEmpty(items, goal) /\ size = 0 => "vanish" \in Careless
     /\ IF TooEmpty(items, goal)
        THEN table' = Rehash(t, size, Null).table /\ cDeletedItems' = 0
        ELSE table' = t /\ cDeletedItems' = cDeletedItems + 1
     /\ cItems' = items /\ cDeltaGoalSize' = goal
     /\ copies' = [copies EXCEPT ![k] = @ - 1]
     /\ posLastFind' = Null /\ call' = Call("delete", k) /\ ret' = Null
     /\ EndIteration

HashDelete(k) ==
  /\ table # <<>>
  /\ Find(table, k) # Null
  /\ Delete(Find(table, k))

\* A key that is not there: the search leaves its traces all the same.
HashDeleteMissing(k) ==
  /\ table # <<>>
  /\ Find(table, k) = Null
  /\ posLastFind' = Null /\ call' = Call("delete", k) /\ ret' = Null
  /\ UNCHANGED <<table, counts, iteration, copies>>

\* HashDeleteLast: what the last search found goes, without a search.
HashDeleteLast ==
  /\ posLastFind \notin {Null, Unset}
  /\ Delete(posLastFind)

HashSetDeltaGoalSize(n) ==
  /\ table # <<>>
  /\ cDeltaGoalSize' = n
  /\ UNCHANGED <<table, cItems, cDeletedItems, posLastFind, iteration, copies,
                 history>>

\* Mutant: the marked buckets have their copies freed once more.
CopiesLeftAll ==
  [k \in Keys |->
    copies[k] - Cardinality({loc \in Buckets(table) \ EmptyBuckets(table) :
                               KeyAt(table, loc) = k})]

\* The copies of the keys that are not those of the items an iteration finds.
CopiesLeft ==
  [k \in Keys |->
    copies[k] - Cardinality({loc \in LiveBuckets(table) : KeyAt(table, loc) = k})]

\* ClearHashTable: those are freed, and an array of the least size allocated.
ClearHashTable ==
  /\ table # <<>>
  /\ table' = SparseAllocate(MinSize)
  /\ cItems' = 0 /\ cDeletedItems' = 0 /\ cDeltaGoalSize' = 0
  /\ copies' = CopiesLeft
  /\ posLastFind' = Null /\ call' = Call("clear", None) /\ ret' = Null
  /\ EndIteration

\* FreeHashTable: the same without a new array.
FreeHashTable ==
  /\ table # <<>>
  /\ table' = <<>>
  /\ cItems' = 0 /\ cDeletedItems' = 0 /\ cDeltaGoalSize' = 0
  /\ copies' = CopiesLeft
  /\ posLastFind' = Unset /\ call' = Call("free", None) /\ ret' = Null
  /\ EndIteration

AllocateHashTable ==
  /\ call.op = "free"
  /\ table' = SparseAllocate(MinSize)
  /\ call' = Call("allocate", None)
  /\ UNCHANGED <<counts, posLastFind, iteration, copies, ret>>

\* One round of the loops of HashFirstBucket and HashNextBucket: from the start
\* or from where the iterator is to the next item, which is not returned if it is
\* marked.
IterateFrom(at) ==
  LET next == SparseNextBucket(table, at)
      item == Deref(table, next)
  IN /\ iter' = next
     /\ seen' = LET before == IF at = BeforeFirst THEN <<>> ELSE seen
                IN IF next = Null \/ item.data = DELETED
                   THEN before ELSE Append(before, item.key)
     /\ UNCHANGED <<table, counts, posLastFind, copies, history>>

HashFirstBucket == table # <<>> /\ IterateFrom(BeforeFirst)
HashNextBucket == iter \notin {Null, BeforeFirst} /\ IterateFrom(iter)

-----------------------------------------------------------------------------
(* Saving and loading, as functions of the table.                          *)

\* The n-th of a set of buckets, in the order of an iteration.
Rank(locs, loc) == Cardinality({l \in locs : l < loc})
Nth(locs, n) == CHOOSE loc \in locs : Rank(locs, loc) = n - 1

\* HashSave: the bitmaps, the keys of the items, and a word for every bucket in
\* use: its data or the mark.
HashSave(t) ==
  LET live == LiveBuckets(t)
      used == Buckets(t) \ EmptyBuckets(t)
  IN [bitmaps |-> SparseWrite(t),
      keys    |-> [n \in 1 .. Cardinality(live) |-> KeyAt(t, Nth(live, n))],
      words   |-> [n \in 1 .. Cardinality(used) |-> DataAt(t, Nth(used, n))]]

\* READ_UL of a WRITE_UL: htonl and ntohl are for 32 bits, those kept.  A longer
\* word loses the others, which the mark needs (and the data do not).
Word(d, kept) == IF d = DELETED /\ kept < GroupSize THEN None ELSE d

\* Mutant: a marked bucket uses up a key.
DoLoadKeyEach(f, kept, short, onDisk) ==
  LET live(n) == Word(f.words[n], kept) # DELETED
      key(n)  == IF n \in DOMAIN f.keys THEN f.keys[n] ELSE None
      item == [n \in DOMAIN f.words |->
        IF ~live(n) THEN Item(None, DELETED)
        ELSE Item(IF key(n) \in short THEN None ELSE key(n),
                  IF onDisk THEN n ELSE Word(f.words[n], kept))]
  IN SparseRead(f.bitmaps, 0 .. (kept - 1), item)

\* HashDoLoad: every bucket in use takes the next word, and the next key unless
\* the word is the mark.  HashLoadKeys leaves the data on disk, at place n.
\* Short keys are copied into a part of a word that malloc left as it was, and
\* what comes out is the key of nobody.
HashDoLoad(f, kept, short, onDisk) ==
  LET live(n)  == Word(f.words[n], kept) # DELETED
      keyNo(n) == Cardinality({m \in 1 .. n : live(m)})
      key(n)   == IF keyNo(n) \in DOMAIN f.keys THEN f.keys[keyNo(n)] ELSE None
      item == [n \in DOMAIN f.words |->
        IF ~live(n) THEN Item(None, DELETED)
        ELSE Item(IF key(n) \in short THEN None ELSE key(n),
                  IF onDisk THEN n ELSE Word(f.words[n], kept))]
  IN SparseRead(f.bitmaps, 0 .. (kept - 1), item)

\* All the words that HashSave writes for t outlive a file that keeps these bits.
Fits(t, kept) ==
  \/ kept = GroupSize
  \/ /\ DeletedBuckets(t) = {}
     /\ \A g \in DOMAIN t : t[g].bmOccupied \subseteq 0 .. (kept - 1)

\* The data of the item of k, or None; LOAD_AND_RETURN gets it off the disk.
Lookup(t, k) ==
  LET item == Find(t, k) IN IF item = Null THEN None ELSE Deref(t, item).data
LoadAndReturn(f, t, k) ==
  LET item == Find(t, k) IN IF item = Null THEN None ELSE f.words[Deref(t, item).data]

\* PrintHashTable: what it counts, of which it asserts the first.
PrintHashTable(t) ==
  [cItems    |-> Cardinality(LiveBuckets(t)),
   cOccupied |-> Cardinality(Buckets(t) \ EmptyBuckets(t))]

-----------------------------------------------------------------------------
Next ==
  \/ \E k \in Keys : \E d \in Own[k] : HashInsert(k, d) \/ HashFindOrInsert(k, d)
  \/ \E k \in Keys : HashFind(k) \/ HashDelete(k) \/ HashDeleteMissing(k)
  \/ HashFindLast \/ HashDeleteLast
  \/ \E n \in Goals : HashSetDeltaGoalSize(n)
  \/ ClearHashTable \/ FreeHashTable \/ AllocateHashTable
  \/ HashFirstBucket \/ HashNextBucket

Spec == Init /\ [][Next]_tvars

-----------------------------------------------------------------------------
(* Properties.                                                             *)

\* The type of the state: a group has an item for every bit of its bitmap, and
\* every item has a key and data or the mark.
TypeOK ==
  /\ \A g \in DOMAIN table :
       /\ table[g].bmOccupied \subseteq Positions
       /\ Len(table[g].binSparse) = Cardinality(table[g].bmOccupied)
       /\ \A i \in DOMAIN table[g].binSparse :
            table[g].binSparse[i] \in [key : Keys, data : Data \cup {DELETED}]
  /\ cItems \in Nat /\ cDeletedItems \in Nat /\ cDeltaGoalSize \in Int
  /\ copies \in [Keys -> Nat]

\* libchash.c:1525 assert( cItems == ht->cItems ) in PrintHashTable: an iteration
\* counts as many items as the table does, and as many marked buckets, on which
\* growing depends, through all the growing and shrinking.
CountsAgree ==
  /\ PrintHashTable(table).cItems = cItems
  /\ PrintHashTable(table).cOccupied = cItems + cDeletedItems

\* A search has no test for having been round: there is an empty bucket on the
\* way of every key, in every size the table takes, so that it ends.
SearchEnds ==
  call.op # "free" =>
    \A k \in Keys : FirstProbe(table, k, EmptyBuckets(table)) # {}

\* Every copy of a key on the heap is that of one item, and every item has its
\* own: none leaks and none is freed twice.
CopiesOwned ==
  \A k \in Keys :
    copies[k] = Cardinality({loc \in LiveBuckets(table) : KeyAt(table, loc) = k})

\* posLastFind, which HashDeleteLast marks without a look, is an item or NULL,
\* although insertions move items and rehashing frees the arrays they are in.
LastFindLive ==
  posLastFind \in {Null, Unset} \cup
    {SPARSE_BUCKET(table, loc) : loc \in LiveBuckets(table)}

\* An iteration that is over has returned every item once.
IterationExact ==
  iter = Null =>
    /\ ToSet(seen) = {KeyAt(table, loc) : loc \in LiveBuckets(table)}
    /\ Len(seen) = cItems

\* A search for a key that is in the table ends at its item, wherever items
\* before it on its way were deleted, and no key is in the table twice.
Reachable ==
  \A loc \in LiveBuckets(table) :
    Find(table, KeyAt(table, loc)) = SPARSE_BUCKET(table, loc)

\* What is saved and loaded again, with the data or without, is the same map
\* (libchash.c:1340 "The key is saved automatically and restored upon load"),
\* whatever the bits that a file keeps of a word, as long as those of this table
\* are among them.  On LP64 they often are not: half of every bitmap and all the
\* marks are lost (libchash.c:199).  Keys that are stored in the bucket and
\* shorter than it (libchash.c:1450) may be lost, and only they.
SavedWhole ==
  table # <<>> =>
    \A kept \in 1 .. GroupSize, short \in SUBSET Keys :
      Fits(table, kept) =>
        LET f == HashSave(table)
            t == HashDoLoad(f, kept, short, FALSE)
            d == HashDoLoad(f, kept, short, TRUE)
        IN \A k \in Keys \ short :
             LET saved == Lookup(table, k)
             IN Lookup(t, k) = saved /\ LoadAndReturn(f, d, k) = saved

\* Sparse arrays can take the place of dense ones (the choice of Table in
\* libchash.h): an insertion anywhere in a table that occurs changes the bucket
\* it is for and no other, and iterators go the same way.  Files are the same
\* where a bitmap is a word (LP64); DenseWrite cannot work where it is less.
SparseIsDense ==
  LET dense     == Dense(table)
      item      == Item(None, None)
      used      == {loc \in Buckets(table) : DenseFind(dense, loc) # EMPTY}
      place(at) == IF at = -1 THEN BeforeFirst ELSE SPARSE_BUCKET(table, at)
  IN /\ \A loc \in Buckets(table), overwrite \in BOOLEAN :
          Dense(SparseInsert(table, loc, item, overwrite)) =
            DenseInsert(dense, loc, item, overwrite)
     /\ \A at \in used \cup {-1} :
          {SparseNextBucket(table, place(at))} \ {Null} =
            {place(next) : next \in DenseNextBucket(dense, at)}
     /\ WordBits = GroupSize =>
          /\ DenseWrite(dense) = SparseWrite(table)
          /\ DenseRead(cBuckets, SparseWrite(table)) = used

\* The data of every key in a table, and of the item a pointer points to.
Entry(t) ==
  [k \in Keys |->
    LET items == {item \in UNION {ToSet(t[g].binSparse) : g \in DOMAIN t} :
                    item.key = k /\ item.data # DELETED}
    IN IF items = {} THEN None ELSE (CHOOSE item \in items : TRUE).data]

Answer(t, bck) == IF bck = Null THEN None ELSE Deref(t, bck).data

\* The table is a map, with the answers a map gives: refinement of KeyMap.
Map == INSTANCE KeyMap WITH entry <- Entry(table), answer <- Answer(table, ret)

ImplementsMap == Map!Spec
==============================================================================
