----------------------------- MODULE SpentIndex -----------------------------
(***************************************************************************)
(* A database handle of bzing (src/src/bzing.c): the inventory index, kept *)
(* in one of the storage engines, and the spent map, kept in the heap of   *)
(* the process.  The actions are the operations of the API, in any order   *)
(* a caller can make them, and the end of the process at any moment.       *)
(*                                                                         *)
(* An operation is one step: the library has no threads and takes no       *)
(* callbacks.  A process that dies in the middle of an operation leaves    *)
(* the index as it was before or after the operation's only write to it,   *)
(* and takes everything else with it, so Crash between operations covers   *)
(* it.                                                                     *)
(***************************************************************************)
EXTENDS SpentWord

CONSTANTS
  Engine,     \* the engine the library was built for (BZ_EID_DEFAULT)
  Txs,        \* hashes of transactions
  Blocks,     \* hashes of blocks
  NOut,       \* NOut[t]: the number of outputs of transaction t
  Offsets,    \* places in the block file where blocks and transactions start
  Absent,     \* no entry in the index
  Junk,       \* memory that malloc returned and nobody wrote
  Zero,       \* memory that was cleared
  InitSlots,  \* BZ_SPENT_INIT_SIZE, in slots of 8 bytes (512 in the source)
  MaxLen,     \* bound: the spent map never has more slots in use
  MaxIndex    \* bound: the largest output index a raw caller passes

Hashes == Txs \cup Blocks

Engines == {"khash", "tc", "kc", "bdb", "ldb"}

ASSUME IndexAssumption ==
  /\ Engine \in Engines
  /\ Txs \cap Blocks = {}
  /\ NOut \in [Txs -> 0 .. UMask]
  /\ {Absent, Junk, Zero} \cap Offsets = {}
  /\ Absent \notin [offset : Offsets, spent : SpentWords]
  /\ InitSlots \in Nat \ {0}
  /\ MaxIndex \in Nat
  /\ MaxLen \in 1 .. UMark   \* 2^56 slots of 8 bytes fit in no memory

\* The engines that keep the index in a file of the working directory.
Persistent == Engine \in {"tc", "kc", "bdb", "ldb"}

\* khash looks a key up with kh_put, which inserts it when it is missing.
InsertsOnLookup == Engine = "khash"

VARIABLES
  mode,        \* "dead": no handle; "ready"; "corrupt": a write went astray
  index,       \* the entry of each hash, or Absent
  spent_len,   \* hnd->spent_len: slots in use
  spent_size,  \* hnd->spent_size, in slots: slots allocated
  spent_data,  \* hnd->spent_data: the slots
  fresh        \* history: transactions recorded since the spent map is new

spentMap == <<spent_len, spent_size, spent_data>>
vars == <<mode, index, spentMap, fresh>>

Entries == [offset : Offsets, spent : SpentWords]
NoIndex == [h \in Hashes |-> Absent]
Outputs(t) == 0 .. (NOut[t] - 1)

Init ==
  /\ mode = "dead"
  /\ index = NoIndex
  /\ spent_len = 0
  /\ spent_size = 0
  /\ spent_data = [s \in {} |-> Zero]
  /\ fresh = {}

-----------------------------------------------------------------------------
(* The life of a handle.                                                   *)

\* Mutant: the first slot handed out is slot 0.
AllocAtZero ==
  /\ mode = "dead"
  /\ mode' = "ready"
  /\ spent_len' = 0
  /\ spent_size' = InitSlots
  /\ spent_data' = [s \in 0 .. (InitSlots - 1) |-> Junk]
  /\ UNCHANGED <<index, fresh>>

\* bzing_alloc: opens the index and starts an empty, uncleared spent map.
Alloc ==
  /\ mode = "dead"
  /\ mode' = "ready"
  /\ spent_len' = 1
  /\ spent_size' = InitSlots
  /\ spent_data' = [s \in 0 .. (InitSlots - 1) |-> Junk]
  /\ UNCHANGED <<index, fresh>>

\* The handle is gone, and the spent map with it.
HandleLost ==
  /\ mode' = "dead"
  /\ spent_len' = 0
  /\ spent_size' = 0
  /\ spent_data' = [s \in {} |-> Zero]
  /\ fresh' = {}

\* bzing_free: closes the index; what a file holds stays.
Free ==
  /\ mode = "ready"
  /\ index' = IF Persistent THEN index ELSE NoIndex
  /\ HandleLost

\* The process dies.  Which of its writes reached the file is up to the engine:
\* of an entry it has the last version, the one of before its first spend, or
\* none.  (The versions from before a transaction was recorded anew are left
\* out: they differ from these in the place alone, or in a stale region.)
Crash ==
  /\ mode # "dead"
  /\ \E kept, older \in SUBSET {h \in Hashes : index[h] # Absent} :
       /\ Persistent \/ kept = {}
       /\ older \subseteq kept \cap Txs
       /\ index' = [h \in Hashes |->
                     IF h \in older
                     THEN [index[h] EXCEPT !.spent = UnspentWord(NOut[h])]
                     ELSE IF h \in kept THEN index[h] ELSE Absent]
  /\ HandleLost

\* Mutant: the reset also takes the spent map back to its first slot.
ResetLen ==
  /\ mode = "ready"
  /\ IF Engine = "ldb"
     THEN UNCHANGED <<index, fresh>>
     ELSE index' = NoIndex /\ fresh' = {}
  /\ spent_len' = 1
  /\ UNCHANGED <<mode, spent_size, spent_data>>

\* bzing_reset: empties the index, except on LevelDB, and keeps the spent map.
Reset ==
  /\ mode = "ready"
  /\ IF Engine = "ldb"
     THEN UNCHANGED <<index, fresh>>
     ELSE index' = NoIndex /\ fresh' = {}
  /\ UNCHANGED <<mode, spentMap>>

-----------------------------------------------------------------------------
(* Recording blocks and transactions.                                      *)

\* bzing_inv_set
InvSet(h, off, w) ==
  index' = [index EXCEPT ![h] = [offset |-> off, spent |-> w]]

\* The index entry of a block, written by bzing_block_add.
AddBlock(b, off) ==
  /\ mode = "ready"
  /\ InvSet(b, off, BlockWord)
  /\ UNCHANGED <<mode, spentMap, fresh>>

\* The index entry of a transaction, written by bzing_block_add after it
\* has parsed the transaction.  An entry that was there is overwritten.
AddTx(t, off) ==
  /\ mode = "ready"
  /\ InvSet(t, off, UnspentWord(NOut[t]))
  /\ fresh' = fresh \cup {t}
  /\ UNCHANGED <<mode, spentMap>>

-----------------------------------------------------------------------------
(* bzing_spent_mark: output i of transaction h is spent by the transaction *)
(* that starts at off.                                                     *)

\* Mutant: the map grows only once it is more than one slot too small.
GrownSizeLate(len) ==
  IF len > spent_size + 1 THEN 2 * spent_size ELSE spent_size

\* bzing_spent_reserve doubles the map, once, when len slots do not fit.
GrownSize(len) == IF len > spent_size THEN 2 * spent_size ELSE spent_size

\* Mutant: one slot too few is taken.
LenAfterShort(count) == spent_len + count - 1

\* The slots in use after bzing_spent_reserve(count).
LenAfter(count) == spent_len + count

\* Mutant: memset clears one slot too many.
GrownDataPastEnd(size) ==
  [s \in 0 .. size |-> IF s < spent_size THEN spent_data[s] ELSE Zero]

\* realloc keeps the old slots, memset clears the new ones.
GrownData(size) ==
  [s \in 0 .. (size - 1) |-> IF s < spent_size THEN spent_data[s] ELSE Zero]

\* Writes off to a slot.  Beyond the allocated slots it hits other memory.
StoreSlot(data, slot, off) ==
  /\ mode' = IF slot \in DOMAIN data THEN mode ELSE "corrupt"
  /\ spent_data' = [s \in DOMAIN data |-> IF s = slot THEN off ELSE data[s]]

\* The entries a lookup of h can return.  A missing key makes khash insert an
\* entry whose value nobody initialised; the other engines return NULL.
Found(h) ==
  IF index[h] # Absent THEN {index[h]}
  ELSE IF InsertsOnLookup THEN Entries ELSE {}

\* The entry is a block or a transaction without outputs: return 0 early.
MarkRejected(h) ==
  /\ mode = "ready"
  /\ \E e \in Found(h) :
       /\ IsBlock(e.spent) \/ (IsUnspent(e.spent) /\ CountOf(e.spent) = 0)
       /\ index' = [index EXCEPT ![h] = e]
  /\ UNCHANGED <<mode, spentMap, fresh>>

\* The first output of h to be spent: a region is reserved for all of them.
MarkFirst(h, i, off) ==
  /\ mode = "ready"
  /\ \E e \in Found(h) :
       LET len == LenAfter(CountOf(e.spent))
           w   == [quick |-> {}, pos |-> spent_len]
       IN /\ IsUnspent(e.spent) /\ CountOf(e.spent) > 0
          /\ len <= MaxLen
          /\ spent_len' = len
          /\ spent_size' = GrownSize(len)
          /\ StoreSlot(GrownData(GrownSize(len)), spent_len + i, off)
          /\ InvSet(h, e.offset, Quicken(w, i))
  /\ UNCHANGED fresh

\* A later one: the region is there.
MarkAgain(h, i, off) ==
  /\ mode = "ready"
  /\ \E e \in Found(h) :
       /\ IsPlaced(e.spent)
       /\ StoreSlot(spent_data, e.spent.pos + i, off)
       /\ InvSet(h, e.offset, Quicken(e.spent, i))
  /\ UNCHANGED <<spent_len, spent_size, fresh>>

SpentMark(h, i, off) ==
  MarkRejected(h) \/ MarkFirst(h, i, off) \/ MarkAgain(h, i, off)

\* The lookup returned NULL, and the code reads through it.
MarkUnknown(h) ==
  /\ mode = "ready"
  /\ Found(h) = {}
  /\ UNCHANGED index
  /\ HandleLost

-----------------------------------------------------------------------------
Lifecycle == Alloc \/ Free \/ Crash \/ Reset

Recording ==
  \/ \E b \in Blocks, off \in Offsets : AddBlock(b, off)
  \/ \E t \in Txs, off \in Offsets : AddTx(t, off)

\* The discipline of a caller that feeds a valid chain from its start: it
\* spends outputs that exist, of transactions this handle has recorded.
Next ==
  \/ Lifecycle
  \/ Recording
  \/ \E t \in fresh, off \in Offsets :
       \E i \in Outputs(t) : SpentMark(t, i, off)

Spec == Init /\ [][Next]_vars

\* Any caller: nothing checks the hash and the index of an outpoint, and a
\* handle can be opened over the index that an earlier process left behind.
RawNext ==
  \/ Lifecycle
  \/ Recording
  \/ \E h \in Hashes, i \in 0 .. MaxIndex, off \in Offsets : SpentMark(h, i, off)
  \/ \E h \in Hashes : MarkUnknown(h)

RawSpec == Init /\ [][RawNext]_vars

-----------------------------------------------------------------------------
(* Properties.                                                             *)

\* The type invariant: among others, no word of the index leaves its 64 bits,
\* and the slots are those allocated (bzing_alloc, bzing_spent_reserve).
TypeOK ==
  /\ mode \in {"dead", "ready", "corrupt"}
  /\ index \in [Hashes -> Entries \cup {Absent}]
  /\ spent_len \in Nat
  /\ spent_size \in Nat
  /\ spent_data \in [0 .. (spent_size - 1) -> Offsets \cup {Junk, Zero}]
  /\ fresh \in SUBSET Txs

\* t has a region of the spent map.
Placed(t) == t \in fresh /\ IsPlaced(index[t].spent)

Region(t) ==
  index[t].spent.pos .. (index[t].spent.pos + NOut[t] - 1)

\* The spender recorded for output i of t.
Slot(t, i) == spent_data[index[t].spent.pos + i]

\* No store of bzing_spent_mark falls outside the memory of the spent map.
NoOverrun == mode # "corrupt"

\* Every region lies inside the slots in use and starts after slot 0, and no
\* two transactions share a slot, however often the map grew, the index was
\* reset or transactions were recorded again.
RegionsApart ==
  /\ \A t \in fresh : Placed(t) => Region(t) \subseteq 1 .. (spent_len - 1)
  /\ \A t, u \in fresh :
       Placed(t) /\ Placed(u) /\ t # u => Region(t) \cap Region(u) = {}

\* The bits in the index agree with the slots in memory: the bit of one of
\* the first outputs is set exactly when its slot names a spender.
QuickBitsAgree ==
  \A t \in fresh : Placed(t) =>
    \A i \in QuickIndex :
      i \in index[t].spent.quick <=> (i \in Outputs(t) /\ Slot(t, i) \in Offsets)

\* What the handle records is a spend ledger: refinement of SpendLedger.
Ledger == INSTANCE SpendLedger WITH
  NoOffset <- Absent,
  location <- [t \in Txs |-> IF t \in fresh THEN index[t].offset ELSE Absent],
  spender  <- [t \in Txs |-> [i \in Outputs(t) |->
                 IF Placed(t) /\ Slot(t, i) \in Offsets
                 THEN Slot(t, i) ELSE Absent]]

\* The order of the calls does not matter to it: where a transaction starts and
\* who spent its outputs is never lost, mixed up or made up.
LedgerSpec == Ledger!Spec

-----------------------------------------------------------------------------
(* Properties of RawSpec: what survives callers that break the discipline. *)

\* bzing_chain.h:77-80 call spent_len the used length and spent_size the
\* length that is available before the memory must be resized: what is in use
\* is available.
UsedWithinAvailable == mode = "ready" => spent_len <= spent_size

\* Slot 0 is never handed out and never written, neither for a transaction of
\* this handle nor through an entry that an earlier handle left in the index.
SlotZeroUnused ==
  0 \in DOMAIN spent_data => spent_data[0] = Junk

\* Spends never turn a block into a transaction or the reverse: the word of a
\* block stays its word, and that of a transaction never reads as a block,
\* while the entry is there.
KindsKept ==
  [][/\ \A b \in Blocks :
          index[b] # Absent /\ IsBlock(index[b].spent) /\ index'[b] # Absent
            => IsBlock(index'[b].spent)
     /\ \A t \in Txs :
          index[t] # Absent /\ ~IsBlock(index[t].spent) /\ index'[t] # Absent
            => ~IsBlock(index'[t].spent)]_vars

-----------------------------------------------------------------------------
(* What the documentation says and the code does not do.                   *)

\* Every placed entry of the index of an open handle has its region below
\* spent_len, the "used length" of the spent map (bzing_chain.h:77).
PlacedWithinUsed ==
  mode = "ready" =>
    \A t \in Txs : index[t] # Absent /\ IsPlaced(index[t].spent) =>
                  Region(t) \subseteq 1 .. (spent_len - 1)
=============================================================================
