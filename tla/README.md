# bzing in TLA+

bzing is a C library that indexes a Bitcoin block file: where every block and
transaction starts, and which outputs have been spent by whom. This directory
holds TLA+ models of it, TLC configurations that check them on small instances,
and proofs, checked by TLAPS, of what holds for every size. Paths below are
relative to the repository (`src/bzing.c` is the library proper).

## 1. Inventory

The library has one thread and takes no callbacks. What makes it hard is not
concurrency but *lifetimes*: one fact is kept in several places which are
created, moved, reset and lost at different times.

| Component | State | Operations | Hard behaviour | What makes it correct |
|---|---|---|---|---|
| Handle (`bzing.c:61-267`) | engine, index, spent map | `bzing_alloc`, `bzing_free`, `bzing_reset` | the index may be a file, the spent map never is; reset clears one of the two, on LevelDB neither | nothing recorded before shows through afterwards |
| Inventory index (`bzing.c:294-579`) | hash -> (offset, spent word) in one of 8 engines | `bzing_inv_set/get`, cursors | a lookup inserts (khash, align), returns NULL or dies; keys cut to 64 bits, addresses stored for contents, results and errors dropped, cursors left behind by `bzing_free` | an engine that keeps an entry per hash answers the one stored last, and an error loses no other; blocks and transactions stay apart |
| Spent word (`api/bzing_types.h:47-69`) | 64 bits of three meanings | marker tests, quick bits | kinds told apart by value ranges, in order | no meaning is taken for another |
| Spent map (`bzing.c:269-288`, `581-655`) | array of slots, used and available length | `bzing_spent_reserve`, `bzing_spent_mark` | growth moves it, its first part is never cleared | regions inside and apart, bits and slots agree |
| Block walk (`bzing.c:657-753`) | position in the file | `bzing_block_add`, `bzing_index_regen` | killed anywhere, run again over what is left; repeated transactions | the result is what the chain says |
| Merkle root (`util.c:43-87`) | array of tree nodes | `calc_merkle_size`, `calc_merkle_root` | size computed apart from filling | full to the last slot, protocol's root |
| Engine choice (`bzing_engines.h:49-104`) | `BZ_EID_DEFAULT` | preprocessor | a definition before the choice; an engine no switch has a case for | whatever is chosen is an index |
| Framing (`bzing_parser.c`, offsets in `bzing.c:681-717`, `746-751`) | offset | `parse_var_int` | four encodings of a number, no end test but one, unsigned wrap, padding | what is indexed is what the file holds; only an end is taken for an end |
| Hash tables (`klib/khash.h`, `ulib/alignhash_tpl.h`) | buckets, flags | put, clear, resize, iterators | doubled in place, values that survive a clear | a map at every step, every probe ends |
| sparsehash (`sparsehash/libchash.c`) | bitmaps and packed arrays, counts, last find, iterator | find, insert, delete, iterate, announce, save, load | marks for deleted items, shrinking, pointers into arrays that move | a map with right answers; no copy of a key lost or freed twice |
| SHA-256, lookup3, kbtree, headers, test program | - | - | - | not modelled: pure, third-party or unused |

The walk calls the handle; the handle calls the engine and keeps the spent map;
the spent word in the index points into the spent map; `bzing_block_add` ends in
the merkle check, whose failure is only printed.

## 2. Modules

| Module | Models | Proofs |
|---|---|---|
| `SpentWord` | the 64-bit word and its operations | - |
| `SpendLedger` | *abstract*: where a transaction starts, who last spent an output | - |
| `SpentIndex` (extends `SpentWord`, instantiates `SpendLedger`) | a handle: index, spent map, every operation, the end of the process | `SpentIndexProofs` |
| `IndexRegen` (extends `SpentIndex`) | the walk, one step per call into the handle | `IndexRegenProofs` |
| `Framing` | the same walk over the bytes of a file | `FramingProofs` |
| `BlockFile` (extends `Framing`) | what a file holds: the bytes of a chain, the entries it should give, the properties that compare these with the walk | `FramingProofs` |
| `EntryMap` | *abstract*: one entry per hash, a lookup may add one | - |
| `ProbeTable` (instantiates `EntryMap`) | khash and alignhash, a resize step by step | `ProbeTableProofs` |
| `Merkle` | the merkle root, one step per hash | `MerkleProofs` |
| `Inventory` | *abstract*: what `bzing.c` takes an index for: one entry per whole hash, the one stored last | - |
| `EngineBackends` (instantiates `Inventory`) | the choice of the engine and every call of `bzing_inv_*` over each of the eight | `EngineProofs` |
| `KeyMap` | *abstract*: a map from keys to data, with the answers of its calls | - |
| `SparseArray` | the sparse arrays of libchash, and the dense ones | `SparseTableProofs` |
| `SparseTable` (extends `SparseArray`, instantiates `KeyMap`) | the hash table of libchash, one step per call | `SparseTableProofs` |
| `MCSpentIndex`, `MCIndexRegen`, `MCProbeTable`, `MCEngineBackends`, `MCSparseTable`, `MCFraming` | instances for TLC | - |
| `Induction` | induction and least elements, as facts about sets; no model | cited by `ProbeTableProofs`, `SparseTableProofs`, `MerkleProofs`, `FramingProofs` |

### How state and actions correspond to the code

* A word `spent` is a record: `quick`, the set of bits of the high byte, and
  `pos`, the low 56 bits. The masks become comparisons with `UMark` (the marker
  0x00ffffff00000000) and `UMask` (the largest count).
* `index[h]` is the entry of hash `h` or `Absent`. `bzing_inv_set` is `InvSet`;
  the lookups and cursors are `Found(h)`: the entry, or any entry for a hash
  that khash does not know (it inserts one nobody initialised), or nothing (the
  other engines return NULL, `MarkUnknown` is the read through it).
* `spent_len`, `spent_size`, `spent_data` are the fields of the handle, counted
  in slots of 8 bytes. Memory of `malloc` is `Junk`, of `memset` `Zero`. A store
  outside the allocated slots makes `mode` "corrupt", and nothing but the end of
  the process follows.
* `bzing_spent_mark` is one of `MarkRejected` (the two early returns),
  `MarkFirst` (reserve, store, write the entry back), `MarkAgain`,
  `MarkUnknown`. `LenAfter`, `GrownSize`, `GrownData` are `bzing_spent_reserve`.
* `Alloc`, `Free`, `Reset`, `AddBlock`, `AddTx` are `bzing_alloc`, `bzing_free`,
  `bzing_reset` and the two writes of `bzing_block_add`. `Crash` is the end of
  the process: of an index in a file any part may have arrived, an entry in its
  last or its first version; of memory nothing stays.
* `fresh`, the only history variable, is the set of transactions recorded since
  the handle was opened or its index emptied.
* In `IndexRegen` a block is its hash and its transactions, a transaction its
  hash and the outpoints of its inputs; a place in the file is the pair of block
  number and transaction number. `blk`, `tx`, `in` are the loop counters.
* In `Framing` the offset is the one in the file: `outer_offset + offset` of
  `bzing_block_add`. `seen` collects what is handed to the index. A read past the
  file ends the walk in `"astray"`, since what it returns is not data. A byte has
  `Base` values, so the prefixes 0xFD, 0xFE, 0xFF of `parse_var_int` are the three
  highest and words are numbers below `Base^8`.
* In `BlockFile` a chain is a sequence of blocks, a block one of transactions, and of
  inputs and outputs only the script lengths are told apart: all other bytes are
  filler. `Encode` writes a number in the fewest bytes that hold it or in more, as a
  file may. `Wanted` is what the walk should hand over, computed from the chain alone
  (`ThroughTx`, `ThroughIn`, ...: the bytes up to a place, whose length is its offset).
* In `ProbeTable` `kind` says which table it is: they differ in the first size,
  the load factor and the step. A put that finds room is one step. A resize is
  `ResizeStart`, then `ScanSkip`, `ScanTake`, `Kick` for the loops of
  `kh_resize`, then `ResizeDone` and the put. Between `find` and `Write` or
  `Release` a caller holds the iterator `x`. Nothing is ever deleted by bzing, so
  the flag "del" occurs in the old table of a resize only, and `size` stands for
  `n_occupied` too.

* In `EngineBackends` `store[k]` is what the engine holds under `k`: an entry, or
  `Frame`, the address of the variable that `bzing_block_add` passes its entries
  in, whose content is `inv` until the caller returns. `bzing_spent_mark` stores
  too (`bzing.c:648`), but what its lookup returned: on sparsehash that is the
  address of the same variable, so one is enough. `KeyOf` cuts the hash on align.
  `engine` is the case that the switches select, `"none"` when the default is not
  in the build.
* Errors in `EngineBackends`: a put, a lookup, a clear and each call of a cursor
  of Kyoto Cabinet may fail where the code drops the result, and do what they can
  do then (`InvSetFails`, `InvGetFails`, `ResetFails`, `CursorFindFails`, ...); an
  error of LevelDB, whose message pointer nobody sets, may end the process
  (`ErrorDies`), and so does the lookup of a missing hash on sparsehash
  (`MissingDies`). `erred` remembers that the last call had one.
* A cursor has the hash it was put to, the one it is at, and whether its handle is
  still there: `bzing_free` leaves it behind (`hnd |-> FALSE`), and nothing but
  `bzing_inv_cursor_free` may be called with it then. A put that makes a table grow
  moves entries away from an open cursor: `CursorAfterMove` allows it with
  `Careless = {"hold"}` only, since `bzing_spent_mark` makes no call between find
  and set.
* `trusted` says whether the engine is one that keeps what `Inventory` promises:
  khash, the Cabinets, BDB and LevelDB (`Dependable`), and khash no longer once it
  was asked for a hash it does not have, nor LevelDB once it was reset. `Inventory`
  itself is the same for all of them, and is not weakened by any engine: it ends
  when `trusted` does. The others break it at once: align gives two hashes
  one entry (`bzing.c:315`), sparsehash every hash the last entry and none after
  the return (`bzing.c:321`), localmemcache answers nothing (`bzing.c:411`) and is
  not cleared (`bzing.c:240`), and what is not in the build stores nothing.
* In `SparseArray` a group is its bitmap, a set of positions, and its packed
  array, a sequence; a pointer to an item is the pair of group and offset. A group
  has `GroupSize` buckets. `SparseFind` and `SPARSE_BUCKET` count bits as
  `EntriesUpto` does. `DenseWrite` and `DenseRead` go by words of `WordBits`, which
  is 64 on every machine (`ulong`, `libchash.h:120`), where a group has 64 buckets
  on LP64 and 32 elsewhere.
* Loading in `SparseTable` has two parameters for what a file may lose: `kept`, the
  bits of a word that `WRITE_UL` and `READ_UL` leave (32 of 64 on LP64, 32 of 32
  elsewhere), and `short`, the keys that are stored in the bucket in less than a
  word and get the rest from `malloc` (`libchash.c:1450`, `631`).
* In `SparseTable` a call is one step. Searches are written as the first probe
  that ends one (`FirstProbe`); that there is one is `SearchEnds`. `posLastFind`
  and the iterator are pointers, so that one into an array that has moved is seen.
  `copies` counts the keys on the heap (`COPY_KEY`, `FREE_KEY`). `Careless` names
  two kinds of calls that the code gets wrong: `"reuse"`, `HashFindOrInsert` where
  it meets a deleted bucket, and `"vanish"`, the deletion that leaves a table of
  no buckets (`Hash` then masks with `0 - 1`). The first is a run of its own, the
  second is left out by a guard of `Delete` that the code does not have; with
  neither, every order of calls is allowed.

An operation of the handle is one step of `SpentIndex`. It makes one write to
the index at most, so a process that dies inside it leaves what it leaves by
dying just before or just after it. In `IndexRegen` the walk is broken up at
every such call.

There are two specifications of a handle. `Spec` has the discipline of a caller
that feeds a valid chain from its start: it spends outputs that exist, of
transactions this handle has recorded. `RawSpec` has none: any hash, any output
index, over any old index. `KeepsDiscipline` shows that the only caller in the
library, the walk, follows the discipline on every valid chain.

## 3. What the runs check

| Run | Shows |
|---|---|
| `handle` | `Spec` on an engine with a file whose reset empties it (Tokyo Cabinet), two transactions: types, no store outside the map (`NoOverrun`), regions inside and disjoint (`RegionsApart`), quick bits and slots agree (`QuickBitsAgree`), refinement of `SpendLedger` (`LedgerSpec`) |
| `raw_ldb` | `RawSpec`, with transactions that fit the first chunk: used length within the available one, slot 0 stays unused even through stale entries (`SlotZeroUnused`), a spend never turns a block into a transaction or the reverse (`KindsKept`) |
| `regen` | the walk over two blocks that repeat a coinbase and an ordinary transaction, killed at every step, walked again over what is left or after a reset: exact result (`WalkExact`), discipline, end (`WalkEnds`) |
| `framing` | files of up to two blocks in four encodings, whole, broken off at every byte or zero-padded: everything found is where the chain has it (`InPlace`), the walk returns only at the end (`Exact`), and a file of whole blocks that is not empty is not read past its end (`WithinFile`) |
| `table` | both hash tables over two or three doublings and a clear: probing finds every entry (`Reachable`), a resize loses and doubles none (`NothingLost`), refinement of `EntryMap` (`ImplementsMap`), every call returns (`Returns`) |
| `merkle` | 0 to 20 transactions: array filled exactly, protocol's root, returns |
| `backends` | every engine, opened with success or not, closed, reset, written, read and cleared with and without errors, directly and through cursors, with the caller returning or not: which engine holds addresses and where a cursor can be (`TypeOK`), refinement of `Inventory` by the engines that keep an entry per hash (`ImplementsInventory`) |
| `sparse` | the table of libchash in every order of its calls: an iteration counts what the table counts (`CountsAgree`), every search ends (`SearchEnds`), each copy of a key belongs to one item (`CopiesOwned`), the last find is an item (`LastFindLive`), an iteration returns each item once (`IterationExact`), marks and moves hide none (`Reachable`), what fits in a file is loaded as the same map (`SavedWhole`), a dense table would do the same (`SparseIsDense`), refinement of `KeyMap` (`ImplementsMap`) |

Four runs end in a violation: they check what a comment or a header says and
the code does not do.

| Run | Says | Does |
|---|---|---|
| `growth` | `bzing_chain.h:79` "available length (before memory region must be resized)" | `bzing.c:277` doubles once; a transaction with more outputs than the map has slots ends beyond it |
| `reopen` | `bzing_chain.h:77` "used length" | `bzing.c:84` starts an empty map over an index whose entries name regions of the lost one |
| `every_engine` | `bzing_engines.h:54` "Select default engine (precedence: KC, TC, LMC, BDB, KHASH)" | `bzing_engines.h:52` defines it before, as LevelDB: a build without LevelDB gives a handle in which `bzing_inv_set` stores nothing (`EveryEngine`) |
| `sparse_reuse` | `libchash.c:1525` `assert( cItems == ht->cItems )` | `libchash.c:1088` an insertion that may not overwrite leaves the mark in the bucket it reuses, but counts an item: the key is lost |

### Bounds

* `InitSlots` is 2 instead of 512 and `MaxLen` 6 (10 in the walk): the map
  grows twice, and regions of 1 and 2 slots lie before, across and after each
  growth. The bound is a guard of `MarkFirst`: a map that is full ends growth,
  never the other operations. `growth` takes `InitSlots` 1 and 4 outputs, the
  smallest case of more outputs than slots.
* `QuickBits` is 1 (3 in the violation runs) instead of 8, so that
  outputs with and without a bit occur.
* `UMark` is just above what `MaxLen` needs. The assumption `MaxLen \in 1..UMark`
  holds of the program too: a position that reached the marker would need 2^56
  slots of memory. The empty overflow check at `bzing.c:620` is dead for that
  reason.
* Two transactions with one and two outputs are the smallest that can share a
  slot; two places tell spenders apart. `handle` uses symmetry over the places,
  which no definition distinguishes; all its properties are safety properties.
* `MaxIndex` is 2: one output index past the last of the largest transaction.
* In `IndexRegen`, `ChainSlots` is the room a walk must find before it starts,
  so that the bound never stops a walk in its middle (`WalkEnds` would show it).
* In `Framing` a byte has 8 values and the fields of fixed length are 1 to 3
  bytes long: a script of 5 or more bytes needs a longer encoding, as one of 253
  or more does. `MaxTail` 13 makes up two blocks out of zeros and one byte more.
  The files hold encodings of chains, cut or padded, nothing else.
* The four keys of `MCProbeTable` have hashes 3, 11, 23 and 33, with the steps
  khash computes from them: three of them meet in four buckets, all occur in
  kick-out chains. Each key has one entry, so a value in the wrong bucket shows.
  Only a table of at least `MinClear` (4) entries is cleared.
* `MaxTx` of 20 in `Merkle` has odd widths at every level.
* In `MCEngineBackends` `h1` and `h2` agree in their first 64 bits and `h3` does
  not; two entries tell old from new. In `backends` the line that defines the default
  engine is taken as it is, left out, and with each engine the blocks would never
  reach; in `every_engine` as it is.
* In `MCSparseTable` a group has 2 buckets instead of 64 and the least table 4
  instead of 512: with three keys and three announced insertions the table goes
  from 4 to 16 buckets and back, groups are full, half full and empty, and an item
  comes before one that its group has. The hashes 4, 20 and 13 make the searches of
  all three cross in 4 and 8 buckets, and two meet in 16 too. The data of one key
  can be replaced. Announcements run out, are wrong, and meet both rules for
  rehashing. A file keeps one bit of a word or both, and any of the keys may be
  short. `WordBits` is 2 as well, as on LP64 where a bitmap is a word.

### Fairness

`RegenSpec` has `WF_rvars(Walk)`: the walk is a loop in one thread, nothing
stops it from its next step. A crash is never forced and may happen always, so
`WalkEnds` says the walk is done or the process dead. `Merkle` has weak fairness
of `Next`, a function that runs. In `ProbeTable` the steps inside a call
(`Working`) are weakly fair, the calls are not. Nothing else is fair; `Framing`
claims no liveness.

`Merkle` and `Framing` switch deadlock checking off: a function returns.

## 4. What is proved

All for every value of the constants that satisfies the assumptions of the module:
`WordAssumption` and `IndexAssumption` for the handle, `ChainAssumption` as well for
the walk, `BackendAssumption` for the engines, `TableAssumption` of `ProbeTable` and
of `SparseTable` for the hash tables, `GroupAssumption` for the sparse arrays,
`MerkleAssumption` for the merkle root, `FramingAssumption` for the framing (bytes
are bytes, and the length of a file is a word), and for what a file holds
`ChainsAssumption` (the first blocks of a chain are a chain) and `WordAssumption` of
`BlockFile` (a chain is not longer than a word says).

* `TypeCorrect`, `RawTypeCorrect`: `TypeOK` under `Spec` and under `RawSpec`.
* `HandleInvariant`, and from it `NoOverrunProved`, `RegionsApartProved`,
  `QuickBitsProved`, `RoomProved`: under `OutputsFit`.
* `LedgerImplemented`: `Spec` implements `SpendLedger`, under `OutputsFit`.
* `KindsKeptProved`, `SlotZeroProved`: under `RawSpec`, whatever
  the caller spends, the kinds are kept on every engine and slot 0 stays unused
  on those that insert nothing on lookup.
* `SparseInsertIsDense` (`SparseTableProofs`): on every well-formed sparse array an
  insertion is the insertion of the dense array it stands for, for every group
  size; well-formedness is kept.
* `DisciplineKept`: a walk over any valid chain implements `Spec`.
* `WalkStaysInside`, `WalkKeepsLedger`: so it has what is proved of `Spec`.
* `WalkExactProved`: over any valid chain the walk leaves exactly what the chain
  says, whatever was there before, under `OutputsFit`.
* `TableTypes`, `ReachableProved`, `NothingLostProved`, `MapImplemented`: all safety
  properties of khash and alignhash, for every set of keys, every hash and every
  step function, refinement included.
* `TypeProved`, `InventoryImplemented`: khash, the Cabinets, BDB and LevelDB implement
  `Inventory` as long as they are `trusted`, over every error, failing read, reset
  and death, for any hashes and any agreement in their first 64 bits, with
  `Careless = {}`, that is with the one caller the library has for cursors,
  `bzing_spent_mark`. Of the other engines nothing is promised: `EveryEngine`, which
  leaves `trusted` out, is false of each of them.

* `TableTyped`, `CountsProved`, `SearchEndsProved`, `CopiesProved`, `LastFindProved`,
  `ReachableProved`, `IterationProved`, `SavedWholeProved`, `SparseIsDenseProved` and
  `MapImplemented` of `SparseTableProofs`: every property of the run `sparse`, for
  groups and tables of every size, every set of keys with any hashes and every order
  of the calls, with `Careless = {}`, that is without the calls the code gets wrong.
  `SavedWhole` speaks of tables that fit in the file (`Fits`): all bits of a word are
  kept, or no bucket is marked and every bit that is set is among those kept. A table
  on LP64 that has an item in the upper half of a group, or a mark, does not fit and
  loses items, contrary to `libchash.c:1340` ("The key is saved automatically and
  restored upon load"). It also excepts short keys, and says that the others are
  found whichever those are. `SparseIsDense` compares files where `WordBits =
  GroupSize` only: on a machine with bitmaps of 32 bits `DenseWrite` sets bits of a
  word that is not its own.
* `FramingTyped`: `TypeOK` of `Framing`, for any bytes in the files. An 8-byte number
  fits its word, an offset that is moved over it wraps, and the two counters that are
  counted down inside a transaction never pass zero. What `TypeOK` needs is that the
  transaction being read is one of those that are left (`FileInv`).
* `ReadEncoded`: `parse_var_int` reads what was encoded, however many bytes it was
  given, and goes on where it ends; if a byte of it is missing in the file it is read
  astray.
* `InPlaceProved`, `WithinFileProved`, `ExactProved`: the other properties of the run
  `framing`, for any number of byte values, fields of any lengths and chains of any
  blocks in any encoding. The first two hold of any bytes in the files: a file may go
  on as it likes after the chain, and what was found of the chain stays right.
  `WithinFile` excepts the empty file: it holds no blocks and is read beyond its end,
  because `len - 1` wraps (`bzing.c:746`). For the same reason `Exact` says nothing of
  it: the walk does not return.
  `ExactProved` has the hypothesis `Files \subseteq ChainFiles`, that the files are
  encodings of chains, cut or followed by zeros, as in the run; of other bytes
  nobody can say what a walk over them should have found.
* `ArrayProved`, `RootProved`: for any number of transactions the array of the tree is
  filled from its first slot to its last, and the result is the root of the rule.
  `ArrayProved` has the hypothesis `JunkIsNoHash`, that what `malloc` returned is not
  a hash: the invariant tells slots that were written by their contents.

`OutputsFit` says that no transaction has more outputs than the first chunk of
the spent map has slots. Without it the theorems are false: that is the run
`growth`.

**The argument.** None of the properties is inductive. That a store lies inside
the map needs that the region of the entry lies below `spent_len`, which needs
that one doubling made enough room, which needs that the map never shrinks below
`InitSlots`. That quick bits agree with slots needs more: a region handed out
now must hold no spender of earlier days, since slots are not cleared on
reservation. `HandleInv` joins the parts:

* `RoomInv`: used within available, at least one slot used, map at least `InitSlots`;
* `EntryInv`: the word of a fresh transaction is the unspent word of its output
  count, or placed with its region in `1 .. spent_len - 1`;
* `ApartInv`: of two regions one ends before the other starts;
* `TailInv`: no slot from `spent_len` on holds a place;
* `QuickBitsAgree` itself, and `TypeOK`.

`SlotZeroUnused` needs an invariant of its own: every placed word in the index has
a position of at least one, also the words of an earlier process and those a
crash brings back. `FirstWord` and `AgainWord` say what the two kinds of spends
write. `SparseInsertIsDense` rests on counting: inserting a bit moves the offset
of every later bucket of its group up by one and no other (`CountWithBit`,
`OffsetsDiffer`), which is what `memmove` does to the items (`InsertedAt`).

`TailInv` survives a reset and a re-recording only because `spent_len` never
goes back while the handle lives: the mutant that takes it back to 1 on reset
breaks the refinement. For the refinement, `MarkSlots` says which ledger slot a
mark changes, and each kind of step maps to `Record`, `Spend`, `Forget` or a
stutter. For the walk, `WalkInv` says that every transaction it has passed is
fresh; with a valid chain each input then names a fresh transaction. `ExactInv`
adds what the handle says of each: its offset is the latest of the places where it
was recorded, the spender of an output the latest of the places that spent it
since. A step consumes the place it is at, which comes after all that the walk has
consumed (`ConsumedBefore`), so that what it writes is the latest (`LatestAdded`).

For the hash tables the invariant is `TableInv`. While a resize moves entries, a
bucket below the old size holds an entry of the old table (live in `flags`) or of
the new one (live in `new_flags`), never both (`MovingInv`). The entries of the two
tables and the one in hand have distinct keys, and there are as many as `size` says
(`KeysInv`, `CountInv`). That
an entry is found rests on `PathInv`: no bucket on the probe path before it is
empty. The bucket a put takes is the first free one on the path of its key, so
filling it opens no gap, and buckets of the new table never become free during a
resize. That there is a first is the least number principle (`Least`), which comes
from the well-founded order of the naturals.

The table of libchash has an invariant of its own, `TableInv` of `SparseTableProofs`.
`GoodTable` says that the number of buckets is a power of two, that every live item
lies on the probe way of its key with no empty bucket before it, and that no key is
there twice; `Sound` that `cItems` and `cDeletedItems` count the live and the marked
buckets and that less than half of all is in use. Behind it:

* *Probing.* The jumps 1, 2, 3, ... reach every bucket when their number is a power of
  two: of two probes that meet, the factors of the difference of their triangle
  numbers are of different parity, and a power of two has no odd divisor but one
  (`PowerOfTwo`). With an empty bucket somewhere the search ends (`FirstProbeFacts`).
* *Marks.* A deletion keeps the bucket in use, so no way gets a gap (`MarkFacts`); an
  insertion into a marked or an empty bucket takes the first one on the way
  (`AddFacts`), and with the last test of the search the key is not there yet.
* *Rehashing.* `Holds(u, t, S)` says that `u` is a good table with exactly the items
  that the buckets `S` of `t` have. It holds for the empty table and the empty set,
  and moving an item adds its bucket (`PlaceFacts`); that it holds in the end is an
  induction over the buckets passed (`MoveAllFacts`). The watched item is placed last,
  so that the pointer returned is still right (`RehashWatched`).
* *Iterating.* The next item of the packed array is that of the next bit, since
  offsets are counts of bits (`NextBucketFacts`). While no call changes the table,
  the items returned are those of the buckets up to the iterator (`IterInv`).
* *Saving.* The word of a bucket is written at its rank among the buckets in use, its
  key at its rank among the items. The first is the number of bits of the groups
  before it and of its group before its own (`RankOfBucket`), which is where the
  array that is read looks for it (`ReadBack`); the second is the number of words up
  to its own that are not the mark (`KeyNumber`), which is what the loop counts.
* *Refinement.* `Has(t, k, d)` says that a live bucket has `k` with `d`. Every call
  is characterised by the change of `Has` and by the item it returns
  (`InsertNewFacts`, `InsertFoundFacts`, `DeleteFacts`), and a good table has at most
  one `d` for a `k`, which is the `Entry` of the map.

That the merkle array is filled to the last slot rests on an equation between the
size that is computed up front and what is still to be done: the slots before a level
and `calc_merkle_size` of its width are `n_nodes` together. For the root, the
level being read holds the nodes of the rule at its height, and the new one those of
the next height as far as it is written.

That the walk over bytes keeps to the chain is the invariant `Tracks`, with one case for
each position: in front of block `k`, at its count, at transaction `i`, at input or
output `j`, each with the offset that the bytes up to there take and the entries that
come before (`Walking`); in the zeros after the chain, with one empty block for every
`EmptyLen` of them (`Padding`); in other bytes (`Beyond`); stopped (`Finished`); or out
of a file that does not hold the chain (`Strayed`). It speaks of every chain the file
agrees with as far as both go, since the first blocks of a chain are one too and a file
does not tell which was meant. Behind it:

* *Places.* The bytes of a chain are parts of parts, joined; each part starts where
  those before it end (`AgreesPart`), so a file that agrees with the chain has every
  count where the walk looks for it (`ChainAgrees`, `BlockAgrees`, `TxAgrees`).
* *No wrap.* Nothing in a transaction is longer than the transaction (`TxSizes`), and
  a chain is shorter than a word: offsets that wrap are not met inside a chain.
* *Cuts.* A field that is not all in the file means that the chain is not
  (`CutShort`). In the zeros a block that is not all there leaves a remainder of two
  or more (`NotEmpties`), which is where `More` still goes on.
* *The end.* At the end the offset is at a block, and at most one byte is left
  (`MoreFacts`): the blocks before it are the chain that the file holds
  (`FirstBlocks`).

Functions that are defined by recursion (`LevelSum`, `MoveAll`, `Upto`) are reasoned about
without induction over data: `Induction` states induction as a fact about sets of
numbers, `SetInduction`, which the least number principle gives.

`Inventory` is implemented because a cursor that is not held across a put is at its
key (`TypeOK`), an engine that is `trusted` stores under whole hashes, and two facts
go with it: an engine without a file has an empty store when no handle is open
(`ClosedEmpty`), and a cursor is nowhere or at an entry (`CursorThere`). Every error then
maps to the call of `Inventory` that has one, or to the end of a process.

## 5. Only model-checked

* Liveness, which is out of the prover's reach: `WalkEnds`, and `Returns` of the merkle
  root and of the hash tables.

## 6. Not modelled

* Deletion and shrinking of khash and alignhash, which bzing never reaches;
  failing allocation; memory that leaks.
* Of libchash: the comparison of keys by length, `PTR_KEY`,
  the bits of the hash function (keys are values with a given hash), files
  that end early, tables that were loaded with bits missing, `INSERT_ONLY` and
  `FAST_DELETE`, which no build defines.
* `posLastFind` of a new table, which nothing sets: `HashFindLast` and
  `HashDeleteLast` before the first search use what `malloc` left and are not called
  in `SparseTable`.
* The exit of `kh_put` after a whole round (`khash.h:286`): below the load factor
  there is an empty bucket before that, which is what `Returns` rests on.
* The walk over an empty file: `Framing` has the wrapped test and the read that
  leaves the file, and stops there.
* The spent map together with the defects of align, sparsehash and localmemcache:
  `SpentIndex` has an index that keeps what it is given, `EngineBackends` says
  which engines are one.
* After a crash, versions of an entry from before its transaction was recorded
  anew: of each entry the model keeps the last version, its unspent one, or none.
* Signatures, scripts, proof of work: the library checks none.

* SHA-256, lookup3 and kbtree: pure functions on whose values no property
  depends, and a file nothing includes.
* Framing and walk joined, that is the walk over bytes shown to implement the walk
  over the chain: each is checked against the same chain (`Exact`, `WalkExact`).
