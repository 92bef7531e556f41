----------------------------- MODULE ProbeTable -----------------------------
(***************************************************************************)
(* The hash tables of the two engines in memory, khash                     *)
(* (src/src/klib/khash.h) and alignhash (src/src/ulib/alignhash_tpl.h, a   *)
(* descendant of the first), as bzing uses them: an entry is put, found by *)
(* putting its key, changed through an iterator, and all are cleared.      *)
(* Nothing is ever deleted: no bucket is marked deleted between calls, and  *)
(* n_occupied (nused) is always size.                                      *)
(*                                                                         *)
(* Buckets are probed from the one the hash of a key names, in steps that  *)
(* the key determines too.  A table that is full up to its load factor is  *)
(* doubled in place: the entries are taken one after the other out of the  *)
(* old buckets and put where they belong in the doubled table, which may   *)
(* be a bucket whose old entry has not been taken out yet; that one is     *)
(* kicked out and is the next to be placed.                                *)
(***************************************************************************)
EXTENDS Integers, FiniteSetsExt

CONSTANTS
  Keys,     \* the keys
  HashOf,   \* HashOf[k]: the hash of k
  StepOf,   \* StepOf[k]: (hash >> 3 ^ hash << 3) | 1, an odd number
  Entries,  \* what is stored with the keys
  Own,      \* Own[k]: what may be stored with k
  MinClear, \* bound: the least number of entries of a table that is cleared
  Junk,     \* memory nobody wrote
  None      \* no key, no entry

Kinds == {"khash", "align"}

ASSUME TableAssumption ==
  /\ HashOf \in [Keys -> Nat]
  /\ StepOf \in [Keys -> Nat]
  /\ \A k \in Keys : StepOf[k] % 2 = 1
  /\ MinClear \in Nat
  /\ Own \in [Keys -> SUBSET Entries]
  /\ Junk \notin Entries /\ None \notin Entries /\ Junk # None
  /\ None \notin Keys /\ Junk \notin Keys

VARIABLES
  kind,        \* which of the two tables it is
  n_buckets,   \* the number of buckets, 0 or a power of two
  flags,       \* flags[i]: "empty", "del" or "live"
  keys, vals,  \* the contents of the buckets
  size,        \* the number of entries
  pc,          \* "idle", or where a call is: "put", "scan", "kick", "held"
  call,        \* the call: what for, the key, the entry
  j,           \* resizing: the old bucket it is at
  new_flags,   \* resizing: the flags of the doubled table
  hand,        \* resizing: the key and the entry that are out of the table
  x            \* the iterator a cursor holds

table == <<n_buckets, flags, keys, vals, size>>
resize == <<j, new_flags, hand>>
tvars == <<kind, table, pc, call, resize, x>>

NoCall == [for |-> "none", key |-> None, entry |-> None]
NoHand == [key |-> None, entry |-> None]
Nowhere == [i \in {} |-> "empty"]
Buckets(n) == 0 .. (n - 1)

Init ==
  /\ kind \in Kinds
  /\ n_buckets = 0 /\ flags = Nowhere /\ keys = Nowhere /\ vals = Nowhere
  /\ size = 0
  /\ pc = "idle" /\ call = NoCall
  /\ j = 0 /\ new_flags = Nowhere /\ hand = NoHand
  /\ x = 0

-----------------------------------------------------------------------------
(* Probing.                                                                *)

\* The step of khash for a key.
Step(k) == IF kind = "khash" THEN StepOf[k] ELSE 1

\* The m-th bucket of n that is probed for k.
Probe(k, m, n) == (HashOf[k] + m * Step(k)) % n

\* The first of the buckets in stops that is probed for k, of n, if one ever is.
First(k, n, stops) ==
  LET hits == {m \in Buckets(n) : Probe(k, m, n) \in stops}
  IN IF hits = {} THEN {} ELSE {Probe(k, Min(hits), n)}

\* Where a put of k stops: at an empty bucket or at that of k.
Stops(k) == {i \in Buckets(n_buckets) : flags[i] = "empty" \/ keys[i] = k}

\* upper_bound: 77 percent of the buckets or half of them, rounded.
Upper(n) ==
  IF n = 0 THEN 0
  ELSE ((IF kind = "khash" THEN 77 ELSE 50) * n + 50) \div 100

\* The number of buckets after the next doubling.
Doubled ==
  IF n_buckets = 0 THEN (IF kind = "khash" THEN 4 ELSE 2) ELSE 2 * n_buckets

-----------------------------------------------------------------------------
(* The calls of bzing: "set" is bzing_inv_set; "find" the lookup of        *)
(* bzing_inv_get, which reads the entry, or of a cursor, which in          *)
(* bzing_spent_mark reads it and may then write it, with no call between.  *)

CallOf(for, k, e) == [for |-> for, key |-> k, entry |-> e]

\* The bucket of the key is found or taken.  A set writes the entry at once, a
\* lookup does not, whatever the bucket held before: it keeps the iterator.
Put(c) ==
  /\ \E i \in First(c.key, n_buckets, Stops(c.key)) :
       /\ flags' = [flags EXCEPT ![i] = "live"]
       /\ keys' = [keys EXCEPT ![i] = c.key]
       /\ size' = IF flags[i] = "empty" THEN size + 1 ELSE size
       /\ vals' = IF c.for = "set" THEN [vals EXCEPT ![i] = c.entry] ELSE vals
       /\ x' = IF c.for = "find" THEN i ELSE 0
  /\ pc' = IF c.for = "find" THEN "held" ELSE "idle"
  /\ call' = IF c.for = "find" THEN c ELSE NoCall
  /\ UNCHANGED <<kind, n_buckets, resize>>

\* Mutant: realloc to the size the array has.
RoomForOld(arr) == arr

\* realloc: room for the doubled table behind what is there.
RoomFor(arr) == [i \in Buckets(Doubled) |-> IF i < n_buckets THEN arr[i] ELSE Junk]

\* There is room.
PutNow(c) ==
  /\ pc = "idle" /\ size < Upper(n_buckets)
  /\ Put(c)

\* The table is full: memory for twice as many buckets, flags all empty.
ResizeStart(c) ==
  /\ pc = "idle" /\ size >= Upper(n_buckets)
  /\ new_flags' = [i \in Buckets(Doubled) |-> "empty"]
  /\ keys' = RoomFor(keys) /\ vals' = RoomFor(vals)
  /\ j' = 0 /\ pc' = "scan" /\ call' = c
  /\ UNCHANGED <<kind, n_buckets, flags, size, hand, x>>

\* Mutant: the index is masked like that of a probe.
ScanMasked ==
  /\ pc = "scan" /\ j < n_buckets /\ flags[j] # "live"
  /\ j' = (j + 1) % n_buckets
  /\ UNCHANGED <<kind, table, pc, call, new_flags, hand, x>>

\* An old bucket that holds no entry, any more or at all.
ScanSkip ==
  /\ pc = "scan" /\ j < n_buckets /\ flags[j] # "live"
  /\ j' = j + 1
  /\ UNCHANGED <<kind, table, pc, call, new_flags, hand, x>>

\* The entry of an old bucket is taken out.
ScanTake ==
  /\ pc = "scan" /\ j < n_buckets /\ flags[j] = "live"
  /\ hand' = [key |-> keys[j], entry |-> vals[j]]
  /\ flags' = [flags EXCEPT ![j] = "del"]
  /\ pc' = "kick"
  /\ UNCHANGED <<kind, n_buckets, keys, vals, size, call, j, new_flags, x>>

\* Mutant: the entry that is kicked out is taken along without its value.
KickKeyOnly(i) ==
  /\ hand' = [hand EXCEPT !.key = keys[i]]
  /\ flags' = [flags EXCEPT ![i] = "del"]
  /\ UNCHANGED <<pc, j>>

\* Mutant: the bucket is not marked, its old entry is taken out once more.
KickUnmarked(i) ==
  /\ hand' = [key |-> keys[i], entry |-> vals[i]]
  /\ UNCHANGED <<flags, pc, j>>

\* The bucket still holds an old entry: that one is the next in hand.
KickOut(i) ==
  /\ hand' = [key |-> keys[i], entry |-> vals[i]]
  /\ flags' = [flags EXCEPT ![i] = "del"]
  /\ UNCHANGED <<pc, j>>

\* The chain of kicked out entries ends in a bucket that holds none.
KickEnd ==
  /\ hand' = NoHand /\ pc' = "scan" /\ j' = j + 1
  /\ UNCHANGED flags

\* The entry in hand goes to its bucket of the doubled table.
Kick ==
  LET n    == 2 * n_buckets
      free == {i \in Buckets(n) : new_flags[i] = "empty"}
  IN /\ pc = "kick"
     /\ \E i \in First(hand.key, n, free) :
          /\ new_flags' = [new_flags EXCEPT ![i] = "live"]
          /\ keys' = [keys EXCEPT ![i] = hand.key]
          /\ vals' = [vals EXCEPT ![i] = hand.entry]
          /\ \/ i < n_buckets /\ flags[i] = "live" /\ KickOut(i)
             \/ ~(i < n_buckets /\ flags[i] = "live") /\ KickEnd
     /\ UNCHANGED <<kind, n_buckets, size, call, x>>

\* The doubled table takes the place of the old one.
ResizeDone ==
  /\ pc = "scan" /\ j = n_buckets
  /\ n_buckets' = Doubled /\ flags' = new_flags
  /\ new_flags' = Nowhere /\ j' = 0
  /\ pc' = "put"
  /\ UNCHANGED <<kind, keys, vals, size, call, hand, x>>

\* Then there is room.
PutAfter ==
  /\ pc = "put"
  /\ Put(call)

\* The cursor is given up, or a lookup returns.
Release ==
  /\ pc = "held"
  /\ pc' = "idle" /\ call' = NoCall /\ x' = 0
  /\ UNCHANGED <<kind, table, resize>>

\* bzing_inv_cursor_set
Write ==
  /\ pc = "held"
  /\ \E e \in Own[call.key] : vals' = [vals EXCEPT ![x] = e]
  /\ pc' = "idle" /\ call' = NoCall /\ x' = 0
  /\ UNCHANGED <<kind, n_buckets, flags, keys, size, resize>>

\* Mutant: the flags of the first half only are reset.
ClearHalf ==
  /\ pc = "idle" /\ n_buckets > 0 /\ size >= MinClear
  /\ flags' = [i \in Buckets(n_buckets) |->
                 IF 2 * i < n_buckets THEN "empty" ELSE flags[i]]
  /\ size' = 0
  /\ UNCHANGED <<kind, n_buckets, keys, vals, pc, call, resize, x>>

\* kh_clear: the flags alone are reset, keys and values stay where they are.
Clear ==
  /\ pc = "idle" /\ n_buckets > 0 /\ size >= MinClear
  /\ flags' = [i \in Buckets(n_buckets) |-> "empty"]
  /\ size' = 0
  /\ UNCHANGED <<kind, n_buckets, keys, vals, pc, call, resize, x>>

Calls ==
  {CallOf("find", k, None) : k \in Keys} \cup
  UNION {{CallOf("set", k, e) : e \in Own[k]} : k \in Keys}

Working ==
  ScanSkip \/ ScanTake \/ Kick \/ ResizeDone \/ PutAfter \/ Release \/ Write

Next ==
  \/ \E c \in Calls : PutNow(c) \/ ResizeStart(c)
  \/ Clear
  \/ Working

\* A call is a loop in one thread that runs to its end.
Spec == Init /\ [][Next]_tvars /\ WF_tvars(Working)

-----------------------------------------------------------------------------
(* Properties.                                                             *)

\* Bucket i holds an entry, of the old table or of the doubled one.
Holds(i) ==
  \/ i \in DOMAIN flags /\ flags[i] = "live"
  \/ i \in DOMAIN new_flags /\ new_flags[i] = "live"

Held == {i \in DOMAIN keys : Holds(i)}

\* The arrays have the sizes they are taken to have, between calls and in the
\* middle of a resize, when keys and values have the room of the doubled table
\* and the flags do not yet; the iterator of a cursor stays inside.
TypeOK ==
  /\ kind \in Kinds
  /\ n_buckets \in Nat /\ size \in Nat /\ j \in 0 .. n_buckets
  /\ flags \in [Buckets(n_buckets) -> {"empty", "del", "live"}]
  /\ DOMAIN keys \in {Buckets(n_buckets), Buckets(Doubled)}
  /\ DOMAIN vals = DOMAIN keys
  /\ \A i \in DOMAIN keys : keys[i] \in Keys \cup {Junk}
  /\ \A i \in DOMAIN vals : vals[i] \in Entries \cup {Junk}
  /\ pc \in {"idle", "put", "scan", "kick", "held"}
  /\ \A i \in DOMAIN new_flags : new_flags[i] \in {"empty", "live"}
  /\ pc = "held" => x \in DOMAIN vals

\* Between calls a key is where probing for it leads: no empty bucket lies on
\* the way to it, however often the table was doubled in place, so that it is
\* found and not put in a second time (kh_put, alignhash_set).
Reachable ==
  pc = "idle" =>
    \A i \in Held : First(keys[i], n_buckets, Stops(keys[i])) = {i}

\* In the middle of a resize no entry is lost and none is there twice: those
\* in the old buckets, in the new ones and in hand are as many as the table
\* has, of as many keys.
NothingLost ==
  LET inHand == IF hand = NoHand THEN {} ELSE {hand.key}
  IN /\ \A i, l \in Held : keys[i] = keys[l] => i = l
     /\ \A i \in Held : keys[i] \notin inHand
     /\ Cardinality(Held) + Cardinality(inHand) = size

\* The table implements the map: refinement of EntryMap.
Map == INSTANCE EntryMap WITH
  entry <- [k \in Keys |->
    LET at == {i \in Held : keys[i] = k}
    IN IF hand.key = k THEN hand.entry
       ELSE IF at = {} THEN None ELSE vals[CHOOSE i \in at : TRUE]]

ImplementsMap == Map!Spec

\* Every call returns: an empty bucket is always found, in the old table by a
\* put and in the doubled one by a resize, whose loop looks for nothing else.
Returns == pc # "idle" ~> pc = "idle"
=============================================================================
