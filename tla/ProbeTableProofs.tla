------------------------- MODULE ProbeTableProofs -------------------------
(***************************************************************************)
(* Proofs about the hash tables of ProbeTable, for every set of keys with   *)
(* any hashes and any steps: a resize in place loses nothing, probing finds *)
(* what is there, and the table implements EntryMap.                        *)
(***************************************************************************)
EXTENDS ProbeTable, Induction

-----------------------------------------------------------------------------
(* The inductive invariant.                                                *)

Moving == pc \in {"scan", "kick"}

\* The types in full: the arrays have the room of the doubled table while it is
\* being filled; a call that is under way is one of Calls, and its iterator is at
\* its key.
TypeInv ==
  LET room == Buckets(IF Moving THEN Doubled ELSE n_buckets)
  IN /\ kind \in Kinds /\ n_buckets \in Nat /\ size \in Nat /\ j \in 0 .. n_buckets
     /\ pc \in {"idle", "put", "scan", "kick", "held"}
     /\ flags \in [Buckets(n_buckets) -> {"empty", "del", "live"}]
     /\ keys \in [room -> Keys \cup {Junk}]
     /\ vals \in [room -> Entries \cup {Junk}]
     /\ new_flags \in [IF Moving THEN room ELSE {} -> {"empty", "live"}]
     /\ IF pc = "kick" THEN hand \in [key : Keys, entry : Entries \cup {Junk}]
        ELSE hand = NoHand
     /\ pc # "idle" => call \in Calls
     /\ pc = "held" => x \in Buckets(n_buckets) /\ flags[x] = "live" /\ keys[x] = call.key

\* Buckets are marked deleted in a resize only.  What it has passed is taken out,
\* and no bucket holds an entry of either table while it holds one of the other.
MovingInv ==
  /\ ~Moving => \A i \in Buckets(n_buckets) : flags[i] # "del"
  /\ Moving => \A i \in Buckets(n_buckets) :
       flags[i] = "live" => i >= j /\ new_flags[i] = "empty"
  /\ pc = "kick" => j < n_buckets /\ flags[j] # "live"

\* The key of each entry is one, of one entry only, and not the one in hand.
KeysInv ==
  /\ \A i \in Held : keys[i] \in Keys /\ keys[i] # hand.key
  /\ \A i, l \in Held : keys[i] = keys[l] => i = l

\* Bucket i is probed for its key, and no bucket that is probed before is empty.
OnPath(fl, n, i) ==
  \E m \in Buckets(n) :
    /\ Probe(keys[i], m, n) = i
    /\ \A l \in Buckets(m) : fl[Probe(keys[i], l, n)] # "empty"

\* That is so in the table, and in the doubled one while it is being filled.
PathInv ==
  /\ ~Moving => \A i \in Buckets(n_buckets) :
       flags[i] = "live" => OnPath(flags, n_buckets, i)
  /\ Moving => \A i \in Buckets(Doubled) :
       new_flags[i] = "live" => OnPath(new_flags, Doubled, i)

\* The entries are as many as size says.
CountInv ==
  Cardinality(Held) + Cardinality(IF pc = "kick" THEN {hand.key} ELSE {}) = size

TableInv == TypeInv /\ MovingInv /\ KeysInv /\ PathInv /\ CountInv

-----------------------------------------------------------------------------
(* Probing.                                                                *)

\* First is the first probe that meets the set, and no earlier one does.
LEMMA FirstOf ==
  ASSUME NEW k, NEW n \in Nat, NEW stops
  PROVE  \/ First(k, n, stops) = {} /\ \A m \in Buckets(n) : Probe(k, m, n) \notin stops
         \/ \E m \in Buckets(n) :
              /\ First(k, n, stops) = {Probe(k, m, n)}
              /\ Probe(k, m, n) \in stops
              /\ \A l \in Buckets(m) : Probe(k, l, n) \notin stops
<1> DEFINE hits == {m \in Buckets(n) : Probe(k, m, n) \in stops}
<1>1. CASE hits = {}
  BY <1>1 DEF First
<1>2. CASE hits # {}
  <2>1. PICK m \in hits : \A l \in hits : m <= l
    <3>1. hits \in SUBSET (0 .. (n - 1)) /\ n \in Int
      BY DEF Buckets
    <3> HIDE DEF hits
    <3> QED
      BY <1>2, <3>1, Least
  <2>2. Min(hits) = m
    <3>1. \A l \in hits : (\A o \in hits : l <= o) => l = m
      BY <2>1 DEF Buckets
    <3> QED
      BY <2>1, <3>1 DEF Min
  <2>3. First(k, n, stops) = {Probe(k, m, n)}
    BY <1>2, <2>2 DEF First
  <2>4. ASSUME NEW l \in Buckets(m)
        PROVE  Probe(k, l, n) \notin stops
    <3>1. l \in Buckets(n) /\ l < m /\ m \in Int /\ l \in Int
      BY DEF Buckets
    <3>2. l \notin hits
      BY <2>1, <3>1
    <3> QED
      BY <3>1, <3>2
  <2> QED
    BY <2>3, <2>4
<1> QED
  BY <1>1, <1>2

-----------------------------------------------------------------------------
(* Facts about the state.                                                  *)

\* What Held is, between resizes and inside one.
HeldFacts ==
  /\ ~Moving => Held = {i \in Buckets(n_buckets) : flags[i] = "live"}
  /\ Moving => Held = {i \in Buckets(Doubled) :
                         (i \in Buckets(n_buckets) /\ flags[i] = "live") \/ new_flags[i] = "live"}
  /\ IsFiniteSet(Held)

\* Doubling makes a table larger, of which the old one is the first part.
LEMMA DoubledGrows ==
  ASSUME n_buckets \in Nat
  PROVE  /\ Doubled \in Nat /\ n_buckets < Doubled
         /\ n_buckets > 0 => Doubled = 2 * n_buckets
         /\ Buckets(n_buckets) \subseteq Buckets(Doubled)
         /\ \A i \in Buckets(Doubled) : (i < n_buckets) <=> i \in Buckets(n_buckets)
BY DEF Doubled, Buckets

\* HeldFacts holds of every typed state.
LEMMA HeldIs == TypeInv => HeldFacts
<1> SUFFICES ASSUME TypeInv PROVE HeldFacts
  OBVIOUS
<1> USE DEF TypeInv
<1>1. n_buckets \in Nat /\ Doubled \in Nat /\ n_buckets < Doubled
      /\ Buckets(n_buckets) \subseteq Buckets(Doubled)
  BY DoubledGrows
<1>2. CASE ~Moving
  <2>1. DOMAIN keys = Buckets(n_buckets) /\ DOMAIN flags = Buckets(n_buckets)
        /\ DOMAIN new_flags = {}
    BY <1>2
  <2>2. Held = {i \in Buckets(n_buckets) : flags[i] = "live"}
    BY <2>1 DEF Held, Holds
  <2>3. IsFiniteSet(Buckets(n_buckets))
    BY <1>1, FS_Interval DEF Buckets
  <2> QED
    BY <1>2, <2>2, <2>3, FS_Subset DEF HeldFacts
<1>3. CASE Moving
  <2>1. DOMAIN keys = Buckets(Doubled) /\ DOMAIN flags = Buckets(n_buckets)
        /\ DOMAIN new_flags = Buckets(Doubled)
    BY <1>3
  <2>2. Held = {i \in Buckets(Doubled) :
                  (i \in Buckets(n_buckets) /\ flags[i] = "live") \/ new_flags[i] = "live"}
    BY <1>1, <2>1 DEF Held, Holds
  <2>3. IsFiniteSet(Buckets(Doubled))
    BY <1>1, FS_Interval DEF Buckets
  <2> QED
    BY <1>3, <2>2, <2>3, FS_Subset DEF HeldFacts
<1> QED
  BY <1>2, <1>3

\* A call has a key and, if it is a set, an entry that the key may have.
LEMMA CallType ==
  ASSUME NEW c \in Calls
  PROVE  /\ c.key \in Keys /\ c.for \in {"find", "set"}
         /\ c.for = "set" => c.entry \in Own[c.key] /\ c.entry \in Entries
BY TableAssumption DEF Calls, CallOf

\* Every probe is a bucket.
LEMMA ProbeType ==
  ASSUME NEW k \in Keys, NEW l \in Nat, NEW n \in Nat, n > 0
  PROVE  Probe(k, l, n) \in Buckets(n)
<1>1. HashOf[k] \in Nat /\ Step(k) \in Nat
  BY TableAssumption DEF Step
<1>2. l * Step(k) \in Nat
  BY <1>1
<1>3. HashOf[k] + l * Step(k) \in Nat
  BY <1>1, <1>2
<1> DEFINE h == HashOf[k] + l * Step(k)
<1>4. h % n \in 0 .. (n - 1)
  <2>1. h \in Nat
    BY <1>3
  <2> HIDE DEF h
  <2> QED
    BY <2>1
<1> QED
  BY <1>4 DEF Probe, Buckets

\* TableInv holds of an empty table.
LEMMA InitInv == Init => TableInv
<1> SUFFICES ASSUME Init PROVE TableInv
  OBVIOUS
<1> USE DEF Init, Moving
<1>1. Buckets(n_buckets) = {}
  BY DEF Buckets
<1>2. TypeInv
  BY <1>1 DEF TypeInv, Nowhere
<1>3. Held = {} /\ Cardinality(Held) = 0
  BY FS_EmptySet DEF Held, Nowhere
<1>4. Cardinality({}) = 0
  BY FS_EmptySet
<1>5. CountInv
  BY <1>3, <1>4 DEF CountInv
<1> QED
  BY <1>1, <1>2, <1>3, <1>5 DEF TableInv, MovingInv, KeysInv, PathInv

-----------------------------------------------------------------------------
(* Putting a key into a table that is not being resized.                   *)

\* Where a put stops, between resizes: at a bucket with the key of c, or at an
\* empty one, with no entry for that key anywhere.
LEMMA StopsRight ==
  ASSUME TableInv, ~Moving, NEW c \in Calls,
         NEW i \in First(c.key, n_buckets, Stops(c.key))
  PROVE  /\ i \in Buckets(n_buckets)
         /\ \E m \in Buckets(n_buckets) :
              /\ Probe(c.key, m, n_buckets) = i
              /\ \A l \in Buckets(m) : flags[Probe(c.key, l, n_buckets)] # "empty"
         /\ \/ flags[i] = "live" /\ keys[i] = c.key
            \/ flags[i] = "empty" /\ \A l \in Held : keys[l] # c.key
<1> DEFINE k == c.key
           n == n_buckets
<1>1. /\ n \in Nat /\ flags \in [Buckets(n) -> {"empty", "del", "live"}]
      /\ Held = {l \in Buckets(n) : flags[l] = "live"}
  BY HeldIs DEF TableInv, TypeInv, HeldFacts
<1>2. PICK m \in Buckets(n) :
        /\ i = Probe(k, m, n) /\ i \in Stops(k)
        /\ \A l \in Buckets(m) : Probe(k, l, n) \notin Stops(k)
  BY <1>1, FirstOf
<1>3. i \in Buckets(n) /\ (flags[i] = "empty" \/ keys[i] = k)
  BY <1>2 DEF Stops
<1>4. flags[i] = "empty" \/ flags[i] = "live"
  BY <1>1, <1>3 DEF TableInv, MovingInv
<1>5. \A l \in Buckets(m) : flags[Probe(k, l, n)] # "empty"
  <2> SUFFICES ASSUME NEW l \in Buckets(m), flags[Probe(k, l, n)] = "empty"
               PROVE  FALSE
    OBVIOUS
  <2>1. k \in Keys /\ l \in Nat /\ n > 0
    BY <1>1, CallType DEF Buckets
  <2>2. Probe(k, l, n) \in Buckets(n)
    BY <1>1, <1>2, <2>1, ProbeType
  <2> QED
    BY <1>2, <2>2 DEF Stops
<1>6. ASSUME flags[i] = "empty", NEW b \in Held, keys[b] = k
      PROVE  FALSE
  <2>1. b \in Buckets(n) /\ flags[b] = "live" /\ OnPath(flags, n, b)
    BY <1>1 DEF TableInv, PathInv
  <2>2. PICK o \in Buckets(n) :
          Probe(k, o, n) = b /\ \A l \in Buckets(o) : flags[Probe(k, l, n)] # "empty"
    BY <1>6, <2>1 DEF OnPath
  <2>3. b \in Stops(k)
    BY <1>6, <2>1 DEF Stops
  <2>4. o \notin Buckets(m) /\ m \notin Buckets(o)
    BY <1>2, <1>6, <2>2, <2>3
  <2>5. o = m
    BY <2>4 DEF Buckets
  <2> QED
    BY <1>2, <1>6, <2>1, <2>2, <2>5
<1> QED
  BY <1>2, <1>3, <1>4, <1>5, <1>6

\* A put keeps the types.
LEMMA PutType ==
  ASSUME TableInv, ~Moving, hand = NoHand, NEW c \in Calls, Put(c)
  PROVE  TypeInv' /\ ~Moving'
<1>1. PICK i \in First(c.key, n_buckets, Stops(c.key)) :
        /\ flags' = [flags EXCEPT ![i] = "live"]
        /\ keys' = [keys EXCEPT ![i] = c.key]
        /\ size' = IF flags[i] = "empty" THEN size + 1 ELSE size
        /\ vals' = IF c.for = "set" THEN [vals EXCEPT ![i] = c.entry] ELSE vals
        /\ x' = IF c.for = "find" THEN i ELSE 0
  BY DEF Put
<1>2. i \in Buckets(n_buckets)
  BY StopsRight
<1>3. c.key \in Keys /\ (c.for = "set" => c.entry \in Entries)
  BY CallType
<1>4. ~Moving' /\ n_buckets' = n_buckets /\ kind' = kind /\ j' = j
      /\ new_flags' = new_flags /\ hand' = hand
  BY DEF Put, Moving, resize
<1>5. /\ keys' \in [Buckets(n_buckets) -> Keys \cup {Junk}]
      /\ vals' \in [Buckets(n_buckets) -> Entries \cup {Junk}]
      /\ flags' \in [Buckets(n_buckets) -> {"empty", "del", "live"}]
      /\ size' \in Nat
  <2>1. /\ keys \in [Buckets(n_buckets) -> Keys \cup {Junk}]
        /\ vals \in [Buckets(n_buckets) -> Entries \cup {Junk}]
        /\ flags \in [Buckets(n_buckets) -> {"empty", "del", "live"}]
        /\ size \in Nat
    BY DEF TableInv, TypeInv
  <2>2. vals' \in [Buckets(n_buckets) -> Entries \cup {Junk}]
    <3>1. CASE c.for = "set"
      BY <1>1, <1>3, <2>1, <3>1
    <3>2. CASE c.for # "set"
      BY <1>1, <2>1, <3>2
    <3> QED
      BY <3>1, <3>2
  <2>3. size' \in Nat
    BY <1>1, <2>1
  <2>4. keys' \in [Buckets(n_buckets) -> Keys \cup {Junk}]
    BY <1>1, <1>3, <2>1
  <2>5. flags' \in [Buckets(n_buckets) -> {"empty", "del", "live"}]
    BY <1>1, <2>1
  <2> QED
    BY <2>2, <2>3, <2>4, <2>5
<1>6. /\ pc' # "idle" => call' \in Calls
      /\ pc' = "held" => x' \in Buckets(n_buckets) /\ flags'[x'] = "live" /\ keys'[x'] = call'.key
      /\ pc' \in {"idle", "held"}
  BY <1>1, <1>2 DEF Put, TableInv, TypeInv
<1> QED
  BY <1>4, <1>5, <1>6 DEF TableInv, TypeInv

\* A put keeps the rest of the invariant.
LEMMA PutKeeps ==
  ASSUME TableInv, ~Moving, hand = NoHand, NEW c \in Calls, Put(c)
  PROVE  TableInv'
<1> DEFINE k == c.key
           n == n_buckets
<1>1. PICK i \in First(c.key, n_buckets, Stops(c.key)) :
        /\ flags' = [flags EXCEPT ![i] = "live"]
        /\ keys' = [keys EXCEPT ![i] = c.key]
        /\ size' = IF flags[i] = "empty" THEN size + 1 ELSE size
  BY DEF Put
<1>2. TypeInv' /\ ~Moving'
  BY PutType
<1>3. /\ n' = n /\ hand' = NoHand /\ pc # "kick" /\ pc' # "kick" /\ kind' = kind
      /\ n \in Nat /\ size \in Nat
      /\ flags \in [Buckets(n) -> {"empty", "del", "live"}]
      /\ keys \in [Buckets(n) -> Keys \cup {Junk}]
  BY <1>2 DEF Put, resize, Moving, TableInv, TypeInv
<1>4. /\ i \in Buckets(n) /\ k \in Keys
      /\ \E m \in Buckets(n) :
           /\ Probe(k, m, n) = i
           /\ \A l \in Buckets(m) : flags[Probe(k, l, n)] # "empty"
      /\ \/ flags[i] = "live" /\ keys[i] = k
         \/ flags[i] = "empty" /\ \A l \in Held : keys[l] # k
  BY StopsRight, CallType
<1>5. Held = {l \in Buckets(n) : flags[l] = "live"} /\ IsFiniteSet(Held)
  BY HeldIs DEF HeldFacts, TableInv
<1>6. Held' = {l \in Buckets(n) : flags'[l] = "live"}
  <2>1. HeldFacts'
    BY <1>2, HeldIs, PTL
  <2> QED
    BY <1>2, <1>3, <2>1 DEF HeldFacts
<1>7. Held' = Held \cup {i}
  BY <1>1, <1>3, <1>4, <1>5, <1>6
<1>8. MovingInv'
  BY <1>1, <1>2, <1>3, <1>4 DEF TableInv, MovingInv, Moving
<1>9. KeysInv'
  <2>1. \A l \in Held : keys'[l] = keys[l]
    BY <1>1, <1>3, <1>4, <1>5
  <2>2. keys'[i] = k /\ hand'.key = None /\ hand.key = None /\ k # None
    BY <1>1, <1>3, <1>4, TableAssumption DEF NoHand
  <2>3. \A l \in Held : keys'[l] = k => l = i
    BY <1>4, <2>1, <1>5 DEF TableInv, KeysInv
  <2> QED
    BY <1>4, <1>7, <2>1, <2>2, <2>3 DEF TableInv, KeysInv
<1>10. PathInv'
  <2> SUFFICES ASSUME NEW l \in Buckets(n), flags'[l] = "live"
               PROVE  OnPath(flags, n, l)'
    BY <1>2, <1>3 DEF PathInv
  <2>0. \A a, b : Probe(a, b, n)' = Probe(a, b, n)
    BY <1>3 DEF Probe, Step
  <2>1. \A p \in Buckets(n) : flags[p] # "empty" => flags'[p] # "empty"
    BY <1>1, <1>3
  <2>2. PICK m \in Buckets(n) :
          /\ Probe(keys'[l], m, n) = l
          /\ \A o \in Buckets(m) : flags[Probe(keys'[l], o, n)] # "empty"
    <3>1. CASE l = i
      BY <1>1, <1>3, <1>4, <3>1
    <3>2. CASE l # i
      <4>1. flags[l] = "live" /\ keys'[l] = keys[l]
        BY <1>1, <1>3, <3>2
      <4> QED
        BY <4>1 DEF TableInv, PathInv, OnPath
    <3> QED
      BY <3>1, <3>2
  <2>3. \A o \in Buckets(m) : Probe(keys'[l], o, n) \in Buckets(n)
    <3>1. l \in Held'
      BY <1>6
    <3>2. keys'[l] \in Keys
      BY <1>9, <3>1 DEF KeysInv
    <3>3. n > 0 /\ \A o \in Buckets(m) : o \in Nat
      BY <1>3 DEF Buckets
    <3> QED
      BY <1>3, <2>2, <3>2, <3>3, ProbeType
  <2>4. \A o \in Buckets(m) : flags'[Probe(keys'[l], o, n)] # "empty"
    BY <2>1, <2>2, <2>3
  <2> QED
    BY <1>3, <2>0, <2>2, <2>4 DEF OnPath
<1>11. CountInv'
  <2>1. Cardinality({}) = 0
    BY FS_EmptySet
  <2>2. Cardinality(Held) = size /\ Cardinality(Held) \in Nat
    BY <1>3, <1>5, <2>1, FS_CardinalityType DEF TableInv, CountInv
  <2>3. Cardinality(Held \cup {i}) = size'
    <3>1. CASE flags[i] = "empty"
      <4>1. i \notin Held
        BY <1>5, <3>1
      <4> QED
        BY <1>1, <1>5, <2>2, <3>1, <4>1, FS_AddElement
    <3>2. CASE flags[i] = "live"
      <4>1. Held \cup {i} = Held
        BY <1>4, <1>5, <3>2
      <4> QED
        BY <1>1, <2>2, <3>2, <4>1
    <3> QED
      BY <1>4, <3>1, <3>2
  <2>4. Cardinality(Held \cup {i}) \in Nat
    BY <1>5, FS_AddElement, FS_CardinalityType
  <2> QED
    BY <1>3, <1>7, <2>1, <2>3, <2>4 DEF CountInv
<1> QED
  BY <1>2, <1>8, <1>9, <1>10, <1>11 DEF TableInv

-----------------------------------------------------------------------------
(* Resizing in place.                                                      *)

\* Room for the doubled table loses nothing.
LEMMA StartKeeps ==
  ASSUME TableInv, NEW c \in Calls, ResizeStart(c)
  PROVE  TableInv'
<1> DEFINE n == n_buckets
<1>1. /\ n \in Nat /\ n' = n /\ flags' = flags /\ size' = size /\ hand' = hand
      /\ Doubled' = Doubled /\ ~Moving /\ Moving' /\ pc' = "scan" /\ pc = "idle" /\ j' = 0
      /\ kind' = kind /\ call' = c /\ hand = NoHand
      /\ size \in Nat /\ kind \in Kinds
      /\ flags \in [Buckets(n) -> {"empty", "del", "live"}]
      /\ keys \in [Buckets(n) -> Keys \cup {Junk}]
      /\ vals \in [Buckets(n) -> Entries \cup {Junk}]
      /\ new_flags' = [i \in Buckets(Doubled) |-> "empty"]
  BY DEF TableInv, TypeInv, ResizeStart, Moving, Doubled
<1>2. /\ Doubled \in Nat /\ n < Doubled /\ Buckets(n) \subseteq Buckets(Doubled)
      /\ \A i \in Buckets(Doubled) : (i < n) <=> i \in Buckets(n)
  BY <1>1, DoubledGrows
<1>3. /\ keys' \in [Buckets(Doubled) -> Keys \cup {Junk}]
      /\ vals' \in [Buckets(Doubled) -> Entries \cup {Junk}]
      /\ \A i \in Buckets(n) : keys'[i] = keys[i]
  BY <1>1, <1>2 DEF ResizeStart, RoomFor
<1>4. TypeInv'
  <2>1. j' \in 0 .. n'
    BY <1>1
  <2>2. new_flags' \in [Buckets(Doubled) -> {"empty", "live"}]
    BY <1>1
  <2> QED
    BY <1>1, <1>3, <2>1, <2>2 DEF TypeInv
<1>5. Held' = Held /\ Held = {i \in Buckets(n) : flags[i] = "live"}
  <2>1. HeldFacts'
    BY <1>4, HeldIs, PTL
  <2> QED
    BY <1>1, <1>2, <2>1, HeldIs DEF HeldFacts, TableInv
<1>6. MovingInv'
  BY <1>1, <1>2 DEF MovingInv, Buckets
<1>7. KeysInv'
  BY <1>1, <1>3, <1>5 DEF KeysInv, TableInv
<1>8. PathInv'
  BY <1>1 DEF PathInv
<1>9. CountInv'
  BY <1>1, <1>5 DEF CountInv, TableInv, TypeInv
<1> QED
  BY <1>4, <1>6, <1>7, <1>8, <1>9 DEF TableInv

\* Passing over a bucket with no entry.
LEMMA SkipKeeps ==
  ASSUME TableInv, ScanSkip
  PROVE  TableInv'
<1> DEFINE n == n_buckets
<1>1. /\ n \in Nat /\ n' = n /\ flags' = flags /\ size' = size /\ hand' = hand
      /\ Doubled' = Doubled /\ Moving /\ Moving' /\ pc' = "scan" /\ pc = "scan"
      /\ j' = j + 1 /\ j \in 0 .. n /\ j < n /\ flags[j] # "live"
      /\ kind' = kind /\ call' = call /\ new_flags' = new_flags /\ keys' = keys
      /\ vals' = vals
  BY DEF TableInv, TypeInv, ScanSkip, Moving, Doubled, table
<1>2. TypeInv'
  BY <1>1 DEF TypeInv, TableInv
<1>3. Held' = Held
  BY <1>1 DEF Held, Holds
<1>4. MovingInv'
  <2>1. \A i \in Buckets(n) : flags[i] = "live" => i >= j + 1
    <3> SUFFICES ASSUME NEW i \in Buckets(n), flags[i] = "live" PROVE i >= j + 1
      OBVIOUS
    <3>1. i >= j /\ i # j /\ i \in Int /\ j \in Int
      BY <1>1 DEF TableInv, MovingInv, Buckets
    <3> QED
      BY <3>1
  <2> QED
    BY <1>1, <2>1 DEF TableInv, MovingInv
<1>5. KeysInv'
  BY <1>1, <1>3 DEF TableInv, KeysInv
<1>6. \A a, b, d : Probe(a, b, d)' = Probe(a, b, d')
  BY <1>1 DEF Probe, Step
<1>7. PathInv'
  BY <1>1, <1>6 DEF TableInv, PathInv, OnPath
<1>8. CountInv'
  BY <1>1, <1>3 DEF TableInv, CountInv
<1> QED
  BY <1>2, <1>4, <1>5, <1>7, <1>8 DEF TableInv

\* The entry that is taken out of its bucket is in hand.
LEMMA TakeKeeps ==
  ASSUME TableInv, ScanTake
  PROVE  TableInv'
<1> DEFINE n == n_buckets
<1>1. /\ n \in Nat /\ n' = n /\ size' = size /\ size \in Nat
      /\ hand' = [key |-> keys[j], entry |-> vals[j]] /\ hand = NoHand
      /\ flags' = [flags EXCEPT ![j] = "del"]
      /\ Doubled' = Doubled /\ Moving /\ Moving' /\ pc' = "kick" /\ pc = "scan"
      /\ j' = j /\ j \in 0 .. n /\ j < n /\ flags[j] = "live"
      /\ kind' = kind /\ call' = call /\ new_flags' = new_flags /\ keys' = keys
      /\ vals' = vals
  BY DEF TableInv, TypeInv, ScanTake, Moving, Doubled, table
<1>2. /\ flags \in [Buckets(n) -> {"empty", "del", "live"}]
      /\ keys \in [Buckets(Doubled) -> Keys \cup {Junk}]
      /\ vals \in [Buckets(Doubled) -> Entries \cup {Junk}]
      /\ new_flags \in [Buckets(Doubled) -> {"empty", "live"}]
      /\ Buckets(n) \subseteq Buckets(Doubled)
      /\ j \in Buckets(n)
  BY <1>1, DoubledGrows DEF TableInv, TypeInv, Buckets
<1>3. /\ Held = {i \in Buckets(Doubled) :
                   (i \in Buckets(n) /\ flags[i] = "live") \/ new_flags[i] = "live"}
      /\ IsFiniteSet(Held) /\ j \in Held
  BY <1>1, <1>2, HeldIs DEF HeldFacts, TableInv
<1>4. keys[j] \in Keys /\ \A l \in Held : keys[l] = keys[j] => l = j
  BY <1>3 DEF TableInv, KeysInv
<1>5. TypeInv'
  <2>1. flags' \in [Buckets(n) -> {"empty", "del", "live"}]
    BY <1>1, <1>2
  <2>2. hand' \in [key : Keys, entry : Entries \cup {Junk}]
    BY <1>1, <1>2, <1>4
  <2>3. kind \in Kinds /\ call \in Calls
    BY <1>1 DEF TableInv, TypeInv
  <2> QED
    BY <1>1, <1>2, <2>1, <2>2, <2>3 DEF TypeInv
<1>6. Held' = Held \ {j}
  <2>1. HeldFacts'
    BY <1>5, HeldIs, PTL
  <2>2. Held' = {i \in Buckets(Doubled) :
                   (i \in Buckets(n) /\ flags'[i] = "live") \/ new_flags[i] = "live"}
    BY <1>1, <2>1 DEF HeldFacts
  <2>3. new_flags[j] = "empty"
    BY <1>1, <1>2 DEF TableInv, MovingInv
  <2> QED
    BY <1>1, <1>2, <1>3, <2>2, <2>3
<1>7. MovingInv'
  BY <1>1, <1>2 DEF TableInv, MovingInv
<1>8. KeysInv'
  BY <1>1, <1>3, <1>4, <1>6 DEF TableInv, KeysInv
<1>9. \A a, b, d : Probe(a, b, d)' = Probe(a, b, d')
  BY <1>1 DEF Probe, Step
<1>10. PathInv'
  BY <1>1, <1>9 DEF TableInv, PathInv, OnPath
<1>11. CountInv'
  <2>1. Cardinality({}) = 0 /\ Cardinality({keys[j]}) = 1
    BY FS_EmptySet, FS_Singleton
  <2>2. Cardinality(Held) = size
    BY <1>1, <1>3, <2>1, FS_CardinalityType DEF TableInv, CountInv
  <2>3. Cardinality(Held \ {j}) = size - 1
    BY <1>3, <2>2, FS_RemoveElement
  <2> QED
    BY <1>1, <1>6, <2>1, <2>3 DEF CountInv
<1> QED
  BY <1>5, <1>7, <1>8, <1>10, <1>11 DEF TableInv

\* The bucket of the doubled table that the entry in hand is placed in.
LEMMA KickPlace ==
  ASSUME TableInv, pc = "kick",
         NEW free, free = {i \in Buckets(2 * n_buckets) : new_flags[i] = "empty"},
         NEW i \in First(hand.key, 2 * n_buckets, free)
  PROVE  /\ i \in Buckets(Doubled) /\ new_flags[i] = "empty"
         /\ \E m \in Buckets(Doubled) :
              /\ Probe(hand.key, m, Doubled) = i
              /\ \A l \in Buckets(m) : new_flags[Probe(hand.key, l, Doubled)] # "empty"
<1> DEFINE k == hand.key
           d == Doubled
<1>1. n_buckets \in Nat /\ n_buckets > 0 /\ k \in Keys
  BY DEF TableInv, TypeInv, MovingInv
<1>2. 2 * n_buckets = d /\ d \in Nat /\ d > 0
  BY <1>1, DoubledGrows
<1>3. free = {l \in Buckets(d) : new_flags[l] = "empty"} /\ i \in First(k, d, free)
  BY <1>2
<1> HIDE DEF d, k
<1>4. PICK m \in Buckets(d) :
        /\ i = Probe(k, m, d) /\ i \in free
        /\ \A l \in Buckets(m) : Probe(k, l, d) \notin free
  BY <1>2, <1>3, FirstOf
<1>5. ASSUME NEW l \in Buckets(m)
      PROVE  new_flags[Probe(k, l, d)] # "empty"
  <2>1. l \in Nat
    BY DEF Buckets
  <2>2. Probe(k, l, d) \in Buckets(d)
    BY <1>1, <1>2, <2>1, ProbeType
  <2> QED
    BY <1>3, <1>4, <2>2
<1> QED
  BY <1>3, <1>4, <1>5 DEF d, k

\* A step of the chain of kicks: the entry in hand is placed, and the one that was
\* there is in hand, if there was one.
LEMMA KickKeeps ==
  ASSUME TableInv, Kick
  PROVE  TableInv'
<1> DEFINE n == n_buckets
           d == Doubled
           free == {l \in Buckets(2 * n_buckets) : new_flags[l] = "empty"}
<1>1. PICK i \in First(hand.key, 2 * n_buckets, free) :
        /\ new_flags' = [new_flags EXCEPT ![i] = "live"]
        /\ keys' = [keys EXCEPT ![i] = hand.key]
        /\ vals' = [vals EXCEPT ![i] = hand.entry]
        /\ \/ i < n /\ flags[i] = "live" /\ KickOut(i)
           \/ ~(i < n /\ flags[i] = "live") /\ KickEnd
  BY DEF Kick
<1>2. /\ pc = "kick" /\ Moving /\ n \in Nat /\ n' = n /\ size' = size /\ size \in Nat
      /\ d' = d /\ d \in Nat /\ kind' = kind /\ call' = call
      /\ kind \in Kinds /\ call \in Calls /\ j \in 0 .. n /\ j < n /\ flags[j] # "live"
      /\ flags \in [Buckets(n) -> {"empty", "del", "live"}]
      /\ keys \in [Buckets(d) -> Keys \cup {Junk}]
      /\ vals \in [Buckets(d) -> Entries \cup {Junk}]
      /\ new_flags \in [Buckets(d) -> {"empty", "live"}]
      /\ hand.key \in Keys /\ hand.entry \in Entries \cup {Junk}
      /\ Buckets(n) \subseteq Buckets(d)
      /\ \A l \in Buckets(d) : (l < n) <=> l \in Buckets(n)
  BY DoubledGrows DEF Kick, TableInv, TypeInv, MovingInv, Moving, Doubled
<1>3. /\ i \in Buckets(d) /\ new_flags[i] = "empty"
      /\ \E m \in Buckets(d) :
           /\ Probe(hand.key, m, d) = i
           /\ \A l \in Buckets(m) : new_flags[Probe(hand.key, l, d)] # "empty"
  BY <1>2, KickPlace
<1>4. /\ Held = {l \in Buckets(d) :
                   (l \in Buckets(n) /\ flags[l] = "live") \/ new_flags[l] = "live"}
      /\ IsFiniteSet(Held)
  BY <1>2, HeldIs DEF HeldFacts, TableInv
<1>5. /\ \A l \in Held : keys[l] \in Keys /\ keys[l] # hand.key
      /\ \A l, o \in Held : keys[l] = keys[o] => l = o
      /\ \A l \in Buckets(n) : flags[l] = "live" => l >= j /\ new_flags[l] = "empty"
      /\ Cardinality(Held) + Cardinality({hand.key}) = size
  BY <1>2 DEF TableInv, KeysInv, MovingInv, CountInv
<1>6. /\ keys' \in [Buckets(d) -> Keys \cup {Junk}]
      /\ vals' \in [Buckets(d) -> Entries \cup {Junk}]
      /\ new_flags' \in [Buckets(d) -> {"empty", "live"}]
      /\ \A l \in Buckets(d) : l # i => keys'[l] = keys[l] /\ new_flags'[l] = new_flags[l]
      /\ keys'[i] = hand.key /\ new_flags'[i] = "live"
  BY <1>1, <1>2, <1>3
<1>7. \A a, b : Probe(a, b, d)' = Probe(a, b, d)
  BY <1>2 DEF Probe, Step
<1> HIDE DEF d
<1>8. ASSUME NEW l \in Buckets(d), new_flags'[l] = "live", keys'[l] \in Keys
      PROVE  OnPath(new_flags, d, l)'
  <2>1. \A p \in Buckets(d) : new_flags[p] # "empty" => new_flags'[p] # "empty"
    BY <1>6
  <2>2. PICK m \in Buckets(d) :
          /\ Probe(keys'[l], m, d) = l
          /\ \A o \in Buckets(m) : new_flags[Probe(keys'[l], o, d)] # "empty"
    <3>1. CASE l = i
      BY <1>3, <1>6, <3>1
    <3>2. CASE l # i
      <4>1. new_flags[l] = "live" /\ keys'[l] = keys[l]
        BY <1>6, <1>8, <3>2
      <4> QED
        BY <1>2, <4>1 DEF TableInv, PathInv, OnPath, d
    <3> QED
      BY <3>1, <3>2
  <2>3. \A o \in Buckets(m) : Probe(keys'[l], o, d) \in Buckets(d)
    <3>1. d > 0 /\ \A o \in Buckets(m) : o \in Nat
      BY <1>2 DEF Buckets
    <3> QED
      BY <1>2, <1>8, <2>2, <3>1, ProbeType
  <2>4. \A o \in Buckets(m) : new_flags'[Probe(keys'[l], o, d)] # "empty"
    BY <2>1, <2>2, <2>3
  <2> QED
    BY <1>2, <1>7, <2>2, <2>4 DEF OnPath
<1>9. ASSUME TypeInv', Moving', Held' \subseteq Held \cup {i}
      PROVE  PathInv'
  <2>1. HeldFacts'
    BY <1>9, HeldIs, PTL
  <2>2. \A l \in Buckets(d) : new_flags'[l] = "live" => l \in Held'
    BY <1>2, <1>9, <2>1 DEF HeldFacts, d
  <2>3. \A l \in Buckets(d) : new_flags'[l] = "live" => keys'[l] \in Keys
    BY <1>2, <1>5, <1>6, <1>9, <2>2
  <2>4. \A l \in Buckets(d) : new_flags'[l] = "live" => OnPath(new_flags, d, l)'
    BY <1>8, <2>3
  <2> QED
    BY <1>2, <1>9, <2>4 DEF PathInv, d
<1>10. CASE i < n /\ flags[i] = "live" /\ KickOut(i)
  <2>1. /\ hand' = [key |-> keys[i], entry |-> vals[i]]
        /\ flags' = [flags EXCEPT ![i] = "del"] /\ pc' = "kick" /\ j' = j /\ Moving'
        /\ i \in Buckets(n) /\ i \in Held
    BY <1>2, <1>3, <1>4, <1>10 DEF KickOut, Moving
  <2>2. flags' \in [Buckets(n) -> {"empty", "del", "live"}]
    BY <1>2, <2>1
  <2>3. TypeInv'
    <3>1. hand' \in [key : Keys, entry : Entries \cup {Junk}]
      BY <1>2, <1>5, <1>3, <2>1
    <3> QED
      BY <1>2, <1>6, <2>1, <2>2, <3>1 DEF TypeInv, d
  <2>4. Held' = Held
    <3>1. HeldFacts'
      BY <2>3, HeldIs, PTL
    <3>2. Held' = {l \in Buckets(d) :
                     (l \in Buckets(n) /\ flags'[l] = "live") \/ new_flags'[l] = "live"}
      BY <1>2, <2>1, <3>1 DEF HeldFacts, d
    <3> QED
      BY <1>2, <1>3, <1>4, <1>6, <2>1, <3>2
  <2>5. MovingInv'
    BY <1>2, <1>5, <1>6, <2>1 DEF MovingInv
  <2>6. KeysInv'
    <3>1. \A l \in Held : l # i => keys'[l] = keys[l]
      BY <1>4, <1>6
    <3> QED
      BY <1>2, <1>5, <1>6, <2>1, <2>4, <3>1 DEF KeysInv
  <2>7. CountInv'
    <3>1. Cardinality({hand.key}) = 1 /\ Cardinality({hand'.key}) = 1
      BY FS_Singleton
    <3> QED
      BY <1>2, <1>5, <2>1, <2>4, <3>1 DEF CountInv
  <2> QED
    BY <1>9, <2>1, <2>3, <2>4, <2>5, <2>6, <2>7 DEF TableInv
<1>11. CASE ~(i < n /\ flags[i] = "live") /\ KickEnd
  <2>1. /\ hand' = NoHand /\ flags' = flags /\ pc' = "scan" /\ j' = j + 1 /\ Moving'
        /\ i \notin Held
    BY <1>2, <1>3, <1>4, <1>11 DEF KickEnd, Moving
  <2>2. TypeInv'
    BY <1>2, <1>6, <2>1 DEF TypeInv, d
  <2>3. Held' = Held \cup {i}
    <3>1. HeldFacts'
      BY <2>2, HeldIs, PTL
    <3>2. Held' = {l \in Buckets(d) :
                     (l \in Buckets(n) /\ flags'[l] = "live") \/ new_flags'[l] = "live"}
      BY <1>2, <2>1, <3>1 DEF HeldFacts, d
    <3> QED
      BY <1>2, <1>3, <1>4, <1>6, <2>1, <3>2
  <2>4. MovingInv'
    <3>1. \A l \in Buckets(n) : flags[l] = "live" => l >= j + 1
      <4> SUFFICES ASSUME NEW l \in Buckets(n), flags[l] = "live" PROVE l >= j + 1
        OBVIOUS
      <4>1. l >= j /\ l # j /\ l \in Int /\ j \in Int
        BY <1>2, <1>5 DEF Buckets
      <4> QED
        BY <4>1
    <3>2. \A l \in Buckets(n) : flags[l] = "live" => l # i
      BY <1>2, <1>3, <1>11
    <3> QED
      BY <1>2, <1>5, <1>6, <2>1, <3>1, <3>2 DEF MovingInv
  <2>5. KeysInv'
    <3>1. \A l \in Held : keys'[l] = keys[l]
      BY <1>4, <1>6, <2>1
    <3>2. hand'.key = None /\ None \notin Keys
      BY <2>1, TableAssumption DEF NoHand
    <3> QED
      BY <1>2, <1>5, <1>6, <2>3, <3>1, <3>2 DEF KeysInv
  <2>6. CountInv'
    <3>1. Cardinality({hand.key}) = 1 /\ Cardinality({}) = 0
      BY FS_Singleton, FS_EmptySet
    <3>2. Cardinality(Held \cup {i}) = Cardinality(Held) + 1 /\ Cardinality(Held) \in Nat
      BY <1>4, <2>1, FS_AddElement, FS_CardinalityType
    <3> QED
      BY <1>2, <1>5, <2>1, <2>3, <3>1, <3>2 DEF CountInv
  <2> QED
    BY <1>9, <2>1, <2>2, <2>3, <2>4, <2>5, <2>6 DEF TableInv
<1> QED
  BY <1>1, <1>10, <1>11

\* When the old table is empty the doubled one takes its place.
LEMMA DoneKeeps ==
  ASSUME TableInv, ResizeDone
  PROVE  TableInv' /\ Held' = Held
<1> DEFINE n == n_buckets
           d == Doubled
<1>1. /\ pc = "scan" /\ pc' = "put" /\ Moving /\ ~Moving' /\ n \in Nat /\ n' = d
      /\ size' = size /\ size \in Nat /\ j = n /\ j' = 0
      /\ flags' = new_flags /\ new_flags' = Nowhere
      /\ hand' = hand /\ hand = NoHand /\ kind' = kind /\ call' = call
      /\ keys' = keys /\ vals' = vals
      /\ d \in Nat
  BY DoubledGrows DEF ResizeDone, TableInv, TypeInv, Moving
<1>2. /\ new_flags \in [Buckets(d) -> {"empty", "live"}]
      /\ keys \in [Buckets(d) -> Keys \cup {Junk}]
      /\ vals \in [Buckets(d) -> Entries \cup {Junk}]
      /\ kind \in Kinds /\ call \in Calls
  BY <1>1 DEF TableInv, TypeInv
<1> HIDE DEF d
<1>3. TypeInv'
  <2>1. flags' \in [Buckets(d) -> {"empty", "del", "live"}]
    BY <1>1, <1>2
  <2>2. new_flags' \in [{} -> {"empty", "live"}]
    BY <1>1 DEF Nowhere
  <2> QED
    BY <1>1, <1>2, <2>1, <2>2 DEF TypeInv
<1>4. \A i \in Buckets(n) : flags[i] # "live"
  <2> SUFFICES ASSUME NEW i \in Buckets(n), flags[i] = "live" PROVE FALSE
    OBVIOUS
  <2>1. i >= n /\ i < n /\ i \in Int
    BY <1>1 DEF TableInv, MovingInv, Buckets
  <2> QED
    BY <1>1, <2>1
<1>5. Held' = Held
  <2>1. HeldFacts'
    BY <1>3, HeldIs, PTL
  <2>2. Held' = {i \in Buckets(d) : new_flags[i] = "live"}
    BY <1>1, <2>1 DEF HeldFacts
  <2>3. Held = {i \in Buckets(d) : (i \in Buckets(n) /\ flags[i] = "live") \/ new_flags[i] = "live"}
    BY <1>1, HeldIs DEF HeldFacts, TableInv, d
  <2> QED
    BY <1>4, <2>2, <2>3
<1>6. MovingInv'
  BY <1>1, <1>2 DEF MovingInv
<1>7. KeysInv'
  BY <1>1, <1>5 DEF TableInv, KeysInv
<1>8. \A a, b : Probe(a, b, d)' = Probe(a, b, d')
  BY <1>1 DEF Probe, Step
<1>9. PathInv'
  <2>1. \A i \in Buckets(d) : new_flags[i] = "live" => OnPath(new_flags, d, i)
    BY <1>1 DEF TableInv, PathInv, d
  <2>2. \A a, b : Probe(a, b, n)' = Probe(a, b, d)
    BY <1>1 DEF Probe, Step
  <2>3. \A i \in Buckets(d) : new_flags[i] = "live" => OnPath(flags, n, i)'
    BY <1>1, <2>1, <2>2 DEF OnPath
  <2> QED
    BY <1>1, <2>3 DEF PathInv
<1>10. CountInv'
  BY <1>1, <1>5 DEF TableInv, CountInv
<1> QED
  BY <1>3, <1>5, <1>6, <1>7, <1>9, <1>10 DEF TableInv

-----------------------------------------------------------------------------
(* The other calls.                                                        *)

\* Giving the iterator up, with or without a write through it.
LEMMA ReturnKeeps ==
  ASSUME TableInv, Release \/ Write
  PROVE  TableInv' /\ Held' = Held
<1>1. /\ kind' = kind /\ n_buckets' = n_buckets /\ flags' = flags /\ keys' = keys
      /\ size' = size /\ j' = j /\ new_flags' = new_flags /\ hand' = hand
      /\ pc = "held" /\ pc' = "idle" /\ ~Moving /\ ~Moving'
  BY DEF Release, Write, table, resize, Moving
<1>2. vals' \in [Buckets(n_buckets) -> Entries \cup {Junk}]
  <2>1. vals \in [Buckets(n_buckets) -> Entries \cup {Junk}] /\ call.key \in Keys
    BY <1>1, CallType DEF TableInv, TypeInv
  <2>2. CASE Release
    BY <2>1, <2>2 DEF Release, table
  <2>3. CASE Write
    <3>1. Own[call.key] \subseteq Entries
      BY <2>1, TableAssumption
    <3> QED
      BY <2>1, <2>3, <3>1 DEF Write
  <2> QED
    BY <2>2, <2>3
<1>3. TypeInv'
  BY <1>1, <1>2 DEF TableInv, TypeInv
<1>4. Held' = Held
  BY <1>1 DEF Held, Holds
<1>5. \A a, b, c : Probe(a, b, c)' = Probe(a, b, c')
  BY <1>1 DEF Probe, Step
<1>6. MovingInv' /\ KeysInv' /\ CountInv'
  BY <1>1, <1>4 DEF TableInv, MovingInv, KeysInv, CountInv
<1>7. PathInv'
  BY <1>1, <1>5 DEF TableInv, PathInv, OnPath
<1> QED
  BY <1>3, <1>4, <1>6, <1>7 DEF TableInv

\* Clearing resets the flags.
LEMMA ClearKeeps ==
  ASSUME TableInv, Clear
  PROVE  TableInv' /\ Held' = {}
<1>1. /\ kind' = kind /\ n_buckets' = n_buckets /\ keys' = keys /\ vals' = vals
      /\ size' = 0 /\ j' = j /\ new_flags' = new_flags /\ hand' = hand
      /\ pc = "idle" /\ pc' = "idle" /\ ~Moving /\ ~Moving'
      /\ flags' = [i \in Buckets(n_buckets) |-> "empty"]
  BY DEF Clear, resize, Moving
<1>2. TypeInv'
  BY <1>1 DEF TableInv, TypeInv
<1>3. Held' = {}
  <2>1. HeldFacts'
    BY <1>2, HeldIs, PTL
  <2> QED
    BY <1>1, <2>1 DEF HeldFacts
<1>4. MovingInv' /\ KeysInv' /\ PathInv'
  BY <1>1, <1>3 DEF TableInv, MovingInv, KeysInv, PathInv
<1>5. CountInv'
  BY <1>1, <1>3, FS_EmptySet DEF CountInv
<1> QED
  BY <1>2, <1>3, <1>4, <1>5 DEF TableInv

\* Every step keeps the invariant.
LEMMA StepKeeps == TableInv /\ [Next]_tvars => TableInv'
<1> SUFFICES ASSUME TableInv, [Next]_tvars PROVE TableInv'
  OBVIOUS
<1>1. ASSUME NEW c \in Calls, PutNow(c)
      PROVE  TableInv'
  BY <1>1, PutKeeps DEF PutNow, Moving, TableInv, TypeInv
<1>2. ASSUME NEW c \in Calls, ResizeStart(c)
      PROVE  TableInv'
  BY <1>2, StartKeeps
<1>3. CASE Clear
  BY <1>3, ClearKeeps
<1>4. CASE ScanSkip
  BY <1>4, SkipKeeps
<1>5. CASE ScanTake
  BY <1>5, TakeKeeps
<1>6. CASE Kick
  BY <1>6, KickKeeps
<1>7. CASE ResizeDone
  BY <1>7, DoneKeeps
<1>8. CASE PutAfter
  <2>1. call \in Calls /\ ~Moving /\ hand = NoHand /\ Put(call)
    BY <1>8 DEF PutAfter, Moving, TableInv, TypeInv
  <2> QED
    BY <2>1, PutKeeps
<1>9. CASE Release \/ Write
  BY <1>9, ReturnKeeps
<1>10. CASE UNCHANGED tvars
  BY <1>10 DEF tvars, table, resize, TableInv, TypeInv, MovingInv, KeysInv, PathInv, CountInv,
               Moving, Held, Holds, OnPath, Probe, Step, Doubled
<1> QED
  BY <1>1, <1>2, <1>3, <1>4, <1>5, <1>6, <1>7, <1>8, <1>9, <1>10 DEF Next, Working

\* The inductive invariant of the tables: with two keys in one bucket, kicked out of
\* it or passed over by a probe, everything stays where it is looked for.
THEOREM TableInvariant == Spec => []TableInv
BY InitInv, StepKeeps, PTL DEF Spec

\* TypeOK for every set of keys: the arrays have the sizes kh_resize and
\* alignhash_resize take them to have.
THEOREM TableTypes == Spec => []TypeOK
<1>1. TableInv => TypeOK
  <2> SUFFICES ASSUME TableInv PROVE TypeOK
    OBVIOUS
  <2>1. DOMAIN keys \in {Buckets(n_buckets), Buckets(Doubled)} /\ DOMAIN vals = DOMAIN keys
    BY DEF TableInv, TypeInv
  <2>2. \A i \in DOMAIN keys : keys[i] \in Keys \cup {Junk}
    BY DEF TableInv, TypeInv
  <2>3. \A i \in DOMAIN vals : vals[i] \in Entries \cup {Junk}
    BY DEF TableInv, TypeInv
  <2>4. \A i \in DOMAIN new_flags : new_flags[i] \in {"empty", "live"}
    BY DEF TableInv, TypeInv
  <2>5. pc = "held" => x \in DOMAIN vals
    BY DEF TableInv, TypeInv, Moving
  <2> QED
    BY <2>1, <2>2, <2>3, <2>4, <2>5 DEF TableInv, TypeInv, TypeOK
<1> QED
  BY <1>1, TableInvariant, PTL

\* Reachable for every set of keys, whatever their hashes and steps: kh_put and
\* alignhash_set find what is there, however often the table was doubled in place.
THEOREM ReachableProved == Spec => []Reachable
<1>1. TableInv => Reachable
  <2> SUFFICES ASSUME TableInv, pc = "idle", NEW i \in Held
               PROVE  First(keys[i], n_buckets, Stops(keys[i])) = {i}
    BY DEF Reachable
  <2> DEFINE n == n_buckets
             k == keys[i]
  <2>1. /\ n \in Nat /\ ~Moving /\ flags \in [Buckets(n) -> {"empty", "del", "live"}]
        /\ Held = {l \in Buckets(n) : flags[l] = "live"}
        /\ \A l \in Buckets(n) : flags[l] # "del"
        /\ \A l, o \in Held : keys[l] = keys[o] => l = o
    BY HeldIs DEF TableInv, TypeInv, HeldFacts, Moving, MovingInv, KeysInv
  <2>2. PICK m \in Buckets(n) :
          Probe(k, m, n) = i /\ \A l \in Buckets(m) : flags[Probe(k, l, n)] # "empty"
    BY <2>1 DEF TableInv, PathInv, OnPath
  <2>3. i \in Stops(k)
    BY <2>1 DEF Stops
  <2>4. PICK o \in Buckets(n) :
          /\ First(k, n, Stops(k)) = {Probe(k, o, n)}
          /\ Probe(k, o, n) \in Stops(k)
          /\ \A l \in Buckets(o) : Probe(k, l, n) \notin Stops(k)
    <3> HIDE DEF k
    <3> QED
      BY <2>1, <2>2, <2>3, FirstOf
  <2>5. m \notin Buckets(o)
    BY <2>2, <2>3, <2>4
  <2>6. o = m \/ o \in Buckets(m)
    BY <2>5 DEF Buckets
  <2>7. CASE o \in Buckets(m)
    <3>1. Probe(k, o, n) \in Buckets(n) /\ flags[Probe(k, o, n)] # "empty" /\ keys[Probe(k, o, n)] = k
      BY <2>2, <2>4, <2>7 DEF Stops
    <3>2. Probe(k, o, n) \in Held
      BY <2>1, <3>1
    <3>3. Probe(k, o, n) = i
      BY <2>1, <3>1, <3>2
    <3> QED
      BY <2>4, <3>3
  <2> QED
    BY <2>2, <2>4, <2>6, <2>7
<1> QED
  BY <1>1, TableInvariant, PTL

\* NothingLost for every set of keys: in the middle of a resize each entry is in an
\* old bucket, in a new one or in hand, and in one of them only.
THEOREM NothingLostProved == Spec => []NothingLost
<1>1. TableInv => NothingLost
  <2> SUFFICES ASSUME TableInv PROVE NothingLost
    OBVIOUS
  <2> DEFINE inHand == IF hand = NoHand THEN {} ELSE {hand.key}
  <2>1. inHand = IF pc = "kick" THEN {hand.key} ELSE {}
    <3>1. pc = "kick" => hand.key \in Keys
      BY DEF TableInv, TypeInv
    <3>2. pc = "kick" => hand # NoHand
      BY <3>1, TableAssumption DEF NoHand
    <3>3. pc # "kick" => hand = NoHand
      BY DEF TableInv, TypeInv
    <3> QED
      BY <3>2, <3>3
  <2>2. \A i \in Held : keys[i] \notin inHand
    BY DEF TableInv, KeysInv
  <2> HIDE DEF inHand
  <2>3. Cardinality(Held) + Cardinality(inHand) = size
    BY <2>1 DEF TableInv, CountInv
  <2>4. \A i, l \in Held : keys[i] = keys[l] => i = l
    BY DEF TableInv, KeysInv
  <2> USE DEF inHand
  <2> QED
    BY <2>2, <2>3, <2>4 DEF NothingLost
<1> QED
  BY <1>1, TableInvariant, PTL

-----------------------------------------------------------------------------
(* The table implements the map.                                           *)

\* The entry that the refinement gives a key.
EntryOf(k) ==
  LET at == {i \in Held : keys[i] = k}
  IN IF hand.key = k THEN hand.entry
     ELSE IF at = {} THEN None ELSE vals[CHOOSE i \in at : TRUE]

\* The map as a function of the state.
Entry == [k \in Keys |-> EntryOf(k)]

\* What the map is: the entry in hand, the entry at the one bucket with the key,
\* or none.
EntryFacts ==
  /\ hand.key \in Keys => Entry[hand.key] = hand.entry
  /\ \A i \in Held : Entry[keys[i]] = vals[i]
  /\ \A k \in Keys : k # hand.key /\ (\A i \in Held : keys[i] # k) => Entry[k] = None

\* EntryFacts follows from the invariant.
LEMMA EntryIs == KeysInv => EntryFacts
<1> SUFFICES ASSUME KeysInv PROVE EntryFacts
  OBVIOUS
<1>1. hand.key \in Keys => Entry[hand.key] = hand.entry
  BY DEF Entry, EntryOf
<1>2. ASSUME NEW i \in Held
      PROVE  Entry[keys[i]] = vals[i]
  <2> DEFINE at == {l \in Held : keys[l] = keys[i]}
  <2>1. keys[i] \in Keys /\ keys[i] # hand.key
    BY DEF KeysInv
  <2>2. at = {i}
    BY DEF KeysInv
  <2>3. (CHOOSE l \in at : TRUE) = i
    BY <2>2
  <2>4. EntryOf(keys[i]) = vals[i]
    BY <2>1, <2>2, <2>3 DEF EntryOf
  <2> QED
    BY <2>1, <2>4 DEF Entry
<1>3. ASSUME NEW k \in Keys, k # hand.key, \A i \in Held : keys[i] # k
      PROVE  Entry[k] = None
  <2>1. {i \in Held : keys[i] = k} = {}
    BY <1>3
  <2> QED
    BY <1>3, <2>1 DEF Entry, EntryOf
<1> QED
  BY <1>1, <1>2, <1>3 DEF EntryFacts

\* A put sets the entry of its key, or finds it, or puts an unknown one.
LEMMA PutMaps ==
  ASSUME TableInv, ~Moving, hand = NoHand, NEW c \in Calls, Put(c)
  PROVE  \/ \E e \in Own[c.key] : Entry' = [Entry EXCEPT ![c.key] = e]
         \/ Entry' = Entry
         \/ /\ Entry[c.key] = None
            /\ \E e \in Entries \cup {Junk} : Entry' = [Entry EXCEPT ![c.key] = e]
<1> DEFINE k == c.key
           n == n_buckets
<1>1. PICK i \in First(c.key, n_buckets, Stops(c.key)) :
        /\ flags' = [flags EXCEPT ![i] = "live"]
        /\ keys' = [keys EXCEPT ![i] = c.key]
        /\ vals' = IF c.for = "set" THEN [vals EXCEPT ![i] = c.entry] ELSE vals
  BY DEF Put
<1>2. TableInv' /\ ~Moving'
  BY PutKeeps, PutType
<1>3. /\ n' = n /\ hand' = NoHand /\ hand.key = None /\ hand'.key = None
      /\ flags \in [Buckets(n) -> {"empty", "del", "live"}]
      /\ keys \in [Buckets(n) -> Keys \cup {Junk}]
      /\ vals \in [Buckets(n) -> Entries \cup {Junk}]
  BY DEF Put, resize, TableInv, TypeInv, NoHand
<1>4. /\ i \in Buckets(n) /\ k \in Keys
      /\ \/ flags[i] = "live" /\ keys[i] = k
         \/ flags[i] = "empty" /\ \A l \in Held : keys[l] # k
      /\ c.for \in {"find", "set"} /\ (c.for = "set" => c.entry \in Own[k])
  BY StopsRight, CallType
<1>5. /\ Held = {l \in Buckets(n) : flags[l] = "live"}
      /\ Held' = {l \in Buckets(n) : flags'[l] = "live"}
  <2>1. HeldFacts'
    BY <1>2, HeldIs, PTL DEF TableInv
  <2> QED
    BY <1>2, <1>3, <2>1, HeldIs DEF HeldFacts, TableInv
<1>6. Held' = Held \cup {i}
  BY <1>1, <1>3, <1>4, <1>5
<1>7. EntryFacts /\ EntryFacts'
  <2>1. KeysInv /\ KeysInv'
    BY <1>2 DEF TableInv
  <2> QED
    BY <2>1, EntryIs, PTL
<1>8. DOMAIN Entry = Keys /\ DOMAIN Entry' = Keys /\ None \notin Keys
  BY TableAssumption DEF Entry
<1>9. keys'[i] = k /\ \A l \in Held : l # i => keys'[l] = keys[l] /\ vals'[l] = vals[l]
  BY <1>1, <1>3, <1>4, <1>5
<1>10. ASSUME NEW h \in Keys, h # k
       PROVE  Entry'[h] = Entry[h]
  <2>1. CASE \E l \in Held : keys[l] = h
    <3>1. PICK l \in Held : keys[l] = h
      BY <2>1
    <3>2. l # i
      BY <1>4, <1>5, <1>10, <3>1
    <3>3. l \in Held' /\ keys'[l] = h /\ vals'[l] = vals[l]
      BY <1>6, <1>9, <3>1, <3>2
    <3> QED
      BY <1>7, <3>1, <3>3 DEF EntryFacts
  <2>2. CASE \A l \in Held : keys[l] # h
    <3>1. \A l \in Held' : keys'[l] # h
      BY <1>6, <1>9, <1>10, <2>2
    <3> QED
      BY <1>3, <1>7, <1>8, <2>2, <3>1 DEF EntryFacts
  <2> QED
    BY <2>1, <2>2
<1>11. Entry'[k] = vals'[i]
  BY <1>6, <1>7, <1>9 DEF EntryFacts
<1>12. Entry' = [Entry EXCEPT ![k] = vals'[i]]
  <2>1. Entry' = [h \in Keys |-> Entry'[h]] /\ Entry = [h \in Keys |-> Entry[h]]
    BY DEF Entry
  <2> QED
    BY <1>4, <1>10, <1>11, <2>1
<1> HIDE DEF k
<1>13. CASE c.for = "set"
  <2>1. vals'[i] = c.entry
    BY <1>1, <1>3, <1>4, <1>13
  <2> QED
    BY <1>4, <1>12, <1>13, <2>1 DEF k
<1>14. CASE c.for = "find" /\ flags[i] = "live"
  <2>1. i \in Held /\ vals'[i] = vals[i] /\ keys[i] = k
    BY <1>1, <1>4, <1>5, <1>14
  <2>2. Entry[k] = vals[i]
    BY <1>7, <2>1 DEF EntryFacts
  <2>3. Entry = [h \in Keys |-> Entry[h]]
    BY DEF Entry
  <2>4. Entry' = Entry
    BY <1>12, <2>1, <2>2, <2>3
  <2> QED
    BY <2>4
<1>15. CASE c.for = "find" /\ flags[i] = "empty"
  <2>1. vals'[i] \in Entries \cup {Junk}
    BY <1>1, <1>3, <1>4, <1>15
  <2>2. Entry[k] = None
    BY <1>3, <1>4, <1>7, <1>8, <1>15 DEF EntryFacts
  <2> QED
    BY <1>12, <2>1, <2>2 DEF k
<1> QED
  BY <1>4, <1>13, <1>14, <1>15

\* Moving an entry from a bucket to the hand, or from the hand to a bucket, changes
\* nothing of the map.
LEMMA KickMaps ==
  ASSUME TableInv, Kick
  PROVE  Entry' = Entry
<1> DEFINE n == n_buckets
           d == Doubled
           free == {l \in Buckets(2 * n_buckets) : new_flags[l] = "empty"}
<1>1. PICK i \in First(hand.key, 2 * n_buckets, free) :
        /\ new_flags' = [new_flags EXCEPT ![i] = "live"]
        /\ keys' = [keys EXCEPT ![i] = hand.key]
        /\ vals' = [vals EXCEPT ![i] = hand.entry]
        /\ \/ i < n /\ flags[i] = "live" /\ KickOut(i)
           \/ ~(i < n /\ flags[i] = "live") /\ KickEnd
  BY DEF Kick
<1>2. TableInv'
  BY KickKeeps
<1>3. /\ pc = "kick" /\ Moving /\ Moving' /\ n \in Nat /\ n' = n /\ d' = d
      /\ flags \in [Buckets(n) -> {"empty", "del", "live"}]
      /\ keys \in [Buckets(d) -> Keys \cup {Junk}]
      /\ vals \in [Buckets(d) -> Entries \cup {Junk}]
      /\ new_flags \in [Buckets(d) -> {"empty", "live"}]
      /\ hand.key \in Keys
      /\ Buckets(n) \subseteq Buckets(d)
      /\ \A l \in Buckets(d) : (l < n) <=> l \in Buckets(n)
  BY <1>1, DoubledGrows DEF Kick, KickOut, KickEnd, TableInv, TypeInv, Moving, Doubled
<1>4. i \in Buckets(d) /\ new_flags[i] = "empty"
  BY <1>3, KickPlace
<1>5. /\ Held = {l \in Buckets(d) :
                   (l \in Buckets(n) /\ flags[l] = "live") \/ new_flags[l] = "live"}
      /\ Held' = {l \in Buckets(d) :
                   (l \in Buckets(n) /\ flags'[l] = "live") \/ new_flags'[l] = "live"}
  <2>1. HeldFacts'
    BY <1>2, HeldIs, PTL DEF TableInv
  <2> QED
    BY <1>3, <2>1, HeldIs DEF HeldFacts, TableInv
<1>6. /\ keys'[i] = hand.key /\ vals'[i] = hand.entry /\ i \in Held'
      /\ \A l \in Buckets(d) : l # i =>
           keys'[l] = keys[l] /\ vals'[l] = vals[l] /\ new_flags'[l] = new_flags[l]
  BY <1>1, <1>3, <1>4, <1>5
<1> HIDE DEF d
<1>7. \A l \in Held : l # i => l \in Held' /\ keys'[l] = keys[l] /\ vals'[l] = vals[l]
  BY <1>1, <1>3, <1>5, <1>6 DEF KickOut, KickEnd
<1>8. \A l \in Held' : l # i => l \in Held /\ keys'[l] = keys[l]
  BY <1>1, <1>3, <1>5, <1>6 DEF KickOut, KickEnd
<1>9. EntryFacts /\ EntryFacts'
  <2>1. KeysInv /\ KeysInv'
    BY <1>2 DEF TableInv
  <2> QED
    BY <2>1, EntryIs, PTL
<1>10. \/ i \in Held /\ hand' = [key |-> keys[i], entry |-> vals[i]] /\ keys[i] \in Keys
       \/ i \notin Held /\ hand'.key = None
  <2>1. CASE i < n /\ flags[i] = "live" /\ KickOut(i)
    BY <1>2, <1>3, <1>4, <1>5, <2>1 DEF KickOut, TableInv, KeysInv
  <2>2. CASE ~(i < n /\ flags[i] = "live") /\ KickEnd
    BY <1>3, <1>4, <1>5, <2>2 DEF KickEnd, NoHand
  <2> QED
    BY <1>1, <2>1, <2>2
<1>11. ASSUME NEW h \in Keys
       PROVE  Entry'[h] = Entry[h]
  <2>1. CASE h = hand.key
    BY <1>6, <1>9, <2>1 DEF EntryFacts
  <2>2. CASE h # hand.key /\ \E l \in Held : keys[l] = h
    <3>1. PICK l \in Held : keys[l] = h
      BY <2>2
    <3>2. CASE l = i
      <4>1. hand'.key = h /\ hand'.entry = vals[i]
        BY <1>10, <3>1, <3>2
      <4> QED
        BY <1>9, <3>1, <3>2, <4>1 DEF EntryFacts
    <3>3. CASE l # i
      <4>1. l \in Held' /\ keys'[l] = h /\ vals'[l] = vals[l]
        BY <1>7, <3>1, <3>3
      <4> QED
        BY <1>9, <3>1, <4>1 DEF EntryFacts
    <3> QED
      BY <3>2, <3>3
  <2>3. CASE h # hand.key /\ \A l \in Held : keys[l] # h
    <3>1. \A l \in Held' : keys'[l] # h
      BY <1>6, <1>8, <2>3
    <3>2. hand'.key # h
      BY <1>10, <2>3, TableAssumption
    <3> QED
      BY <1>9, <2>3, <3>1, <3>2 DEF EntryFacts
  <2> QED
    BY <2>1, <2>2, <2>3
<1> QED
  <2>1. Entry' = [h \in Keys |-> Entry'[h]] /\ Entry = [h \in Keys |-> Entry[h]]
    BY DEF Entry
  <2> QED
    BY <1>11, <2>1

\* What leaves the entries in their buckets and the hand alone leaves the map.
LEMMA SameMaps ==
  ASSUME TableInv, TableInv', hand' = hand, Held' = Held,
         \A l \in Held : keys'[l] = keys[l] /\ vals'[l] = vals[l]
  PROVE  Entry' = Entry
<1>1. EntryFacts /\ EntryFacts'
  <2>1. KeysInv /\ KeysInv'
    BY DEF TableInv
  <2> QED
    BY <2>1, EntryIs, PTL
<1>2. ASSUME NEW h \in Keys
      PROVE  Entry'[h] = Entry[h]
  <2>1. CASE h = hand.key
    BY <1>1, <2>1 DEF EntryFacts
  <2>2. CASE \E l \in Held : keys[l] = h
    BY <1>1, <2>2 DEF EntryFacts
  <2>3. CASE h # hand.key /\ \A l \in Held : keys[l] # h
    BY <1>1, <2>3 DEF EntryFacts
  <2> QED
    BY <2>1, <2>2, <2>3
<1> QED
  <2>1. Entry' = [h \in Keys |-> Entry'[h]] /\ Entry = [h \in Keys |-> Entry[h]]
    BY DEF Entry
  <2> QED
    BY <1>2, <2>1

\* So do the steps of a resize that place nothing, and a return.
LEMMA QuietMaps ==
  ASSUME TableInv, TableInv',
         (\E c \in Calls : ResizeStart(c)) \/ ScanSkip \/ ResizeDone \/ Release
  PROVE  Entry' = Entry
<1>1. CASE \E c \in Calls : ResizeStart(c)
  <2>1. /\ n_buckets' = n_buckets /\ flags' = flags /\ hand' = hand /\ n_buckets \in Nat
        /\ Doubled' = Doubled /\ ~Moving /\ Moving'
        /\ new_flags' = [i \in Buckets(Doubled) |-> "empty"]
        /\ keys' = RoomFor(keys) /\ vals' = RoomFor(vals)
    BY <1>1 DEF TableInv, TypeInv, ResizeStart, Moving, Doubled
  <2>2. /\ Buckets(n_buckets) \subseteq Buckets(Doubled)
        /\ \A i \in Buckets(Doubled) : (i < n_buckets) <=> i \in Buckets(n_buckets)
    BY <2>1, DoubledGrows
  <2>3. HeldFacts /\ HeldFacts'
    BY HeldIs, PTL DEF TableInv
  <2>4. Held' = Held /\ Held \subseteq Buckets(n_buckets)
    BY <2>1, <2>2, <2>3 DEF HeldFacts
  <2>5. \A l \in Held : keys'[l] = keys[l] /\ vals'[l] = vals[l]
    BY <2>1, <2>2, <2>4 DEF RoomFor
  <2> QED
    BY <2>1, <2>4, <2>5, SameMaps
<1>2. CASE ScanSkip
  BY <1>2 DEF ScanSkip, table, Entry, EntryOf, Held, Holds
<1>3. CASE ResizeDone
  BY <1>3, DoneKeeps, SameMaps DEF ResizeDone
<1>4. CASE Release
  BY <1>4 DEF Release, table, resize, Entry, EntryOf, Held, Holds
<1> QED
  BY <1>1, <1>2, <1>3, <1>4

\* Taking an entry out of its bucket leaves the map.
LEMMA TakeMaps ==
  ASSUME TableInv, TableInv', ScanTake
  PROVE  Entry' = Entry
<1>1. /\ hand' = [key |-> keys[j], entry |-> vals[j]] /\ hand = NoHand
      /\ keys' = keys /\ vals' = vals
  BY DEF TableInv, TypeInv, ScanTake
<1>2. Held' = Held \ {j} /\ j \in Held
  <2>1. /\ n_buckets \in Nat /\ n_buckets' = n_buckets /\ Moving /\ Moving' /\ Doubled' = Doubled
        /\ j \in Buckets(n_buckets) /\ flags[j] = "live" /\ new_flags' = new_flags
        /\ flags \in [Buckets(n_buckets) -> {"empty", "del", "live"}]
        /\ flags' = [flags EXCEPT ![j] = "del"]
    BY DEF TableInv, TypeInv, ScanTake, Moving, Doubled, Buckets
  <2>2. new_flags[j] = "empty" /\ j \in Buckets(Doubled)
    BY <2>1, DoubledGrows DEF TableInv, MovingInv
  <2>3. HeldFacts /\ HeldFacts'
    BY HeldIs, PTL DEF TableInv
  <2>4. /\ Held = {i \in Buckets(Doubled) :
                     (i \in Buckets(n_buckets) /\ flags[i] = "live") \/ new_flags[i] = "live"}
        /\ Held' = {i \in Buckets(Doubled) :
                     (i \in Buckets(n_buckets) /\ flags'[i] = "live") \/ new_flags[i] = "live"}
    BY <2>1, <2>3 DEF HeldFacts
  <2> QED
    BY <2>1, <2>2, <2>4
<1>3. EntryFacts /\ EntryFacts'
  <2>1. KeysInv /\ KeysInv'
    BY DEF TableInv
  <2> QED
    BY <2>1, EntryIs, PTL
<1>4. hand.key = None /\ None \notin Keys /\ hand'.key = keys[j] /\ hand'.entry = vals[j]
  BY <1>1, TableAssumption DEF NoHand
<1>5. ASSUME NEW h \in Keys
      PROVE  Entry'[h] = Entry[h]
  <2>1. CASE h = keys[j]
    BY <1>2, <1>3, <1>4, <2>1 DEF EntryFacts
  <2>2. CASE h # keys[j] /\ \E l \in Held : keys[l] = h
    <3>1. PICK l \in Held : keys[l] = h
      BY <2>2
    <3>2. l \in Held' /\ keys'[l] = h /\ vals'[l] = vals[l]
      BY <1>1, <1>2, <2>2, <3>1
    <3> QED
      BY <1>3, <3>1, <3>2 DEF EntryFacts
  <2>3. CASE h # keys[j] /\ \A l \in Held : keys[l] # h
    BY <1>1, <1>2, <1>3, <1>4, <2>3 DEF EntryFacts
  <2> QED
    BY <2>1, <2>2, <2>3
<1> QED
  <2>1. Entry' = [h \in Keys |-> Entry'[h]] /\ Entry = [h \in Keys |-> Entry[h]]
    BY DEF Entry
  <2> QED
    BY <1>5, <2>1

\* A write through the iterator sets the entry of its key.
LEMMA WriteMaps ==
  ASSUME TableInv, TableInv', Write
  PROVE  \E k \in Keys : \E e \in Own[k] : Entry' = [Entry EXCEPT ![k] = e]
<1> DEFINE k == call.key
<1>1. PICK e \in Own[k] : vals' = [vals EXCEPT ![x] = e]
  BY DEF Write
<1>2. /\ keys' = keys /\ flags' = flags /\ n_buckets' = n_buckets /\ hand' = hand
      /\ x \in Buckets(n_buckets) /\ flags[x] = "live" /\ keys[x] = k /\ call \in Calls
      /\ vals \in [Buckets(n_buckets) -> Entries \cup {Junk}] /\ ~Moving /\ hand = NoHand
  BY DEF Write, resize, TableInv, TypeInv, Moving
<1>3. k \in Keys
  BY <1>2, CallType
<1>4. Held' = Held /\ Held = {i \in Buckets(n_buckets) : flags[i] = "live"}
  BY <1>2, ReturnKeeps, HeldIs DEF HeldFacts, TableInv
<1>5. EntryFacts /\ EntryFacts'
  <2>1. KeysInv /\ KeysInv'
    BY DEF TableInv
  <2> QED
    BY <2>1, EntryIs, PTL
<1>6. vals'[x] = e /\ \A l \in Held : l # x => vals'[l] = vals[l]
  BY <1>1, <1>2, <1>4
<1>7. ASSUME NEW h \in Keys, h # k
      PROVE  Entry'[h] = Entry[h]
  <2>1. CASE \E l \in Held : keys[l] = h
    <3>1. PICK l \in Held : keys[l] = h
      BY <2>1
    <3>2. l # x
      BY <1>2, <1>7, <3>1
    <3> QED
      BY <1>2, <1>4, <1>5, <1>6, <3>1, <3>2 DEF EntryFacts
  <2>2. CASE \A l \in Held : keys[l] # h
    <3>1. hand.key # h /\ hand'.key # h
      BY <1>2, TableAssumption DEF NoHand
    <3> QED
      BY <1>2, <1>4, <1>5, <2>2, <3>1 DEF EntryFacts
  <2> QED
    BY <2>1, <2>2
<1>8. Entry'[k] = e
  BY <1>2, <1>4, <1>5, <1>6 DEF EntryFacts
<1>9. Entry' = [Entry EXCEPT ![k] = e]
  <2>1. Entry' = [h \in Keys |-> Entry'[h]] /\ Entry = [h \in Keys |-> Entry[h]]
    BY DEF Entry
  <2> QED
    BY <1>3, <1>7, <1>8, <2>1
<1> QED
  BY <1>3, <1>9

\* Both tables implement EntryMap for every set of keys: a put, a lookup or a clear
\* is a step of the map when it returns, and no step of a resize is.
THEOREM MapImplemented == Spec => ImplementsMap
<1>1. /\ Map!Init <=> Entry = Map!Empty
      /\ Map!Clear <=> Entry' = Map!Empty
      /\ Map!Set <=> \E k \in Keys : Entry' \in {[Entry EXCEPT ![k] = e] : e \in Own[k]}
      /\ Map!LookUp <=> \E k \in {h \in Keys : Entry[h] = None}, e \in Entries \cup {Junk} :
                          Entry' = [Entry EXCEPT ![k] = e]
      /\ [Map!Next]_Entry <=> Map!Set \/ Map!LookUp \/ Map!Clear \/ Entry' = Entry
  BY DEF Map!Init, Map!Clear, Map!Set, Map!LookUp, Map!Next, Entry, EntryOf
<1>2. Map!Empty = [k \in Keys |-> None]
  BY DEF Map!Empty
<1>3. ASSUME KeysInv, hand = NoHand, Held = {}
      PROVE  Entry = Map!Empty
  <2>1. \A k \in Keys : Entry[k] = None
    BY <1>3, EntryIs, TableAssumption DEF EntryFacts, NoHand
  <2>2. Entry = [h \in Keys |-> Entry[h]]
    BY DEF Entry
  <2> QED
    BY <1>2, <2>1, <2>2
<1>4. Init => Map!Init
  <2>1. ASSUME Init PROVE Held = {} /\ hand = NoHand /\ KeysInv
    BY <2>1, InitInv DEF Init, Held, Nowhere, TableInv
  <2> QED
    BY <1>1, <1>3, <2>1
<1>5. TableInv /\ [Next]_tvars => [Map!Next]_Entry
  <2> SUFFICES ASSUME TableInv, [Next]_tvars PROVE [Map!Next]_Entry
    OBVIOUS
  <2>1. TableInv'
    BY StepKeeps
  <2>2. ASSUME ~Moving, hand = NoHand, NEW c \in Calls, Put(c)
        PROVE  [Map!Next]_Entry
    <3>1. c.key \in Keys
      BY CallType
    <3>2. CASE \E e \in Own[c.key] : Entry' = [Entry EXCEPT ![c.key] = e]
      <4>1. \E k \in Keys : Entry' \in {[Entry EXCEPT ![k] = e] : e \in Own[k]}
        BY <3>1, <3>2
      <4> QED
        BY <1>1, <4>1
    <3>3. CASE Entry' = Entry
      BY <1>1, <3>3
    <3>4. CASE /\ Entry[c.key] = None
               /\ \E e \in Entries \cup {Junk} : Entry' = [Entry EXCEPT ![c.key] = e]
      <4>1. PICK e \in Entries \cup {Junk} : Entry' = [Entry EXCEPT ![c.key] = e]
        BY <3>4
      <4>2. c.key \in {h \in Keys : Entry[h] = None}
        BY <3>1, <3>4
      <4>3. \E k \in {h \in Keys : Entry[h] = None}, u \in Entries \cup {Junk} :
              Entry' = [Entry EXCEPT ![k] = u]
        BY <4>1, <4>2
      <4> QED
        BY <1>1, <4>3
    <3> QED
      BY <2>2, <3>2, <3>3, <3>4, PutMaps
  <2>3. ASSUME NEW c \in Calls, PutNow(c)
        PROVE  [Map!Next]_Entry
    BY <2>2, <2>3 DEF PutNow, Moving, TableInv, TypeInv
  <2>4. CASE PutAfter
    <3>1. call \in Calls /\ ~Moving /\ hand = NoHand /\ Put(call)
      BY <2>4 DEF PutAfter, Moving, TableInv, TypeInv
    <3> QED
      BY <2>2, <3>1
  <2>5. CASE (\E c \in Calls : ResizeStart(c)) \/ ScanSkip \/ ResizeDone \/ Release
    BY <1>1, <2>1, <2>5, QuietMaps
  <2>6. CASE ScanTake
    BY <1>1, <2>1, <2>6, TakeMaps
  <2>7. CASE Kick
    BY <1>1, <2>7, KickMaps
  <2>8. CASE Write
    BY <1>1, <2>1, <2>8, WriteMaps
  <2>9. CASE Clear
    <3>1. Held' = {} /\ hand' = NoHand
      BY <2>9, ClearKeeps DEF Clear, resize, TableInv, TypeInv
    <3>2. KeysInv'
      BY <2>1 DEF TableInv
    <3>3. EntryFacts'
      BY <3>2, EntryIs, PTL
    <3>4. \A k \in Keys : Entry'[k] = None
      BY <3>1, <3>3, TableAssumption DEF EntryFacts, NoHand
    <3>5. Entry' = [h \in Keys |-> Entry'[h]]
      BY DEF Entry
    <3> QED
      BY <1>1, <1>2, <3>4, <3>5
  <2>10. CASE UNCHANGED tvars
    <3>1. Entry' = Entry
      BY <2>10 DEF tvars, table, resize, Entry, EntryOf, Held, Holds
    <3> QED
      BY <1>1, <3>1
  <2> QED
    BY <2>3, <2>4, <2>5, <2>6, <2>7, <2>8, <2>9, <2>10 DEF Next, Working
<1>6. Map!Spec <=> Map!Init /\ [][Map!Next]_Entry
  BY DEF Map!Spec, Entry, EntryOf
<1> QED
  BY <1>4, <1>5, <1>6, TableInvariant, PTL DEF Spec, ImplementsMap
=============================================================================
