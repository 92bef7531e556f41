-------------------------- MODULE SpentIndexProofs --------------------------
(***************************************************************************)
(* Proofs about SpentIndex, for every value of its constants.              *)
(***************************************************************************)
EXTENDS SpentIndex, TLAPS

-----------------------------------------------------------------------------
(* Words.                                                                  *)

\* The word of an unspent transaction is none of the other kinds and keeps
\* the output count (bzing.c:708).
LEMMA UnspentWordFacts ==
  ASSUME NEW n \in 0 .. UMask
  PROVE  /\ UnspentWord(n) \in SpentWords
         /\ UnspentWord(n).quick = {}
         /\ UnspentWord(n).pos = UMark + n
         /\ IsUnspent(UnspentWord(n))
         /\ ~IsPlaced(UnspentWord(n))
         /\ CountOf(UnspentWord(n)) = n
<1> USE WordAssumption
<1>1. n % (UMask + 1) = n
  OBVIOUS
<1>2. UnspentWord(n) = [quick |-> {}, pos |-> UMark + n]
  BY <1>1 DEF UnspentWord
<1>3. UnspentWord(n) \in SpentWords
  BY <1>2 DEF SpentWords, Mask
<1>4. UnspentWord(n) # BlockWord
  <2>1. 0 \in QuickIndex
    BY DEF QuickIndex
  <2> QED
    BY <2>1, <1>2 DEF BlockWord
<1> QED
  BY <1>2, <1>3, <1>4 DEF IsUnspent, IsPlaced, IsBlock, CountOf

\* Setting a quick bit leaves the position alone, so a placed word stays one
\* (bzing.c:631-634).
LEMMA QuickenFacts ==
  ASSUME NEW w \in SpentWords, NEW i \in Nat, w.pos < UMark
  PROVE  /\ Quicken(w, i) \in SpentWords
         /\ Quicken(w, i).pos = w.pos
         /\ Quicken(w, i).quick = w.quick \cup ({i} \cap QuickIndex)
         /\ IsPlaced(Quicken(w, i))
<1> USE WordAssumption
<1>1. Quicken(w, i) \in SpentWords
  BY DEF Quicken, SpentWords
<1>2. Quicken(w, i).pos = w.pos
  BY DEF Quicken, SpentWords
<1>3. Quicken(w, i).quick = w.quick \cup ({i} \cap QuickIndex)
  BY DEF Quicken, SpentWords
<1>4. Quicken(w, i) # BlockWord
  BY <1>2 DEF BlockWord, SpentWords, Mask
<1> QED
  BY <1>1, <1>2, <1>3, <1>4 DEF IsPlaced, IsBlock

-----------------------------------------------------------------------------
(* Type correctness, of a caller that keeps the discipline and of any other. *)

\* An index entry of a transaction, as bzing_block_add writes it.
LEMMA SetTyped ==
  ASSUME TypeOK, NEW h \in Hashes, NEW off \in Offsets, NEW w \in SpentWords,
         InvSet(h, off, w)
  PROVE  index' \in [Hashes -> Entries \cup {Absent}]
BY DEF TypeOK, InvSet, Entries

\* A lookup returns an entry (bzing_inv_get).
LEMMA FoundTyped ==
  ASSUME TypeOK, NEW h \in Hashes, NEW e \in Found(h)
  PROVE  e \in Entries /\ e.offset \in Offsets /\ e.spent \in SpentWords
<1>1. e \in Entries
  BY DEF TypeOK, Found
<1> QED
  BY <1>1 DEF Entries

\* Growing keeps the slots slots (bzing_spent_reserve).
LEMMA GrownTyped ==
  ASSUME TypeOK, NEW size \in Nat
  PROVE  GrownData(size) \in [0 .. (size - 1) -> Offsets \cup {Junk, Zero}]
<1>1. ASSUME NEW s \in 0 .. (size - 1), s < spent_size
      PROVE  spent_data[s] \in Offsets \cup {Junk, Zero}
  <2>1. s \in 0 .. (spent_size - 1)
    BY <1>1 DEF TypeOK
  <2> QED
    BY <2>1 DEF TypeOK
<1> QED
  BY <1>1 DEF GrownData

\* A store keeps the slots slots, wherever it goes.
LEMMA StoreTyped ==
  ASSUME NEW size \in Nat, mode \in {"dead", "ready", "corrupt"},
         NEW data \in [0 .. (size - 1) -> Offsets \cup {Junk, Zero}],
         NEW slot, NEW off \in Offsets, StoreSlot(data, slot, off)
  PROVE  /\ mode' \in {"dead", "ready", "corrupt"}
         /\ spent_data' \in [0 .. (size - 1) -> Offsets \cup {Junk, Zero}]
BY DEF StoreSlot

\* bzing_spent_mark keeps the types, for any outpoint.
LEMMA MarkTyped ==
  ASSUME TypeOK, NEW h \in Hashes, NEW i \in Nat, NEW off \in Offsets,
         SpentMark(h, i, off)
  PROVE  TypeOK'
<1> USE WordAssumption, IndexAssumption
<1>1. CASE MarkRejected(h)
  <2>1. PICK e \in Found(h) : index' = [index EXCEPT ![h] = e]
    BY <1>1 DEF MarkRejected
  <2>2. e \in Entries
    BY FoundTyped
  <2>3. index' \in [Hashes -> Entries \cup {Absent}]
    BY <2>1, <2>2 DEF TypeOK
  <2>4. UNCHANGED <<mode, spentMap, fresh>>
    BY <1>1 DEF MarkRejected
  <2> QED
    BY <2>3, <2>4 DEF TypeOK, spentMap
<1>2. CASE MarkFirst(h, i, off)
  <2> DEFINE W == [quick |-> {}, pos |-> spent_len]
  <2>1. PICK e \in Found(h) :
          /\ IsUnspent(e.spent) /\ CountOf(e.spent) > 0
          /\ LenAfter(CountOf(e.spent)) <= MaxLen
          /\ spent_len' = LenAfter(CountOf(e.spent))
          /\ spent_size' = GrownSize(LenAfter(CountOf(e.spent)))
          /\ StoreSlot(GrownData(GrownSize(LenAfter(CountOf(e.spent)))),
                       spent_len + i, off)
          /\ InvSet(h, e.offset, Quicken(W, i))
    BY <1>2 DEF MarkFirst
  <2>2. e.offset \in Offsets /\ e.spent \in SpentWords
    BY FoundTyped
  <2>3. CountOf(e.spent) \in Nat
    BY <2>1, <2>2 DEF CountOf, SpentWords, Mask
  <2>4. spent_len' \in Nat /\ spent_len < UMark
    BY <2>1, <2>3 DEF LenAfter, TypeOK
  <2>5. spent_size' \in Nat
    BY <2>1, <2>3 DEF LenAfter, GrownSize, TypeOK
  <2>6. W \in SpentWords /\ W.pos < UMark
    BY <2>4 DEF SpentWords, TypeOK, Mask
  <2>7. Quicken(W, i) \in SpentWords
    BY <2>6, QuickenFacts
  <2>8. index' \in [Hashes -> Entries \cup {Absent}]
    BY <2>1, <2>2, <2>7, SetTyped
  <2>9. GrownData(spent_size') \in [0 .. (spent_size' - 1) -> Offsets \cup {Junk, Zero}]
    BY <2>5, GrownTyped
  <2>10. StoreSlot(GrownData(spent_size'), spent_len + i, off)
    BY <2>1
  <2>11. mode \in {"dead", "ready", "corrupt"}
    BY DEF TypeOK
  <2>12. /\ mode' \in {"dead", "ready", "corrupt"}
         /\ spent_data' \in [0 .. (spent_size' - 1) -> Offsets \cup {Junk, Zero}]
    BY <2>5, <2>9, <2>10, <2>11, StoreTyped
  <2>13. fresh' = fresh
    BY <1>2 DEF MarkFirst
  <2> QED
    BY <2>4, <2>5, <2>8, <2>12, <2>13 DEF TypeOK
<1>3. CASE MarkAgain(h, i, off)
  <2>1. PICK e \in Found(h) :
          /\ IsPlaced(e.spent)
          /\ StoreSlot(spent_data, e.spent.pos + i, off)
          /\ InvSet(h, e.offset, Quicken(e.spent, i))
    BY <1>3 DEF MarkAgain
  <2>2. e.offset \in Offsets /\ e.spent \in SpentWords
    BY FoundTyped
  <2>3. Quicken(e.spent, i) \in SpentWords
    BY <2>1, <2>2, QuickenFacts DEF IsPlaced
  <2>4. index' \in [Hashes -> Entries \cup {Absent}]
    BY <2>1, <2>2, <2>3, SetTyped
  <2>5. UNCHANGED <<spent_len, spent_size, fresh>>
    BY <1>3 DEF MarkAgain
  <2>6. /\ spent_size \in Nat
        /\ spent_data \in [0 .. (spent_size - 1) -> Offsets \cup {Junk, Zero}]
        /\ mode \in {"dead", "ready", "corrupt"}
    BY DEF TypeOK
  <2>7. /\ mode' \in {"dead", "ready", "corrupt"}
        /\ spent_data' \in [0 .. (spent_size - 1) -> Offsets \cup {Junk, Zero}]
    BY <2>1, <2>6, StoreTyped
  <2> QED
    BY <2>4, <2>5, <2>7 DEF TypeOK
<1> QED
  BY <1>1, <1>2, <1>3 DEF SpentMark

\* The life of a handle keeps the types.
LEMMA LifecycleTyped ==
  ASSUME TypeOK, Lifecycle
  PROVE  TypeOK'
<1> USE WordAssumption, IndexAssumption
<1>1. CASE Alloc
  <2>1. [s \in 0 .. (InitSlots - 1) |-> Junk]
          \in [0 .. (InitSlots - 1) -> Offsets \cup {Junk, Zero}]
    OBVIOUS
  <2> QED
    BY <1>1, <2>1 DEF TypeOK, Alloc
<1>2. ASSUME HandleLost
      PROVE  /\ mode' = "dead" /\ spent_len' = 0 /\ spent_size' = 0
             /\ spent_data' \in [0 .. (spent_size' - 1) -> Offsets \cup {Junk, Zero}]
             /\ fresh' = {}
  <2>1. 0 .. (0 - 1) = {}
    OBVIOUS
  <2> QED
    BY <1>2, <2>1 DEF HandleLost
<1>3. CASE Free
  <2>1. index' \in [Hashes -> Entries \cup {Absent}]
    BY <1>3 DEF TypeOK, Free, NoIndex
  <2> QED
    BY <1>2, <1>3, <2>1 DEF TypeOK, Free
<1>4. CASE Crash
  <2>1. PICK kept \in SUBSET {h \in Hashes : index[h] # Absent},
             older \in SUBSET {h \in Hashes : index[h] # Absent} :
          /\ older \subseteq kept \cap Txs
          /\ index' = [h \in Hashes |->
                        IF h \in older
                        THEN [index[h] EXCEPT !.spent = UnspentWord(NOut[h])]
                        ELSE IF h \in kept THEN index[h] ELSE Absent]
    BY <1>4 DEF Crash
  <2>2. ASSUME NEW h \in older
        PROVE  [index[h] EXCEPT !.spent = UnspentWord(NOut[h])] \in Entries
    <3>1. index[h] \in Entries /\ h \in Txs
      BY <2>1, <2>2 DEF TypeOK
    <3>2. UnspentWord(NOut[h]) \in SpentWords
      BY <3>1, UnspentWordFacts
    <3> QED
      BY <3>1, <3>2 DEF Entries
  <2>3. index' \in [Hashes -> Entries \cup {Absent}]
    BY <2>1, <2>2 DEF TypeOK
  <2> QED
    BY <1>2, <1>4, <2>3 DEF TypeOK, Crash
<1>5. CASE Reset
  <2>1. index' \in [Hashes -> Entries \cup {Absent}]
    BY <1>5 DEF TypeOK, Reset, NoIndex
  <2>2. fresh' \in SUBSET Txs
    BY <1>5 DEF TypeOK, Reset
  <2> QED
    BY <1>5, <2>1, <2>2 DEF TypeOK, Reset, spentMap
<1> QED
  BY <1>1, <1>3, <1>4, <1>5 DEF Lifecycle

\* Recording blocks and transactions keeps the types.
LEMMA RecordingTyped ==
  ASSUME TypeOK, Recording
  PROVE  TypeOK'
<1> USE WordAssumption, IndexAssumption
<1>1. ASSUME NEW b \in Blocks, NEW off \in Offsets, AddBlock(b, off)
      PROVE  TypeOK'
  <2>1. BlockWord \in SpentWords /\ b \in Hashes
    BY DEF BlockWord, SpentWords, Mask, Hashes
  <2>2. index' \in [Hashes -> Entries \cup {Absent}]
    BY <1>1, <2>1, SetTyped DEF AddBlock
  <2> QED
    BY <1>1, <2>2 DEF AddBlock, TypeOK, spentMap
<1>2. ASSUME NEW t \in Txs, NEW off \in Offsets, AddTx(t, off)
      PROVE  TypeOK'
  <2>1. UnspentWord(NOut[t]) \in SpentWords /\ t \in Hashes
    BY UnspentWordFacts DEF Hashes
  <2>2. index' \in [Hashes -> Entries \cup {Absent}]
    BY <1>2, <2>1, SetTyped DEF AddTx
  <2> QED
    BY <1>2, <2>2 DEF AddTx, TypeOK, spentMap
<1> QED
  BY <1>1, <1>2 DEF Recording

\* Initially no handle is open and the index is empty.
LEMMA InitTyped == Init => TypeOK
<1>1. 0 .. (0 - 1) = {}
  OBVIOUS
<1> QED
  BY <1>1 DEF Init, TypeOK, NoIndex

\* Every step of a caller that keeps the discipline keeps the types.
LEMMA NextTyped ==
  ASSUME TypeOK, [Next]_vars
  PROVE  TypeOK'
<1>1. CASE UNCHANGED vars
  BY <1>1 DEF vars, spentMap, TypeOK
<1>2. ASSUME NEW t \in fresh, NEW off \in Offsets, NEW i \in Outputs(t),
             SpentMark(t, i, off)
      PROVE  TypeOK'
  <2>1. t \in Hashes /\ i \in Nat
    BY DEF TypeOK, Hashes, Outputs
  <2> QED
    BY <1>2, <2>1, MarkTyped
<1> QED
  BY <1>1, <1>2, LifecycleTyped, RecordingTyped DEF Next

\* Every variable of the handle keeps its type: in particular no word of the
\* index leaves the 64 bits it has, and the slots are always those allocated.
THEOREM TypeCorrect == Spec => []TypeOK
BY InitTyped, NextTyped, PTL DEF Spec

\* The same for a caller that checks nothing it passes.
THEOREM RawTypeCorrect == RawSpec => []TypeOK
<1>1. ASSUME TypeOK, [RawNext]_vars
      PROVE  TypeOK'
  <2>1. CASE UNCHANGED vars
    BY <1>1, <2>1 DEF vars, spentMap, TypeOK
  <2>2. ASSUME NEW h \in Hashes, NEW i \in 0 .. MaxIndex, NEW off \in Offsets,
               SpentMark(h, i, off)
        PROVE  TypeOK'
    BY <1>1, <2>2, MarkTyped, IndexAssumption
  <2>3. ASSUME NEW h \in Hashes, MarkUnknown(h)
        PROVE  TypeOK'
    <3>1. 0 .. (0 - 1) = {}
      OBVIOUS
    <3> QED
      BY <1>1, <2>3, <3>1 DEF MarkUnknown, HandleLost, TypeOK
  <2> QED
    BY <1>1, <2>1, <2>2, <2>3, LifecycleTyped, RecordingTyped DEF RawNext
<1> QED
  BY <1>1, InitTyped, PTL DEF RawSpec

-----------------------------------------------------------------------------
(* The inductive invariant of a caller that keeps the discipline.          *)

\* No transaction has more outputs than the first chunk of the spent map has
\* slots: then doubling the map once always makes room enough.
OutputsFit == \A t \in Txs : NOut[t] <= InitSlots

\* What is in use is available, and an open handle has used slot 0.
RoomInv ==
  /\ mode # "corrupt"
  /\ mode = "dead" => fresh = {}
  /\ mode = "ready" =>
       /\ spent_len >= 1
       /\ spent_len <= spent_size
       /\ InitSlots <= spent_size

\* The entry of a transaction of this handle is one of the two kinds, and a
\* placed one has its region among the slots in use.
EntryInv ==
  \A t \in fresh :
    /\ index[t] \in Entries
    /\ \/ index[t].spent = UnspentWord(NOut[t])
       \/ /\ IsPlaced(index[t].spent)
          /\ index[t].spent.pos >= 1
          /\ index[t].spent.pos + NOut[t] <= spent_len

\* Of two regions one ends before the other starts.
ApartInv ==
  \A t, u \in fresh : Placed(t) /\ Placed(u) /\ t # u =>
    \/ index[t].spent.pos + NOut[t] <= index[u].spent.pos
    \/ index[u].spent.pos + NOut[u] <= index[t].spent.pos

\* Nothing has been stored beyond the slots in use.
TailInv ==
  \A s \in 0 .. (spent_size - 1) : s >= spent_len => spent_data[s] \notin Offsets

HandleInv ==
  /\ TypeOK
  /\ RoomInv
  /\ EntryInv
  /\ ApartInv
  /\ TailInv
  /\ QuickBitsAgree

\* What the assumptions say of the numbers among the constants.
LEMMA NumberFacts ==
  /\ QuickBits \in Nat /\ QuickBits >= 1
  /\ UMark \in Nat /\ UMark >= 1 /\ UMask \in Nat
  /\ InitSlots \in Nat /\ InitSlots >= 1
  /\ MaxLen \in Nat /\ MaxLen <= UMark
  /\ Junk \notin Offsets /\ Zero \notin Offsets /\ Absent \notin Offsets
BY WordAssumption, IndexAssumption

\* What the invariant says of one transaction of this handle.
LEMMA FreshFacts ==
  ASSUME HandleInv, NEW t \in fresh
  PROVE  /\ mode = "ready" /\ t \in Txs /\ t \in Hashes /\ NOut[t] \in 0 .. UMask
         /\ index[t] \in Entries /\ index[t] # Absent
         /\ Found(t) = {index[t]}
         /\ index[t].spent \in SpentWords /\ index[t].offset \in Offsets
         /\ Placed(t) \/ index[t].spent = UnspentWord(NOut[t])
         /\ Placed(t) => /\ index[t].spent.pos \in Nat
                         /\ index[t].spent.pos >= 1
                         /\ index[t].spent.pos < UMark
                         /\ index[t].spent.pos + NOut[t] <= spent_len
<1> USE WordAssumption, IndexAssumption
<1>1. t \in Txs /\ t \in Hashes /\ NOut[t] \in 0 .. UMask /\ mode = "ready"
  BY DEF HandleInv, TypeOK, RoomInv, Hashes
<1>2. index[t] \in Entries
  BY DEF HandleInv, EntryInv
<1>3. index[t] # Absent
  BY <1>2 DEF Entries
<1>4. Found(t) = {index[t]}
  BY <1>3 DEF Found
<1>5. index[t].spent \in SpentWords /\ index[t].offset \in Offsets
  BY <1>2 DEF Entries
<1>6. Placed(t) \/ index[t].spent = UnspentWord(NOut[t])
  BY DEF HandleInv, EntryInv, Placed
<1>7. ASSUME Placed(t)
      PROVE  /\ index[t].spent.pos \in Nat
             /\ index[t].spent.pos >= 1
             /\ index[t].spent.pos < UMark
             /\ index[t].spent.pos + NOut[t] <= spent_len
  <2>1. index[t].spent # UnspentWord(NOut[t])
    BY <1>1, <1>7, UnspentWordFacts DEF Placed
  <2>2. index[t].spent.pos \in Nat
    BY <1>5 DEF SpentWords, Mask
  <2> QED
    BY <1>7, <2>1, <2>2 DEF HandleInv, EntryInv, Placed, IsPlaced
<1> QED
  BY <1>1, <1>2, <1>3, <1>4, <1>5, <1>6, <1>7

\* A slot number below the size of the spent map is that of a slot.
LEMMA SlotInRange ==
  ASSUME NEW size \in Nat, NEW s \in Nat, s < size
  PROVE  s \in 0 .. (size - 1)
OBVIOUS

\* The first spend of a transaction: its new region starts where the slots in
\* use ended, and of these new slots only the one of the spend names a place.
LEMMA MarkFirstEffect ==
  ASSUME OutputsFit, HandleInv,
         NEW t \in fresh, NEW i \in Outputs(t), NEW off \in Offsets,
         MarkFirst(t, i, off)
  PROVE  /\ mode' = "ready" /\ fresh' = fresh
         /\ ~Placed(t)
         /\ NOut[t] \in Nat /\ i \in Nat /\ i < NOut[t]
         /\ spent_len \in Nat /\ spent_len >= 1 /\ spent_len <= spent_size
         /\ spent_len' = spent_len + NOut[t]
         /\ spent_size' \in Nat /\ spent_size \in Nat
         /\ spent_len' <= spent_size' /\ InitSlots <= spent_size'
         /\ index'[t] \in Entries /\ index'[t].offset = index[t].offset
         /\ IsPlaced(index'[t].spent)
         /\ index'[t].spent.pos = spent_len
         /\ index'[t].spent.quick = {i} \cap QuickIndex
         /\ \A u \in fresh : u # t => index'[u] = index[u]
         /\ \A s \in 0 .. (spent_len - 1) : spent_data'[s] = spent_data[s]
         /\ \A s \in 0 .. (spent_size' - 1) : s >= spent_len =>
              (spent_data'[s] \in Offsets <=> s = spent_len + i)
         /\ spent_data'[spent_len + i] = off
<1> USE NumberFacts
<1> DEFINE W    == [quick |-> {}, pos |-> spent_len]
           len  == spent_len + NOut[t]
           slot == spent_len + i
<1>1. /\ mode = "ready" /\ t \in Txs /\ t \in Hashes /\ NOut[t] \in 0 .. UMask
      /\ index[t] \in Entries /\ Found(t) = {index[t]}
      /\ index[t].offset \in Offsets
      /\ Placed(t) \/ index[t].spent = UnspentWord(NOut[t])
  BY FreshFacts
<1>2. /\ NOut[t] \in Nat /\ NOut[t] >= 1 /\ NOut[t] <= InitSlots
      /\ i \in Nat /\ i < NOut[t]
  BY <1>1 DEF Outputs, OutputsFit
<1>3. /\ IsUnspent(index[t].spent)
      /\ LenAfter(CountOf(index[t].spent)) <= MaxLen
      /\ spent_len' = LenAfter(CountOf(index[t].spent))
      /\ spent_size' = GrownSize(LenAfter(CountOf(index[t].spent)))
      /\ StoreSlot(GrownData(GrownSize(LenAfter(CountOf(index[t].spent)))),
                   slot, off)
      /\ InvSet(t, index[t].offset, Quicken(W, i))
      /\ fresh' = fresh
  BY <1>1 DEF MarkFirst
<1>4. index[t].spent = UnspentWord(NOut[t])
  <2>1. index[t].spent.pos \in Nat
    BY FreshFacts DEF SpentWords, Mask
  <2>2. ~IsPlaced(index[t].spent)
    BY <1>3, <2>1 DEF IsPlaced, IsUnspent
  <2> QED
    BY <1>1, <2>2 DEF Placed
<1>5. LenAfter(CountOf(index[t].spent)) = len
  BY <1>1, <1>4, UnspentWordFacts DEF LenAfter
<1>6. /\ spent_len \in Nat /\ spent_size \in Nat
      /\ spent_len >= 1 /\ spent_len <= spent_size /\ InitSlots <= spent_size
  BY <1>1 DEF HandleInv, TypeOK, RoomInv
<1>7. /\ spent_len' = len /\ spent_size' = GrownSize(len) /\ len <= MaxLen
      /\ StoreSlot(GrownData(GrownSize(len)), slot, off)
  BY <1>3, <1>5
<1>8. /\ spent_size' \in Nat /\ len \in Nat
      /\ len <= spent_size' /\ spent_size <= spent_size'
  <2>1. spent_size' = IF len > spent_size THEN 2 * spent_size ELSE spent_size
    BY <1>7 DEF GrownSize
  <2> QED
    BY <1>2, <1>6, <2>1
<1>9. /\ slot \in 0 .. (spent_size' - 1) /\ slot \in Nat
      /\ spent_len <= slot /\ slot < len /\ spent_len < len
  <2>1. spent_len + i < spent_len + NOut[t] /\ spent_len + i >= spent_len
    BY <1>2, <1>6
  <2>2. slot < spent_size' /\ slot \in Nat
    BY <1>2, <1>6, <1>8, <2>1
  <2>3. slot \in 0 .. (spent_size' - 1)
    BY <1>8, <2>2
  <2>4. spent_len <= slot /\ slot < len /\ spent_len < len
    BY <1>2, <1>6, <2>1
  <2> QED
    BY <2>2, <2>3, <2>4
<1>10. GrownData(spent_size') =
         [s \in 0 .. (spent_size' - 1) |->
            IF s < spent_size THEN spent_data[s] ELSE Zero]
  BY DEF GrownData
<1>11. /\ mode' = "ready"
       /\ spent_data' = [s \in 0 .. (spent_size' - 1) |->
                           IF s = slot THEN off
                           ELSE IF s < spent_size THEN spent_data[s] ELSE Zero]
  BY <1>1, <1>7, <1>9, <1>10 DEF StoreSlot
<1>12. W \in SpentWords /\ W.pos < UMark /\ W.quick = {} /\ W.pos = spent_len
  <2>1. spent_len \in 0 .. Mask /\ spent_len < UMark
    BY <1>6, <1>7, <1>8, <1>9 DEF Mask
  <2> QED
    BY <2>1 DEF SpentWords
<1> HIDE DEF W
<1>13. /\ Quicken(W, i) \in SpentWords
       /\ Quicken(W, i).pos = spent_len
       /\ Quicken(W, i).quick = {i} \cap QuickIndex
       /\ IsPlaced(Quicken(W, i))
  BY <1>2, <1>12, QuickenFacts
<1>14. /\ index'[t].spent = Quicken(W, i)
       /\ index'[t] \in Entries /\ index'[t].offset = index[t].offset
       /\ \A u \in fresh : u # t => index'[u] = index[u]
  BY <1>1, <1>3, <1>13 DEF HandleInv, TypeOK, InvSet, Entries, Hashes
<1>15. ASSUME NEW s \in 0 .. (spent_len - 1)
       PROVE  spent_data'[s] = spent_data[s]
  <2>1. s \in 0 .. (spent_size' - 1) /\ s # slot /\ s < spent_size
    <3> HIDE DEF slot, len
    <3>1. s \in Nat /\ s < spent_len /\ s < spent_size /\ s < spent_size'
      BY <1>6, <1>8
    <3>2. s # slot
      BY <1>6, <1>9, <3>1
    <3>3. s \in 0 .. (spent_size' - 1)
      BY <1>8, <3>1, SlotInRange
    <3> QED
      BY <3>1, <3>2, <3>3
  <2> QED
    BY <1>11, <2>1
<1>16. ASSUME NEW s \in 0 .. (spent_size' - 1), s >= spent_len
       PROVE  spent_data'[s] \in Offsets <=> s = slot
  <2>1. CASE s < spent_size
    <3>1. s \in 0 .. (spent_size - 1)
      BY <1>6, <1>8, <2>1
    <3>2. spent_data[s] \notin Offsets
      BY <1>16, <3>1 DEF HandleInv, TailInv
    <3> QED
      BY <1>11, <2>1, <3>2
  <2>2. CASE ~(s < spent_size)
    BY <1>11, <2>2
  <2> QED
    BY <2>1, <2>2
<1>17. spent_data'[slot] = off
  BY <1>9, <1>11
<1>18. InitSlots <= spent_size'
  BY <1>6, <1>8
<1>19. ~Placed(t)
  BY <1>1, <1>4, UnspentWordFacts DEF Placed
<1> QED
  BY <1>2, <1>3, <1>6, <1>7, <1>8, <1>11, <1>13, <1>14, <1>15, <1>16, <1>17,
     <1>18, <1>19

\* The first spend of a transaction keeps the invariant.
LEMMA MarkFirstInv ==
  ASSUME OutputsFit, HandleInv,
         NEW t \in fresh, NEW i \in Outputs(t), NEW off \in Offsets,
         MarkFirst(t, i, off)
  PROVE  HandleInv'
<1> USE NumberFacts
<1>1. /\ mode' = "ready" /\ fresh' = fresh
      /\ NOut[t] \in Nat /\ i \in Nat /\ i < NOut[t]
      /\ spent_len \in Nat /\ spent_len >= 1 /\ spent_len <= spent_size
      /\ spent_len' = spent_len + NOut[t]
      /\ spent_size' \in Nat /\ spent_size \in Nat
      /\ spent_len' <= spent_size' /\ InitSlots <= spent_size'
  BY MarkFirstEffect
<1>2. /\ index'[t] \in Entries
      /\ IsPlaced(index'[t].spent)
      /\ index'[t].spent.pos = spent_len
      /\ index'[t].spent.quick = {i} \cap QuickIndex
      /\ \A u \in fresh : u # t => index'[u] = index[u]
  BY MarkFirstEffect
<1>3. /\ \A s \in 0 .. (spent_len - 1) : spent_data'[s] = spent_data[s]
      /\ \A s \in 0 .. (spent_size' - 1) : s >= spent_len =>
           (spent_data'[s] \in Offsets <=> s = spent_len + i)
  BY MarkFirstEffect
<1>4. spent_len' >= spent_len /\ spent_len' \in Nat /\ spent_len' >= 1
  BY <1>1
<1>5. TypeOK'
  BY <1>1, FreshFacts, MarkTyped DEF HandleInv, SpentMark
<1>6. RoomInv'
  BY <1>1, <1>4 DEF RoomInv
<1>7. EntryInv'
  <2> SUFFICES ASSUME NEW u \in fresh
               PROVE  /\ index'[u] \in Entries
                      /\ \/ index'[u].spent = UnspentWord(NOut[u])
                         \/ /\ IsPlaced(index'[u].spent)
                            /\ index'[u].spent.pos >= 1
                            /\ index'[u].spent.pos + NOut[u] <= spent_len'
    BY <1>1 DEF EntryInv
  <2>1. CASE u = t
    BY <1>1, <1>2, <2>1
  <2>2. CASE u # t
    <3>1. index'[u] = index[u] /\ index[u] \in Entries /\ NOut[u] \in Nat
      BY <1>2, <2>2, FreshFacts
    <3>2. CASE Placed(u)
      <4>1. /\ index[u].spent.pos \in Nat /\ index[u].spent.pos >= 1
            /\ index[u].spent.pos + NOut[u] <= spent_len
        BY <3>2, FreshFacts
      <4>2. index[u].spent.pos + NOut[u] <= spent_len'
        BY <1>1, <1>4, <3>1, <4>1
      <4> QED
        BY <3>1, <3>2, <4>1, <4>2 DEF Placed
    <3>3. CASE ~Placed(u)
      BY <3>1, <3>3, FreshFacts
    <3> QED
      BY <3>2, <3>3
  <2> QED
    BY <2>1, <2>2
<1>8. ApartInv'
  <2> SUFFICES ASSUME NEW u \in fresh, NEW v \in fresh,
                      IsPlaced(index'[u].spent), IsPlaced(index'[v].spent), u # v
               PROVE  \/ index'[u].spent.pos + NOut[u] <= index'[v].spent.pos
                      \/ index'[v].spent.pos + NOut[v] <= index'[u].spent.pos
    BY <1>1 DEF ApartInv, Placed
  <2>1. CASE u = t
    BY <1>2, <2>1, FreshFacts DEF Placed
  <2>2. CASE v = t
    BY <1>2, <2>2, FreshFacts DEF Placed
  <2>3. CASE u # t /\ v # t
    BY <1>2, <2>3 DEF HandleInv, ApartInv, Placed
  <2> QED
    BY <2>1, <2>2, <2>3
<1>9. TailInv'
  <2> SUFFICES ASSUME NEW s \in 0 .. (spent_size' - 1), s >= spent_len'
               PROVE  spent_data'[s] \notin Offsets
    BY DEF TailInv
  <2>1. s >= spent_len /\ s # spent_len + i
    BY <1>1
  <2> QED
    BY <1>3, <2>1
<1>10. QuickBitsAgree'
  <2> SUFFICES ASSUME NEW u \in fresh, IsPlaced(index'[u].spent),
                      NEW j \in QuickIndex
               PROVE  j \in index'[u].spent.quick <=>
                        /\ j \in Outputs(u)
                        /\ spent_data'[index'[u].spent.pos + j] \in Offsets
    BY <1>1 DEF QuickBitsAgree, Placed, Slot
  <2>1. j \in Nat
    BY DEF QuickIndex
  <2>2. CASE u = t
    <3>1. j \in index'[u].spent.quick <=> j = i
      BY <1>2, <2>2
    <3>2. ASSUME j \in Outputs(u)
          PROVE  spent_data'[spent_len + j] \in Offsets <=> j = i
      <4>1. j < NOut[t]
        BY <1>1, <2>1, <2>2, <3>2 DEF Outputs
      <4>2. /\ spent_len + j \in 0 .. (spent_size' - 1)
            /\ spent_len + j >= spent_len
            /\ (spent_len + j = spent_len + i <=> j = i)
        <5>1. spent_len + j \in Nat /\ spent_len + j < spent_size'
          BY <1>1, <2>1, <4>1
        <5>2. spent_len + j \in 0 .. (spent_size' - 1)
          BY <1>1, <5>1
        <5>3. spent_len + j >= spent_len /\ (spent_len + j = spent_len + i <=> j = i)
          BY <1>1, <2>1
        <5> QED
          BY <5>2, <5>3
      <4> QED
        BY <1>3, <4>2
    <3>3. i \in Outputs(u)
      BY <2>2
    <3> QED
      BY <1>2, <2>2, <3>1, <3>2, <3>3
  <2>3. CASE u # t
    <3>1. index'[u] = index[u] /\ Placed(u)
      BY <1>2, <2>3 DEF Placed
    <3>2. j \in index[u].spent.quick <=>
            j \in Outputs(u) /\ spent_data[index[u].spent.pos + j] \in Offsets
      BY <3>1 DEF HandleInv, QuickBitsAgree, Slot
    <3>3. ASSUME j \in Outputs(u)
          PROVE  index[u].spent.pos + j \in 0 .. (spent_len - 1)
      <4>1. /\ index[u].spent.pos \in Nat /\ NOut[u] \in Nat
            /\ index[u].spent.pos + NOut[u] <= spent_len
        BY <3>1, FreshFacts
      <4>2. j < NOut[u]
        BY <2>1, <3>3, <4>1 DEF Outputs
      <4> QED
        BY <1>1, <2>1, <4>1, <4>2
    <3> QED
      BY <1>3, <3>1, <3>2, <3>3
  <2> QED
    BY <2>2, <2>3
<1> QED
  BY <1>5, <1>6, <1>7, <1>8, <1>9, <1>10 DEF HandleInv

\* A later spend of a transaction: the store falls into its own region.
LEMMA MarkAgainEffect ==
  ASSUME HandleInv,
         NEW t \in fresh, NEW i \in Outputs(t), NEW off \in Offsets,
         MarkAgain(t, i, off)
  PROVE  /\ mode' = "ready" /\ fresh' = fresh
         /\ spent_len' = spent_len /\ spent_size' = spent_size
         /\ Placed(t)
         /\ index'[t] \in Entries /\ index'[t].offset = index[t].offset
         /\ IsPlaced(index'[t].spent)
         /\ index'[t].spent.pos = index[t].spent.pos
         /\ index'[t].spent.quick = index[t].spent.quick \cup ({i} \cap QuickIndex)
         /\ \A u \in fresh : u # t => index'[u] = index[u]
         /\ NOut[t] \in Nat /\ i \in Nat /\ i < NOut[t]
         /\ spent_len \in Nat /\ spent_size \in Nat /\ spent_len <= spent_size
         /\ spent_data' = [s \in 0 .. (spent_size - 1) |->
                             IF s = index[t].spent.pos + i THEN off
                                                           ELSE spent_data[s]]
<1> USE NumberFacts
<1> DEFINE w    == index[t].spent
           slot == w.pos + i
<1>1. /\ mode = "ready" /\ t \in Txs /\ t \in Hashes /\ NOut[t] \in 0 .. UMask
      /\ index[t] \in Entries /\ Found(t) = {index[t]}
      /\ index[t].offset \in Offsets /\ w \in SpentWords
  BY FreshFacts
<1>2. /\ IsPlaced(w)
      /\ StoreSlot(spent_data, slot, off)
      /\ InvSet(t, index[t].offset, Quicken(w, i))
      /\ spent_len' = spent_len /\ spent_size' = spent_size /\ fresh' = fresh
  BY <1>1 DEF MarkAgain
<1>3. Placed(t)
  BY <1>2 DEF Placed
<1>4. /\ w.pos \in Nat /\ w.pos >= 1 /\ w.pos < UMark
      /\ w.pos + NOut[t] <= spent_len
  BY <1>3, FreshFacts
<1>5. NOut[t] \in Nat /\ i \in Nat /\ i < NOut[t]
  BY <1>1 DEF Outputs
<1>6. /\ spent_len \in Nat /\ spent_size \in Nat /\ spent_len <= spent_size
      /\ spent_data \in [0 .. (spent_size - 1) -> Offsets \cup {Junk, Zero}]
  BY <1>1 DEF HandleInv, TypeOK, RoomInv
<1>7. /\ slot \in Nat /\ slot < w.pos + NOut[t] /\ slot < spent_len
      /\ slot < spent_size
  BY <1>4, <1>5, <1>6
<1>8. slot \in 0 .. (spent_size - 1)
  BY <1>6, <1>7
<1>9. /\ mode' = "ready"
      /\ spent_data' = [s \in 0 .. (spent_size - 1) |->
                          IF s = slot THEN off ELSE spent_data[s]]
  BY <1>1, <1>2, <1>6, <1>8 DEF StoreSlot
<1>10. /\ Quicken(w, i) \in SpentWords
       /\ Quicken(w, i).pos = w.pos
       /\ Quicken(w, i).quick = w.quick \cup ({i} \cap QuickIndex)
       /\ IsPlaced(Quicken(w, i))
  BY <1>1, <1>4, <1>5, QuickenFacts
<1>11. /\ index'[t].spent = Quicken(w, i)
       /\ index'[t] \in Entries /\ index'[t].offset = index[t].offset
       /\ \A u \in fresh : u # t => index'[u] = index[u]
  BY <1>1, <1>2, <1>10 DEF HandleInv, TypeOK, InvSet, Entries, Hashes
<1> QED
  BY <1>2, <1>3, <1>5, <1>6, <1>9, <1>10, <1>11

\* A later spend keeps the invariant: the slots of other regions, and those
\* beyond the slots in use, stay as they are.
LEMMA MarkAgainInv ==
  ASSUME HandleInv,
         NEW t \in fresh, NEW i \in Outputs(t), NEW off \in Offsets,
         MarkAgain(t, i, off)
  PROVE  HandleInv'
<1> USE NumberFacts
<1> DEFINE w    == index[t].spent
           slot == w.pos + i
<1>1. /\ mode' = "ready" /\ mode = "ready" /\ fresh' = fresh
      /\ spent_len' = spent_len /\ spent_size' = spent_size
      /\ Placed(t) /\ w.pos \in Nat /\ w.pos >= 1
      /\ w.pos + NOut[t] <= spent_len
      /\ NOut[t] \in Nat /\ i \in Nat /\ i < NOut[t]
      /\ spent_len \in Nat /\ spent_size \in Nat /\ spent_len <= spent_size
  BY MarkAgainEffect, FreshFacts
<1>2. /\ index'[t] \in Entries
      /\ IsPlaced(index'[t].spent)
      /\ index'[t].spent.pos = w.pos
      /\ index'[t].spent.quick = w.quick \cup ({i} \cap QuickIndex)
      /\ \A u \in fresh : u # t => index'[u] = index[u]
  BY MarkAgainEffect
<1>3. spent_data' = [s \in 0 .. (spent_size - 1) |->
                       IF s = slot THEN off ELSE spent_data[s]]
  BY MarkAgainEffect
<1>4. slot \in Nat /\ slot >= w.pos /\ slot < w.pos + NOut[t] /\ slot < spent_len
  BY <1>1
<1>5. slot \in 0 .. (spent_size - 1)
  BY <1>1, <1>4
<1>6. \A u \in fresh : /\ IsPlaced(index'[u].spent) => Placed(u)
                       /\ Placed(u) => index'[u].spent.pos = index[u].spent.pos
  BY <1>1, <1>2 DEF Placed
<1>7. TypeOK'
  BY <1>1, FreshFacts, MarkTyped DEF HandleInv, SpentMark
<1>8. RoomInv'
  BY <1>1 DEF HandleInv, RoomInv
<1>9. EntryInv'
  <2> SUFFICES ASSUME NEW u \in fresh
               PROVE  /\ index'[u] \in Entries
                      /\ \/ index'[u].spent = UnspentWord(NOut[u])
                         \/ /\ IsPlaced(index'[u].spent)
                            /\ index'[u].spent.pos >= 1
                            /\ index'[u].spent.pos + NOut[u] <= spent_len'
    BY <1>1 DEF EntryInv
  <2>1. CASE u = t
    BY <1>1, <1>2, <2>1
  <2>2. CASE u # t
    BY <1>1, <1>2, <2>2 DEF HandleInv, EntryInv
  <2> QED
    BY <2>1, <2>2
<1>10. ApartInv'
  <2> SUFFICES ASSUME NEW u \in fresh, NEW v \in fresh,
                      IsPlaced(index'[u].spent), IsPlaced(index'[v].spent), u # v
               PROVE  \/ index'[u].spent.pos + NOut[u] <= index'[v].spent.pos
                      \/ index'[v].spent.pos + NOut[v] <= index'[u].spent.pos
    BY <1>1 DEF ApartInv, Placed
  <2>1. /\ Placed(u) /\ index'[u].spent.pos = index[u].spent.pos
        /\ Placed(v) /\ index'[v].spent.pos = index[v].spent.pos
    BY <1>6
  <2> QED
    BY <2>1 DEF HandleInv, ApartInv
<1>11. TailInv'
  <2> SUFFICES ASSUME NEW s \in 0 .. (spent_size - 1), s >= spent_len
               PROVE  spent_data'[s] \notin Offsets
    BY <1>1 DEF TailInv
  <2>1. s # slot
    BY <1>1, <1>4
  <2>2. spent_data[s] \notin Offsets
    BY DEF HandleInv, TailInv
  <2> QED
    BY <1>3, <2>1, <2>2
<1>12. QuickBitsAgree'
  <2> SUFFICES ASSUME NEW u \in fresh, IsPlaced(index'[u].spent),
                      NEW j \in QuickIndex
               PROVE  j \in index'[u].spent.quick <=>
                        /\ j \in Outputs(u)
                        /\ spent_data'[index'[u].spent.pos + j] \in Offsets
    BY <1>1 DEF QuickBitsAgree, Placed, Slot
  <2>1. /\ Placed(u) /\ index'[u].spent.pos = index[u].spent.pos
        /\ index[u].spent.pos \in Nat /\ NOut[u] \in Nat
        /\ index[u].spent.pos + NOut[u] <= spent_len
    BY <1>6, FreshFacts
  <2>2. j \in Nat
    BY DEF QuickIndex
  <2>3. j \in index[u].spent.quick <=>
          j \in Outputs(u) /\ spent_data[index[u].spent.pos + j] \in Offsets
    BY <2>1 DEF HandleInv, QuickBitsAgree, Slot
  <2>4. ASSUME j \in Outputs(u)
        PROVE  /\ index[u].spent.pos + j \in 0 .. (spent_size - 1)
               /\ index[u].spent.pos + j < index[u].spent.pos + NOut[u]
               /\ index[u].spent.pos + j >= index[u].spent.pos
    <3>1. j < NOut[u]
      BY <2>1, <2>2, <2>4 DEF Outputs
    <3> QED
      BY <1>1, <2>1, <2>2, <3>1
  <2>5. CASE u = t
    <3>1. j \in index'[u].spent.quick <=> (j \in index[u].spent.quick \/ j = i)
      BY <1>2, <2>5
    <3>2. CASE j = i
      <4>1. spent_data'[index[u].spent.pos + j] = off
        BY <1>3, <1>5, <2>5, <3>2
      <4> QED
        BY <2>1, <2>5, <3>1, <3>2, <4>1
    <3>3. CASE j # i
      <4>1. ASSUME j \in Outputs(u)
            PROVE  spent_data'[index[u].spent.pos + j] = spent_data[index[u].spent.pos + j]
        <5>1. index[u].spent.pos + j # slot
          BY <1>1, <2>1, <2>2, <2>5, <3>3
        <5> QED
          BY <1>3, <2>4, <4>1, <5>1
      <4> QED
        BY <2>1, <2>3, <3>1, <3>3, <4>1
    <3> QED
      BY <3>2, <3>3
  <2>6. CASE u # t
    <3>1. \/ index[u].spent.pos + NOut[u] <= w.pos
          \/ w.pos + NOut[t] <= index[u].spent.pos
      BY <1>1, <2>1, <2>6 DEF HandleInv, ApartInv
    <3>2. ASSUME j \in Outputs(u)
          PROVE  spent_data'[index[u].spent.pos + j] = spent_data[index[u].spent.pos + j]
      <4> HIDE DEF slot
      <4>1. index[u].spent.pos + j # slot
        BY <1>1, <1>4, <2>1, <2>2, <2>4, <3>1, <3>2
      <4> QED
        BY <1>3, <2>4, <3>2, <4>1
    <3> QED
      BY <1>2, <2>1, <2>3, <2>6, <3>2
  <2> QED
    BY <2>5, <2>6
<1> QED
  BY <1>7, <1>8, <1>9, <1>10, <1>11, <1>12 DEF HandleInv

\* A spend that is turned away leaves the entry it found.
LEMMA MarkRejectedInv ==
  ASSUME HandleInv, NEW t \in fresh, MarkRejected(t)
  PROVE  UNCHANGED vars
<1>1. t \in Hashes /\ Found(t) = {index[t]}
  BY FreshFacts
<1>2. index' = [index EXCEPT ![t] = index[t]]
  BY <1>1 DEF MarkRejected
<1>3. index' = index
  BY <1>1, <1>2 DEF HandleInv, TypeOK
<1> QED
  BY <1>3 DEF MarkRejected, vars

\* Without transactions of this handle, and with nothing of it in the slots
\* beyond those in use, the invariant is about the room alone.
LEMMA EmptyInv ==
  ASSUME fresh' = {}, TypeOK', RoomInv', TailInv'
  PROVE  HandleInv'
BY DEF HandleInv, EntryInv, ApartInv, QuickBitsAgree

\* Opening, closing, losing and resetting a handle.
LEMMA LifecycleInv ==
  ASSUME HandleInv, Lifecycle
  PROVE  HandleInv'
<1> USE NumberFacts
<1>1. TypeOK'
  BY LifecycleTyped DEF HandleInv
<1>2. CASE Alloc
  <2>1. fresh' = {}
    BY <1>2 DEF Alloc, HandleInv, RoomInv
  <2>2. RoomInv'
    BY <1>2 DEF Alloc, RoomInv
  <2>3. TailInv'
    BY <1>2 DEF Alloc, TailInv
  <2> QED
    BY <1>1, <2>1, <2>2, <2>3, EmptyInv
<1>3. ASSUME HandleLost
      PROVE  HandleInv'
  <2>1. fresh' = {} /\ RoomInv'
    BY <1>3 DEF HandleLost, RoomInv
  <2>2. TailInv'
    BY <1>3 DEF HandleLost, TailInv
  <2> QED
    BY <1>1, <2>1, <2>2, EmptyInv
<1>4. CASE Reset
  <2>1. UNCHANGED <<mode, spent_len, spent_size, spent_data>>
    BY <1>4 DEF Reset, spentMap
  <2>2. RoomInv' /\ TailInv'
    BY <1>4, <2>1 DEF Reset, HandleInv, RoomInv, TailInv
  <2>3. CASE Engine = "ldb"
    BY <1>4, <2>1, <2>3 DEF Reset, HandleInv, TypeOK, RoomInv, EntryInv,
                            ApartInv, TailInv, QuickBitsAgree, Placed, Slot
  <2>4. CASE Engine # "ldb"
    BY <1>1, <1>4, <2>2, <2>4, EmptyInv DEF Reset
  <2> QED
    BY <2>3, <2>4
<1> QED
  BY <1>2, <1>3, <1>4 DEF Lifecycle, Free, Crash

\* Recording leaves the spent map alone, and a transaction that is recorded
\* again gives its region up.
LEMMA RecordingInv ==
  ASSUME HandleInv, Recording
  PROVE  HandleInv'
<1>1. TypeOK'
  BY RecordingTyped DEF HandleInv
<1>2. ASSUME NEW b \in Blocks, NEW off \in Offsets, AddBlock(b, off)
      PROVE  HandleInv'
  <2>1. \A t \in fresh : index'[t] = index[t]
    <3>1. \A t \in fresh : t \in Hashes /\ t # b
      BY IndexAssumption DEF HandleInv, TypeOK, Hashes
    <3> QED
      BY <1>2, <3>1 DEF AddBlock, InvSet, HandleInv, TypeOK
  <2>2. UNCHANGED <<mode, spent_len, spent_size, spent_data, fresh>>
    BY <1>2 DEF AddBlock, spentMap
  <2>3. RoomInv' /\ TailInv'
    BY <2>2 DEF HandleInv, RoomInv, TailInv
  <2>4. EntryInv'
    BY <2>1, <2>2 DEF HandleInv, EntryInv
  <2>5. ApartInv'
    BY <2>1, <2>2 DEF HandleInv, ApartInv, Placed
  <2>6. QuickBitsAgree'
    BY <2>1, <2>2 DEF HandleInv, QuickBitsAgree, Placed, Slot
  <2> QED
    BY <1>1, <2>3, <2>4, <2>5, <2>6 DEF HandleInv
<1>3. ASSUME NEW t \in Txs, NEW off \in Offsets, AddTx(t, off)
      PROVE  HandleInv'
  <2>1. NOut[t] \in 0 .. UMask /\ t \in Hashes
    BY IndexAssumption DEF Hashes
  <2>2. /\ index' = [index EXCEPT ![t] = [offset |-> off,
                                          spent |-> UnspentWord(NOut[t])]]
        /\ mode = "ready" /\ fresh' = fresh \cup {t}
        /\ UNCHANGED <<mode, spent_len, spent_size, spent_data>>
    BY <1>3 DEF AddTx, InvSet, spentMap
  <2>3. /\ index'[t].spent = UnspentWord(NOut[t])
        /\ index'[t] \in Entries
        /\ ~IsPlaced(index'[t].spent)
    BY <2>1, <2>2, UnspentWordFacts DEF HandleInv, TypeOK, Entries
  <2>4. \A u \in fresh' : u # t => u \in fresh /\ index'[u] = index[u]
    BY <2>1, <2>2 DEF HandleInv, TypeOK, Hashes
  <2>5. RoomInv' /\ TailInv'
    BY <2>2 DEF HandleInv, RoomInv, TailInv
  <2>6. EntryInv'
    BY <2>2, <2>3, <2>4 DEF HandleInv, EntryInv
  <2>7. ApartInv'
    BY <2>2, <2>3, <2>4 DEF HandleInv, ApartInv, Placed
  <2>8. QuickBitsAgree'
    BY <2>2, <2>3, <2>4 DEF HandleInv, QuickBitsAgree, Placed, Slot
  <2> QED
    BY <1>1, <2>5, <2>6, <2>7, <2>8 DEF HandleInv
<1> QED
  BY <1>2, <1>3 DEF Recording

\* A process starts without a handle.
LEMMA InitInv == Init => HandleInv
BY InitTyped DEF Init, HandleInv, RoomInv, EntryInv, ApartInv, TailInv,
                 QuickBitsAgree

\* Every step of a caller that keeps the discipline keeps the invariant.
LEMMA NextInv ==
  ASSUME OutputsFit, HandleInv, [Next]_vars
  PROVE  HandleInv'
<1>1. CASE UNCHANGED vars
  BY <1>1 DEF vars, spentMap, HandleInv, TypeOK, RoomInv, EntryInv, ApartInv,
              TailInv, QuickBitsAgree, Placed, Slot
<1>2. ASSUME NEW t \in fresh, NEW off \in Offsets, NEW i \in Outputs(t),
             SpentMark(t, i, off)
      PROVE  HandleInv'
  <2>1. CASE MarkRejected(t)
    BY <1>1, <2>1, MarkRejectedInv
  <2>2. CASE MarkFirst(t, i, off)
    BY <2>2, MarkFirstInv
  <2>3. CASE MarkAgain(t, i, off)
    BY <2>3, MarkAgainInv
  <2> QED
    BY <1>2, <2>1, <2>2, <2>3 DEF SpentMark
<1> QED
  BY <1>1, <1>2, LifecycleInv, RecordingInv DEF Next

\* The invariant holds of every handle of a caller that keeps the discipline.
THEOREM HandleInvariant == OutputsFit => (Spec => []HandleInv)
<1> SUFFICES ASSUME OutputsFit
             PROVE  Spec => []HandleInv
  OBVIOUS
<1>1. HandleInv /\ [Next]_vars => HandleInv'
  BY NextInv
<1> QED
  BY <1>1, InitInv, PTL DEF Spec

\* bzing_spent_mark never writes outside the spent map (bzing.c:637-641), as
\* long as no transaction has more outputs than BZ_SPENT_INIT_SIZE has slots.
THEOREM NoOverrunProved == OutputsFit => (Spec => []NoOverrun)
<1>1. HandleInv => NoOverrun
  BY DEF HandleInv, RoomInv, NoOverrun
<1> QED
  BY <1>1, HandleInvariant, PTL

\* No two transactions share a slot, and every region is in use.
THEOREM RegionsApartProved == OutputsFit => (Spec => []RegionsApart)
<1>1. ASSUME HandleInv
      PROVE  RegionsApart
  <2>1. ASSUME NEW t \in fresh, Placed(t)
        PROVE  Region(t) \subseteq 1 .. (spent_len - 1)
    <3>1. /\ index[t].spent.pos \in Nat /\ index[t].spent.pos >= 1
          /\ NOut[t] \in Nat /\ index[t].spent.pos + NOut[t] <= spent_len
      BY <1>1, <2>1, FreshFacts, NumberFacts
    <3>2. spent_len \in Nat
      BY <1>1 DEF HandleInv, TypeOK
    <3> QED
      BY <3>1, <3>2 DEF Region
  <2>2. ASSUME NEW t \in fresh, NEW u \in fresh, Placed(t), Placed(u), t # u
        PROVE  Region(t) \cap Region(u) = {}
    <3>1. /\ index[t].spent.pos \in Nat /\ NOut[t] \in Nat
          /\ index[u].spent.pos \in Nat /\ NOut[u] \in Nat
      BY <1>1, <2>2, FreshFacts, NumberFacts
    <3>2. \/ index[t].spent.pos + NOut[t] <= index[u].spent.pos
          \/ index[u].spent.pos + NOut[u] <= index[t].spent.pos
      BY <1>1, <2>2 DEF HandleInv, ApartInv
    <3> QED
      BY <3>1, <3>2 DEF Region
  <2> QED
    BY <2>1, <2>2 DEF RegionsApart
<1> QED
  BY <1>1, HandleInvariant, PTL

\* The quick bits of the index always agree with the slots (bzing.c:630-641).
THEOREM QuickBitsProved == OutputsFit => (Spec => []QuickBitsAgree)
<1>1. HandleInv => QuickBitsAgree
  BY DEF HandleInv
<1> QED
  BY <1>1, HandleInvariant, PTL

\* In particular what is in use has been allocated (bzing_chain.h:77-80).
THEOREM RoomProved == OutputsFit => (Spec => []UsedWithinAvailable)
<1>1. HandleInv => UsedWithinAvailable
  BY DEF HandleInv, RoomInv, UsedWithinAvailable
<1> QED
  BY <1>1, HandleInvariant, PTL

-----------------------------------------------------------------------------
(* The handle implements the ledger.                                       *)

\* The two variables of SpendLedger, as functions of those of SpentIndex.
Location == [t \in Txs |-> IF t \in fresh THEN index[t].offset ELSE Absent]
Spenders(t) == [i \in Outputs(t) |->
                  IF Placed(t) /\ Slot(t, i) \in Offsets THEN Slot(t, i)
                                                         ELSE Absent]
Spender == [t \in Txs |-> Spenders(t)]

\* The refinement mapping, spelled out.
LEMMA LedgerVars ==
  /\ Ledger!lvars = <<Location, Spender>>
  /\ Ledger!lvars' = <<Location', Spender'>>
BY DEF Ledger!lvars, Location, Spender, Spenders

\* A step after which everything is the same for the transactions of this
\* handle is no step of the ledger.
LEMMA LedgerStutters ==
  ASSUME fresh' = fresh, \A t \in fresh : index'[t] = index[t],
         spent_data' = spent_data
  PROVE  Location' = Location /\ Spender' = Spender
<1>1. Location' = Location
  BY DEF Location
<1>2. ASSUME NEW t \in Txs
      PROVE  Spenders(t)' = Spenders(t)
  <2>1. Placed(t)' <=> Placed(t)
    BY DEF Placed
  <2>2. ASSUME NEW i \in Outputs(t), Placed(t)
        PROVE  Slot(t, i)' = Slot(t, i)
    BY <2>2 DEF Placed, Slot
  <2> QED
    BY <2>1, <2>2 DEF Spenders
<1> QED
  BY <1>1, <1>2 DEF Spender

\* A step after which the handle has no transactions forgets.
LEMMA LedgerForgets ==
  ASSUME fresh' = {}
  PROVE  Ledger!Forget
<1>1. Location' = [t \in Txs |-> Absent]
  BY DEF Location
<1>2. Spender' = [t \in Txs |-> Ledger!Unspent(t)]
  <2>1. \A t \in Txs : Spenders(t)' = Ledger!Unspent(t)
    BY DEF Spenders, Placed, Ledger!Unspent, Ledger!Outputs, Outputs
  <2> QED
    BY <2>1 DEF Spender
<1> QED
  BY <1>1, <1>2 DEF Ledger!Forget, Ledger!Nothing, Location, Spender, Spenders

\* bzing_block_add records the transaction.
LEMMA LedgerRecords ==
  ASSUME HandleInv, NEW t \in Txs, NEW off \in Offsets, AddTx(t, off)
  PROVE  Ledger!Record(t, off)
<1>1. NOut[t] \in 0 .. UMask /\ t \in Hashes
  BY IndexAssumption DEF Hashes
<1>2. /\ index' = [index EXCEPT ![t] = [offset |-> off,
                                        spent |-> UnspentWord(NOut[t])]]
      /\ fresh' = fresh \cup {t} /\ spent_data' = spent_data
  BY DEF AddTx, InvSet, spentMap
<1>3. /\ index'[t].offset = off /\ index'[t].spent = UnspentWord(NOut[t])
      /\ \A u \in fresh : u # t => index'[u] = index[u]
  BY <1>1, <1>2 DEF HandleInv, TypeOK, Hashes
<1>4. Location' = [Location EXCEPT ![t] = off]
  <2>1. ASSUME NEW u \in Txs
        PROVE  Location'[u] = IF u = t THEN off ELSE Location[u]
    <3>1. CASE u = t
      BY <1>2, <1>3, <3>1 DEF Location
    <3>2. CASE u # t
      BY <1>2, <1>3, <3>2 DEF Location
    <3> QED
      BY <3>1, <3>2
  <2>2. Location' = [u \in Txs |-> Location'[u]]
    BY DEF Location
  <2>3. Location = [u \in Txs |-> Location[u]]
    BY DEF Location
  <2> QED
    BY <2>1, <2>2, <2>3
<1>5. Spenders(t)' = Ledger!Unspent(t)
  <2>1. ~Placed(t)'
    BY <1>1, <1>3, UnspentWordFacts DEF Placed
  <2> QED
    BY <2>1 DEF Spenders, Ledger!Unspent, Ledger!Outputs, Outputs
<1>6. ASSUME NEW u \in Txs, u # t
      PROVE  Spenders(u)' = Spenders(u)
  <2>1. Placed(u)' <=> Placed(u)
    BY <1>2, <1>3, <1>6 DEF Placed
  <2>2. ASSUME NEW i \in Outputs(u), Placed(u)
        PROVE  Slot(u, i)' = Slot(u, i)
    BY <1>2, <1>3, <1>6, <2>2 DEF Placed, Slot
  <2> QED
    BY <2>1, <2>2 DEF Spenders
<1>7. Spender' = [Spender EXCEPT ![t] = Ledger!Unspent(t)]
  BY <1>5, <1>6 DEF Spender
<1> QED
  BY <1>4, <1>7 DEF Ledger!Record, Location, Spender, Spenders

\* What bzing_spent_mark does to the slots of the transactions of this handle:
\* output i of t gets its spender, and every other output keeps its own.
LEMMA MarkSlots ==
  ASSUME OutputsFit, HandleInv,
         NEW t \in fresh, NEW i \in Outputs(t), NEW off \in Offsets,
         MarkFirst(t, i, off) \/ MarkAgain(t, i, off)
  PROVE  /\ fresh' = fresh
         /\ \A u \in fresh : index'[u].offset = index[u].offset
         /\ Spenders(t)' = [Spenders(t) EXCEPT ![i] = off]
         /\ \A u \in fresh : u # t => Spenders(u)' = Spenders(u)
<1> USE NumberFacts
<1>1. CASE MarkFirst(t, i, off)
  <2>1. /\ fresh' = fresh /\ ~Placed(t)
        /\ NOut[t] \in Nat /\ i \in Nat /\ i < NOut[t]
        /\ spent_len \in Nat
        /\ spent_len' = spent_len + NOut[t]
        /\ spent_size' \in Nat /\ spent_len' <= spent_size'
        /\ index'[t].offset = index[t].offset
        /\ IsPlaced(index'[t].spent)
        /\ index'[t].spent.pos = spent_len
        /\ \A u \in fresh : u # t => index'[u] = index[u]
    BY <1>1, MarkFirstEffect
  <2>2. /\ \A s \in 0 .. (spent_len - 1) : spent_data'[s] = spent_data[s]
        /\ \A s \in 0 .. (spent_size' - 1) : s >= spent_len =>
             (spent_data'[s] \in Offsets <=> s = spent_len + i)
        /\ spent_data'[spent_len + i] = off
    BY <1>1, MarkFirstEffect
  <2>3. ASSUME NEW j \in Outputs(t)
        PROVE  Slot(t, j)' \in Offsets <=> j = i
    <3>1. j \in Nat /\ j < NOut[t]
      BY <2>1 DEF Outputs
    <3>2. spent_len + j \in Nat /\ spent_len + j < spent_size'
      BY <2>1, <3>1
    <3>3. spent_len + j \in 0 .. (spent_size' - 1)
      BY <2>1, <3>2, SlotInRange
    <3>4. spent_len + j >= spent_len /\ (spent_len + j = spent_len + i <=> j = i)
      BY <2>1, <3>1
    <3> QED
      BY <2>1, <2>2, <3>3, <3>4 DEF Slot
  <2>4. Slot(t, i)' = off
    BY <2>1, <2>2 DEF Slot
  <2>5. Placed(t)'
    BY <2>1 DEF Placed
  <2>6. Spenders(t)' = [Spenders(t) EXCEPT ![i] = off]
    BY <2>1, <2>3, <2>4, <2>5 DEF Spenders
  <2>7. ASSUME NEW u \in fresh, u # t
        PROVE  Spenders(u)' = Spenders(u)
    <3>1. index'[u] = index[u] /\ (Placed(u)' <=> Placed(u))
      BY <2>1, <2>7 DEF Placed
    <3>2. ASSUME NEW j \in Outputs(u), Placed(u)
          PROVE  Slot(u, j)' = Slot(u, j)
      <4>1. /\ index[u].spent.pos \in Nat /\ NOut[u] \in Nat
            /\ index[u].spent.pos + NOut[u] <= spent_len
        BY <3>2, FreshFacts
      <4>2. j \in Nat /\ j < NOut[u]
        BY <4>1 DEF Outputs
      <4>3. /\ index[u].spent.pos + j \in Nat
            /\ index[u].spent.pos + j < spent_len
        BY <2>1, <4>1, <4>2
      <4>4. index[u].spent.pos + j \in 0 .. (spent_len - 1)
        BY <2>1, <4>3, SlotInRange
      <4> QED
        BY <2>2, <3>1, <4>4 DEF Slot
    <3> QED
      BY <3>1, <3>2 DEF Spenders
  <2>8. \A u \in fresh : index'[u].offset = index[u].offset
    BY <2>1
  <2> QED
    BY <2>1, <2>6, <2>7, <2>8
<1>2. CASE MarkAgain(t, i, off)
  <2> DEFINE slot == index[t].spent.pos + i
  <2>1. /\ fresh' = fresh /\ Placed(t)
        /\ NOut[t] \in Nat /\ i \in Nat /\ i < NOut[t]
        /\ spent_len \in Nat /\ spent_size \in Nat /\ spent_len <= spent_size
        /\ index'[t].offset = index[t].offset
        /\ IsPlaced(index'[t].spent)
        /\ index'[t].spent.pos = index[t].spent.pos
        /\ \A u \in fresh : u # t => index'[u] = index[u]
    BY <1>2, MarkAgainEffect
  <2>2. spent_data' = [s \in 0 .. (spent_size - 1) |->
                         IF s = slot THEN off ELSE spent_data[s]]
    BY <1>2, MarkAgainEffect
  <2>3. index[t].spent.pos \in Nat /\ index[t].spent.pos + NOut[t] <= spent_len
    BY <2>1, FreshFacts
  <2>4. ASSUME NEW u \in fresh, Placed(u), NEW j \in Outputs(u)
        PROVE  /\ Slot(u, j)' = IF u = t /\ j = i THEN off ELSE Slot(u, j)
    <3>1. /\ index[u].spent.pos \in Nat /\ NOut[u] \in Nat
          /\ index[u].spent.pos + NOut[u] <= spent_len
      BY <2>4, FreshFacts
    <3>2. j \in Nat /\ j < NOut[u]
      BY <3>1 DEF Outputs
    <3>3. /\ index[u].spent.pos + j \in Nat
          /\ index[u].spent.pos + j < spent_size
      BY <2>1, <3>1, <3>2
    <3>4. index[u].spent.pos + j \in 0 .. (spent_size - 1)
      BY <2>1, <3>3, SlotInRange
    <3>5. index'[u].spent.pos = index[u].spent.pos
      BY <2>1
    <3>6. CASE u = t
      <4>1. index[u].spent.pos + j = slot <=> j = i
        BY <2>1, <2>3, <3>2, <3>6
      <4> QED
        BY <2>2, <3>4, <3>5, <3>6, <4>1 DEF Slot
    <3>7. CASE u # t
      <4>1. \/ index[u].spent.pos + NOut[u] <= index[t].spent.pos
            \/ index[t].spent.pos + NOut[t] <= index[u].spent.pos
        BY <2>1, <2>4, <3>7 DEF HandleInv, ApartInv
      <4>2. index[u].spent.pos + j # slot
        BY <2>1, <2>3, <3>1, <3>2, <4>1
      <4> QED
        BY <2>2, <3>4, <3>5, <3>7, <4>2 DEF Slot
    <3> QED
      BY <3>6, <3>7
  <2>5. \A u \in fresh : Placed(u)' <=> Placed(u)
    BY <2>1 DEF Placed
  <2>6. Spenders(t)' = [Spenders(t) EXCEPT ![i] = off]
    BY <2>1, <2>4, <2>5 DEF Spenders
  <2>7. \A u \in fresh : u # t => Spenders(u)' = Spenders(u)
    BY <2>4, <2>5 DEF Spenders
  <2>8. \A u \in fresh : index'[u].offset = index[u].offset
    BY <2>1
  <2> QED
    BY <2>1, <2>6, <2>7, <2>8
<1> QED
  BY <1>1, <1>2

\* bzing_spent_mark spends the output.
LEMMA LedgerSpends ==
  ASSUME OutputsFit, HandleInv,
         NEW t \in fresh, NEW i \in Outputs(t), NEW off \in Offsets,
         MarkFirst(t, i, off) \/ MarkAgain(t, i, off)
  PROVE  Ledger!Spend(t, i, off)
<1>1. t \in Txs /\ index[t].offset \in Offsets /\ Absent \notin Offsets
  BY FreshFacts, NumberFacts
<1>2. Location' = Location /\ Location[t] # Absent
  BY <1>1, MarkSlots DEF Location
<1>3. ASSUME NEW u \in Txs, u \notin fresh
      PROVE  Spenders(u)' = Spenders(u)
  BY <1>3, MarkSlots DEF Spenders, Placed
<1>4. Spender' = [Spender EXCEPT ![t] = [@ EXCEPT ![i] = off]]
  <2>1. \A u \in Txs : u # t => Spenders(u)' = Spenders(u)
    BY <1>3, MarkSlots
  <2>2. Spenders(t)' = [Spenders(t) EXCEPT ![i] = off]
    BY MarkSlots
  <2> QED
    BY <1>1, <2>1, <2>2 DEF Spender
<1> QED
  BY <1>2, <1>4 DEF Ledger!Spend, Location, Spender, Spenders

\* The index and the spent map implement a spend ledger, whatever the order
\* of the calls: where a transaction is and who spent its outputs is never
\* lost, mixed up or made up, however the map grows and the index is reset.
THEOREM LedgerImplemented == OutputsFit => (Spec => LedgerSpec)
<1> SUFFICES ASSUME OutputsFit
             PROVE  Spec => LedgerSpec
  OBVIOUS
<1>1. Init => Ledger!Nothing
  <2> SUFFICES ASSUME Init
               PROVE  Ledger!Nothing
    OBVIOUS
  <2>1. Location = [t \in Txs |-> Absent]
    BY DEF Init, Location
  <2>2. \A t \in Txs : Spenders(t) = Ledger!Unspent(t)
    BY DEF Init, Spenders, Placed, Ledger!Unspent, Ledger!Outputs, Outputs
  <2> QED
    BY <2>1, <2>2 DEF Ledger!Nothing, Location, Spender, Spenders
<1>2. ASSUME HandleInv, [Next]_vars
      PROVE  [Ledger!Next]_(Ledger!lvars)
  <2>1. CASE UNCHANGED vars
    BY <2>1, LedgerStutters, LedgerVars DEF vars, spentMap
  <2>2. ASSUME HandleLost
        PROVE  Ledger!Next
    BY <2>2, LedgerForgets DEF HandleLost, Ledger!Next
  <2>3. CASE Alloc
    <3>1. fresh' = {}
      BY <1>2, <2>3 DEF Alloc, HandleInv, RoomInv
    <3> QED
      BY <3>1, LedgerForgets DEF Ledger!Next
  <2>4. CASE Reset
    <3>1. CASE Engine = "ldb"
      BY <2>4, <3>1, LedgerStutters, LedgerVars DEF Reset, spentMap
    <3>2. CASE Engine # "ldb"
      BY <2>4, <3>2, LedgerForgets DEF Reset, Ledger!Next
    <3> QED
      BY <3>1, <3>2
  <2>5. ASSUME NEW b \in Blocks, NEW off \in Offsets, AddBlock(b, off)
        PROVE  [Ledger!Next]_(Ledger!lvars)
    <3>1. \A t \in fresh : t \in Hashes /\ t # b
      BY <1>2, IndexAssumption DEF HandleInv, TypeOK, Hashes
    <3>2. \A t \in fresh : index'[t] = index[t]
      BY <1>2, <2>5, <3>1 DEF AddBlock, InvSet, HandleInv, TypeOK
    <3> QED
      BY <2>5, <3>2, LedgerStutters, LedgerVars DEF AddBlock, spentMap
  <2>6. ASSUME NEW t \in Txs, NEW off \in Offsets, AddTx(t, off)
        PROVE  Ledger!Next
    BY <1>2, <2>6, LedgerRecords DEF Ledger!Next
  <2>7. ASSUME NEW t \in fresh, NEW off \in Offsets, NEW i \in Outputs(t),
               SpentMark(t, i, off)
        PROVE  [Ledger!Next]_(Ledger!lvars)
    <3>1. CASE MarkRejected(t)
      <4>1. UNCHANGED vars
        BY <1>2, <3>1, MarkRejectedInv
      <4> QED
        BY <4>1, LedgerStutters, LedgerVars DEF vars, spentMap
    <3>2. CASE MarkFirst(t, i, off) \/ MarkAgain(t, i, off)
      <4>1. Ledger!Spend(t, i, off)
        BY <1>2, <3>2, LedgerSpends
      <4>2. t \in Txs /\ i \in Ledger!Outputs(t)
        BY <1>2, FreshFacts DEF Ledger!Outputs, Outputs
      <4> QED
        BY <4>1, <4>2 DEF Ledger!Next
    <3> QED
      BY <2>7, <3>1, <3>2 DEF SpentMark
  <2> QED
    BY <1>2, <2>1, <2>2, <2>3, <2>4, <2>5, <2>6, <2>7
       DEF Next, Lifecycle, Recording, Free, Crash
<1> QED
  BY <1>1, <1>2, HandleInvariant, PTL DEF Spec, LedgerSpec, Ledger!Spec

-----------------------------------------------------------------------------
(* Any caller: what holds under RawSpec.                                     *)

\* On the engines that do not make entries up a lookup returns what is there.
LEMMA FoundIsStored ==
  ASSUME NEW h \in Hashes, index[h] # Absent \/ ~InsertsOnLookup,
         NEW e \in Found(h)
  PROVE  index[h] # Absent /\ e = index[h]
BY DEF Found

\* The word that the first spend writes is placed where the map ended
\* (bzing.c:618-634).
LEMMA FirstWord ==
  ASSUME TypeOK, NEW h \in Hashes, NEW i \in Nat, NEW off \in Offsets,
         MarkFirst(h, i, off)
  PROVE  /\ \E e \in Found(h) : IsUnspent(e.spent)
         /\ \E e \in Entries :
              /\ index' = [index EXCEPT ![h] = e]
              /\ IsPlaced(e.spent)
              /\ e.spent.pos = spent_len
<1> USE WordAssumption, IndexAssumption
<1> DEFINE W == [quick |-> {}, pos |-> spent_len]
<1>1. PICK e \in Found(h) :
        /\ IsUnspent(e.spent) /\ CountOf(e.spent) > 0
        /\ LenAfter(CountOf(e.spent)) <= MaxLen
        /\ InvSet(h, e.offset, Quicken(W, i))
  BY DEF MarkFirst
<1>2. e.offset \in Offsets /\ e.spent \in SpentWords
  BY FoundTyped
<1>3. CountOf(e.spent) \in Nat
  BY <1>1, <1>2 DEF CountOf, SpentWords, Mask
<1>4. spent_len \in Nat /\ spent_len < UMark
  BY <1>1, <1>3 DEF LenAfter, TypeOK
<1>5. W \in SpentWords /\ W.pos < UMark
  BY <1>4 DEF SpentWords, Mask
<1>6. /\ Quicken(W, i) \in SpentWords /\ Quicken(W, i).pos = spent_len
      /\ IsPlaced(Quicken(W, i))
  BY <1>5, QuickenFacts
<1>7. [offset |-> e.offset, spent |-> Quicken(W, i)] \in Entries
  BY <1>2, <1>6 DEF Entries
<1> QED
  BY <1>1, <1>6, <1>7 DEF InvSet

\* A later spend leaves the position of the word alone (bzing.c:627-634).
LEMMA AgainWord ==
  ASSUME TypeOK, NEW h \in Hashes, NEW i \in Nat, NEW off \in Offsets,
         MarkAgain(h, i, off)
  PROVE  \E e \in Found(h), d \in Entries :
           /\ IsPlaced(e.spent) /\ IsPlaced(d.spent)
           /\ d.spent.pos = e.spent.pos
           /\ index' = [index EXCEPT ![h] = d]
           /\ StoreSlot(spent_data, e.spent.pos + i, off)
<1> USE WordAssumption, IndexAssumption
<1>1. PICK e \in Found(h) :
        /\ IsPlaced(e.spent)
        /\ StoreSlot(spent_data, e.spent.pos + i, off)
        /\ InvSet(h, e.offset, Quicken(e.spent, i))
  BY DEF MarkAgain
<1>2. e.offset \in Offsets /\ e.spent \in SpentWords
  BY FoundTyped
<1>3. e.spent.pos < UMark
  BY <1>1 DEF IsPlaced
<1>4. /\ Quicken(e.spent, i) \in SpentWords
      /\ Quicken(e.spent, i).pos = e.spent.pos
      /\ IsPlaced(Quicken(e.spent, i))
  BY <1>2, <1>3, QuickenFacts
<1> DEFINE d == [offset |-> e.offset, spent |-> Quicken(e.spent, i)]
<1>5. d \in Entries /\ d.spent = Quicken(e.spent, i)
  BY <1>2, <1>4 DEF Entries
<1>6. index' = [index EXCEPT ![h] = d]
  BY <1>1 DEF InvSet
<1> QED
  BY <1>1, <1>4, <1>5, <1>6

\* The entries that a crash leaves are those there were, or unspent ones.
LEMMA CrashedEntry ==
  ASSUME TypeOK, Crash, NEW h \in Hashes, index'[h] # Absent
  PROVE  /\ index[h] # Absent
         /\ \/ index'[h] = index[h]
            \/ /\ h \in Txs
               /\ index'[h].spent = UnspentWord(NOut[h])
<1>1. PICK kept \in SUBSET {g \in Hashes : index[g] # Absent},
           older \in SUBSET {g \in Hashes : index[g] # Absent} :
        /\ older \subseteq kept \cap Txs
        /\ index' = [g \in Hashes |->
                      IF g \in older
                      THEN [index[g] EXCEPT !.spent = UnspentWord(NOut[g])]
                      ELSE IF g \in kept THEN index[g] ELSE Absent]
  BY DEF Crash
<1>2. CASE h \in older
  <2>1. index[h] \in Entries /\ index[h] # Absent /\ h \in Txs
    BY <1>1, <1>2 DEF TypeOK
  <2>2. index'[h] = [index[h] EXCEPT !.spent = UnspentWord(NOut[h])]
    BY <1>1, <1>2
  <2>3. index'[h].spent = UnspentWord(NOut[h])
    BY <2>1, <2>2 DEF Entries
  <2> QED
    BY <2>1, <2>3
<1>3. CASE h \notin older
  BY <1>1, <1>3
<1> QED
  BY <1>2, <1>3

-----------------------------------------------------------------------------
(* Blocks stay blocks and transactions stay transactions.                  *)

\* What KindsKept says of one hash.
KindOf(h) ==
  index[h] # Absent /\ index'[h] # Absent =>
    /\ h \in Blocks /\ IsBlock(index[h].spent) => IsBlock(index'[h].spent)
    /\ h \in Txs /\ ~IsBlock(index[h].spent) => ~IsBlock(index'[h].spent)

\* A spend keeps the kind of every entry, whatever hash it names.
LEMMA MarkKeepsKind ==
  ASSUME TypeOK, NEW g \in Hashes, NEW i \in Nat, NEW off \in Offsets,
         SpentMark(g, i, off), NEW h \in Hashes
  PROVE  KindOf(h)
<1> SUFFICES ASSUME index[h] # Absent, index'[h] # Absent
             PROVE  /\ IsBlock(index[h].spent) => IsBlock(index'[h].spent)
                    /\ ~IsBlock(index[h].spent) => ~IsBlock(index'[h].spent)
  BY DEF KindOf
<1>1. ASSUME NEW e, index' = [index EXCEPT ![g] = e], h # g
      PROVE  index'[h] = index[h]
  BY <1>1 DEF TypeOK
<1>2. ASSUME NEW e, index' = [index EXCEPT ![g] = e], h = g
      PROVE  index'[h] = e
  BY <1>2 DEF TypeOK
<1>3. CASE MarkRejected(g)
  <2>1. PICK e \in Found(g) : index' = [index EXCEPT ![g] = e]
    BY <1>3 DEF MarkRejected
  <2>2. CASE h = g
    BY <1>2, <2>1, <2>2, FoundIsStored
  <2> QED
    BY <1>1, <2>1, <2>2
<1>4. CASE MarkFirst(g, i, off)
  <2>1. PICK e \in Entries : index' = [index EXCEPT ![g] = e] /\ IsPlaced(e.spent)
    BY <1>4, FirstWord
  <2>2. PICK f \in Found(g) : IsUnspent(f.spent)
    BY <1>4, FirstWord
  <2>3. CASE h = g
    <3>1. ~IsBlock(index[h].spent)
      BY <2>2, <2>3, FoundIsStored DEF IsUnspent
    <3>2. ~IsBlock(index'[h].spent)
      BY <1>2, <2>1, <2>3 DEF IsPlaced
    <3> QED
      BY <3>1, <3>2
  <2> QED
    BY <1>1, <2>1, <2>3
<1>5. CASE MarkAgain(g, i, off)
  <2>1. PICK f \in Found(g), e \in Entries :
          /\ IsPlaced(f.spent) /\ IsPlaced(e.spent)
          /\ index' = [index EXCEPT ![g] = e]
    BY <1>5, AgainWord
  <2>2. CASE h = g
    <3>1. ~IsBlock(index[h].spent)
      BY <2>1, <2>2, FoundIsStored DEF IsPlaced
    <3>2. ~IsBlock(index'[h].spent)
      BY <1>2, <2>1, <2>2 DEF IsPlaced
    <3> QED
      BY <3>1, <3>2
  <2> QED
    BY <1>1, <2>1, <2>2
<1> QED
  BY <1>3, <1>4, <1>5 DEF SpentMark

\* So does recording, which writes the word of the kind the hash is of.
LEMMA RecordingKeepsKind ==
  ASSUME TypeOK, Recording, NEW h \in Hashes
  PROVE  KindOf(h)
<1> USE IndexAssumption
<1>1. ASSUME NEW b \in Blocks, NEW off \in Offsets, AddBlock(b, off)
      PROVE  KindOf(h)
  <2>1. index' = [index EXCEPT ![b] = [offset |-> off, spent |-> BlockWord]]
    BY <1>1 DEF AddBlock, InvSet
  <2>2. CASE h = b
    <3>1. index'[h].spent = BlockWord
      BY <2>1, <2>2 DEF TypeOK
    <3>2. h \notin Txs
      BY <2>2
    <3> QED
      BY <3>1, <3>2 DEF KindOf, IsBlock
  <2>3. CASE h # b
    <3>1. index'[h] = index[h]
      BY <2>1, <2>3 DEF TypeOK
    <3> QED
      BY <3>1 DEF KindOf
  <2> QED
    BY <2>2, <2>3
<1>2. ASSUME NEW t \in Txs, NEW off \in Offsets, AddTx(t, off)
      PROVE  KindOf(h)
  <2>1. index' = [index EXCEPT
                    ![t] = [offset |-> off, spent |-> UnspentWord(NOut[t])]]
    BY <1>2 DEF AddTx, InvSet
  <2>2. CASE h = t
    <3>1. index'[h].spent = UnspentWord(NOut[t])
      BY <2>1, <2>2 DEF TypeOK
    <3>2. ~IsBlock(index'[h].spent)
      BY <3>1, UnspentWordFacts DEF IsUnspent
    <3>3. h \notin Blocks
      BY <2>2
    <3> QED
      BY <3>2, <3>3 DEF KindOf
  <2>3. CASE h # t
    <3>1. index'[h] = index[h]
      BY <2>1, <2>3 DEF TypeOK
    <3> QED
      BY <3>1 DEF KindOf
  <2> QED
    BY <2>2, <2>3
<1> QED
  BY <1>1, <1>2 DEF Recording

\* And the life of a handle, crashes included.
LEMMA LifecycleKeepsKind ==
  ASSUME TypeOK, Lifecycle, NEW h \in Hashes
  PROVE  KindOf(h)
<1> USE IndexAssumption
<1>1. CASE Alloc \/ Free \/ Reset
  <2>1. index'[h] = index[h] \/ index'[h] = Absent
    BY <1>1 DEF Alloc, Free, Reset, NoIndex
  <2> QED
    BY <2>1 DEF KindOf
<1>2. CASE Crash
  <2> SUFFICES ASSUME index[h] # Absent, index'[h] # Absent
               PROVE  KindOf(h)
    BY DEF KindOf
  <2>1. CASE index'[h] = index[h]
    BY <2>1 DEF KindOf
  <2>2. CASE h \in Txs /\ index'[h].spent = UnspentWord(NOut[h])
    <3>1. ~IsBlock(index'[h].spent)
      BY <2>2, UnspentWordFacts DEF IsUnspent
    <3> QED
      BY <2>2, <3>1 DEF KindOf
  <2> QED
    BY <1>2, <2>1, <2>2, CrashedEntry
<1> QED
  BY <1>1, <1>2 DEF Lifecycle

\* No step of any caller, on any engine, turns a block into a transaction or the
\* reverse: the tests of bzing_spent_mark tell them apart, also in an entry that
\* khash made up.
THEOREM KindsKeptProved == RawSpec => KindsKept
<1> DEFINE Kinds ==
      /\ \A b \in Blocks :
           index[b] # Absent /\ IsBlock(index[b].spent) /\ index'[b] # Absent
             => IsBlock(index'[b].spent)
      /\ \A t \in Txs :
           index[t] # Absent /\ ~IsBlock(index[t].spent) /\ index'[t] # Absent
             => ~IsBlock(index'[t].spent)
<1>1. ASSUME TypeOK, [RawNext]_vars
      PROVE  [Kinds]_vars
  <2>1. ASSUME \A h \in Hashes : KindOf(h)
        PROVE  Kinds
    BY <2>1 DEF KindOf, Hashes
  <2>2. CASE UNCHANGED vars
    BY <2>2
  <2>3. ASSUME NEW h \in Hashes, NEW i \in 0 .. MaxIndex, NEW off \in Offsets,
               SpentMark(h, i, off)
        PROVE  Kinds
    <3>1. i \in Nat
      BY IndexAssumption
    <3> QED
      BY <1>1, <2>1, <2>3, <3>1, MarkKeepsKind
  <2>4. ASSUME NEW h \in Hashes, MarkUnknown(h)
        PROVE  Kinds
    <3>1. index' = index
      BY <2>4 DEF MarkUnknown
    <3> QED
      BY <2>1, <3>1 DEF KindOf
  <2>5. CASE Lifecycle
    BY <1>1, <2>1, <2>5, LifecycleKeepsKind
  <2>6. CASE Recording
    BY <1>1, <2>1, <2>6, RecordingKeepsKind
  <2> QED
    BY <1>1, <2>2, <2>3, <2>4, <2>5, <2>6 DEF RawNext
<1> QED
  BY <1>1, RawTypeCorrect, PTL DEF RawSpec, KindsKept

-----------------------------------------------------------------------------
(* Slot 0 is never handed out.                                             *)

\* An open handle has used slot 0, and no entry of the index, whichever handle
\* placed it, has its region there.
ZeroInv ==
  /\ TypeOK
  /\ mode = "ready" => spent_len >= 1 /\ spent_size >= 1
  /\ \A h \in Hashes :
       index[h] # Absent /\ IsPlaced(index[h].spent) => index[h].spent.pos >= 1
  /\ SlotZeroUnused

\* A store behind slot 0 leaves it as it was.
LEMMA StoreKeepsZero ==
  ASSUME NEW size \in Nat, NEW data, DOMAIN data = 0 .. (size - 1),
         0 \in DOMAIN data => data[0] = Junk,
         NEW slot \in Nat, slot >= 1, NEW off, StoreSlot(data, slot, off)
  PROVE  SlotZeroUnused'
BY DEF StoreSlot, SlotZeroUnused

\* The map grows and slot 0 stays as it was (bzing.c:269-292).
LEMMA GrownKeepsZero ==
  ASSUME ZeroInv, mode = "ready", NEW size \in Nat
  PROVE  /\ DOMAIN GrownData(size) = 0 .. (size - 1)
         /\ 0 \in DOMAIN GrownData(size) => GrownData(size)[0] = Junk
<1>1. spent_size \in Nat /\ spent_size >= 1
  BY DEF ZeroInv, TypeOK
<1>2. 0 \in 0 .. (spent_size - 1) /\ spent_data[0] = Junk
  BY <1>1 DEF ZeroInv, TypeOK, SlotZeroUnused
<1> QED
  BY <1>1, <1>2 DEF GrownData

\* An entry written over another one: the rest of the index is as it was.
LEMMA EntryPut ==
  ASSUME ZeroInv, NEW g \in Hashes, NEW e \in Entries,
         IsPlaced(e.spent) => e.spent.pos >= 1,
         index' = [index EXCEPT ![g] = e], NEW h \in Hashes,
         index'[h] # Absent, IsPlaced(index'[h].spent)
  PROVE  index'[h].spent.pos >= 1
BY DEF ZeroInv, TypeOK

\* A spend of any outpoint leaves slot 0 alone.
LEMMA MarkKeepsZero ==
  ASSUME ~InsertsOnLookup, ZeroInv, NEW g \in Hashes, NEW i \in Nat,
         NEW off \in Offsets, SpentMark(g, i, off)
  PROVE  ZeroInv'
<1> USE WordAssumption, IndexAssumption
<1>1. TypeOK /\ TypeOK'
  BY MarkTyped DEF ZeroInv
<1>2. spent_len \in Nat /\ spent_size \in Nat
  BY <1>1 DEF TypeOK
<1>3. CASE MarkRejected(g)
  <2>1. UNCHANGED <<mode, spentMap, fresh>>
    BY <1>3 DEF MarkRejected
  <2>2. PICK e \in Found(g) : index' = [index EXCEPT ![g] = e]
    BY <1>3 DEF MarkRejected
  <2>3. index[g] # Absent /\ e = index[g]
    BY FoundIsStored
  <2>4. index' = index
    BY <1>1, <2>2, <2>3 DEF TypeOK
  <2> QED
    BY <1>1, <2>1, <2>4 DEF ZeroInv, SlotZeroUnused, spentMap
<1>4. CASE MarkFirst(g, i, off)
  <2>1. /\ mode = "ready" /\ fresh' = fresh
        /\ \E e \in Found(g) :
             /\ IsUnspent(e.spent) /\ CountOf(e.spent) > 0
             /\ spent_len' = LenAfter(CountOf(e.spent))
             /\ spent_size' = GrownSize(LenAfter(CountOf(e.spent)))
             /\ StoreSlot(GrownData(spent_size'), spent_len + i, off)
    BY <1>4 DEF MarkFirst
  <2>2. PICK e \in Found(g) :
          /\ IsUnspent(e.spent) /\ CountOf(e.spent) > 0
          /\ spent_len' = LenAfter(CountOf(e.spent))
          /\ spent_size' = GrownSize(LenAfter(CountOf(e.spent)))
          /\ StoreSlot(GrownData(spent_size'), spent_len + i, off)
    BY <2>1
  <2>3. e.spent \in SpentWords
    BY <1>1, FoundTyped
  <2>4. CountOf(e.spent) \in Nat
    BY <2>2, <2>3 DEF CountOf, SpentWords, Mask
  <2>5. spent_len >= 1 /\ spent_size >= 1
    BY <2>1 DEF ZeroInv
  <2>6. spent_len' >= 1 /\ spent_size' \in Nat /\ spent_size' >= 1
    BY <1>2, <2>2, <2>4, <2>5 DEF LenAfter, GrownSize
  <2>7. SlotZeroUnused'
    <3>1. /\ DOMAIN GrownData(spent_size') = 0 .. (spent_size' - 1)
          /\ 0 \in DOMAIN GrownData(spent_size') => GrownData(spent_size')[0] = Junk
      BY <2>1, <2>6, GrownKeepsZero
    <3>2. spent_len + i \in Nat /\ spent_len + i >= 1
      BY <1>2, <2>5
    <3> QED
      BY <2>2, <2>6, <3>1, <3>2, StoreKeepsZero
  <2>8. ASSUME NEW h \in Hashes, index'[h] # Absent, IsPlaced(index'[h].spent)
        PROVE  index'[h].spent.pos >= 1
    <3>1. PICK d \in Entries : /\ index' = [index EXCEPT ![g] = d]
                               /\ d.spent.pos = spent_len
      BY <1>1, <1>4, FirstWord
    <3> QED
      BY <2>5, <2>8, <3>1, EntryPut
  <2> QED
    BY <1>1, <2>6, <2>7, <2>8 DEF ZeroInv
<1>5. CASE MarkAgain(g, i, off)
  <2>1. PICK e \in Found(g), d \in Entries :
          /\ IsPlaced(e.spent) /\ IsPlaced(d.spent)
          /\ d.spent.pos = e.spent.pos
          /\ index' = [index EXCEPT ![g] = d]
          /\ StoreSlot(spent_data, e.spent.pos + i, off)
    BY <1>1, <1>5, AgainWord
  <2>2. mode = "ready" /\ UNCHANGED <<spent_len, spent_size, fresh>>
    BY <1>5 DEF MarkAgain
  <2>3. e.spent.pos \in Nat /\ e.spent.pos >= 1
    <3>1. index[g] # Absent /\ e = index[g] /\ e.spent \in SpentWords
      BY <1>1, FoundIsStored, FoundTyped
    <3> QED
      BY <2>1, <3>1 DEF ZeroInv, SpentWords, Mask
  <2>4. SlotZeroUnused'
    <3>1. /\ DOMAIN spent_data = 0 .. (spent_size - 1)
          /\ 0 \in DOMAIN spent_data => spent_data[0] = Junk
      BY DEF ZeroInv, TypeOK, SlotZeroUnused
    <3>2. e.spent.pos + i \in Nat /\ e.spent.pos + i >= 1
      BY <2>3
    <3> QED
      BY <1>2, <2>1, <3>1, <3>2, StoreKeepsZero
  <2>5. ASSUME NEW h \in Hashes, index'[h] # Absent, IsPlaced(index'[h].spent)
        PROVE  index'[h].spent.pos >= 1
    BY <2>1, <2>3, <2>5, EntryPut
  <2>6. spent_len >= 1 /\ spent_size >= 1
    BY <2>2 DEF ZeroInv
  <2> QED
    BY <1>1, <2>2, <2>4, <2>5, <2>6 DEF ZeroInv
<1> QED
  BY <1>3, <1>4, <1>5 DEF SpentMark

\* When the handle is lost so is slot 0.
LEMMA LostKeepsZero ==
  ASSUME HandleLost
  PROVE  SlotZeroUnused' /\ mode' = "dead"
BY DEF HandleLost, SlotZeroUnused

\* The life of a handle: a new one has an uncleared slot 0 (bzing.c:80-84).
LEMMA LifecycleKeepsZero ==
  ASSUME ZeroInv, Lifecycle
  PROVE  ZeroInv'
<1> USE WordAssumption, IndexAssumption
<1>1. TypeOK'
  BY LifecycleTyped DEF ZeroInv
<1>2. CASE Alloc
  <2>1. SlotZeroUnused'
    BY <1>2 DEF Alloc, SlotZeroUnused
  <2> QED
    BY <1>1, <1>2, <2>1 DEF Alloc, ZeroInv
<1>3. CASE Free
  <2>1. index' = index \/ \A h \in Hashes : index'[h] = Absent
    BY <1>3 DEF Free, NoIndex
  <2> QED
    BY <1>1, <1>3, <2>1, LostKeepsZero DEF Free, ZeroInv
<1>4. CASE Reset
  <2>1. index' = index \/ \A h \in Hashes : index'[h] = Absent
    BY <1>4 DEF Reset, NoIndex
  <2> QED
    BY <1>1, <1>4, <2>1 DEF Reset, ZeroInv, SlotZeroUnused, spentMap
<1>5. CASE Crash
  <2>1. ASSUME NEW h \in Hashes, index'[h] # Absent, IsPlaced(index'[h].spent)
        PROVE  index'[h].spent.pos >= 1
    <3>1. TypeOK /\ index[h] # Absent
      BY <1>5, <2>1, CrashedEntry DEF ZeroInv
    <3>2. CASE index'[h] = index[h]
      BY <2>1, <3>1, <3>2 DEF ZeroInv
    <3>3. CASE h \in Txs /\ index'[h].spent = UnspentWord(NOut[h])
      <4>1. ~IsPlaced(index'[h].spent)
        BY <3>3, UnspentWordFacts
      <4> QED
        BY <2>1, <4>1
    <3> QED
      BY <1>5, <2>1, <3>1, <3>2, <3>3, CrashedEntry
  <2> QED
    BY <1>1, <1>5, <2>1, LostKeepsZero DEF Crash, ZeroInv
<1> QED
  BY <1>2, <1>3, <1>4, <1>5 DEF Lifecycle

\* Recording writes words that are not placed.
LEMMA RecordingKeepsZero ==
  ASSUME ZeroInv, Recording
  PROVE  ZeroInv'
<1> USE WordAssumption, IndexAssumption
<1>1. TypeOK'
  BY RecordingTyped DEF ZeroInv
<1>2. ASSUME NEW g \in Hashes, NEW off \in Offsets, NEW w \in SpentWords,
             ~IsPlaced(w), InvSet(g, off, w), UNCHANGED <<mode, spentMap>>
      PROVE  ZeroInv'
  <2> DEFINE e == [offset |-> off, spent |-> w]
  <2>1. e \in Entries /\ ~IsPlaced(e.spent) /\ index' = [index EXCEPT ![g] = e]
    BY <1>2 DEF Entries, InvSet
  <2>2. ASSUME NEW h \in Hashes, index'[h] # Absent, IsPlaced(index'[h].spent)
        PROVE  index'[h].spent.pos >= 1
    BY <2>1, <2>2, EntryPut
  <2> QED
    BY <1>1, <1>2, <2>2 DEF ZeroInv, SlotZeroUnused, spentMap
<1>3. ASSUME NEW b \in Blocks, NEW off \in Offsets, AddBlock(b, off)
      PROVE  ZeroInv'
  <2>1. BlockWord \in SpentWords /\ ~IsPlaced(BlockWord) /\ b \in Hashes
    BY DEF BlockWord, SpentWords, Mask, IsPlaced, IsBlock, Hashes
  <2> QED
    BY <1>2, <1>3, <2>1 DEF AddBlock
<1>4. ASSUME NEW t \in Txs, NEW off \in Offsets, AddTx(t, off)
      PROVE  ZeroInv'
  <2>1. /\ UnspentWord(NOut[t]) \in SpentWords /\ ~IsPlaced(UnspentWord(NOut[t]))
        /\ t \in Hashes
    BY UnspentWordFacts DEF Hashes
  <2> QED
    BY <1>2, <1>4, <2>1 DEF AddTx
<1> QED
  BY <1>3, <1>4 DEF Recording

\* On the engines that make no entries up, no caller ever gets slot 0 written:
\* bzing_alloc counts it as used (bzing.c:84), so no region starts there, neither
\* of an entry of this handle nor of one that an earlier handle left behind.
THEOREM SlotZeroProved == ~InsertsOnLookup => (RawSpec => []SlotZeroUnused)
<1> SUFFICES ASSUME ~InsertsOnLookup
             PROVE  RawSpec => []SlotZeroUnused
  OBVIOUS
<1>1. Init => ZeroInv
  BY InitTyped DEF Init, ZeroInv, SlotZeroUnused, NoIndex
<1>2. ASSUME ZeroInv, [RawNext]_vars
      PROVE  ZeroInv'
  <2>1. CASE UNCHANGED vars
    <3>1. TypeOK'
      BY <1>2, <2>1 DEF vars, spentMap, TypeOK, ZeroInv
    <3> QED
      BY <1>2, <2>1, <3>1 DEF vars, spentMap, ZeroInv, SlotZeroUnused
  <2>2. ASSUME NEW h \in Hashes, NEW i \in 0 .. MaxIndex, NEW off \in Offsets,
               SpentMark(h, i, off)
        PROVE  ZeroInv'
    <3>1. i \in Nat
      BY IndexAssumption
    <3> QED
      BY <1>2, <2>2, <3>1, MarkKeepsZero
  <2>3. ASSUME NEW h \in Hashes, MarkUnknown(h)
        PROVE  ZeroInv'
    <3>1. index' = index /\ mode' = "dead" /\ SlotZeroUnused'
      BY <2>3, LostKeepsZero DEF MarkUnknown
    <3>2. TypeOK'
      <4>1. 0 .. (0 - 1) = {}
        OBVIOUS
      <4> QED
        BY <1>2, <2>3, <4>1 DEF MarkUnknown, HandleLost, TypeOK, ZeroInv
    <3> QED
      BY <1>2, <3>1, <3>2 DEF ZeroInv
  <2> QED
    BY <1>2, <2>1, <2>2, <2>3, LifecycleKeepsZero, RecordingKeepsZero DEF RawNext
<1>3. ZeroInv => SlotZeroUnused
  BY DEF ZeroInv
<1> QED
  BY <1>1, <1>2, <1>3, PTL DEF RawSpec
=============================================================================
