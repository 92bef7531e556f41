-------------------------- MODULE IndexRegenProofs --------------------------
(***************************************************************************)
(* The walk of IndexRegen keeps to the discipline of SpentIndex, for every *)
(* valid chain, and so inherits what is proved of it.                      *)
(***************************************************************************)
EXTENDS IndexRegen, SpentIndexProofs

\* Where the walk is, and that every transaction it has passed was recorded by
\* this handle, since it was opened and last reset.
WalkInv ==
  /\ phase \in {"idle", "block", "txs", "done"}
  /\ blk \in Nat \ {0} /\ tx \in Nat \ {0} /\ in \in Nat \ {0}
  /\ phase \in {"block", "txs"} =>
       \A p \in TxPlaces : Recorded(p) => TxAt(p).tx \in fresh
  /\ phase = "block" => tx = 1
  /\ phase = "txs" => blk \in DOMAIN Chain

\* An element of a sequence.
LEMMA ElementOf ==
  ASSUME NEW S, NEW s \in Seq(S), NEW k \in DOMAIN s
  PROVE  s[k] \in S /\ k \in Nat \ {0} /\ k <= Len(s)
OBVIOUS

\* What the assumption says of a block of the chain.
LEMMA BlockFacts ==
  ASSUME NEW k \in DOMAIN Chain
  PROVE  /\ k \in Nat \ {0} /\ k <= Len(Chain)
         /\ Chain[k].hash \in Blocks
         /\ Chain[k].txs \in Seq(TxRecords)
         /\ Len(Chain[k].txs) \in Nat
         /\ BlockPlace(k) \in Offsets
         /\ \A j \in DOMAIN Chain[k].txs : TxPlace(k, j) \in Offsets
<1>1. Chain[k] \in BlockRecords /\ k \in Nat \ {0} /\ k <= Len(Chain)
  BY ElementOf, ChainAssumption
<1>2. Chain[k].hash \in Blocks /\ Chain[k].txs \in Seq(TxRecords)
  BY <1>1 DEF BlockRecords
<1>3. Len(Chain[k].txs) \in Nat
  BY <1>2
<1> QED
  BY <1>1, <1>2, <1>3, ChainAssumption

\* What the assumption says of a place in the chain.
LEMMA PlaceFacts ==
  ASSUME NEW p \in TxPlaces
  PROVE  /\ p[1] \in Nat \ {0} /\ p[2] \in Nat \ {0}
         /\ p = <<p[1], p[2]>> /\ p \in Offsets
         /\ p[1] \in DOMAIN Chain /\ p[2] \in DOMAIN Chain[p[1]].txs
         /\ p[2] <= Len(Chain[p[1]].txs)
         /\ TxAt(p).tx \in Txs
<1>1. /\ p \in Offsets
      /\ p[1] \in DOMAIN Chain /\ p[2] \in DOMAIN Chain[p[1]].txs
  BY DEF TxPlaces
<1>2. p \in Nat \X Nat
  BY <1>1, ChainAssumption
<1>3. p = <<p[1], p[2]>>
  BY <1>2
<1>4. p[1] \in Nat \ {0} /\ Chain[p[1]].txs \in Seq(TxRecords)
  BY <1>1, BlockFacts
<1>5. /\ TxAt(p) \in TxRecords
      /\ p[2] \in Nat \ {0} /\ p[2] <= Len(Chain[p[1]].txs)
  BY <1>1, <1>4, ElementOf DEF TxAt
<1>6. TxAt(p).tx \in Txs
  BY <1>5 DEF TxRecords
<1> QED
  BY <1>1, <1>3, <1>4, <1>5, <1>6

\* The block and the transaction that the walk is at.
LEMMA CursorFacts ==
  ASSUME WalkInv, phase = "txs", tx <= Len(Chain[blk].txs)
  PROVE  /\ <<blk, tx>> \in TxPlaces
         /\ TxAt(<<blk, tx>>) = Chain[blk].txs[tx]
         /\ Chain[blk].txs[tx].tx \in Txs
         /\ Chain[blk].txs[tx].ins \in Seq(Hashes \X Nat)
<1>1. blk \in DOMAIN Chain /\ tx \in Nat \ {0}
  BY DEF WalkInv
<1>2. Chain[blk].txs \in Seq(TxRecords)
  BY <1>1, BlockFacts
<1>3. tx \in DOMAIN Chain[blk].txs
  BY <1>1, <1>2
<1>4. <<blk, tx>> \in Offsets
  BY <1>1, <1>3, BlockFacts DEF TxPlace
<1>5. <<blk, tx>> \in TxPlaces
  BY <1>1, <1>3, <1>4 DEF TxPlaces
<1>6. Chain[blk].txs[tx] \in TxRecords
  BY <1>2, <1>3, ElementOf
<1> QED
  BY <1>5, <1>6 DEF TxAt, TxRecords

\* An input spends an output of a transaction that the walk has passed.
LEMMA InputIsMark ==
  ASSUME WalkInv, Input
  PROVE  /\ [Next]_vars /\ fresh' = fresh
         /\ phase' = phase /\ blk' = blk /\ tx' = tx /\ in' = in + 1
<1> DEFINE t == Chain[blk].txs[tx]
           h == t.ins[in][1]
           i == t.ins[in][2]
           p == <<blk, tx>>
<1>1. /\ phase = "txs" /\ tx <= Len(Chain[blk].txs) /\ in <= Len(t.ins)
      /\ tx = 1 => UNCHANGED vars
      /\ tx # 1 => SpentMark(h, i, TxPlace(blk, tx))
      /\ phase' = phase /\ blk' = blk /\ tx' = tx /\ in' = in + 1
  BY DEF Input
<1>2. p \in TxPlaces /\ TxAt(p) = t /\ t.ins \in Seq(Hashes \X Nat)
  BY <1>1, CursorFacts
<1>3. in \in DOMAIN t.ins
  BY <1>1, <1>2 DEF WalkInv
<1>4. CASE tx = 1
  BY <1>1, <1>4 DEF vars
<1>5. CASE tx # 1
  <2>1. /\ h \in Txs /\ i \in Outputs(h)
        /\ \E q \in TxPlaces : Before(q, p) /\ TxAt(q).tx = h
    BY <1>2, <1>3, <1>5, ChainAssumption DEF ValidChain
  <2>2. h \in fresh
    BY <1>1, <2>1 DEF WalkInv, Recorded
  <2>3. TxPlace(blk, tx) \in Offsets
    BY <1>2, PlaceFacts DEF TxPlace
  <2>4. SpentMark(h, i, TxPlace(blk, tx))
    BY <1>1, <1>5
  <2>5. fresh' = fresh
    BY <2>4 DEF SpentMark, MarkRejected, MarkFirst, MarkAgain
  <2>6. Next
    BY <2>1, <2>2, <2>3, <2>4 DEF Next
  <2> QED
    BY <1>1, <2>5, <2>6
<1> QED
  BY <1>4, <1>5

\* A transaction is recorded at its place.
LEMMA TxEntryIsRecord ==
  ASSUME WalkInv, TxEntry
  PROVE  /\ Next /\ fresh' = fresh \cup {Chain[blk].txs[tx].tx}
         /\ phase' = phase /\ blk' = blk /\ tx' = tx + 1 /\ in' = 1
         /\ phase = "txs" /\ <<blk, tx>> \in TxPlaces
<1> DEFINE t == Chain[blk].txs[tx]
<1>1. /\ phase = "txs" /\ tx <= Len(Chain[blk].txs)
      /\ AddTx(t.tx, TxPlace(blk, tx))
      /\ phase' = phase /\ blk' = blk /\ tx' = tx + 1 /\ in' = 1
  BY DEF TxEntry
<1>2. <<blk, tx>> \in TxPlaces /\ t.tx \in Txs
  BY <1>1, CursorFacts
<1>3. TxPlace(blk, tx) \in Offsets
  BY <1>2, PlaceFacts DEF TxPlace
<1>4. Next
  BY <1>1, <1>2, <1>3 DEF Next, Recording
<1> QED
  BY <1>1, <1>2, <1>4 DEF AddTx

\* A block is recorded at its place.
LEMMA BlockEntryIsRecord ==
  ASSUME WalkInv, BlockEntry
  PROVE  /\ Next /\ fresh' = fresh
         /\ phase' = "txs" /\ blk' = blk /\ tx' = 1 /\ in' = 1
         /\ phase = "block" /\ blk \in DOMAIN Chain
<1>1. /\ phase = "block" /\ blk <= Len(Chain)
      /\ AddBlock(Chain[blk].hash, BlockPlace(blk))
      /\ phase' = "txs" /\ blk' = blk /\ tx' = 1 /\ in' = 1
  BY DEF BlockEntry
<1>2. blk \in DOMAIN Chain
  BY <1>1, ChainAssumption DEF WalkInv
<1>3. Chain[blk].hash \in Blocks /\ BlockPlace(blk) \in Offsets
  BY <1>2, BlockFacts
<1>4. Next
  BY <1>1, <1>3 DEF Next, Recording
<1> QED
  BY <1>1, <1>2, <1>4 DEF AddBlock

\* Every step of the walk, of its caller and of its end is one that the
\* discipline allows.
LEMMA StepAllowed ==
  ASSUME WalkInv, [RegenNext]_rvars
  PROVE  [Next]_vars
<1>1. CASE UNCHANGED rvars
  BY <1>1 DEF rvars
<1>2. CASE RegenStart
  BY <1>2 DEF RegenStart
<1>3. CASE Walk
  BY <1>3, BlockEntryIsRecord, InputIsMark, TxEntryIsRecord
     DEF Walk, BlockDone, RegenDone
<1>4. CASE Caller
  BY <1>4 DEF Caller, Next, Lifecycle
<1>5. CASE Death
  BY <1>5 DEF Death, Next, Lifecycle
<1> QED
  BY <1>1, <1>2, <1>3, <1>4, <1>5 DEF RegenNext

\* A step of the walk passes at most one transaction, and records it.
LEMMA StepInv ==
  ASSUME WalkInv, [RegenNext]_rvars
  PROVE  WalkInv'
<1>1. CASE UNCHANGED rvars
  BY <1>1 DEF rvars, vars, cursor, WalkInv, Recorded, Before
<1>2. CASE RegenStart
  <2>1. phase' = "block" /\ blk' = 1 /\ tx' = 1 /\ in' = 1
    BY <1>2 DEF RegenStart
  <2>2. ASSUME NEW p \in TxPlaces
        PROVE  ~Before(p, <<1, 1>>)
    BY PlaceFacts DEF Before
  <2> QED
    BY <2>1, <2>2 DEF WalkInv, Recorded
<1>3. CASE BlockEntry
  <2>1. /\ fresh' = fresh /\ phase' = "txs" /\ blk' = blk /\ tx' = 1 /\ in' = 1
        /\ phase = "block" /\ blk \in DOMAIN Chain
    BY <1>3, BlockEntryIsRecord
  <2> QED
    BY <2>1 DEF WalkInv, Recorded
<1>4. CASE Input
  <2>1. /\ fresh' = fresh
        /\ phase' = phase /\ blk' = blk /\ tx' = tx /\ in' = in + 1
    BY <1>4, InputIsMark
  <2> QED
    BY <2>1 DEF WalkInv, Recorded
<1>5. CASE TxEntry
  <2>1. /\ fresh' = fresh \cup {Chain[blk].txs[tx].tx}
        /\ phase' = phase /\ blk' = blk /\ tx' = tx + 1 /\ in' = 1
        /\ phase = "txs"
    BY <1>5, TxEntryIsRecord
  <2>2. ASSUME NEW p \in TxPlaces, Before(p, <<blk, tx + 1>>)
        PROVE  TxAt(p).tx \in fresh'
    <3>1. CASE Before(p, <<blk, tx>>)
      BY <2>1, <3>1 DEF WalkInv, Recorded
    <3>2. CASE ~Before(p, <<blk, tx>>)
      <4>1. p[1] = blk /\ p[2] = tx
        BY <2>2, <3>2, PlaceFacts DEF Before, WalkInv
      <4>2. TxAt(p).tx = Chain[blk].txs[tx].tx
        BY <4>1 DEF TxAt
      <4> QED
        BY <2>1, <4>2
    <3> QED
      BY <3>1, <3>2
  <2> QED
    BY <2>1, <2>2 DEF WalkInv, Recorded
<1>6. CASE BlockDone
  <2>1. /\ phase = "txs" /\ tx > Len(Chain[blk].txs)
        /\ phase' = "block" /\ blk' = blk + 1 /\ tx' = 1 /\ in' = 1
        /\ fresh' = fresh
    BY <1>6 DEF BlockDone, vars
  <2>2. ASSUME NEW p \in TxPlaces, Before(p, <<blk + 1, 1>>)
        PROVE  Before(p, <<blk, tx>>)
    <3>1. /\ p[1] \in Nat /\ p[2] \in Nat \ {0} /\ blk \in Nat /\ tx \in Nat
          /\ p[2] <= Len(Chain[p[1]].txs)
      BY PlaceFacts DEF WalkInv
    <3>2. p[1] < blk + 1
      BY <2>2, <3>1 DEF Before
    <3>3. CASE p[1] = blk
      <4>1. Len(Chain[blk].txs) \in Nat
        BY <2>1, BlockFacts DEF WalkInv
      <4> QED
        BY <2>1, <3>1, <3>3, <4>1 DEF Before
    <3>4. CASE p[1] < blk
      BY <3>4 DEF Before
    <3> QED
      BY <3>1, <3>2, <3>3, <3>4
  <2> QED
    BY <2>1, <2>2 DEF WalkInv, Recorded
<1>7. CASE RegenDone
  BY <1>7 DEF RegenDone, WalkInv
<1>8. CASE Caller
  BY <1>8 DEF Caller, WalkInv
<1>9. CASE Death
  BY <1>9 DEF Death, WalkInv
<1> QED
  BY <1>1, <1>2, <1>3, <1>4, <1>5, <1>6, <1>7, <1>8, <1>9 DEF RegenNext, Walk

\* bzing_index_regen over a valid chain only ever spends outputs that exist of
\* transactions it has recorded, even over an index that another process left
\* behind, interrupted at any point and started over.
THEOREM DisciplineKept == RegenSpec => KeepsDiscipline
<1>1. RegenInit => Init /\ WalkInv
  BY DEF RegenInit, WalkInv
<1>2. WalkInv /\ [RegenNext]_rvars => WalkInv'
  BY StepInv
<1>3. WalkInv /\ [RegenNext]_rvars => [Next]_vars
  BY StepAllowed
<1> QED
  BY <1>1, <1>2, <1>3, PTL DEF RegenSpec, KeepsDiscipline, Spec

\* So no walk over a valid chain writes outside the spent map, as long as no
\* transaction has more outputs than the first chunk has slots.
THEOREM WalkStaysInside == OutputsFit => (RegenSpec => []NoOverrun)
BY DisciplineKept, NoOverrunProved, PTL DEF KeepsDiscipline

\* And what a walk leaves behind is a spend ledger.
THEOREM WalkKeepsLedger == OutputsFit => (RegenSpec => LedgerSpec)
BY DisciplineKept, LedgerImplemented, PTL DEF KeepsDiscipline

-----------------------------------------------------------------------------
(* The walk leaves exactly what the chain says: the proof of WalkExact.      *)

\* p is the last of the places in S.
Latest(S, p) == p \in S /\ \A q \in S : q # p => Before(q, p)

\* The places that have spent output i of t since t was recorded at l.
SpendsSince(t, i, l) ==
  {p \in TxPlaces : /\ p[2] # 1
                    /\ \E n \in DOMAIN TxAt(p).ins :
                         TxAt(p).ins[n] = <<t, i>> /\ Consumed(p, n)
                    /\ Before(l, p)}

\* What the handle says of t is what the walk has passed: where t was recorded
\* last, and where each output was spent since.
ExactFor(t) ==
  /\ t \in fresh
  /\ Latest(RecordsOf(t), index[t].offset)
  /\ \A i \in Outputs(t) :
       LET spends == SpendsSince(t, i, index[t].offset)
       IN IF spends = {} THEN Spenders(t)[i] = Absent
          ELSE Latest(spends, Spenders(t)[i])

\* The inductive form of WalkExact: that of a walk which has come to its end and of
\* one whose process is not there any more (there is none) included.
ExactInv == phase # "idle" => \A t \in Txs : RecordsOf(t) # {} => ExactFor(t)

-----------------------------------------------------------------------------
(* The order of places.                                                    *)

\* Of two places one comes first.
LEMMA PlaceOrder ==
  ASSUME NEW p \in TxPlaces, NEW q \in TxPlaces
  PROVE  /\ ~(Before(p, q) /\ Before(q, p)) /\ ~Before(p, p)
         /\ p # q => Before(p, q) \/ Before(q, p)
<1>1. /\ p[1] \in Nat /\ p[2] \in Nat /\ p = <<p[1], p[2]>>
      /\ q[1] \in Nat /\ q[2] \in Nat /\ q = <<q[1], q[2]>>
  BY PlaceFacts
<1>2. p # q => p[1] # q[1] \/ p[2] # q[2]
  BY <1>1
<1> QED
  BY <1>1, <1>2 DEF Before

\* The last place of a set is the one that LastOf names.
LEMMA LatestIsLast ==
  ASSUME NEW S \in SUBSET TxPlaces, NEW p, Latest(S, p)
  PROVE  LastOf(S) = p
<1>1. ASSUME NEW q \in S, \A r \in S : r # q => Before(r, q)
      PROVE  q = p
  BY <1>1, PlaceOrder DEF Latest
<1> QED
  BY <1>1 DEF LastOf, Latest

\* A place that comes after all of a set is the last when it is added.
LEMMA LatestAdded ==
  ASSUME NEW S, NEW p, \A q \in S : q # p => Before(q, p)
  PROVE  Latest(S \cup {p}, p)
BY DEF Latest

\* Nothing that the walk has consumed comes after the place it is at.
LEMMA ConsumedBefore ==
  ASSUME NEW p, NEW n, Consumed(p, n), p # <<blk, tx>>
  PROVE  Before(p, <<blk, tx>>)
BY DEF Consumed, Recorded

-----------------------------------------------------------------------------
(* The steps of the walk.                                                  *)

\* A step that passes nothing and changes nothing that the handle says.
LEMMA SameExact ==
  ASSUME ExactInv, phase # "idle", fresh' = fresh,
         \A t \in fresh : index'[t].offset = index[t].offset /\ Spenders(t)' = Spenders(t),
         \A p \in TxPlaces : Recorded(p)' <=> Recorded(p),
         \A p \in TxPlaces : p[2] # 1 =>
           \A n \in DOMAIN TxAt(p).ins : Consumed(p, n)' <=> Consumed(p, n)
  PROVE  ExactInv'
<1> SUFFICES ASSUME NEW t \in Txs, RecordsOf(t)' # {}
             PROVE  ExactFor(t)'
  BY DEF ExactInv
<1>1. RecordsOf(t)' = RecordsOf(t)
  BY DEF RecordsOf
<1>2. ExactFor(t)
  BY <1>1 DEF ExactInv
<1>3. t \in fresh' /\ index'[t].offset = index[t].offset /\ Spenders(t)' = Spenders(t)
  BY <1>2 DEF ExactFor
<1>4. \A i : SpendsSince(t, i, index[t].offset)' = SpendsSince(t, i, index[t].offset)
  BY <1>3 DEF SpendsSince
<1> QED
  BY <1>1, <1>2, <1>3, <1>4 DEF ExactFor, Latest

\* A step that leaves the handle alone changes nothing that the handle says.
LEMMA SameHandle ==
  ASSUME UNCHANGED vars
  PROVE  /\ fresh' = fresh
         /\ \A t \in fresh : index'[t].offset = index[t].offset /\ Spenders(t)' = Spenders(t)
BY DEF vars, spentMap, Spenders, Placed, Slot

\* The entry of a block is not that of a transaction.
LEMMA BlockEntryExact ==
  ASSUME HandleInv, WalkInv, ExactInv, BlockEntry
  PROVE  ExactInv'
<1>1. /\ fresh' = fresh /\ phase' = "txs" /\ blk' = blk /\ tx' = 1 /\ in' = 1
      /\ phase = "block" /\ blk \in DOMAIN Chain /\ tx = 1
  BY BlockEntryIsRecord DEF WalkInv
<1>2. AddBlock(Chain[blk].hash, BlockPlace(blk)) /\ Chain[blk].hash \in Blocks
  BY <1>1, BlockFacts DEF BlockEntry
<1>3. \A t \in fresh : index'[t] = index[t]
  <2>1. \A t \in fresh : t \in Hashes /\ t # Chain[blk].hash
    BY <1>2, FreshFacts, IndexAssumption
  <2> QED
    BY <1>2, <2>1 DEF AddBlock, InvSet, HandleInv, TypeOK
<1>4. \A t \in fresh : Spenders(t)' = Spenders(t)
  BY <1>1, <1>2, <1>3 DEF AddBlock, spentMap, Spenders, Placed, Slot
<1>5. \A p \in TxPlaces : Recorded(p)' <=> Recorded(p)
  BY <1>1 DEF Recorded
<1>6. \A p \in TxPlaces : p[2] # 1 =>
        \A n \in DOMAIN TxAt(p).ins : Consumed(p, n)' <=> Consumed(p, n)
  BY <1>1, <1>5 DEF Consumed
<1> QED
  BY <1>1, <1>3, <1>4, <1>5, <1>6, SameExact

\* The end of a block passes nothing: its transactions have been recorded.
LEMMA BlockDoneExact ==
  ASSUME WalkInv, ExactInv, BlockDone
  PROVE  ExactInv'
<1>1. /\ phase = "txs" /\ tx > Len(Chain[blk].txs) /\ UNCHANGED vars
      /\ blk' = blk + 1 /\ tx' = 1 /\ in' = 1 /\ phase' = "block"
      /\ blk \in Nat /\ tx \in Nat /\ Len(Chain[blk].txs) \in Nat
  BY BlockFacts DEF BlockDone, WalkInv
<1>2. ASSUME NEW p \in TxPlaces
      PROVE  /\ p # <<blk, tx>> /\ (p # <<blk + 1, 1>> \/ p[2] = 1)
             /\ Before(p, <<blk + 1, 1>>) <=> Before(p, <<blk, tx>>)
  <2>1. /\ p[1] \in Nat /\ p[2] \in Nat \ {0} /\ p[2] <= Len(Chain[p[1]].txs)
    BY PlaceFacts
  <2>2. p[1] = blk => p[2] < tx
    BY <1>1, <2>1
  <2> QED
    BY <1>1, <2>1, <2>2 DEF Before
<1>3. \A p \in TxPlaces : Recorded(p)' <=> Recorded(p)
  BY <1>1, <1>2 DEF Recorded
<1>4. \A p \in TxPlaces : p[2] # 1 =>
        \A n \in DOMAIN TxAt(p).ins : Consumed(p, n)' <=> Consumed(p, n)
  BY <1>1, <1>2, <1>3 DEF Consumed
<1> QED
  BY <1>1, <1>3, <1>4, SameHandle, SameExact

\* An input that is consumed is the last to spend its output.
LEMMA InputExact ==
  ASSUME OutputsFit, HandleInv, WalkInv, ExactInv, Input, tx # 1
  PROVE  ExactInv'
<1>p. PICK p : p = <<blk, tx>>
  OBVIOUS
<1>h. PICK h, o : h = TxAt(p).ins[in][1] /\ o = TxAt(p).ins[in][2]
  OBVIOUS
<1>1. /\ phase = "txs" /\ tx <= Len(Chain[blk].txs)
      /\ p \in TxPlaces /\ TxAt(p) = Chain[blk].txs[tx]
      /\ TxAt(p).ins \in Seq(Hashes \X Nat) /\ in <= Len(TxAt(p).ins)
      /\ SpentMark(h, o, TxPlace(blk, tx))
      /\ phase' = phase /\ blk' = blk /\ tx' = tx /\ in' = in + 1
      /\ in \in Nat \ {0}
  <2>1. phase = "txs" /\ tx <= Len(Chain[blk].txs)
    BY DEF Input
  <2> QED
    BY <1>p, <1>h, <2>1, CursorFacts DEF Input, WalkInv
<1>2. in \in DOMAIN TxAt(p).ins /\ p \in Offsets /\ TxPlace(blk, tx) = p /\ p[2] # 1
  BY <1>p, <1>1, PlaceFacts DEF TxPlace
<1>3. /\ h \in Txs /\ o \in Outputs(h) /\ TxAt(p).ins[in] = <<h, o>>
      /\ \E q \in TxPlaces : Before(q, p) /\ TxAt(q).tx = h
  <2>1. TxAt(p).ins[in] \in Hashes \X Nat
    BY <1>1, <1>2, ElementOf
  <2>2. TxAt(p).ins[in] = <<h, o>>
    BY <1>h, <2>1
  <2> QED
    BY <1>h, <1>1, <1>2, <2>2, ChainAssumption DEF ValidChain
<1>4. h \in fresh /\ RecordsOf(h) # {}
  BY <1>p, <1>1, <1>3 DEF WalkInv, Recorded, RecordsOf
<1>5. /\ fresh' = fresh
      /\ \A u \in fresh : index'[u].offset = index[u].offset
      /\ Spenders(h)' = [Spenders(h) EXCEPT ![o] = p]
      /\ \A u \in fresh : u # h => Spenders(u)' = Spenders(u)
  <2>1. ~MarkRejected(h)
    <3>1. NOut[h] \in 0 .. UMask /\ NOut[h] # 0
      BY <1>3, <1>4, FreshFacts DEF Outputs
    <3>2. Found(h) = {index[h]} /\ (Placed(h) \/ index[h].spent = UnspentWord(NOut[h]))
      BY <1>4, FreshFacts
    <3>3. CASE Placed(h)
      <4>1. IsPlaced(index[h].spent) /\ index[h].spent.pos \in Nat
        BY <1>4, <3>3, FreshFacts DEF Placed
      <4>2. ~IsBlock(index[h].spent) /\ ~IsUnspent(index[h].spent)
        BY <4>1, NumberFacts DEF IsPlaced, IsUnspent
      <4> QED
        BY <3>2, <4>2 DEF MarkRejected
    <3>4. CASE index[h].spent = UnspentWord(NOut[h])
      BY <3>1, <3>2, <3>4, UnspentWordFacts DEF MarkRejected, IsUnspent
    <3> QED
      BY <3>2, <3>3, <3>4
  <2>2. MarkFirst(h, o, p) \/ MarkAgain(h, o, p)
    BY <1>1, <1>2, <2>1 DEF SpentMark
  <2> QED
    BY <1>2, <1>3, <1>4, <2>2, MarkSlots
<1>6. \A q \in TxPlaces : Recorded(q)' <=> Recorded(q)
  BY <1>1 DEF Recorded
<1>7. \A q \in TxPlaces : \A n \in DOMAIN TxAt(q).ins :
        Consumed(q, n)' <=> Consumed(q, n) \/ (q = p /\ n = in)
  <2>1. ASSUME NEW q \in TxPlaces, NEW n \in DOMAIN TxAt(q).ins, q = p
        PROVE  n < in + 1 <=> n < in \/ n = in
    <3>1. n \in Nat
      BY <1>1, <2>1
    <3> QED
      BY <1>1, <3>1
  <2> QED
    BY <1>p, <1>1, <1>6, <2>1 DEF Consumed
<1>8. ASSUME NEW t \in Txs, RecordsOf(t)' # {}
      PROVE  ExactFor(t)'
  <2>1. RecordsOf(t)' = RecordsOf(t)
    BY <1>6 DEF RecordsOf
  <2>2. ExactFor(t)
    BY <1>1, <1>8, <2>1 DEF ExactInv
  <2>3. t \in fresh' /\ index'[t].offset = index[t].offset
    BY <1>5, <2>2 DEF ExactFor
  <2>4. Latest(RecordsOf(t), index[t].offset)' 
    BY <2>1, <2>2, <2>3 DEF ExactFor, Latest
  <2> DEFINE l == index[t].offset
  <2>5. ASSUME NEW i \in Outputs(t), ~(t = h /\ i = o)
        PROVE  SpendsSince(t, i, l)' = SpendsSince(t, i, l) /\ Spenders(t)'[i] = Spenders(t)[i]
    <3>1. \A q \in TxPlaces : \A n \in DOMAIN TxAt(q).ins :
            TxAt(q).ins[n] = <<t, i>> => (Consumed(q, n)' <=> Consumed(q, n))
      BY <1>3, <1>7, <2>5
    <3>2. SpendsSince(t, i, l)' = SpendsSince(t, i, l)
      BY <2>3, <3>1 DEF SpendsSince
    <3>3. Spenders(t)'[i] = Spenders(t)[i]
      <4>1. CASE t # h
        BY <1>5, <2>3, <4>1
      <4>2. CASE t = h /\ i # o
        <5>1. DOMAIN Spenders(h) = Outputs(h)
          BY DEF Spenders
        <5> QED
          BY <1>5, <2>5, <4>2, <5>1
      <4> QED
        BY <2>5, <4>1, <4>2
    <3> QED
      BY <3>2, <3>3
  <2>6. ASSUME t = h
        PROVE  SpendsSince(t, o, l)' = SpendsSince(t, o, l) \cup {p} /\ Spenders(t)'[o] = p
    <3>1. l \in RecordsOf(t)
      BY <2>2 DEF ExactFor, Latest
    <3>2. Before(l, p)
      BY <1>p, <3>1 DEF RecordsOf, Recorded
    <3>3. \A q \in TxPlaces :
            (\E n \in DOMAIN TxAt(q).ins : TxAt(q).ins[n] = <<t, o>> /\ Consumed(q, n)')
            <=> (\E n \in DOMAIN TxAt(q).ins : TxAt(q).ins[n] = <<t, o>> /\ Consumed(q, n)) \/ q = p
      BY <1>2, <1>3, <1>7, <2>6
    <3>4. SpendsSince(t, o, l)' = SpendsSince(t, o, l) \cup {p}
      BY <1>1, <1>2, <2>3, <3>2, <3>3 DEF SpendsSince
    <3>5. Spenders(t)'[o] = p
      BY <1>3, <1>5, <2>6 DEF Spenders
    <3> QED
      BY <3>4, <3>5
  <2>7. ASSUME NEW i \in Outputs(t)
        PROVE  IF SpendsSince(t, i, l)' = {} THEN Spenders(t)'[i] = Absent
               ELSE Latest(SpendsSince(t, i, l)', Spenders(t)'[i])
    <3>1. CASE t = h /\ i = o
      <4>1. \A q \in SpendsSince(t, o, l) : q # p => Before(q, p)
        BY <1>p, ConsumedBefore DEF SpendsSince
      <4>2. Latest(SpendsSince(t, o, l) \cup {p}, p)
        BY <4>1, LatestAdded
      <4>3. SpendsSince(t, o, l)' # {}
        BY <2>6, <3>1
      <4> QED
        BY <2>6, <3>1, <4>2, <4>3
    <3>2. CASE ~(t = h /\ i = o)
      BY <2>2, <2>5, <3>2 DEF ExactFor
    <3> QED
      BY <3>1, <3>2
  <2> QED
    BY <2>3, <2>4, <2>7 DEF ExactFor, Latest
<1> QED
  BY <1>8 DEF ExactInv

\* A transaction that is recorded is there for the last time so far, with nothing
\* spent since, whatever its entry was before.
LEMMA TxEntryExact ==
  ASSUME HandleInv, WalkInv, ExactInv, TxEntry
  PROVE  ExactInv'
<1>p. PICK p : p = <<blk, tx>>
  OBVIOUS
<1>h. PICK h : h = TxAt(p).tx
  OBVIOUS
<1>1. /\ phase = "txs" /\ p \in TxPlaces /\ TxAt(p) = Chain[blk].txs[tx]
      /\ h \in Txs /\ TxAt(p).ins \in Seq(Hashes \X Nat) /\ in > Len(TxAt(p).ins)
      /\ AddTx(h, TxPlace(blk, tx))
      /\ phase' = phase /\ blk' = blk /\ tx' = tx + 1 /\ in' = 1
      /\ in \in Nat /\ tx \in Nat /\ blk \in Nat
  <2>1. phase = "txs" /\ tx <= Len(Chain[blk].txs)
    BY DEF TxEntry
  <2> QED
    BY <1>p, <1>h, <2>1, CursorFacts DEF TxEntry, WalkInv
<1>2. p[1] = blk /\ p[2] = tx /\ TxPlace(blk, tx) = p /\ NOut[h] \in 0 .. UMask /\ h \in Hashes
  BY <1>p, <1>1, IndexAssumption DEF TxPlace, Hashes
<1>3. /\ index' = [index EXCEPT ![h] = [offset |-> p, spent |-> UnspentWord(NOut[h])]]
      /\ fresh' = fresh \cup {h} /\ spent_data' = spent_data
  BY <1>1, <1>2 DEF AddTx, InvSet, spentMap
<1>4. /\ index'[h].offset = p /\ ~Placed(h)'
      /\ \A u \in fresh : u # h => index'[u] = index[u]
  <2>1. /\ index'[h] = [offset |-> p, spent |-> UnspentWord(NOut[h])]
        /\ \A u \in fresh : u # h => index'[u] = index[u]
    BY <1>2, <1>3, FreshFacts DEF HandleInv, TypeOK
  <2> QED
    BY <1>2, <2>1, UnspentWordFacts DEF Placed
<1>5. \A q \in TxPlaces : Recorded(q)' <=> Recorded(q) \/ q = p
  <2> SUFFICES ASSUME NEW q \in TxPlaces
               PROVE  Before(q, <<blk, tx + 1>>) <=> Before(q, p) \/ q = p
    BY <1>p, <1>1 DEF Recorded
  <2>1. q[1] \in Nat /\ q[2] \in Nat /\ q = <<q[1], q[2]>>
    BY PlaceFacts
  <2> QED
    BY <1>p, <1>1, <2>1 DEF Before
<1>6. \A q \in TxPlaces : \A n \in DOMAIN TxAt(q).ins : Consumed(q, n)' <=> Consumed(q, n)
  <2> SUFFICES ASSUME NEW q \in TxPlaces, NEW n \in DOMAIN TxAt(q).ins
               PROVE  Consumed(q, n)' <=> Consumed(q, n)
    OBVIOUS
  <2>1. CASE q = p
    <3>1. n \in Nat /\ n <= Len(TxAt(p).ins) /\ Len(TxAt(p).ins) \in Nat
      BY <1>1, <2>1, ElementOf
    <3>2. n < in
      BY <1>1, <3>1
    <3> QED
      BY <1>p, <1>5, <2>1, <3>2 DEF Consumed
  <2>2. CASE q # p
    <3>1. q # <<blk', tx'>> \/ ~(n < in')
      <4>1. CASE q = <<blk, tx + 1>>
        <5>1. TxAt(q).ins \in Seq(Hashes \X Nat)
          <6>1. TxAt(q) \in TxRecords
            BY PlaceFacts, BlockFacts, ElementOf DEF TxAt
          <6> QED
            BY <6>1 DEF TxRecords
        <5>2. n \in Nat \ {0}
          BY <5>1, ElementOf
        <5> QED
          BY <1>1, <5>2
      <4>2. CASE q # <<blk, tx + 1>>
        BY <1>1, <4>2
      <4> QED
        BY <4>1, <4>2
    <3> QED
      BY <1>p, <1>5, <2>2, <3>1 DEF Consumed
  <2> QED
    BY <2>1, <2>2
<1>7. ASSUME NEW t \in Txs, RecordsOf(t)' # {}, t # h
      PROVE  ExactFor(t)'
  <2>1. RecordsOf(t)' = RecordsOf(t)
    BY <1>h, <1>5, <1>7 DEF RecordsOf
  <2>2. ExactFor(t)
    BY <1>1, <1>7, <2>1 DEF ExactInv
  <2>3. t \in fresh /\ t \in fresh' /\ index'[t] = index[t]
    BY <1>3, <1>4, <1>7, <2>2 DEF ExactFor
  <2>4. Spenders(t)' = Spenders(t)
    BY <1>3, <2>3 DEF Spenders, Placed, Slot
  <2>5. \A i : SpendsSince(t, i, index[t].offset)' = SpendsSince(t, i, index[t].offset)
    BY <1>6, <2>3 DEF SpendsSince
  <2> QED
    BY <2>1, <2>2, <2>3, <2>4, <2>5 DEF ExactFor, Latest
<1>8. ExactFor(h)'
  <2>1. RecordsOf(h)' = RecordsOf(h) \cup {p}
    BY <1>h, <1>1, <1>5 DEF RecordsOf
  <2>2. Latest(RecordsOf(h)', p)
    <3>1. \A q \in RecordsOf(h) : q # p => Before(q, p)
      BY <1>p DEF RecordsOf, Recorded
    <3> QED
      BY <2>1, <3>1, LatestAdded
  <2>3. \A i : SpendsSince(h, i, index[h].offset)' = {}
    <3> SUFFICES ASSUME NEW i, NEW q \in SpendsSince(h, i, index[h].offset)'
                 PROVE  FALSE
      OBVIOUS
    <3>1. q \in TxPlaces /\ Before(p, q) /\ \E n \in DOMAIN TxAt(q).ins : Consumed(q, n)
      BY <1>4, <1>6 DEF SpendsSince
    <3>2. q = p \/ Before(q, p)
      BY <1>p, <3>1, ConsumedBefore
    <3> QED
      BY <1>1, <3>1, <3>2, PlaceOrder
  <2>4. \A i \in Outputs(h) : Spenders(h)'[i] = Absent
    BY <1>4 DEF Spenders
  <2> QED
    BY <1>3, <1>4, <2>2, <2>3, <2>4 DEF ExactFor, Latest
<1> QED
  BY <1>7, <1>8 DEF ExactInv

\* Every step of the walk keeps what the handle says true.
LEMMA StepExact ==
  ASSUME OutputsFit, HandleInv, WalkInv, ExactInv, [RegenNext]_rvars
  PROVE  ExactInv'
<1>1. CASE UNCHANGED rvars
  <2>1. phase' = phase /\ blk' = blk /\ tx' = tx /\ in' = in /\ UNCHANGED vars
    BY <1>1 DEF rvars, cursor
  <2>2. CASE phase = "idle"
    BY <2>1, <2>2 DEF ExactInv
  <2>3. CASE phase # "idle"
    BY <2>1, <2>3, SameHandle, SameExact DEF Recorded, Consumed
  <2> QED
    BY <2>2, <2>3
<1>2. CASE RegenStart
  <2>1. blk' = 1 /\ tx' = 1
    BY <1>2 DEF RegenStart
  <2>2. \A p \in TxPlaces : ~Before(p, <<1, 1>>)
    BY PlaceFacts DEF Before
  <2>3. \A t : RecordsOf(t)' = {}
    BY <2>1, <2>2 DEF RecordsOf, Recorded
  <2> QED
    BY <2>3 DEF ExactInv
<1>3. CASE Input
  <2>1. CASE tx # 1
    BY <1>3, <2>1, InputExact
  <2>2. CASE tx = 1
    <3>1. /\ UNCHANGED vars /\ phase = "txs"
          /\ phase' = phase /\ blk' = blk /\ tx' = tx /\ in' = in + 1
      BY <1>3, <2>2 DEF Input
    <3>2. \A p \in TxPlaces : Recorded(p)' <=> Recorded(p)
      BY <3>1 DEF Recorded
    <3>3. \A p \in TxPlaces : p[2] # 1 => p # <<blk, tx>>
      BY <2>2
    <3>4. \A p \in TxPlaces : p[2] # 1 =>
            \A n \in DOMAIN TxAt(p).ins : Consumed(p, n)' <=> Consumed(p, n)
      BY <3>1, <3>2, <3>3 DEF Consumed
    <3> QED
      BY <3>1, <3>2, <3>4, SameHandle, SameExact
  <2> QED
    BY <2>1, <2>2
<1>4. CASE RegenDone
  <2>1. phase = "block" /\ blk' = blk /\ tx' = tx /\ in' = in /\ UNCHANGED vars
    BY <1>4 DEF RegenDone
  <2> QED
    BY <2>1, SameHandle, SameExact DEF Recorded, Consumed
<1>5. CASE Caller \/ Death
  BY <1>5 DEF Caller, Death, ExactInv
<1> QED
  BY <1>1, <1>2, <1>3, <1>4, <1>5, BlockEntryExact, TxEntryExact, BlockDoneExact
     DEF RegenNext, Walk

\* bzing_index_regen over any valid chain: at every point the handle says of each
\* transaction it has passed where it was recorded last and who spent its outputs
\* since, whatever a process that died, an earlier walk or a reset left behind.
THEOREM WalkExactProved == OutputsFit => (RegenSpec => []WalkExact)
<1> SUFFICES ASSUME OutputsFit
             PROVE  RegenSpec => []WalkExact
  OBVIOUS
<1>1. RegenInit => WalkInv /\ ExactInv
  BY DEF RegenInit, WalkInv, ExactInv
<1>2. WalkInv /\ [RegenNext]_rvars => WalkInv'
  BY StepInv
<1>3. HandleInv /\ WalkInv /\ ExactInv /\ [RegenNext]_rvars => ExactInv'
  BY StepExact
<1>4. RegenSpec => []HandleInv
  BY DisciplineKept, HandleInvariant, PTL DEF KeepsDiscipline
<1>5. HandleInv /\ ExactInv => WalkExact
  <2> SUFFICES ASSUME HandleInv, ExactInv, phase # "idle", NEW t \in Txs, RecordsOf(t) # {}
               PROVE  /\ t \in fresh
                      /\ index[t].offset = LastOf(RecordsOf(t))
                      /\ \A i \in Outputs(t) :
                           IF SpendsOf(t, i) = {}
                           THEN Placed(t) => Slot(t, i) \notin Offsets
                           ELSE Placed(t) /\ Slot(t, i) = LastOf(SpendsOf(t, i))
    BY DEF WalkExact
  <2>1. ExactFor(t)
    BY DEF ExactInv
  <2>2. RecordsOf(t) \in SUBSET TxPlaces
    BY DEF RecordsOf
  <2>3. index[t].offset = LastOf(RecordsOf(t))
    BY <2>1, <2>2, LatestIsLast DEF ExactFor
  <2>4. ASSUME NEW i \in Outputs(t)
        PROVE  IF SpendsOf(t, i) = {}
               THEN Placed(t) => Slot(t, i) \notin Offsets
               ELSE Placed(t) /\ Slot(t, i) = LastOf(SpendsOf(t, i))
    <3>1. SpendsOf(t, i) = SpendsSince(t, i, index[t].offset)
      BY <2>3 DEF SpendsOf, SpendsSince
    <3>2. IF SpendsOf(t, i) = {} THEN Spenders(t)[i] = Absent
          ELSE Latest(SpendsOf(t, i), Spenders(t)[i])
      BY <2>1, <3>1 DEF ExactFor
    <3>3. Spenders(t)[i] = IF Placed(t) /\ Slot(t, i) \in Offsets THEN Slot(t, i) ELSE Absent
      BY DEF Spenders
    <3>4. CASE SpendsOf(t, i) = {}
      BY <3>2, <3>3, <3>4, NumberFacts
    <3>5. CASE SpendsOf(t, i) # {}
      <4>1. SpendsOf(t, i) \in SUBSET TxPlaces
        BY DEF SpendsOf
      <4>2. Spenders(t)[i] = LastOf(SpendsOf(t, i)) /\ Spenders(t)[i] \in TxPlaces
        BY <3>2, <3>5, <4>1, LatestIsLast DEF Latest
      <4>3. Spenders(t)[i] # Absent
        BY <4>2, PlaceFacts, NumberFacts
      <4> QED
        BY <3>3, <3>5, <4>2, <4>3
    <3> QED
      BY <3>4, <3>5
  <2>5. t \in fresh
    BY <2>1 DEF ExactFor
  <2> QED
    BY <2>3, <2>4, <2>5
<1> QED
  BY <1>1, <1>2, <1>3, <1>4, <1>5, PTL DEF RegenSpec
=============================================================================
