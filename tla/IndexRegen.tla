----------------------------- MODULE IndexRegen -----------------------------
(***************************************************************************)
(* bzing_index_regen and bzing_block_add (src/src/bzing.c): the index is   *)
(* built by walking through the blocks of a file, and every call that this *)
(* walk makes to the handle of SpentIndex is a step of its own, so that    *)
(* the process can die between any two of them.  What a file of the index  *)
(* then holds is what the next walk starts over.                           *)
(*                                                                         *)
(* The block file is a chain of blocks; where a block or a transaction     *)
(* starts in it is its place.  The byte formats are left out.              *)
(***************************************************************************)
EXTENDS SpentIndex, Sequences

CONSTANTS
  Chain,      \* the blocks: [hash, txs]; a transaction: [tx, ins]; an input
              \* names an output: <<hash, index>>
  ChainSlots  \* bound: room in the spent map that a walk must find to start

TxRecords == [tx : Txs, ins : Seq(Hashes \X Nat)]
BlockRecords == [hash : Blocks, txs : Seq(TxRecords)]

BlockPlace(k) == <<k, 0>>
TxPlace(k, j) == <<k, j>>

\* The places of the transactions of the chain, and what is there.
TxPlaces ==
  {p \in Offsets : p[1] \in DOMAIN Chain /\ p[2] \in DOMAIN Chain[p[1]].txs}
TxAt(p) == Chain[p[1]].txs[p[2]]

Before(p, q) == p[1] < q[1] \/ (p[1] = q[1] /\ p[2] < q[2])

\* A valid chain: an input names an output that exists of a transaction that
\* comes earlier.  The first transaction of a block, the coinbase, has an
\* input that names nothing.
ValidChain ==
  \A p \in TxPlaces : p[2] # 1 =>
    \A n \in DOMAIN TxAt(p).ins :
      /\ TxAt(p).ins[n][1] \in Txs
      /\ TxAt(p).ins[n][2] \in Outputs(TxAt(p).ins[n][1])
      /\ \E q \in TxPlaces : Before(q, p) /\ TxAt(q).tx = TxAt(p).ins[n][1]

ASSUME ChainAssumption ==
  /\ Chain \in Seq(BlockRecords)
  /\ Offsets \subseteq Nat \X Nat
  /\ \A k \in DOMAIN Chain :
       /\ BlockPlace(k) \in Offsets
       /\ \A j \in DOMAIN Chain[k].txs : TxPlace(k, j) \in Offsets
  /\ ValidChain
  /\ ChainSlots \in Nat

VARIABLES
  phase,  \* "idle" and "done": outside bzing_index_regen; "block": about to
          \* add a block; "txs": in the transactions of a block
  blk,    \* n_blocks: the block it is at
  tx,     \* i + 1: the transaction of the block
  in      \* the input of the transaction

cursor == <<phase, blk, tx, in>>
rvars == <<vars, cursor>>

RegenInit == Init /\ phase = "idle" /\ blk = 1 /\ tx = 1 /\ in = 1

-----------------------------------------------------------------------------
(* The walk.                                                               *)

\* bzing_index_regen is called.
RegenStart ==
  /\ mode = "ready"
  /\ phase \in {"idle", "done"}
  /\ spent_len + ChainSlots <= MaxLen
  /\ phase' = "block"
  /\ blk' = 1 /\ tx' = 1 /\ in' = 1
  /\ UNCHANGED vars

\* bzing_block_add starts with the index entry of the block.
BlockEntry ==
  /\ phase = "block" /\ blk <= Len(Chain)
  /\ AddBlock(Chain[blk].hash, BlockPlace(blk))
  /\ phase' = "txs" /\ tx' = 1 /\ in' = 1
  /\ UNCHANGED blk

\* Mutant: inputs are spent at the place of the block.
InputAtBlock ==
  LET t == Chain[blk].txs[tx]
  IN /\ phase = "txs" /\ tx <= Len(Chain[blk].txs) /\ in <= Len(t.ins)
     /\ IF tx = 1
        THEN UNCHANGED vars
        ELSE SpentMark(t.ins[in][1], t.ins[in][2], BlockPlace(blk))
     /\ in' = in + 1
     /\ UNCHANGED <<phase, blk, tx>>

\* The inputs of a transaction spend outputs, except those of the coinbase.
Input ==
  LET t == Chain[blk].txs[tx]
  IN /\ phase = "txs" /\ tx <= Len(Chain[blk].txs) /\ in <= Len(t.ins)
     /\ IF tx = 1
        THEN UNCHANGED vars
        ELSE SpentMark(t.ins[in][1], t.ins[in][2], TxPlace(blk, tx))
     /\ in' = in + 1
     /\ UNCHANGED <<phase, blk, tx>>

\* Mutant: a transaction that has an entry already is passed over.
TxEntryIfMissing ==
  LET t == Chain[blk].txs[tx]
  IN /\ phase = "txs" /\ tx <= Len(Chain[blk].txs) /\ in > Len(t.ins)
     /\ IF index[t.tx] # Absent
        THEN UNCHANGED vars
        ELSE AddTx(t.tx, TxPlace(blk, tx))
     /\ tx' = tx + 1 /\ in' = 1
     /\ UNCHANGED <<phase, blk>>

\* After its inputs and outputs the transaction gets its index entry.
TxEntry ==
  LET t == Chain[blk].txs[tx]
  IN /\ phase = "txs" /\ tx <= Len(Chain[blk].txs) /\ in > Len(t.ins)
     /\ AddTx(t.tx, TxPlace(blk, tx))
     /\ tx' = tx + 1 /\ in' = 1
     /\ UNCHANGED <<phase, blk>>

\* Mutant: the offset is not moved past the block.
BlockDoneInPlace ==
  /\ phase = "txs" /\ tx > Len(Chain[blk].txs)
  /\ phase' = "block" /\ tx' = 1 /\ in' = 1
  /\ UNCHANGED <<vars, blk>>

\* bzing_block_add returns.  A merkle root that does not match is only printed.
BlockDone ==
  /\ phase = "txs" /\ tx > Len(Chain[blk].txs)
  /\ phase' = "block" /\ blk' = blk + 1 /\ tx' = 1 /\ in' = 1
  /\ UNCHANGED vars

\* The end of the file.
RegenDone ==
  /\ phase = "block" /\ blk > Len(Chain)
  /\ phase' = "done"
  /\ UNCHANGED <<vars, blk, tx, in>>

Walk == BlockEntry \/ Input \/ TxEntry \/ BlockDone \/ RegenDone

-----------------------------------------------------------------------------
\* The caller, between two walks.
Caller ==
  /\ phase \in {"idle", "done"}
  /\ Alloc \/ Free \/ Reset
  /\ phase' = "idle" /\ UNCHANGED <<blk, tx, in>>

\* The process dies, wherever the walk is.
Death == Crash /\ phase' = "idle" /\ UNCHANGED <<blk, tx, in>>

RegenNext == RegenStart \/ Walk \/ Caller \/ Death

\* The walk is a loop in one thread: nothing keeps it from its next step.
RegenSpec == RegenInit /\ [][RegenNext]_rvars /\ WF_rvars(Walk)

-----------------------------------------------------------------------------
(* Properties.                                                             *)

\* What the walk has done so far: it has recorded the transaction at p, or
\* spent input n of that transaction.
Recorded(p) == Before(p, <<blk, tx>>)
Consumed(p, n) == Recorded(p) \/ (p = <<blk, tx>> /\ n < in)

\* The last of a set of places.
LastOf(S) == CHOOSE p \in S : \A q \in S : q # p => Before(q, p)

RecordsOf(t) == {p \in TxPlaces : TxAt(p).tx = t /\ Recorded(p)}

SpendsOf(t, i) ==
  {p \in TxPlaces : /\ p[2] # 1
                    /\ \E n \in DOMAIN TxAt(p).ins :
                         TxAt(p).ins[n] = <<t, i>> /\ Consumed(p, n)
                    /\ Before(LastOf(RecordsOf(t)), p)}

\* At every point of a walk the handle says of each transaction it has passed
\* what the blocks so far say: where it was recorded last, and of each output
\* where it was spent since.  Nothing that a process that died, an earlier
\* walk or a reset left behind shows through, whatever the index then held.
WalkExact ==
  phase # "idle" /\ mode = "ready" =>
    \A t \in Txs : RecordsOf(t) # {} =>
      /\ t \in fresh
      /\ index[t].offset = LastOf(RecordsOf(t))
      /\ \A i \in Outputs(t) :
           IF SpendsOf(t, i) = {}
           THEN Placed(t) => Slot(t, i) \notin Offsets
           ELSE Placed(t) /\ Slot(t, i) = LastOf(SpendsOf(t, i))

\* The walk keeps to the discipline under which the handle is a spend ledger:
\* it only ever spends outputs that exist, of transactions that this handle
\* has recorded and not of ones it finds in an old index (refinement).
KeepsDiscipline == Spec

\* A walk that has started comes to its end, unless the process dies.
WalkEnds == phase \in {"block", "txs"} ~> phase = "done" \/ mode # "ready"
=============================================================================
