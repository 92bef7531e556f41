----------------------------- MODULE BlockFile -----------------------------
(***************************************************************************)
(* What a block file holds, and so what Framing is to find in it: a chain  *)
(* of blocks, put together from the bytes of its parts; the file is these  *)
(* bytes, whole, cut short anywhere or followed by zeros, with which a     *)
(* Bitcoin node fills up the space it allocates ahead.                     *)
(***************************************************************************)
EXTENDS Framing, SequencesExt

CONSTANTS
  Chains,  \* the chains: sequences of blocks; a block: a sequence of
           \* transactions [ins, outs]; an input, an output: its script length
  Widths,  \* the least number of bytes a number is encoded in
  MaxTail  \* bound: the zeros after the last block

Transactions == [ins : Seq(Nat), outs : Seq(Nat)]

\* A file may break off after any of its blocks, so what comes before is a chain.
ASSUME ChainsAssumption ==
  /\ Chains \subseteq Seq(Seq(Transactions))
  /\ \A c \in Chains : \A k \in 0 .. Len(c) : SubSeq(c, 1, k) \in Chains
  /\ Widths \subseteq Nat
  /\ MaxTail \in Nat

-----------------------------------------------------------------------------
(* The bytes.                                                              *)

\* The first n of the sequences parts, one after the other.
Upto(parts, n) ==
  LET joined[m \in 0 .. Len(parts)] ==
        IF m = 0 THEN << >> ELSE joined[m - 1] \o parts[m]
  IN joined[n]

Filler(n) == [k \in 1 .. n |-> Base - 1]

\* The number v in 2, 4 or 8 bytes, the lowest first.
Bytes16(v) == <<v % Base, v \div Base>>
Bytes32(v) == Bytes16(v % Word16) \o Bytes16(v \div Word16)
Bytes64(v) == Bytes32(v % Word32) \o Bytes32(v \div Word32)

\* The number v in w bytes, or in more if it does not fit.
Encode(v, w) ==
  IF v < Base - 3 /\ w <= 1 THEN <<v>>
  ELSE IF v < Word16 /\ w <= 3 THEN <<Base - 3>> \o Bytes16(v)
  ELSE IF v < Word32 /\ w <= 5 THEN <<Base - 2>> \o Bytes32(v)
  ELSE <<Base - 1>> \o Bytes64(v)

InParts(t, w) ==
  [j \in DOMAIN t.ins |->
    Filler(OutpLen) \o Encode(t.ins[j], w) \o Filler(t.ins[j] + SeqLen)]

OutParts(t, w) ==
  [j \in DOMAIN t.outs |->
    Filler(ValLen) \o Encode(t.outs[j], w) \o Filler(t.outs[j])]

\* A transaction up to its j-th input; up to its j-th output; whole.
ThroughIn(t, w, j) ==
  Filler(VersLen) \o Encode(Len(t.ins), w) \o Upto(InParts(t, w), j)

ThroughOut(t, w, j) ==
  ThroughIn(t, w, Len(t.ins)) \o Encode(Len(t.outs), w) \o Upto(OutParts(t, w), j)

TxBytes(t, w) == ThroughOut(t, w, Len(t.outs)) \o Filler(LockLen)

TxParts(b, w) == [i \in DOMAIN b |-> TxBytes(b[i], w)]

\* A block up to its i-th transaction.
ThroughTx(b, w, i) ==
  Filler(FrameLen + HeadLen) \o Encode(Len(b), w) \o Upto(TxParts(b, w), i)

BlockParts(c, w) == [k \in DOMAIN c |-> ThroughTx(c[k], w, Len(c[k]))]

\* A chain up to its k-th block.
ThroughBlock(c, w, k) == Upto(BlockParts(c, w), k)

\* Every chain in every encoding.
Encodings == {<<c, w>> : c \in Chains, w \in Widths}

Whole == [s \in Encodings |-> ThroughBlock(s[1], s[2], Len(s[1]))]

\* Offsets in a chain are 64-bit words.
ASSUME WordAssumption == \A s \in Encodings : Len(Whole[s]) < Word

Zeros(n) == [k \in 1 .. n |-> 0]

\* The files.
ChainFiles ==
  UNION {{SubSeq(Whole[s], 1, n) : n \in 0 .. Len(Whole[s])}
         \cup {Whole[s] \o Zeros(n) : n \in 1 .. MaxTail} : s \in Encodings}

-----------------------------------------------------------------------------
(* What the walk is to hand to the index.                                  *)

\* Of the first j inputs of a transaction that starts at start: where their
\* outpoints are, and where it starts.
Spends(t, w, start, j) ==
  [n \in 1 .. j |-> <<"spend", start + Len(ThroughIn(t, w, n - 1)), start>>]

\* Of the i-th transaction of a block at place: its spends, unless it is the first
\* of its block, and where it starts and ends.
TxEntries(b, w, place, i) ==
  LET start == place + Len(ThroughTx(b, w, i - 1))
  IN (IF i = 1 THEN << >> ELSE Spends(b[i], w, start, Len(b[i].ins)))
     \o << <<"tx", start, place + Len(ThroughTx(b, w, i))>> >>

\* Of a block at place, up to its i-th transaction: where its header ends, and
\* the transactions.
BlockEntries(b, w, place, i) ==
  << <<"block", place + FrameLen + HeadLen>> >>
    \o Upto([n \in DOMAIN b |-> TxEntries(b, w, place, n)], i)

\* Of a chain up to its k-th block.
ChainEntries(c, w, k) ==
  Upto([n \in DOMAIN c |->
          BlockEntries(c[n], w, Len(ThroughBlock(c, w, n - 1)), Len(c[n]))], k)

Wanted == [s \in Encodings |-> ChainEntries(s[1], s[2], Len(s[1]))]

-----------------------------------------------------------------------------
(* Properties.                                                             *)

\* The bytes a block without transactions takes.
EmptyLen == FrameLen + HeadLen + 1

Rest(s) == SubSeq(file, Len(Whole[s]) + 1, len)

\* The file holds the chain and encoding s, and after it too little for
\* another block, or zeros that make up empty blocks.
Holds(s) ==
  /\ IsPrefix(Whole[s], file)
  /\ \/ Len(Rest(s)) <= 1
     \/ Rest(s) = Zeros(Len(Rest(s))) /\ Len(Rest(s)) % EmptyLen <= 1

\* The first m empty blocks that are read out of zeros from place on.
Empties(place, m) ==
  [k \in 1 .. m |-> <<"block", place + k * EmptyLen - 1>>]

Phantoms(s) == Empties(Len(Whole[s]), Len(Rest(s)) \div EmptyLen)

\* However the counts and script lengths are encoded, and wherever the file
\* breaks off, what the walk hands to the index until then are the blocks,
\* spends and transactions of the chain, in order and at the right offsets:
\* no script, count or padding is taken for one of them.
InPlace ==
  \A s \in Encodings :
    IsPrefix(file, Whole[s]) \/ IsPrefix(Whole[s], file) =>
      IsPrefix(seen, Wanted[s]) \/ IsPrefix(Wanted[s], seen)

\* bzing_index_regen returns only when everything in the file was handed to
\* the index; zeros after the last block give rise to blocks of no
\* transactions, a single byte after it is left.
Exact ==
  pc = "done" =>
    \E s \in Encodings : Holds(s) /\ seen = Wanted[s] \o Phantoms(s)

\* A file of one or more whole blocks is never read beyond its end; a single
\* byte after the last block does not lead beyond it either, nor do zeros for
\* whole blocks.  The exception is the file of no bytes, a chain of no blocks:
\* len - 1 wraps (bzing.c:746), and a block is read where there is nothing.
WithinFile ==
  pc = "astray" /\ file # << >> => ~\E s \in Encodings : Holds(s)
=============================================================================
