------------------------------ MODULE Framing ------------------------------
(***************************************************************************)
(* The bytes of a block file as bzing_index_regen, bzing_block_add         *)
(* (src/src/bzing.c) and parse_var_int (src/src/bzing_parser.c) read them: *)
(* an offset is moved over fields of fixed length and over scripts, whose  *)
(* lengths, like all counts, are encoded in 1, 3, 5 or 9 bytes.  Nothing   *)
(* compares the offset with the length of the file but the head of the     *)
(* loop over the blocks.  What is done with the fields is the matter of    *)
(* IndexRegen.                                                             *)
(*                                                                         *)
(* Offsets are 64 bits wide, as is the longest encoded number: both are    *)
(* numbers below Word.                                                     *)
(***************************************************************************)
EXTENDS Integers, Sequences

CONSTANTS
  Base,      \* the values of a byte (256 in the source)
  FrameLen,  \* before a block: magic number and length (8)
  HeadLen,   \* the header of a block (80)
  VersLen,   \* version of a transaction (4)
  OutpLen,   \* outpoint of an input (36)
  SeqLen,    \* after the script of an input (4)
  ValLen,    \* value of an output (8)
  LockLen,   \* lock time of a transaction (4)
  Files      \* the files: sequences of bytes

\* The numbers that 2, 4 and 8 bytes have.
Word16 == Base * Base
Word32 == Word16 * Word16
Word == Word32 * Word32

ASSUME FramingAssumption ==
  /\ Base \in Nat /\ Base >= 5
  /\ {FrameLen, HeadLen, VersLen, OutpLen, SeqLen, ValLen, LockLen}
       \subseteq Nat \ {0}
  /\ \A f \in Files : f \in Seq(0 .. (Base - 1)) /\ Len(f) < Word

VARIABLES
  file,      \* data and len
  pc,        \* the field that is next; "done"; "astray": read beyond the file
  offset,    \* the offset in the file (of bzing_block_add: outer_offset + offset)
  tx_start,  \* where the transaction starts
  n_tx,      \* transactions of the block that are left
  n_txin,    \* inputs of the transaction that are left
  n_txout,   \* outputs that are left
  first,     \* i = 0: the transaction is the first of its block
  seen       \* history: what was handed to the index

counts == <<n_tx, n_txin, n_txout>>
fvars == <<file, pc, offset, tx_start, counts, first, seen>>

len == Len(file)

\* data[o], for bytes that are there.
Byte(o) == file[o + 1]

\* All n bytes from o on are in the file.
Within(o, n) == o + n <= len

-----------------------------------------------------------------------------
(* parse_var_int                                                           *)

\* The number of bytes after the first, by the first: 0xFD, 0xFE, 0xFF.
Extra(b) ==
  CASE b = Base - 3 -> 2
    [] b = Base - 2 -> 4
    [] b = Base - 1 -> 8
    [] OTHER -> 0

\* Mutant: the higher byte is taken for the lower.
UInt16BigEndian(o) == Base * Byte(o) + Byte(o + 1)

\* The number in the 2, 4 or 8 bytes from o on, the lowest first.
UInt16(o) == Byte(o) + Base * Byte(o + 1)
UInt32(o) == UInt16(o) + Word16 * UInt16(o + 2)
UInt64(o) == UInt32(o) + Word32 * UInt32(o + 4)

VarInt(o) ==
  CASE Extra(Byte(o)) = 2 -> UInt16(o + 1)
    [] Extra(Byte(o)) = 4 -> UInt32(o + 1)
    [] Extra(Byte(o)) = 8 -> UInt64(o + 1)
    [] OTHER -> Byte(o)

\* Where the encoding of a number that starts at o ends.
Past(o) == o + 1 + Extra(Byte(o))

\* The encoding of a number starts at o and ends in the file.
Readable(o) == Within(o, 1) /\ Within(o, 1 + Extra(Byte(o)))

-----------------------------------------------------------------------------
(* The walk.                                                               *)

Init ==
  /\ file \in Files
  /\ pc = "block" /\ offset = 0 /\ tx_start = 0
  /\ n_tx = 0 /\ n_txin = 0 /\ n_txout = 0 /\ first = TRUE
  /\ seen = << >>

\* A read beyond the file: what is read, if the process survives, is not data.
Stray ==
  /\ pc' = "astray"
  /\ UNCHANGED <<file, offset, tx_start, counts, first, seen>>

\* Mutant: the loop ends where no more than a frame is left.
MoreThanFrame == offset < (len - FrameLen) % Word

\* offset < len - 1, where len - 1 wraps for an empty file.
More == offset < (len - 1) % Word

\* The head of a block is hashed and entered, under the offset of its end.
Block ==
  LET head == offset + FrameLen
  IN /\ pc = "block" /\ More
     /\ IF Within(head, HeadLen)
        THEN /\ seen' = Append(seen, <<"block", head + HeadLen>>)
             /\ offset' = head + HeadLen /\ pc' = "txs"
             /\ UNCHANGED <<file, tx_start, counts, first>>
        ELSE Stray

\* The number of transactions of the block.
Txs ==
  /\ pc = "txs"
  /\ IF Readable(offset)
     THEN /\ n_tx' = VarInt(offset) /\ offset' = Past(offset)
          /\ first' = TRUE /\ pc' = "tx"
          /\ UNCHANGED <<file, tx_start, n_txin, n_txout, seen>>
     ELSE Stray

\* The end of the block.
BlockEnd ==
  /\ pc = "tx" /\ n_tx = 0
  /\ pc' = "block"
  /\ UNCHANGED <<file, offset, tx_start, counts, first, seen>>

\* The version of a transaction is skipped; the number of inputs.
Tx ==
  LET ins == offset + VersLen
  IN /\ pc = "tx" /\ n_tx > 0
     /\ IF Readable(ins)
        THEN /\ tx_start' = offset
             /\ n_txin' = VarInt(ins) /\ offset' = Past(ins) /\ pc' = "in"
             /\ UNCHANGED <<file, n_tx, n_txout, first, seen>>
        ELSE Stray

\* What bzing_spent_mark is told of an input: the outpoint, and where the
\* transaction that spends it starts.  The first transaction of a block
\* spends nothing; an outpoint that is not in the file is read astray.
Marked ==
  IF first \/ ~Within(offset, OutpLen) THEN << >>
  ELSE << <<"spend", offset, tx_start>> >>

\* Mutant: the script of an input is not skipped.
InScriptKept ==
  LET script == offset + OutpLen
  IN /\ pc = "in" /\ n_txin > 0
     /\ seen' = seen \o Marked
     /\ IF Readable(script)
        THEN /\ offset' = (Past(script) + SeqLen) % Word
             /\ n_txin' = n_txin - 1 /\ pc' = pc
        ELSE pc' = "astray" /\ UNCHANGED <<offset, n_txin>>
     /\ UNCHANGED <<file, tx_start, n_tx, n_txout, first>>

\* An input: its output is marked as spent; then its script is skipped.
In ==
  LET script == offset + OutpLen
  IN /\ pc = "in" /\ n_txin > 0
     /\ seen' = seen \o Marked
     /\ IF Readable(script)
        THEN /\ offset' = (Past(script) + VarInt(script) + SeqLen) % Word
             /\ n_txin' = n_txin - 1 /\ pc' = pc
        ELSE pc' = "astray" /\ UNCHANGED <<offset, n_txin>>
     /\ UNCHANGED <<file, tx_start, n_tx, n_txout, first>>

\* The number of outputs, after the inputs.
Outs ==
  /\ pc = "in" /\ n_txin = 0
  /\ IF Readable(offset)
     THEN /\ n_txout' = VarInt(offset) /\ offset' = Past(offset) /\ pc' = "out"
          /\ UNCHANGED <<file, tx_start, n_tx, n_txin, first, seen>>
     ELSE Stray

\* Mutant: an output is read before the count is looked at.
OutAtLeastOnce ==
  LET script == offset + ValLen
  IN /\ pc = "out"
     /\ IF Readable(script)
        THEN /\ offset' = (Past(script) + VarInt(script)) % Word
             /\ n_txout' = n_txout - 1
             /\ UNCHANGED <<file, pc, tx_start, n_tx, n_txin, first, seen>>
        ELSE Stray

\* An output: value and script are skipped.
Out ==
  LET script == offset + ValLen
  IN /\ pc = "out" /\ n_txout > 0
     /\ IF Readable(script)
        THEN /\ offset' = (Past(script) + VarInt(script)) % Word
             /\ n_txout' = n_txout - 1
             /\ UNCHANGED <<file, pc, tx_start, n_tx, n_txin, first, seen>>
        ELSE Stray

\* The lock time is skipped; the transaction is hashed from its start to
\* here and entered.  If a script length took the offset back before the
\* start, the number of bytes to hash wraps, and the hash is astray.
TxEnd ==
  LET end == offset + LockLen
  IN /\ pc = "out" /\ n_txout = 0
     /\ IF tx_start <= end /\ end <= len
        THEN /\ seen' = Append(seen, <<"tx", tx_start, end>>)
             /\ offset' = end
             /\ n_tx' = n_tx - 1 /\ first' = FALSE /\ pc' = "tx"
             /\ UNCHANGED <<file, tx_start, n_txin, n_txout>>
        ELSE Stray

Done ==
  /\ pc = "block" /\ ~More
  /\ pc' = "done"
  /\ UNCHANGED <<file, offset, tx_start, counts, first, seen>>

Next == Block \/ Txs \/ BlockEnd \/ Tx \/ In \/ Outs \/ Out \/ TxEnd \/ Done

Spec == Init /\ [][Next]_fvars

-----------------------------------------------------------------------------
(* What a file holds, and so the other properties, is said in BlockFile.   *)

\* Every count and offset stays a 64-bit word: no loop of bzing_block_add
\* counts below zero.
TypeOK ==
  /\ pc \in {"block", "txs", "tx", "in", "out", "done", "astray"}
  /\ {offset, tx_start, n_tx, n_txin, n_txout} \subseteq 0 .. (Word - 1)
  /\ first \in BOOLEAN
=============================================================================
