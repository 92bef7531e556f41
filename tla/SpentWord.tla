----------------------------- MODULE SpentWord -----------------------------
(***************************************************************************)
(* The 64-bit word `spent` of an index entry (struct bz_inv,               *)
(* src/src/api/bzing_types.h).  One word carries three meanings:           *)
(*                                                                         *)
(*   UINT64_MAX                   the entry is a block;                    *)
(*   bits 32..55 all set          a transaction none of whose outputs has  *)
(*                                been spent: the low 32 bits hold its     *)
(*                                number of outputs;                       *)
(*   anything else                a transaction with a region of the spent *)
(*                                map: the low 56 bits hold the position   *)
(*                                of the region, the high 8 bits say which *)
(*                                of its first 8 outputs are spent.        *)
(*                                                                         *)
(* A word is the record of its high byte, as the set of the quick bits     *)
(* that are set, and of its low 56 bits, as a number.  The masks of the    *)
(* source become comparisons: "word & UMARK == UMARK" says that the low 56 *)
(* bits are at least UMARK, "word & UMASK" subtracts UMARK from such a     *)
(* number.  In the source QuickBits = 8, UMark = 0x00ffffff00000000 and    *)
(* UMask = 0x00000000ffffffff.                                             *)
(***************************************************************************)
EXTENDS Integers

CONSTANTS
  QuickBits,  \* BZ_TXI_SPENT_BITS: outputs with a bit in the high byte
  UMark,      \* BZ_TXI_SPENT_UMARK: smallest ambiguous position
  UMask       \* BZ_TXI_SPENT_UMASK: largest output count of an entry

ASSUME WordAssumption ==
  /\ QuickBits \in Nat \ {0}
  /\ UMark \in Nat \ {0}
  /\ UMask \in Nat

\* BZ_TXI_SPENT_MASK, the largest number the low 56 bits can hold.
Mask == UMark + UMask

QuickIndex == 0 .. (QuickBits - 1)

SpentWords == [quick : SUBSET QuickIndex, pos : 0 .. Mask]

\* UINT64_MAX, the word of a block.
BlockWord == [quick |-> QuickIndex, pos |-> Mask]

\* The word of a transaction with n outputs, none of them spent.
UnspentWord(n) == [quick |-> {}, pos |-> UMark + (n % (UMask + 1))]

IsBlock(w) == w = BlockWord

\* Mutant: the marker is looked for before the block.
IsMarked(w) == w.pos >= UMark

IsUnspent(w) == ~IsBlock(w) /\ w.pos >= UMark

IsPlaced(w) == ~IsBlock(w) /\ w.pos < UMark

\* The output count of an unspent word.
CountOf(w) == w.pos - UMark

\* Mutant: the bit of output i is set in the byte of output i + 1.
QuickenNext(w, i) ==
  [w EXCEPT !.quick = @ \cup ({i + 1} \cap QuickIndex)]

\* The word w after output i was spent: only the first outputs have a bit.
Quicken(w, i) == [w EXCEPT !.quick = @ \cup ({i} \cap QuickIndex)]
=============================================================================
