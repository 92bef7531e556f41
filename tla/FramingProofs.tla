---------------------------- MODULE FramingProofs ----------------------------
(***************************************************************************)
(* Proofs about Framing and BlockFile, for bytes of any number of values,  *)
(* fields of any lengths, chains of any blocks, and counts and script      *)
(* lengths in any encoding that holds them. Whatever bytes the files hold, *)
(* no count and no offset leaves the words it is kept in; what is read of  *)
(* a file that agrees with a chain, as far as both go, are the entries of  *)
(* the chain.                                                              *)
(*                                                                         *)
(* The invariant of the second part is Tracks: for every such chain the    *)
(* walk is at one of its fields, with what comes before it seen, or in the *)
(* zeros after it, or beyond it, or it stopped in front of a block, or it  *)
(* left a file that does not hold the chain.                               *)
(***************************************************************************)
EXTENDS BlockFile, Induction, SequenceTheorems

-----------------------------------------------------------------------------
(* Numbers in bytes.                                                       *)

\* Two numbers of half the width make one of the whole.
LEMMA TwoHalves ==
  ASSUME NEW P \in Nat, NEW x \in 0 .. (P - 1), NEW y \in 0 .. (P - 1)
  PROVE  x + P * y \in 0 .. (P * P - 1)
<1>1. P * y \in Nat /\ P * P \in Nat
  OBVIOUS
<1>2. P * y <= P * P - P
  <2>1. P * (P - 1 - y) >= 0
    BY Z3
  <2> QED
    BY <2>1, Z3
<1> QED
  BY <1>1, <1>2

\* The widths are numbers, each at least that of a byte.
LEMMA WordWidths ==
  /\ Base \in Nat /\ Word16 \in Nat /\ Word32 \in Nat /\ Word \in Nat
  /\ 5 <= Base /\ Base <= Word16 /\ Word16 <= Word32 /\ Word32 <= Word
<1>1. Base \in Nat /\ Base >= 5
  BY FramingAssumption
<1>2. ASSUME NEW x \in Nat, x >= 1
      PROVE  x * x \in Nat /\ x <= x * x
  <2>1. x * x >= x
    BY <1>2, Z3
  <2> QED
    BY <2>1
<1>3. Word16 \in Nat /\ Base <= Word16
  BY <1>1, <1>2 DEF Word16
<1>4. Word32 \in Nat /\ Word16 <= Word32
  BY <1>1, <1>2, <1>3 DEF Word32
<1>5. Word \in Nat /\ Word32 <= Word
  BY <1>1, <1>2, <1>3, <1>4 DEF Word
<1> QED
  BY <1>1, <1>3, <1>4, <1>5

\* A file is a sequence of bytes, and its length a word.
LEMMA FileFacts ==
  ASSUME file \in Files
  PROVE  /\ len \in Nat /\ len < Word
         /\ \A o \in Nat : o < len => Byte(o) \in 0 .. (Base - 1)
<1>1. file \in Seq(0 .. (Base - 1)) /\ Len(file) < Word
  BY FramingAssumption
<1>2. ASSUME NEW o \in Nat, o < len
      PROVE  file[o + 1] \in 0 .. (Base - 1)
  <2>1. o + 1 \in 1 .. Len(file)
    BY <1>1, <1>2 DEF len
  <2>2. PICK S : S = 0 .. (Base - 1)
    OBVIOUS
  <2>3. file[o + 1] \in S
    BY <1>1, <2>1, <2>2, ElementOfSeq
  <2> QED
    BY <2>2, <2>3
<1> QED
  BY <1>1, <1>2 DEF len, Byte

\* parse_var_int, when all bytes of the number are there: the number is a word,
\* and what comes after it begins in the file or at its end.
LEMMA VarIntFacts ==
  ASSUME file \in Files, NEW o \in Nat, Readable(o)
  PROVE  VarInt(o) \in 0 .. (Word - 1) /\ Past(o) \in 0 .. len
<1>1. /\ len \in Nat /\ len < Word
      /\ \A i \in Nat : i < len => Byte(i) \in 0 .. (Base - 1)
  BY FileFacts
<1>2. /\ Base \in Nat /\ Word16 \in Nat /\ Word32 \in Nat /\ Word \in Nat
      /\ 5 <= Base /\ Base <= Word16 /\ Word16 <= Word32 /\ Word32 <= Word
  BY WordWidths
<1>3. PICK n : n = Extra(Byte(o))
  OBVIOUS
<1>4. /\ o + 1 <= len /\ o + 1 + n <= len
      /\ n \in {0, 2, 4, 8} /\ Byte(o) \in 0 .. (Base - 1)
  BY <1>1, <1>2, <1>3 DEF Readable, Within, Extra
<1>5. Past(o) \in 0 .. len
  BY <1>1, <1>3, <1>4 DEF Past
<1>6. ASSUME NEW i \in Nat, i + 2 <= len
      PROVE  UInt16(i) \in 0 .. (Word16 - 1)
  <2>1. Byte(i) \in 0 .. (Base - 1) /\ Byte(i + 1) \in 0 .. (Base - 1)
    BY <1>1, <1>6
  <2> QED
    BY <1>2, <2>1, TwoHalves DEF UInt16, Word16
<1>7. ASSUME NEW i \in Nat, i + 4 <= len
      PROVE  UInt32(i) \in 0 .. (Word32 - 1)
  <2>1. UInt16(i) \in 0 .. (Word16 - 1) /\ UInt16(i + 2) \in 0 .. (Word16 - 1)
    BY <1>1, <1>6, <1>7
  <2> QED
    BY <1>2, <2>1, TwoHalves DEF UInt32, Word32
<1>8. ASSUME NEW i \in Nat, i + 8 <= len
      PROVE  UInt64(i) \in 0 .. (Word - 1)
  <2>1. UInt32(i) \in 0 .. (Word32 - 1) /\ UInt32(i + 4) \in 0 .. (Word32 - 1)
    BY <1>1, <1>7, <1>8
  <2> QED
    BY <1>2, <2>1, TwoHalves DEF UInt64, Word
<1>9. VarInt(o) \in 0 .. (Word - 1)
  <2>1. CASE n = 0
    BY <1>2, <1>3, <1>4, <2>1 DEF VarInt
  <2>2. CASE n = 2
    <3>1. UInt16(o + 1) \in 0 .. (Word16 - 1)
      BY <1>1, <1>4, <1>6, <2>2
    <3> QED
      BY <1>2, <1>3, <2>2, <3>1 DEF VarInt
  <2>3. CASE n = 4
    <3>1. UInt32(o + 1) \in 0 .. (Word32 - 1)
      BY <1>1, <1>4, <1>7, <2>3
    <3> QED
      BY <1>2, <1>3, <2>3, <3>1 DEF VarInt
  <2>4. CASE n = 8
    <3>1. UInt64(o + 1) \in 0 .. (Word - 1)
      BY <1>1, <1>4, <1>8, <2>4
    <3> QED
      BY <1>2, <1>3, <2>4, <3>1 DEF VarInt
  <2> QED
    BY <1>4, <2>1, <2>2, <2>3, <2>4
<1> QED
  BY <1>5, <1>9

-----------------------------------------------------------------------------
(* The walk.                                                               *)

\* What TypeOK needs: the file is one of those that may be, and while there is a
\* transaction it is counted among those that are left.
FileInv ==
  /\ TypeOK
  /\ file \in Files
  /\ pc \in {"in", "out"} => n_tx > 0

\* What stays inside a word: an offset that was moved.
LEMMA Wrapped ==
  ASSUME NEW x \in Int
  PROVE  x % Word \in 0 .. (Word - 1)
<1>1. Word \in Nat /\ Word > 0
  BY WordWidths
<1> QED
  BY <1>1

\* A step keeps the invariant.
LEMMA FileInvStep ==
  ASSUME FileInv, Next
  PROVE  FileInv'
<1>1. /\ offset \in 0 .. (Word - 1) /\ tx_start \in 0 .. (Word - 1)
      /\ n_tx \in 0 .. (Word - 1) /\ n_txin \in 0 .. (Word - 1)
      /\ n_txout \in 0 .. (Word - 1)
      /\ first \in BOOLEAN /\ file \in Files
  BY DEF FileInv, TypeOK
<1>2. Word \in Nat /\ Word > 0 /\ len \in Nat /\ len < Word
  BY <1>1, FileFacts, WordWidths
<1>3. {FrameLen, HeadLen, VersLen, OutpLen, SeqLen, ValLen, LockLen} \subseteq Nat
  BY FramingAssumption
<1>4. ASSUME Stray
      PROVE  FileInv'
  BY <1>4 DEF Stray, FileInv, TypeOK, counts
<1>5. ASSUME Block
      PROVE  FileInv'
  <2>1. CASE Within(offset + FrameLen, HeadLen)
    <3>1. offset + FrameLen + HeadLen \in 0 .. (Word - 1)
      BY <1>1, <1>2, <1>3, <2>1 DEF Within
    <3> QED
      BY <1>1, <1>5, <2>1, <3>1 DEF Block, FileInv, TypeOK, counts
  <2> QED
    BY <1>4, <1>5, <2>1 DEF Block
<1>6. ASSUME Txs
      PROVE  FileInv'
  <2>1. CASE Readable(offset)
    <3>1. VarInt(offset) \in 0 .. (Word - 1) /\ Past(offset) \in 0 .. (Word - 1)
      BY <1>1, <1>2, <2>1, VarIntFacts
    <3> QED
      BY <1>1, <1>6, <2>1, <3>1 DEF Txs, FileInv, TypeOK
  <2> QED
    BY <1>4, <1>6, <2>1 DEF Txs
<1>7. ASSUME BlockEnd
      PROVE  FileInv'
  BY <1>7 DEF BlockEnd, FileInv, TypeOK, counts
<1>8. ASSUME Tx
      PROVE  FileInv'
  <2>1. CASE Readable(offset + VersLen)
    <3>1. offset + VersLen \in Nat
      BY <1>1, <1>3
    <3>2. /\ VarInt(offset + VersLen) \in 0 .. (Word - 1)
          /\ Past(offset + VersLen) \in 0 .. (Word - 1)
      BY <1>1, <1>2, <2>1, <3>1, VarIntFacts
    <3> QED
      BY <1>1, <1>8, <2>1, <3>2 DEF Tx, FileInv, TypeOK
  <2> QED
    BY <1>4, <1>8, <2>1 DEF Tx
<1>9. ASSUME In
      PROVE  FileInv'
  <2> DEFINE script == offset + OutpLen
  <2>1. n_txin - 1 \in 0 .. (Word - 1) /\ script \in Nat
    <3>1. n_txin > 0
      BY <1>9 DEF In
    <3> QED
      BY <1>1, <1>2, <1>3, <3>1
  <2>2. CASE Readable(script)
    <3>1. VarInt(script) \in Int /\ Past(script) \in Int /\ SeqLen \in Int
      BY <1>1, <1>2, <1>3, <2>1, <2>2, VarIntFacts
    <3>2. Past(script) + VarInt(script) + SeqLen \in Int
      BY <3>1
    <3>3. (Past(script) + VarInt(script) + SeqLen) % Word \in 0 .. (Word - 1)
      BY <3>2, Wrapped
    <3> QED
      BY <1>1, <1>9, <2>1, <2>2, <3>3 DEF In, FileInv, TypeOK
  <2>3. CASE ~Readable(script)
    BY <1>1, <1>9, <2>3 DEF In, FileInv, TypeOK
  <2> QED
    BY <2>2, <2>3
<1>10. ASSUME Outs
       PROVE  FileInv'
  <2>1. CASE Readable(offset)
    <3>1. VarInt(offset) \in 0 .. (Word - 1) /\ Past(offset) \in 0 .. (Word - 1)
      BY <1>1, <1>2, <2>1, VarIntFacts
    <3> QED
      BY <1>1, <1>10, <2>1, <3>1 DEF Outs, FileInv, TypeOK
  <2> QED
    BY <1>4, <1>10, <2>1 DEF Outs
<1>11. ASSUME Out
       PROVE  FileInv'
  <2> DEFINE script == offset + ValLen
  <2>1. n_txout - 1 \in 0 .. (Word - 1) /\ script \in Nat
    <3>1. n_txout > 0
      BY <1>11 DEF Out
    <3> QED
      BY <1>1, <1>2, <1>3, <3>1
  <2>2. CASE Readable(script)
    <3>1. VarInt(script) \in Int /\ Past(script) \in Int
      BY <1>1, <1>2, <2>1, <2>2, VarIntFacts
    <3>2. Past(script) + VarInt(script) \in Int
      BY <3>1
    <3>3. (Past(script) + VarInt(script)) % Word \in 0 .. (Word - 1)
      BY <3>2, Wrapped
    <3> QED
      BY <1>1, <1>11, <2>1, <2>2, <3>3 DEF Out, FileInv, TypeOK
  <2> QED
    BY <1>4, <1>11, <2>2 DEF Out
<1>12. ASSUME TxEnd
       PROVE  FileInv'
  <2>1. CASE tx_start <= offset + LockLen /\ offset + LockLen <= len
    <3>1. offset + LockLen \in 0 .. (Word - 1)
      BY <1>1, <1>2, <1>3, <2>1
    <3>2. n_tx - 1 \in 0 .. (Word - 1)
      <4>1. n_tx > 0
        BY <1>12 DEF TxEnd, FileInv
      <4> QED
        BY <1>1, <1>2, <4>1
    <3> QED
      BY <1>1, <1>12, <2>1, <3>1, <3>2 DEF TxEnd, FileInv, TypeOK
  <2> QED
    BY <1>4, <1>12, <2>1 DEF TxEnd
<1>13. ASSUME Done
       PROVE  FileInv'
  BY <1>13 DEF Done, FileInv, TypeOK, counts
<1> QED
  BY <1>5, <1>6, <1>7, <1>8, <1>9, <1>10, <1>11, <1>12, <1>13 DEF Next

\* FileInv is an invariant.
THEOREM FileInvariant == Spec => []FileInv
<1>1. Init => FileInv
  BY WordWidths DEF Init, FileInv, TypeOK
<1>2. FileInv /\ [Next]_fvars => FileInv'
  <2>1. ASSUME FileInv, UNCHANGED fvars
        PROVE  FileInv'
    BY <2>1 DEF fvars, counts, FileInv, TypeOK
  <2> QED
    BY <2>1, FileInvStep
<1> QED
  BY <1>1, <1>2, PTL DEF Spec

\* Whatever bytes a file holds and however long the numbers in it are encoded, the
\* counts of parse_var_int and the offsets moved by them stay 64-bit words, and no
\* loop of bzing_block_add counts below zero.
THEOREM FramingTyped == Spec => []TypeOK
<1>1. FileInv => TypeOK
  BY DEF FileInv
<1> QED
  BY <1>1, FileInvariant, PTL

-----------------------------------------------------------------------------
(* Sequences put together from parts.                                      *)

\* s is the beginning of t.
Begins(s, t) == Len(s) <= Len(t) /\ \A i \in 1 .. Len(s) : t[i] = s[i]

\* What IsPrefix says, entry by entry.
LEMMA PrefixIs ==
  ASSUME NEW S, NEW s \in Seq(S), NEW t \in Seq(S)
  PROVE  IsPrefix(s, t) <=> Begins(s, t)
<1>1. Len(s) \in Nat /\ Len(t) \in Nat /\ SubSeq(s, 1, Len(s)) = s
  BY LenProperties, SubSeqFull
<1>2. ASSUME Len(s) <= Len(t)
      PROVE  /\ SubSeq(t, 1, Len(s)) \in Seq(S)
             /\ Len(SubSeq(t, 1, Len(s))) = Len(s)
             /\ \A i \in 1 .. Len(s) : SubSeq(t, 1, Len(s))[i] = t[i]
  <2>1. \A i \in 1 .. Len(s) : t[i] \in S
    BY <1>1, <1>2, ElementOfSeq
  <2>2. /\ SubSeq(t, 1, Len(s)) \in Seq(S)
        /\ Len(SubSeq(t, 1, Len(s))) = IF 1 <= Len(s) THEN Len(s) - 1 + 1 ELSE 0
        /\ \A i \in 1 .. Len(s) - 1 + 1 : SubSeq(t, 1, Len(s))[i] = t[1 + i - 1]
    BY <1>1, <2>1, SubSeqProperties
  <2> QED
    BY <1>1, <2>2
<1>3. ASSUME Begins(s, t)
      PROVE  IsPrefix(s, t)
  <2>1. s = SubSeq(t, 1, Len(s))
    BY <1>1, <1>2, <1>3, SeqEqual DEF Begins
  <2> QED
    BY <1>1, <1>3, <2>1 DEF IsPrefix, Begins
<1>4. ASSUME IsPrefix(s, t)
      PROVE  Begins(s, t)
  BY <1>1, <1>2, <1>4 DEF IsPrefix, Begins
<1> QED
  BY <1>3, <1>4

\* A sequence is the beginning of what comes of appending to it.
LEMMA BeginsConcat ==
  ASSUME NEW S, NEW s \in Seq(S), NEW t \in Seq(S)
  PROVE  Begins(s, s \o t)
BY LenProperties, ConcatProperties DEF Begins

\* The beginning of a beginning is a beginning.
LEMMA BeginsTransitive ==
  ASSUME NEW S, NEW s \in Seq(S), NEW t \in Seq(S), NEW u \in Seq(S),
         Begins(s, t), Begins(t, u)
  PROVE  Begins(s, u)
<1>1. Len(s) \in Nat /\ Len(t) \in Nat /\ Len(u) \in Nat
  BY LenProperties
<1> QED
  BY <1>1 DEF Begins

\* The recursion of Upto, up to n.
JoinedTo(f, parts, n) ==
  f = [m \in 0 .. n |-> IF m = 0 THEN << >> ELSE f[m - 1] \o parts[m]]

\* There is a function with that recursion.
LEMMA JoinsExist ==
  ASSUME NEW parts
  PROVE  \A n \in Nat : \E f : JoinedTo(f, parts, n)
<1> DEFINE S == {n \in Nat : \E f : JoinedTo(f, parts, n)}
<1>1. ASSUME NEW n \in Nat, \A m \in 0 .. (n - 1) : m \in S
      PROVE  n \in S
  <2>1. CASE n = 0
    <3>1. JoinedTo([m \in 0 .. 0 |-> << >>], parts, 0)
      BY DEF JoinedTo
    <3> QED
      BY <2>1, <3>1
  <2>2. CASE n > 0
    <3>1. PICK f : JoinedTo(f, parts, n - 1)
      BY <1>1, <2>2
    <3> DEFINE g == [m \in 0 .. n |-> IF m = 0 THEN << >> ELSE f[m - 1] \o parts[m]]
    <3>2. \A m \in 0 .. (n - 1) : g[m] = f[m]
      BY <3>1 DEF JoinedTo
    <3>3. \A m \in 0 .. n : m # 0 => g[m - 1] = f[m - 1]
      <4> SUFFICES ASSUME NEW m \in 0 .. n, m # 0
                   PROVE  g[m - 1] = f[m - 1]
        OBVIOUS
      <4>1. m - 1 \in 0 .. (n - 1)
        OBVIOUS
      <4> HIDE DEF g
      <4> QED
        BY <3>2, <4>1
    <3>4. JoinedTo(g, parts, n)
      BY <3>3 DEF JoinedTo
    <3> QED
      BY <3>4
  <2> QED
    BY <2>1, <2>2
<1>2. \A n \in Nat : n \in S
  <2> HIDE DEF S
  <2> QED
    BY <1>1, SetInduction
<1> QED
  BY <1>2

\* The first n parts: none of them; one more.
LEMMA UptoFacts ==
  ASSUME NEW S, NEW parts \in Seq(Seq(S))
  PROVE  /\ Len(parts) \in Nat /\ DOMAIN parts = 1 .. Len(parts)
         /\ Upto(parts, 0) = << >>
         /\ \A n \in 1 .. Len(parts) :
              /\ parts[n] \in Seq(S)
              /\ Upto(parts, n) = Upto(parts, n - 1) \o parts[n]
         /\ \A n \in 0 .. Len(parts) : Upto(parts, n) \in Seq(S)
<1>1. /\ Len(parts) \in Nat /\ DOMAIN parts = 1 .. Len(parts)
      /\ \A n \in 1 .. Len(parts) : parts[n] \in Seq(S)
  BY LenProperties, ElementOfSeq
<1> DEFINE J == CHOOSE f : JoinedTo(f, parts, Len(parts))
<1>2. JoinedTo(J, parts, Len(parts))
  BY <1>1, JoinsExist
<1>3. \A n : Upto(parts, n) = J[n]
  BY DEF Upto, JoinedTo
<1> HIDE DEF J
<1>4. \A m \in 0 .. Len(parts) :
        J[m] = IF m = 0 THEN << >> ELSE J[m - 1] \o parts[m]
  BY <1>2 DEF JoinedTo
<1>5. /\ Upto(parts, 0) = << >>
      /\ \A n \in 1 .. Len(parts) : Upto(parts, n) = Upto(parts, n - 1) \o parts[n]
  <2>1. J[0] = << >>
    BY <1>1, <1>4
  <2>2. ASSUME NEW n \in 1 .. Len(parts)
        PROVE  J[n] = J[n - 1] \o parts[n]
    <3>1. n \in 0 .. Len(parts) /\ n # 0
      BY <1>1
    <3> QED
      BY <1>4, <3>1
  <2> QED
    BY <1>3, <2>1, <2>2
<1> DEFINE T == {n \in Nat : n <= Len(parts) => Upto(parts, n) \in Seq(S)}
<1>6. ASSUME NEW n \in Nat, \A m \in 0 .. (n - 1) : m \in T, n <= Len(parts)
      PROVE  Upto(parts, n) \in Seq(S)
  <2>1. CASE n = 0
    BY <1>5, <2>1, EmptySeq
  <2>2. CASE n > 0
    <3>1. n - 1 \in T /\ n \in 1 .. Len(parts) /\ n - 1 <= Len(parts)
      <4> HIDE DEF T
      <4> QED
        BY <1>1, <1>6, <2>2
    <3>2. Upto(parts, n - 1) \in Seq(S)
      BY <3>1
    <3> HIDE DEF T
    <3>3. parts[n] \in Seq(S) /\ Upto(parts, n) = Upto(parts, n - 1) \o parts[n]
      BY <1>1, <1>5, <3>1
    <3> QED
      BY <3>2, <3>3, ConcatProperties
  <2> QED
    BY <2>1, <2>2
<1>7. \A n \in Nat : n \in T
  <2>1. ASSUME NEW n \in Nat, \A m \in 0 .. (n - 1) : m \in T
        PROVE  n \in T
    BY <1>6, <2>1
  <2> HIDE DEF T
  <2> QED
    BY <2>1, SetInduction
<1> QED
  BY <1>1, <1>5, <1>7

\* Fewer parts are the beginning of more.
LEMMA UptoBegins ==
  ASSUME NEW S, NEW parts \in Seq(Seq(S)),
         NEW n \in 0 .. Len(parts), NEW m \in 0 .. Len(parts), n <= m
  PROVE  Begins(Upto(parts, n), Upto(parts, m))
<1> DEFINE T == {k \in Nat : n <= k /\ k <= Len(parts) =>
                               Begins(Upto(parts, n), Upto(parts, k))}
<1>1. Len(parts) \in Nat
  BY LenProperties
<1>2. ASSUME NEW k \in Nat, \A i \in 0 .. (k - 1) : i \in T
      PROVE  k \in T
  <2> SUFFICES ASSUME n <= k, k <= Len(parts)
               PROVE  Begins(Upto(parts, n), Upto(parts, k))
    OBVIOUS
  <2>1. CASE n = k
    <3>1. Upto(parts, k) \in Seq(S)
      <4>1. k \in 0 .. Len(parts)
        BY <1>1
      <4> HIDE DEF T
      <4> QED
        BY <4>1, UptoFacts
    <3>2. Len(Upto(parts, k)) \in Nat
      BY <3>1, LenProperties
    <3> QED
      BY <2>1, <3>2 DEF Begins
  <2>2. CASE n < k
    <3>1. k - 1 \in T /\ n <= k - 1 /\ k \in 1 .. Len(parts)
          /\ k - 1 \in 0 .. Len(parts)
      <4> HIDE DEF T
      <4> QED
        BY <1>1, <1>2, <2>2
    <3>2. Begins(Upto(parts, n), Upto(parts, k - 1))
      BY <1>1, <2>2, <3>1
    <3> HIDE DEF T
    <3>3. /\ Upto(parts, n) \in Seq(S) /\ Upto(parts, k - 1) \in Seq(S)
          /\ Upto(parts, k) \in Seq(S) /\ parts[k] \in Seq(S)
          /\ Upto(parts, k) = Upto(parts, k - 1) \o parts[k]
      <4>1. k \in 0 .. Len(parts)
        BY <3>1
      <4> QED
        BY <3>1, <4>1, UptoFacts
    <3>4. Begins(Upto(parts, k - 1), Upto(parts, k))
      BY <3>3, BeginsConcat
    <3> QED
      BY <3>2, <3>3, <3>4, BeginsTransitive
  <2> QED
    BY <2>1, <2>2
<1>3. \A k \in Nat : k \in T
  <2> HIDE DEF T
  <2> QED
    BY <1>2, SetInduction
<1> QED
  BY <1>1, <1>3

\* What only looks at the first n parts.
LEMMA UptoSame ==
  ASSUME NEW S, NEW parts \in Seq(Seq(S)), NEW other \in Seq(Seq(S)),
         NEW n \in 0 .. Len(parts), n <= Len(other),
         \A k \in 1 .. n : parts[k] = other[k]
  PROVE  Upto(parts, n) = Upto(other, n)
<1> DEFINE T == {k \in Nat : k <= n => Upto(parts, k) = Upto(other, k)}
<1>1. Len(parts) \in Nat /\ Len(other) \in Nat
  BY LenProperties
<1>2. ASSUME NEW k \in Nat, \A i \in 0 .. (k - 1) : i \in T
      PROVE  k \in T
  <2> SUFFICES ASSUME k <= n
               PROVE  Upto(parts, k) = Upto(other, k)
    OBVIOUS
  <2>1. CASE k = 0
    BY <2>1, UptoFacts
  <2>2. CASE k > 0
    <3>1. /\ k - 1 \in T /\ k \in 1 .. n
          /\ k \in 1 .. Len(parts) /\ k \in 1 .. Len(other)
      <4> HIDE DEF T
      <4> QED
        BY <1>1, <1>2, <2>2
    <3>2. Upto(parts, k - 1) = Upto(other, k - 1)
      BY <1>1, <2>2, <3>1
    <3> HIDE DEF T
    <3>3. /\ Upto(parts, k) = Upto(parts, k - 1) \o parts[k]
          /\ Upto(other, k) = Upto(other, k - 1) \o other[k]
      BY <1>1, <3>1, UptoFacts
    <3>4. parts[k] = other[k]
      BY <3>1
    <3> QED
      BY <3>2, <3>3, <3>4
  <2> QED
    BY <2>1, <2>2
<1>3. \A k \in Nat : k \in T
  <2> HIDE DEF T
  <2> QED
    BY <1>2, SetInduction
<1> QED
  BY <1>1, <1>3

\* Parts that are not empty: there are at least as many entries as parts.
LEMMA UptoLength ==
  ASSUME NEW S, NEW parts \in Seq(Seq(S)),
         \A k \in 1 .. Len(parts) : parts[k] # << >>
  PROVE  Len(Upto(parts, Len(parts))) >= Len(parts)
<1> DEFINE T == {k \in Nat : k <= Len(parts) => Len(Upto(parts, k)) >= k}
<1>1. Len(parts) \in Nat
  BY LenProperties
<1>2. ASSUME NEW k \in Nat, \A i \in 0 .. (k - 1) : i \in T
      PROVE  k \in T
  <2> SUFFICES ASSUME k <= Len(parts)
               PROVE  Len(Upto(parts, k)) >= k
    OBVIOUS
  <2>1. CASE k = 0
    <3>1. Upto(parts, k) = << >>
      BY <2>1, UptoFacts
    <3> QED
      BY <2>1, <3>1
  <2>2. CASE k > 0
    <3>1. k - 1 \in T /\ k \in 1 .. Len(parts) /\ k - 1 \in 0 .. Len(parts)
      <4> HIDE DEF T
      <4> QED
        BY <1>1, <1>2, <2>2
    <3>2. Len(Upto(parts, k - 1)) >= k - 1
      BY <1>1, <2>2, <3>1
    <3> HIDE DEF T
    <3>3. /\ Upto(parts, k - 1) \in Seq(S) /\ parts[k] \in Seq(S)
          /\ Upto(parts, k) = Upto(parts, k - 1) \o parts[k]
      BY <1>1, <3>1, UptoFacts
    <3>4. parts[k] # << >>
      BY <3>1
    <3>5. Len(parts[k]) \in Nat \ {0} /\ Len(Upto(parts, k - 1)) \in Nat
      BY <3>3, <3>4, EmptySeq, LenProperties
    <3>6. Len(Upto(parts, k)) = Len(Upto(parts, k - 1)) + Len(parts[k])
      BY <3>3, ConcatProperties
    <3>7. PICK a, b : a = Len(Upto(parts, k - 1)) /\ b = Len(parts[k])
      OBVIOUS
    <3>8. a \in Nat /\ b \in Nat /\ b # 0 /\ a >= k - 1
      BY <3>2, <3>5, <3>7
    <3>9. a + b >= k
      BY <3>8, Z3
    <3> QED
      BY <3>6, <3>7, <3>9
  <2> QED
    BY <2>1, <2>2
<1>3. \A k \in Nat : k \in T
  <2> HIDE DEF T
  <2> QED
    BY <1>2, SetInduction
<1> QED
  BY <1>1, <1>3

-----------------------------------------------------------------------------
(* Bytes that are where they are looked for.                               *)

\* From offset o on f holds s, as far as f goes.
Agrees(f, s, o) == \A i \in 1 .. Len(s) : o + i <= Len(f) => f[o + i] = s[i]

\* Who agrees with the whole agrees with the parts.
LEMMA AgreesConcat ==
  ASSUME NEW S, NEW f \in Seq(S), NEW s \in Seq(S), NEW t \in Seq(S),
         NEW o \in Nat, Agrees(f, s \o t, o)
  PROVE  Agrees(f, s, o) /\ Agrees(f, t, o + Len(s))
<1>1. /\ Len(f) \in Nat /\ Len(s) \in Nat /\ Len(t) \in Nat
      /\ Len(s \o t) = Len(s) + Len(t)
      /\ \A i \in 1 .. Len(s) + Len(t) :
           (s \o t)[i] = IF i <= Len(s) THEN s[i] ELSE t[i - Len(s)]
  BY LenProperties, ConcatProperties
<1>2. ASSUME NEW i \in 1 .. Len(s), o + i <= Len(f)
      PROVE  f[o + i] = s[i]
  <2>1. i \in 1 .. Len(s \o t) /\ (s \o t)[i] = s[i]
    BY <1>1
  <2> QED
    BY <1>2, <2>1 DEF Agrees
<1>3. ASSUME NEW i \in 1 .. Len(t), o + Len(s) + i <= Len(f)
      PROVE  f[o + Len(s) + i] = t[i]
  <2>1. /\ Len(s) + i \in 1 .. Len(s \o t) /\ (s \o t)[Len(s) + i] = t[i]
        /\ o + (Len(s) + i) = o + Len(s) + i
    BY <1>1
  <2> QED
    BY <1>3, <2>1 DEF Agrees
<1> QED
  BY <1>2, <1>3 DEF Agrees

\* The same for numbers, and the length of the whole.
LEMMA Joined ==
  ASSUME NEW s \in Seq(Nat), NEW t \in Seq(Nat)
  PROVE  s \o t \in Seq(Nat) /\ Len(s \o t) = Len(s) + Len(t)
BY ConcatProperties

\* Who agrees with two sequences of numbers in a row agrees with each.
LEMMA AgreesJoined ==
  ASSUME NEW f \in Seq(Nat), NEW s \in Seq(Nat), NEW t \in Seq(Nat),
         NEW o \in Nat, NEW u, u = s \o t, Agrees(f, u, o)
  PROVE  Agrees(f, s, o) /\ Agrees(f, t, o + Len(s))
BY AgreesConcat

\* Who agrees with a sequence agrees with its beginning.
LEMMA AgreesBegins ==
  ASSUME NEW S, NEW f \in Seq(S), NEW s \in Seq(S), NEW t \in Seq(S),
         NEW o \in Nat, Begins(s, t), Agrees(f, t, o)
  PROVE  Agrees(f, s, o)
<1>1. Len(s) \in Nat /\ Len(t) \in Nat
  BY LenProperties
<1> QED
  BY <1>1 DEF Agrees, Begins

\* Each of several parts begins where those before it end.
LEMMA AgreesPart ==
  ASSUME NEW S, NEW f \in Seq(S), NEW parts \in Seq(Seq(S)), NEW o \in Nat,
         NEW m \in 0 .. Len(parts), Agrees(f, Upto(parts, m), o),
         NEW n \in 1 .. m
  PROVE  Agrees(f, parts[n], o + Len(Upto(parts, n - 1)))
<1>1. Len(parts) \in Nat
  BY LenProperties
<1>2. n \in 1 .. Len(parts) /\ n \in 0 .. Len(parts) /\ n - 1 \in 0 .. Len(parts)
      /\ n <= m
  BY <1>1
<1>3. /\ Upto(parts, n) \in Seq(S) /\ Upto(parts, m) \in Seq(S)
      /\ Upto(parts, n - 1) \in Seq(S) /\ parts[n] \in Seq(S)
      /\ Upto(parts, n) = Upto(parts, n - 1) \o parts[n]
  BY <1>2, UptoFacts
<1>4. Begins(Upto(parts, n), Upto(parts, m))
  BY <1>2, UptoBegins
<1>5. Agrees(f, Upto(parts, n), o)
  BY <1>3, <1>4, AgreesBegins
<1> QED
  BY <1>3, <1>5, AgreesConcat

-----------------------------------------------------------------------------
(* parse_var_int reads what was encoded.                                   *)

\* A number is made up of its halves.
LEMMA Halves ==
  ASSUME NEW P \in Nat, P > 0, NEW v \in 0 .. (P * P - 1)
  PROVE  /\ v % P \in 0 .. (P - 1) /\ v \div P \in 0 .. (P - 1)
         /\ (v % P) + P * (v \div P) = v
<1>1. v \in Nat /\ v % P \in 0 .. (P - 1) /\ v \div P \in Nat
  <2>1. P * P \in Nat
    OBVIOUS
  <2> QED
    BY <2>1
<1>2. (v % P) + P * (v \div P) = v
  BY <1>1, Z3
<1>3. v \div P < P
  <2> SUFFICES ASSUME v \div P >= P
               PROVE  FALSE
    BY <1>1
  <2>1. PICK q, r : q = v \div P /\ r = v % P
    OBVIOUS
  <2>2. q \in Nat /\ r \in Nat /\ q >= P /\ r + P * q = v
    BY <1>1, <1>2, <2>1
  <2>3. P * q >= P * P
    BY <2>2, Z3
  <2>4. v < P * P
    OBVIOUS
  <2> QED
    BY <1>1, <2>2, <2>3, <2>4, Z3
<1> QED
  BY <1>1, <1>2, <1>3

\* Remainder and quotient are numbers.
LEMMA HalvesTyped ==
  ASSUME NEW P \in Nat, P > 0, NEW v \in Nat
  PROVE  v % P \in Nat /\ v \div P \in Nat
OBVIOUS

\* The bytes of a number.
LEMMA BytesFacts ==
  ASSUME NEW v \in Nat
  PROVE  /\ Bytes16(v) \in Seq(Nat) /\ Len(Bytes16(v)) = 2
         /\ Bytes32(v) \in Seq(Nat) /\ Len(Bytes32(v)) = 4
         /\ Bytes64(v) \in Seq(Nat) /\ Len(Bytes64(v)) = 8
<1>1. /\ Base \in Nat /\ Word16 \in Nat /\ Word32 \in Nat
      /\ Base > 0 /\ Word16 > 0 /\ Word32 > 0
  BY WordWidths
<1>2. ASSUME NEW u \in Nat
      PROVE  Bytes16(u) \in Seq(Nat) /\ Len(Bytes16(u)) = 2
  <2>1. u % Base \in Nat /\ u \div Base \in Nat
    BY <1>1, HalvesTyped
  <2> QED
    BY <2>1 DEF Bytes16
<1>3. ASSUME NEW u \in Nat
      PROVE  Bytes32(u) \in Seq(Nat) /\ Len(Bytes32(u)) = 4
  <2>1. u % Word16 \in Nat /\ u \div Word16 \in Nat
    BY <1>1, HalvesTyped
  <2>2. /\ Bytes16(u % Word16) \in Seq(Nat) /\ Len(Bytes16(u % Word16)) = 2
        /\ Bytes16(u \div Word16) \in Seq(Nat) /\ Len(Bytes16(u \div Word16)) = 2
    BY <1>2, <2>1
  <2>3. /\ Bytes16(u % Word16) \o Bytes16(u \div Word16) \in Seq(Nat)
        /\ Len(Bytes16(u % Word16) \o Bytes16(u \div Word16)) = 2 + 2
    BY <2>2, Joined
  <2> QED
    BY <2>3 DEF Bytes32
<1>4. Bytes64(v) \in Seq(Nat) /\ Len(Bytes64(v)) = 8
  <2>1. v % Word32 \in Nat /\ v \div Word32 \in Nat
    BY <1>1, HalvesTyped
  <2>2. /\ Bytes32(v % Word32) \in Seq(Nat) /\ Len(Bytes32(v % Word32)) = 4
        /\ Bytes32(v \div Word32) \in Seq(Nat) /\ Len(Bytes32(v \div Word32)) = 4
    BY <1>3, <2>1
  <2>3. /\ Bytes32(v % Word32) \o Bytes32(v \div Word32) \in Seq(Nat)
        /\ Len(Bytes32(v % Word32) \o Bytes32(v \div Word32)) = 4 + 4
    BY <2>2, Joined
  <2> QED
    BY <2>3 DEF Bytes64
<1> QED
  BY <1>2, <1>3, <1>4

\* A file is a sequence of numbers.
LEMMA FileSeq ==
  ASSUME file \in Files
  PROVE  file \in Seq(Nat) /\ len = Len(file) /\ len \in Nat
<1>1. PICK S : S = 0 .. (Base - 1)
  OBVIOUS
<1>2. file \in Seq(S) /\ S \subseteq Nat
  BY <1>1, FramingAssumption
<1> QED
  BY <1>2, SeqMonotonic, LenProperties DEF len

\* Where a number is put down in 2 bytes parse_var_int reads it.
LEMMA Read16 ==
  ASSUME file \in Files, NEW o \in Nat, o + 2 <= len,
         NEW v \in 0 .. (Word16 - 1), Agrees(file, Bytes16(v), o)
  PROVE  UInt16(o) = v
<1>1. /\ Base \in Nat /\ Base > 0 /\ Word16 \in Nat /\ Word16 = Base * Base
      /\ len \in Nat /\ len = Len(file)
  BY WordWidths, FileSeq DEF Word16
<1>2. (v % Base) + Base * (v \div Base) = v
  BY <1>1, Halves
<1>3. /\ Len(Bytes16(v)) = 2
      /\ Bytes16(v)[1] = v % Base /\ Bytes16(v)[2] = v \div Base
  BY DEF Bytes16
<1>4. file[o + 1] = v % Base /\ file[o + 2] = v \div Base
  BY <1>1, <1>3 DEF Agrees
<1>5. o + 1 + 1 = o + 2
  OBVIOUS
<1> QED
  BY <1>2, <1>4, <1>5 DEF UInt16, Byte

\* The same for 4 bytes.
LEMMA Read32 ==
  ASSUME file \in Files, NEW o \in Nat, o + 4 <= len,
         NEW v \in 0 .. (Word32 - 1), Agrees(file, Bytes32(v), o)
  PROVE  UInt32(o) = v
<1>1. /\ Word16 \in Nat /\ Word16 > 0 /\ Word32 \in Nat /\ Word32 = Word16 * Word16
      /\ len \in Nat /\ file \in Seq(Nat)
  BY WordWidths, FileSeq DEF Word32
<1>2. PICK a, b : a = v % Word16 /\ b = v \div Word16
  OBVIOUS
<1>3. /\ a \in 0 .. (Word16 - 1) /\ b \in 0 .. (Word16 - 1) /\ a + Word16 * b = v
  BY <1>1, <1>2, Halves
<1>4. a \in Nat /\ b \in Nat
  BY <1>1, <1>3
<1>5. /\ Bytes16(a) \in Seq(Nat) /\ Len(Bytes16(a)) = 2
      /\ Bytes16(b) \in Seq(Nat) /\ Bytes32(v) = Bytes16(a) \o Bytes16(b)
  BY <1>2, <1>4, BytesFacts DEF Bytes32
<1>6. Agrees(file, Bytes16(a), o) /\ Agrees(file, Bytes16(b), o + 2)
  BY <1>1, <1>5, AgreesJoined
<1>7. o + 2 <= len /\ o + 2 + 2 <= len /\ o + 2 \in Nat
  BY <1>1
<1>8. UInt16(o) = a /\ UInt16(o + 2) = b
  BY <1>3, <1>6, <1>7, Read16
<1> QED
  BY <1>3, <1>8 DEF UInt32

\* The same for 8 bytes.
LEMMA Read64 ==
  ASSUME file \in Files, NEW o \in Nat, o + 8 <= len,
         NEW v \in 0 .. (Word - 1), Agrees(file, Bytes64(v), o)
  PROVE  UInt64(o) = v
<1>1. /\ Word32 \in Nat /\ Word32 > 0 /\ Word \in Nat /\ Word = Word32 * Word32
      /\ len \in Nat /\ file \in Seq(Nat)
  BY WordWidths, FileSeq DEF Word
<1>2. PICK a, b : a = v % Word32 /\ b = v \div Word32
  OBVIOUS
<1>3. /\ a \in 0 .. (Word32 - 1) /\ b \in 0 .. (Word32 - 1) /\ a + Word32 * b = v
  BY <1>1, <1>2, Halves
<1>4. a \in Nat /\ b \in Nat
  BY <1>1, <1>3
<1>5. /\ Bytes32(a) \in Seq(Nat) /\ Len(Bytes32(a)) = 4
      /\ Bytes32(b) \in Seq(Nat) /\ Bytes64(v) = Bytes32(a) \o Bytes32(b)
  BY <1>2, <1>4, BytesFacts DEF Bytes64
<1>6. Agrees(file, Bytes32(a), o) /\ Agrees(file, Bytes32(b), o + 4)
  BY <1>1, <1>5, AgreesJoined
<1>7. o + 4 <= len /\ o + 4 + 4 <= len /\ o + 4 \in Nat
  BY <1>1
<1>8. UInt32(o) = a /\ UInt32(o + 4) = b
  BY <1>3, <1>6, <1>7, Read32
<1> QED
  BY <1>3, <1>8 DEF UInt64

\* The encoding of a number: a byte that says how many more there are, and these.
LEMMA EncodeShape ==
  ASSUME NEW v \in Nat, NEW w \in Nat
  PROVE  \/ v < Base - 3 /\ Encode(v, w) = <<v>>
         \/ v < Word16 /\ Encode(v, w) = <<Base - 3>> \o Bytes16(v)
         \/ v < Word32 /\ Encode(v, w) = <<Base - 2>> \o Bytes32(v)
         \/ Encode(v, w) = <<Base - 1>> \o Bytes64(v)
BY DEF Encode

\* An encoding is of numbers, and 1, 3, 5 or 9 bytes long.
LEMMA EncodeFacts ==
  ASSUME NEW v \in Nat, NEW w \in Nat
  PROVE  Encode(v, w) \in Seq(Nat) /\ Len(Encode(v, w)) \in {1, 3, 5, 9}
<1>1. Base \in Nat /\ Base >= 5
  BY WordWidths
<1>2. /\ <<v>> \in Seq(Nat) /\ Len(<<v>>) = 1
      /\ <<Base - 3>> \in Seq(Nat) /\ Len(<<Base - 3>>) = 1
      /\ <<Base - 2>> \in Seq(Nat) /\ Len(<<Base - 2>>) = 1
      /\ <<Base - 1>> \in Seq(Nat) /\ Len(<<Base - 1>>) = 1
  BY <1>1
<1>3. /\ <<Base - 3>> \o Bytes16(v) \in Seq(Nat)
      /\ Len(<<Base - 3>> \o Bytes16(v)) = 3
  <2>1. Bytes16(v) \in Seq(Nat) /\ Len(Bytes16(v)) = 2
    BY BytesFacts
  <2>2. PICK s : s = <<Base - 3>>
    OBVIOUS
  <2>3. s \in Seq(Nat) /\ Len(s) = 1
    BY <1>2, <2>2
  <2>4. s \o Bytes16(v) \in Seq(Nat) /\ Len(s \o Bytes16(v)) = 1 + 2
    BY <2>1, <2>3, Joined
  <2> QED
    BY <2>2, <2>4
<1>4. /\ <<Base - 2>> \o Bytes32(v) \in Seq(Nat)
      /\ Len(<<Base - 2>> \o Bytes32(v)) = 5
  <2>1. Bytes32(v) \in Seq(Nat) /\ Len(Bytes32(v)) = 4
    BY BytesFacts
  <2>2. PICK s : s = <<Base - 2>>
    OBVIOUS
  <2>3. s \in Seq(Nat) /\ Len(s) = 1
    BY <1>2, <2>2
  <2>4. s \o Bytes32(v) \in Seq(Nat) /\ Len(s \o Bytes32(v)) = 1 + 4
    BY <2>1, <2>3, Joined
  <2> QED
    BY <2>2, <2>4
<1>5. /\ <<Base - 1>> \o Bytes64(v) \in Seq(Nat)
      /\ Len(<<Base - 1>> \o Bytes64(v)) = 9
  <2>1. Bytes64(v) \in Seq(Nat) /\ Len(Bytes64(v)) = 8
    BY BytesFacts
  <2>2. PICK s : s = <<Base - 1>>
    OBVIOUS
  <2>3. s \in Seq(Nat) /\ Len(s) = 1
    BY <1>2, <2>2
  <2>4. s \o Bytes64(v) \in Seq(Nat) /\ Len(s \o Bytes64(v)) = 1 + 8
    BY <2>1, <2>3, Joined
  <2> QED
    BY <2>2, <2>4
<1> QED
  BY <1>2, <1>3, <1>4, <1>5, EncodeShape

\* Where a number is encoded parse_var_int finds it, if all of its bytes are in
\* the file, and goes on where it ends.
LEMMA ReadEncoded ==
  ASSUME file \in Files, NEW o \in Nat, NEW v \in 0 .. (Word - 1), NEW w \in Nat,
         Agrees(file, Encode(v, w), o)
  PROVE  /\ Readable(o) <=> o + Len(Encode(v, w)) <= len
         /\ Readable(o) => VarInt(o) = v /\ Past(o) = o + Len(Encode(v, w))
<1>1. /\ Base \in Nat /\ Base >= 5 /\ Word \in Nat /\ v \in Nat
      /\ Word16 \in Nat /\ Word32 \in Nat
      /\ len \in Nat /\ file \in Seq(Nat) /\ len = Len(file)
  BY WordWidths, FileSeq
<1>2. CASE v < Base - 3 /\ Encode(v, w) = <<v>>
  <2>1. Len(Encode(v, w)) = 1 /\ Encode(v, w)[1] = v
    BY <1>2
  <2>2. ASSUME o + 1 <= len
        PROVE  Byte(o) = v
    BY <1>1, <2>1, <2>2 DEF Agrees, Byte
  <2>3. Extra(v) = 0
    <3>1. v # Base - 3 /\ v # Base - 2 /\ v # Base - 1
      BY <1>1, <1>2
    <3> QED
      BY <3>1 DEF Extra
  <2> QED
    <3>1. Readable(o) <=> o + 1 <= len
      <4>1. Readable(o) <=> o + 1 <= len /\ o + (1 + Extra(Byte(o))) <= len
        BY DEF Readable, Within
      <4>2. o + 1 <= len => o + (1 + Extra(Byte(o))) = o + 1
        BY <2>2, <2>3
      <4> QED
        BY <4>1, <4>2
    <3>2. ASSUME Readable(o)
          PROVE  VarInt(o) = v /\ Past(o) = o + 1
      <4>1. Byte(o) = v
        BY <2>2, <3>1, <3>2
      <4>2. VarInt(o) = v
        BY <2>3, <4>1 DEF VarInt
      <4>3. Past(o) = o + 1
        BY <2>3, <4>1 DEF Past
      <4> QED
        BY <4>2, <4>3
    <3> QED
      BY <2>1, <3>1, <3>2
<1>3. ASSUME NEW b \in Nat, NEW s \in Seq(Nat), Extra(b) = Len(s),
             Encode(v, w) = <<b>> \o s
      PROVE  /\ Readable(o) <=> o + Len(Encode(v, w)) <= len
             /\ Readable(o) => /\ Past(o) = o + Len(Encode(v, w))
                               /\ Byte(o) = b /\ o + 1 + Len(s) <= len
             /\ Agrees(file, s, o + 1)
  <2>1. <<b>> \in Seq(Nat) /\ Len(<<b>>) = 1 /\ <<b>>[1] = b /\ Len(s) \in Nat
    BY LenProperties
  <2>2. Agrees(file, <<b>>, o) /\ Agrees(file, s, o + 1)
    BY <1>1, <1>3, <2>1, AgreesJoined
  <2>3. Len(Encode(v, w)) = 1 + Len(s)
    BY <1>3, <2>1, Joined
  <2>4. ASSUME o + 1 <= len
        PROVE  Byte(o) = b
    <3>1. 1 \in 1 .. Len(<<b>>) /\ o + 1 <= Len(file)
      BY <1>1, <2>1, <2>4
    <3> QED
      BY <2>1, <2>2, <3>1 DEF Agrees, Byte
  <2>5. /\ Readable(o) <=> o + 1 + Len(s) <= len
        /\ Readable(o) => o + 1 <= len
    <3>1. Readable(o) <=> o + 1 <= len /\ o + (1 + Extra(Byte(o))) <= len
      BY DEF Readable, Within
    <3>2. o + 1 + Len(s) <= len => o + 1 <= len
      BY <1>1, <2>1
    <3>3. ASSUME o + 1 <= len
          PROVE  o + (1 + Extra(Byte(o))) = o + 1 + Len(s)
      <4>1. Extra(Byte(o)) = Len(s)
        BY <1>3, <2>4, <3>3
      <4> QED
        BY <2>1, <4>1
    <3> QED
      BY <3>1, <3>2, <3>3
  <2>6. o + Len(Encode(v, w)) = o + 1 + Len(s)
    BY <2>1, <2>3
  <2>7. ASSUME Readable(o)
        PROVE  Past(o) = o + 1 + Len(s) /\ Byte(o) = b
    BY <1>3, <2>4, <2>5, <2>7 DEF Past
  <2> QED
    BY <2>2, <2>5, <2>6, <2>7
<1>4. CASE v < Word16 /\ Encode(v, w) = <<Base - 3>> \o Bytes16(v)
  <2>1. Extra(Base - 3) = 2 /\ Base - 3 \in Nat
    <3>1. Base - 3 \in Nat
      BY <1>1
    <3>2. Base - 3 # Base - 2 /\ Base - 3 # Base - 1
      BY <1>1
    <3> QED
      BY <3>1, <3>2 DEF Extra
  <2>2. Bytes16(v) \in Seq(Nat) /\ Len(Bytes16(v)) = 2
    BY <1>1, BytesFacts
  <2>3. /\ Readable(o) <=> o + Len(Encode(v, w)) <= len
        /\ Readable(o) => /\ Past(o) = o + Len(Encode(v, w))
                          /\ Byte(o) = Base - 3 /\ o + 1 + 2 <= len
        /\ Agrees(file, Bytes16(v), o + 1)
    BY <1>3, <1>4, <2>1, <2>2
  <2>4. ASSUME Readable(o)
        PROVE  VarInt(o) = v
    <3>1. UInt16(o + 1) = v
      BY <1>1, <1>4, <2>3, <2>4, Read16
    <3> QED
      BY <2>1, <2>3, <2>4, <3>1 DEF VarInt
  <2> QED
    BY <2>3, <2>4
<1>5. CASE v < Word32 /\ Encode(v, w) = <<Base - 2>> \o Bytes32(v)
  <2>1. Extra(Base - 2) = 4 /\ Base - 2 \in Nat
    BY <1>1 DEF Extra
  <2>2. Bytes32(v) \in Seq(Nat) /\ Len(Bytes32(v)) = 4
    BY <1>1, BytesFacts
  <2>3. /\ Readable(o) <=> o + Len(Encode(v, w)) <= len
        /\ Readable(o) => /\ Past(o) = o + Len(Encode(v, w))
                          /\ Byte(o) = Base - 2 /\ o + 1 + 4 <= len
        /\ Agrees(file, Bytes32(v), o + 1)
    BY <1>3, <1>5, <2>1, <2>2
  <2>4. ASSUME Readable(o)
        PROVE  VarInt(o) = v
    <3>1. UInt32(o + 1) = v
      BY <1>1, <1>5, <2>3, <2>4, Read32
    <3> QED
      BY <2>1, <2>3, <2>4, <3>1 DEF VarInt
  <2> QED
    BY <2>3, <2>4
<1>6. CASE Encode(v, w) = <<Base - 1>> \o Bytes64(v)
  <2>1. Extra(Base - 1) = 8 /\ Base - 1 \in Nat
    BY <1>1 DEF Extra
  <2>2. Bytes64(v) \in Seq(Nat) /\ Len(Bytes64(v)) = 8
    BY <1>1, BytesFacts
  <2>3. /\ Readable(o) <=> o + Len(Encode(v, w)) <= len
        /\ Readable(o) => /\ Past(o) = o + Len(Encode(v, w))
                          /\ Byte(o) = Base - 1 /\ o + 1 + 8 <= len
        /\ Agrees(file, Bytes64(v), o + 1)
    BY <1>3, <1>6, <2>1, <2>2
  <2>4. ASSUME Readable(o)
        PROVE  VarInt(o) = v
    <3>1. UInt64(o + 1) = v
      BY <1>1, <2>3, <2>4, Read64
    <3> QED
      BY <2>1, <2>3, <2>4, <3>1 DEF VarInt
  <2> QED
    BY <2>3, <2>4
<1> QED
  BY <1>1, <1>2, <1>4, <1>5, <1>6, EncodeShape

-----------------------------------------------------------------------------
(* A head, and parts after it.                                             *)

List(head, parts, n) == head \o Upto(parts, n)

\* With one more part.
LEMMA ListNext ==
  ASSUME NEW S, NEW head \in Seq(S), NEW parts \in Seq(Seq(S)),
         NEW n \in 1 .. Len(parts)
  PROVE  /\ List(head, parts, n - 1) \in Seq(S) /\ List(head, parts, n) \in Seq(S)
         /\ parts[n] \in Seq(S)
         /\ List(head, parts, n) = List(head, parts, n - 1) \o parts[n]
         /\ Len(List(head, parts, n))
              = Len(List(head, parts, n - 1)) + Len(parts[n])
<1>1. Len(parts) \in Nat
  BY LenProperties
<1>2. n - 1 \in 0 .. Len(parts)
  BY <1>1
<1>3. PICK u, p : u = Upto(parts, n - 1) /\ p = parts[n]
  OBVIOUS
<1>4. u \in Seq(S) /\ p \in Seq(S) /\ Upto(parts, n) = u \o p
  BY <1>2, <1>3, UptoFacts
<1>5. (head \o u) \o p = head \o (u \o p)
  <2>1. u \in Seq(S) /\ p \in Seq(S)
    BY <1>4
  <2> QED
    BY <2>1, ConcatAssociative, SMTT(20)
<1>6. head \o u \in Seq(S)
  BY <1>4, ConcatProperties
<1>7. /\ (head \o u) \o p \in Seq(S)
      /\ Len((head \o u) \o p) = Len(head \o u) + Len(p)
  BY <1>4, <1>6, ConcatProperties
<1> QED
  BY <1>3, <1>4, <1>5, <1>6, <1>7 DEF List

\* Without parts; in all.
LEMMA ListFacts ==
  ASSUME NEW S, NEW head \in Seq(S), NEW parts \in Seq(Seq(S))
  PROVE  /\ List(head, parts, 0) = head
         /\ \A n \in 0 .. Len(parts) : List(head, parts, n) \in Seq(S)
<1>1. List(head, parts, 0) = head
  <2>1. Upto(parts, 0) = << >>
    BY UptoFacts
  <2> QED
    BY <2>1, ConcatEmptySeq DEF List
<1>2. \A n \in 0 .. Len(parts) : Upto(parts, n) \in Seq(S)
  BY UptoFacts
<1>3. \A n \in 0 .. Len(parts) : List(head, parts, n) \in Seq(S)
  BY <1>2, ConcatProperties DEF List
<1> QED
  BY <1>1, <1>3

\* What is common to two sequences comes before the same.
LEMMA BeginsAfter ==
  ASSUME NEW S, NEW head \in Seq(S), NEW s \in Seq(S), NEW t \in Seq(S), Begins(s, t)
  PROVE  Begins(head \o s, head \o t)
<1>1. /\ Len(head) \in Nat /\ Len(s) \in Nat /\ Len(t) \in Nat
      /\ Len(s) <= Len(t) /\ \A i \in 1 .. Len(s) : t[i] = s[i]
  BY LenProperties DEF Begins
<1>2. /\ Len(head \o s) = Len(head) + Len(s) /\ Len(head \o t) = Len(head) + Len(t)
      /\ \A i \in 1 .. Len(head) + Len(s) :
           (head \o s)[i] = IF i <= Len(head) THEN head[i] ELSE s[i - Len(head)]
      /\ \A i \in 1 .. Len(head) + Len(t) :
           (head \o t)[i] = IF i <= Len(head) THEN head[i] ELSE t[i - Len(head)]
  BY ConcatProperties
<1>3. ASSUME NEW i \in 1 .. Len(head \o s)
      PROVE  (head \o t)[i] = (head \o s)[i]
  <2>1. i \in 1 .. Len(head) + Len(s) /\ i \in 1 .. Len(head) + Len(t)
    BY <1>1, <1>2
  <2>2. CASE i <= Len(head)
    BY <1>2, <2>1, <2>2
  <2>3. CASE i > Len(head)
    <3>1. i - Len(head) \in 1 .. Len(s)
      BY <1>1, <2>1, <2>3
    <3>2. t[i - Len(head)] = s[i - Len(head)]
      BY <1>1, <3>1
    <3>3. ~(i <= Len(head))
      BY <1>1, <2>1, <2>3
    <3> QED
      BY <1>2, <2>1, <3>2, <3>3
  <2> QED
    BY <1>1, <2>1, <2>2, <2>3
<1>4. Len(head \o s) <= Len(head \o t)
  BY <1>1, <1>2
<1> QED
  BY <1>3, <1>4 DEF Begins

\* With fewer of the parts it is the beginning of what it is with more.
LEMMA ListBegins ==
  ASSUME NEW S, NEW head \in Seq(S), NEW parts \in Seq(Seq(S)),
         NEW n \in 0 .. Len(parts), NEW m \in 0 .. Len(parts), n <= m
  PROVE  /\ Begins(List(head, parts, n), List(head, parts, m))
         /\ Len(List(head, parts, n)) <= Len(List(head, parts, m))
<1>1. Upto(parts, n) \in Seq(S) /\ Upto(parts, m) \in Seq(S)
  BY UptoFacts
<1>2. Begins(Upto(parts, n), Upto(parts, m))
  BY UptoBegins
<1>3. Begins(head \o Upto(parts, n), head \o Upto(parts, m))
  BY <1>1, <1>2, BeginsAfter
<1> QED
  BY <1>3 DEF List, Begins

\* Parts that are not empty.
LEMMA ListLength ==
  ASSUME NEW S, NEW head \in Seq(S), NEW parts \in Seq(Seq(S)),
         \A k \in 1 .. Len(parts) : parts[k] # << >>
  PROVE  Len(parts) <= Len(List(head, parts, Len(parts)))
<1>1. Len(parts) \in Nat
  BY LenProperties
<1>2. Len(Upto(parts, Len(parts))) >= Len(parts)
  BY UptoLength
<1>3. Upto(parts, Len(parts)) \in Seq(S)
  <2>1. Len(parts) \in 0 .. Len(parts)
    BY <1>1
  <2> QED
    BY <2>1, UptoFacts
<1>4. /\ Len(List(head, parts, Len(parts))) = Len(head) + Len(Upto(parts, Len(parts)))
      /\ Len(head) \in Nat /\ Len(Upto(parts, Len(parts))) \in Nat
  BY <1>3, ConcatProperties, LenProperties DEF List
<1>5. PICK a, b : a = Len(head) /\ b = Len(Upto(parts, Len(parts)))
  OBVIOUS
<1>6. a \in Nat /\ b \in Nat /\ b >= Len(parts)
  BY <1>2, <1>4, <1>5
<1>7. Len(parts) <= a + b
  BY <1>1, <1>6
<1> QED
  BY <1>4, <1>5, <1>7

\* Head and parts are each where they are in the whole.
LEMMA ListAgrees ==
  ASSUME NEW S, NEW f \in Seq(S), NEW head \in Seq(S), NEW parts \in Seq(Seq(S)),
         NEW o \in Nat, Agrees(f, List(head, parts, Len(parts)), o)
  PROVE  /\ Agrees(f, head, o)
         /\ \A n \in 1 .. Len(parts) :
              Agrees(f, parts[n], o + Len(List(head, parts, n - 1)))
<1>1. Len(parts) \in Nat
  BY LenProperties
<1>2. ASSUME NEW n \in 0 .. Len(parts)
      PROVE  List(head, parts, n) \in Seq(S) /\ Agrees(f, List(head, parts, n), o)
  <2>1. /\ List(head, parts, n) \in Seq(S)
        /\ List(head, parts, Len(parts)) \in Seq(S)
    <3>1. Len(parts) \in 0 .. Len(parts)
      BY <1>1
    <3>2. \A i \in 0 .. Len(parts) : List(head, parts, i) \in Seq(S)
      BY ListFacts
    <3> QED
      BY <3>1, <3>2
  <2>2. Begins(List(head, parts, n), List(head, parts, Len(parts)))
    BY <1>1, ListBegins
  <2> QED
    BY <2>1, <2>2, AgreesBegins
<1>3. Agrees(f, head, o)
  <2>1. Agrees(f, List(head, parts, 0), o)
    BY <1>1, <1>2
  <2> QED
    BY <2>1, ListFacts
<1>4. ASSUME NEW n \in 1 .. Len(parts)
      PROVE  Agrees(f, parts[n], o + Len(List(head, parts, n - 1)))
  <2>1. n \in 0 .. Len(parts) /\ n - 1 \in 0 .. Len(parts)
    BY <1>1
  <2>2. /\ List(head, parts, n - 1) \in Seq(S) /\ parts[n] \in Seq(S)
        /\ List(head, parts, n) = List(head, parts, n - 1) \o parts[n]
    BY ListNext, ZenonT(30)
  <2>3. Agrees(f, List(head, parts, n - 1) \o parts[n], o)
    BY <1>2, <2>1, <2>2
  <2> QED
    BY <2>2, <2>3, AgreesConcat
<1> QED
  BY <1>3, <1>4

-----------------------------------------------------------------------------
(* Where the parts of a chain are.                                         *)

\* The lengths of the fields, and bytes to fill them with.
LEMMA FieldFacts ==
  /\ FrameLen \in Nat /\ HeadLen \in Nat /\ VersLen \in Nat /\ OutpLen \in Nat
  /\ SeqLen \in Nat /\ ValLen \in Nat /\ LockLen \in Nat
  /\ FrameLen >= 1 /\ HeadLen >= 1 /\ VersLen >= 1 /\ OutpLen >= 1
  /\ SeqLen >= 1 /\ ValLen >= 1 /\ LockLen >= 1
  /\ EmptyLen \in Nat /\ EmptyLen >= 3 /\ FrameLen + HeadLen = EmptyLen - 1
BY FramingAssumption DEF EmptyLen

\* Filler is of numbers, as many as are asked for.
LEMMA FillerFacts ==
  ASSUME NEW n \in Nat
  PROVE  Filler(n) \in Seq(Nat) /\ Len(Filler(n)) = n
<1>1. Base - 1 \in Nat
  BY FramingAssumption
<1> QED
  BY <1>1 DEF Filler

\* Three sequences of numbers, one after the other.
LEMMA Joined3 ==
  ASSUME NEW s \in Seq(Nat), NEW t \in Seq(Nat), NEW u \in Seq(Nat)
  PROVE  /\ (s \o t) \o u \in Seq(Nat)
         /\ Len((s \o t) \o u) = Len(s) + Len(t) + Len(u)
<1>1. s \o t \in Seq(Nat) /\ Len(s \o t) = Len(s) + Len(t)
  BY Joined
<1> QED
  BY <1>1, Joined

\* A transaction is two sequences of numbers.
LEMMA TransactionFacts ==
  ASSUME NEW t \in Transactions
  PROVE  /\ t.ins \in Seq(Nat) /\ Len(t.ins) \in Nat
         /\ DOMAIN t.ins = 1 .. Len(t.ins)
         /\ \A j \in 1 .. Len(t.ins) : t.ins[j] \in Nat
         /\ t.outs \in Seq(Nat) /\ Len(t.outs) \in Nat
         /\ DOMAIN t.outs = 1 .. Len(t.outs)
         /\ \A j \in 1 .. Len(t.outs) : t.outs[j] \in Nat
<1>1. t.ins \in Seq(Nat) /\ t.outs \in Seq(Nat)
  BY DEF Transactions
<1> QED
  BY <1>1, LenProperties, ElementOfSeq

\* The parts of the inputs.
LEMMA InPartsFacts ==
  ASSUME NEW t \in Transactions, NEW w \in Nat
  PROVE  /\ InParts(t, w) \in Seq(Seq(Nat)) /\ Len(InParts(t, w)) = Len(t.ins)
         /\ \A j \in 1 .. Len(t.ins) :
              /\ InParts(t, w)[j]
                   = (Filler(OutpLen) \o Encode(t.ins[j], w))
                       \o Filler(t.ins[j] + SeqLen)
              /\ Len(InParts(t, w)[j])
                   = OutpLen + Len(Encode(t.ins[j], w)) + (t.ins[j] + SeqLen)
<1> DEFINE part(j) == (Filler(OutpLen) \o Encode(t.ins[j], w))
                        \o Filler(t.ins[j] + SeqLen)
<1>1. ASSUME NEW j \in 1 .. Len(t.ins)
      PROVE  /\ part(j) \in Seq(Nat)
             /\ Len(part(j)) = OutpLen + Len(Encode(t.ins[j], w)) + (t.ins[j] + SeqLen)
  <2>1. t.ins[j] \in Nat /\ OutpLen \in Nat /\ t.ins[j] + SeqLen \in Nat
    BY TransactionFacts, FieldFacts
  <2>2. /\ Filler(OutpLen) \in Seq(Nat) /\ Len(Filler(OutpLen)) = OutpLen
        /\ Encode(t.ins[j], w) \in Seq(Nat)
        /\ Filler(t.ins[j] + SeqLen) \in Seq(Nat)
        /\ Len(Filler(t.ins[j] + SeqLen)) = t.ins[j] + SeqLen
    BY <2>1, FillerFacts, EncodeFacts
  <2>3. PICK a, b, u : /\ a = Filler(OutpLen) /\ b = Encode(t.ins[j], w)
                       /\ u = Filler(t.ins[j] + SeqLen)
    OBVIOUS
  <2>4. (a \o b) \o u \in Seq(Nat) /\ Len((a \o b) \o u) = Len(a) + Len(b) + Len(u)
    BY <2>2, <2>3, Joined3
  <2> QED
    BY <2>2, <2>3, <2>4
<1>2. InParts(t, w) = [j \in 1 .. Len(t.ins) |-> part(j)] /\ Len(t.ins) \in Nat
  BY TransactionFacts DEF InParts
<1> HIDE DEF part
<1>3. InParts(t, w) \in Seq(Seq(Nat)) /\ Len(InParts(t, w)) = Len(t.ins)
  BY <1>1, <1>2
<1>4. \A j \in 1 .. Len(t.ins) : InParts(t, w)[j] = part(j)
  BY <1>2
<1> QED
  BY <1>1, <1>3, <1>4 DEF part

\* The parts of the outputs.
LEMMA OutPartsFacts ==
  ASSUME NEW t \in Transactions, NEW w \in Nat
  PROVE  /\ OutParts(t, w) \in Seq(Seq(Nat)) /\ Len(OutParts(t, w)) = Len(t.outs)
         /\ \A j \in 1 .. Len(t.outs) :
              /\ OutParts(t, w)[j]
                   = (Filler(ValLen) \o Encode(t.outs[j], w)) \o Filler(t.outs[j])
              /\ Len(OutParts(t, w)[j])
                   = ValLen + Len(Encode(t.outs[j], w)) + t.outs[j]
<1> DEFINE part(j) == (Filler(ValLen) \o Encode(t.outs[j], w)) \o Filler(t.outs[j])
<1>1. ASSUME NEW j \in 1 .. Len(t.outs)
      PROVE  /\ part(j) \in Seq(Nat)
             /\ Len(part(j)) = ValLen + Len(Encode(t.outs[j], w)) + t.outs[j]
  <2>1. t.outs[j] \in Nat /\ ValLen \in Nat
    BY TransactionFacts, FieldFacts
  <2>2. /\ Filler(ValLen) \in Seq(Nat) /\ Len(Filler(ValLen)) = ValLen
        /\ Encode(t.outs[j], w) \in Seq(Nat)
        /\ Filler(t.outs[j]) \in Seq(Nat) /\ Len(Filler(t.outs[j])) = t.outs[j]
    BY <2>1, FillerFacts, EncodeFacts
  <2>3. PICK a, b, u : /\ a = Filler(ValLen) /\ b = Encode(t.outs[j], w)
                       /\ u = Filler(t.outs[j])
    OBVIOUS
  <2>4. (a \o b) \o u \in Seq(Nat) /\ Len((a \o b) \o u) = Len(a) + Len(b) + Len(u)
    BY <2>2, <2>3, Joined3
  <2> QED
    BY <2>2, <2>3, <2>4
<1>2. OutParts(t, w) = [j \in 1 .. Len(t.outs) |-> part(j)] /\ Len(t.outs) \in Nat
  BY TransactionFacts DEF OutParts
<1> HIDE DEF part
<1>3. OutParts(t, w) \in Seq(Seq(Nat)) /\ Len(OutParts(t, w)) = Len(t.outs)
  BY <1>1, <1>2
<1>4. \A j \in 1 .. Len(t.outs) : OutParts(t, w)[j] = part(j)
  BY <1>2
<1> QED
  BY <1>1, <1>3, <1>4 DEF part

\* What comes before the inputs, the outputs and the transactions.
InHead(t, w) == Filler(VersLen) \o Encode(Len(t.ins), w)
OutHead(t, w) == ThroughIn(t, w, Len(t.ins)) \o Encode(Len(t.outs), w)
TxHead(b, w) == Filler(FrameLen + HeadLen) \o Encode(Len(b), w)

\* What comes before the inputs: how long it is.
LEMMA InHeadFacts ==
  ASSUME NEW t \in Transactions, NEW w \in Nat
  PROVE  /\ InHead(t, w) \in Seq(Nat)
         /\ Len(InHead(t, w)) = VersLen + Len(Encode(Len(t.ins), w))
         /\ \A j : ThroughIn(t, w, j) = List(InHead(t, w), InParts(t, w), j)
<1>1. /\ Filler(VersLen) \in Seq(Nat) /\ Len(Filler(VersLen)) = VersLen
      /\ Encode(Len(t.ins), w) \in Seq(Nat)
  BY FieldFacts, FillerFacts, TransactionFacts, EncodeFacts
<1> QED
  BY <1>1, Joined DEF InHead, ThroughIn, List

\* A transaction up to one of its inputs: what it takes.
LEMMA InPlaces ==
  ASSUME NEW t \in Transactions, NEW w \in Nat
  PROVE  /\ \A j \in 0 .. Len(t.ins) : /\ ThroughIn(t, w, j) \in Seq(Nat)
                                       /\ Len(ThroughIn(t, w, j)) \in Nat
         /\ Len(ThroughIn(t, w, 0)) = VersLen + Len(Encode(Len(t.ins), w))
         /\ \A j \in 1 .. Len(t.ins) :
              Len(ThroughIn(t, w, j)) =
                Len(ThroughIn(t, w, j - 1))
                  + (OutpLen + Len(Encode(t.ins[j], w)) + (t.ins[j] + SeqLen))
<1>1. /\ InHead(t, w) \in Seq(Nat) /\ InParts(t, w) \in Seq(Seq(Nat))
      /\ Len(InParts(t, w)) = Len(t.ins) /\ Len(t.ins) \in Nat
      /\ Len(InHead(t, w)) = VersLen + Len(Encode(Len(t.ins), w))
      /\ \A j : ThroughIn(t, w, j) = List(InHead(t, w), InParts(t, w), j)
  BY InHeadFacts, InPartsFacts, TransactionFacts
<1>2. ThroughIn(t, w, 0) = InHead(t, w)
  BY <1>1, ListFacts
<1>3. \A j \in 0 .. Len(t.ins) : ThroughIn(t, w, j) \in Seq(Nat)
  BY <1>1, ListFacts
<1>4. ASSUME NEW j \in 1 .. Len(t.ins)
      PROVE  Len(ThroughIn(t, w, j)) =
               Len(ThroughIn(t, w, j - 1))
                 + (OutpLen + Len(Encode(t.ins[j], w)) + (t.ins[j] + SeqLen))
  <2>1. Len(List(InHead(t, w), InParts(t, w), j))
          = Len(List(InHead(t, w), InParts(t, w), j - 1)) + Len(InParts(t, w)[j])
    <3>1. PICK head, parts : head = InHead(t, w) /\ parts = InParts(t, w)
      OBVIOUS
    <3>2. head \in Seq(Nat) /\ parts \in Seq(Seq(Nat)) /\ j \in 1 .. Len(parts)
      BY <1>1, <3>1
    <3>3. Len(List(head, parts, j)) = Len(List(head, parts, j - 1)) + Len(parts[j])
      BY <3>2, ListNext, ZenonT(30)
    <3> QED
      BY <3>1, <3>3
  <2>2. Len(InParts(t, w)[j])
          = OutpLen + Len(Encode(t.ins[j], w)) + (t.ins[j] + SeqLen)
    BY InPartsFacts
  <2> QED
    BY <1>1, <2>1, <2>2
<1>5. \A j \in 0 .. Len(t.ins) : Len(ThroughIn(t, w, j)) \in Nat
  BY <1>3, LenProperties
<1> QED
  BY <1>1, <1>2, <1>3, <1>4, <1>5

\* What comes before the outputs: how long it is.
LEMMA OutHeadFacts ==
  ASSUME NEW t \in Transactions, NEW w \in Nat
  PROVE  /\ OutHead(t, w) \in Seq(Nat)
         /\ Len(OutHead(t, w))
              = Len(ThroughIn(t, w, Len(t.ins))) + Len(Encode(Len(t.outs), w))
         /\ \A j : ThroughOut(t, w, j) = List(OutHead(t, w), OutParts(t, w), j)
<1>1. Len(t.ins) \in 0 .. Len(t.ins) /\ Len(t.outs) \in Nat
  BY TransactionFacts
<1>2. ThroughIn(t, w, Len(t.ins)) \in Seq(Nat) /\ Encode(Len(t.outs), w) \in Seq(Nat)
  BY <1>1, InPlaces, EncodeFacts
<1> QED
  BY <1>2, Joined DEF OutHead, ThroughOut, List

\* A transaction up to one of its outputs, and whole.
LEMMA OutPlaces ==
  ASSUME NEW t \in Transactions, NEW w \in Nat
  PROVE  /\ \A j \in 0 .. Len(t.outs) : /\ ThroughOut(t, w, j) \in Seq(Nat)
                                        /\ Len(ThroughOut(t, w, j)) \in Nat
         /\ Len(ThroughOut(t, w, 0))
              = Len(ThroughIn(t, w, Len(t.ins))) + Len(Encode(Len(t.outs), w))
         /\ \A j \in 1 .. Len(t.outs) :
              Len(ThroughOut(t, w, j)) =
                Len(ThroughOut(t, w, j - 1))
                  + (ValLen + Len(Encode(t.outs[j], w)) + t.outs[j])
         /\ TxBytes(t, w) \in Seq(Nat)
         /\ Len(TxBytes(t, w)) = Len(ThroughOut(t, w, Len(t.outs))) + LockLen
<1>1. /\ OutHead(t, w) \in Seq(Nat) /\ OutParts(t, w) \in Seq(Seq(Nat))
      /\ Len(OutParts(t, w)) = Len(t.outs) /\ Len(t.outs) \in Nat
      /\ Len(OutHead(t, w))
           = Len(ThroughIn(t, w, Len(t.ins))) + Len(Encode(Len(t.outs), w))
      /\ \A j : ThroughOut(t, w, j) = List(OutHead(t, w), OutParts(t, w), j)
  BY OutHeadFacts, OutPartsFacts, TransactionFacts
<1>2. ThroughOut(t, w, 0) = OutHead(t, w)
  BY <1>1, ListFacts
<1>3. \A j \in 0 .. Len(t.outs) : ThroughOut(t, w, j) \in Seq(Nat)
  BY <1>1, ListFacts
<1>4. ASSUME NEW j \in 1 .. Len(t.outs)
      PROVE  Len(ThroughOut(t, w, j)) =
               Len(ThroughOut(t, w, j - 1))
                 + (ValLen + Len(Encode(t.outs[j], w)) + t.outs[j])
  <2>1. Len(List(OutHead(t, w), OutParts(t, w), j))
          = Len(List(OutHead(t, w), OutParts(t, w), j - 1)) + Len(OutParts(t, w)[j])
    <3>1. PICK head, parts : head = OutHead(t, w) /\ parts = OutParts(t, w)
      OBVIOUS
    <3>2. head \in Seq(Nat) /\ parts \in Seq(Seq(Nat)) /\ j \in 1 .. Len(parts)
      BY <1>1, <3>1
    <3>3. Len(List(head, parts, j)) = Len(List(head, parts, j - 1)) + Len(parts[j])
      BY <3>2, ListNext, ZenonT(30)
    <3> QED
      BY <3>1, <3>3
  <2>2. Len(OutParts(t, w)[j]) = ValLen + Len(Encode(t.outs[j], w)) + t.outs[j]
    BY OutPartsFacts
  <2> QED
    BY <1>1, <2>1, <2>2
<1>5. \A j \in 0 .. Len(t.outs) : Len(ThroughOut(t, w, j)) \in Nat
  BY <1>3, LenProperties
<1>6. /\ TxBytes(t, w) \in Seq(Nat)
      /\ Len(TxBytes(t, w)) = Len(ThroughOut(t, w, Len(t.outs))) + LockLen
  <2>1. ThroughOut(t, w, Len(t.outs)) \in Seq(Nat)
    BY <1>1, <1>3
  <2>2. Filler(LockLen) \in Seq(Nat) /\ Len(Filler(LockLen)) = LockLen
    BY FieldFacts, FillerFacts
  <2> QED
    BY <2>1, <2>2, Joined DEF TxBytes
<1> QED
  BY <1>1, <1>2, <1>3, <1>4, <1>5, <1>6

\* Nothing in a transaction is longer, nor a count greater, than the transaction.
LEMMA TxSizes ==
  ASSUME NEW t \in Transactions, NEW w \in Nat
  PROVE  /\ Len(TxBytes(t, w)) \in Nat /\ Len(TxBytes(t, w)) >= 1
         /\ Len(t.ins) <= Len(TxBytes(t, w)) /\ Len(t.outs) <= Len(TxBytes(t, w))
         /\ \A j \in 0 .. Len(t.ins) : Len(ThroughIn(t, w, j)) <= Len(TxBytes(t, w))
         /\ \A j \in 0 .. Len(t.outs) : Len(ThroughOut(t, w, j)) <= Len(TxBytes(t, w))
         /\ \A j \in 1 .. Len(t.ins) : t.ins[j] <= Len(TxBytes(t, w))
         /\ \A j \in 1 .. Len(t.outs) : t.outs[j] <= Len(TxBytes(t, w))
<1>1. PICK m, n, z : m = Len(t.ins) /\ n = Len(t.outs) /\ z = Len(TxBytes(t, w))
  OBVIOUS
<1>2. PICK in, out : /\ in = [j \in 0 .. m |-> Len(ThroughIn(t, w, j))]
                     /\ out = [j \in 0 .. n |-> Len(ThroughOut(t, w, j))]
  OBVIOUS
<1>3. m \in Nat /\ n \in Nat /\ m \in 0 .. m /\ n \in 0 .. n /\ 0 \in 0 .. n
  BY <1>1, TransactionFacts
<1>4. /\ \A j \in 0 .. m : in[j] = Len(ThroughIn(t, w, j)) /\ in[j] \in Nat
      /\ \A j \in 0 .. n : out[j] = Len(ThroughOut(t, w, j)) /\ out[j] \in Nat
  BY <1>1, <1>2, InPlaces, OutPlaces
<1>5. ASSUME NEW j \in 0 .. m
      PROVE  in[j] <= in[m]
  <2>1. PICK head, parts : head = InHead(t, w) /\ parts = InParts(t, w)
    OBVIOUS
  <2>2. /\ head \in Seq(Nat) /\ parts \in Seq(Seq(Nat)) /\ Len(parts) = m
        /\ \A i : ThroughIn(t, w, i) = List(head, parts, i)
    BY <1>1, <2>1, InHeadFacts, InPartsFacts
  <2>3. j \in 0 .. Len(parts) /\ m \in 0 .. Len(parts) /\ j <= m
    BY <1>3, <2>2
  <2>4. Len(List(head, parts, j)) <= Len(List(head, parts, m))
    BY <2>2, <2>3, ListBegins
  <2> QED
    BY <1>3, <1>4, <2>2, <2>4
<1>6. ASSUME NEW j \in 0 .. n
      PROVE  out[j] <= out[n] /\ out[0] <= out[n]
  <2>1. PICK head, parts : head = OutHead(t, w) /\ parts = OutParts(t, w)
    OBVIOUS
  <2>2. /\ head \in Seq(Nat) /\ parts \in Seq(Seq(Nat)) /\ Len(parts) = n
        /\ \A i : ThroughOut(t, w, i) = List(head, parts, i)
    BY <1>1, <2>1, OutHeadFacts, OutPartsFacts
  <2>3. j \in 0 .. Len(parts) /\ 0 \in 0 .. Len(parts) /\ n \in 0 .. Len(parts)
        /\ j <= n /\ 0 <= n
    BY <1>3, <2>2
  <2>4. /\ Len(List(head, parts, j)) <= Len(List(head, parts, n))
        /\ Len(List(head, parts, 0)) <= Len(List(head, parts, n))
    BY <2>2, <2>3, ListBegins
  <2> QED
    BY <1>3, <1>4, <2>2, <2>4
<1>7. /\ in[m] <= out[0] /\ z = out[n] + LockLen /\ LockLen \in Nat /\ LockLen >= 1
      /\ out[n] \in Nat /\ out[0] \in Nat /\ in[m] \in Nat
  <2>1. Len(Encode(n, w)) \in Nat
    BY <1>3, EncodeFacts, LenProperties
  <2>2. out[0] = in[m] + Len(Encode(n, w))
    <3>1. Len(ThroughOut(t, w, 0))
            = Len(ThroughIn(t, w, Len(t.ins))) + Len(Encode(Len(t.outs), w))
      BY OutPlaces
    <3> QED
      BY <1>1, <1>3, <1>4, <3>1
  <2>3. z = out[n] + LockLen
    <3>1. Len(TxBytes(t, w)) = Len(ThroughOut(t, w, Len(t.outs))) + LockLen
      BY OutPlaces
    <3> QED
      BY <1>1, <1>3, <1>4, <3>1
  <2> QED
    BY <1>3, <1>4, <2>1, <2>2, <2>3, FieldFacts
<1>8. z \in Nat /\ z >= 1 /\ in[m] <= z /\ out[n] <= z
  BY <1>3, <1>6, <1>7
<1>9. \A j \in 0 .. m : in[j] <= z
  BY <1>3, <1>4, <1>5, <1>8
<1>10. \A j \in 0 .. n : out[j] <= z
  BY <1>3, <1>4, <1>6, <1>8
<1>11. ASSUME NEW j \in 1 .. m
       PROVE  t.ins[j] <= in[j] /\ InParts(t, w)[j] # << >> /\ t.ins[j] <= z
  <2>1. PICK a, e : a = t.ins[j] /\ e = Len(Encode(t.ins[j], w))
    OBVIOUS
  <2>2. a \in Nat /\ e \in Nat /\ OutpLen \in Nat /\ SeqLen \in Nat /\ OutpLen >= 1
    <3>1. t.ins[j] \in Nat
      BY <1>1, TransactionFacts
    <3>2. Len(Encode(t.ins[j], w)) \in {1, 3, 5, 9}
      BY <3>1, EncodeFacts
    <3> QED
      BY <2>1, <3>1, <3>2, FieldFacts
  <2>3. j \in 0 .. m /\ j - 1 \in 0 .. m
    BY <1>3
  <2>4. in[j] = in[j - 1] + (OutpLen + e + (a + SeqLen))
    <3>1. in[j] = Len(ThroughIn(t, w, j)) /\ in[j - 1] = Len(ThroughIn(t, w, j - 1))
      BY <1>4, <2>3
    <3>2. j \in 1 .. Len(t.ins)
      BY <1>1
    <3>3. Len(ThroughIn(t, w, j)) =
            Len(ThroughIn(t, w, j - 1))
              + (OutpLen + Len(Encode(t.ins[j], w)) + (t.ins[j] + SeqLen))
      BY <3>2, InPlaces
    <3> QED
      BY <2>1, <3>1, <3>3
  <2>5. in[j] \in Nat /\ in[j - 1] \in Nat /\ in[j] <= z
    BY <1>4, <1>9, <2>3
  <2>6. a <= in[j] /\ a <= z
    BY <1>8, <2>2, <2>4, <2>5
  <2>7. Len(InParts(t, w)[j]) = OutpLen + e + (a + SeqLen)
    BY <1>1, <2>1, InPartsFacts
  <2>8. OutpLen + e + (a + SeqLen) # 0
    BY <2>2
  <2> QED
    BY <2>1, <2>6, <2>7, <2>8
<1>12. ASSUME NEW j \in 1 .. n
       PROVE  t.outs[j] <= out[j] /\ OutParts(t, w)[j] # << >> /\ t.outs[j] <= z
  <2>1. PICK a, e : a = t.outs[j] /\ e = Len(Encode(t.outs[j], w))
    OBVIOUS
  <2>2. a \in Nat /\ e \in Nat /\ ValLen \in Nat /\ ValLen >= 1
    <3>1. t.outs[j] \in Nat
      BY <1>1, TransactionFacts
    <3>2. Len(Encode(t.outs[j], w)) \in {1, 3, 5, 9}
      BY <3>1, EncodeFacts
    <3> QED
      BY <2>1, <3>1, <3>2, FieldFacts
  <2>3. j \in 0 .. n /\ j - 1 \in 0 .. n
    BY <1>3
  <2>4. out[j] = out[j - 1] + (ValLen + e + a)
    <3>1. j \in 1 .. Len(t.outs)
      BY <1>1
    <3>2. Len(ThroughOut(t, w, j)) =
            Len(ThroughOut(t, w, j - 1))
              + (ValLen + Len(Encode(t.outs[j], w)) + t.outs[j])
      BY <3>1, OutPlaces
    <3> QED
      BY <1>4, <2>1, <2>3, <3>2
  <2>5. out[j] \in Nat /\ out[j - 1] \in Nat /\ out[j] <= z
    BY <1>4, <1>10, <2>3
  <2>6. a <= out[j] /\ a <= z
    BY <1>8, <2>2, <2>4, <2>5
  <2>7. Len(OutParts(t, w)[j]) = ValLen + e + a
    BY <1>1, <2>1, OutPartsFacts
  <2>8. ValLen + e + a # 0
    BY <2>2
  <2> QED
    BY <2>1, <2>6, <2>7, <2>8
<1>13. m <= z
  <2>1. PICK head, parts : head = InHead(t, w) /\ parts = InParts(t, w)
    OBVIOUS
  <2>2. /\ head \in Seq(Nat) /\ parts \in Seq(Seq(Nat)) /\ Len(parts) = m
        /\ \A i : ThroughIn(t, w, i) = List(head, parts, i)
    BY <1>1, <2>1, InHeadFacts, InPartsFacts
  <2>3. \A j \in 1 .. Len(parts) : parts[j] # << >>
    BY <1>11, <2>1, <2>2
  <2>4. m <= in[m]
    BY <1>3, <1>4, <2>2, <2>3, ListLength
  <2> QED
    BY <1>3, <1>7, <1>8, <2>4
<1>14. n <= z
  <2>1. PICK head, parts : head = OutHead(t, w) /\ parts = OutParts(t, w)
    OBVIOUS
  <2>2. /\ head \in Seq(Nat) /\ parts \in Seq(Seq(Nat)) /\ Len(parts) = n
        /\ \A i : ThroughOut(t, w, i) = List(head, parts, i)
    BY <1>1, <2>1, OutHeadFacts, OutPartsFacts
  <2>3. \A j \in 1 .. Len(parts) : parts[j] # << >>
    BY <1>12, <2>1, <2>2
  <2>4. n <= out[n]
    BY <1>3, <1>4, <2>2, <2>3, ListLength
  <2> QED
    BY <1>3, <1>7, <1>8, <2>4
<1> QED
  BY <1>1, <1>4, <1>8, <1>9, <1>10, <1>11, <1>12, <1>13, <1>14

\* Where the counts and script lengths of a transaction are.
LEMMA TxAgrees ==
  ASSUME NEW f \in Seq(Nat), NEW o \in Nat,
         NEW t \in Transactions, NEW w \in Nat, Agrees(f, TxBytes(t, w), o)
  PROVE  /\ Agrees(f, Encode(Len(t.ins), w), o + VersLen)
         /\ \A j \in 1 .. Len(t.ins) :
              Agrees(f, Encode(t.ins[j], w), o + Len(ThroughIn(t, w, j - 1)) + OutpLen)
         /\ Agrees(f, Encode(Len(t.outs), w), o + Len(ThroughIn(t, w, Len(t.ins))))
         /\ \A j \in 1 .. Len(t.outs) :
              Agrees(f, Encode(t.outs[j], w), o + Len(ThroughOut(t, w, j - 1)) + ValLen)
<1>1. PICK ih, ip, oh, op : /\ ih = InHead(t, w) /\ ip = InParts(t, w)
                            /\ oh = OutHead(t, w) /\ op = OutParts(t, w)
  OBVIOUS
<1>2. /\ ih \in Seq(Nat) /\ ip \in Seq(Seq(Nat)) /\ Len(ip) = Len(t.ins)
      /\ \A i : ThroughIn(t, w, i) = List(ih, ip, i)
  BY <1>1, InHeadFacts, InPartsFacts
<1>3. /\ oh \in Seq(Nat) /\ op \in Seq(Seq(Nat)) /\ Len(op) = Len(t.outs)
      /\ \A i : ThroughOut(t, w, i) = List(oh, op, i)
  BY <1>1, OutHeadFacts, OutPartsFacts
<1>4. Len(t.ins) \in Nat /\ Len(t.outs) \in Nat
  BY TransactionFacts
<1>5. /\ ThroughOut(t, w, Len(t.outs)) \in Seq(Nat)
      /\ ThroughIn(t, w, Len(t.ins)) \in Seq(Nat)
      /\ \A j \in 1 .. Len(t.ins) : Len(ThroughIn(t, w, j - 1)) \in Nat
      /\ \A j \in 1 .. Len(t.outs) : Len(ThroughOut(t, w, j - 1)) \in Nat
  <2>1. Len(t.ins) \in 0 .. Len(t.ins) /\ Len(t.outs) \in 0 .. Len(t.outs)
    BY <1>4
  <2>2. /\ \A j \in 1 .. Len(t.ins) : j - 1 \in 0 .. Len(t.ins)
        /\ \A j \in 1 .. Len(t.outs) : j - 1 \in 0 .. Len(t.outs)
    BY <1>4
  <2> QED
    BY <2>1, <2>2, InPlaces, OutPlaces
<1>6. Agrees(f, ThroughOut(t, w, Len(t.outs)), o)
  <2>1. Filler(LockLen) \in Seq(Nat)
    BY FieldFacts, FillerFacts
  <2> QED
    <3>1. TxBytes(t, w) = ThroughOut(t, w, Len(t.outs)) \o Filler(LockLen)
      BY DEF TxBytes
    <3> QED
      BY <1>5, <2>1, <3>1, AgreesJoined
<1>7. /\ Agrees(f, oh, o)
      /\ \A j \in 1 .. Len(op) : Agrees(f, op[j], o + Len(List(oh, op, j - 1)))
  <2>1. Agrees(f, List(oh, op, Len(op)), o)
    BY <1>3, <1>6
  <2> QED
    BY <1>3, <2>1, ListAgrees
<1>8. /\ Agrees(f, ThroughIn(t, w, Len(t.ins)), o)
      /\ Agrees(f, Encode(Len(t.outs), w), o + Len(ThroughIn(t, w, Len(t.ins))))
  <2>1. Encode(Len(t.outs), w) \in Seq(Nat)
    BY <1>4, EncodeFacts
  <2>2. oh = ThroughIn(t, w, Len(t.ins)) \o Encode(Len(t.outs), w)
    BY <1>1 DEF OutHead
  <2> QED
    BY <1>5, <1>7, <2>1, <2>2, AgreesJoined
<1>9. /\ Agrees(f, ih, o)
      /\ \A j \in 1 .. Len(ip) : Agrees(f, ip[j], o + Len(List(ih, ip, j - 1)))
  <2>1. Agrees(f, List(ih, ip, Len(ip)), o)
    BY <1>2, <1>8
  <2> QED
    BY <1>2, <2>1, ListAgrees
<1>10. Agrees(f, Encode(Len(t.ins), w), o + VersLen)
  <2>1. /\ Filler(VersLen) \in Seq(Nat) /\ Len(Filler(VersLen)) = VersLen
        /\ Encode(Len(t.ins), w) \in Seq(Nat)
    BY <1>4, FieldFacts, FillerFacts, EncodeFacts
  <2>2. ih = Filler(VersLen) \o Encode(Len(t.ins), w)
    BY <1>1 DEF InHead
  <2> QED
    BY <1>9, <2>1, <2>2, AgreesJoined
<1>11. ASSUME NEW j \in 1 .. Len(t.ins)
       PROVE  Agrees(f, Encode(t.ins[j], w), o + Len(ThroughIn(t, w, j - 1)) + OutpLen)
  <2>1. PICK a, b, u, p : /\ a = Filler(OutpLen) /\ b = Encode(t.ins[j], w)
                          /\ u = Filler(t.ins[j] + SeqLen)
                          /\ p = o + Len(ThroughIn(t, w, j - 1))
    OBVIOUS
  <2>2. t.ins[j] \in Nat /\ OutpLen \in Nat /\ t.ins[j] + SeqLen \in Nat
    <3>1. t.ins[j] \in Nat
      BY TransactionFacts
    <3>2. OutpLen \in Nat /\ SeqLen \in Nat
      BY FieldFacts
    <3> QED
      BY <3>1, <3>2
  <2>3. /\ a \in Seq(Nat) /\ Len(a) = OutpLen /\ b \in Seq(Nat) /\ u \in Seq(Nat)
        /\ p \in Nat
    <3>1. Len(ThroughIn(t, w, j - 1)) \in Nat
      BY <1>5
    <3>2. a \in Seq(Nat) /\ Len(a) = OutpLen /\ b \in Seq(Nat) /\ u \in Seq(Nat)
      BY <2>1, <2>2, FillerFacts, EncodeFacts
    <3> QED
      BY <2>1, <3>1, <3>2
  <2>4. Agrees(f, (a \o b) \o u, p)
    <3>1. ip[j] = (a \o b) \o u
      BY <1>1, <2>1, InPartsFacts
    <3>2. Agrees(f, ip[j], o + Len(List(ih, ip, j - 1)))
      BY <1>2, <1>9
    <3> QED
      BY <1>2, <2>1, <3>1, <3>2
  <2>5. Agrees(f, a \o b, p)
    BY <2>3, <2>4, Joined, AgreesJoined
  <2>6. Agrees(f, b, p + Len(a))
    BY <2>3, <2>5, AgreesJoined
  <2> QED
    BY <2>1, <2>3, <2>6
<1>12. ASSUME NEW j \in 1 .. Len(t.outs)
       PROVE  Agrees(f, Encode(t.outs[j], w), o + Len(ThroughOut(t, w, j - 1)) + ValLen)
  <2>1. PICK a, b, u, p : /\ a = Filler(ValLen) /\ b = Encode(t.outs[j], w)
                          /\ u = Filler(t.outs[j])
                          /\ p = o + Len(ThroughOut(t, w, j - 1))
    OBVIOUS
  <2>2. t.outs[j] \in Nat /\ ValLen \in Nat
    BY TransactionFacts, FieldFacts
  <2>3. /\ a \in Seq(Nat) /\ Len(a) = ValLen /\ b \in Seq(Nat) /\ u \in Seq(Nat)
        /\ p \in Nat
    <3>1. Len(ThroughOut(t, w, j - 1)) \in Nat
      BY <1>5
    <3>2. a \in Seq(Nat) /\ Len(a) = ValLen /\ b \in Seq(Nat) /\ u \in Seq(Nat)
      BY <2>1, <2>2, FillerFacts, EncodeFacts
    <3> QED
      BY <2>1, <3>1, <3>2
  <2>4. Agrees(f, (a \o b) \o u, p)
    <3>1. op[j] = (a \o b) \o u
      BY <1>1, <2>1, OutPartsFacts
    <3>2. Agrees(f, op[j], o + Len(List(oh, op, j - 1)))
      BY <1>3, <1>7
    <3> QED
      BY <1>3, <2>1, <3>1, <3>2
  <2>5. Agrees(f, a \o b, p)
    BY <2>3, <2>4, Joined, AgreesJoined
  <2>6. Agrees(f, b, p + Len(a))
    BY <2>3, <2>5, AgreesJoined
  <2> QED
    BY <2>1, <2>3, <2>6
<1> QED
  BY <1>8, <1>10, <1>11, <1>12

\* The parts of a block are its transactions.
LEMMA TxPartsFacts ==
  ASSUME NEW b \in Seq(Transactions), NEW w \in Nat
  PROVE  /\ Len(b) \in Nat /\ \A i \in 1 .. Len(b) : b[i] \in Transactions
         /\ TxParts(b, w) \in Seq(Seq(Nat)) /\ Len(TxParts(b, w)) = Len(b)
         /\ \A i \in 1 .. Len(b) : TxParts(b, w)[i] = TxBytes(b[i], w)
         /\ TxHead(b, w) \in Seq(Nat)
         /\ Len(TxHead(b, w)) = FrameLen + HeadLen + Len(Encode(Len(b), w))
         /\ \A i : ThroughTx(b, w, i) = List(TxHead(b, w), TxParts(b, w), i)
<1>1. /\ Len(b) \in Nat /\ DOMAIN b = 1 .. Len(b)
      /\ \A i \in 1 .. Len(b) : b[i] \in Transactions
  BY LenProperties, ElementOfSeq
<1>2. \A i \in 1 .. Len(b) : TxBytes(b[i], w) \in Seq(Nat)
  BY <1>1, OutPlaces
<1>3. TxParts(b, w) = [i \in 1 .. Len(b) |-> TxBytes(b[i], w)]
  BY <1>1 DEF TxParts
<1>4. TxParts(b, w) \in Seq(Seq(Nat)) /\ Len(TxParts(b, w)) = Len(b)
  BY <1>1, <1>2, <1>3
<1>5. \A i \in 1 .. Len(b) : TxParts(b, w)[i] = TxBytes(b[i], w)
  BY <1>3
<1>6. FrameLen + HeadLen \in Nat
  BY FieldFacts
<1>7. /\ Filler(FrameLen + HeadLen) \in Seq(Nat)
      /\ Len(Filler(FrameLen + HeadLen)) = FrameLen + HeadLen
      /\ Encode(Len(b), w) \in Seq(Nat)
  BY <1>1, <1>6, FillerFacts, EncodeFacts
<1>8. /\ TxHead(b, w) \in Seq(Nat)
      /\ Len(TxHead(b, w)) = FrameLen + HeadLen + Len(Encode(Len(b), w))
  BY <1>7, Joined DEF TxHead
<1>9. \A i : ThroughTx(b, w, i) = List(TxHead(b, w), TxParts(b, w), i)
  BY DEF ThroughTx, List, TxHead
<1> QED
  BY <1>1, <1>4, <1>5, <1>8, <1>9

\* A block up to one of its transactions.
LEMMA TxPlaces ==
  ASSUME NEW b \in Seq(Transactions), NEW w \in Nat
  PROVE  /\ \A i \in 0 .. Len(b) :
              /\ ThroughTx(b, w, i) \in Seq(Nat) /\ Len(ThroughTx(b, w, i)) \in Nat
              /\ Len(ThroughTx(b, w, i)) <= Len(ThroughTx(b, w, Len(b)))
              /\ Len(ThroughTx(b, w, 0)) <= Len(ThroughTx(b, w, i))
         /\ Len(ThroughTx(b, w, 0)) = FrameLen + HeadLen + Len(Encode(Len(b), w))
         /\ \A i \in 1 .. Len(b) :
              Len(ThroughTx(b, w, i))
                = Len(ThroughTx(b, w, i - 1)) + Len(TxBytes(b[i], w))
         /\ Len(b) <= Len(ThroughTx(b, w, Len(b)))
<1>1. PICK head, parts : head = TxHead(b, w) /\ parts = TxParts(b, w)
  OBVIOUS
<1>2. /\ Len(b) \in Nat /\ head \in Seq(Nat) /\ parts \in Seq(Seq(Nat))
      /\ Len(parts) = Len(b)
      /\ Len(head) = FrameLen + HeadLen + Len(Encode(Len(b), w))
      /\ \A i : ThroughTx(b, w, i) = List(head, parts, i)
      /\ \A i \in 1 .. Len(b) : b[i] \in Transactions /\ parts[i] = TxBytes(b[i], w)
  BY <1>1, TxPartsFacts
<1>3. ASSUME NEW i \in 0 .. Len(b)
      PROVE  /\ ThroughTx(b, w, i) \in Seq(Nat) /\ Len(ThroughTx(b, w, i)) \in Nat
             /\ Len(ThroughTx(b, w, i)) <= Len(ThroughTx(b, w, Len(b)))
             /\ Len(ThroughTx(b, w, 0)) <= Len(ThroughTx(b, w, i))
  <2>1. /\ i \in 0 .. Len(parts) /\ 0 \in 0 .. Len(parts)
        /\ Len(parts) \in 0 .. Len(parts) /\ 0 <= i /\ i <= Len(parts)
    BY <1>2
  <2>2. List(head, parts, i) \in Seq(Nat)
    BY <1>2, <2>1, ListFacts
  <2>3. Len(List(head, parts, i)) <= Len(List(head, parts, Len(parts)))
    BY <1>2, <2>1, ListBegins
  <2>4. Len(List(head, parts, 0)) <= Len(List(head, parts, i))
    BY <1>2, <2>1, ListBegins
  <2>5. Len(List(head, parts, i)) \in Nat
    BY <2>2, LenProperties
  <2> QED
    BY <1>2, <2>2, <2>3, <2>4, <2>5
<1>4. Len(ThroughTx(b, w, 0)) = FrameLen + HeadLen + Len(Encode(Len(b), w))
  <2>1. List(head, parts, 0) = head
    BY <1>2, ListFacts
  <2> QED
    BY <1>2, <2>1
<1>5. ASSUME NEW i \in 1 .. Len(b)
      PROVE  Len(ThroughTx(b, w, i))
               = Len(ThroughTx(b, w, i - 1)) + Len(TxBytes(b[i], w))
  <2>1. i \in 1 .. Len(parts)
    BY <1>2
  <2>2. Len(List(head, parts, i)) = Len(List(head, parts, i - 1)) + Len(parts[i])
    BY <1>2, <2>1, ListNext
  <2>3. /\ ThroughTx(b, w, i) = List(head, parts, i)
        /\ ThroughTx(b, w, i - 1) = List(head, parts, i - 1)
        /\ parts[i] = TxBytes(b[i], w)
    BY <1>2
  <2> QED
    BY <2>2, <2>3
<1>6. Len(b) <= Len(ThroughTx(b, w, Len(b)))
  <2>1. ASSUME NEW i \in 1 .. Len(parts)
        PROVE  parts[i] # << >>
    <3>1. i \in 1 .. Len(b)
      BY <1>2
    <3>2. Len(TxBytes(b[i], w)) >= 1
      BY <1>2, <3>1, TxSizes
    <3>3. Len(parts[i]) # 0
      BY <1>2, <3>1, <3>2
    <3> QED
      BY <3>3
  <2>2. Len(parts) <= Len(List(head, parts, Len(parts)))
    BY <1>2, <2>1, ListLength
  <2> QED
    BY <1>2, <2>2
<1> QED
  BY <1>3, <1>4, <1>5, <1>6

\* Where the count and the transactions of a block are.
LEMMA BlockAgrees ==
  ASSUME NEW f \in Seq(Nat), NEW o \in Nat,
         NEW b \in Seq(Transactions), NEW w \in Nat,
         Agrees(f, ThroughTx(b, w, Len(b)), o)
  PROVE  /\ Agrees(f, Encode(Len(b), w), o + (FrameLen + HeadLen))
         /\ \A i \in 1 .. Len(b) :
              Agrees(f, TxBytes(b[i], w), o + Len(ThroughTx(b, w, i - 1)))
<1>1. PICK head, parts : head = TxHead(b, w) /\ parts = TxParts(b, w)
  OBVIOUS
<1>2. /\ Len(b) \in Nat /\ head \in Seq(Nat) /\ parts \in Seq(Seq(Nat))
      /\ Len(parts) = Len(b)
      /\ \A i : ThroughTx(b, w, i) = List(head, parts, i)
      /\ \A i \in 1 .. Len(b) : parts[i] = TxBytes(b[i], w)
  BY <1>1, TxPartsFacts
<1>3. /\ Agrees(f, head, o)
      /\ \A i \in 1 .. Len(parts) :
           Agrees(f, parts[i], o + Len(List(head, parts, i - 1)))
  <2>1. Agrees(f, List(head, parts, Len(parts)), o)
    BY <1>2
  <2> QED
    BY <1>2, <2>1, ListAgrees
<1>4. Agrees(f, Encode(Len(b), w), o + (FrameLen + HeadLen))
  <2>1. FrameLen + HeadLen \in Nat
    BY FieldFacts
  <2>2. PICK a, e : a = Filler(FrameLen + HeadLen) /\ e = Encode(Len(b), w)
    OBVIOUS
  <2>3. a \in Seq(Nat) /\ Len(a) = FrameLen + HeadLen /\ e \in Seq(Nat)
    BY <1>2, <2>1, <2>2, FillerFacts, EncodeFacts
  <2>4. head = a \o e
    BY <1>1, <2>2 DEF TxHead
  <2>5. Agrees(f, e, o + Len(a))
    BY <1>3, <2>3, <2>4, AgreesJoined
  <2> QED
    BY <2>2, <2>3, <2>5
<1>5. ASSUME NEW i \in 1 .. Len(b)
      PROVE  Agrees(f, TxBytes(b[i], w), o + Len(ThroughTx(b, w, i - 1)))
  BY <1>2, <1>3
<1> QED
  BY <1>4, <1>5

\* The parts of a chain are its blocks.
LEMMA BlockPartsFacts ==
  ASSUME NEW c \in Seq(Seq(Transactions)), NEW w \in Nat
  PROVE  /\ Len(c) \in Nat /\ \A k \in 1 .. Len(c) : c[k] \in Seq(Transactions)
         /\ BlockParts(c, w) \in Seq(Seq(Nat)) /\ Len(BlockParts(c, w)) = Len(c)
         /\ \A k \in 1 .. Len(c) :
              BlockParts(c, w)[k] = ThroughTx(c[k], w, Len(c[k]))
<1>1. /\ Len(c) \in Nat /\ DOMAIN c = 1 .. Len(c)
      /\ \A k \in 1 .. Len(c) : c[k] \in Seq(Transactions)
  BY LenProperties, ElementOfSeq
<1>2. ASSUME NEW k \in 1 .. Len(c)
      PROVE  ThroughTx(c[k], w, Len(c[k])) \in Seq(Nat)
  <2>1. PICK b : b = c[k]
    OBVIOUS
  <2>2. b \in Seq(Transactions) /\ Len(b) \in Nat
    BY <1>1, <2>1, LenProperties
  <2>3. Len(b) \in 0 .. Len(b)
    BY <2>2
  <2> QED
    BY <2>1, <2>2, <2>3, TxPlaces
<1>3. BlockParts(c, w) = [k \in 1 .. Len(c) |-> ThroughTx(c[k], w, Len(c[k]))]
  BY <1>1 DEF BlockParts
<1>4. BlockParts(c, w) \in Seq(Seq(Nat)) /\ Len(BlockParts(c, w)) = Len(c)
  BY <1>1, <1>2, <1>3
<1>5. \A k \in 1 .. Len(c) : BlockParts(c, w)[k] = ThroughTx(c[k], w, Len(c[k]))
  BY <1>3
<1> QED
  BY <1>1, <1>4, <1>5

\* The length of what comes before the k-th block; before the i-th transaction of it.
BlockPlace(c, w, k) == Len(ThroughBlock(c, w, k))
TxPlace(c, w, k, i) == BlockPlace(c, w, k) + Len(ThroughTx(c[k + 1], w, i))

\* A chain up to one of its blocks.
LEMMA BlockPlaces ==
  ASSUME NEW c \in Seq(Seq(Transactions)), NEW w \in Nat
  PROVE  /\ \A k \in 0 .. Len(c) :
              /\ ThroughBlock(c, w, k) \in Seq(Nat) /\ BlockPlace(c, w, k) \in Nat
              /\ BlockPlace(c, w, k) <= BlockPlace(c, w, Len(c))
              /\ Begins(ThroughBlock(c, w, k), ThroughBlock(c, w, Len(c)))
         /\ BlockPlace(c, w, 0) = 0
         /\ \A k \in 1 .. Len(c) :
              BlockPlace(c, w, k)
                = BlockPlace(c, w, k - 1) + Len(ThroughTx(c[k], w, Len(c[k])))
<1>1. PICK parts : parts = BlockParts(c, w)
  OBVIOUS
<1>2. /\ Len(c) \in Nat /\ parts \in Seq(Seq(Nat)) /\ Len(parts) = Len(c)
      /\ \A k : ThroughBlock(c, w, k) = Upto(parts, k)
      /\ \A k : BlockPlace(c, w, k) = Len(Upto(parts, k))
      /\ \A k \in 1 .. Len(c) : parts[k] = ThroughTx(c[k], w, Len(c[k]))
  BY <1>1, BlockPartsFacts DEF ThroughBlock, BlockPlace
<1>3. ASSUME NEW k \in 0 .. Len(c)
      PROVE  /\ ThroughBlock(c, w, k) \in Seq(Nat) /\ BlockPlace(c, w, k) \in Nat
             /\ BlockPlace(c, w, k) <= BlockPlace(c, w, Len(c))
             /\ Begins(ThroughBlock(c, w, k), ThroughBlock(c, w, Len(c)))
  <2>1. k \in 0 .. Len(parts) /\ Len(c) \in 0 .. Len(parts) /\ k <= Len(c)
    BY <1>2
  <2>2. Upto(parts, k) \in Seq(Nat)
    BY <1>2, <2>1, UptoFacts
  <2>3. Begins(Upto(parts, k), Upto(parts, Len(c)))
    BY <1>2, <2>1, UptoBegins
  <2>4. Len(Upto(parts, k)) \in Nat
    BY <2>2, LenProperties
  <2>5. Len(Upto(parts, k)) <= Len(Upto(parts, Len(c)))
    BY <2>3 DEF Begins
  <2> QED
    BY <1>2, <2>2, <2>3, <2>4, <2>5
<1>4. BlockPlace(c, w, 0) = 0
  <2>1. Upto(parts, 0) = << >>
    BY <1>2, UptoFacts
  <2> QED
    BY <1>2, <2>1
<1>5. ASSUME NEW k \in 1 .. Len(c)
      PROVE  BlockPlace(c, w, k)
               = BlockPlace(c, w, k - 1) + Len(ThroughTx(c[k], w, Len(c[k])))
  <2>1. k \in 1 .. Len(parts) /\ k - 1 \in 0 .. Len(parts)
    BY <1>2
  <2>2. /\ Upto(parts, k - 1) \in Seq(Nat) /\ parts[k] \in Seq(Nat)
        /\ Upto(parts, k) = Upto(parts, k - 1) \o parts[k]
    BY <1>2, <2>1, UptoFacts
  <2>3. Len(Upto(parts, k)) = Len(Upto(parts, k - 1)) + Len(parts[k])
    BY <2>2, Joined
  <2> QED
    BY <1>2, <2>3
<1> QED
  BY <1>3, <1>4, <1>5

\* Where the blocks of a chain are.
LEMMA ChainAgrees ==
  ASSUME NEW f \in Seq(Nat), NEW c \in Seq(Seq(Transactions)), NEW w \in Nat,
         Agrees(f, ThroughBlock(c, w, Len(c)), 0), NEW k \in 1 .. Len(c)
  PROVE  Agrees(f, ThroughTx(c[k], w, Len(c[k])), BlockPlace(c, w, k - 1))
<1>1. PICK parts : parts = BlockParts(c, w)
  OBVIOUS
<1>2. /\ Len(c) \in Nat /\ parts \in Seq(Seq(Nat)) /\ Len(parts) = Len(c)
      /\ \A i : ThroughBlock(c, w, i) = Upto(parts, i)
      /\ \A i : BlockPlace(c, w, i) = Len(Upto(parts, i))
      /\ parts[k] = ThroughTx(c[k], w, Len(c[k]))
  BY <1>1, BlockPartsFacts DEF ThroughBlock, BlockPlace
<1>3. Len(c) \in 0 .. Len(parts) /\ Agrees(f, Upto(parts, Len(c)), 0) /\ 0 \in Nat
  BY <1>2
<1>4. Agrees(f, parts[k], 0 + Len(Upto(parts, k - 1)))
  BY <1>2, <1>3, AgreesPart
<1>5. 0 + Len(Upto(parts, k - 1)) = BlockPlace(c, w, k - 1)
  <2>1. k - 1 \in 0 .. Len(c)
    BY <1>2
  <2>2. BlockPlace(c, w, k - 1) \in Nat
    BY <2>1, BlockPlaces
  <2> QED
    BY <1>2, <2>2
<1> QED
  BY <1>2, <1>4, <1>5

-----------------------------------------------------------------------------
(* What is to be seen.                                                     *)

Entry == ({"block"} \X Nat) \cup ({"spend", "tx"} \X Nat \X Nat)

\* A sequence of one.
LEMMA Single ==
  ASSUME NEW S, NEW x \in S
  PROVE  <<x>> \in Seq(S) /\ Len(<<x>>) = 1 /\ <<x>>[1] = x
OBVIOUS

\* A sequence that has one more entry than another.
LEMMA OneMore ==
  ASSUME NEW S, NEW a \in Seq(S), NEW b \in Seq(S), NEW x \in S,
         Len(b) = Len(a) + 1, \A i \in 1 .. Len(a) : b[i] = a[i], b[Len(a) + 1] = x
  PROVE  b = a \o <<x>>
<1>1. Len(a) \in Nat /\ Len(b) \in Nat
  BY LenProperties
<1>2. PICK e : e = <<x>>
  OBVIOUS
<1>3. e \in Seq(S) /\ Len(e) = 1 /\ e[1] = x
  BY <1>2, Single
<1>4. /\ a \o e \in Seq(S) /\ Len(a \o e) = Len(a) + Len(e)
      /\ \A i \in 1 .. Len(a) + Len(e) :
           (a \o e)[i] = IF i <= Len(a) THEN a[i] ELSE e[i - Len(a)]
  BY <1>3, ConcatProperties
<1>5. ASSUME NEW i \in 1 .. Len(b)
      PROVE  b[i] = (a \o e)[i]
  <2>1. i \in 1 .. Len(a) + Len(e)
    BY <1>1, <1>3
  <2>2. CASE i <= Len(a)
    <3>1. i \in 1 .. Len(a)
      BY <1>1, <2>2
    <3> QED
      BY <1>4, <2>1, <2>2, <3>1
  <2>3. CASE i = Len(a) + 1
    <3>1. ~(i <= Len(a)) /\ i - Len(a) = 1
      BY <1>1, <2>3
    <3> QED
      BY <1>3, <1>4, <2>1, <2>3, <3>1
  <2>4. i <= Len(a) \/ i = Len(a) + 1
    <3>1. i \in 1 .. (Len(a) + 1)
      OBVIOUS
    <3> QED
      BY <1>1, <3>1
  <2> QED
    BY <2>2, <2>3, <2>4
<1>6. Len(b) = Len(a \o e)
  BY <1>3, <1>4
<1> QED
  BY <1>2, <1>4, <1>5, <1>6, SeqEqual

\* Entries are made of numbers.
LEMMA EntryFacts ==
  ASSUME NEW m \in Nat, NEW n \in Nat
  PROVE  <<"block", m>> \in Entry /\ <<"spend", m, n>> \in Entry
         /\ <<"tx", m, n>> \in Entry
BY DEF Entry

\* The spends of none of the inputs, and of one more.
LEMMA SpendsFacts ==
  ASSUME NEW t \in Transactions, NEW w \in Nat, NEW start \in Nat
  PROVE  /\ Spends(t, w, start, 0) = << >>
         /\ \A j \in 0 .. Len(t.ins) :
              /\ Spends(t, w, start, j) \in Seq(Entry)
              /\ Begins(Spends(t, w, start, j), Spends(t, w, start, Len(t.ins)))
         /\ \A j \in 1 .. Len(t.ins) :
              /\ <<"spend", start + Len(ThroughIn(t, w, j - 1)), start>> \in Entry
              /\ Spends(t, w, start, j)
                   = Spends(t, w, start, j - 1)
                       \o << <<"spend", start + Len(ThroughIn(t, w, j - 1)), start>> >>
<1> DEFINE spend(n) == <<"spend", start + Len(ThroughIn(t, w, n - 1)), start>>
<1>1. Len(t.ins) \in Nat
  BY TransactionFacts
<1>2. ASSUME NEW j \in 1 .. Len(t.ins)
      PROVE  spend(j) \in Entry
  <2>1. j - 1 \in 0 .. Len(t.ins)
    BY <1>1
  <2>2. start + Len(ThroughIn(t, w, j - 1)) \in Nat
    BY <2>1, InPlaces
  <2> QED
    BY <2>2, EntryFacts
<1>3. \A j : Spends(t, w, start, j) = [n \in 1 .. j |-> spend(n)]
  BY DEF Spends
<1> HIDE DEF spend
<1>4. ASSUME NEW j \in 0 .. Len(t.ins)
      PROVE  Spends(t, w, start, j) \in Seq(Entry) /\ Len(Spends(t, w, start, j)) = j
  <2>1. \A n \in 1 .. j : spend(n) \in Entry
    BY <1>1, <1>2
  <2>2. [n \in 1 .. j |-> spend(n)] \in Seq(Entry)
        /\ Len([n \in 1 .. j |-> spend(n)]) = j
    BY <1>1, <2>1
  <2> QED
    BY <1>3, <2>2
<1>5. Spends(t, w, start, 0) = << >>
  <2>1. 0 \in 0 .. Len(t.ins)
    BY <1>1
  <2> QED
    BY <1>4, <2>1, EmptySeq
<1>6. ASSUME NEW j \in 1 .. Len(t.ins)
      PROVE  Spends(t, w, start, j) = Spends(t, w, start, j - 1) \o <<spend(j)>>
  <2>1. PICK a, b : a = Spends(t, w, start, j - 1) /\ b = Spends(t, w, start, j)
    OBVIOUS
  <2>2. j - 1 \in 0 .. Len(t.ins) /\ j \in 0 .. Len(t.ins) /\ j = (j - 1) + 1
        /\ j \in 1 .. j
    BY <1>1
  <2>3. /\ a \in Seq(Entry) /\ Len(a) = j - 1 /\ b \in Seq(Entry) /\ Len(b) = j
    BY <1>4, <2>1, <2>2
  <2>4. /\ \A i \in 1 .. j : b[i] = spend(i)
        /\ \A i \in 1 .. (j - 1) : a[i] = spend(i)
    BY <1>3, <2>1
  <2>5. Len(b) = Len(a) + 1 /\ b[Len(a) + 1] = spend(j)
    BY <2>2, <2>3, <2>4
  <2>6. \A i \in 1 .. Len(a) : b[i] = a[i]
    BY <2>2, <2>3, <2>4
  <2>7. PICK x : x = spend(j)
    OBVIOUS
  <2>8. b = a \o <<x>>
    <3>1. x \in Entry
      BY <1>2, <2>7
    <3>2. b[Len(a) + 1] = x
      BY <2>5, <2>7
    <3> QED
      BY <2>3, <2>5, <2>6, <3>1, <3>2, OneMore
  <2> QED
    BY <2>1, <2>7, <2>8
<1>7. ASSUME NEW j \in 0 .. Len(t.ins)
      PROVE  Begins(Spends(t, w, start, j), Spends(t, w, start, Len(t.ins)))
  <2>1. PICK a, b : /\ a = Spends(t, w, start, j)
                    /\ b = Spends(t, w, start, Len(t.ins))
    OBVIOUS
  <2>2. Len(t.ins) \in 0 .. Len(t.ins) /\ j <= Len(t.ins)
    BY <1>1
  <2>3. Len(a) = j /\ Len(b) = Len(t.ins)
    BY <1>4, <2>1, <2>2
  <2>4. /\ \A i \in 1 .. j : a[i] = spend(i)
        /\ \A i \in 1 .. Len(t.ins) : b[i] = spend(i)
    BY <1>3, <2>1
  <2>5. \A i \in 1 .. Len(a) : b[i] = a[i]
    BY <1>1, <2>2, <2>3, <2>4
  <2> QED
    BY <2>1, <2>2, <2>3, <2>5 DEF Begins
<1> QED
  BY <1>2, <1>4, <1>5, <1>6, <1>7 DEF spend

\* What is seen of a transaction, of a block up to one of its transactions.
LEMMA BlockEntriesFacts ==
  ASSUME NEW b \in Seq(Transactions), NEW w \in Nat, NEW place \in Nat
  PROVE  /\ \A i \in 0 .. Len(b) : BlockEntries(b, w, place, i) \in Seq(Entry)
         /\ BlockEntries(b, w, place, 0) = << <<"block", place + FrameLen + HeadLen>> >>
         /\ \A i \in 1 .. Len(b) :
              /\ TxEntries(b, w, place, i) \in Seq(Entry)
              /\ BlockEntries(b, w, place, i)
                   = BlockEntries(b, w, place, i - 1) \o TxEntries(b, w, place, i)
         /\ \A i \in 0 .. Len(b) :
              Begins(BlockEntries(b, w, place, i), BlockEntries(b, w, place, Len(b)))
<1>1. /\ Len(b) \in Nat /\ DOMAIN b = 1 .. Len(b)
      /\ \A i \in 1 .. Len(b) : b[i] \in Transactions
  BY LenProperties, ElementOfSeq
<1>2. ASSUME NEW i \in 1 .. Len(b)
      PROVE  TxEntries(b, w, place, i) \in Seq(Entry)
  <2>1. PICK t, start, end : /\ t = b[i]
                             /\ start = place + Len(ThroughTx(b, w, i - 1))
                             /\ end = place + Len(ThroughTx(b, w, i))
    OBVIOUS
  <2>2. i - 1 \in 0 .. Len(b) /\ i \in 0 .. Len(b)
    BY <1>1
  <2>3. t \in Transactions /\ start \in Nat /\ end \in Nat
    BY <1>1, <2>1, <2>2, TxPlaces
  <2>4. Spends(t, w, start, Len(t.ins)) \in Seq(Entry)
    <3>1. Len(t.ins) \in 0 .. Len(t.ins)
      BY <2>3, TransactionFacts
    <3> QED
      BY <2>3, <3>1, SpendsFacts
  <2>5. << <<"tx", start, end>> >> \in Seq(Entry)
    BY <2>3, EntryFacts, Single
  <2>6. (IF i = 1 THEN << >> ELSE Spends(t, w, start, Len(t.ins))) \in Seq(Entry)
    BY <2>4, EmptySeq
  <2>7. PICK u, e : /\ u = IF i = 1 THEN << >> ELSE Spends(t, w, start, Len(t.ins))
                    /\ e = << <<"tx", start, end>> >>
    OBVIOUS
  <2>8. u \o e \in Seq(Entry)
    BY <2>5, <2>6, <2>7, ConcatProperties
  <2> QED
    BY <2>1, <2>7, <2>8 DEF TxEntries
<1>3. PICK head, parts : /\ head = << <<"block", place + FrameLen + HeadLen>> >>
                         /\ parts = [n \in 1 .. Len(b) |-> TxEntries(b, w, place, n)]
  OBVIOUS
<1>4. head \in Seq(Entry)
  <2>1. place + FrameLen + HeadLen \in Nat
    BY FieldFacts
  <2> QED
    BY <1>3, <2>1, EntryFacts, Single
<1>5. /\ parts \in Seq(Seq(Entry)) /\ Len(parts) = Len(b)
      /\ \A i \in 1 .. Len(b) : parts[i] = TxEntries(b, w, place, i)
  BY <1>1, <1>2, <1>3
<1>6. \A i : BlockEntries(b, w, place, i) = List(head, parts, i)
  BY <1>1, <1>3 DEF BlockEntries, List
<1>7. /\ BlockEntries(b, w, place, 0) = head
      /\ \A i \in 0 .. Len(b) : BlockEntries(b, w, place, i) \in Seq(Entry)
  BY <1>4, <1>5, <1>6, ListFacts
<1>8. ASSUME NEW i \in 1 .. Len(b)
      PROVE  BlockEntries(b, w, place, i)
               = BlockEntries(b, w, place, i - 1) \o TxEntries(b, w, place, i)
  <2>1. i \in 1 .. Len(parts)
    BY <1>5
  <2>2. List(head, parts, i) = List(head, parts, i - 1) \o parts[i]
    BY <1>4, <1>5, <2>1, ListNext
  <2>3. /\ BlockEntries(b, w, place, i) = List(head, parts, i)
        /\ BlockEntries(b, w, place, i - 1) = List(head, parts, i - 1)
        /\ parts[i] = TxEntries(b, w, place, i)
    BY <1>5, <1>6
  <2> QED
    BY <2>2, <2>3
<1>9. ASSUME NEW i \in 0 .. Len(b)
      PROVE  Begins(BlockEntries(b, w, place, i), BlockEntries(b, w, place, Len(b)))
  <2>1. i \in 0 .. Len(parts) /\ Len(b) \in 0 .. Len(parts) /\ i <= Len(b)
    BY <1>1, <1>5
  <2>2. Begins(List(head, parts, i), List(head, parts, Len(b)))
    BY <1>4, <1>5, <2>1, ListBegins
  <2> QED
    BY <1>6, <2>2
<1> QED
  BY <1>2, <1>3, <1>7, <1>8, <1>9

\* What is seen of a chain up to one of its blocks.
LEMMA ChainEntriesFacts ==
  ASSUME NEW c \in Seq(Seq(Transactions)), NEW w \in Nat
  PROVE  /\ \A k \in 0 .. Len(c) :
              /\ ChainEntries(c, w, k) \in Seq(Entry)
              /\ Begins(ChainEntries(c, w, k), ChainEntries(c, w, Len(c)))
         /\ ChainEntries(c, w, 0) = << >>
         /\ \A k \in 1 .. Len(c) :
              ChainEntries(c, w, k)
                = ChainEntries(c, w, k - 1)
                    \o BlockEntries(c[k], w, BlockPlace(c, w, k - 1), Len(c[k]))
<1>1. /\ Len(c) \in Nat /\ DOMAIN c = 1 .. Len(c)
      /\ \A k \in 1 .. Len(c) : c[k] \in Seq(Transactions)
  BY LenProperties, ElementOfSeq
<1> DEFINE part(k) == BlockEntries(c[k], w, BlockPlace(c, w, k - 1), Len(c[k]))
<1>2. ASSUME NEW k \in 1 .. Len(c)
      PROVE  part(k) \in Seq(Entry)
  <2>1. PICK b, place : b = c[k] /\ place = BlockPlace(c, w, k - 1)
    OBVIOUS
  <2>2. k - 1 \in 0 .. Len(c)
    BY <1>1
  <2>3. b \in Seq(Transactions) /\ place \in Nat
    BY <1>1, <2>1, <2>2, BlockPlaces
  <2>4. Len(b) \in 0 .. Len(b)
    BY <2>3, LenProperties
  <2> QED
    BY <2>1, <2>3, <2>4, BlockEntriesFacts
<1>3. PICK parts : parts = [k \in 1 .. Len(c) |-> part(k)]
  OBVIOUS
<1>4. \A k : ChainEntries(c, w, k) = Upto(parts, k)
  BY <1>1, <1>3 DEF ChainEntries, BlockPlace
<1> HIDE DEF part
<1>5. /\ parts \in Seq(Seq(Entry)) /\ Len(parts) = Len(c)
      /\ \A k \in 1 .. Len(c) : parts[k] = part(k)
  BY <1>1, <1>2, <1>3
<1>6. \A k \in 0 .. Len(c) : ChainEntries(c, w, k) \in Seq(Entry)
  <2>1. \A k \in 0 .. Len(parts) : Upto(parts, k) \in Seq(Entry)
    BY <1>5, UptoFacts
  <2> QED
    BY <1>4, <1>5, <2>1
<1>7. ASSUME NEW k \in 0 .. Len(c)
      PROVE  Begins(ChainEntries(c, w, k), ChainEntries(c, w, Len(c)))
  <2>1. k \in 0 .. Len(parts) /\ Len(c) \in 0 .. Len(parts) /\ k <= Len(c)
    BY <1>1, <1>5
  <2> QED
    BY <1>4, <1>5, <2>1, UptoBegins
<1>8. ChainEntries(c, w, 0) = << >>
  BY <1>4, <1>5, UptoFacts
<1>9. ASSUME NEW k \in 1 .. Len(c)
      PROVE  ChainEntries(c, w, k) = ChainEntries(c, w, k - 1) \o part(k)
  <2>1. k \in 1 .. Len(parts)
    BY <1>5
  <2>2. Upto(parts, k) = Upto(parts, k - 1) \o parts[k]
    BY <1>5, <2>1, UptoFacts
  <2> QED
    BY <1>4, <1>5, <2>2
<1> QED
  BY <1>6, <1>7, <1>8, <1>9 DEF part

\* What was seen of a chain when the walk is in its block k + 1, after i
\* transactions of it; after j inputs of the next one, too.
SeenTxs(c, w, k, i) ==
  ChainEntries(c, w, k) \o BlockEntries(c[k + 1], w, BlockPlace(c, w, k), i)

SeenIn(c, w, k, i, j) ==
  SeenTxs(c, w, k, i)
    \o (IF i = 0 THEN << >> ELSE Spends(c[k + 1][i + 1], w, TxPlace(c, w, k, i), j))

AllSeen(c, w) == ChainEntries(c, w, Len(c))
WholeLen(c, w) == BlockPlace(c, w, Len(c))

\* A chain and the number of bytes it is encoded in.
LEMMA ChainFacts ==
  ASSUME NEW c \in Chains, NEW w \in Widths
  PROVE  /\ c \in Seq(Seq(Transactions)) /\ w \in Nat /\ Len(c) \in Nat
         /\ <<c, w>> \in Encodings
         /\ Whole[<<c, w>>] = ThroughBlock(c, w, Len(c))
         /\ Whole[<<c, w>>] \in Seq(Nat) /\ Len(Whole[<<c, w>>]) = WholeLen(c, w)
         /\ WholeLen(c, w) \in Nat /\ WholeLen(c, w) < Word
         /\ Wanted[<<c, w>>] = AllSeen(c, w) /\ AllSeen(c, w) \in Seq(Entry)
<1>1. c \in Seq(Seq(Transactions)) /\ w \in Nat
  BY ChainsAssumption
<1>2. Len(c) \in Nat /\ Len(c) \in 0 .. Len(c)
  BY <1>1, LenProperties
<1>3. <<c, w>> \in Encodings
  BY DEF Encodings
<1>4. /\ Whole[<<c, w>>] = ThroughBlock(c, w, Len(c))
      /\ Wanted[<<c, w>>] = AllSeen(c, w)
  BY <1>3 DEF Whole, Wanted, AllSeen
<1>5. ThroughBlock(c, w, Len(c)) \in Seq(Nat) /\ WholeLen(c, w) \in Nat
  BY <1>1, <1>2, BlockPlaces DEF WholeLen
<1>6. AllSeen(c, w) \in Seq(Entry)
  BY <1>1, <1>2, ChainEntriesFacts DEF AllSeen
<1>7. Len(Whole[<<c, w>>]) = WholeLen(c, w)
  BY <1>4 DEF WholeLen, BlockPlace
<1>8. WholeLen(c, w) < Word
  BY <1>3, <1>7, WordAssumption
<1> QED
  BY <1>1, <1>2, <1>3, <1>4, <1>5, <1>6, <1>7, <1>8

\* A block of a chain and the places of its transactions.
LEMMA PlaceFacts ==
  ASSUME NEW c \in Chains, NEW w \in Widths, NEW k \in 0 .. (Len(c) - 1)
  PROVE  LET b == c[k + 1]
         IN /\ k \in Nat /\ k + 1 \in 1 .. Len(c) /\ (k + 1) - 1 = k
            /\ k \in 0 .. Len(c) /\ k + 1 \in 0 .. Len(c)
            /\ b \in Seq(Transactions) /\ Len(b) \in 0 .. (Word - 1)
            /\ BlockPlace(c, w, k) \in Nat
            /\ \A i \in 0 .. Len(b) :
                 /\ TxPlace(c, w, k, i) \in Nat
                 /\ TxPlace(c, w, k, i) <= WholeLen(c, w)
            /\ TxPlace(c, w, k, 0)
                 = BlockPlace(c, w, k) + (FrameLen + HeadLen) + Len(Encode(Len(b), w))
            /\ TxPlace(c, w, k, Len(b)) = BlockPlace(c, w, k + 1)
            /\ \A f \in Seq(Nat) :
                 Agrees(f, Whole[<<c, w>>], 0) =>
                   Agrees(f, Encode(Len(b), w), BlockPlace(c, w, k) + (FrameLen + HeadLen))
<1>1. /\ c \in Seq(Seq(Transactions)) /\ w \in Nat /\ Len(c) \in Nat
      /\ Whole[<<c, w>>] = ThroughBlock(c, w, Len(c))
      /\ WholeLen(c, w) \in Nat /\ WholeLen(c, w) < Word
  BY ChainFacts
<1>2. /\ k \in Nat /\ k + 1 \in 1 .. Len(c) /\ (k + 1) - 1 = k
      /\ k \in 0 .. Len(c) /\ k + 1 \in 0 .. Len(c)
  BY <1>1
<1>3. PICK b : b = c[k + 1]
  OBVIOUS
<1>4. b \in Seq(Transactions)
  BY <1>1, <1>2, <1>3, ElementOfSeq
<1>5. Len(b) \in Nat /\ Len(b) \in 0 .. Len(b) /\ 0 \in 0 .. Len(b)
  BY <1>4, LenProperties
<1>6. /\ BlockPlace(c, w, k) \in Nat /\ BlockPlace(c, w, k + 1) \in Nat
      /\ BlockPlace(c, w, k + 1) <= WholeLen(c, w)
  BY <1>1, <1>2, BlockPlaces DEF WholeLen
<1>7. BlockPlace(c, w, k + 1)
        = BlockPlace(c, w, k) + Len(ThroughTx(b, w, Len(b)))
  <2>1. BlockPlace(c, w, k + 1)
          = BlockPlace(c, w, (k + 1) - 1)
              + Len(ThroughTx(c[k + 1], w, Len(c[k + 1])))
    BY <1>1, <1>2, BlockPlaces
  <2> QED
    BY <1>2, <1>3, <2>1
<1>8. /\ TxPlace(c, w, k, Len(b)) = BlockPlace(c, w, k + 1)
      /\ \A i : TxPlace(c, w, k, i) = BlockPlace(c, w, k) + Len(ThroughTx(b, w, i))
  BY <1>3, <1>7 DEF TxPlace
<1>9. ASSUME NEW i \in 0 .. Len(b)
      PROVE  TxPlace(c, w, k, i) \in Nat /\ TxPlace(c, w, k, i) <= WholeLen(c, w)
  <2>1. /\ Len(ThroughTx(b, w, i)) \in Nat /\ Len(ThroughTx(b, w, Len(b))) \in Nat
        /\ Len(ThroughTx(b, w, i)) <= Len(ThroughTx(b, w, Len(b)))
    BY <1>1, <1>4, <1>5, TxPlaces
  <2>2. PICK p, L, n, m :
          /\ p = BlockPlace(c, w, k) /\ L = WholeLen(c, w)
          /\ n = Len(ThroughTx(b, w, i)) /\ m = Len(ThroughTx(b, w, Len(b)))
    OBVIOUS
  <2>3. p \in Nat /\ L \in Nat /\ n \in Nat /\ m \in Nat /\ n <= m /\ p + m <= L
    BY <1>1, <1>6, <1>7, <2>1, <2>2
  <2>4. p + n \in Nat /\ p + n <= L
    BY <2>3
  <2> QED
    BY <1>8, <2>2, <2>4
<1>10. TxPlace(c, w, k, 0)
         = BlockPlace(c, w, k) + (FrameLen + HeadLen) + Len(Encode(Len(b), w))
  <2>1. Len(ThroughTx(b, w, 0)) = FrameLen + HeadLen + Len(Encode(Len(b), w))
    BY <1>1, <1>4, TxPlaces
  <2>2. Len(Encode(Len(b), w)) \in {1, 3, 5, 9}
    BY <1>1, <1>5, EncodeFacts
  <2>3. PICK e : e = Len(Encode(Len(b), w))
    OBVIOUS
  <2>4. TxPlace(c, w, k, 0) = BlockPlace(c, w, k) + (FrameLen + HeadLen + e)
    BY <1>8, <2>1, <2>3
  <2>5. e \in Nat /\ FrameLen \in Nat /\ HeadLen \in Nat
    BY <2>2, <2>3, FieldFacts
  <2> QED
    BY <1>6, <2>3, <2>4, <2>5
<1>11. Len(b) \in 0 .. (Word - 1)
  <2>1. Len(b) <= Len(ThroughTx(b, w, Len(b))) /\ Len(ThroughTx(b, w, Len(b))) \in Nat
    BY <1>1, <1>4, <1>5, TxPlaces
  <2>2. Len(b) < Word /\ Word \in Nat
    BY <1>1, <1>5, <1>6, <1>7, <2>1, WordWidths
  <2> QED
    BY <1>5, <2>2
<1>12. ASSUME NEW f \in Seq(Nat), Agrees(f, Whole[<<c, w>>], 0)
       PROVE  Agrees(f, Encode(Len(b), w), BlockPlace(c, w, k) + (FrameLen + HeadLen))
  <2>1. Agrees(f, ThroughTx(c[k + 1], w, Len(c[k + 1])), BlockPlace(c, w, (k + 1) - 1))
    BY <1>1, <1>2, <1>12, ChainAgrees
  <2>2. Agrees(f, ThroughTx(b, w, Len(b)), BlockPlace(c, w, k))
    BY <1>2, <1>3, <2>1
  <2> QED
    BY <1>1, <1>4, <1>6, <2>2, BlockAgrees
<1> QED
  BY <1>2, <1>3, <1>4, <1>6, <1>8, <1>9, <1>10, <1>11, <1>12

\* A transaction of a chain.
LEMMA TxPlaceFacts ==
  ASSUME NEW c \in Chains, NEW w \in Widths, NEW k \in 0 .. (Len(c) - 1),
         NEW i \in 0 .. (Len(c[k + 1]) - 1)
  PROVE  LET t == c[k + 1][i + 1]
         IN /\ t \in Transactions
            /\ i \in 0 .. Len(c[k + 1]) /\ i + 1 \in 0 .. Len(c[k + 1])
            /\ TxPlace(c, w, k, i) \in Nat
            /\ TxPlace(c, w, k, i + 1) = TxPlace(c, w, k, i) + Len(TxBytes(t, w))
            /\ TxPlace(c, w, k, i + 1) <= WholeLen(c, w)
            /\ Len(TxBytes(t, w)) \in 0 .. (Word - 1)
            /\ \A f \in Seq(Nat) :
                 Agrees(f, Whole[<<c, w>>], 0) =>
                   Agrees(f, TxBytes(t, w), TxPlace(c, w, k, i))
<1>1. PICK b, t : b = c[k + 1] /\ t = b[i + 1]
  OBVIOUS
<1>2. /\ c \in Seq(Seq(Transactions)) /\ w \in Nat /\ Len(c) \in Nat
      /\ Whole[<<c, w>>] = ThroughBlock(c, w, Len(c))
      /\ WholeLen(c, w) \in Nat /\ WholeLen(c, w) < Word
  BY ChainFacts
<1>3. /\ k + 1 \in 1 .. Len(c) /\ (k + 1) - 1 = k
      /\ b \in Seq(Transactions) /\ BlockPlace(c, w, k) \in Nat
      /\ \A n \in 0 .. Len(b) :
           /\ TxPlace(c, w, k, n) \in Nat /\ TxPlace(c, w, k, n) <= WholeLen(c, w)
  BY <1>1, PlaceFacts
<1>4. Len(b) \in Nat
  BY <1>3, LenProperties
<1>5. /\ i \in 0 .. Len(b) /\ i + 1 \in 0 .. Len(b) /\ i + 1 \in 1 .. Len(b)
      /\ (i + 1) - 1 = i
  BY <1>1, <1>4
<1>6. t \in Transactions
  BY <1>1, <1>3, <1>5, ElementOfSeq
<1>7. Len(ThroughTx(b, w, i + 1)) = Len(ThroughTx(b, w, i)) + Len(TxBytes(t, w))
  <2>1. Len(ThroughTx(b, w, i + 1))
          = Len(ThroughTx(b, w, (i + 1) - 1)) + Len(TxBytes(b[i + 1], w))
    BY <1>2, <1>3, <1>5, TxPlaces
  <2> QED
    BY <1>1, <1>5, <2>1
<1>8. Len(ThroughTx(b, w, i)) \in Nat /\ Len(TxBytes(t, w)) \in Nat
  BY <1>2, <1>3, <1>5, <1>6, TxPlaces, TxSizes
<1>9. TxPlace(c, w, k, i + 1) = TxPlace(c, w, k, i) + Len(TxBytes(t, w))
  <2>1. /\ TxPlace(c, w, k, i) = BlockPlace(c, w, k) + Len(ThroughTx(b, w, i))
        /\ TxPlace(c, w, k, i + 1)
             = BlockPlace(c, w, k) + Len(ThroughTx(b, w, i + 1))
    BY <1>1 DEF TxPlace
  <2>2. PICK p, q, r : /\ p = BlockPlace(c, w, k) /\ q = Len(ThroughTx(b, w, i))
                       /\ r = Len(TxBytes(t, w))
    OBVIOUS
  <2>3. p \in Nat /\ q \in Nat /\ r \in Nat
    BY <1>3, <1>8, <2>2
  <2>4. p + (q + r) = (p + q) + r
    BY <2>3
  <2> QED
    BY <1>7, <2>1, <2>2, <2>4
<1>10. /\ TxPlace(c, w, k, i) \in Nat /\ TxPlace(c, w, k, i + 1) <= WholeLen(c, w)
  BY <1>3, <1>5
<1>11. Len(TxBytes(t, w)) \in 0 .. (Word - 1)
  <2>1. Word \in Nat
    BY WordWidths
  <2> QED
    BY <1>2, <1>8, <1>9, <1>10, <2>1
<1>12. ASSUME NEW f \in Seq(Nat), Agrees(f, Whole[<<c, w>>], 0)
       PROVE  Agrees(f, TxBytes(t, w), TxPlace(c, w, k, i))
  <2>1. Agrees(f, ThroughTx(c[k + 1], w, Len(c[k + 1])), BlockPlace(c, w, (k + 1) - 1))
    BY <1>2, <1>3, <1>12, ChainAgrees
  <2>2. Agrees(f, ThroughTx(b, w, Len(b)), BlockPlace(c, w, k))
    BY <1>1, <1>3, <2>1
  <2>3. Agrees(f, TxBytes(b[i + 1], w),
               BlockPlace(c, w, k) + Len(ThroughTx(b, w, (i + 1) - 1)))
    BY <1>2, <1>3, <1>5, <2>2, BlockAgrees
  <2> QED
    BY <1>1, <1>5, <2>3 DEF TxPlace
<1> QED
  BY <1>1, <1>5, <1>6, <1>9, <1>10, <1>11, <1>12

\* Entries after entries may be grouped either way.
LEMMA EntriesAssociative ==
  ASSUME NEW s \in Seq(Entry), NEW t \in Seq(Entry), NEW u \in Seq(Entry)
  PROVE  (s \o t) \o u = s \o (t \o u)
BY ConcatAssociative

\* What is seen of a block: from its head to its last transaction.
LEMMA SeenTxsFacts ==
  ASSUME NEW c \in Chains, NEW w \in Widths, NEW k \in 0 .. (Len(c) - 1)
  PROVE  LET b == c[k + 1]
         IN /\ ChainEntries(c, w, k) \in Seq(Entry)
            /\ SeenTxs(c, w, k, 0)
                 = Append(ChainEntries(c, w, k),
                          <<"block", BlockPlace(c, w, k) + FrameLen + HeadLen>>)
            /\ SeenTxs(c, w, k, Len(b)) = ChainEntries(c, w, k + 1)
            /\ \A i \in 0 .. Len(b) : /\ SeenTxs(c, w, k, i) \in Seq(Entry)
                                      /\ Begins(SeenTxs(c, w, k, i), AllSeen(c, w))
<1>1. PICK b, place, before : /\ b = c[k + 1] /\ place = BlockPlace(c, w, k)
                              /\ before = ChainEntries(c, w, k)
  OBVIOUS
<1>2. /\ c \in Seq(Seq(Transactions)) /\ w \in Nat /\ AllSeen(c, w) \in Seq(Entry)
  BY ChainFacts
<1>3. /\ b \in Seq(Transactions) /\ place \in Nat /\ (k + 1) - 1 = k
      /\ k \in 0 .. Len(c) /\ k + 1 \in 1 .. Len(c) /\ k + 1 \in 0 .. Len(c)
  BY <1>1, PlaceFacts
<1>4. /\ before \in Seq(Entry) /\ ChainEntries(c, w, k + 1) \in Seq(Entry)
      /\ Begins(ChainEntries(c, w, k + 1), AllSeen(c, w))
  BY <1>1, <1>2, <1>3, ChainEntriesFacts DEF AllSeen
<1>5. ChainEntries(c, w, k + 1) = before \o BlockEntries(b, w, place, Len(b))
  <2>1. ChainEntries(c, w, k + 1)
          = ChainEntries(c, w, (k + 1) - 1)
              \o BlockEntries(c[k + 1], w, BlockPlace(c, w, (k + 1) - 1), Len(c[k + 1]))
    BY <1>2, <1>3, ChainEntriesFacts
  <2> QED
    BY <1>1, <1>3, <2>1
<1>6. \A i : SeenTxs(c, w, k, i) = before \o BlockEntries(b, w, place, i)
  BY <1>1 DEF SeenTxs
<1>7. SeenTxs(c, w, k, 0)
        = Append(before, <<"block", place + FrameLen + HeadLen>>)
  <2>1. PICK e : e = <<"block", place + FrameLen + HeadLen>>
    OBVIOUS
  <2>2. place + FrameLen + HeadLen \in Nat
    BY <1>3, FieldFacts
  <2>3. e \in Entry
    BY <2>1, <2>2, EntryFacts
  <2>4. BlockEntries(b, w, place, 0) = <<e>>
    BY <1>2, <1>3, <2>1, BlockEntriesFacts
  <2>5. Append(before, e) = before \o <<e>>
    BY <1>4, <2>3, AppendIsConcat
  <2> QED
    BY <1>6, <2>1, <2>4, <2>5
<1>8. ASSUME NEW i \in 0 .. Len(b)
      PROVE  SeenTxs(c, w, k, i) \in Seq(Entry) /\ Begins(SeenTxs(c, w, k, i), AllSeen(c, w))
  <2>1. PICK s, t : /\ s = BlockEntries(b, w, place, i)
                    /\ t = BlockEntries(b, w, place, Len(b))
    OBVIOUS
  <2>2. s \in Seq(Entry) /\ t \in Seq(Entry) /\ Begins(s, t)
    <3>1. Len(b) \in 0 .. Len(b)
      BY <1>3, LenProperties
    <3> QED
      BY <1>2, <1>3, <2>1, <3>1, BlockEntriesFacts
  <2>3. before \o s \in Seq(Entry) /\ before \o t \in Seq(Entry)
    BY <1>4, <2>2, ConcatProperties
  <2>4. Begins(before \o s, before \o t)
    BY <1>4, <2>2, BeginsAfter
  <2>5. /\ SeenTxs(c, w, k, i) = before \o s
        /\ ChainEntries(c, w, k + 1) = before \o t
    BY <1>5, <1>6, <2>1
  <2>6. Begins(before \o s, AllSeen(c, w))
    BY <1>2, <1>4, <2>3, <2>4, <2>5, BeginsTransitive
  <2> QED
    BY <2>3, <2>5, <2>6
<1>9. SeenTxs(c, w, k, Len(b)) = ChainEntries(c, w, k + 1)
  BY <1>5, <1>6
<1> QED
  BY <1>1, <1>4, <1>7, <1>8, <1>9

\* What is seen of a transaction: its spends and itself.
LEMMA SeenInFacts ==
  ASSUME NEW c \in Chains, NEW w \in Widths, NEW k \in 0 .. (Len(c) - 1),
         NEW i \in 0 .. (Len(c[k + 1]) - 1)
  PROVE  LET t == c[k + 1][i + 1]
         IN /\ SeenIn(c, w, k, i, 0) = SeenTxs(c, w, k, i)
            /\ \A j \in 0 .. Len(t.ins) :
                 /\ SeenIn(c, w, k, i, j) \in Seq(Entry)
                 /\ Begins(SeenIn(c, w, k, i, j), AllSeen(c, w))
            /\ \A j \in 1 .. Len(t.ins) :
                 SeenIn(c, w, k, i, j)
                   = SeenIn(c, w, k, i, j - 1)
                       \o (IF i = 0 THEN << >>
                           ELSE << <<"spend",
                                     TxPlace(c, w, k, i) + Len(ThroughIn(t, w, j - 1)),
                                     TxPlace(c, w, k, i)>> >>)
            /\ SeenTxs(c, w, k, i + 1)
                 = Append(SeenIn(c, w, k, i, Len(t.ins)),
                          <<"tx", TxPlace(c, w, k, i), TxPlace(c, w, k, i + 1)>>)
<1>1. PICK b, t, place, start, before :
        /\ b = c[k + 1] /\ t = b[i + 1] /\ place = BlockPlace(c, w, k)
        /\ start = TxPlace(c, w, k, i) /\ before = SeenTxs(c, w, k, i)
  OBVIOUS
<1>2. w \in Nat /\ AllSeen(c, w) \in Seq(Entry)
  BY ChainFacts
<1>3. b \in Seq(Transactions) /\ place \in Nat
  BY <1>1, PlaceFacts
<1>4. /\ t \in Transactions /\ i \in 0 .. Len(b) /\ i + 1 \in 0 .. Len(b)
      /\ start \in Nat /\ TxPlace(c, w, k, i + 1) \in Nat
  <2>1. i + 1 \in 0 .. Len(b)
    BY <1>1, TxPlaceFacts
  <2> QED
    BY <1>1, <2>1, PlaceFacts, TxPlaceFacts
<1>5. Len(t.ins) \in Nat /\ Len(t.ins) \in 0 .. Len(t.ins) /\ 0 \in 0 .. Len(t.ins)
  BY <1>4, TransactionFacts
<1>6. /\ before \in Seq(Entry) /\ SeenTxs(c, w, k, i + 1) \in Seq(Entry)
      /\ Begins(SeenTxs(c, w, k, i + 1), AllSeen(c, w))
  BY <1>1, <1>4, SeenTxsFacts
<1> DEFINE spent(j) == IF i = 0 THEN << >> ELSE Spends(t, w, start, j)
<1>7. \A j : SeenIn(c, w, k, i, j) = before \o spent(j)
  BY <1>1 DEF SeenIn
<1>8. \A j \in 0 .. Len(t.ins) :
        spent(j) \in Seq(Entry) /\ Begins(spent(j), spent(Len(t.ins)))
  <2>1. Begins(<< >>, << >>)
    BY DEF Begins
  <2>2. \A j \in 0 .. Len(t.ins) :
          /\ Spends(t, w, start, j) \in Seq(Entry)
          /\ Begins(Spends(t, w, start, j), Spends(t, w, start, Len(t.ins)))
    BY <1>2, <1>4, SpendsFacts
  <2> QED
    BY <2>1, <2>2, EmptySeq
<1>9. spent(0) = << >>
  BY <1>2, <1>4, SpendsFacts
<1> DEFINE spend(j) == <<"spend", start + Len(ThroughIn(t, w, j - 1)), start>>
<1>10. ASSUME NEW j \in 1 .. Len(t.ins)
       PROVE  /\ spent(j) = spent(j - 1) \o (IF i = 0 THEN << >> ELSE <<spend(j)>>)
              /\ (IF i = 0 THEN << >> ELSE <<spend(j)>>) \in Seq(Entry)
  <2>1. /\ spend(j) \in Entry
        /\ Spends(t, w, start, j) = Spends(t, w, start, j - 1) \o <<spend(j)>>
    BY <1>2, <1>4, SpendsFacts
  <2>2. <<spend(j)>> \in Seq(Entry)
    BY <2>1, Single
  <2> HIDE DEF spend
  <2>3. CASE i = 0
    <3>1. << >> \in Seq(Entry) /\ << >> \o << >> = << >>
      BY EmptySeq, ConcatEmptySeq
    <3> QED
      BY <2>3, <3>1
  <2>4. CASE i # 0
    BY <2>1, <2>2, <2>4
  <2> QED
    BY <2>3, <2>4
<1> HIDE DEF spent, spend
<1>11. SeenIn(c, w, k, i, 0) = before
  BY <1>6, <1>7, <1>9, ConcatEmptySeq
<1>12. ASSUME NEW j \in 1 .. Len(t.ins)
       PROVE  SeenIn(c, w, k, i, j)
                = SeenIn(c, w, k, i, j - 1) \o (IF i = 0 THEN << >> ELSE <<spend(j)>>)
  <2>1. PICK s, e : s = spent(j - 1) /\ e = IF i = 0 THEN << >> ELSE <<spend(j)>>
    OBVIOUS
  <2>2. j - 1 \in 0 .. Len(t.ins)
    BY <1>5
  <2>3. s \in Seq(Entry) /\ e \in Seq(Entry)
    BY <1>8, <1>10, <2>1, <2>2
  <2>4. (before \o s) \o e = before \o (s \o e)
    BY <1>6, <2>3, EntriesAssociative
  <2> QED
    BY <1>7, <1>10, <2>1, <2>4
<1>13. SeenTxs(c, w, k, i + 1)
         = Append(SeenIn(c, w, k, i, Len(t.ins)), <<"tx", start, TxPlace(c, w, k, i + 1)>>)
  <2>1. PICK head, s, e : /\ head = ChainEntries(c, w, k)
                          /\ s = BlockEntries(b, w, place, i)
                          /\ e = <<"tx", start, TxPlace(c, w, k, i + 1)>>
    OBVIOUS
  <2>2. i + 1 \in 1 .. Len(b) /\ (i + 1) - 1 = i /\ (i + 1 = 1) = (i = 0)
    BY <1>4
  <2>3. TxEntries(b, w, place, i + 1) = spent(Len(t.ins)) \o <<e>>
    BY <1>1, <2>1, <2>2 DEF TxEntries, TxPlace, spent
  <2>4. BlockEntries(b, w, place, i + 1)
          = BlockEntries(b, w, place, (i + 1) - 1) \o TxEntries(b, w, place, i + 1)
    BY <1>2, <1>3, <2>2, BlockEntriesFacts
  <2>5. SeenTxs(c, w, k, i + 1) = head \o (s \o (spent(Len(t.ins)) \o <<e>>))
    BY <1>1, <2>1, <2>2, <2>3, <2>4 DEF SeenTxs
  <2>6. PICK u, x : u = spent(Len(t.ins)) /\ x = <<e>>
    OBVIOUS
  <2>7. e \in Entry
    BY <1>4, <2>1, EntryFacts
  <2>8. /\ head \in Seq(Entry) /\ s \in Seq(Entry) /\ u \in Seq(Entry) /\ x \in Seq(Entry)
    <3>1. head \in Seq(Entry)
      BY <2>1, SeenTxsFacts
    <3>2. s \in Seq(Entry)
      BY <1>2, <1>3, <1>4, <2>1, BlockEntriesFacts
    <3>3. u \in Seq(Entry)
      BY <1>5, <1>8, <2>6
    <3>4. x \in Seq(Entry)
      BY <2>6, <2>7, Single
    <3> QED
      BY <3>1, <3>2, <3>3, <3>4
  <2>9. before = head \o s
    BY <1>1, <2>1 DEF SeenTxs
  <2>10. head \o (s \o (u \o x)) = (before \o u) \o x
    <3>1. s \o (u \o x) = (s \o u) \o x
      BY <2>8, EntriesAssociative
    <3>2. s \o u \in Seq(Entry)
      BY <2>8, ConcatProperties
    <3>3. head \o ((s \o u) \o x) = (head \o (s \o u)) \o x
      <4>1. PICK y : y = s \o u
        OBVIOUS
      <4>2. head \in Seq(Entry) /\ y \in Seq(Entry) /\ x \in Seq(Entry)
        BY <2>8, <3>2, <4>1
      <4>3. head \o (y \o x) = (head \o y) \o x
        BY <4>2, EntriesAssociative
      <4> QED
        BY <4>1, <4>3
    <3>4. head \o (s \o u) = (head \o s) \o u
      BY <2>8, EntriesAssociative
    <3> QED
      BY <2>9, <3>1, <3>3, <3>4
  <2>11. before \o u \in Seq(Entry)
    BY <1>6, <2>8, ConcatProperties
  <2>12. Append(before \o u, e) = (before \o u) \o <<e>>
    BY <2>7, <2>11, AppendIsConcat
  <2> QED
    BY <1>7, <2>1, <2>5, <2>6, <2>10, <2>12
<1>14. ASSUME NEW j \in 0 .. Len(t.ins)
       PROVE  SeenIn(c, w, k, i, j) \in Seq(Entry) /\ Begins(SeenIn(c, w, k, i, j), AllSeen(c, w))
  <2>1. PICK s, u, e : /\ s = spent(j) /\ u = spent(Len(t.ins))
                       /\ e = <<"tx", start, TxPlace(c, w, k, i + 1)>>
    OBVIOUS
  <2>2. s \in Seq(Entry) /\ u \in Seq(Entry) /\ Begins(s, u)
    BY <1>5, <1>8, <2>1
  <2>3. e \in Entry
    BY <1>4, <2>1, EntryFacts
  <2>4. before \o s \in Seq(Entry) /\ before \o u \in Seq(Entry)
    BY <1>6, <2>2, ConcatProperties
  <2>5. Begins(before \o s, before \o u)
    BY <1>6, <2>2, BeginsAfter
  <2>6. <<e>> \in Seq(Entry)
    BY <2>3, Single
  <2>7. Begins(before \o u, (before \o u) \o <<e>>) /\ (before \o u) \o <<e>> \in Seq(Entry)
    BY <2>4, <2>6, BeginsConcat, ConcatProperties
  <2>8. SeenTxs(c, w, k, i + 1) = (before \o u) \o <<e>>
    BY <1>7, <1>13, <2>1, <2>3, <2>4, AppendIsConcat
  <2>9. Begins(before \o u, AllSeen(c, w))
    BY <1>2, <1>6, <2>4, <2>7, <2>8, BeginsTransitive
  <2>10. Begins(before \o s, AllSeen(c, w))
    BY <1>2, <2>4, <2>5, <2>9, BeginsTransitive
  <2> QED
    BY <1>7, <2>1, <2>4, <2>10
<1> QED
  BY <1>1, <1>11, <1>12, <1>13, <1>14 DEF spend

-----------------------------------------------------------------------------
(* Where the walk is.                                                      *)

AtBlock(c, w, k) ==
  /\ pc = "block" /\ offset = BlockPlace(c, w, k) /\ offset <= len
  /\ seen = ChainEntries(c, w, k)

AtTxs(c, w, k) ==
  /\ pc = "txs" /\ offset = BlockPlace(c, w, k) + (FrameLen + HeadLen)
  /\ offset <= len /\ seen = SeenTxs(c, w, k, 0)

AtTx(c, w, k, i) ==
  /\ pc = "tx" /\ offset = TxPlace(c, w, k, i) /\ offset <= len
  /\ n_tx = Len(c[k + 1]) - i /\ first = (i = 0)
  /\ seen = SeenTxs(c, w, k, i)

InTx(c, w, k, i) ==
  /\ tx_start = TxPlace(c, w, k, i)
  /\ n_tx = Len(c[k + 1]) - i /\ first = (i = 0)

AtIn(c, w, k, i, j) ==
  LET t == c[k + 1][i + 1]
  IN /\ pc = "in" /\ InTx(c, w, k, i)
     /\ offset = TxPlace(c, w, k, i) + Len(ThroughIn(t, w, j))
     /\ n_txin = Len(t.ins) - j
     /\ seen = SeenIn(c, w, k, i, j)

AtOut(c, w, k, i, j) ==
  LET t == c[k + 1][i + 1]
  IN /\ pc = "out" /\ InTx(c, w, k, i)
     /\ offset = TxPlace(c, w, k, i) + Len(ThroughOut(t, w, j))
     /\ n_txout = Len(t.outs) - j
     /\ seen = SeenIn(c, w, k, i, Len(t.ins))

\* The walk is at one of the fields of the chain.
Walking(c, w) ==
  \/ \E k \in 0 .. Len(c) : AtBlock(c, w, k)
  \/ \E k \in 0 .. (Len(c) - 1) :
       \/ AtTxs(c, w, k)
       \/ \E i \in 0 .. Len(c[k + 1]) : AtTx(c, w, k, i)
       \/ \E i \in 0 .. (Len(c[k + 1]) - 1) :
            \/ \E j \in 0 .. Len(c[k + 1][i + 1].ins) : AtIn(c, w, k, i, j)
            \/ \E j \in 0 .. Len(c[k + 1][i + 1].outs) : AtOut(c, w, k, i, j)

\* The chain is all there; what comes after it is zeros.
Fits(c, w) == WholeLen(c, w) <= len
Blank(c, w) == \A n \in WholeLen(c, w) + 1 .. len : file[n] = 0

\* The walk is in these zeros, after m empty blocks.
InZeros(c, w, m) ==
  LET start == WholeLen(c, w)
  IN \/ /\ pc = "block" \/ (pc = "tx" /\ n_tx = 0)
        /\ offset = start + m * EmptyLen
        /\ seen = AllSeen(c, w) \o Empties(start, m)
     \/ /\ pc = "txs"
        /\ offset = start + m * EmptyLen + (EmptyLen - 1)
        /\ seen = AllSeen(c, w) \o Empties(start, m + 1)

Padding(c, w) ==
  /\ Fits(c, w) /\ Blank(c, w) /\ offset <= len
  /\ \E m \in Nat : InZeros(c, w, m)

\* All of the chain was seen, and what comes after it is not zeros.
Beyond(c, w) ==
  /\ Fits(c, w) /\ ~Blank(c, w) /\ len >= WholeLen(c, w) + 2
  /\ Begins(AllSeen(c, w), seen)

\* The walk stopped in front of a block.
Finished(c, w) ==
  /\ pc = "done" /\ len > 0
  /\ \/ \E k \in 0 .. Len(c) :
          /\ BlockPlace(c, w, k) \in {len - 1, len}
          /\ seen = ChainEntries(c, w, k)
     \/ /\ Fits(c, w) /\ Blank(c, w)
        /\ \E m \in Nat :
             /\ WholeLen(c, w) + m * EmptyLen \in {len - 1, len}
             /\ seen = AllSeen(c, w) \o Empties(WholeLen(c, w), m)

\* The file is not empty and holds the chain, and nothing but whole blocks after it.
HoldsSome(c, w) == len > 0 /\ Holds(<<c, w>>)

\* The walk left the file, which is empty, does not hold the chain, or not all of a
\* block after it.
Strayed(c, w) ==
  /\ pc = "astray" /\ ~HoldsSome(c, w)
  /\ Begins(seen, AllSeen(c, w)) \/ Begins(AllSeen(c, w), seen)

Tracked(c, w) ==
  Walking(c, w) \/ Padding(c, w) \/ Beyond(c, w) \/ Finished(c, w) \/ Strayed(c, w)

\* The invariant: the walk keeps to every chain that the file agrees with.
Tracks ==
  /\ FileInv /\ seen \in Seq(Entry)
  /\ \A c \in Chains : \A w \in Widths :
       Agrees(file, Whole[<<c, w>>], 0) => Tracked(c, w)

\* A file that is not empty holds a chain if it is long enough for it, and what is
\* left is a byte or zeros for whole blocks.
LEMMA HoldsFacts ==
  ASSUME NEW c \in Chains, NEW w \in Widths, file \in Files,
         Agrees(file, Whole[<<c, w>>], 0)
  PROVE  HoldsSome(c, w) <=>
           /\ len > 0 /\ Fits(c, w)
           /\ \/ len - WholeLen(c, w) <= 1
              \/ Blank(c, w) /\ (len - WholeLen(c, w)) % EmptyLen <= 1
<1>1. PICK s, L, whole : s = <<c, w>> /\ L = WholeLen(c, w) /\ whole = Whole[<<c, w>>]
  OBVIOUS
<1>2. /\ file \in Seq(Nat) /\ len = Len(file) /\ len \in Nat
      /\ whole \in Seq(Nat) /\ Len(whole) = L /\ L \in Nat
  BY <1>1, FileSeq, ChainFacts
<1>4. IsPrefix(whole, file) <=> L <= len
  <2>1. Begins(whole, file) <=> L <= len
    <3>1. ASSUME NEW i \in 1 .. Len(whole), L <= len
          PROVE  file[i] = whole[i]
      <4>1. 0 + i <= Len(file) /\ 0 + i = i
        BY <1>2, <3>1
      <4> QED
        BY <1>1, <4>1 DEF Agrees
    <3> QED
      BY <1>2, <3>1 DEF Begins
  <2> QED
    BY <1>2, <2>1, PrefixIs
<1>5. ASSUME L <= len
      PROVE  /\ Len(Rest(s)) = len - L
             /\ Rest(s) = Zeros(Len(Rest(s))) <=> Blank(c, w)
  <2>1. Rest(s) = SubSeq(file, L + 1, len)
    BY <1>1, <1>2 DEF Rest
  <2>2. \A i \in L + 1 .. len : file[i] \in Nat
    <3> SUFFICES ASSUME NEW i \in L + 1 .. len
                 PROVE  file[i] \in Nat
      OBVIOUS
    <3>1. i \in 1 .. Len(file)
      BY <1>2
    <3> QED
      BY <1>2, <3>1, ElementOfSeq
  <2>3. /\ Rest(s) \in Seq(Nat)
        /\ Len(Rest(s)) = IF L + 1 <= len THEN len - (L + 1) + 1 ELSE 0
        /\ \A i \in 1 .. len - (L + 1) + 1 : Rest(s)[i] = file[L + 1 + i - 1]
    BY <1>2, <2>1, <2>2, SubSeqProperties
  <2>4. Len(Rest(s)) = len - L
    BY <1>2, <1>5, <2>3
  <2>5. PICK n, z : n = len - L /\ z = Zeros(n)
    OBVIOUS
  <2>6. n \in Nat /\ z \in Seq(Nat) /\ Len(z) = n /\ \A i \in 1 .. n : z[i] = 0
    BY <1>2, <1>5, <2>5 DEF Zeros
  <2>7. \A i \in 1 .. n : Rest(s)[i] = file[L + i]
    <3> SUFFICES ASSUME NEW i \in 1 .. n
                 PROVE  Rest(s)[i] = file[L + i]
      OBVIOUS
    <3>1. i \in 1 .. len - (L + 1) + 1 /\ L + 1 + i - 1 = L + i
      BY <1>2, <2>5
    <3> QED
      BY <2>3, <3>1
  <2>8. ASSUME Rest(s) = z, NEW i \in L + 1 .. len
        PROVE  file[i] = 0
    <3>1. i - L \in 1 .. n /\ L + (i - L) = i
      BY <1>2, <2>5
    <3> QED
      BY <2>6, <2>7, <2>8, <3>1
  <2>9. ASSUME Blank(c, w)
        PROVE  Rest(s) = z
    <3>1. ASSUME NEW i \in 1 .. Len(Rest(s))
          PROVE  Rest(s)[i] = z[i]
      <4>1. i \in 1 .. n /\ L + i \in L + 1 .. len
        BY <1>2, <2>4, <2>5
      <4>2. file[L + i] = 0
        BY <1>1, <2>9, <4>1 DEF Blank
      <4> QED
        BY <2>6, <2>7, <4>1, <4>2
    <3>2. Len(Rest(s)) = Len(z)
      BY <2>4, <2>5, <2>6
    <3> QED
      BY <2>3, <2>6, <3>1, <3>2, SeqEqual
  <2> QED
    BY <1>1, <2>4, <2>5, <2>8, <2>9 DEF Blank
<1>6. Holds(s) <=> /\ IsPrefix(whole, file)
                   /\ \/ Len(Rest(s)) <= 1
                      \/ Rest(s) = Zeros(Len(Rest(s))) /\ Len(Rest(s)) % EmptyLen <= 1
  BY <1>1 DEF Holds
<1>7. CASE L <= len
  BY <1>1, <1>4, <1>5, <1>6, <1>7 DEF Fits, HoldsSome
<1>8. CASE ~(L <= len)
  BY <1>1, <1>4, <1>6, <1>8 DEF Fits, HoldsSome
<1> QED
  BY <1>1, <1>7, <1>8

\* A file agrees with a chain if one is the beginning of the other.
LEMMA ComparableAgrees ==
  ASSUME NEW c \in Chains, NEW w \in Widths, file \in Files,
         IsPrefix(file, Whole[<<c, w>>]) \/ IsPrefix(Whole[<<c, w>>], file)
  PROVE  Agrees(file, Whole[<<c, w>>], 0)
<1>1. PICK whole : whole = Whole[<<c, w>>]
  OBVIOUS
<1>2. file \in Seq(Nat) /\ whole \in Seq(Nat)
  BY <1>1, FileSeq, ChainFacts
<1>3. Begins(file, whole) \/ Begins(whole, file)
  BY <1>1, <1>2, PrefixIs
<1>4. Len(file) \in Nat /\ Len(whole) \in Nat
  BY <1>2, LenProperties
<1>5. ASSUME NEW i \in 1 .. Len(whole), 0 + i <= Len(file)
      PROVE  file[0 + i] = whole[i]
  <2>1. i \in 1 .. Len(file) /\ 0 + i = i
    BY <1>4, <1>5
  <2> QED
    BY <1>3, <2>1 DEF Begins
<1> QED
  BY <1>1, <1>5 DEF Agrees

\* Every step reads the same file, and what the next field is says which it is.
LEMMA Moves ==
  ASSUME Next
  PROVE  /\ file' = file
         /\ pc = "block" => Block \/ Done
         /\ pc = "txs" => Txs
         /\ pc = "tx" => BlockEnd \/ Tx
         /\ pc = "in" => In \/ Outs
         /\ pc = "out" => Out \/ TxEnd
         /\ pc \notin {"done", "astray"}
BY DEF Next, Block, Txs, BlockEnd, Tx, In, Outs, Out, TxEnd, Done, Stray, fvars, counts

\* What is said of the file stays so.
LEMMA SameFile ==
  ASSUME NEW c, NEW w, file' = file
  PROVE  /\ len' = len /\ Fits(c, w)' = Fits(c, w) /\ Blank(c, w)' = Blank(c, w)
         /\ HoldsSome(c, w)' = HoldsSome(c, w)
BY DEF len, Fits, Blank, HoldsSome, Holds, Rest

\* A step adds entries to what was seen, and takes none away.
LEMMA SeenGrows ==
  ASSUME FileInv, seen \in Seq(Entry), Next
  PROVE  seen' \in Seq(Entry) /\ Begins(seen, seen')
<1>1. offset \in Nat /\ tx_start \in Nat
  BY WordWidths DEF FileInv, TypeOK
<1>2. Begins(seen, seen)
  BY LenProperties DEF Begins
<1>3. ASSUME NEW e \in Entry, seen' = Append(seen, e)
      PROVE  seen' \in Seq(Entry) /\ Begins(seen, seen')
  <2>1. <<e>> \in Seq(Entry) /\ seen' = seen \o <<e>>
    BY <1>3, Single, AppendIsConcat
  <2> QED
    BY <2>1, ConcatProperties, BeginsConcat
<1>4. ASSUME Block, seen' # seen
      PROVE  \E e \in Entry : seen' = Append(seen, e)
  <2>1. seen' = Append(seen, <<"block", offset + FrameLen + HeadLen>>)
    BY <1>4 DEF Block, Stray
  <2>2. offset + FrameLen + HeadLen \in Nat
    BY <1>1, FieldFacts
  <2> QED
    BY <2>1, <2>2, EntryFacts
<1>5. ASSUME TxEnd, seen' # seen
      PROVE  \E e \in Entry : seen' = Append(seen, e)
  <2>1. seen' = Append(seen, <<"tx", tx_start, offset + LockLen>>)
    BY <1>5 DEF TxEnd, Stray
  <2>2. offset + LockLen \in Nat
    BY <1>1, FieldFacts
  <2> QED
    BY <1>1, <2>1, <2>2, EntryFacts
<1>6. ASSUME In
      PROVE  seen' \in Seq(Entry) /\ Begins(seen, seen')
  <2>1. Marked \in Seq(Entry)
    BY <1>1, EntryFacts, Single, EmptySeq DEF Marked
  <2>2. seen' = seen \o Marked
    BY <1>6 DEF In
  <2> QED
    BY <2>1, <2>2, ConcatProperties, BeginsConcat
<1>7. ASSUME Txs \/ BlockEnd \/ Tx \/ Outs \/ Out \/ Done
      PROVE  seen' = seen
  BY <1>7 DEF Txs, BlockEnd, Tx, Outs, Out, Done, Stray
<1> QED
  BY <1>2, <1>3, <1>4, <1>5, <1>6, <1>7 DEF Next

\* The walk leaves a file that does not hold the chain.
LEMMA GoesAstray ==
  ASSUME NEW c \in Chains, NEW w \in Widths, file' = file, pc' = "astray",
         ~HoldsSome(c, w),
         Begins(seen', AllSeen(c, w)) \/ Begins(AllSeen(c, w), seen')
  PROVE  Tracked(c, w)'
<1>1. ~HoldsSome(c, w)'
  BY SameFile
<1> QED
  BY <1>1 DEF Tracked, Strayed

-----------------------------------------------------------------------------
(* A step of the walk, by where it is.                                     *)

\* A chain that is not all there: the walk leaves the file.
LEMMA Unread ==
  ASSUME NEW c \in Chains, NEW w \in Widths, file \in Files,
         Agrees(file, Whole[<<c, w>>], 0), ~Fits(c, w),
         file' = file, pc' = "astray", Begins(seen', AllSeen(c, w))
  PROVE  Tracked(c, w)'
BY HoldsFacts, GoesAstray

\* The number of transactions is read.
LEMMA FromTxs ==
  ASSUME NEW c \in Chains, NEW w \in Widths, FileInv,
         Agrees(file, Whole[<<c, w>>], 0), Next,
         NEW k \in 0 .. (Len(c) - 1), AtTxs(c, w, k)
  PROVE  Tracked(c, w)'
<1>1. Txs /\ file' = file /\ file \in Files
  BY Moves DEF AtTxs, FileInv
<1>2. PICK b, e, o : /\ b = c[k + 1] /\ e = Encode(Len(b), w)
                     /\ o = BlockPlace(c, w, k) + (FrameLen + HeadLen)
  OBVIOUS
<1>3. /\ Len(b) \in 0 .. (Word - 1) /\ BlockPlace(c, w, k) \in Nat
      /\ Agrees(file, e, o)
      /\ 0 \in 0 .. Len(b)
      /\ TxPlace(c, w, k, 0) \in Nat /\ TxPlace(c, w, k, 0) <= WholeLen(c, w)
      /\ TxPlace(c, w, k, 0) = o + Len(e)
  <2>1. file \in Seq(Nat)
    BY <1>1, FileSeq
  <2>2. Len(b) \in 0 .. (Word - 1)
    BY <1>2, PlaceFacts
  <2>3. 0 \in 0 .. Len(b)
    BY <2>2, WordWidths
  <2> QED
    BY <1>2, <2>1, <2>2, <2>3, PlaceFacts
<1>4. o \in Nat /\ offset = o
  BY <1>2, <1>3, FieldFacts DEF AtTxs
<1>5. w \in Nat /\ WholeLen(c, w) \in Nat
  BY ChainFacts
<1>6. /\ Readable(o) <=> o + Len(e) <= len
      /\ Readable(o) => VarInt(o) = Len(b) /\ Past(o) = o + Len(e)
  BY <1>1, <1>2, <1>3, <1>4, <1>5, ReadEncoded
<1>7. CASE Readable(o)
  <2>1. /\ n_tx' = Len(b) /\ offset' = o + Len(e) /\ first' = TRUE
        /\ pc' = "tx" /\ seen' = seen
    BY <1>1, <1>4, <1>6, <1>7 DEF Txs
  <2>2. n_tx' = Len(c[k + 1]) - 0
    BY <1>2, <1>3, <2>1, WordWidths
  <2>3. seen = SeenTxs(c, w, k, 0)
    BY DEF AtTxs
  <2>4. offset' = TxPlace(c, w, k, 0) /\ offset' <= len'
    BY <1>1, <1>3, <1>6, <1>7, <2>1 DEF len
  <2>5. AtTx(c, w, k, 0)'
    BY <2>1, <2>2, <2>3, <2>4 DEF AtTx
  <2> QED
    BY <1>2, <1>3, <2>5 DEF Tracked, Walking
<1>8. CASE ~Readable(o)
  <2>1. pc' = "astray" /\ seen' = seen
    BY <1>1, <1>4, <1>8 DEF Txs, Stray
  <2>2. ~Fits(c, w)
    <3>1. len \in Nat
      BY <1>1, FileSeq
    <3> QED
      BY <1>3, <1>4, <1>5, <1>6, <1>8, <3>1 DEF Fits
  <2>3. Begins(seen, AllSeen(c, w))
    BY <1>2, <1>3, SeenTxsFacts DEF AtTxs
  <2> QED
    BY <1>1, <2>1, <2>2, <2>3, Unread
<1> QED
  BY <1>7, <1>8

\* The block ends, or the number of inputs of its next transaction is read.
LEMMA FromTx ==
  ASSUME NEW c \in Chains, NEW w \in Widths, FileInv,
         Agrees(file, Whole[<<c, w>>], 0), Next,
         NEW k \in 0 .. (Len(c) - 1), NEW i \in 0 .. Len(c[k + 1]), AtTx(c, w, k, i)
  PROVE  Tracked(c, w)'
<1>1. /\ BlockEnd \/ Tx
      /\ file' = file /\ file \in Files
  BY Moves DEF AtTx, FileInv
<1>2. PICK b : b = c[k + 1]
  OBVIOUS
<1>3. /\ Len(b) \in 0 .. (Word - 1) /\ i \in 0 .. Len(b)
      /\ TxPlace(c, w, k, i) \in Nat /\ TxPlace(c, w, k, i) <= WholeLen(c, w)
      /\ TxPlace(c, w, k, Len(b)) = BlockPlace(c, w, k + 1)
      /\ k + 1 \in 0 .. Len(c)
  BY <1>2, PlaceFacts
<1>4. /\ offset = TxPlace(c, w, k, i) /\ n_tx = Len(b) - i
      /\ seen = SeenTxs(c, w, k, i) /\ offset <= len
  BY <1>2 DEF AtTx
<1>5. w \in Nat /\ WholeLen(c, w) \in Nat /\ len \in Nat /\ file \in Seq(Nat)
  BY <1>1, ChainFacts, FileSeq
<1>6. CASE BlockEnd
  <2>1. n_tx = 0 /\ pc' = "block" /\ offset' = offset /\ seen' = seen
    BY <1>6 DEF BlockEnd
  <2>2. i = Len(b)
    BY <1>3, <1>4, <2>1, WordWidths
  <2>3. seen = ChainEntries(c, w, k + 1) /\ offset = BlockPlace(c, w, k + 1)
    BY <1>2, <1>3, <1>4, <2>2, SeenTxsFacts
  <2>4. AtBlock(c, w, k + 1)'
    BY <1>1, <1>4, <2>1, <2>3 DEF AtBlock, len
  <2> QED
    BY <1>3, <2>4 DEF Tracked, Walking
<1>7. CASE Tx
  <2>1. n_tx > 0
    BY <1>7 DEF Tx
  <2>2. i \in 0 .. (Len(b) - 1)
    BY <1>3, <1>4, <2>1, WordWidths
  <2>3. PICK t, e, o : /\ t = b[i + 1] /\ e = Encode(Len(t.ins), w)
                       /\ o = TxPlace(c, w, k, i) + VersLen
    OBVIOUS
  <2>4. /\ t \in Transactions /\ Len(TxBytes(t, w)) \in 0 .. (Word - 1)
        /\ TxPlace(c, w, k, i + 1) = TxPlace(c, w, k, i) + Len(TxBytes(t, w))
        /\ TxPlace(c, w, k, i + 1) <= WholeLen(c, w)
        /\ Agrees(file, TxBytes(t, w), TxPlace(c, w, k, i))
    BY <1>2, <1>5, <2>2, <2>3, TxPlaceFacts
  <2>5. Agrees(file, e, o)
    BY <1>3, <1>5, <2>3, <2>4, TxAgrees
  <2>6. /\ Len(t.ins) \in Nat /\ 0 \in 0 .. Len(t.ins)
    BY <2>4, TransactionFacts
  <2>7. /\ Len(t.ins) \in 0 .. (Word - 1)
        /\ Len(ThroughIn(t, w, 0)) \in Nat
        /\ Len(ThroughIn(t, w, 0)) = VersLen + Len(e)
        /\ Len(ThroughIn(t, w, 0)) <= Len(TxBytes(t, w))
        /\ Len(e) \in Nat
    <3>1. /\ Len(t.ins) <= Len(TxBytes(t, w))
          /\ Len(ThroughIn(t, w, 0)) <= Len(TxBytes(t, w))
      BY <1>5, <2>4, <2>6, TxSizes
    <3>2. Len(e) \in Nat
      BY <1>5, <2>3, <2>6, EncodeFacts
    <3>3. Len(ThroughIn(t, w, 0)) \in Nat /\ Len(ThroughIn(t, w, 0)) = VersLen + Len(e)
      BY <1>5, <2>3, <2>4, <2>6, InPlaces
    <3>4. Len(t.ins) \in 0 .. (Word - 1)
      BY <2>4, <2>6, <3>1, WordWidths
    <3> QED
      BY <3>1, <3>2, <3>3, <3>4
  <2>8. o \in Nat /\ offset + VersLen = o
    <3>1. offset = TxPlace(c, w, k, i) /\ offset \in Nat
      BY <1>3, <1>4
    <3>2. VersLen \in Nat
      BY FieldFacts
    <3> QED
      BY <2>3, <3>1, <3>2
  <2>9. /\ Readable(o) <=> o + Len(e) <= len
        /\ Readable(o) => VarInt(o) = Len(t.ins) /\ Past(o) = o + Len(e)
    <3>1. /\ o \in Nat /\ w \in Nat /\ Len(t.ins) \in 0 .. (Word - 1)
          /\ Agrees(file, Encode(Len(t.ins), w), o)
      BY <1>5, <2>3, <2>5, <2>7, <2>8
    <3>2. /\ Readable(o) <=> o + Len(Encode(Len(t.ins), w)) <= len
          /\ Readable(o) => /\ VarInt(o) = Len(t.ins)
                            /\ Past(o) = o + Len(Encode(Len(t.ins), w))
      BY <1>1, <3>1, ReadEncoded
    <3> QED
      BY <2>3, <3>2
  <2>10. CASE Readable(o)
    <3>1. /\ tx_start' = offset /\ n_txin' = Len(t.ins) /\ offset' = o + Len(e)
          /\ pc' = "in" /\ n_tx' = n_tx /\ first' = first /\ seen' = seen
      BY <1>7, <2>8, <2>9, <2>10 DEF Tx
    <3>2. InTx(c, w, k, i)'
      BY <1>2, <1>4, <3>1 DEF InTx, AtTx
    <3>3. offset' = TxPlace(c, w, k, i) + Len(ThroughIn(t, w, 0))
      <4>1. PICK p, n, l : /\ p = TxPlace(c, w, k, i) /\ n = Len(e)
                           /\ l = Len(ThroughIn(t, w, 0))
        OBVIOUS
      <4>2. p \in Nat /\ n \in Nat /\ l = VersLen + n /\ offset' = (p + VersLen) + n
        BY <1>3, <2>3, <2>7, <3>1, <4>1
      <4>3. offset' = p + l
        BY <4>2, FieldFacts
      <4> QED
        BY <4>1, <4>3
    <3>4. n_txin' = Len(t.ins) - 0
      BY <2>6, <3>1
    <3>5. seen = SeenIn(c, w, k, i, 0)
      BY <1>2, <1>4, <2>2, SeenInFacts
    <3>6. AtIn(c, w, k, i, 0)'
      BY <1>2, <2>3, <3>1, <3>2, <3>3, <3>4, <3>5 DEF AtIn
    <3> QED
      BY <1>2, <2>2, <2>3, <2>6, <3>6 DEF Tracked, Walking
  <2>11. CASE ~Readable(o)
    <3>1. pc' = "astray" /\ seen' = seen
      BY <1>7, <2>8, <2>11 DEF Tx, Stray
    <3>2. ~Fits(c, w)
      <4>1. PICK p, n, l, x : /\ p = TxPlace(c, w, k, i) /\ n = Len(e)
                              /\ l = Len(ThroughIn(t, w, 0)) /\ x = Len(TxBytes(t, w))
        OBVIOUS
      <4>2. /\ p \in Nat /\ n \in Nat /\ x \in Nat /\ l = VersLen + n /\ l <= x
            /\ p + x <= WholeLen(c, w) /\ ~((p + VersLen) + n <= len)
        BY <1>3, <2>3, <2>4, <2>7, <2>9, <2>11, <4>1, WordWidths
      <4>3. PICK L, z : L = WholeLen(c, w) /\ z = len
        OBVIOUS
      <4>4. VersLen \in Nat /\ L \in Nat /\ z \in Nat
        BY <1>5, <4>3, FieldFacts
      <4>5. p + x <= L /\ ~((p + VersLen) + n <= z)
        BY <4>2, <4>3
      <4>6. ~(L <= z)
        BY <4>2, <4>4, <4>5
      <4> QED
        BY <4>3, <4>6 DEF Fits
    <3>3. Begins(seen, AllSeen(c, w))
      BY <1>2, <1>3, <1>4, SeenTxsFacts
    <3> QED
      BY <1>1, <3>1, <3>2, <3>3, Unread
  <2> QED
    BY <2>10, <2>11
<1> QED
  BY <1>1, <1>6, <1>7

\* A word that needs no wrapping.
LEMMA Unwrapped ==
  ASSUME NEW x \in Nat, x < Word
  PROVE  x % Word = x
<1>1. Word \in Nat
  BY WordWidths
<1> QED
  BY <1>1

\* A transaction of a chain as a file has it that agrees with the chain.
LEMMA TxInFile ==
  ASSUME NEW c \in Chains, NEW w \in Widths, file \in Files,
         Agrees(file, Whole[<<c, w>>], 0),
         NEW k \in 0 .. (Len(c) - 1), NEW i \in 0 .. (Len(c[k + 1]) - 1)
  PROVE  LET t == c[k + 1][i + 1]
         IN /\ t \in Transactions /\ w \in Nat /\ TxPlace(c, w, k, i) \in Nat
            /\ Len(TxBytes(t, w)) \in Nat
            /\ TxPlace(c, w, k, i) + Len(TxBytes(t, w)) = TxPlace(c, w, k, i + 1)
            /\ TxPlace(c, w, k, i) + Len(TxBytes(t, w)) <= WholeLen(c, w)
            /\ WholeLen(c, w) \in Nat /\ WholeLen(c, w) < Word
            /\ \A j \in 1 .. Len(t.ins) : t.ins[j] \in 0 .. (Word - 1)
            /\ \A j \in 1 .. Len(t.outs) : t.outs[j] \in 0 .. (Word - 1)
            /\ Len(t.outs) \in 0 .. (Word - 1)
            /\ Agrees(file, TxBytes(t, w), TxPlace(c, w, k, i))
<1>1. PICK t, x : t = c[k + 1][i + 1] /\ x = Len(TxBytes(t, w))
  OBVIOUS
<1>2. /\ t \in Transactions /\ TxPlace(c, w, k, i) \in Nat /\ x \in 0 .. (Word - 1)
      /\ TxPlace(c, w, k, i + 1) = TxPlace(c, w, k, i) + x
      /\ TxPlace(c, w, k, i + 1) <= WholeLen(c, w)
      /\ Agrees(file, TxBytes(t, w), TxPlace(c, w, k, i))
  BY <1>1, TxPlaceFacts, FileSeq
<1>3. w \in Nat /\ WholeLen(c, w) \in Nat /\ WholeLen(c, w) < Word
  BY ChainFacts
<1>4. x \in Nat /\ x < Word
  BY <1>2, WordWidths
<1>5. /\ Len(t.outs) \in Nat /\ Len(t.outs) <= x
      /\ \A j \in 1 .. Len(t.ins) : t.ins[j] \in Nat /\ t.ins[j] <= x
      /\ \A j \in 1 .. Len(t.outs) : t.outs[j] \in Nat /\ t.outs[j] <= x
  BY <1>1, <1>2, <1>3, TxSizes, TransactionFacts
<1>6. \A n \in Nat : n <= x => n \in 0 .. (Word - 1)
  BY <1>4, WordWidths
<1>7. /\ Len(t.outs) \in 0 .. (Word - 1)
      /\ \A j \in 1 .. Len(t.ins) : t.ins[j] \in 0 .. (Word - 1)
      /\ \A j \in 1 .. Len(t.outs) : t.outs[j] \in 0 .. (Word - 1)
  BY <1>5, <1>6
<1> QED
  BY <1>1, <1>2, <1>3, <1>4, <1>7

\* Beyond a field of the transaction that is not all there is the end of the chain.
LEMMA CutShort ==
  ASSUME file \in Files, NEW c \in Chains, NEW w \in Widths,
         NEW p \in Nat, NEW l \in Nat, NEW x \in Nat,
         l <= x, p + x <= WholeLen(c, w), ~(p + l <= len)
  PROVE  ~Fits(c, w)
<1>1. PICK L, z : L = WholeLen(c, w) /\ z = len
  OBVIOUS
<1>2. L \in Nat /\ z \in Nat
  BY <1>1, ChainFacts, FileSeq
<1>3. p + x <= L /\ ~(p + l <= z)
  BY <1>1
<1>4. ~(L <= z)
  BY <1>2, <1>3
<1> QED
  BY <1>1, <1>4 DEF Fits

\* An input is marked and skipped.
LEMMA FromInNext ==
  ASSUME NEW c \in Chains, NEW w \in Widths, FileInv,
         Agrees(file, Whole[<<c, w>>], 0), In,
         NEW k \in 0 .. (Len(c) - 1), NEW i \in 0 .. (Len(c[k + 1]) - 1),
         NEW j \in 0 .. Len(c[k + 1][i + 1].ins), AtIn(c, w, k, i, j)
  PROVE  Tracked(c, w)'
<1>1. file' = file /\ file \in Files /\ n_txin > 0
  BY DEF In, FileInv
<1>2. PICK t, p, x, L : /\ t = c[k + 1][i + 1] /\ p = TxPlace(c, w, k, i)
                        /\ x = Len(TxBytes(t, w)) /\ L = WholeLen(c, w)
  OBVIOUS
<1>3. /\ t \in Transactions /\ w \in Nat /\ p \in Nat /\ x \in Nat
      /\ p + x <= L /\ L \in Nat /\ L < Word
      /\ \A n \in 1 .. Len(t.ins) : t.ins[n] \in 0 .. (Word - 1)
      /\ Agrees(file, TxBytes(t, w), p)
  BY <1>1, <1>2, TxInFile
<1>4. /\ offset = p + Len(ThroughIn(t, w, j)) /\ n_txin = Len(t.ins) - j
      /\ seen = SeenIn(c, w, k, i, j) /\ pc = "in" /\ InTx(c, w, k, i)
  BY <1>2 DEF AtIn
<1>5. Len(t.ins) \in Nat /\ j \in 0 .. Len(t.ins)
  BY <1>2, <1>3, TransactionFacts
<1>6. /\ j + 1 \in 1 .. Len(t.ins) /\ j + 1 \in 0 .. Len(t.ins)
      /\ (j + 1) - 1 = j
  <2>1. PICK l : l = Len(t.ins)
    OBVIOUS
  <2>2. l \in Nat /\ j \in 0 .. l /\ l - j > 0
    BY <1>1, <1>4, <1>5, <2>1
  <2>3. j + 1 \in 1 .. l /\ j + 1 \in 0 .. l /\ (j + 1) - 1 = j
    BY <2>2
  <2> QED
    BY <2>1, <2>3
<1>7. PICK e, v, a, z, n : /\ v = t.ins[j + 1] /\ e = Encode(v, w) /\ n = Len(e)
                           /\ a = Len(ThroughIn(t, w, j))
                           /\ z = Len(ThroughIn(t, w, j + 1))
  OBVIOUS
<1>8. v \in 0 .. (Word - 1) /\ v \in Nat /\ n \in Nat
  <2>1. v \in 0 .. (Word - 1)
    BY <1>3, <1>6, <1>7
  <2>2. v \in Nat
    BY <2>1, WordWidths
  <2> QED
    BY <1>3, <1>7, <2>1, <2>2, EncodeFacts
<1>9. a \in Nat /\ z \in Nat /\ z <= x /\ z = a + (OutpLen + n + (v + SeqLen))
  <2>1. a \in Nat /\ z \in Nat
    BY <1>3, <1>5, <1>6, <1>7, InPlaces
  <2>2. z <= x
    BY <1>2, <1>3, <1>6, <1>7, TxSizes
  <2>3. z = a + (OutpLen + n + (v + SeqLen))
    <3>1. PICK q : q = j + 1
      OBVIOUS
    <3>2. q \in 1 .. Len(t.ins) /\ q - 1 = j
      BY <1>6, <3>1
    <3>3. Len(ThroughIn(t, w, q)) =
            Len(ThroughIn(t, w, q - 1))
              + (OutpLen + Len(Encode(t.ins[q], w)) + (t.ins[q] + SeqLen))
      BY <1>3, <3>2, InPlaces
    <3> QED
      BY <1>7, <3>1, <3>2, <3>3
  <2> QED
    BY <2>1, <2>2, <2>3
<1>10. PICK o : o = p + a + OutpLen
  OBVIOUS
<1>11. Agrees(file, e, o)
  <2>1. file \in Seq(Nat)
    BY <1>1, FileSeq
  <2> QED
    BY <1>3, <1>6, <1>7, <1>10, <2>1, TxAgrees
<1>12. OutpLen \in Nat /\ SeqLen \in Nat
  BY FieldFacts
<1>13. o \in Nat /\ offset + OutpLen = o /\ offset = p + a
  <2>1. p \in Nat /\ a \in Nat /\ offset = p + a
    BY <1>3, <1>4, <1>7, <1>9
  <2> QED
    BY <1>10, <1>12, <2>1
<1>14. len \in Nat
  BY <1>1, FileSeq
<1>15. /\ Readable(o) <=> o + n <= len
       /\ Readable(o) => VarInt(o) = v /\ Past(o) = o + n
  <2>1. o \in Nat /\ w \in Nat /\ Agrees(file, Encode(v, w), o)
    BY <1>3, <1>7, <1>11, <1>13
  <2>2. /\ Readable(o) <=> o + Len(Encode(v, w)) <= len
        /\ Readable(o) => VarInt(o) = v /\ Past(o) = o + Len(Encode(v, w))
    BY <1>1, <1>8, <2>1, ReadEncoded
  <2> QED
    BY <1>7, <2>2
<1>16. /\ n_tx' = n_tx /\ first' = first /\ tx_start' = tx_start
       /\ seen' = seen \o Marked
       /\ IF Readable(o)
          THEN /\ offset' = (Past(o) + VarInt(o) + SeqLen) % Word
               /\ n_txin' = n_txin - 1 /\ pc' = pc
          ELSE pc' = "astray"
  BY <1>13 DEF In
<1>17. SeenIn(c, w, k, i, j + 1)
         = seen \o (IF i = 0 THEN << >> ELSE << <<"spend", offset, tx_start>> >>)
  <2>1. tx_start = p
    BY <1>2, <1>4 DEF InTx
  <2>2. PICK q : q = j + 1
    OBVIOUS
  <2>3. q \in 1 .. Len(t.ins) /\ q - 1 = j
    BY <1>6, <2>2
  <2>4. SeenIn(c, w, k, i, q)
          = SeenIn(c, w, k, i, q - 1)
              \o (IF i = 0 THEN << >>
                  ELSE << <<"spend", p + Len(ThroughIn(t, w, q - 1)), p>> >>)
    BY <1>2, <2>3, SeenInFacts
  <2>5. SeenIn(c, w, k, i, j) = seen /\ p + Len(ThroughIn(t, w, j)) = offset
    BY <1>4
  <2> QED
    BY <2>1, <2>2, <2>3, <2>4, <2>5
<1>18. first = (i = 0)
  BY <1>4 DEF InTx
<1>19. CASE Readable(o)
  <2>1. offset' = p + z
    <3>1. Past(o) + VarInt(o) + SeqLen = p + z
      <4>1. Past(o) = p + a + OutpLen + n /\ VarInt(o) = v
        BY <1>10, <1>15, <1>19
      <4>2. p \in Nat /\ a \in Nat /\ n \in Nat /\ v \in Nat
        BY <1>3, <1>8, <1>9
      <4>3. z = a + (OutpLen + n + (v + SeqLen))
        BY <1>9
      <4> QED
        BY <1>12, <4>1, <4>2, <4>3, SMTT(20)
    <3>2. p + z \in Nat /\ p + z < Word
      <4>1. p \in Nat /\ z \in Nat /\ x \in Nat /\ z <= x /\ p + x <= L
        BY <1>3, <1>9
      <4>2. L \in Nat /\ L < Word /\ Word \in Nat
        BY <1>3, WordWidths
      <4> QED
        BY <4>1, <4>2, SMTT(20)
    <3> QED
      BY <1>16, <1>19, <3>1, <3>2, Unwrapped
  <2>2. seen' = SeenIn(c, w, k, i, j + 1)
    <3>1. Within(offset, OutpLen)
      BY <1>13, <1>14, <1>19 DEF Readable, Within
    <3>2. Marked = IF i = 0 THEN << >> ELSE << <<"spend", offset, tx_start>> >>
      BY <1>18, <3>1 DEF Marked
    <3> QED
      BY <1>16, <1>17, <3>2
  <2>3. InTx(c, w, k, i)'
    BY <1>4, <1>16 DEF InTx
  <2>4. n_txin' = Len(t.ins) - (j + 1) /\ pc' = "in"
    BY <1>4, <1>5, <1>6, <1>16, <1>19
  <2>5. AtIn(c, w, k, i, j + 1)'
    BY <1>2, <1>7, <2>1, <2>2, <2>3, <2>4 DEF AtIn
  <2> QED
    BY <1>2, <1>6, <2>5 DEF Tracked, Walking
<1>20. CASE ~Readable(o)
  <2>1. seen' = SeenIn(c, w, k, i, j) \/ seen' = SeenIn(c, w, k, i, j + 1)
    <3>1. seen \in Seq(Entry)
      BY <1>2, <1>4, <1>5, SeenInFacts
    <3>2. seen \o << >> = seen
      BY <3>1, ConcatEmptySeq
    <3>3. CASE Marked = << >>
      BY <1>4, <1>16, <3>2, <3>3
    <3>4. CASE Marked # << >>
      <4>1. ~first /\ Marked = << <<"spend", offset, tx_start>> >>
        BY <3>4 DEF Marked
      <4> QED
        BY <1>16, <1>17, <1>18, <4>1
    <3> QED
      BY <3>3, <3>4
  <2>2. Begins(seen', AllSeen(c, w))
    BY <1>2, <1>5, <1>6, <2>1, SeenInFacts
  <2>3. ~(p + z <= len)
    <3>1. PICK m : m = len
      OBVIOUS
    <3>2. m \in Nat /\ ~(p + a + OutpLen + n <= m)
      BY <1>10, <1>14, <1>15, <1>20, <3>1
    <3>3. ~(p + z <= m)
      <4>1. p \in Nat /\ a \in Nat /\ n \in Nat /\ v \in Nat
        BY <1>3, <1>8, <1>9
      <4>2. z = a + (OutpLen + n + (v + SeqLen))
        BY <1>9
      <4> QED
        BY <1>12, <3>2, <4>1, <4>2
    <3> QED
      BY <3>1, <3>3
  <2>4. ~Fits(c, w)
    BY <1>1, <1>2, <1>3, <1>9, <2>3, CutShort
  <2> QED
    BY <1>1, <1>16, <1>20, <2>2, <2>4, Unread
<1> QED
  BY <1>19, <1>20

\* After the inputs the number of outputs is read.
LEMMA FromInLast ==
  ASSUME NEW c \in Chains, NEW w \in Widths, FileInv,
         Agrees(file, Whole[<<c, w>>], 0), Outs,
         NEW k \in 0 .. (Len(c) - 1), NEW i \in 0 .. (Len(c[k + 1]) - 1),
         NEW j \in 0 .. Len(c[k + 1][i + 1].ins), AtIn(c, w, k, i, j)
  PROVE  Tracked(c, w)'
<1>1. file' = file /\ file \in Files /\ n_txin = 0
  BY DEF Outs, Stray, FileInv
<1>2. PICK t, p, x, L : /\ t = c[k + 1][i + 1] /\ p = TxPlace(c, w, k, i)
                        /\ x = Len(TxBytes(t, w)) /\ L = WholeLen(c, w)
  OBVIOUS
<1>3. /\ t \in Transactions /\ w \in Nat /\ p \in Nat /\ x \in Nat
      /\ p + x <= L /\ Len(t.outs) \in 0 .. (Word - 1)
      /\ Agrees(file, TxBytes(t, w), p)
  BY <1>1, <1>2, TxInFile
<1>4. /\ offset = p + Len(ThroughIn(t, w, j)) /\ n_txin = Len(t.ins) - j
      /\ seen = SeenIn(c, w, k, i, j) /\ InTx(c, w, k, i)
  BY <1>2 DEF AtIn
<1>5. /\ Len(t.ins) \in Nat /\ j \in 0 .. Len(t.ins)
      /\ Len(t.outs) \in Nat /\ 0 \in 0 .. Len(t.outs)
  <2>1. Len(t.outs) \in Nat /\ Len(t.ins) \in Nat
    BY <1>3, TransactionFacts
  <2> QED
    BY <1>2, <2>1
<1>6. j = Len(t.ins)
  BY <1>1, <1>4, <1>5
<1>7. PICK e, n, a, z : /\ e = Encode(Len(t.outs), w) /\ n = Len(e)
                        /\ a = Len(ThroughIn(t, w, Len(t.ins)))
                        /\ z = Len(ThroughOut(t, w, 0))
  OBVIOUS
<1>8. n \in Nat /\ a \in Nat /\ z \in Nat /\ z = a + n /\ z <= x
  <2>1. n \in Nat
    BY <1>3, <1>5, <1>7, EncodeFacts
  <2>2. a \in Nat
    BY <1>3, <1>5, <1>6, <1>7, InPlaces
  <2>3. z \in Nat /\ z = a + n
    BY <1>3, <1>5, <1>7, OutPlaces
  <2>4. z <= x
    BY <1>2, <1>3, <1>5, <1>7, TxSizes
  <2> QED
    BY <2>1, <2>2, <2>3, <2>4
<1>9. offset = p + a /\ offset \in Nat /\ Agrees(file, e, offset)
  <2>1. file \in Seq(Nat)
    BY <1>1, FileSeq
  <2>2. Agrees(file, e, p + a)
    BY <1>3, <1>7, <2>1, TxAgrees
  <2> QED
    <3>1. offset = p + a /\ p \in Nat /\ a \in Nat
      BY <1>3, <1>4, <1>6, <1>7, <1>8
    <3> QED
      BY <2>2, <3>1
<1>10. /\ Readable(offset) <=> offset + n <= len
       /\ Readable(offset) => VarInt(offset) = Len(t.outs) /\ Past(offset) = offset + n
  <2>1. Agrees(file, Encode(Len(t.outs), w), offset)
    BY <1>7, <1>9
  <2>2. /\ Readable(offset) <=> offset + Len(Encode(Len(t.outs), w)) <= len
        /\ Readable(offset) => /\ VarInt(offset) = Len(t.outs)
                               /\ Past(offset) = offset + Len(Encode(Len(t.outs), w))
    BY <1>1, <1>3, <1>9, <2>1, ReadEncoded
  <2> QED
    BY <1>7, <2>2
<1>11. CASE Readable(offset)
  <2>1. /\ n_txout' = Len(t.outs) /\ offset' = offset + n /\ pc' = "out"
        /\ tx_start' = tx_start /\ n_tx' = n_tx /\ first' = first /\ seen' = seen
    BY <1>10, <1>11 DEF Outs
  <2>2. offset' = p + z
    BY <1>3, <1>8, <1>9, <2>1
  <2>3. InTx(c, w, k, i)'
    BY <1>4, <2>1 DEF InTx
  <2>4. n_txout' = Len(t.outs) - 0
    BY <1>5, <2>1
  <2>5. seen' = SeenIn(c, w, k, i, Len(t.ins))
    BY <1>4, <1>6, <2>1
  <2>6. AtOut(c, w, k, i, 0)'
    BY <1>2, <1>7, <2>1, <2>2, <2>3, <2>4, <2>5 DEF AtOut
  <2> QED
    BY <1>2, <1>5, <2>6 DEF Tracked, Walking
<1>12. CASE ~Readable(offset)
  <2>1. pc' = "astray" /\ seen' = seen
    BY <1>12 DEF Outs, Stray
  <2>2. Begins(seen, AllSeen(c, w))
    BY <1>2, <1>4, <1>5, SeenInFacts
  <2>3. ~(p + z <= len)
    <3>1. offset + n = p + z
      BY <1>3, <1>8, <1>9
    <3> QED
      BY <1>10, <1>12, <3>1
  <2>4. ~Fits(c, w)
    BY <1>1, <1>2, <1>3, <1>8, <2>3, CutShort
  <2> QED
    BY <1>1, <2>1, <2>2, <2>4, Unread
<1> QED
  BY <1>11, <1>12

\* An output is skipped.
LEMMA FromOutNext ==
  ASSUME NEW c \in Chains, NEW w \in Widths, FileInv,
         Agrees(file, Whole[<<c, w>>], 0), Out,
         NEW k \in 0 .. (Len(c) - 1), NEW i \in 0 .. (Len(c[k + 1]) - 1),
         NEW j \in 0 .. Len(c[k + 1][i + 1].outs), AtOut(c, w, k, i, j)
  PROVE  Tracked(c, w)'
<1>1. file' = file /\ file \in Files /\ n_txout > 0
  BY DEF Out, Stray, FileInv
<1>2. PICK t, p, x, L : /\ t = c[k + 1][i + 1] /\ p = TxPlace(c, w, k, i)
                        /\ x = Len(TxBytes(t, w)) /\ L = WholeLen(c, w)
  OBVIOUS
<1>3. /\ t \in Transactions /\ w \in Nat /\ p \in Nat /\ x \in Nat
      /\ p + x <= L /\ L \in Nat /\ L < Word
      /\ \A n \in 1 .. Len(t.outs) : t.outs[n] \in 0 .. (Word - 1)
      /\ Agrees(file, TxBytes(t, w), p)
  BY <1>1, <1>2, TxInFile
<1>4. /\ offset = p + Len(ThroughOut(t, w, j)) /\ n_txout = Len(t.outs) - j
      /\ seen = SeenIn(c, w, k, i, Len(t.ins)) /\ pc = "out" /\ InTx(c, w, k, i)
  BY <1>2 DEF AtOut
<1>5. /\ Len(t.outs) \in Nat /\ j \in 0 .. Len(t.outs)
      /\ Len(t.ins) \in 0 .. Len(t.ins)
  <2>1. Len(t.outs) \in Nat /\ Len(t.ins) \in Nat
    BY <1>3, TransactionFacts
  <2> QED
    BY <1>2, <2>1
<1>6. /\ j + 1 \in 1 .. Len(t.outs) /\ j + 1 \in 0 .. Len(t.outs)
      /\ (j + 1) - 1 = j
  <2>1. PICK l : l = Len(t.outs)
    OBVIOUS
  <2>2. l \in Nat /\ j \in 0 .. l /\ l - j > 0
    BY <1>1, <1>4, <1>5, <2>1
  <2>3. j + 1 \in 1 .. l /\ j + 1 \in 0 .. l /\ (j + 1) - 1 = j
    BY <2>2
  <2> QED
    BY <2>1, <2>3
<1>7. PICK e, v, a, z, n : /\ v = t.outs[j + 1] /\ e = Encode(v, w) /\ n = Len(e)
                           /\ a = Len(ThroughOut(t, w, j))
                           /\ z = Len(ThroughOut(t, w, j + 1))
  OBVIOUS
<1>8. v \in 0 .. (Word - 1) /\ v \in Nat /\ n \in Nat
  <2>1. v \in 0 .. (Word - 1)
    BY <1>3, <1>6, <1>7
  <2>2. v \in Nat
    BY <2>1, WordWidths
  <2> QED
    BY <1>3, <1>7, <2>1, <2>2, EncodeFacts
<1>9. a \in Nat /\ z \in Nat /\ z <= x /\ z = a + (ValLen + n + v)
  <2>1. a \in Nat /\ z \in Nat
    BY <1>3, <1>5, <1>6, <1>7, OutPlaces
  <2>2. z <= x
    BY <1>2, <1>3, <1>6, <1>7, TxSizes
  <2>3. z = a + (ValLen + n + v)
    <3>1. PICK q : q = j + 1
      OBVIOUS
    <3>2. q \in 1 .. Len(t.outs) /\ q - 1 = j
      BY <1>6, <3>1
    <3>3. Len(ThroughOut(t, w, q)) =
            Len(ThroughOut(t, w, q - 1))
              + (ValLen + Len(Encode(t.outs[q], w)) + t.outs[q])
      BY <1>3, <3>2, OutPlaces
    <3> QED
      BY <1>7, <3>1, <3>2, <3>3
  <2> QED
    BY <2>1, <2>2, <2>3
<1>10. PICK o : o = p + a + ValLen
  OBVIOUS
<1>11. Agrees(file, e, o)
  <2>1. file \in Seq(Nat)
    BY <1>1, FileSeq
  <2> QED
    BY <1>3, <1>6, <1>7, <1>10, <2>1, TxAgrees
<1>12. ValLen \in Nat
  BY FieldFacts
<1>13. o \in Nat /\ offset + ValLen = o
  <2>1. p \in Nat /\ a \in Nat /\ offset = p + a
    BY <1>3, <1>4, <1>7, <1>9
  <2> QED
    BY <1>10, <1>12, <2>1
<1>14. len \in Nat
  BY <1>1, FileSeq
<1>15. /\ Readable(o) <=> o + n <= len
       /\ Readable(o) => VarInt(o) = v /\ Past(o) = o + n
  <2>1. o \in Nat /\ w \in Nat /\ Agrees(file, Encode(v, w), o)
    BY <1>3, <1>7, <1>11, <1>13
  <2>2. /\ Readable(o) <=> o + Len(Encode(v, w)) <= len
        /\ Readable(o) => VarInt(o) = v /\ Past(o) = o + Len(Encode(v, w))
    BY <1>1, <1>8, <2>1, ReadEncoded
  <2> QED
    BY <1>7, <2>2
<1>16. CASE Readable(o)
  <2>1. /\ offset' = (Past(o) + VarInt(o)) % Word /\ n_txout' = n_txout - 1
        /\ pc' = "out" /\ tx_start' = tx_start /\ n_tx' = n_tx /\ first' = first
        /\ seen' = seen
    BY <1>4, <1>13, <1>16 DEF Out
  <2>2. offset' = p + z
    <3>1. Past(o) + VarInt(o) = p + z
      <4>1. Past(o) = p + a + ValLen + n /\ VarInt(o) = v
        BY <1>10, <1>15, <1>16
      <4>2. p \in Nat /\ a \in Nat /\ n \in Nat /\ v \in Nat
        BY <1>3, <1>8, <1>9
      <4>3. z = a + (ValLen + n + v)
        BY <1>9
      <4> QED
        BY <1>12, <4>1, <4>2, <4>3, SMTT(20)
    <3>2. p + z \in Nat /\ p + z < Word
      <4>1. p \in Nat /\ z \in Nat /\ x \in Nat /\ z <= x /\ p + x <= L
        BY <1>3, <1>9
      <4>2. L \in Nat /\ L < Word /\ Word \in Nat
        BY <1>3, WordWidths
      <4> QED
        BY <4>1, <4>2
    <3> QED
      BY <2>1, <3>1, <3>2, Unwrapped
  <2>3. InTx(c, w, k, i)'
    BY <1>4, <2>1 DEF InTx
  <2>4. n_txout' = Len(t.outs) - (j + 1)
    BY <1>4, <1>5, <1>6, <2>1
  <2>5. AtOut(c, w, k, i, j + 1)'
    BY <1>2, <1>4, <1>7, <2>1, <2>2, <2>3, <2>4 DEF AtOut
  <2> QED
    BY <1>2, <1>6, <2>5 DEF Tracked, Walking
<1>17. CASE ~Readable(o)
  <2>1. pc' = "astray" /\ seen' = seen
    BY <1>13, <1>17 DEF Out, Stray
  <2>2. Begins(seen', AllSeen(c, w))
    BY <1>2, <1>4, <1>5, <2>1, SeenInFacts
  <2>3. ~(p + z <= len)
    <3>1. PICK m : m = len
      OBVIOUS
    <3>2. m \in Nat /\ ~(p + a + ValLen + n <= m)
      BY <1>10, <1>14, <1>15, <1>17, <3>1
    <3>3. ~(p + z <= m)
      <4>1. p \in Nat /\ a \in Nat /\ n \in Nat /\ v \in Nat
        BY <1>3, <1>8, <1>9
      <4>2. z = a + (ValLen + n + v)
        BY <1>9
      <4> QED
        BY <1>12, <3>2, <4>1, <4>2
    <3> QED
      BY <3>1, <3>3
  <2>4. ~Fits(c, w)
    BY <1>1, <1>2, <1>3, <1>9, <2>3, CutShort
  <2> QED
    BY <1>1, <2>1, <2>2, <2>4, Unread
<1> QED
  BY <1>16, <1>17

\* After the outputs the transaction is entered.
LEMMA FromOutLast ==
  ASSUME NEW c \in Chains, NEW w \in Widths, FileInv,
         Agrees(file, Whole[<<c, w>>], 0), TxEnd,
         NEW k \in 0 .. (Len(c) - 1), NEW i \in 0 .. (Len(c[k + 1]) - 1),
         NEW j \in 0 .. Len(c[k + 1][i + 1].outs), AtOut(c, w, k, i, j)
  PROVE  Tracked(c, w)'
<1>1. file' = file /\ file \in Files /\ n_txout = 0
  BY DEF TxEnd, Stray, FileInv
<1>2. PICK t, p, x, L : /\ t = c[k + 1][i + 1] /\ p = TxPlace(c, w, k, i)
                        /\ x = Len(TxBytes(t, w)) /\ L = WholeLen(c, w)
  OBVIOUS
<1>3. /\ t \in Transactions /\ w \in Nat /\ p \in Nat /\ x \in Nat
      /\ p + x <= L /\ TxPlace(c, w, k, i + 1) = p + x
  BY <1>1, <1>2, TxInFile
<1>4. /\ offset = p + Len(ThroughOut(t, w, j)) /\ n_txout = Len(t.outs) - j
      /\ seen = SeenIn(c, w, k, i, Len(t.ins)) /\ InTx(c, w, k, i)
  BY <1>2 DEF AtOut
<1>5. /\ Len(t.outs) \in Nat /\ j \in 0 .. Len(t.outs)
      /\ Len(t.ins) \in 0 .. Len(t.ins)
  <2>1. Len(t.outs) \in Nat /\ Len(t.ins) \in Nat
    BY <1>3, TransactionFacts
  <2> QED
    BY <1>2, <2>1
<1>6. j = Len(t.outs)
  BY <1>1, <1>4, <1>5
<1>7. offset + LockLen = p + x
  <2>1. PICK a : a = Len(ThroughOut(t, w, j))
    OBVIOUS
  <2>2. a \in Nat /\ x = a + LockLen
    BY <1>2, <1>3, <1>5, <1>6, <2>1, OutPlaces
  <2>3. offset = p + a /\ p \in Nat
    BY <1>3, <1>4, <2>1
  <2>4. LockLen \in Nat
    BY FieldFacts
  <2> QED
    BY <2>2, <2>3, <2>4
<1>8. tx_start = p /\ n_tx = Len(c[k + 1]) - i
  BY <1>2, <1>4 DEF InTx
<1>9. CASE p + x <= len
  <2>8. p <= p + x
    BY <1>3
  <2>1. /\ seen' = Append(seen, <<"tx", p, p + x>>) /\ offset' = p + x
        /\ n_tx' = n_tx - 1 /\ first' = FALSE /\ pc' = "tx"
    BY <1>7, <1>8, <1>9, <2>8 DEF TxEnd
  <2>2. /\ i + 1 \in 0 .. Len(c[k + 1]) /\ i \in Nat /\ Len(c[k + 1]) \in Nat
    <3>1. i + 1 \in 0 .. Len(c[k + 1])
      BY TxPlaceFacts
    <3>2. Len(c[k + 1]) \in 0 .. (Word - 1) /\ Word \in Nat
      BY PlaceFacts, WordWidths
    <3>3. Len(c[k + 1]) \in Nat
      BY <3>2
    <3> QED
      BY <3>1, <3>3
  <2>3. seen' = SeenTxs(c, w, k, i + 1)
    BY <1>2, <1>3, <1>4, <2>1, SeenInFacts
  <2>4. n_tx' = Len(c[k + 1]) - (i + 1)
    <3>1. PICK l : l = Len(c[k + 1])
      OBVIOUS
    <3>2. n_tx' = (l - i) - 1 /\ i \in Nat /\ l \in Nat
      BY <1>8, <2>1, <2>2, <3>1
    <3>3. n_tx' = l - (i + 1)
      BY <3>2
    <3> QED
      BY <3>1, <3>3
  <2>5. first' = (i + 1 = 0)
    <3>1. i + 1 # 0
      BY <2>2
    <3> QED
      BY <2>1, <3>1
  <2>6. offset' = TxPlace(c, w, k, i + 1) /\ offset' <= len'
    BY <1>1, <1>3, <1>9, <2>1 DEF len
  <2>7. AtTx(c, w, k, i + 1)'
    BY <2>1, <2>3, <2>4, <2>5, <2>6 DEF AtTx
  <2> QED
    BY <2>2, <2>7 DEF Tracked, Walking
<1>10. CASE ~(p + x <= len)
  <2>1. pc' = "astray" /\ seen' = seen
    BY <1>7, <1>10 DEF TxEnd, Stray
  <2>2. Begins(seen', AllSeen(c, w))
    BY <1>2, <1>4, <1>5, <2>1, SeenInFacts
  <2>3. ~Fits(c, w)
    BY <1>1, <1>2, <1>3, <1>10, CutShort
  <2> QED
    BY <1>1, <2>1, <2>2, <2>3, Unread
<1> QED
  BY <1>9, <1>10

-----------------------------------------------------------------------------
(* Empty blocks in zeros.                                                  *)

\* So many times a length, and a rest.
LEMMA Multiples ==
  ASSUME NEW E \in Nat, E > 0, NEW m \in Nat, NEW r \in Nat, r < E,
         NEW d, d = m * E + r
  PROVE  d % E = r /\ d \div E = m
<1>1. m * E \in Nat
  OBVIOUS
<1>2. d \in Nat
  BY <1>1
<1>3. PICK q : q = d \div E
  OBVIOUS
<1>4. q \in Int /\ d % E \in 0 .. (E - 1) /\ d = E * q + (d % E)
  BY <1>2, <1>3
<1>5. q = m
  <2>1. ~(q < m)
    <3>1. SUFFICES ASSUME q + 1 <= m
                   PROVE  FALSE
      BY <1>4
    <3>2. E * (m - (q + 1)) >= 0
      BY <1>4, <3>1, Z3
    <3>3. E * (m - (q + 1)) = m * E - E * q - E
      BY <1>4, Z3
    <3>4. E * q \in Int
      BY <1>4
    <3> QED
      BY <1>1, <1>4, <3>2, <3>3, <3>4
  <2>2. ~(m < q)
    <3>1. SUFFICES ASSUME m + 1 <= q
                   PROVE  FALSE
      BY <1>4
    <3>2. E * (q - (m + 1)) >= 0
      BY <1>4, <3>1, Z3
    <3>3. E * (q - (m + 1)) = E * q - m * E - E
      BY <1>4, Z3
    <3>4. E * q \in Int
      BY <1>4
    <3> QED
      BY <1>1, <1>4, <3>2, <3>3, <3>4
  <2> QED
    BY <1>4, <2>1, <2>2
<1>6. E * q = m * E
  BY <1>5, Z3
<1>7. d % E = r
  BY <1>1, <1>4, <1>6
<1> QED
  BY <1>3, <1>5, <1>7

\* None of these blocks; one more.
LEMMA EmptiesFacts ==
  ASSUME NEW start \in Nat
  PROVE  /\ Empties(start, 0) = << >>
         /\ \A m \in Nat :
              /\ Empties(start, m) \in Seq(Entry)
              /\ m * EmptyLen \in Nat
              /\ (m + 1) * EmptyLen = m * EmptyLen + EmptyLen
              /\ Empties(start, m + 1)
                   = Empties(start, m)
                       \o << <<"block", start + m * EmptyLen + (EmptyLen - 1)>> >>
<1>1. EmptyLen \in Nat /\ EmptyLen >= 3
  BY FieldFacts
<1>2. PICK E : E = EmptyLen
  OBVIOUS
<1>3. E \in Nat /\ E >= 3
  BY <1>1, <1>2
<1>4. Empties(start, 0) = << >>
  BY DEF Empties
<1>5. ASSUME NEW m \in Nat
      PROVE  m * E \in Nat /\ (m + 1) * E = m * E + E
  <2>1. (m + 1) * E = m * E + E
    BY <1>3, Z3
  <2> QED
    BY <1>3, <2>1
<1>6. ASSUME NEW k \in Nat, k >= 1
      PROVE  start + k * E - 1 \in Nat
  <2>1. k - 1 \in Nat /\ (k - 1) + 1 = k
    BY <1>6
  <2>2. (k - 1) * E \in Nat /\ k * E = (k - 1) * E + E
    BY <1>5, <2>1
  <2> QED
    BY <1>3, <2>2
<1>7. ASSUME NEW m \in Nat
      PROVE  /\ Empties(start, m) \in Seq(Entry) /\ Len(Empties(start, m)) = m
             /\ \A k \in 1 .. m : Empties(start, m)[k] = <<"block", start + k * E - 1>>
  <2>1. Empties(start, m) = [k \in 1 .. m |-> <<"block", start + k * E - 1>>]
    BY <1>2 DEF Empties
  <2>2. ASSUME NEW k \in 1 .. m
        PROVE  <<"block", start + k * E - 1>> \in Entry
    <3>1. start + k * E - 1 \in Nat
      BY <1>6
    <3> QED
      BY <3>1, EntryFacts
  <2> QED
    BY <2>1, <2>2
<1>8. ASSUME NEW m \in Nat
      PROVE  Empties(start, m + 1)
               = Empties(start, m) \o << <<"block", start + m * E + (E - 1)>> >>
  <2>1. PICK a, b, x : /\ a = Empties(start, m) /\ b = Empties(start, m + 1)
                       /\ x = <<"block", start + m * E + (E - 1)>>
    OBVIOUS
  <2>2. /\ m + 1 \in Nat /\ m + 1 \in 1 .. m + 1
        /\ \A k \in 1 .. m : k \in 1 .. m + 1
    OBVIOUS
  <2>3. /\ a \in Seq(Entry) /\ Len(a) = m
        /\ \A k \in 1 .. m : a[k] = <<"block", start + k * E - 1>>
    BY <1>7, <2>1
  <2>4. /\ b \in Seq(Entry) /\ Len(b) = m + 1
        /\ \A k \in 1 .. m + 1 : b[k] = <<"block", start + k * E - 1>>
    BY <1>7, <2>1, <2>2
  <2>5. start + (m + 1) * E - 1 = start + m * E + (E - 1)
    <3>1. m * E \in Nat /\ (m + 1) * E = m * E + E
      BY <1>5
    <3> QED
      BY <1>3, <3>1
  <2>6. b[m + 1] = x
    BY <2>1, <2>2, <2>4, <2>5
  <2>7. x \in Entry
    <3>1. x = b[m + 1] /\ m + 1 \in 1 .. Len(b)
      BY <2>2, <2>4, <2>6
    <3> QED
      BY <2>4, <3>1, ElementOfSeq
  <2>8. \A i \in 1 .. Len(a) : b[i] = a[i]
    BY <2>2, <2>3, <2>4
  <2>9. Len(b) = Len(a) + 1 /\ b[Len(a) + 1] = x
    BY <2>3, <2>4, <2>6
  <2>10. b = a \o <<x>>
    BY <2>3, <2>4, <2>7, <2>8, <2>9, OneMore
  <2> QED
    BY <2>1, <2>10
<1> QED
  BY <1>2, <1>4, <1>5, <1>7, <1>8

\* The loop over the blocks goes on until a byte or none is left; in an empty file
\* it does, too.
LEMMA MoreFacts ==
  ASSUME file \in Files, offset \in Nat, offset <= len
  PROVE  More <=> len = 0 \/ offset < len - 1
<1>1. len \in Nat /\ len < Word /\ Word \in Nat /\ Word >= 5
  BY FileFacts, WordWidths
<1>2. CASE len = 0
  <2>1. (len - 1) % Word = Word - 1
    <3>1. (0 - 1) % Word = Word - 1
      BY <1>1
    <3> QED
      BY <1>2, <3>1
  <2> QED
    BY <1>1, <1>2, <2>1 DEF More
<1>3. CASE len > 0
  <2>1. (len - 1) % Word = len - 1
    <3>1. len - 1 \in Nat /\ len - 1 < Word
      BY <1>1, <1>3
    <3> QED
      BY <3>1, Unwrapped
  <2> QED
    BY <1>1, <1>3, <2>1 DEF More
<1> QED
  BY <1>1, <1>2, <1>3

\* What is left of the file is not whole empty blocks.
LEMMA NotEmpties ==
  ASSUME NEW c \in Chains, NEW w \in Widths, file \in Files,
         Agrees(file, Whole[<<c, w>>], 0),
         NEW m \in Nat, NEW r \in Nat, r >= 2, r < EmptyLen,
         len = WholeLen(c, w) + m * EmptyLen + r
  PROVE  ~HoldsSome(c, w)
<1>1. PICK E, L, z, d : /\ E = EmptyLen /\ L = WholeLen(c, w) /\ z = len
                        /\ d = m * EmptyLen + r
  OBVIOUS
<1>2. E \in Nat /\ E > 0 /\ L \in Nat /\ z \in Nat
  BY <1>1, FieldFacts, ChainFacts, FileSeq
<1>3. m * E \in Nat /\ d = m * E + r /\ z = L + m * E + r
  BY <1>1, <1>2
<1>4. r < E
  BY <1>1
<1>5. d % E = r
  BY <1>2, <1>3, <1>4, Multiples
<1>6. z - L = d /\ d >= 2 /\ d \in Nat
  <2>1. PICK M : M = m * E
    OBVIOUS
  <2> QED
    BY <1>2, <1>3, <2>1
<1>7. ~(z - L <= 1) /\ ~((z - L) % E <= 1)
  <2>1. ~(d <= 1) /\ ~(r <= 1)
    BY <1>6
  <2> QED
    BY <1>5, <1>6, <2>1
<1> QED
  BY <1>1, <1>7, HoldsFacts

\* Out of zeros an empty block is read.
LEMMA FromPadding ==
  ASSUME NEW c \in Chains, NEW w \in Widths, FileInv,
         Agrees(file, Whole[<<c, w>>], 0), Next, Padding(c, w)
  PROVE  Tracked(c, w)'
<1>1. file' = file /\ file \in Files /\ offset \in Nat
  BY Moves, WordWidths DEF FileInv, TypeOK
<1>2. PICK m \in Nat : InZeros(c, w, m)
  BY DEF Padding
<1>3. Fits(c, w) /\ Blank(c, w) /\ offset <= len
  BY DEF Padding
<1>4. PICK E, L, z, M, N :
        /\ E = EmptyLen /\ L = WholeLen(c, w) /\ z = len
        /\ M = m * EmptyLen /\ N = (m + 1) * EmptyLen
  OBVIOUS
<1>5. /\ E \in Nat /\ E >= 3 /\ FrameLen \in Nat /\ HeadLen \in Nat
      /\ FrameLen + HeadLen = E - 1
  BY <1>4, FieldFacts
<1>6. L \in Nat /\ z \in Nat /\ L <= z /\ AllSeen(c, w) \in Seq(Entry)
  BY <1>1, <1>3, <1>4, ChainFacts, FileSeq DEF Fits
<1>7. /\ M \in Nat /\ N = M + E
      /\ Empties(L, m) \in Seq(Entry) /\ Empties(L, m + 1) \in Seq(Entry)
      /\ Empties(L, m + 1) = Empties(L, m) \o << <<"block", L + M + (E - 1)>> >>
  <2>1. m + 1 \in Nat
    OBVIOUS
  <2> QED
    BY <1>4, <1>6, <2>1, EmptiesFacts
<1>8. /\ L \in Nat /\ M \in Nat /\ E \in Nat /\ E >= 3 /\ z \in Nat
      /\ L + M \in Nat /\ L + M + (E - 1) \in Nat
      /\ N = M + E
  <2>1. L \in Nat /\ M \in Nat /\ E \in Nat /\ E >= 3 /\ z \in Nat /\ N = M + E
    BY <1>5, <1>6, <1>7
  <2> QED
    BY <2>1
<1>9. /\ Begins(AllSeen(c, w), AllSeen(c, w) \o Empties(L, m))
      /\ Begins(AllSeen(c, w), AllSeen(c, w) \o Empties(L, m + 1))
  BY <1>6, <1>7, BeginsConcat
<1>10. Fits(c, w)' /\ Blank(c, w)' /\ len' = len
  BY <1>1, <1>3, SameFile
<1>11. CASE Block
  <2>1. /\ pc = "block" /\ offset = L + M /\ seen = AllSeen(c, w) \o Empties(L, m)
        /\ More
    BY <1>2, <1>4, <1>11 DEF Block, InZeros
  <2>2. offset + FrameLen + HeadLen = L + M + (E - 1)
    <3>1. offset = L + M
      BY <2>1
    <3> QED
      BY <1>5, <1>8, <3>1
  <2>3. CASE L + M + (E - 1) <= z
    <3>1. /\ seen' = Append(seen, <<"block", L + M + (E - 1)>>)
          /\ offset' = L + M + (E - 1) /\ pc' = "txs"
      BY <1>4, <1>11, <2>2, <2>3 DEF Block, Within
    <3>2. seen' = AllSeen(c, w) \o Empties(L, m + 1)
      <4>1. PICK x : x = <<"block", L + M + (E - 1)>>
        OBVIOUS
      <4>2. x \in Entry /\ <<x>> \in Seq(Entry)
        BY <1>8, <4>1, EntryFacts, Single
      <4>3. seen \in Seq(Entry)
        BY <1>6, <1>7, <2>1, ConcatProperties
      <4>4. seen' = seen \o <<x>>
        BY <3>1, <4>1, <4>2, <4>3, AppendIsConcat
      <4> QED
        <5>1. PICK s, u : s = AllSeen(c, w) /\ u = Empties(L, m)
          OBVIOUS
        <5>2. s \in Seq(Entry) /\ u \in Seq(Entry)
          BY <1>6, <1>7, <5>1
        <5>3. (s \o u) \o <<x>> = s \o (u \o <<x>>)
          BY <4>2, <5>2, EntriesAssociative
        <5>4. seen' = (s \o u) \o <<x>> /\ Empties(L, m + 1) = u \o <<x>>
          BY <1>7, <2>1, <4>1, <4>4, <5>1
        <5> QED
          BY <5>1, <5>3, <5>4
    <3>3. InZeros(c, w, m)'
      BY <1>4, <3>1, <3>2 DEF InZeros
    <3>4. offset' <= len'
      BY <1>4, <1>10, <2>3, <3>1
    <3>5. Padding(c, w)'
      BY <1>10, <3>3, <3>4 DEF Padding
    <3> QED
      BY <3>5 DEF Tracked
  <2>4. CASE ~(L + M + (E - 1) <= z)
    <3>1. pc' = "astray" /\ seen' = seen
      BY <1>4, <1>11, <2>2, <2>4 DEF Block, Within, Stray
    <3>2. ~HoldsSome(c, w)
      <4>1. z = 0 \/ L + M < z - 1
        BY <1>1, <1>3, <1>4, <2>1, MoreFacts
      <4>2. CASE z = 0
        BY <1>1, <1>4, <4>2, HoldsFacts
      <4>3. CASE L + M < z - 1
        <5>1. PICK r : r = z - (L + M)
          OBVIOUS
        <5>2. r \in Nat /\ r >= 2 /\ r < E /\ z = L + M + r
          BY <1>5, <1>6, <1>7, <2>4, <4>3, <5>1
        <5> QED
          BY <1>1, <1>4, <5>2, NotEmpties
      <4> QED
        BY <4>1, <4>2, <4>3
    <3> QED
      BY <1>1, <1>9, <2>1, <3>1, <3>2, GoesAstray
  <2> QED
    BY <2>3, <2>4
<1>12. CASE Done
  <2>1. /\ pc' = "done" /\ seen' = seen /\ ~More
        /\ offset = L + M /\ seen = AllSeen(c, w) \o Empties(L, m)
    BY <1>2, <1>4, <1>12 DEF Done, InZeros
  <2>2. z > 0 /\ L + M \in {z - 1, z}
    <3>1. ~(z = 0 \/ L + M < z - 1) /\ L + M <= z
      BY <1>1, <1>3, <1>4, <2>1, MoreFacts
    <3> QED
      BY <1>8, <3>1
  <2>3. Finished(c, w)'
    <3>1. len' > 0 /\ L + M \in {len' - 1, len'}
      BY <1>4, <1>10, <2>2
    <3>2. /\ WholeLen(c, w) + m * EmptyLen \in {len' - 1, len'}
          /\ seen' = AllSeen(c, w) \o Empties(WholeLen(c, w), m)
      BY <1>4, <2>1, <3>1
    <3> QED
      BY <1>10, <2>1, <3>1, <3>2 DEF Finished
  <2> QED
    BY <2>3 DEF Tracked
<1>13. CASE BlockEnd
  <2>1. /\ pc' = "block" /\ seen' = seen /\ offset' = offset
        /\ offset = L + M /\ seen = AllSeen(c, w) \o Empties(L, m)
    BY <1>2, <1>4, <1>13 DEF BlockEnd, InZeros
  <2>2. InZeros(c, w, m)'
    BY <1>4, <2>1 DEF InZeros
  <2>3. Padding(c, w)'
    BY <1>3, <1>10, <2>1, <2>2 DEF Padding
  <2> QED
    BY <2>3 DEF Tracked
<1>14. CASE Txs
  <2>1. /\ pc = "txs" /\ offset = L + M + (E - 1)
        /\ seen = AllSeen(c, w) \o Empties(L, m + 1)
    BY <1>2, <1>4, <1>14 DEF Txs, InZeros
  <2>2. CASE offset < len
    <3>1. offset + 1 \in WholeLen(c, w) + 1 .. len
      <4>1. offset + 1 \in L + 1 .. z
        <5>1. offset < z
          BY <1>4, <2>2
        <5>2. offset = L + M + (E - 1)
          BY <2>1
        <5> QED
          BY <1>8, <5>1, <5>2
      <4> QED
        BY <1>4, <4>1
    <3>2. Byte(offset) = 0
      BY <1>3, <3>1 DEF Blank, Byte
    <3>3. Extra(Byte(offset)) = 0
      <4>1. Base \in Nat /\ Base >= 5
        BY WordWidths
      <4> QED
        BY <3>2, <4>1 DEF Extra
    <3>4. Readable(offset) /\ VarInt(offset) = 0 /\ Past(offset) = offset + 1
      <4>1. offset + 1 <= len
        BY <1>1, <1>4, <1>6, <2>2
      <4>2. Readable(offset)
        BY <3>3, <4>1 DEF Readable, Within
      <4>3. VarInt(offset) = 0
        BY <3>2, <3>3 DEF VarInt
      <4>4. Past(offset) = offset + 1
        BY <1>1, <3>3 DEF Past
      <4> QED
        BY <4>2, <4>3, <4>4
    <3>5. /\ pc' = "tx" /\ n_tx' = 0 /\ offset' = offset + 1 /\ seen' = seen
      BY <1>14, <3>4 DEF Txs
    <3>6. offset' = L + N /\ offset' <= len'
      <4>1. offset' = L + N
        BY <1>8, <2>1, <3>5
      <4>2. offset < z /\ len' = z
        BY <1>4, <1>10, <2>2
      <4>3. offset' <= z
        BY <1>1, <1>8, <3>5, <4>2
      <4> QED
        BY <4>1, <4>2, <4>3
    <3>7. InZeros(c, w, m + 1)'
      BY <1>4, <2>1, <3>5, <3>6 DEF InZeros
    <3>8. Padding(c, w)'
      BY <1>10, <3>6, <3>7 DEF Padding
    <3> QED
      BY <3>8 DEF Tracked
  <2>3. CASE ~(offset < len)
    <3>1. ~Readable(offset)
      BY <1>1, <1>4, <1>6, <2>3 DEF Readable, Within
    <3>2. pc' = "astray" /\ seen' = seen
      BY <1>14, <3>1 DEF Txs, Stray
    <3>3. z = L + M + (E - 1)
      BY <1>3, <1>4, <1>5, <1>6, <1>7, <2>1, <2>3
    <3>4. ~HoldsSome(c, w)
      <4>1. PICK r : r = E - 1
        OBVIOUS
      <4>2. r \in Nat /\ r >= 2 /\ r < E /\ z = L + M + r
        BY <1>5, <3>3, <4>1
      <4> QED
        BY <1>1, <1>4, <4>2, NotEmpties
    <3> QED
      BY <1>1, <1>9, <2>1, <3>2, <3>4, GoesAstray
  <2> QED
    BY <2>2, <2>3
<1>15. CASE Tx \/ In \/ Outs \/ Out \/ TxEnd
  BY <1>2, <1>15 DEF InZeros, Tx, In, Outs, Out, TxEnd
<1> QED
  BY <1>11, <1>12, <1>13, <1>14, <1>15 DEF Next

-----------------------------------------------------------------------------
(* The walk keeps to the chain.                                            *)

\* In front of a block of the chain, or after the last one.
LEMMA FromBlock ==
  ASSUME NEW c \in Chains, NEW w \in Widths, FileInv, seen \in Seq(Entry),
         Agrees(file, Whole[<<c, w>>], 0), Next,
         NEW k \in 0 .. Len(c), AtBlock(c, w, k)
  PROVE  Tracked(c, w)'
<1>1. /\ file' = file /\ file \in Files /\ (Block \/ Done)
      /\ offset \in Nat /\ offset <= len
  BY Moves, WordWidths DEF FileInv, TypeOK, AtBlock
<1>2. PICK p, L, z : p = BlockPlace(c, w, k) /\ L = WholeLen(c, w) /\ z = len
  OBVIOUS
<1>3. offset = p /\ seen = ChainEntries(c, w, k) /\ p \in Nat /\ p <= z
  BY <1>1, <1>2 DEF AtBlock
<1>4. L \in Nat /\ z \in Nat /\ Len(c) \in Nat
  BY <1>1, <1>2, ChainFacts, FileSeq
<1>5. More <=> z = 0 \/ p < z - 1
  BY <1>1, <1>2, <1>3, MoreFacts
<1>6. len' = len
  BY <1>1, SameFile
<1>7. CASE Done
  <2>1. pc' = "done" /\ seen' = seen /\ ~More
    BY <1>7 DEF Done
  <2>2. z > 0 /\ p \in {z - 1, z}
    BY <1>3, <1>4, <1>5, <2>1
  <2>3. Finished(c, w)'
    BY <1>2, <1>3, <1>6, <2>1, <2>2 DEF Finished
  <2> QED
    BY <2>3 DEF Tracked
<1>8. CASE Block /\ k < Len(c)
  <2>1. PICK e, n : e = Encode(Len(c[k + 1]), w) /\ n = Len(e)
    OBVIOUS
  <2>2. k \in 0 .. (Len(c) - 1)
    BY <1>4, <1>8
  <2>3. /\ Len(c[k + 1]) \in Nat /\ 0 \in 0 .. Len(c[k + 1])
    BY <2>2, PlaceFacts, WordWidths
  <2>4. /\ n \in Nat /\ p + (FrameLen + HeadLen) + n <= L
    <3>1. n \in Nat
      BY <2>1, <2>3, ChainFacts, EncodeFacts
    <3>2. TxPlace(c, w, k, 0) <= L
      BY <1>2, <2>2, <2>3, PlaceFacts
    <3>3. TxPlace(c, w, k, 0) = p + (FrameLen + HeadLen) + n
      BY <1>2, <2>1, <2>2, PlaceFacts
    <3> QED
      BY <3>1, <3>2, <3>3
  <2>5. PICK h : h = FrameLen + HeadLen
    OBVIOUS
  <2>6. h \in Nat /\ offset + FrameLen + HeadLen = p + h
    BY <1>3, <2>5, FieldFacts
  <2>7. CASE p + h <= z
    <3>1. /\ seen' = Append(seen, <<"block", p + h>>) /\ offset' = p + h /\ pc' = "txs"
      BY <1>2, <1>8, <2>6, <2>7 DEF Block, Within
    <3>2. seen' = SeenTxs(c, w, k, 0)
      <4>1. BlockPlace(c, w, k) + FrameLen + HeadLen = p + h
        BY <1>2, <1>3, <2>6
      <4> QED
        BY <1>3, <2>2, <3>1, <4>1, SeenTxsFacts
    <3>3. offset' = BlockPlace(c, w, k) + (FrameLen + HeadLen) /\ offset' <= len'
      BY <1>2, <1>6, <2>5, <2>7, <3>1
    <3>4. AtTxs(c, w, k)'
      BY <3>1, <3>2, <3>3 DEF AtTxs
    <3> QED
      BY <2>2, <3>4 DEF Tracked, Walking
  <2>8. CASE ~(p + h <= z)
    <3>1. pc' = "astray" /\ seen' = seen
      BY <1>2, <1>8, <2>6, <2>8 DEF Block, Within, Stray
    <3>2. ~Fits(c, w)
      <4>1. ~(L <= z)
        <5>1. p + h + n <= L
          BY <2>4, <2>5
        <5>2. n \in Nat
          BY <2>4
        <5> QED
          BY <1>3, <1>4, <2>6, <2>8, <5>1, <5>2
      <4> QED
        BY <1>2, <4>1 DEF Fits
    <3>3. Begins(seen, AllSeen(c, w))
      BY <1>3, ChainFacts, ChainEntriesFacts DEF AllSeen
    <3> QED
      BY <1>1, <3>1, <3>2, <3>3, Unread
  <2> QED
    BY <2>7, <2>8
<1>9. CASE Block /\ k = Len(c)
  <2>1. p = L /\ seen = AllSeen(c, w)
    BY <1>2, <1>3, <1>9 DEF WholeLen, AllSeen
  <2>2. Fits(c, w)
    BY <1>2, <1>3, <2>1 DEF Fits
  <2>3. CASE Blank(c, w)
    <3>1. /\ 0 \in Nat /\ L + 0 * EmptyLen = L
          /\ AllSeen(c, w) \o Empties(L, 0) = AllSeen(c, w)
      <4>1. Empties(L, 0) = << >>
        BY <1>4, EmptiesFacts
      <4>2. 0 * EmptyLen = 0
        BY FieldFacts
      <4>3. AllSeen(c, w) \o << >> = AllSeen(c, w)
        BY ChainFacts, ConcatEmptySeq
      <4>4. L + 0 * EmptyLen = L
        BY <1>4, <4>2
      <4>5. AllSeen(c, w) \o Empties(L, 0) = AllSeen(c, w)
        BY <4>1, <4>3
      <4> QED
        BY <4>4, <4>5
    <3>2. pc = "block"
      BY DEF AtBlock
    <3>3. InZeros(c, w, 0)
      BY <1>2, <1>3, <2>1, <3>1, <3>2 DEF InZeros
    <3>4. Padding(c, w)
      BY <1>1, <2>2, <2>3, <3>3 DEF Padding
    <3> QED
      BY <3>4, FromPadding
  <2>4. CASE ~Blank(c, w)
    <3>1. \E n \in L + 1 .. z : TRUE
      BY <1>2, <2>4 DEF Blank
    <3>2. L + 1 <= z
      BY <1>4, <3>1
    <3>3. L < z - 1
      BY <1>4, <1>5, <1>9, <2>1, <3>2 DEF Block
    <3>4. z >= L + 2
      BY <1>4, <3>3
    <3>5. Begins(AllSeen(c, w), seen')
      BY <2>1, SeenGrows
    <3>6. Beyond(c, w)'
      BY <1>1, <1>2, <2>2, <2>4, <3>4, <3>5, SameFile DEF Beyond
    <3> QED
      BY <3>6 DEF Tracked
  <2> QED
    BY <2>3, <2>4
<1> QED
  BY <1>1, <1>4, <1>7, <1>8, <1>9

\* What was seen of the chain stays.
LEMMA FromBeyond ==
  ASSUME NEW c \in Chains, NEW w \in Widths, FileInv, seen \in Seq(Entry), Next,
         Beyond(c, w)
  PROVE  Tracked(c, w)'
<1>1. file' = file
  BY Moves
<1>2. Fits(c, w)' /\ ~Blank(c, w)' /\ len' = len
  BY <1>1, SameFile DEF Beyond
<1>3. AllSeen(c, w) \in Seq(Entry) /\ seen' \in Seq(Entry) /\ Begins(seen, seen')
  BY ChainFacts, SeenGrows
<1>4. Begins(AllSeen(c, w), seen')
  BY <1>3, BeginsTransitive DEF Beyond
<1>5. len >= WholeLen(c, w) + 2
  BY DEF Beyond
<1>6. Beyond(c, w)'
  BY <1>2, <1>4, <1>5 DEF Beyond
<1> QED
  BY <1>6 DEF Tracked

\* From wherever the walk is.
LEMMA TrackedStep ==
  ASSUME NEW c \in Chains, NEW w \in Widths, FileInv, seen \in Seq(Entry),
         Agrees(file, Whole[<<c, w>>], 0), Next, Tracked(c, w)
  PROVE  Tracked(c, w)'
<1>1. CASE Walking(c, w)
  <2>1. ASSUME NEW k \in 0 .. Len(c), AtBlock(c, w, k)
        PROVE  Tracked(c, w)'
    BY <2>1, FromBlock
  <2>2. ASSUME NEW k \in 0 .. (Len(c) - 1), AtTxs(c, w, k)
        PROVE  Tracked(c, w)'
    BY <2>2, FromTxs
  <2>3. ASSUME NEW k \in 0 .. (Len(c) - 1), NEW i \in 0 .. Len(c[k + 1]),
               AtTx(c, w, k, i)
        PROVE  Tracked(c, w)'
    BY <2>3, FromTx
  <2>4. ASSUME NEW k \in 0 .. (Len(c) - 1), NEW i \in 0 .. (Len(c[k + 1]) - 1),
               NEW j \in 0 .. Len(c[k + 1][i + 1].ins), AtIn(c, w, k, i, j)
        PROVE  Tracked(c, w)'
    <3>1. In \/ Outs
      BY <2>4, Moves DEF AtIn
    <3> QED
      BY <2>4, <3>1, FromInNext, FromInLast
  <2>5. ASSUME NEW k \in 0 .. (Len(c) - 1), NEW i \in 0 .. (Len(c[k + 1]) - 1),
               NEW j \in 0 .. Len(c[k + 1][i + 1].outs), AtOut(c, w, k, i, j)
        PROVE  Tracked(c, w)'
    <3>1. Out \/ TxEnd
      BY <2>5, Moves DEF AtOut
    <3> QED
      BY <2>5, <3>1, FromOutNext, FromOutLast
  <2> QED
    BY <1>1, <2>1, <2>2, <2>3, <2>4, <2>5 DEF Walking
<1>2. CASE Padding(c, w)
  BY <1>2, FromPadding
<1>3. CASE Beyond(c, w)
  BY <1>3, FromBeyond
<1>4. CASE Finished(c, w) \/ Strayed(c, w)
  BY <1>4, Moves DEF Finished, Strayed
<1> QED
  BY <1>1, <1>2, <1>3, <1>4 DEF Tracked

\* At the beginning the walk is in front of the first block.
LEMMA TracksInit == Init => Tracks
<1> SUFFICES ASSUME Init
             PROVE  Tracks
  OBVIOUS
<1>1. FileInv
  BY WordWidths DEF Init, FileInv, TypeOK
<1>2. seen \in Seq(Entry) /\ seen = << >> /\ pc = "block" /\ offset = 0
  BY EmptySeq DEF Init
<1>3. ASSUME NEW c \in Chains, NEW w \in Widths
      PROVE  Tracked(c, w)
  <2>1. 0 \in 0 .. Len(c) /\ BlockPlace(c, w, 0) = 0 /\ ChainEntries(c, w, 0) = << >>
    <3>1. c \in Seq(Seq(Transactions)) /\ w \in Nat /\ Len(c) \in Nat
      BY ChainFacts
    <3>2. 0 \in 0 .. Len(c)
      BY <3>1
    <3> QED
      BY <3>1, <3>2, BlockPlaces, ChainEntriesFacts
  <2>2. offset <= len
    BY <1>1, <1>2, FileSeq DEF FileInv
  <2>3. AtBlock(c, w, 0)
    BY <1>2, <2>1, <2>2 DEF AtBlock
  <2> QED
    BY <2>1, <2>3 DEF Tracked, Walking
<1> QED
  BY <1>1, <1>2, <1>3 DEF Tracks

\* Whatever a file holds, the walk keeps to every chain it agrees with as far as
\* both go.
THEOREM TracksInvariant == Spec => []Tracks
<1>1. ASSUME Tracks, [Next]_fvars
      PROVE  Tracks'
  <2>1. CASE Next
    <3>1. FileInv' /\ seen' \in Seq(Entry) /\ file' = file
      BY <1>1, <2>1, FileInvStep, SeenGrows, Moves DEF Tracks
    <3>2. ASSUME NEW c \in Chains, NEW w \in Widths,
                 Agrees(file, Whole[<<c, w>>], 0)
          PROVE  Tracked(c, w)'
      BY <1>1, <2>1, <3>2, TrackedStep DEF Tracks
    <3>3. ASSUME NEW c \in Chains, NEW w \in Widths,
                 Agrees(file, Whole[<<c, w>>], 0)'
          PROVE  Tracked(c, w)'
      <4>1. Agrees(file, Whole[<<c, w>>], 0)
        BY <3>1, <3>3 DEF Agrees
      <4> QED
        BY <3>2, <4>1
    <3> QED
      BY <3>1, <3>3 DEF Tracks
  <2>2. CASE UNCHANGED fvars
    <3>1. /\ file' = file /\ pc' = pc /\ offset' = offset /\ tx_start' = tx_start
          /\ n_tx' = n_tx /\ n_txin' = n_txin /\ n_txout' = n_txout
          /\ first' = first /\ seen' = seen
      BY <2>2 DEF fvars, counts
    <3>2. FileInv' /\ seen' \in Seq(Entry)
      BY <1>1, <3>1 DEF Tracks, FileInv, TypeOK
    <3>3. ASSUME NEW c \in Chains, NEW w \in Widths,
                 Agrees(file, Whole[<<c, w>>], 0)'
          PROVE  Tracked(c, w)'
      <4>1. Agrees(file, Whole[<<c, w>>], 0)
        BY <3>1, <3>3 DEF Agrees
      <4>2. Tracked(c, w)
        BY <1>1, <4>1 DEF Tracks
      <4>3. /\ len' = len /\ Fits(c, w)' = Fits(c, w) /\ Blank(c, w)' = Blank(c, w)
            /\ HoldsSome(c, w)' = HoldsSome(c, w)
        BY <3>1, SameFile
      <4>4. Walking(c, w) => Walking(c, w)'
        BY <3>1, <4>3 DEF Walking, AtBlock, AtTxs, AtTx, AtIn, AtOut, InTx
      <4>5. Padding(c, w) => Padding(c, w)'
        BY <3>1, <4>3 DEF Padding, InZeros
      <4>6. Beyond(c, w) => Beyond(c, w)'
        BY <3>1, <4>3 DEF Beyond
      <4>7. Finished(c, w) => Finished(c, w)'
        BY <3>1, <4>3 DEF Finished
      <4>8. Strayed(c, w) => Strayed(c, w)'
        BY <3>1, <4>3 DEF Strayed
      <4> QED
        BY <4>2, <4>4, <4>5, <4>6, <4>7, <4>8 DEF Tracked
    <3> QED
      BY <3>2, <3>3 DEF Tracks
  <2> QED
    BY <1>1, <2>1, <2>2
<1> QED
  BY <1>1, TracksInit, PTL DEF Spec

-----------------------------------------------------------------------------
(* What that says of the walk.                                             *)

\* What was seen and what is to be seen of a chain the file agrees with: one is the
\* beginning of the other.
LEMMA TrackedSeen ==
  ASSUME NEW c \in Chains, NEW w \in Widths, Tracked(c, w)
  PROVE  Begins(seen, AllSeen(c, w)) \/ Begins(AllSeen(c, w), seen)
<1>1. /\ c \in Seq(Seq(Transactions)) /\ w \in Nat /\ AllSeen(c, w) \in Seq(Entry)
      /\ WholeLen(c, w) \in Nat
  BY ChainFacts
<1>2. ASSUME NEW k \in 0 .. Len(c)
      PROVE  Begins(ChainEntries(c, w, k), AllSeen(c, w))
  BY <1>1, ChainEntriesFacts DEF AllSeen
<1>3. ASSUME NEW m \in Nat
      PROVE  Begins(AllSeen(c, w), AllSeen(c, w) \o Empties(WholeLen(c, w), m))
  <2>1. Empties(WholeLen(c, w), m) \in Seq(Entry)
    BY <1>1, EmptiesFacts
  <2> QED
    BY <1>1, <2>1, BeginsConcat
<1>4. CASE Walking(c, w)
  <2>1. ASSUME NEW k \in 0 .. Len(c), AtBlock(c, w, k)
        PROVE  Begins(seen, AllSeen(c, w))
    BY <1>2, <2>1 DEF AtBlock
  <2>2. ASSUME NEW k \in 0 .. (Len(c) - 1), AtTxs(c, w, k)
        PROVE  Begins(seen, AllSeen(c, w))
    <3>1. 0 \in 0 .. Len(c[k + 1])
      BY PlaceFacts, WordWidths
    <3> QED
      BY <2>2, <3>1, SeenTxsFacts DEF AtTxs
  <2>3. ASSUME NEW k \in 0 .. (Len(c) - 1), NEW i \in 0 .. Len(c[k + 1]),
               AtTx(c, w, k, i)
        PROVE  Begins(seen, AllSeen(c, w))
    BY <2>3, SeenTxsFacts DEF AtTx
  <2>4. ASSUME NEW k \in 0 .. (Len(c) - 1), NEW i \in 0 .. (Len(c[k + 1]) - 1),
               NEW j \in 0 .. Len(c[k + 1][i + 1].ins), AtIn(c, w, k, i, j)
        PROVE  Begins(seen, AllSeen(c, w))
    BY <2>4, SeenInFacts DEF AtIn
  <2>5. ASSUME NEW k \in 0 .. (Len(c) - 1), NEW i \in 0 .. (Len(c[k + 1]) - 1),
               NEW j \in 0 .. Len(c[k + 1][i + 1].outs), AtOut(c, w, k, i, j)
        PROVE  Begins(seen, AllSeen(c, w))
    <3>1. PICK t, l : t = c[k + 1][i + 1] /\ l = Len(t.ins)
      OBVIOUS
    <3>2. l \in Nat
      BY <3>1, TxPlaceFacts, TransactionFacts
    <3>3. l \in 0 .. Len(t.ins)
      BY <3>1, <3>2
    <3>4. seen = SeenIn(c, w, k, i, l)
      BY <2>5, <3>1 DEF AtOut
    <3> QED
      BY <3>1, <3>3, <3>4, SeenInFacts
  <2> QED
    BY <1>4, <2>1, <2>2, <2>3, <2>4, <2>5 DEF Walking
<1>5. CASE Padding(c, w)
  <2>1. PICK m \in Nat : InZeros(c, w, m)
    BY <1>5 DEF Padding
  <2>2. \/ seen = AllSeen(c, w) \o Empties(WholeLen(c, w), m)
        \/ seen = AllSeen(c, w) \o Empties(WholeLen(c, w), m + 1)
    BY <2>1 DEF InZeros
  <2>3. m + 1 \in Nat
    OBVIOUS
  <2> QED
    BY <1>3, <2>2, <2>3
<1>6. CASE Finished(c, w)
  BY <1>2, <1>3, <1>6 DEF Finished
<1> QED
  BY <1>4, <1>5, <1>6 DEF Tracked, Beyond, Strayed

\* Bytes of any number of values, fields of any lengths, chains of any blocks, counts
\* and lengths in any encoding that holds them: a file that agrees with the chain as
\* far as both go yields the chain's blocks, spends and transactions.
THEOREM InPlaceProved == Spec => []InPlace
<1>1. ASSUME Tracks
      PROVE  InPlace
  <2> SUFFICES ASSUME NEW s \in Encodings,
                      IsPrefix(file, Whole[s]) \/ IsPrefix(Whole[s], file)
               PROVE  IsPrefix(seen, Wanted[s]) \/ IsPrefix(Wanted[s], seen)
    BY DEF InPlace
  <2>1. PICK c \in Chains, w \in Widths : s = <<c, w>>
    BY DEF Encodings
  <2>2. file \in Files
    BY <1>1 DEF Tracks, FileInv
  <2>3. Agrees(file, Whole[<<c, w>>], 0)
    BY <2>1, <2>2, ComparableAgrees
  <2>4. Tracked(c, w)
    BY <1>1, <2>3 DEF Tracks
  <2>5. Begins(seen, AllSeen(c, w)) \/ Begins(AllSeen(c, w), seen)
    BY <2>4, TrackedSeen
  <2>6. /\ seen \in Seq(Entry) /\ AllSeen(c, w) \in Seq(Entry)
        /\ Wanted[s] = AllSeen(c, w)
    BY <1>1, <2>1, ChainFacts DEF Tracks
  <2> QED
    BY <2>5, <2>6, PrefixIs
<1> QED
  BY <1>1, TracksInvariant, PTL

\* A file of one or more whole blocks, and at most a byte or zeros for whole blocks
\* after them, is never read beyond its end.  The empty file is excepted, by the
\* property itself: the comparison at bzing.c:746 wraps on it.
THEOREM WithinFileProved == Spec => []WithinFile
<1>1. ASSUME Tracks
      PROVE  WithinFile
  <2> SUFFICES ASSUME pc = "astray", file # << >>, NEW s \in Encodings, Holds(s)
               PROVE  FALSE
    BY DEF WithinFile
  <2>1. PICK c \in Chains, w \in Widths : s = <<c, w>>
    BY DEF Encodings
  <2>2. file \in Files
    BY <1>1 DEF Tracks, FileInv
  <2>3. IsPrefix(Whole[<<c, w>>], file)
    BY <2>1 DEF Holds
  <2>4. Agrees(file, Whole[<<c, w>>], 0)
    BY <2>2, <2>3, ComparableAgrees
  <2>5. Tracked(c, w)
    BY <1>1, <2>4 DEF Tracks
  <2>6. ~Walking(c, w)
    BY DEF Walking, AtBlock, AtTxs, AtTx, AtIn, AtOut
  <2>7. ~Padding(c, w)
    BY DEF Padding, InZeros
  <2>8. ~Finished(c, w)
    BY DEF Finished
  <2>11. len > 0
    <3>1. file \in Seq(Nat) /\ len = Len(file) /\ len \in Nat
      BY <2>2, FileSeq
    <3>2. len # 0
      BY <3>1, EmptySeq
    <3> QED
      BY <3>1, <3>2
  <2>12. HoldsSome(c, w)
    BY <2>1, <2>11 DEF HoldsSome
  <2>9. ~Strayed(c, w)
    BY <2>12 DEF Strayed
  <2>10. ~Beyond(c, w)
    <3>1. len - WholeLen(c, w) <= 1 \/ Blank(c, w)
      BY <2>2, <2>4, <2>12, HoldsFacts
    <3>2. PICK L, z : L = WholeLen(c, w) /\ z = len
      OBVIOUS
    <3>3. L \in Nat /\ z \in Nat
      BY <2>2, <3>2, ChainFacts, FileSeq
    <3>4. z - L <= 1 => ~(z >= L + 2)
      BY <3>3
    <3> QED
      BY <3>1, <3>2, <3>4 DEF Beyond
  <2> QED
    BY <2>5, <2>6, <2>7, <2>8, <2>9, <2>10 DEF Tracked
<1> QED
  BY <1>1, TracksInvariant, PTL

\* The length of what comes after a chain.
LEMMA RestLength ==
  ASSUME NEW c \in Chains, NEW w \in Widths, file \in Files, Fits(c, w)
  PROVE  Len(Rest(<<c, w>>)) = len - WholeLen(c, w)
<1>1. PICK L, z : L = WholeLen(c, w) /\ z = len
  OBVIOUS
<1>2. /\ file \in Seq(Nat) /\ z = Len(file) /\ z \in Nat /\ L \in Nat /\ L <= z
      /\ Len(Whole[<<c, w>>]) = L
  BY <1>1, FileSeq, ChainFacts DEF Fits
<1>3. Rest(<<c, w>>) = SubSeq(file, L + 1, z)
  BY <1>1, <1>2 DEF Rest
<1>4. \A i \in L + 1 .. z : file[i] \in Nat
  <2> SUFFICES ASSUME NEW i \in L + 1 .. z
               PROVE  file[i] \in Nat
    OBVIOUS
  <2>1. i \in 1 .. Len(file)
    BY <1>2
  <2> QED
    BY <1>2, <2>1, ElementOfSeq
<1>5. Len(Rest(<<c, w>>)) = IF L + 1 <= z THEN z - (L + 1) + 1 ELSE 0
  BY <1>2, <1>3, <1>4, SubSeqProperties
<1>6. Len(Rest(<<c, w>>)) = z - L
  <2>1. PICK n : n = Len(Rest(<<c, w>>))
    OBVIOUS
  <2>2. z \in Nat /\ L \in Nat /\ L <= z /\ n = IF L + 1 <= z THEN z - (L + 1) + 1 ELSE 0
    BY <1>2, <1>5, <2>1
  <2>3. n = z - L
    BY <2>2
  <2> QED
    BY <2>1, <2>3
<1> QED
  BY <1>1, <1>6

\* A file of a chain, cut short or followed by zeros, agrees with it, and after the
\* chain there are zeros only.
LEMMA ChainFileFacts ==
  ASSUME file \in Files, Files \subseteq ChainFiles
  PROVE  \E c \in Chains : \E w \in Widths :
           Agrees(file, Whole[<<c, w>>], 0) /\ Blank(c, w)
<1>1. file \in ChainFiles
  OBVIOUS
<1>2. PICK s \in Encodings :
        \/ \E n \in 0 .. Len(Whole[s]) : file = SubSeq(Whole[s], 1, n)
        \/ \E n \in 1 .. MaxTail : file = Whole[s] \o Zeros(n)
  BY <1>1 DEF ChainFiles
<1>3. PICK c \in Chains, w \in Widths : s = <<c, w>>
  BY DEF Encodings
<1>4. PICK whole, L : whole = Whole[s] /\ L = WholeLen(c, w)
  OBVIOUS
<1>5. /\ file \in Seq(Nat) /\ len = Len(file) /\ len \in Nat
      /\ whole \in Seq(Nat) /\ Len(whole) = L /\ L \in Nat
  BY <1>3, <1>4, FileSeq, ChainFacts
<1>6. CASE \E n \in 0 .. Len(whole) : file = SubSeq(whole, 1, n)
  <2>1. PICK n \in 0 .. L : file = SubSeq(whole, 1, n)
    BY <1>5, <1>6
  <2>2. \A i \in 1 .. n : whole[i] \in Nat
    <3> SUFFICES ASSUME NEW i \in 1 .. n
                 PROVE  whole[i] \in Nat
      OBVIOUS
    <3>1. i \in 1 .. Len(whole)
      BY <1>5
    <3> QED
      BY <1>5, <3>1, ElementOfSeq
  <2>3. /\ Len(file) = IF 1 <= n THEN n - 1 + 1 ELSE 0
        /\ \A i \in 1 .. n - 1 + 1 : file[i] = whole[1 + i - 1]
    <3>1. n \in Int /\ 1 \in Int
      BY <1>5
    <3> QED
      BY <1>5, <2>1, <2>2, <3>1, SubSeqProperties
  <2>4. Len(file) = n /\ n \in Nat /\ n <= L
    BY <1>5, <2>3
  <2>5. Agrees(file, whole, 0)
    <3> SUFFICES ASSUME NEW i \in 1 .. Len(whole), 0 + i <= Len(file)
                 PROVE  file[0 + i] = whole[i]
      BY DEF Agrees
    <3>1. i \in 1 .. n - 1 + 1 /\ 1 + i - 1 = i /\ 0 + i = i
      BY <1>5, <2>4
    <3> QED
      BY <2>3, <3>1
  <2>6. Blank(c, w)
    BY <1>4, <1>5, <2>4 DEF Blank
  <2> QED
    BY <1>3, <1>4, <2>5, <2>6
<1>7. CASE \E n \in 1 .. MaxTail : file = whole \o Zeros(n)
  <2>1. PICK n \in 1 .. MaxTail : file = whole \o Zeros(n)
    BY <1>7
  <2>2. n \in Nat
    BY ChainsAssumption
  <2>3. PICK z : z = Zeros(n)
    OBVIOUS
  <2>4. z \in Seq(Nat) /\ Len(z) = n /\ \A i \in 1 .. n : z[i] = 0
    BY <2>2, <2>3 DEF Zeros
  <2>5. /\ Len(file) = L + n
        /\ \A i \in 1 .. Len(whole) + Len(z) :
             file[i] = IF i <= Len(whole) THEN whole[i] ELSE z[i - Len(whole)]
    BY <1>5, <2>1, <2>3, <2>4, ConcatProperties
  <2>6. Agrees(file, whole, 0)
    <3> SUFFICES ASSUME NEW i \in 1 .. Len(whole), 0 + i <= Len(file)
                 PROVE  file[0 + i] = whole[i]
      BY DEF Agrees
    <3>1. i \in 1 .. Len(whole) + Len(z) /\ i <= Len(whole) /\ 0 + i = i
      BY <1>5, <2>2, <2>4
    <3> QED
      BY <2>5, <3>1
  <2>7. ASSUME NEW i \in L + 1 .. len
        PROVE  file[i] = 0
    <3>1. /\ i \in 1 .. Len(whole) + Len(z) /\ ~(i <= Len(whole))
          /\ i - Len(whole) \in 1 .. n
      BY <1>5, <2>2, <2>4, <2>5
    <3> QED
      BY <2>4, <2>5, <3>1
  <2>8. Blank(c, w)
    BY <1>4, <2>7 DEF Blank
  <2> QED
    BY <1>3, <1>4, <2>6, <2>8
<1> QED
  BY <1>2, <1>4, <1>6, <1>7

\* The first k blocks of a chain are a chain, of the same bytes and entries.
LEMMA FirstBlocks ==
  ASSUME NEW c \in Chains, NEW w \in Widths, NEW k \in 0 .. Len(c), file \in Files,
         Agrees(file, Whole[<<c, w>>], 0)
  PROVE  \E d \in Chains :
           /\ WholeLen(d, w) = BlockPlace(c, w, k)
           /\ AllSeen(d, w) = ChainEntries(c, w, k)
           /\ Agrees(file, Whole[<<d, w>>], 0)
<1>1. /\ c \in Seq(Seq(Transactions)) /\ w \in Nat /\ Len(c) \in Nat
      /\ Whole[<<c, w>>] = ThroughBlock(c, w, Len(c))
      /\ Whole[<<c, w>>] \in Seq(Nat)
  BY ChainFacts
<1>2. PICK d : d = SubSeq(c, 1, k)
  OBVIOUS
<1>3. d \in Chains
  BY <1>2, ChainsAssumption
<1>4. /\ d \in Seq(Seq(Transactions)) /\ Len(d) = k
      /\ \A i \in 1 .. k : d[i] = c[i]
  <2>1. k \in Nat /\ k <= Len(c) /\ k \in Int /\ 1 \in Int
    BY <1>1
  <2>2. \A i \in 1 .. k : c[i] \in Seq(Transactions)
    <3> SUFFICES ASSUME NEW i \in 1 .. k
                 PROVE  c[i] \in Seq(Transactions)
      OBVIOUS
    <3>1. i \in 1 .. Len(c)
      BY <1>1
    <3> QED
      BY <1>1, <3>1, ElementOfSeq
  <2>3. PICK S : S = Seq(Transactions)
    OBVIOUS
  <2>4. /\ c \in Seq(S) /\ \A i \in 1 .. k : c[i] \in S
    BY <1>1, <2>2, <2>3
  <2>5. /\ SubSeq(c, 1, k) \in Seq(S)
        /\ Len(SubSeq(c, 1, k)) = IF 1 <= k THEN k - 1 + 1 ELSE 0
        /\ \A i \in 1 .. k - 1 + 1 : SubSeq(c, 1, k)[i] = c[1 + i - 1]
    BY <2>1, <2>4, SubSeqProperties
  <2>6. Len(SubSeq(c, 1, k)) = k
    BY <2>1, <2>5
  <2>7. ASSUME NEW i \in 1 .. k
        PROVE  SubSeq(c, 1, k)[i] = c[i]
    <3>1. i \in 1 .. k - 1 + 1 /\ 1 + i - 1 = i
      BY <2>1
    <3> QED
      BY <2>5, <3>1
  <2> QED
    BY <1>2, <2>3, <2>5, <2>6, <2>7
<1>5. k \in 0 .. Len(d) /\ Len(d) \in 0 .. Len(d) /\ k \in Nat
  BY <1>1, <1>4
<1>6. \A n \in 0 .. k : ThroughBlock(d, w, n) = ThroughBlock(c, w, n)
  <2> SUFFICES ASSUME NEW n \in 0 .. k
               PROVE  ThroughBlock(d, w, n) = ThroughBlock(c, w, n)
    OBVIOUS
  <2>1. PICK p, q : p = BlockParts(c, w) /\ q = BlockParts(d, w)
    OBVIOUS
  <2>2. /\ p \in Seq(Seq(Nat)) /\ Len(p) = Len(c)
        /\ \A i \in 1 .. Len(c) : p[i] = ThroughTx(c[i], w, Len(c[i]))
    BY <1>1, <2>1, BlockPartsFacts
  <2>3. /\ q \in Seq(Seq(Nat)) /\ Len(q) = k
        /\ \A i \in 1 .. k : q[i] = ThroughTx(d[i], w, Len(d[i]))
    BY <1>1, <1>4, <2>1, BlockPartsFacts
  <2>4. n \in 0 .. Len(p) /\ n <= Len(q)
    BY <1>1, <1>5, <2>2, <2>3
  <2>5. \A i \in 1 .. n : p[i] = q[i]
    <3> SUFFICES ASSUME NEW i \in 1 .. n
                 PROVE  p[i] = q[i]
      OBVIOUS
    <3>1. i \in 1 .. k /\ i \in 1 .. Len(c)
      BY <1>1, <1>5
    <3> QED
      BY <1>4, <2>2, <2>3, <3>1
  <2>6. Upto(p, n) = Upto(q, n)
    BY <2>2, <2>3, <2>4, <2>5, UptoSame
  <2> QED
    BY <2>1, <2>6 DEF ThroughBlock
<1>7. WholeLen(d, w) = BlockPlace(c, w, k)
  <2>1. k \in 0 .. k
    BY <1>5
  <2> QED
    BY <1>4, <1>6, <2>1 DEF WholeLen, BlockPlace
<1>8. Whole[<<d, w>>] = ThroughBlock(c, w, k)
  <2>1. Whole[<<d, w>>] = ThroughBlock(d, w, Len(d))
    BY <1>3, ChainFacts
  <2>2. k \in 0 .. k
    BY <1>5
  <2> QED
    BY <1>4, <1>6, <2>1, <2>2
<1>9. Agrees(file, Whole[<<d, w>>], 0)
  <2>1. PICK s, t : s = Whole[<<d, w>>] /\ t = Whole[<<c, w>>]
    OBVIOUS
  <2>2. s \in Seq(Nat) /\ t \in Seq(Nat) /\ file \in Seq(Nat)
    BY <1>1, <1>3, <2>1, ChainFacts, FileSeq
  <2>3. Begins(s, t)
    BY <1>1, <1>8, <2>1, BlockPlaces
  <2>4. Agrees(file, t, 0) /\ 0 \in Nat
    BY <2>1
  <2>5. Agrees(file, s, 0)
    BY <2>2, <2>3, <2>4, AgreesBegins
  <2> QED
    BY <2>1, <2>5
<1>10. AllSeen(d, w) = ChainEntries(c, w, k)
  <2>1. PICK p, q :
          /\ p = [n \in DOMAIN c |->
                   BlockEntries(c[n], w, Len(ThroughBlock(c, w, n - 1)), Len(c[n]))]
          /\ q = [n \in DOMAIN d |->
                   BlockEntries(d[n], w, Len(ThroughBlock(d, w, n - 1)), Len(d[n]))]
    OBVIOUS
  <2>2. DOMAIN c = 1 .. Len(c) /\ DOMAIN d = 1 .. k
    BY <1>1, <1>4, LenProperties
  <2>3. ASSUME NEW i \in 1 .. Len(c)
        PROVE  BlockEntries(c[i], w, Len(ThroughBlock(c, w, i - 1)), Len(c[i]))
                 \in Seq(Entry)
    <3>1. c[i] \in Seq(Transactions) /\ Len(c[i]) \in Nat
      BY <1>1, ElementOfSeq, LenProperties
    <3>2. i - 1 \in 0 .. Len(c)
      BY <1>1
    <3>3. BlockPlace(c, w, i - 1) \in Nat
      BY <1>1, <3>2, BlockPlaces
    <3>4. Len(c[i]) \in 0 .. Len(c[i])
      BY <3>1
    <3>5. BlockEntries(c[i], w, BlockPlace(c, w, i - 1), Len(c[i])) \in Seq(Entry)
      BY <1>1, <3>1, <3>3, <3>4, BlockEntriesFacts
    <3> QED
      BY <3>5 DEF BlockPlace
  <2>4. p \in Seq(Seq(Entry)) /\ Len(p) = Len(c)
    BY <1>1, <2>1, <2>2, <2>3
  <2>5. ASSUME NEW i \in 1 .. k
        PROVE  /\ i \in 1 .. Len(c) /\ i \in DOMAIN c /\ i \in DOMAIN d
               /\ q[i] = p[i]
    <3>1. i \in 1 .. Len(c) /\ i - 1 \in 0 .. k
      BY <1>1, <1>5
    <3>2. ThroughBlock(d, w, i - 1) = ThroughBlock(c, w, i - 1)
      BY <1>6, <3>1
    <3>3. i \in DOMAIN c /\ i \in DOMAIN d
      BY <2>2, <3>1
    <3>4. p[i] = BlockEntries(c[i], w, Len(ThroughBlock(c, w, i - 1)), Len(c[i]))
      BY <2>1, <3>3
    <3>5. q[i] = BlockEntries(d[i], w, Len(ThroughBlock(d, w, i - 1)), Len(d[i]))
      BY <2>1, <3>3
    <3>6. d[i] = c[i]
      BY <1>4
    <3> QED
      BY <3>1, <3>2, <3>3, <3>4, <3>5, <3>6
  <2>6. q \in Seq(Seq(Entry)) /\ Len(q) = k
    <3>1. \A i \in 1 .. k : p[i] \in Seq(Entry)
      BY <2>4, <2>5, ElementOfSeq
    <3>2. \A i \in 1 .. k : q[i] \in Seq(Entry)
      BY <2>5, <3>1
    <3>3. q = [i \in 1 .. k |-> q[i]]
      BY <2>1, <2>2
    <3> QED
      BY <1>5, <3>2, <3>3
  <2>7. k \in 0 .. Len(q) /\ k <= Len(p) /\ \A i \in 1 .. k : q[i] = p[i]
    BY <1>1, <1>5, <2>4, <2>5, <2>6
  <2>8. Upto(q, k) = Upto(p, k)
    BY <2>4, <2>6, <2>7, UptoSame
  <2>9. ChainEntries(c, w, k) = Upto(p, k)
    BY <2>1 DEF ChainEntries
  <2>10. ChainEntries(d, w, k) = Upto(q, k)
    BY <2>1 DEF ChainEntries
  <2> QED
    BY <1>4, <2>8, <2>9, <2>10 DEF AllSeen
<1> QED
  BY <1>3, <1>7, <1>9, <1>10

\* Files that hold a chain each, whole, cut short anywhere or followed by zeros: the
\* walk ends only when all was handed to the index that the file holds.
THEOREM ExactProved ==
  ASSUME Files \subseteq ChainFiles
  PROVE  Spec => []Exact
<1>1. ASSUME Tracks
      PROVE  Exact
  <2> SUFFICES ASSUME pc = "done"
               PROVE  \E s \in Encodings : Holds(s) /\ seen = Wanted[s] \o Phantoms(s)
    BY DEF Exact
  <2>1. file \in Files
    BY <1>1 DEF Tracks, FileInv
  <2>2. PICK c \in Chains, w \in Widths :
          Agrees(file, Whole[<<c, w>>], 0) /\ Blank(c, w)
    BY <2>1, ChainFileFacts
  <2>3. Finished(c, w)
    <3>1. Tracked(c, w)
      BY <1>1, <2>2 DEF Tracks
    <3>2. ~Walking(c, w)
      BY DEF Walking, AtBlock, AtTxs, AtTx, AtIn, AtOut
    <3>3. ~Padding(c, w)
      BY DEF Padding, InZeros
    <3>4. ~Beyond(c, w) /\ ~Strayed(c, w)
      BY <2>2 DEF Beyond, Strayed
    <3> QED
      BY <3>1, <3>2, <3>3, <3>4 DEF Tracked
  <2>4. ASSUME NEW d \in Chains, Agrees(file, Whole[<<d, w>>], 0), len > 0,
               NEW m \in Nat, NEW r \in {0, 1},
               len = WholeLen(d, w) + m * EmptyLen + r, m = 0 \/ Blank(d, w),
               seen = AllSeen(d, w) \o Empties(WholeLen(d, w), m)
        PROVE  \E s \in Encodings : Holds(s) /\ seen = Wanted[s] \o Phantoms(s)
    <3>1. PICK E, L, z, M : /\ E = EmptyLen /\ L = WholeLen(d, w) /\ z = len
                            /\ M = m * EmptyLen
      OBVIOUS
    <3>2. E \in Nat /\ E > 0 /\ r < E /\ r \in Nat /\ M \in Nat
      <4>1. E \in Nat /\ E >= 3
        BY <3>1, FieldFacts
      <4>2. r \in Nat /\ r < 3
        OBVIOUS
      <4>3. M \in Nat
        BY <3>1, <4>1
      <4> QED
        BY <4>1, <4>2, <4>3
    <3>3. L \in Nat /\ z \in Nat /\ z = L + M + r
      BY <2>1, <2>4, <3>1, ChainFacts, FileSeq
    <3>4. z - L = M + r /\ M + r \in Nat /\ L <= z
      BY <3>2, <3>3
    <3>5. (z - L) % E = r /\ (z - L) \div E = m
      <4>1. z - L = m * E + r
        BY <3>1, <3>4
      <4> QED
        BY <3>2, <4>1, Multiples
    <3>6. Fits(d, w)
      BY <3>1, <3>4 DEF Fits
    <3>7. \/ z - L <= 1
          \/ Blank(d, w) /\ (z - L) % E <= 1
      <4>1. CASE m = 0
        <5>1. M = 0
          BY <3>1, <4>1, FieldFacts
        <5>2. z - L <= 1
          BY <3>4, <5>1
        <5> QED
          BY <5>2
      <4>2. CASE Blank(d, w)
        BY <3>5, <4>2
      <4> QED
        BY <2>4, <4>1, <4>2
    <3>8. Holds(<<d, w>>)
      BY <2>1, <2>4, <3>1, <3>6, <3>7, HoldsFacts DEF HoldsSome
    <3>9. Len(Rest(<<d, w>>)) = z - L
      BY <2>1, <3>1, <3>6, RestLength
    <3>10. /\ <<d, w>> \in Encodings /\ Len(Whole[<<d, w>>]) = L
           /\ Wanted[<<d, w>>] = AllSeen(d, w)
      BY <3>1, ChainFacts
    <3>11. Phantoms(<<d, w>>) = Empties(L, m)
      BY <3>1, <3>5, <3>9, <3>10 DEF Phantoms
    <3> QED
      BY <2>4, <3>1, <3>8, <3>10, <3>11
  <2>5. len \in Nat /\ len > 0
    BY <2>1, <2>3, FileSeq DEF Finished
  <2>6. ASSUME NEW n \in Nat, n \in {len - 1, len}
        PROVE  \E r \in {0, 1} : len = n + r
    <3>1. PICK z : z = len
      OBVIOUS
    <3>2. CASE n = z
      <4>1. z = n + 0
        BY <2>5, <3>1, <3>2
      <4> QED
        BY <3>1, <4>1
    <3>3. CASE n = z - 1
      <4>1. z = n + 1
        BY <2>5, <3>1, <3>3
      <4> QED
        BY <3>1, <4>1
    <3> QED
      BY <2>6, <3>1, <3>2, <3>3
  <2>7. ASSUME NEW k \in 0 .. Len(c), BlockPlace(c, w, k) \in {len - 1, len},
               seen = ChainEntries(c, w, k)
        PROVE  \E s \in Encodings : Holds(s) /\ seen = Wanted[s] \o Phantoms(s)
    <3>1. PICK d \in Chains : /\ WholeLen(d, w) = BlockPlace(c, w, k)
                              /\ AllSeen(d, w) = ChainEntries(c, w, k)
                              /\ Agrees(file, Whole[<<d, w>>], 0)
      BY <2>1, <2>2, FirstBlocks
    <3>2. WholeLen(d, w) \in Nat /\ AllSeen(d, w) \in Seq(Entry)
      BY ChainFacts
    <3>3. PICK r \in {0, 1} : len = WholeLen(d, w) + r
      BY <2>6, <2>7, <3>1, <3>2
    <3>4. 0 * EmptyLen = 0
      BY FieldFacts
    <3>5. len = WholeLen(d, w) + 0 * EmptyLen + r
      BY <3>2, <3>3, <3>4
    <3>6. seen = AllSeen(d, w) \o Empties(WholeLen(d, w), 0)
      <4>1. Empties(WholeLen(d, w), 0) = << >>
        BY <3>2, EmptiesFacts
      <4> QED
        BY <2>7, <3>1, <3>2, <4>1, ConcatEmptySeq
    <3>7. 0 \in Nat
      OBVIOUS
    <3> QED
      BY <2>4, <2>5, <3>1, <3>5, <3>6, <3>7
  <2>8. ASSUME NEW m \in Nat, WholeLen(c, w) + m * EmptyLen \in {len - 1, len},
               seen = AllSeen(c, w) \o Empties(WholeLen(c, w), m)
        PROVE  \E s \in Encodings : Holds(s) /\ seen = Wanted[s] \o Phantoms(s)
    <3>1. WholeLen(c, w) + m * EmptyLen \in Nat
      <4>1. m * EmptyLen \in Nat
        BY FieldFacts
      <4>2. WholeLen(c, w) \in Nat
        BY ChainFacts
      <4> QED
        BY <4>1, <4>2
    <3>2. PICK r \in {0, 1} : len = WholeLen(c, w) + m * EmptyLen + r
      BY <2>6, <2>8, <3>1
    <3> QED
      BY <2>2, <2>4, <2>5, <2>8, <3>2
  <2> QED
    BY <2>3, <2>7, <2>8 DEF Finished
<1> QED
  BY <1>1, TracksInvariant, PTL

==============================================================================
