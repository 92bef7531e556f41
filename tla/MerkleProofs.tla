---------------------------- MODULE MerkleProofs ----------------------------
(***************************************************************************)
(* Proofs about the merkle root of Merkle, for any number of transactions: *)
(* the array is filled to its last slot and not beyond, and the root is    *)
(* that of the protocol's rule.                                            *)
(***************************************************************************)
EXTENDS Merkle, Induction

-----------------------------------------------------------------------------
(* The size of the array.                                                  *)

\* The first n + 1 values of a function that LevelSum's equation defines.
SumsTo(f, n) == f = [m \in 0 .. n |-> IF m > 1 THEN m + f[Halved(m)] ELSE 0]

\* A level of more than one node is followed by a smaller one.
LEMMA HalvedSmaller ==
  ASSUME NEW n \in Nat, n > 1
  PROVE  Halved(n) \in 1 .. (n - 1)
BY DEF Halved

\* There is a function with the recursion of LevelSum up to every number.
LEMMA SumsExist ==
  \A n \in Nat : \E f : SumsTo(f, n)
<1> DEFINE S == {n \in Nat : \E f : SumsTo(f, n)}
<1>1. ASSUME NEW n \in Nat, \A m \in 0 .. (n - 1) : m \in S
      PROVE  n \in S
  <2>1. CASE n = 0
    <3>1. SumsTo([m \in 0 .. 0 |-> 0], 0)
      BY DEF SumsTo
    <3> QED
      BY <2>1, <3>1
  <2>2. CASE n > 0
    <3>1. PICK f : SumsTo(f, n - 1)
      BY <1>1, <2>2
    <3> DEFINE g == [m \in 0 .. n |-> IF m > 1 THEN m + f[Halved(m)] ELSE 0]
    <3>2. \A m \in 0 .. (n - 1) : g[m] = f[m]
      BY <3>1 DEF SumsTo
    <3>3. \A m \in 0 .. n : m > 1 => g[Halved(m)] = f[Halved(m)]
      <4> SUFFICES ASSUME NEW m \in 0 .. n, m > 1
                   PROVE  g[Halved(m)] = f[Halved(m)]
        OBVIOUS
      <4>1. Halved(m) \in 0 .. (n - 1)
        BY HalvedSmaller
      <4> HIDE DEF g
      <4> QED
        BY <3>2, <4>1
    <3>4. SumsTo(g, n)
      BY <3>3 DEF SumsTo
    <3> QED
      BY <3>4
  <2> QED
    BY <2>1, <2>2
<1>2. \A n \in Nat : n \in S
  <2> HIDE DEF S
  <2> QED
    BY <1>1, SetInduction
<1> QED
  BY <1>2

\* Two functions with that recursion agree where both are defined.
LEMMA SumsAgree ==
  ASSUME NEW f, NEW g, NEW a \in Nat, NEW b \in Nat, SumsTo(f, a), SumsTo(g, b)
  PROVE  \A m \in Nat : m <= a /\ m <= b => f[m] = g[m]
<1> DEFINE S == {m \in Nat : m <= a /\ m <= b => f[m] = g[m]}
<1>1. ASSUME NEW n \in Nat, \A m \in 0 .. (n - 1) : m \in S, n <= a, n <= b
      PROVE  f[n] = g[n]
  <2>1. /\ f[n] = IF n > 1 THEN n + f[Halved(n)] ELSE 0
        /\ g[n] = IF n > 1 THEN n + g[Halved(n)] ELSE 0
    BY <1>1 DEF SumsTo
  <2>2. n > 1 => f[Halved(n)] = g[Halved(n)]
    BY <1>1, HalvedSmaller
  <2> QED
    BY <2>1, <2>2
<1>2. \A n \in Nat : n \in S
  <2>1. ASSUME NEW n \in Nat, \A m \in 0 .. (n - 1) : m \in S
        PROVE  n \in S
    BY <1>1, <2>1
  <2> HIDE DEF S
  <2> QED
    BY <2>1, SetInduction
<1> QED
  BY <1>2

\* The equation that defines LevelSum has a solution.
LEMMA LevelSumEquation ==
  \A n \in Nat : LevelSum[n] = IF n > 1 THEN n + LevelSum[Halved(n)] ELSE 0
<1> DEFINE G(n) == CHOOSE f : SumsTo(f, n)
           F == [n \in Nat |-> G(n)[n]]
<1>1. \A n \in Nat : SumsTo(G(n), n)
  BY SumsExist
<1>2. \A n \in Nat : F[n] = IF n > 1 THEN n + F[Halved(n)] ELSE 0
  <2> SUFFICES ASSUME NEW n \in Nat
               PROVE  F[n] = IF n > 1 THEN n + F[Halved(n)] ELSE 0
    OBVIOUS
  <2>1. F[n] = G(n)[n]
    OBVIOUS
  <2> HIDE DEF G
  <2>2. G(n)[n] = IF n > 1 THEN n + G(n)[Halved(n)] ELSE 0
    BY <1>1 DEF SumsTo
  <2>3. ASSUME n > 1
        PROVE  G(n)[Halved(n)] = G(Halved(n))[Halved(n)] /\ Halved(n) \in Nat
    BY <1>1, <2>3, HalvedSmaller, SumsAgree
  <2> QED
    BY <2>1, <2>2, <2>3
<1>3. F = [n \in Nat |-> IF n > 1 THEN n + F[Halved(n)] ELSE 0]
  <2> HIDE DEF G
  <2>1. F = [n \in Nat |-> F[n]]
    OBVIOUS
  <2> HIDE DEF F
  <2> QED
    BY <1>2, <2>1
<1>4. LevelSum = [n \in Nat |-> IF n > 1 THEN n + LevelSum[Halved(n)] ELSE 0]
  <2> HIDE DEF F
  <2> QED
    BY <1>3 DEF LevelSum
<1> QED
  BY <1>4

\* The size of the array for a level and those above it.
LEMMA SizeEquation ==
  ASSUME NEW n \in Nat
  PROVE  /\ calc_merkle_size(n) \in Nat /\ LevelSum[n] \in Nat
         /\ n <= 1 => calc_merkle_size(n) = 1
         /\ n > 1 => calc_merkle_size(n) = n + calc_merkle_size(Halved(n))
         /\ calc_merkle_size(n) >= n
<1> DEFINE S == {m \in Nat : /\ LevelSum[m] \in Nat
                             /\ m <= 1 => LevelSum[m] = 0
                             /\ m > 1 => LevelSum[m] >= 2}
<1>1. \A m \in Nat : m \in S
  <2>1. ASSUME NEW m \in Nat, \A k \in 0 .. (m - 1) : k \in S
        PROVE  m \in S
    <3>1. LevelSum[m] = IF m > 1 THEN m + LevelSum[Halved(m)] ELSE 0
      BY LevelSumEquation
    <3>2. m > 1 => LevelSum[Halved(m)] \in Nat
      BY <2>1, HalvedSmaller
    <3> QED
      BY <3>1, <3>2
  <2> HIDE DEF S
  <2> QED
    BY <2>1, SetInduction
<1>2. LevelSum[n] = IF n > 1 THEN n + LevelSum[Halved(n)] ELSE 0
  BY LevelSumEquation
<1>3. n > 1 => Halved(n) \in Nat /\ Halved(n) \in S
  BY <1>1, HalvedSmaller
<1>4. n \in S
  BY <1>1
<1>5. n > 1 => calc_merkle_size(Halved(n)) = LevelSum[Halved(n)] + 1
  BY <1>3 DEF calc_merkle_size
<1> QED
  BY <1>2, <1>3, <1>4, <1>5 DEF calc_merkle_size

-----------------------------------------------------------------------------
(* The levels of the protocol's rule.                                      *)

\* The first n + 1 levels over w leaves.
LevelsTo(f, w, n) ==
  f = [d \in 0 .. n |->
        IF d = 0 THEN [k \in 1 .. w |-> Leaf(k - 1)] ELSE Paired(f[d - 1])]

\* What a function with the recursion of Levels has at a height.
LEMMA LevelAt ==
  ASSUME NEW w, NEW f, NEW n \in Nat, LevelsTo(f, w, n), NEW d \in 0 .. n
  PROVE  f[d] = IF d = 0 THEN [k \in 1 .. w |-> Leaf(k - 1)] ELSE Paired(f[d - 1])
<1> DEFINE leaves == [k \in 1 .. w |-> Leaf(k - 1)]
           value(e) == IF e = 0 THEN leaves ELSE Paired(f[e - 1])
<1>1. f = [e \in 0 .. n |-> value(e)]
  BY Zenon DEF LevelsTo
<1>2. f[d] = value(d)
  <2> HIDE DEF value
  <2> QED
    BY <1>1
<1> QED
  BY <1>2

\* There is a function with the recursion of Levels up to every height.
LEMMA LevelsExist ==
  ASSUME NEW w
  PROVE  \A n \in Nat : \E f : LevelsTo(f, w, n)
<1> DEFINE S == {n \in Nat : \E f : LevelsTo(f, w, n)}
           leaves == [k \in 1 .. w |-> Leaf(k - 1)]
<1>1. ASSUME NEW n \in Nat, \A m \in 0 .. (n - 1) : m \in S
      PROVE  n \in S
  <2>1. CASE n = 0
    <3>1. LevelsTo([d \in 0 .. 0 |-> leaves], w, 0)
      BY DEF LevelsTo
    <3> QED
      BY <2>1, <3>1
  <2>2. CASE n > 0
    <3>1. PICK f : LevelsTo(f, w, n - 1)
      BY <1>1, <2>2
    <3> DEFINE g == [d \in 0 .. n |-> IF d = 0 THEN leaves ELSE Paired(f[d - 1])]
    <3>2. \A d \in 0 .. (n - 1) : g[d] = f[d]
      BY <3>1 DEF LevelsTo
    <3>3. \A d \in 0 .. n : d # 0 => g[d - 1] = f[d - 1]
      BY <3>2
    <3>4. LevelsTo(g, w, n)
      BY <3>3 DEF LevelsTo
    <3> QED
      BY <3>4
  <2> QED
    BY <2>1, <2>2
<1>2. \A n \in Nat : n \in S
  <2> HIDE DEF S
  <2> QED
    BY <1>1, SetInduction
<1> QED
  BY <1>2

\* Two functions with that recursion agree where both are defined.
LEMMA LevelsAgree ==
  ASSUME NEW w, NEW f, NEW g, NEW a \in Nat, NEW b \in Nat,
         LevelsTo(f, w, a), LevelsTo(g, w, b)
  PROVE  \A d \in Nat : d <= a /\ d <= b => f[d] = g[d]
<1> DEFINE S == {d \in Nat : d <= a /\ d <= b => f[d] = g[d]}
<1>1. ASSUME NEW n \in Nat, \A m \in 0 .. (n - 1) : m \in S, n <= a, n <= b
      PROVE  f[n] = g[n]
  <2>1. /\ f[n] = IF n = 0 THEN [k \in 1 .. w |-> Leaf(k - 1)] ELSE Paired(f[n - 1])
        /\ g[n] = IF n = 0 THEN [k \in 1 .. w |-> Leaf(k - 1)] ELSE Paired(g[n - 1])
    BY <1>1, LevelAt
  <2>2. n # 0 => f[n - 1] = g[n - 1]
    BY <1>1
  <2> QED
    BY <2>1, <2>2
<1>2. \A n \in Nat : n \in S
  <2>1. ASSUME NEW n \in Nat, \A m \in 0 .. (n - 1) : m \in S
        PROVE  n \in S
    BY <1>1, <2>1
  <2> HIDE DEF S
  <2> QED
    BY <2>1, SetInduction
<1> QED
  BY <1>2

\* The equation that defines Levels has a solution.
LEMMA LevelsEquation ==
  ASSUME NEW w
  PROVE  /\ Levels(w)[0] = [k \in 1 .. w |-> Leaf(k - 1)]
         /\ \A d \in Nat : Levels(w)[d + 1] = Paired(Levels(w)[d])
<1> DEFINE leaves == [k \in 1 .. w |-> Leaf(k - 1)]
           G(n) == CHOOSE f : LevelsTo(f, w, n)
           F == [n \in Nat |-> G(n)[n]]
<1>1. \A n \in Nat : LevelsTo(G(n), w, n)
  BY LevelsExist
<1>2. \A n \in Nat : F[n] = IF n = 0 THEN leaves ELSE Paired(F[n - 1])
  <2> SUFFICES ASSUME NEW n \in Nat
               PROVE  F[n] = IF n = 0 THEN leaves ELSE Paired(F[n - 1])
    OBVIOUS
  <2>1. F[n] = G(n)[n]
    OBVIOUS
  <2> HIDE DEF G
  <2>2. G(n)[n] = IF n = 0 THEN leaves ELSE Paired(G(n)[n - 1])
    BY <1>1, LevelAt
  <2>3. ASSUME n # 0
        PROVE  G(n)[n - 1] = G(n - 1)[n - 1] /\ n - 1 \in Nat
    <3>1. n - 1 \in Nat
      BY <2>3
    <3> QED
      BY <1>1, <3>1, LevelsAgree
  <2> QED
    BY <2>1, <2>2, <2>3
<1>3. F = [n \in Nat |-> IF n = 0 THEN leaves ELSE Paired(F[n - 1])]
  <2> HIDE DEF G
  <2>1. F = [n \in Nat |-> F[n]]
    OBVIOUS
  <2> HIDE DEF F, leaves
  <2> QED
    BY <1>2, <2>1
<1>4. Levels(w) = [n \in Nat |-> IF n = 0 THEN leaves ELSE Paired(Levels(w)[n - 1])]
  <2> HIDE DEF F
  <2> QED
    BY <1>3 DEF Levels
<1>5. ASSUME NEW d \in Nat
      PROVE  Levels(w)[d + 1] = Paired(Levels(w)[d])
  <2>1. d + 1 \in Nat /\ d + 1 # 0 /\ (d + 1) - 1 = d
    OBVIOUS
  <2> HIDE DEF leaves
  <2> QED
    BY <1>4, <2>1, Zenon
<1>6. Levels(w)[0] = leaves
  BY <1>4
<1> QED
  BY <1>5, <1>6

\* The pairs of a level of n hashes, the last of which may be paired with itself.
PairsOf(level, n) ==
  [k \in 1 .. Halved(n) |->
    <<level[2 * k - 1], level[IF 2 * k <= n THEN 2 * k ELSE n]>>]

\* The level that follows one of n hashes, n > 1.
LEMMA PairedLevel ==
  ASSUME NEW n \in Nat, n > 1, NEW level, level = [k \in 1 .. n |-> level[k]]
  PROVE  Len(level) = n /\ Paired(level) = PairsOf(level, n)
<1> DEFINE V == {level[k] : k \in 1 .. n}
           even == Evened(level)
<1>1. level \in Seq(V) /\ Len(level) = n
  <2> DEFINE f == [k \in 1 .. n |-> level[k]]
  <2>1. f \in Seq(V) /\ Len(f) = n
    OBVIOUS
  <2>2. level = f
    OBVIOUS
  <2> HIDE DEF f, V
  <2> QED
    BY <2>1, <2>2
<1>2. Len(even) = 2 * Halved(n) /\ \A k \in 1 .. (2 * Halved(n)) :
        even[k] = level[IF k <= n THEN k ELSE n]
  <2>1. n \in 1 .. n /\ level[n] \in V
    OBVIOUS
  <2>2. CASE n % 2 = 1
    <3>1. 2 * Halved(n) = n + 1
      BY <2>2 DEF Halved
    <3>2. even = Append(level, level[n])
      BY <1>1, <2>2 DEF Evened
    <3> HIDE DEF V, even
    <3>3. /\ Len(even) = n + 1 /\ even[n + 1] = level[n]
          /\ \A k \in 1 .. n : even[k] = level[k]
      BY <1>1, <2>1, <3>2
    <3> QED
      BY <3>1, <3>3
  <2>3. CASE n % 2 # 1
    <3>1. 2 * Halved(n) = n
      BY <2>3 DEF Halved
    <3>2. even = level
      BY <1>1, <2>3 DEF Evened
    <3> HIDE DEF V, even
    <3>3. \A k \in 1 .. (2 * Halved(n)) : k <= n
      BY <3>1
    <3> QED
      BY <1>1, <3>1, <3>2, <3>3
  <2> QED
    BY <2>2, <2>3
<1>3. Paired(level) = PairsOf(level, n)
  <2>1. Len(even) \div 2 = Halved(n) /\ Halved(n) \in Nat
    <3>1. \A h \in Nat : (2 * h) \div 2 = h
      OBVIOUS
    <3>2. Halved(n) \in Nat
      BY DEF Halved
    <3> HIDE DEF even
    <3> QED
      BY <1>2, <3>1, <3>2
  <2>2. ASSUME NEW k \in 1 .. Halved(n)
        PROVE  /\ even[2 * k - 1] = level[2 * k - 1]
               /\ even[2 * k] = level[IF 2 * k <= n THEN 2 * k ELSE n]
    <3>1. /\ 2 * k - 1 \in 1 .. (2 * Halved(n)) /\ 2 * k - 1 <= n
          /\ 2 * k \in 1 .. (2 * Halved(n))
      BY DEF Halved
    <3> HIDE DEF even
    <3> QED
      BY <1>2, <3>1
  <2> HIDE DEF even
  <2>3. Paired(level) = [k \in 1 .. (Len(even) \div 2) |-> <<even[2 * k - 1], even[2 * k]>>]
    BY DEF Paired, even
  <2> QED
    BY <2>1, <2>2, <2>3 DEF PairsOf
<1> QED
  BY <1>1, <1>3

-----------------------------------------------------------------------------
(* The inductive invariant.                                                *)

\* What malloc returned is not a hash.
JunkIsNoHash == (\A a : <<a>> # Junk) /\ (\A a, b : <<a, b>> # Junk)

\* The array has room for the level that is read and for all above it; h pairs of
\* the level have been hashed.
SizeInv ==
  /\ {n_tx, j, p, s, i} \subseteq Nat
  /\ pc \in {"level", "pair", "done"}
  /\ n_nodes \in Nat /\ DOMAIN tree = 0 .. (n_nodes - 1)
  /\ n_tx = 0 => s = 0 /\ j = 0 /\ pc # "pair"
  /\ n_tx > 0 => s >= 1 /\ j + calc_merkle_size(s) = n_nodes
  /\ pc # "pair" => p = j + s
  /\ pc = "pair" => /\ s > 1 /\ i <= s + 1
                    /\ \E h \in Nat : i = 2 * h /\ p = j + s + h

\* The slots before p hold hashes, and no others do.
FilledInv == \A k \in DOMAIN tree : tree[k] # Junk <=> k < p

\* The level that is read is that of the protocol's rule at height d, the first
\* that may have only one hash, and what has been written is the start of the next.
AtHeight(d) ==
  /\ d + s <= n_tx
  /\ Levels(n_tx)[d] = [k \in 1 .. s |-> tree[j + k - 1]]
  /\ \A e \in 0 .. (d - 1) : Len(Levels(n_tx)[e]) # 1
  /\ pc = "pair" => \A h \in Nat : i = 2 * h =>
       \A m \in 1 .. h : tree[j + s + m - 1] = Levels(n_tx)[d + 1][m]

LevelInv == n_tx > 0 => \E d \in Nat : AtHeight(d)

ResultInv ==
  pc = "done" => s <= 1 /\ result = IF n_tx = 0 THEN <<>> ELSE tree[j]

MerkleInv == SizeInv /\ LevelInv /\ ResultInv

-----------------------------------------------------------------------------
(* The steps.                                                              *)

\* The leaves are the level at height 0, and the size leaves room for the rest.
LEMMA InitInv ==
  ASSUME Init
  PROVE  MerkleInv /\ (JunkIsNoHash => FilledInv)
<1>1. n_tx \in Nat
  BY MerkleAssumption DEF Init
<1>2. n_nodes \in Nat /\ n_nodes >= n_tx /\ n_nodes = calc_merkle_size(n_tx) /\ n_nodes >= 1
  BY <1>1, SizeEquation DEF n_nodes, calc_merkle_size
<1>3. SizeInv
  BY <1>1, <1>2 DEF Init, SizeInv
<1>4. LevelInv
  <2> SUFFICES ASSUME n_tx > 0
               PROVE  AtHeight(0)
    BY DEF LevelInv
  <2>1. \A k \in 1 .. n_tx : tree[j + k - 1] = Leaf(k - 1)
    BY <1>1, <1>2 DEF Init
  <2>2. Levels(n_tx)[0] = [k \in 1 .. n_tx |-> Leaf(k - 1)]
    BY LevelsEquation
  <2>3. s = n_tx /\ pc = "level"
    BY DEF Init
  <2> QED
    BY <1>1, <2>1, <2>2, <2>3 DEF AtHeight
<1>5. JunkIsNoHash => FilledInv
  BY <1>1, <1>2 DEF Init, FilledInv, JunkIsNoHash, Leaf
<1> QED
  BY <1>3, <1>4, <1>5 DEF MerkleInv, ResultInv, Init

\* Nothing is written when a loop is entered.
LEMMA NextLevelInv ==
  ASSUME MerkleInv, NextLevel
  PROVE  MerkleInv' /\ (FilledInv => FilledInv')
<1>1. /\ pc = "level" /\ s > 1 /\ i' = 0 /\ pc' = "pair"
      /\ n_tx' = n_tx /\ tree' = tree /\ j' = j /\ p' = p /\ s' = s
  BY DEF NextLevel
<1>2. n_nodes' = n_nodes
  BY <1>1 DEF n_nodes
<1>3. SizeInv'
  BY <1>1, <1>2 DEF MerkleInv, SizeInv
<1>4. ASSUME NEW d \in Nat, AtHeight(d)
      PROVE  AtHeight(d)'
  BY <1>1, <1>4 DEF AtHeight
<1> QED
  BY <1>1, <1>3, <1>4 DEF MerkleInv, LevelInv, ResultInv, FilledInv

\* A pair is hashed: the slot is inside the array, and becomes the next hash of the
\* level above.
LEMMA HashPairInv ==
  ASSUME MerkleInv, HashPair
  PROVE  MerkleInv' /\ (JunkIsNoHash /\ FilledInv => FilledInv')
<1>1. /\ pc = "pair" /\ i < s /\ p' = p + 1 /\ i' = i + 2
      /\ n_tx' = n_tx /\ j' = j /\ s' = s /\ n_nodes' = n_nodes
      /\ n_tx \in Nat /\ j \in Nat /\ p \in Nat /\ s \in Nat /\ i \in Nat /\ s > 1
      /\ n_nodes \in Nat /\ DOMAIN tree = 0 .. (n_nodes - 1)
      /\ n_tx > 0 /\ j + calc_merkle_size(s) = n_nodes
  <2>1. /\ pc = "pair" /\ i < s /\ p' = p + 1 /\ i' = i + 2
        /\ n_tx' = n_tx /\ j' = j /\ s' = s
    BY DEF HashPair
  <2>2. n_nodes' = n_nodes
    BY <2>1 DEF n_nodes
  <2>3. n_tx \in Nat /\ j \in Nat /\ p \in Nat /\ s \in Nat /\ i \in Nat
    BY DEF MerkleInv, SizeInv
  <2>4. s > 1 /\ n_tx # 0 /\ n_nodes \in Nat /\ DOMAIN tree = 0 .. (n_nodes - 1)
    BY <2>1 DEF MerkleInv, SizeInv
  <2> QED
    BY <2>1, <2>2, <2>3, <2>4 DEF MerkleInv, SizeInv
<1>2. PICK h \in Nat : i = 2 * h /\ p = j + s + h
  BY <1>1 DEF MerkleInv, SizeInv
<1>3. h < Halved(s) /\ Halved(s) \in Nat
  BY <1>1, <1>2 DEF Halved
<1>4. /\ p \in 0 .. (n_nodes - 1)
      /\ j + i \in 0 .. (p - 1) /\ j + Partner \in 0 .. (p - 1)
      /\ Partner = (IF 2 * (h + 1) <= s THEN 2 * (h + 1) ELSE s) - 1
  <2>1. calc_merkle_size(s) = s + calc_merkle_size(Halved(s))
        /\ calc_merkle_size(Halved(s)) >= Halved(s) /\ calc_merkle_size(Halved(s)) \in Nat
    BY <1>1, <1>3, SizeEquation
  <2> QED
    BY <1>1, <1>2, <1>3, <2>1 DEF Partner
<1>5. /\ tree' = [tree EXCEPT ![p] = <<tree[j + i], tree[j + Partner]>>]
      /\ pc' = "pair"
  <2>1. {j + i, j + Partner, p} \subseteq DOMAIN tree
    BY <1>1, <1>4
  <2> QED
    BY <1>1, <2>1 DEF HashPair
<1>6. /\ DOMAIN tree' = DOMAIN tree
      /\ tree'[p] = <<tree[j + i], tree[j + Partner]>>
      /\ \A k \in DOMAIN tree : k # p => tree'[k] = tree[k]
  BY <1>1, <1>4, <1>5
<1>7. SizeInv'
  <2>1. i' = 2 * (h + 1) /\ p' = j + s + (h + 1) /\ h + 1 \in Nat /\ i' <= s + 1
    BY <1>1, <1>2
  <2>2. {n_tx, j, p, s, i}' \subseteq Nat
    BY <1>1
  <2>3. calc_merkle_size(s)' = calc_merkle_size(s)
    BY <1>1
  <2>4. n_nodes' \in Nat /\ DOMAIN tree' = 0 .. (n_nodes' - 1)
    BY <1>1, <1>6
  <2>5. n_tx' > 0 /\ s' >= 1 /\ j' + calc_merkle_size(s)' = n_nodes'
    BY <1>1, <2>3
  <2>6. pc' = "pair" /\ s' > 1 /\ i' <= s' + 1 /\ \E g \in Nat : i' = 2 * g /\ p' = j' + s' + g
    BY <1>1, <1>5, <2>1
  <2> HIDE DEF n_nodes, calc_merkle_size
  <2> QED
    BY <2>2, <2>4, <2>5, <2>6 DEF SizeInv
<1>8. ASSUME NEW d \in Nat, AtHeight(d)
      PROVE  AtHeight(d)'
  <2> DEFINE level == Levels(n_tx)[d]
             f == [k \in 1 .. s |-> tree[j + k - 1]]
  <2>1. level = f
    BY <1>8 DEF AtHeight
  <2>2. \A k \in 1 .. s : j + k - 1 \in DOMAIN tree /\ j + k - 1 < p
    BY <1>1, <1>2, <1>4
  <2>3. Levels(n_tx)'[d] = [k \in 1 .. s |-> tree'[j + k - 1]]
    BY <1>1, <1>6, <2>1, <2>2
  <2>4. Levels(n_tx)[d + 1] = PairsOf(f, s)
    <3>1. Levels(n_tx)[d + 1] = Paired(level)
      BY LevelsEquation
    <3>2. f = [k \in 1 .. s |-> f[k]]
      OBVIOUS
    <3> HIDE DEF f
    <3> QED
      BY <1>1, <2>1, <3>1, <3>2, PairedLevel
  <2>5. tree'[p] = Levels(n_tx)[d + 1][h + 1]
    <3>1. h + 1 \in 1 .. Halved(s) /\ 2 * (h + 1) - 1 \in 1 .. s
          /\ 2 * (h + 1) - 1 = i + 1
      BY <1>1, <1>2, <1>3 DEF Halved
    <3>2. f[2 * (h + 1) - 1] = tree[j + i]
      BY <1>1, <1>2, <3>1
    <3> DEFINE q == IF 2 * (h + 1) <= s THEN 2 * (h + 1) ELSE s
    <3>3. q \in 1 .. s /\ Partner = q - 1 /\ j + q - 1 = j + Partner
      BY <1>1, <1>4
    <3>4. f[q] = tree[j + Partner]
      <4> HIDE DEF q
      <4> QED
        BY <3>3
    <3>5. Levels(n_tx)[d + 1][h + 1] = <<f[2 * (h + 1) - 1], f[q]>>
      <4> HIDE DEF f
      <4> QED
        BY <2>4, <3>1 DEF PairsOf
    <3> QED
      BY <1>6, <3>2, <3>4, <3>5
  <2>6. ASSUME NEW g \in Nat, i' = 2 * g, NEW m \in 1 .. g
        PROVE  tree'[j + s + m - 1] = Levels(n_tx)[d + 1][m]
    <3>1. g = h + 1
      BY <1>1, <1>2, <2>6
    <3>2. CASE m = h + 1
      BY <1>1, <1>2, <2>5, <3>2
    <3>3. CASE m \in 1 .. h
      <4>1. tree[j + s + m - 1] = Levels(n_tx)[d + 1][m]
        BY <1>1, <1>2, <1>8, <3>3 DEF AtHeight
      <4>2. j + s + m - 1 \in DOMAIN tree /\ j + s + m - 1 # p
        BY <1>1, <1>2, <1>4, <3>3
      <4> QED
        BY <1>6, <4>1, <4>2
    <3> QED
      BY <3>1, <3>2, <3>3
  <2> QED
    BY <1>1, <1>8, <2>3, <2>6 DEF AtHeight
<1>9. JunkIsNoHash /\ FilledInv => FilledInv'
  <2> SUFFICES ASSUME JunkIsNoHash, FilledInv, NEW k \in DOMAIN tree
               PROVE  tree'[k] # Junk <=> k < p + 1
    BY <1>1, <1>6 DEF FilledInv
  <2>1. tree'[p] # Junk
    BY <1>6 DEF JunkIsNoHash
  <2>2. k \in Nat /\ (tree[k] # Junk <=> k < p)
    BY <1>1 DEF FilledInv
  <2>3. CASE k = p
    BY <1>1, <2>1, <2>3
  <2>4. CASE k # p
    <3>1. tree'[k] = tree[k] /\ (k < p + 1 <=> k < p)
      BY <1>1, <1>6, <2>2, <2>4
    <3> QED
      BY <2>2, <3>1
  <2> QED
    BY <2>3, <2>4
<1> QED
  BY <1>1, <1>5, <1>7, <1>8, <1>9 DEF MerkleInv, LevelInv, ResultInv

\* A level that is hashed whole is left for the one that was written.
LEMMA LevelDoneInv ==
  ASSUME MerkleInv, LevelDone
  PROVE  MerkleInv' /\ (FilledInv => FilledInv')
<1>1. /\ pc = "pair" /\ i >= s /\ j' = j + s /\ s' = Halved(s) /\ pc' = "level"
      /\ n_tx' = n_tx /\ tree' = tree /\ p' = p /\ i' = i /\ n_nodes' = n_nodes
      /\ n_tx \in Nat /\ j \in Nat /\ p \in Nat /\ s \in Nat /\ i \in Nat /\ s > 1
      /\ n_nodes \in Nat /\ DOMAIN tree = 0 .. (n_nodes - 1)
      /\ n_tx > 0 /\ j + calc_merkle_size(s) = n_nodes
  BY DEF MerkleInv, SizeInv, LevelDone, n_nodes
<1>2. PICK h \in Nat : i = 2 * h /\ p = j + s + h
  BY <1>1 DEF MerkleInv, SizeInv
<1>3. h = Halved(s) /\ h \in 1 .. (s - 1)
  BY <1>1, <1>2, HalvedSmaller DEF MerkleInv, SizeInv, Halved
<1>4. SizeInv'
  <2>1. calc_merkle_size(s) = s + calc_merkle_size(h) /\ calc_merkle_size(h) \in Nat
    BY <1>1, <1>3, SizeEquation
  <2>2. {n_tx, j, p, s, i}' \subseteq Nat
    BY <1>1, <1>3
  <2>3. calc_merkle_size(s)' = calc_merkle_size(h)
    BY <1>1, <1>3
  <2>4. n_nodes' \in Nat /\ DOMAIN tree' = 0 .. (n_nodes' - 1)
    BY <1>1
  <2>5. n_tx' > 0 /\ s' >= 1 /\ j' + calc_merkle_size(s)' = n_nodes'
    BY <1>1, <1>3, <2>1, <2>3
  <2>6. pc' = "level" /\ p' = j' + s'
    BY <1>1, <1>2, <1>3
  <2> HIDE DEF n_nodes, calc_merkle_size
  <2> QED
    BY <2>2, <2>4, <2>5, <2>6 DEF SizeInv
<1>5. ASSUME NEW d \in Nat, AtHeight(d)
      PROVE  AtHeight(d + 1)'
  <2> DEFINE f == [k \in 1 .. s |-> tree[j + k - 1]]
  <2>1. Levels(n_tx)[d] = f
    BY <1>5 DEF AtHeight
  <2>p. Levels(n_tx)[d + 1] = Paired(Levels(n_tx)[d])
    BY LevelsEquation
  <2>2. f = [k \in 1 .. s |-> f[k]]
    OBVIOUS
  <2>3. /\ Len(Levels(n_tx)[d]) = s
        /\ Levels(n_tx)[d + 1] = PairsOf(f, s)
    <3> HIDE DEF f
    <3> QED
      BY <1>1, <1>3, <2>1, <2>p, <2>2, PairedLevel
  <2>4. \A m \in 1 .. h : tree[j + s + m - 1] = Levels(n_tx)[d + 1][m]
    BY <1>1, <1>2, <1>5 DEF AtHeight
  <2>5. Levels(n_tx)[d + 1] = [k \in 1 .. h |-> tree[(j + s) + k - 1]]
    <3> HIDE DEF f
    <3> QED
      BY <1>1, <1>3, <2>3, <2>4 DEF PairsOf
  <2>6. \A e \in 0 .. ((d + 1) - 1) : Len(Levels(n_tx)[e]) # 1
    <3>1. \A e \in 0 .. (d - 1) : Len(Levels(n_tx)[e]) # 1
      BY <1>5 DEF AtHeight
    <3>2. Len(Levels(n_tx)[d]) # 1
      BY <1>1, <2>3
    <3> HIDE DEF f
    <3> QED
      BY <3>1, <3>2
  <2> QED
    BY <1>1, <1>3, <1>5, <2>5, <2>6 DEF AtHeight
<1> QED
  BY <1>1, <1>4, <1>5 DEF MerkleInv, LevelInv, ResultInv, FilledInv

\* The last hash that was written is that of the level of one.
LEMMA FinishInv ==
  ASSUME MerkleInv, Finish
  PROVE  MerkleInv' /\ (FilledInv => FilledInv')
<1>1. /\ pc = "level" /\ s <= 1 /\ pc' = "done" /\ n_nodes' = n_nodes
      /\ result' = IF p = 0 THEN <<>> ELSE tree[n_nodes - 1]
      /\ n_tx' = n_tx /\ tree' = tree /\ j' = j /\ p' = p /\ s' = s /\ i' = i
      /\ n_tx \in Nat /\ j \in Nat /\ p \in Nat /\ s \in Nat /\ p = j + s
  BY DEF MerkleInv, SizeInv, Finish, n_nodes
<1>2. ASSUME n_tx > 0
      PROVE  s = 1 /\ p > 0 /\ n_nodes - 1 = j
  BY <1>1, <1>2, SizeEquation DEF MerkleInv, SizeInv
<1>3. n_tx = 0 => p = 0
  BY <1>1 DEF MerkleInv, SizeInv
<1>4. ResultInv'
  BY <1>1, <1>2, <1>3 DEF ResultInv
<1>5. SizeInv' /\ LevelInv'
  BY <1>1 DEF MerkleInv, SizeInv, LevelInv, AtHeight
<1> QED
  BY <1>1, <1>4, <1>5 DEF MerkleInv, FilledInv

\* Every step keeps the invariant.
LEMMA StepInv ==
  ASSUME MerkleInv, [Next]_mvars
  PROVE  MerkleInv' /\ (JunkIsNoHash /\ FilledInv => FilledInv')
<1>1. CASE UNCHANGED mvars
  BY <1>1 DEF mvars, MerkleInv, SizeInv, LevelInv, AtHeight, ResultInv, FilledInv, n_nodes
<1> QED
  BY <1>1, NextLevelInv, HashPairInv, LevelDoneInv, FinishInv DEF Next

-----------------------------------------------------------------------------
(* The theorems.                                                           *)

\* calc_merkle_root, for any number of transactions: the array whose size was
\* computed up front has room for all levels, and its filled part is what p says.
THEOREM ArrayProved == JunkIsNoHash => (Spec => []ArrayInv)
<1> SUFFICES ASSUME JunkIsNoHash
             PROVE  Spec => []ArrayInv
  OBVIOUS
<1>1. Init => MerkleInv /\ FilledInv
  BY InitInv
<1>2. MerkleInv /\ FilledInv /\ [Next]_mvars => MerkleInv' /\ FilledInv'
  BY StepInv
<1>3. MerkleInv /\ FilledInv => ArrayInv
  <2> SUFFICES ASSUME MerkleInv, FilledInv, n_tx # 0
               PROVE  p <= n_nodes
    BY DEF ArrayInv, MerkleInv, SizeInv, FilledInv
  <2>1. /\ {n_tx, j, p, s, i} \subseteq Nat /\ s >= 1 /\ j + calc_merkle_size(s) = n_nodes
        /\ calc_merkle_size(s) >= s /\ calc_merkle_size(s) \in Nat
    <3>1. {n_tx, j, p, s, i} \subseteq Nat /\ s >= 1 /\ j + calc_merkle_size(s) = n_nodes
      BY DEF MerkleInv, SizeInv
    <3> QED
      BY <3>1, SizeEquation
  <2>2. CASE pc # "pair"
    BY <2>1, <2>2 DEF MerkleInv, SizeInv
  <2>3. CASE pc = "pair"
    <3>1. PICK h \in Nat : i = 2 * h /\ p = j + s + h
      BY <2>3 DEF MerkleInv, SizeInv
    <3>2. h <= Halved(s) /\ Halved(s) \in Nat /\ s > 1
      BY <2>1, <2>3, <3>1 DEF MerkleInv, SizeInv, Halved
    <3>3. /\ calc_merkle_size(s) = s + calc_merkle_size(Halved(s))
          /\ calc_merkle_size(Halved(s)) >= Halved(s) /\ calc_merkle_size(Halved(s)) \in Nat
      BY <2>1, <3>2, SizeEquation
    <3> QED
      BY <2>1, <3>1, <3>2, <3>3
  <2> QED
    BY <2>2, <2>3
<1> QED
  BY <1>1, <1>2, <1>3, PTL DEF Spec

\* The result of calc_merkle_root, for any number of transactions, is the root that
\* the protocol's rule gives.
THEOREM RootProved == Spec => []RootCorrect
<1>1. Init => MerkleInv
  BY InitInv
<1>2. MerkleInv /\ [Next]_mvars => MerkleInv'
  BY StepInv
<1>3. MerkleInv => RootCorrect
  <2> SUFFICES ASSUME MerkleInv, pc = "done", n_tx # 0
               PROVE  result = RootOf(n_tx)
    BY DEF RootCorrect, MerkleInv, ResultInv
  <2>1. n_tx \in Nat /\ n_tx > 0 /\ s = 1 /\ result = tree[j] /\ j \in Nat
    BY DEF MerkleInv, ResultInv, SizeInv
  <2>2. PICK d \in Nat : AtHeight(d)
    BY <2>1 DEF MerkleInv, LevelInv
  <2>3. Len(Levels(n_tx)[d]) = 1 /\ Levels(n_tx)[d][1] = tree[j]
    <3>1. Levels(n_tx)[d] = [k \in 1 .. 1 |-> tree[j + k - 1]]
      BY <2>1, <2>2 DEF AtHeight
    <3>2. Levels(n_tx)[d] = <<tree[j]>>
      BY <2>1, <3>1
    <3> QED
      BY <3>2
  <2>4. d \in 0 .. n_tx /\ \A e \in 0 .. (d - 1) : Len(Levels(n_tx)[e]) # 1
    BY <2>1, <2>2 DEF AtHeight
  <2>5. ASSUME NEW c \in 0 .. n_tx, Len(Levels(n_tx)[c]) = 1,
               \A e \in 0 .. (c - 1) : Len(Levels(n_tx)[e]) # 1
        PROVE  c = d
    BY <2>1, <2>3, <2>4, <2>5
  <2> QED
    BY <2>1, <2>3, <2>4, <2>5 DEF RootOf
<1> QED
  BY <1>1, <1>2, <1>3, PTL DEF Spec
==============================================================================
