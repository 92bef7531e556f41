------------------------------- MODULE Merkle -------------------------------
(***************************************************************************)
(* calc_merkle_root and calc_merkle_size (src/src/util.c): the root of the *)
(* hash tree over the transactions of a block.  All levels of the tree lie *)
(* one after the other in a single array, whose size is computed up front: *)
(* the loops fill it without looking at its end.                           *)
(*                                                                         *)
(* A hash is what it was computed from: <<k>> is that of transaction k,    *)
(* <<l, r>> the double SHA-256 of the hashes l and r.                      *)
(***************************************************************************)
EXTENDS Integers, Sequences

CONSTANTS
  MaxTx,  \* bound: the largest number of transactions of a block
  Junk    \* memory that malloc returned and nobody wrote

ASSUME MerkleAssumption == MaxTx \in Nat

VARIABLES
  pc,      \* "level", "pair": at the head of a loop; "done"; "astray"
  n_tx,    \* the number of leaves
  tree,    \* the array
  j,       \* where the level that is read starts
  p,       \* the next free slot of the array
  s,       \* the width of the level
  i,       \* the position in the level
  result   \* the root

mvars == <<pc, n_tx, tree, j, p, s, i, result>>

\* (n + 1) / 2: the width of the next level.
Halved(n) == (n + 1) \div 2

\* The nodes of all levels over n leaves but the root.
LevelSum[n \in Nat] == IF n > 1 THEN n + LevelSum[Halved(n)] ELSE 0

\* Mutant: no slot for the root.
MerkleSizeShort(n) == IF LevelSum[n] >= 2 THEN LevelSum[n] ELSE 1

calc_merkle_size(n) == IF LevelSum[n] >= 2 THEN LevelSum[n] + 1 ELSE 1

n_nodes == calc_merkle_size(n_tx)

Leaf(k) == <<k>>

\* The leaves are copied into the array.
Init ==
  /\ n_tx \in 0 .. MaxTx
  /\ tree = [k \in 0 .. (n_nodes - 1) |-> IF k < n_tx THEN Leaf(k) ELSE Junk]
  /\ j = 0 /\ p = n_tx /\ s = n_tx /\ i = 0
  /\ pc = "level"
  /\ result = Junk

\* The head of the outer loop: another level is to be read.
NextLevel ==
  /\ pc = "level" /\ s > 1
  /\ i' = 0 /\ pc' = "pair"
  /\ UNCHANGED <<n_tx, tree, j, p, s, result>>

\* Mutant: the last of an odd level is not paired with itself.
PartnerNext == i + 1

\* MIN(i+1, s-1)
Partner == IF i + 1 <= s - 1 THEN i + 1 ELSE s - 1

\* The inner loop: the hash of a pair goes to the next free slot.
HashPair ==
  /\ pc = "pair" /\ i < s
  /\ IF {j + i, j + Partner, p} \subseteq DOMAIN tree
     THEN /\ tree' = [tree EXCEPT ![p] = <<tree[j + i], tree[j + Partner]>>]
          /\ pc' = pc
     ELSE /\ pc' = "astray"
          /\ UNCHANGED tree
  /\ p' = p + 1 /\ i' = i + 2
  /\ UNCHANGED <<n_tx, j, s, result>>

\* Mutant: a level of two hashes is not left once its pair is hashed.
LevelDoneSame ==
  /\ pc = "pair" /\ i >= s /\ s > 2
  /\ j' = j + s /\ s' = Halved(s) /\ pc' = "level"
  /\ UNCHANGED <<n_tx, tree, p, i, result>>

\* The end of the inner loop.
LevelDone ==
  /\ pc = "pair" /\ i >= s
  /\ j' = j + s /\ s' = Halved(s) /\ pc' = "level"
  /\ UNCHANGED <<n_tx, tree, p, i, result>>

\* The root is the last of the array, and zero for a block without transactions.
Finish ==
  /\ pc = "level" /\ s <= 1
  /\ result' = IF p = 0 THEN <<>> ELSE tree[n_nodes - 1]
  /\ pc' = "done"
  /\ UNCHANGED <<n_tx, tree, j, p, s, i>>

Next == NextLevel \/ HashPair \/ LevelDone \/ Finish

\* The loops of a function call run to their end.
Spec == Init /\ [][Next]_mvars /\ WF_mvars(Next)

-----------------------------------------------------------------------------
\* The rule of the protocol: a level of odd width gets its last hash once
\* more, then the hashes of its pairs are the next level.
Evened(level) ==
  IF Len(level) % 2 = 1 THEN Append(level, level[Len(level)]) ELSE level

Paired(level) ==
  LET even == Evened(level)
  IN [k \in 1 .. (Len(even) \div 2) |-> <<even[2 * k - 1], even[2 * k]>>]

\* The levels over n leaves, from the leaves up.
Levels(n) ==
  LET level[d \in Nat] ==
        IF d = 0 THEN [k \in 1 .. n |-> Leaf(k - 1)] ELSE Paired(level[d - 1])
  IN level

\* The root is the hash of the first level that has only one.
RootOf(n) ==
  LET top == CHOOSE d \in 0 .. n :
               /\ Len(Levels(n)[d]) = 1
               /\ \A e \in 0 .. (d - 1) : Len(Levels(n)[e]) # 1
  IN Levels(n)[top][1]

\* The slots before p are those that hold hashes, and nothing is read or
\* written beyond them or beyond the array.
ArrayInv ==
  /\ pc # "astray"
  /\ p <= n_nodes \/ n_tx = 0
  /\ \A k \in DOMAIN tree : tree[k] # Junk <=> k < p

\* The function returns the root of the protocol's rule: the size that was
\* computed up front and the levels that were written agree to the last slot.
RootCorrect ==
  pc = "done" =>
    result = IF n_tx = 0 THEN <<>> ELSE RootOf(n_tx)

\* The function returns.
Returns == <>(pc = "done")
=============================================================================
