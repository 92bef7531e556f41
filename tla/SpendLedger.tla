---------------------------- MODULE SpendLedger ----------------------------
(***************************************************************************)
(* What the block chain index promises to its user: it knows where every   *)
(* transaction recorded in it starts, and for every output of such a       *)
(* transaction the place of the transaction that last spent it.  How       *)
(* that is packed into index words and a growing array of slots is left    *)
(* to the module SpentIndex, which implements this one.                    *)
(***************************************************************************)
EXTENDS Integers

CONSTANTS
  Txs,       \* the transactions
  NOut,      \* NOut[t]: the number of outputs of t
  Offsets,   \* the places a transaction can start at
  NoOffset   \* "not recorded" and "not spent"

VARIABLES
  location,  \* location[t]: where t starts, if it is recorded
  spender    \* spender[t][i]: where the last spender of output i of t starts

lvars == <<location, spender>>

Outputs(t) == 0 .. (NOut[t] - 1)

Unspent(t) == [i \in Outputs(t) |-> NoOffset]

Nothing ==
  /\ location = [t \in Txs |-> NoOffset]
  /\ spender = [t \in Txs |-> Unspent(t)]

\* A transaction is recorded, or recorded anew with all outputs unspent.
Record(t, off) ==
  /\ location' = [location EXCEPT ![t] = off]
  /\ spender' = [spender EXCEPT ![t] = Unspent(t)]

\* An output of a recorded transaction is spent; the last spender is kept.
Spend(t, i, off) ==
  /\ location[t] # NoOffset
  /\ spender' = [spender EXCEPT ![t] = [@ EXCEPT ![i] = off]]
  /\ UNCHANGED location

\* The database is reset or its handle ends.
Forget == Nothing'

Next ==
  \/ \E t \in Txs, off \in Offsets : Record(t, off)
  \/ \E t \in Txs, off \in Offsets : \E i \in Outputs(t) : Spend(t, i, off)
  \/ Forget

Spec == Nothing /\ [][Next]_lvars
=============================================================================
