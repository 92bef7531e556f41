---------------------------- MODULE MCIndexRegen ----------------------------
(* A small chain for IndexRegen: block b2 repeats the coinbase c and the     *)
(* transaction a of b1, as a chain may once their outputs can be spent anew, *)
(* so that the spend of an output of a in b1 is forgotten in b2.             *)
EXTENDS IndexRegen, TLC

CONSTANTS z, c, a, b, b1, b2

Coinbase == [tx |-> c, ins |-> << <<z, 0>> >>]
First == [tx |-> a, ins |-> << <<c, 0>> >>]
Second == [tx |-> b, ins |-> << <<a, 1>> >>]

MCChain == << [hash |-> b1, txs |-> <<Coinbase, First, Second>>],
              [hash |-> b2, txs |-> <<Coinbase, First>>] >>

MCNOut == z :> 0 @@ c :> 1 @@ a :> 2 @@ b :> 1
MCOffsets == {BlockPlace(k) : k \in {1, 2}} \cup {<<1, 1>>, <<1, 2>>, <<1, 3>>, <<2, 1>>, <<2, 2>>}
=============================================================================
