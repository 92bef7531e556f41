---------------------------- MODULE MCSpentIndex ----------------------------
(* Small instances of SpentIndex for TLC. *)
EXTENDS SpentIndex, TLC

CONSTANTS t1, t2, b1, o1, o2

MCTxs == {t1, t2}
MCNOut == t1 :> 2 @@ t2 :> 1

\* A single transaction.
MCNOut1 == t1 :> 2

\* More outputs than one doubling of the spent map makes room for.
MCNOutBig == t1 :> 4
MCSymmetry == Permutations({o1, o2})
=============================================================================
