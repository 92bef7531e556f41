---------------------------- MODULE MCSparseTable ----------------------------
(* Keys for SparseTable: k1 and k2 begin their search in the same bucket, of  *)
(* whatever table, and k3 in the next one, which is their second, in tables   *)
(* of 4 and of 8 buckets.                                                     *)
EXTENDS SparseTable, TLC

CONSTANTS k1, k2, k3

MCHashOf == k1 :> 4 @@ k2 :> 20 @@ k3 :> 13

\* The data of different keys differ, and that of k1 can be replaced.
MCOwn == k1 :> {<<k1, 1>>, <<k1, 2>>} @@ k2 :> {<<k2, 1>>} @@ k3 :> {<<k3, 1>>}
MCData == UNION {MCOwn[k] : k \in Keys}

\* A deletion announced, and insertions, enough for a table of 16 buckets.
MCGoals == {-1, 3}
==============================================================================
