---------------------------- MODULE MCProbeTable ----------------------------
(* Four keys for ProbeTable, three of which collide in a table of four       *)
(* buckets, and two of those in one of eight as well.                        *)
EXTENDS ProbeTable, TLC

CONSTANTS k1, k2, k3, k4

MCHashOf == k1 :> 3 @@ k2 :> 11 @@ k3 :> 23 @@ k4 :> 33

\* (hash >> 3 ^ hash << 3) | 1 of these: steps of 1, 1, 3 and 5 among 8 buckets.
MCStepOf == k1 :> 25 @@ k2 :> 89 @@ k3 :> 187 @@ k4 :> 269

\* An entry has an offset of its own, so those of different keys differ.
MCEntries == {<<k>> : k \in Keys}
MCOwn == [k \in Keys |-> {<<k>>}]
=============================================================================
