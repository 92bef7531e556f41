------------------------------ MODULE EntryMap ------------------------------
(***************************************************************************)
(* What the index over a hash table in memory is to bzing: one entry per   *)
(* hash.  Looking a hash up that is not there puts it there, with an entry *)
(* nobody chose (src/src/bzing.c, bzing_inv_get and bzing_inv_cursor_find).*)
(* ProbeTable implements it.                                               *)
(***************************************************************************)
CONSTANTS
  Keys,     \* the hashes
  Entries,  \* the entries
  Own,      \* Own[k]: those a caller stores with k
  Junk,     \* memory nobody wrote
  None      \* no entry

VARIABLE entry

Empty == [k \in Keys |-> None]

Init == entry = Empty

\* A caller writes an entry.
Set ==
  \E k \in Keys : entry' \in {[entry EXCEPT ![k] = e] : e \in Own[k]}

\* A hash without an entry is looked up.
LookUp ==
  entry' \in {[entry EXCEPT ![k] = e] :
                k \in {h \in Keys : entry[h] = None}, e \in Entries \cup {Junk}}

Clear == entry' = Empty

Next == Set \/ LookUp \/ Clear

Spec == Init /\ [][Next]_entry
=============================================================================
