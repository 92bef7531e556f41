------------------------------- MODULE KeyMap -------------------------------
(***************************************************************************)
(* What libchash.h promises of a hash table: a map from keys to data, with *)
(* the answers of its calls.  SparseTable implements it.                   *)
(***************************************************************************)
CONSTANTS
  Keys,
  Own,  \* Own[k]: the data that may be stored with k
  None  \* no data

VARIABLES
  entry,  \* the data of each key, or None
  call,   \* the last call: its name and the key it was made with
  answer  \* the data of the item it returned, or None

kvars == <<entry, call, answer>>

Empty == [k \in Keys |-> None]
Call(op, k) == [op |-> op, key |-> k]

Init == entry = Empty /\ call = Call("allocate", None) /\ answer = None

HashInsert(k) ==
  /\ call' = Call("insert", k)
  /\ answer' \in Own[k]
  /\ entry' = [entry EXCEPT ![k] = answer']

\* What is there stays and is answered.
HashFindOrInsert(k) ==
  /\ call' = Call("find_or_insert", k)
  /\ answer' \in IF entry[k] = None THEN Own[k] ELSE {entry[k]}
  /\ entry' = [entry EXCEPT ![k] = answer']

HashFind(k) ==
  /\ call' = Call("find", k)
  /\ answer' = entry[k]
  /\ UNCHANGED entry

\* The answer of the last search again, if no other call came after it.
HashFindLast ==
  /\ call' = Call("find_last", None)
  /\ answer' = IF call.op \in {"find", "find_last"} THEN answer ELSE None
  /\ UNCHANGED entry

\* HashDelete, and HashDeleteLast of the key that was found last.
HashDelete(k) ==
  /\ call' = Call("delete", k)
  /\ answer' = None
  /\ entry' = [entry EXCEPT ![k] = None]

\* ClearHashTable, and FreeHashTable and AllocateHashTable after it.
ClearHashTable ==
  /\ call' \in {Call(op, None) : op \in {"clear", "free", "allocate"}}
  /\ answer' = None
  /\ entry' = Empty

Next ==
  \/ \E k \in Keys :
       HashInsert(k) \/ HashFindOrInsert(k) \/ HashFind(k) \/ HashDelete(k)
  \/ HashFindLast \/ ClearHashTable

Spec == Init /\ [][Next]_kvars
=============================================================================
