------------------------------ MODULE Inventory ------------------------------
(***************************************************************************)
(* What bzing.c takes an inventory index for: an entry for every whole     *)
(* hash, the one that was stored last, until the index is reset or, if it  *)
(* is not kept in a file, closed; a lookup changes nothing and answers     *)
(* nothing for a hash that was never stored; a cursor stays where it was   *)
(* put.  A call that has an error inside the engine, which nobody is told, *)
(* may lose what it was about and nothing else.                            *)
(*   That is promised while the index is trusted, and once it is not it    *)
(* never is again.  EngineBackends says which engine is, and how long.     *)
(***************************************************************************)
CONSTANTS
  Hashes,   \* what entries are stored under
  Entries,  \* the entries
  None      \* no entry, no hash

VARIABLES
  trusted,  \* all of this is promised
  durable,  \* the entries outlive the handle
  erred,    \* the last call had an error inside the engine
  entry,    \* the entry of each hash, or None
  at,       \* the hash the cursor is at, or None
  call,     \* the last call: its name, the hash and the entry it was made with
  answer    \* the entry it returned, or None

ivars == <<trusted, durable, erred, entry, at, call, answer>>

Empty == [h \in Hashes |-> None]
Call(op, h, e) == [op |-> op, hash |-> h, entry |-> e]

Init ==
  /\ trusted \in BOOLEAN /\ durable \in BOOLEAN /\ erred = FALSE
  /\ entry = Empty /\ at = None
  /\ call = Call("start", None, None) /\ answer = None

Store(h, e) ==
  \/ entry' = [entry EXCEPT ![h] = e]
  \/ erred' /\ UNCHANGED entry

Answered(h) == answer' = entry[h] \/ (erred' /\ answer' = None)

Set(h, e) ==
  call' = Call("set", h, e) /\ Store(h, e) /\ answer' = None /\ UNCHANGED at

Get(h) == call' = Call("get", h, None) /\ Answered(h) /\ UNCHANGED <<entry, at>>

\* The cursor goes to h, or off the index if there is nothing.
CursorFind(h) ==
  /\ call' = Call("find", h, None) /\ answer' = None
  /\ \/ entry[h] # None /\ at' = h
     \/ (entry[h] = None \/ erred') /\ at' = None
  /\ UNCHANGED entry

CursorGet ==
  /\ call' = Call("cursor_get", at, None)
  /\ IF at = None THEN answer' = None ELSE Answered(at)
  /\ UNCHANGED <<entry, at>>

CursorSet(e) ==
  /\ call' = Call("cursor_set", at, e) /\ answer' = None
  /\ IF at = None THEN UNCHANGED entry ELSE Store(at, e)
  /\ UNCHANGED at

CursorFree ==
  call' = Call("cursor_free", None, None) /\ answer' = None /\ at' = None /\ UNCHANGED entry

\* The caller's own variables go, and nothing that was stored.
Return ==
  call' = Call("return", None, None) /\ answer' = None /\ UNCHANGED <<entry, at>>

Reset ==
  /\ call' = Call("reset", None, None) /\ answer' = None
  /\ \/ entry' = Empty /\ at' = None
     \/ erred' /\ UNCHANGED entry /\ at' \in {at, None}

\* Opening, closing, a dying process.
Reopen ==
  /\ call'.op \in {"alloc", "free", "die"}
  /\ answer' = None /\ at' = None
  /\ entry' = IF durable THEN entry ELSE Empty

Step ==
  \/ \E h \in Hashes : Get(h) \/ CursorFind(h)
  \/ \E e \in Entries : CursorSet(e) \/ \E h \in Hashes : Set(h, e)
  \/ CursorGet \/ CursorFree \/ Return \/ Reset \/ Reopen

Next ==
  /\ UNCHANGED durable
  /\ ~trusted' \/ (trusted /\ Step)

Spec == Init /\ [][Next]_ivars
=============================================================================
