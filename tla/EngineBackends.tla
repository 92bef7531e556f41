--------------------------- MODULE EngineBackends ---------------------------
(***************************************************************************)
(* The inventory index over each of its storage engines: the functions     *)
(* bzing_inv_* of src/src/bzing.c, one step per call of the API, and the   *)
(* calls that open, close and reset a handle.  The engines differ in what  *)
(* they store an entry under, in what a lookup of a missing hash does, in  *)
(* what outlives the handle and in how they fail.  Errors are dropped.     *)
(***************************************************************************)
EXTENDS Integers, Sequences, FiniteSets

CONSTANTS
  Hashes,       \* hashes of blocks and transactions
  Cut,          \* Cut[h]: the first hash that agrees with h in its first 64 bits
  Entries,      \* index entries
  None,         \* no entry, no hash
  Frame,        \* the variable of the caller that an entry is passed in
  Definitions,  \* what BZ_EID_DEFAULT is before the header chooses, "" if nothing
  Careless      \* "hold": a cursor is used after other calls have moved entries

ASSUME BackendAssumption ==
  /\ Cut \in [Hashes -> Hashes] /\ \A h \in Hashes : Cut[Cut[h]] = Cut[h]
  /\ None \notin Entries \cup Hashes \cup {Frame} /\ Frame \notin Hashes \cup Entries
  /\ Careless \subseteq {"hold"}

\* The engines a build may find or be asked for, and those it always has.
Optional == {"sparse", "lmc", "tc", "kc", "bdb", "ldb"}
BuiltIn == {"khash", "align"}

\* The #ifndef blocks of the header, in its order.
IfndefBlocks == <<"kc", "tc", "lmc", "bdb", "ldb", "khash", "align">>

\* BZ_EID_DEFAULT: what is defined in front of the blocks stays, built or not;
\* the header defines "ldb" there.
DefaultEngine(defined, built) ==
  IF defined # "" THEN defined
  ELSE LET n == CHOOSE n \in DOMAIN IfndefBlocks :
                  /\ IfndefBlocks[n] \in built
                  /\ \A m \in 1 .. (n - 1) : IfndefBlocks[m] \notin built
       IN IfndefBlocks[n]

\* An engine that is not in the build has no case in any switch.
Case(engine, built) == IF engine \in built THEN engine ELSE "none"

VARIABLES
  engine,  \* the case hnd->engine_id selects
  mode,    \* "closed": no handle; "open"; "broken": the engine did not open
  store,   \* what the engine holds under each hash: an entry, Frame or None
  inv,     \* the content of Frame, or None: the caller has returned
  cursor,  \* the hash a cursor was put to, the one it is at, and if its handle is
           \* still there; or NoCursor
  trusted, \* history: the engine has kept an entry per hash, and only what was set
  erred,   \* history: the last call had an error inside the engine
  call,    \* history: the last call: its name, hash and entry
  answer   \* history: the entry it returned, or None

bvars == <<engine, mode, store, inv, cursor, trusted, erred, call, answer>>

NoCursor == [for |-> None, at |-> None, hnd |-> FALSE]
Nothing == [h \in Hashes |-> None]
Call(op, h, e) == [op |-> op, hash |-> h, entry |-> e]

Tables == {"khash", "align"}
Files == {"lmc", "tc", "kc", "bdb", "ldb"}

\* Mutant: the table of the engines that have cursors is read one row off.
RowBefore == engine \in {"align", "sparse", "bdb"}

\* bz_cursor_support
UsesCursors == engine \in {"khash", "align", "kc"}

\* What the engine keeps an entry under: align takes the first 64 bits.
KeyOf(h) == IF engine = "align" THEN Cut[h] ELSE h

\* The engines that keep an entry of its own for every hash and give it back.  Not
\* align, which cuts hashes; sparsehash, which keeps an address; localmemcache,
\* whose lookups answer nothing; and no engine at all.
Dependable == {"khash", "tc", "kc", "bdb", "ldb"}

Init ==
  /\ \E defined \in Definitions, found \in SUBSET Optional :
       engine = Case(DefaultEngine(defined, BuiltIn \cup found), BuiltIn \cup found)
  /\ mode = "closed" /\ store = Nothing /\ inv = None /\ cursor = NoCursor
  /\ trusted = (engine \in Dependable)
  /\ erred = FALSE /\ call = Call("start", None, None) /\ answer = None

-----------------------------------------------------------------------------
(* The handle.                                                             *)

\* bzing_alloc.  Tokyo Cabinet, Kyoto Cabinet and BDB may fail to open and give a
\* handle all the same; localmemcache and LevelDB then give none.
Alloc ==
  /\ mode = "closed"
  /\ \/ mode' = "open" /\ erred' = FALSE
     \/ engine \in {"tc", "kc", "bdb"} /\ mode' = "broken" /\ erred' = TRUE
     \/ engine \in {"lmc", "ldb", "bdb"} /\ UNCHANGED mode /\ erred' = TRUE
  /\ call' = Call("alloc", None, None) /\ answer' = None
  /\ UNCHANGED <<engine, store, inv, cursor, trusted>>

\* Without a handle only files are left.
HandleLost ==
  /\ mode' = "closed" /\ answer' = None
  /\ store' = IF engine \in Files THEN store ELSE Nothing
  /\ UNCHANGED <<engine, trusted>>

\* bzing_free.  A cursor is not freed: it stays with a handle that is gone.
Free ==
  /\ mode # "closed"
  /\ HandleLost
  /\ cursor' = [cursor EXCEPT !.hnd = FALSE]
  /\ erred' = FALSE /\ call' = Call("free", None, None)
  /\ UNCHANGED inv

\* The process dies in a call, and its memory is gone.
Dies ==
  /\ HandleLost
  /\ inv' = None /\ cursor' = NoCursor
  /\ call' = Call("die", None, None)

\* Where entries are in a table is where a cursor is; a call that inserts or
\* clears may leave something else there, or nothing.
MayMove == engine \in Tables /\ cursor.hnd

CursorAfterMove ==
  IF MayMove
  THEN "hold" \in Careless /\ \E k \in Hashes : cursor' = [cursor EXCEPT !.at = k]
  ELSE UNCHANGED cursor

\* bzing_reset: clears five of the engines.  localmemcache drops the namespace
\* "main", which is not the one that was opened; LevelDB and sparsehash do nothing.
Reset ==
  /\ mode = "open" /\ ~MayMove
  /\ store' = IF engine \in {"khash", "align", "tc", "kc", "bdb"} THEN Nothing ELSE store
  /\ cursor' = [cursor EXCEPT !.at = None]
  /\ trusted' = (trusted /\ engine # "ldb")
  /\ erred' = FALSE /\ call' = Call("reset", None, None) /\ answer' = None
  /\ UNCHANGED <<engine, mode, inv>>

\* The results of tchdbvanish, kcdbclear and truncate are dropped.
ResetFails ==
  /\ mode = "broken" \/ (mode = "open" /\ engine \in {"tc", "kc", "bdb"})
  /\ cursor' \in {cursor, [cursor EXCEPT !.at = None]}
  /\ erred' = TRUE /\ call' = Call("reset", None, None) /\ answer' = None
  /\ UNCHANGED <<engine, mode, store, inv, trusted>>

-----------------------------------------------------------------------------
(* Storing and looking up.                                                 *)

\* Mutant: the entry of a hash that is there is not replaced.
PutOnce(h, e) ==
  IF engine = "none" \/ store[KeyOf(h)] # None THEN store
  ELSE [store EXCEPT ![KeyOf(h)] = IF engine = "sparse" THEN Frame ELSE e]

\* The entry is in a variable of the caller, of which sparsehash keeps the address
\* and the others the content.
Put(h, e) ==
  IF engine = "none" THEN store
  ELSE [store EXCEPT ![KeyOf(h)] = IF engine = "sparse" THEN Frame ELSE e]

\* bzing_inv_set, by bzing_block_add with its variable, or by bzing_spent_mark with
\* what its lookup returned: on sparsehash that is the address of the same variable.
InvSet(h, e) ==
  /\ mode = "open"
  /\ inv' = e
  /\ store' = Put(h, e)
  /\ IF store[KeyOf(h)] = None THEN CursorAfterMove ELSE UNCHANGED cursor
  /\ erred' = FALSE /\ call' = Call("set", h, e) /\ answer' = None
  /\ UNCHANGED <<engine, mode, trusted>>

\* A call on a file may fail, and on what did not open it does: nobody is told.
EngineErrs ==
  /\ mode = "broken" \/ (mode = "open" /\ engine \in Files)
  /\ erred' = TRUE

InvSetFails(h, e) ==
  /\ EngineErrs
  /\ inv' = e
  /\ call' = Call("set", h, e) /\ answer' = None
  /\ UNCHANGED <<engine, mode, store, cursor, trusted>>

\* For an error LevelDB frees the message that hnd->ldb_err points to, which
\* nothing has set: in a put or in a get.
ErrorDies == mode = "open" /\ engine = "ldb" /\ erred' = TRUE /\ Dies

\* bzing_block_add returns, and its variable is gone.
CallerReturns ==
  /\ inv # None
  /\ inv' = None
  /\ erred' = FALSE /\ call' = Call("return", None, None) /\ answer' = None
  /\ UNCHANGED <<engine, mode, store, cursor, trusted>>

\* kh_put and alignhash_set put a hash that is missing, with what the memory held.
Inserts(h) == engine \in Tables /\ store[KeyOf(h)] = None

Inserted(h) ==
  /\ IF Inserts(h) THEN \E e \in Entries : store' = [store EXCEPT ![KeyOf(h)] = e]
     ELSE UNCHANGED store
  /\ trusted' = (trusted /\ ~Inserts(h))

\* What is read where the engine holds x; through the address of a variable that
\* is gone, anything.
Read(x) == IF x # Frame THEN {x} ELSE IF inv # None THEN {inv} ELSE Entries

\* bzing_inv_get.  The result of localmemcache is thrown away.
InvGet(h) ==
  /\ mode = "open"
  /\ engine = "sparse" => store[h] # None
  /\ Inserted(h)
  /\ IF Inserts(h) THEN CursorAfterMove ELSE UNCHANGED cursor
  /\ erred' = FALSE /\ call' = Call("get", h, None)
  /\ answer' \in IF engine \in {"none", "lmc"} THEN {None} ELSE Read(store'[KeyOf(h)])
  /\ UNCHANGED <<engine, mode, inv>>

\* The lookups of the file engines return NULL for an error as for a missing hash.
InvGetFails(h) ==
  /\ EngineErrs
  /\ call' = Call("get", h, None) /\ answer' = None
  /\ UNCHANGED <<engine, mode, store, inv, cursor, trusted>>

\* HashFind returns NULL, and bzing_inv_get reads through it.
MissingDies(h) ==
  mode = "open" /\ engine = "sparse" /\ store[h] = None /\ erred' = FALSE /\ Dies

-----------------------------------------------------------------------------
(* Cursors, as bzing_spent_mark uses them: with the engines that have them *)
(* and within one call, so that the handle is still there.                 *)

\* bzing_inv_cursor_new and bzing_inv_cursor_find: the cursor of Kyoto Cabinet is
\* nowhere if the hash is missing.
CursorFind(h) ==
  /\ mode = "open" /\ UsesCursors
  /\ Inserted(h)
  /\ cursor' = [for |-> h, hnd |-> TRUE,
                at |-> IF store'[KeyOf(h)] = None THEN None ELSE KeyOf(h)]
  /\ erred' = FALSE /\ call' = Call("find", h, None) /\ answer' = None
  /\ UNCHANGED <<engine, mode, inv>>

\* The errors of kccurjumpkey, kccurgetvalue and kccursetvalue are dropped.
CursorFindFails(h) ==
  /\ engine = "kc" /\ EngineErrs
  /\ cursor' = [for |-> h, at |-> None, hnd |-> TRUE]
  /\ call' = Call("find", h, None) /\ answer' = None
  /\ UNCHANGED <<engine, mode, store, inv, trusted>>

CursorGet ==
  /\ cursor.hnd
  /\ answer' \in IF cursor.at = None THEN {None}
                 ELSE IF store[cursor.at] = None THEN Entries
                 ELSE {store[cursor.at]}
  /\ erred' = FALSE /\ call' = Call("cursor_get", cursor.at, None)
  /\ UNCHANGED <<engine, mode, store, inv, cursor, trusted>>

CursorGetFails ==
  /\ cursor.hnd /\ engine = "kc" /\ EngineErrs
  /\ call' = Call("cursor_get", cursor.at, None) /\ answer' = None
  /\ UNCHANGED <<engine, mode, store, inv, cursor, trusted>>

CursorSet(e) ==
  /\ cursor.hnd
  /\ store' = IF cursor.at = None THEN store ELSE [store EXCEPT ![cursor.at] = e]
  /\ erred' = FALSE /\ call' = Call("cursor_set", cursor.at, e) /\ answer' = None
  /\ UNCHANGED <<engine, mode, inv, cursor, trusted>>

CursorSetFails(e) ==
  /\ cursor.hnd /\ engine = "kc" /\ EngineErrs
  /\ call' = Call("cursor_set", cursor.at, e) /\ answer' = None
  /\ UNCHANGED <<engine, mode, store, inv, cursor, trusted>>

\* Freed, also when its handle is gone, or left behind by a return that does not
\* free it.
CursorFree ==
  /\ cursor # NoCursor
  /\ cursor' = NoCursor
  /\ erred' = FALSE /\ call' = Call("cursor_free", None, None) /\ answer' = None
  /\ UNCHANGED <<engine, mode, store, inv, trusted>>

Next ==
  \/ Alloc \/ Free \/ Reset \/ ResetFails
  \/ \E h \in Hashes, e \in Entries : InvSet(h, e) \/ InvSetFails(h, e)
  \/ ErrorDies \/ CallerReturns
  \/ \E h \in Hashes : InvGet(h) \/ InvGetFails(h) \/ MissingDies(h)
  \/ \E h \in Hashes : CursorFind(h) \/ CursorFindFails(h)
  \/ \E e \in Entries : CursorSet(e) \/ CursorSetFails(e)
  \/ CursorGet \/ CursorGetFails \/ CursorFree

Spec == Init /\ [][Next]_bvars

\* The type of the state.  Only sparsehash holds addresses, and nothing else; a
\* cursor whose handle is there is one of an engine that has cursors (bzing.c:46),
\* and is at the key it was put to or nowhere.
TypeOK ==
  /\ engine \in Optional \cup BuiltIn \cup {"none"}
  /\ mode \in {"closed", "open", "broken"}
  /\ store \in [Hashes -> IF engine = "sparse" THEN {None, Frame}
                         ELSE Entries \cup {None}]
  /\ inv \in Entries \cup {None}
  /\ cursor \in {NoCursor} \cup
       {c \in [for : Hashes, at : Hashes \cup {None}, hnd : BOOLEAN] :
          c.at \in {None, KeyOf(c.for)}}
  /\ cursor.hnd => mode # "closed" /\ engine \in {"khash", "align", "kc"}
  /\ trusted \in BOOLEAN /\ erred \in BOOLEAN
  /\ trusted => engine \in Dependable
  /\ mode = "broken" => engine \in {"tc", "kc", "bdb"}

-----------------------------------------------------------------------------
(* The index as the caller sees it: the entries themselves, and the cursor *)
(* where the caller put it.                                                *)

Content == [h \in Hashes |-> IF store[h] = Frame THEN inv ELSE store[h]]
At == IF cursor.hnd THEN cursor.at ELSE None

Index == INSTANCE Inventory WITH
  durable <- engine \in Files, entry <- Content, at <- At

\* On khash, the Cabinets, BDB and LevelDB every hash has the entry that was stored
\* last, by whatever way, until a reset or, on khash, a close; errors that nobody
\* sees lose no more than the call they are in.  The promise ends when khash is
\* asked for a hash it does not have, and when LevelDB is reset (bzing.c:294-579).
ImplementsInventory == Index!Spec

Untiring == INSTANCE Inventory WITH
  trusted <- TRUE, durable <- engine \in Files, entry <- Content, at <- At

\* bzing_db.h:56 "Add an item to the inventory index.", :50 "Reset a database.":
\* the promise without an end, of every engine a build may be left with, as
\* bzing_engines.h:54 has it ("Select default engine", with a precedence).
EveryEngine == Untiring!Spec
=============================================================================
