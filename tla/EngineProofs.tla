---------------------------- MODULE EngineProofs ----------------------------
(***************************************************************************)
(* Proofs about EngineBackends: the state has its types, and the engines   *)
(* that are trusted keep what Inventory promises, for any hashes, any      *)
(* entries and any agreement of the hashes in their first 64 bits.         *)
(***************************************************************************)
EXTENDS EngineBackends, TLAPS

\* What an engine stores an entry under is a hash.
LEMMA KeyIsHash ==
  ASSUME NEW h \in Hashes
  PROVE  KeyOf(h) \in Hashes
BY BackendAssumption DEF KeyOf

\* With the discipline of bzing_spent_mark nothing moves a cursor.
LEMMA CursorStays ==
  ASSUME Careless = {}, CursorAfterMove
  PROVE  UNCHANGED cursor
BY DEF CursorAfterMove

-----------------------------------------------------------------------------
(* The types.                                                              *)

\* What an engine may hold, and the cursors there may be.
Held == IF engine = "sparse" THEN {None, Frame} ELSE Entries \cup {None}
Cursors == {NoCursor} \cup
  {c \in [for : Hashes, at : Hashes \cup {None}, hnd : BOOLEAN] :
     c.at \in {None, KeyOf(c.for)}}

\* TypeOK in terms of them.
LEMMA TypeParts ==
  TypeOK <=> /\ engine \in Optional \cup BuiltIn \cup {"none"}
             /\ mode \in {"closed", "open", "broken"}
             /\ store \in [Hashes -> Held]
             /\ inv \in Entries \cup {None}
             /\ cursor \in Cursors
             /\ cursor.hnd => mode # "closed" /\ engine \in {"khash", "align", "kc"}
             /\ trusted \in BOOLEAN /\ erred \in BOOLEAN
             /\ trusted => engine \in Dependable
             /\ mode = "broken" => engine \in {"tc", "kc", "bdb"}
BY DEF TypeOK, Held, Cursors

\* A cursor may be put nowhere, and its handle may go.
LEMMA CursorLeft ==
  ASSUME cursor \in Cursors
  PROVE  /\ [cursor EXCEPT !.at = None] \in Cursors
         /\ [cursor EXCEPT !.at = None].hnd = cursor.hnd
         /\ [cursor EXCEPT !.hnd = FALSE] \in Cursors
         /\ [cursor EXCEPT !.hnd = FALSE].hnd = FALSE
         /\ cursor.hnd \in BOOLEAN
         /\ cursor.hnd => cursor.at \in Hashes \cup {None}
<1>1. CASE cursor = NoCursor
  <2> DEFINE R == [for : {None}, at : {None}, hnd : {FALSE}]
  <2>1. ASSUME NEW r \in R
        PROVE  r = NoCursor
    <3>1. r = [for |-> r.for, at |-> r.at, hnd |-> r.hnd]
      OBVIOUS
    <3>2. r.for = None /\ r.at = None /\ r.hnd = FALSE
      OBVIOUS
    <3> QED
      BY <3>1, <3>2, Zenon DEF NoCursor
  <2>2. cursor \in R /\ cursor.hnd = FALSE
    BY <1>1 DEF NoCursor
  <2>3. [cursor EXCEPT !.at = None] \in R /\ [cursor EXCEPT !.hnd = FALSE] \in R
    BY <2>2
  <2>4. [cursor EXCEPT !.at = None] = NoCursor /\ [cursor EXCEPT !.hnd = FALSE] = NoCursor
    BY <2>1, <2>3
  <2>5. NoCursor \in Cursors
    BY DEF Cursors
  <2> QED
    BY <1>1, <2>2, <2>4, <2>5
<1>2. CASE cursor # NoCursor
  <2>1. /\ cursor \in [for : Hashes, at : Hashes \cup {None}, hnd : BOOLEAN]
        /\ cursor.at \in {None, KeyOf(cursor.for)}
    BY <1>2 DEF Cursors
  <2> QED
    BY <2>1 DEF Cursors
<1> QED
  BY <1>1, <1>2

\* A cursor that is put to a hash.
LEMMA CursorPut ==
  ASSUME NEW h \in Hashes, NEW k \in {None, KeyOf(h)}
  PROVE  [for |-> h, at |-> k, hnd |-> TRUE] \in Cursors
BY KeyIsHash DEF Cursors

\* What the preprocessor leaves is an engine or none.
LEMMA InitTyped ==
  ASSUME Init
  PROVE  TypeOK
<1>1. engine \in Optional \cup BuiltIn \cup {"none"}
  BY DEF Init, Case
<1>2. store \in [Hashes -> Held]
  BY DEF Init, Nothing, Held
<1>3. cursor \in Cursors /\ ~cursor.hnd
  BY DEF Init, Cursors, NoCursor
<1>4. mode = "closed" /\ inv = None /\ trusted = (engine \in Dependable) /\ erred = FALSE
  BY DEF Init
<1>5. trusted \in BOOLEAN
  BY <1>4
<1> QED
  BY <1>1, <1>2, <1>3, <1>4, <1>5, TypeParts

\* Without a handle nothing is held but in files, and no cursor has one.
LEMMA LostTyped ==
  ASSUME TypeOK, HandleLost, inv' \in Entries \cup {None}, erred' \in BOOLEAN,
         cursor' \in Cursors, ~cursor'.hnd
  PROVE  TypeOK'
<1>1. Nothing \in [Hashes -> Held]
  BY DEF Nothing, Held
<1>2. store' \in [Hashes -> Held] /\ UNCHANGED <<engine, trusted>> /\ mode' = "closed"
  BY <1>1, TypeParts DEF HandleLost
<1>3. (store \in [Hashes -> Held])' /\ (cursor \in Cursors)'
  BY <1>2 DEF Held, Cursors, KeyOf
<1> QED
  BY <1>2, <1>3 DEF TypeOK, Held, Cursors

\* A process that dies leaves files.
LEMMA DiesTyped ==
  ASSUME TypeOK, Dies, erred' \in BOOLEAN
  PROVE  TypeOK'
<1>1. HandleLost /\ inv' = None /\ cursor' = NoCursor
  BY DEF Dies
<1>2. cursor' \in Cursors /\ ~cursor'.hnd
  BY <1>1 DEF Cursors, NoCursor
<1> QED
  BY <1>1, <1>2, LostTyped

\* A step that keeps the engine and the mode keeps the types if what it changes
\* has them.
LEMMA OpenTyped ==
  ASSUME TypeOK, UNCHANGED <<engine, mode>>, store' \in [Hashes -> Held],
         inv' \in Entries \cup {None}, cursor' \in Cursors,
         cursor'.hnd => mode # "closed" /\ engine \in {"khash", "align", "kc"},
         trusted' \in BOOLEAN, trusted' => trusted, erred' \in BOOLEAN
  PROVE  TypeOK'
<1>1. (store \in [Hashes -> Held])' /\ (cursor \in Cursors)'
  BY DEF Held, Cursors, KeyOf
<1> QED
  BY <1>1, TypeParts DEF TypeOK, Held, Cursors

\* Steps of the handle.
LEMMA HandleTyped ==
  ASSUME TypeOK, Alloc \/ Free \/ Reset \/ ResetFails
  PROVE  TypeOK'
<1>1. cursor \in Cursors /\ store \in [Hashes -> Held] /\ inv \in Entries \cup {None}
      /\ trusted \in BOOLEAN
  BY TypeParts
<1>2. CASE Alloc
  <2>1. UNCHANGED <<engine, store, inv, cursor, trusted>> /\ erred' \in BOOLEAN
        /\ mode' \in {"closed", "open", "broken"} /\ mode = "closed"
        /\ (mode' = "broken" => engine \in {"tc", "kc", "bdb"})
    BY <1>2 DEF Alloc
  <2> QED
    BY <2>1 DEF TypeOK, KeyOf
<1>3. CASE Free
  <2>1. HandleLost /\ cursor' = [cursor EXCEPT !.hnd = FALSE] /\ erred' = FALSE
        /\ inv' = inv
    BY <1>3 DEF Free
  <2> QED
    BY <1>1, <2>1, CursorLeft, LostTyped
<1>4. CASE Reset
  <2>1. UNCHANGED <<engine, mode, inv>> /\ erred' = FALSE
        /\ cursor' = [cursor EXCEPT !.at = None]
        /\ trusted' = (trusted /\ engine # "ldb")
    BY <1>4 DEF Reset
  <2>2. store' \in [Hashes -> Held]
    BY <1>1, <1>4 DEF Reset, Nothing, Held
  <2>3. trusted' \in BOOLEAN /\ (trusted' => trusted)
    BY <2>1
  <2> QED
    BY <1>1, <2>1, <2>2, <2>3, CursorLeft, OpenTyped, TypeParts
<1>5. CASE ResetFails
  <2>1. UNCHANGED <<engine, mode, store, inv, trusted>> /\ erred' = TRUE
        /\ cursor' \in {cursor, [cursor EXCEPT !.at = None]}
    BY <1>5 DEF ResetFails
  <2> QED
    BY <1>1, <2>1, CursorLeft, OpenTyped, TypeParts
<1> QED
  BY <1>2, <1>3, <1>4, <1>5

\* Steps that write.
LEMMA WriteTyped ==
  ASSUME TypeOK, Careless = {}, NEW h \in Hashes, NEW e \in Entries,
         InvSet(h, e) \/ InvSetFails(h, e)
  PROVE  TypeOK'
<1>1. store' \in [Hashes -> Held]
  BY KeyIsHash DEF InvSet, InvSetFails, Put, TypeOK, Held
<1>2. UNCHANGED <<engine, mode, cursor, trusted>> /\ inv' = e /\ erred' \in BOOLEAN
  BY CursorStays DEF InvSet, InvSetFails, EngineErrs
<1> QED
  BY <1>1, <1>2, OpenTyped, TypeParts

\* A lookup puts an entry where it finds none, on the tables, and is trusted no more.
LEMMA InsertedFacts ==
  ASSUME TypeOK, NEW h \in Hashes, Inserted(h)
  PROVE  /\ store' \in [Hashes -> Held]
         /\ trusted' \in BOOLEAN /\ (trusted' => trusted /\ ~Inserts(h) /\ UNCHANGED store)
<1>1. CASE Inserts(h)
  <2>1. PICK e \in Entries : store' = [store EXCEPT ![KeyOf(h)] = e]
    BY <1>1 DEF Inserted
  <2>2. engine # "sparse" /\ KeyOf(h) \in Hashes
    BY <1>1, KeyIsHash DEF Inserts, Tables
  <2>3. store' \in [Hashes -> Held]
    BY <2>1, <2>2 DEF TypeOK, Held
  <2>4. trusted' = FALSE
    BY <1>1 DEF Inserted
  <2> QED
    BY <2>3, <2>4
<1>2. CASE ~Inserts(h)
  <2>1. store' = store /\ trusted' = (trusted /\ TRUE)
    BY <1>2 DEF Inserted
  <2> QED
    BY <1>2, <2>1 DEF TypeOK, Held
<1> QED
  BY <1>1, <1>2

\* Steps that look a hash up.
LEMMA LookupTyped ==
  ASSUME TypeOK, Careless = {}, NEW h \in Hashes,
         InvGet(h) \/ InvGetFails(h) \/ CursorFind(h) \/ CursorFindFails(h)
  PROVE  TypeOK'
<1>1. CASE InvGet(h)
  <2>1. UNCHANGED <<engine, mode, inv, cursor>> /\ Inserted(h) /\ erred' = FALSE
    BY <1>1, CursorStays DEF InvGet
  <2> QED
    BY <2>1, InsertedFacts, OpenTyped, TypeParts
<1>2. CASE InvGetFails(h)
  <2>1. UNCHANGED <<engine, mode, store, inv, cursor, trusted>> /\ erred' = TRUE
    BY <1>2 DEF InvGetFails, EngineErrs
  <2> QED
    BY <2>1, OpenTyped, TypeParts
<1>3. CASE CursorFind(h)
  <2>1. UNCHANGED <<engine, mode, inv>> /\ Inserted(h) /\ erred' = FALSE
        /\ mode # "closed" /\ engine \in {"khash", "align", "kc"}
    BY <1>3 DEF CursorFind, UsesCursors
  <2>2. PICK k \in {None, KeyOf(h)} : cursor' = [for |-> h, at |-> k, hnd |-> TRUE]
    BY <1>3 DEF CursorFind
  <2>3. cursor' \in Cursors
    BY <2>2, CursorPut
  <2> QED
    BY <2>1, <2>3, InsertedFacts, OpenTyped, TypeParts
<1>4. CASE CursorFindFails(h)
  <2>1. UNCHANGED <<engine, mode, store, inv, trusted>> /\ erred' = TRUE /\ engine = "kc"
        /\ mode # "closed" /\ cursor' = [for |-> h, at |-> None, hnd |-> TRUE]
    BY <1>4 DEF CursorFindFails, EngineErrs
  <2>2. cursor' \in Cursors
    BY <2>1, CursorPut
  <2> QED
    BY <2>1, <2>2, OpenTyped, TypeParts
<1> QED
  BY <1>1, <1>2, <1>3, <1>4

\* A write through a cursor.
LEMMA CursorSetTyped ==
  ASSUME TypeOK, NEW e \in Entries, CursorSet(e) \/ CursorSetFails(e)
  PROVE  TypeOK'
<1>1. UNCHANGED <<engine, mode, inv, cursor, trusted>> /\ erred' \in BOOLEAN /\ cursor.hnd
  BY DEF CursorSet, CursorSetFails, EngineErrs
<1>2. engine # "sparse" /\ (cursor.at # None => cursor.at \in Hashes)
  BY <1>1, CursorLeft, TypeParts
<1>3. store' \in [Hashes -> Held]
  BY <1>2, TypeParts DEF CursorSet, CursorSetFails, Held
<1> QED
  BY <1>1, <1>3, OpenTyped, TypeParts

\* Steps that leave the index alone.
LEMMA IdleTyped ==
  ASSUME TypeOK, CursorGet \/ CursorGetFails \/ CursorFree \/ CallerReturns
                 \/ UNCHANGED bvars
  PROVE  TypeOK'
<1>1. NoCursor \in Cursors /\ ~NoCursor.hnd
  BY DEF NoCursor, Cursors
<1>2. UNCHANGED <<engine, mode, store, trusted>> /\ inv' \in {inv, None}
      /\ cursor' \in {cursor, NoCursor} /\ erred' \in {erred, TRUE, FALSE}
  BY DEF CursorGet, CursorGetFails, CursorFree, CallerReturns, bvars, EngineErrs
<1> QED
  BY <1>1, <1>2, OpenTyped, TypeParts

\* Every step keeps the types.
LEMMA StepTyped ==
  ASSUME Careless = {}, TypeOK, [Next]_bvars
  PROVE  TypeOK'
<1>1. CASE Alloc \/ Free \/ Reset \/ ResetFails
  BY <1>1, HandleTyped
<1>2. CASE \E h \in Hashes, e \in Entries : InvSet(h, e) \/ InvSetFails(h, e)
  BY <1>2, WriteTyped
<1>3. CASE \E h \in Hashes : InvGet(h) \/ InvGetFails(h)
  BY <1>3, LookupTyped
<1>4. CASE \E h \in Hashes : CursorFind(h) \/ CursorFindFails(h)
  BY <1>4, LookupTyped
<1>5. CASE \E e \in Entries : CursorSet(e) \/ CursorSetFails(e)
  BY <1>5, CursorSetTyped
<1>6. CASE CursorGet \/ CursorGetFails \/ CursorFree \/ CallerReturns \/ UNCHANGED bvars
  BY <1>6, IdleTyped
<1>7. CASE ErrorDies \/ \E h \in Hashes : MissingDies(h)
  <2>1. Dies /\ erred' \in BOOLEAN
    BY <1>7 DEF ErrorDies, MissingDies
  <2> QED
    BY <2>1, DiesTyped
<1> QED
  BY <1>1, <1>2, <1>3, <1>4, <1>5, <1>6, <1>7 DEF Next

\* The state has its types, whatever engine was chosen and whatever fails, over
\* cursors whose handle was closed, unless a caller holds a cursor over calls that
\* move what it is at.
THEOREM TypeProved == Careless = {} => (Spec => []TypeOK)
<1> SUFFICES ASSUME Careless = {}
             PROVE  Spec => []TypeOK
  OBVIOUS
<1>1. Init => TypeOK
  BY InitTyped
<1>2. TypeOK /\ [Next]_bvars => TypeOK'
  BY StepTyped
<1> QED
  BY <1>1, <1>2, PTL DEF Spec

-----------------------------------------------------------------------------
(* What the trusted engines promise.                                       *)

\* An engine that is trusted holds entries, each under its hash.
LEMMA TrustedHolds ==
  ASSUME TypeOK, trusted
  PROVE  /\ Content = store
         /\ store \in [Hashes -> Entries \cup {None}]
         /\ engine \in Dependable
         /\ \A h \in Hashes : KeyOf(h) = h /\ h # None /\ h # Frame
<1>1. engine \in Dependable /\ engine \notin {"align", "sparse", "none", "lmc"}
  BY DEF TypeOK, Dependable
<1>2. store \in [Hashes -> Entries \cup {None}]
  BY <1>1 DEF TypeOK
<1>3. \A h \in Hashes : store[h] # Frame
  BY <1>2, BackendAssumption
<1>4. Content = [h \in Hashes |-> store[h]]
  BY <1>3 DEF Content
<1> QED
  BY <1>1, <1>2, <1>4, BackendAssumption DEF KeyOf

\* So does one that is trusted after a step.
LEMMA TrustedHoldsNext ==
  ASSUME TypeOK', trusted'
  PROVE  Content' = store'
<1>1. engine' \in Dependable /\ engine' # "sparse"
  BY DEF TypeOK, Dependable
<1>2. store' \in [Hashes -> Entries \cup {None}]
  BY <1>1 DEF TypeOK
<1>3. \A h \in Hashes : store'[h] # Frame
  BY <1>2, BackendAssumption
<1>4. Content' = [h \in Hashes |-> store'[h]]
  BY <1>3 DEF Content
<1> QED
  BY <1>2, <1>4

\* What was once not trusted is not trusted again, and an engine stays in its file.
LEMMA TrustOnlyLost ==
  ASSUME TypeOK, Next
  PROVE  engine' = engine /\ (trusted' => trusted)
<1>1. CASE Alloc \/ Free \/ ResetFails
  BY <1>1 DEF Alloc, Free, ResetFails, HandleLost
<1>7. CASE Reset
  <2>1. engine' = engine /\ trusted' = (trusted /\ engine # "ldb")
    BY <1>7 DEF Reset
  <2> QED
    BY <2>1
<1>2. CASE ErrorDies \/ CallerReturns \/ \E h \in Hashes : MissingDies(h)
  BY <1>2 DEF ErrorDies, CallerReturns, MissingDies, Dies, HandleLost
<1>3. CASE \E h \in Hashes, e \in Entries : InvSet(h, e) \/ InvSetFails(h, e)
  BY <1>3 DEF InvSet, InvSetFails
<1>4. CASE \E h \in Hashes : \/ InvGet(h) \/ InvGetFails(h)
                            \/ CursorFind(h) \/ CursorFindFails(h)
  BY <1>4, InsertedFacts DEF InvGet, InvGetFails, CursorFind, CursorFindFails
<1>5. CASE \E e \in Entries : CursorSet(e) \/ CursorSetFails(e)
  BY <1>5 DEF CursorSet, CursorSetFails
<1>6. CASE CursorGet \/ CursorGetFails \/ CursorFree
  BY <1>6 DEF CursorGet, CursorGetFails, CursorFree
<1> QED
  BY <1>1, <1>2, <1>3, <1>4, <1>5, <1>6, <1>7 DEF Next

\* A closed index that is not in a file has nothing.
ClosedEmpty == mode = "closed" /\ engine \notin Files => store = Nothing

\* Which every step keeps.
LEMMA ClosedStays ==
  ASSUME TypeOK, ClosedEmpty, [Next]_bvars
  PROVE  ClosedEmpty'
<1>1. CASE UNCHANGED <<engine, mode, store>>
  BY <1>1 DEF ClosedEmpty, Nothing
<1>2. CASE engine' = engine /\ mode # "closed" /\ mode' = mode
  BY <1>2 DEF ClosedEmpty
<1>3. CASE HandleLost
  BY <1>3 DEF HandleLost, ClosedEmpty, Nothing
<1>4. CASE Alloc
  BY <1>4 DEF Alloc, ClosedEmpty, Files, Nothing
<1>5. CASE Free \/ ErrorDies \/ \E h \in Hashes : MissingDies(h)
  BY <1>3, <1>5 DEF Free, ErrorDies, MissingDies, Dies
<1>6. CASE Reset \/ ResetFails \/ CallerReturns \/ UNCHANGED bvars
  BY <1>1, <1>2, <1>6 DEF Reset, ResetFails, CallerReturns, bvars
<1>7. CASE \E h \in Hashes, e \in Entries : InvSet(h, e) \/ InvSetFails(h, e)
  BY <1>1, <1>2, <1>7 DEF InvSet, InvSetFails
<1>8. CASE \E h \in Hashes : \/ InvGet(h) \/ InvGetFails(h)
                            \/ CursorFind(h) \/ CursorFindFails(h)
  BY <1>1, <1>2, <1>8 DEF InvGet, InvGetFails, CursorFind, CursorFindFails
<1>9. CASE CursorGet \/ CursorGetFails \/ CursorFree
  BY <1>1, <1>9 DEF CursorGet, CursorGetFails, CursorFree
<1>10. CASE \E e \in Entries : CursorSet(e) \/ CursorSetFails(e)
  BY <1>1, <1>2, <1>10 DEF CursorSet, CursorSetFails, TypeOK
<1> QED
  BY <1>4, <1>5, <1>6, <1>7, <1>8, <1>9, <1>10 DEF Next

\* There is an entry where a cursor is.
CursorThere == cursor.hnd /\ cursor.at # None => store[cursor.at] # None

\* Which every step keeps: no table loses an entry under a cursor, and a file only
\* when it is reset, which puts its cursor nowhere.
LEMMA CursorThereStays ==
  ASSUME Careless = {}, TypeOK, CursorThere, [Next]_bvars
  PROVE  CursorThere'
<1> DEFINE Grows == store' = store \/ \E k \in Hashes, x \in Entries \cup {Frame} :
                                       store' = [store EXCEPT ![k] = x]
<1>1. ASSUME Grows, UNCHANGED cursor
      PROVE  CursorThere'
  <2>1. CASE store' = store
    BY <1>1, <2>1 DEF CursorThere
  <2>2. ASSUME NEW k \in Hashes, NEW x \in Entries \cup {Frame},
               store' = [store EXCEPT ![k] = x]
        PROVE  CursorThere'
    <3>1. x # None
      BY BackendAssumption
    <3>2. DOMAIN store = Hashes
      BY DEF TypeOK
    <3>3. cursor.hnd => cursor.at \in Hashes \cup {None}
      BY CursorLeft, TypeParts
    <3>4. None \notin Hashes
      BY BackendAssumption
    <3> QED
      BY <1>1, <2>2, <3>1, <3>2, <3>3, <3>4 DEF CursorThere
  <2> QED
    BY <1>1, <2>1, <2>2
<1>2. ASSUME ~cursor'.hnd \/ cursor'.at = None
      PROVE  CursorThere'
  BY <1>2 DEF CursorThere
<1>3. CASE Alloc \/ CursorGet \/ CursorGetFails \/ CallerReturns \/ UNCHANGED bvars
  BY <1>1, <1>3 DEF Alloc, CursorGet, CursorGetFails, CallerReturns, bvars
<1>4. CASE Free
  BY <1>2, <1>4, CursorLeft, TypeParts DEF Free
<1>5. CASE ErrorDies \/ CursorFree \/ \E h \in Hashes : MissingDies(h)
  BY <1>2, <1>5 DEF ErrorDies, CursorFree, MissingDies, Dies, NoCursor
<1>6. CASE Reset \/ ResetFails
  <2>1. [cursor EXCEPT !.at = None].at = None
    BY TypeParts DEF Cursors, NoCursor
  <2> QED
    BY <1>1, <1>2, <1>6, <2>1 DEF Reset, ResetFails
<1>7. ASSUME NEW h \in Hashes, NEW e \in Entries, InvSet(h, e) \/ InvSetFails(h, e)
      PROVE  CursorThere'
  <2>1. UNCHANGED cursor
    BY <1>7, CursorStays DEF InvSet, InvSetFails
  <2>2. Grows
    BY <1>7, KeyIsHash DEF InvSet, InvSetFails, Put
  <2> QED
    BY <1>1, <2>1, <2>2
<1>8. ASSUME NEW h \in Hashes, InvGet(h) \/ InvGetFails(h)
      PROVE  CursorThere'
  <2>1. UNCHANGED cursor
    BY <1>8, CursorStays DEF InvGet, InvGetFails
  <2>2. Grows
    BY <1>8, KeyIsHash DEF InvGet, InvGetFails, Inserted
  <2> QED
    BY <1>1, <2>1, <2>2
<1>9. ASSUME NEW h \in Hashes, CursorFind(h) \/ CursorFindFails(h)
      PROVE  CursorThere'
  <2>1. CASE CursorFindFails(h)
    BY <1>2, <2>1 DEF CursorFindFails
  <2>2. CASE CursorFind(h)
    <3>1. cursor' = [for |-> h, hnd |-> TRUE,
                     at |-> IF store'[KeyOf(h)] = None THEN None ELSE KeyOf(h)]
      BY <2>2 DEF CursorFind
    <3>2. cursor'.at = IF store'[KeyOf(h)] = None THEN None ELSE KeyOf(h)
      BY <3>1
    <3> QED
      BY <3>2 DEF CursorThere
  <2> QED
    BY <1>9, <2>1, <2>2
<1>10. ASSUME NEW e \in Entries, CursorSet(e) \/ CursorSetFails(e)
       PROVE  CursorThere'
  <2>1. UNCHANGED cursor /\ cursor.hnd
    BY <1>10 DEF CursorSet, CursorSetFails
  <2>2. Grows
    BY <1>10, <2>1, CursorLeft, TypeParts DEF CursorSet, CursorSetFails
  <2> QED
    BY <1>1, <2>1, <2>2
<1> QED
  BY <1>3, <1>4, <1>5, <1>6, <1>7, <1>8, <1>9, <1>10 DEF Next

\* Its initial state is an empty inventory.
LEMMA InitIsInit ==
  ASSUME Init
  PROVE  Index!Init
<1>1. Content = Index!Empty
  BY BackendAssumption DEF Init, Content, Nothing, Index!Empty
<1>2. At = None
  BY DEF Init, At, NoCursor
<1>3. trusted \in BOOLEAN /\ (engine \in Files) \in BOOLEAN
  BY DEF Init
<1> QED
  BY <1>1, <1>2, <1>3 DEF Init, Index!Init, Call, Index!Call

\* A closed index has what its file has.
LEMMA LostIsReopen ==
  ASSUME TypeOK, TypeOK', trusted, trusted', HandleLost,
         ~cursor'.hnd, call'.op \in {"alloc", "free", "die"}
  PROVE  Index!Reopen
<1>1. answer' = None /\ engine' = engine
      /\ store' = IF engine \in Files THEN store ELSE Nothing
  BY DEF HandleLost
<1>2. At' = None
  BY DEF At
<1>3. Content = store /\ Content' = store'
  BY TrustedHolds, TrustedHoldsNext
<1>4. Nothing = Index!Empty
  BY DEF Nothing, Index!Empty
<1> QED
  BY <1>1, <1>2, <1>3, <1>4 DEF Index!Reopen

\* Opening, closing and dying are those of an inventory.
LEMMA HandleStep ==
  ASSUME TypeOK, TypeOK', ClosedEmpty, trusted, trusted',
         Alloc \/ Free \/ ErrorDies \/ \E h \in Hashes : MissingDies(h)
  PROVE  Index!Reopen
<1>1. CASE Alloc
  <2>1. UNCHANGED <<engine, store, cursor, inv>> /\ mode = "closed" /\ answer' = None
        /\ call'.op = "alloc"
    BY <1>1 DEF Alloc, Call
  <2>2. At' = None
    BY <2>1 DEF At, TypeOK
  <2>3. Content = store /\ Content' = store
    BY <2>1, TrustedHolds, TrustedHoldsNext
  <2> QED
    BY <2>1, <2>2, <2>3 DEF Index!Reopen, ClosedEmpty, Nothing, Index!Empty
<1>2. CASE Free
  <2>1. HandleLost /\ call'.op = "free" /\ cursor' = [cursor EXCEPT !.hnd = FALSE]
    BY <1>2 DEF Free, Call
  <2>2. ~cursor'.hnd
    BY <2>1, CursorLeft, TypeParts
  <2> QED
    BY <2>1, <2>2, LostIsReopen
<1>3. CASE ErrorDies \/ \E h \in Hashes : MissingDies(h)
  <2>1. HandleLost /\ call'.op = "die" /\ cursor' = NoCursor
    BY <1>3 DEF ErrorDies, MissingDies, Dies, Call
  <2> QED
    BY <2>1, LostIsReopen DEF NoCursor
<1> QED
  BY <1>1, <1>2, <1>3

\* So is a reset, on all but LevelDB; one that fails empties nothing.
LEMMA ResetStep ==
  ASSUME TypeOK, TypeOK', trusted, trusted', Reset \/ ResetFails
  PROVE  Index!Reset
<1>1. Content = store /\ Content' = store' /\ engine \in Dependable
  BY TrustedHolds, TrustedHoldsNext
<1>2. cursor \in Cursors
  BY TypeParts
<1>3. call' = Index!Call("reset", None, None) /\ answer' = None
  BY DEF Reset, ResetFails, Call, Index!Call
<1>4. CASE Reset
  <2>1. cursor' = [cursor EXCEPT !.at = None] /\ engine # "ldb"
    BY <1>4 DEF Reset
  <2>2. store' = Index!Empty
    BY <1>1, <1>4, <2>1 DEF Reset, Dependable, Nothing, Index!Empty
  <2>3. cursor'.at = None
    BY <1>2, <2>1 DEF Cursors, NoCursor
  <2>4. At' = None
    BY <2>3 DEF At
  <2> QED
    BY <1>1, <1>3, <2>2, <2>4 DEF Index!Reset
<1>5. CASE ResetFails
  <2>1. cursor' \in {cursor, [cursor EXCEPT !.at = None]} /\ erred' = TRUE /\ store' = store
    BY <1>5 DEF ResetFails
  <2>2. [cursor EXCEPT !.at = None].at = None
    BY <1>2 DEF Cursors, NoCursor
  <2>3. At' \in {At, None}
    BY <2>1, <2>2 DEF At
  <2> QED
    BY <1>1, <1>3, <2>1, <2>3 DEF Index!Reset
<1> QED
  BY <1>4, <1>5

\* Storing stores under the hash; a write that fails stores nothing.
LEMMA SetStep ==
  ASSUME TypeOK, TypeOK', Careless = {}, trusted, trusted',
         NEW h \in Hashes, NEW e \in Entries, InvSet(h, e) \/ InvSetFails(h, e)
  PROVE  Index!Set(h, e)
<1>1. Content = store /\ Content' = store' /\ KeyOf(h) = h
      /\ engine \notin {"none", "sparse"}
  BY TrustedHolds, TrustedHoldsNext DEF Dependable
<1>2. UNCHANGED cursor /\ call' = Index!Call("set", h, e) /\ answer' = None
  BY CursorStays DEF InvSet, InvSetFails, Call, Index!Call
<1>3. At' = At
  BY <1>2 DEF At
<1>4. \/ store' = [store EXCEPT ![h] = e]
      \/ erred' /\ store' = store
  BY <1>1 DEF InvSet, InvSetFails, EngineErrs, Put
<1> QED
  BY <1>1, <1>2, <1>3, <1>4 DEF Index!Set, Index!Store

\* A lookup that is trusted afterwards inserted nothing.
LEMMA GetStep ==
  ASSUME TypeOK, TypeOK', Careless = {}, trusted, trusted', NEW h \in Hashes,
         InvGet(h) \/ InvGetFails(h)
  PROVE  Index!Get(h)
<1>1. Content = store /\ Content' = store' /\ KeyOf(h) = h
      /\ store[h] \in Entries \cup {None}
  BY TrustedHolds, TrustedHoldsNext
<1>2. engine \notin {"none", "lmc"}
  BY TrustedHolds DEF Dependable
<1>3. UNCHANGED <<engine, cursor>> /\ call' = Index!Call("get", h, None)
  BY CursorStays DEF InvGet, InvGetFails, Call, Index!Call
<1>4. At' = At
  BY <1>3 DEF At
<1>5. CASE InvGet(h)
  <2>1. store' = store
    BY <1>5, InsertedFacts DEF InvGet
  <2>2. answer' \in Read(store'[KeyOf(h)])
    BY <1>2, <1>5 DEF InvGet
  <2>3. (KeyOf(h))' = h
    BY <1>1, <1>3 DEF KeyOf
  <2>4. answer' \in Read(store[h])
    BY <1>1, <2>1, <2>2, <2>3
  <2>5. store[h] # Frame
    BY <1>1, BackendAssumption
  <2>6. answer' = store[h]
    BY <2>4, <2>5 DEF Read
  <2> QED
    BY <1>1, <1>3, <1>4, <2>1, <2>6 DEF Index!Get, Index!Answered
<1>6. CASE InvGetFails(h)
  <2>1. store' = store /\ answer' = None /\ erred' = TRUE
    BY <1>6 DEF InvGetFails, EngineErrs
  <2> QED
    BY <1>1, <1>3, <1>4, <2>1 DEF Index!Get, Index!Answered
<1> QED
  BY <1>5, <1>6

\* A cursor is put to the hash, or nowhere if there is nothing.
LEMMA FindStep ==
  ASSUME TypeOK, TypeOK', trusted, trusted', NEW h \in Hashes,
         CursorFind(h) \/ CursorFindFails(h)
  PROVE  Index!CursorFind(h)
<1>1. Content = store /\ Content' = store' /\ KeyOf(h) = h
  BY TrustedHolds, TrustedHoldsNext
<1>2. call' = Index!Call("find", h, None) /\ answer' = None
  BY DEF CursorFind, CursorFindFails, Call, Index!Call
<1>3. CASE CursorFind(h)
  <2>1. store' = store
    BY <1>3, InsertedFacts DEF CursorFind
  <2>2. cursor' = [for |-> h, hnd |-> TRUE, at |-> IF store[h] = None THEN None ELSE h]
    BY <1>1, <1>3, <2>1 DEF CursorFind
  <2>3. At' = IF store[h] = None THEN None ELSE h
    BY <2>2 DEF At
  <2> QED
    BY <1>1, <1>2, <2>1, <2>3 DEF Index!CursorFind
<1>4. CASE CursorFindFails(h)
  <2>1. store' = store /\ erred' = TRUE /\ cursor' = [for |-> h, at |-> None, hnd |-> TRUE]
    BY <1>4 DEF CursorFindFails, EngineErrs
  <2>2. At' = None
    BY <2>1 DEF At
  <2> QED
    BY <1>1, <1>2, <2>1, <2>2 DEF Index!CursorFind
<1> QED
  BY <1>3, <1>4

\* What is read through a cursor is what is under its hash, if it is there.
LEMMA CursorGetStep ==
  ASSUME TypeOK, TypeOK', CursorThere, trusted, trusted', CursorGet \/ CursorGetFails
  PROVE  Index!CursorGet
<1>1. Content = store /\ Content' = store'
  BY TrustedHolds, TrustedHoldsNext
<1>2. UNCHANGED <<store, cursor>> /\ cursor.hnd
      /\ call' = Index!Call("cursor_get", cursor.at, None)
  BY DEF CursorGet, CursorGetFails, Call, Index!Call
<1>3. At = cursor.at /\ At' = At
  BY <1>2 DEF At
<1>4. CASE At = None
  <2>1. answer' = None
    BY <1>3, <1>4 DEF CursorGet, CursorGetFails
  <2> QED
    BY <1>1, <1>2, <1>3, <1>4, <2>1 DEF Index!CursorGet
<1>5. CASE At # None
  <2>1. \/ answer' = store[At]
        \/ erred' /\ answer' = None
    BY <1>2, <1>3, <1>5 DEF CursorGet, CursorGetFails, EngineErrs, CursorThere
  <2> QED
    BY <1>1, <1>2, <1>3, <1>5, <2>1 DEF Index!CursorGet, Index!Answered
<1> QED
  BY <1>4, <1>5

\* What is written through a cursor goes under its hash.
LEMMA CursorSetStep ==
  ASSUME TypeOK, TypeOK', trusted, trusted', NEW e \in Entries,
         CursorSet(e) \/ CursorSetFails(e)
  PROVE  Index!CursorSet(e)
<1>1. Content = store /\ Content' = store'
  BY TrustedHolds, TrustedHoldsNext
<1>2. UNCHANGED cursor /\ cursor.hnd /\ answer' = None
      /\ call' = Index!Call("cursor_set", cursor.at, e)
  BY DEF CursorSet, CursorSetFails, Call, Index!Call
<1>3. At = cursor.at /\ At' = At
  BY <1>2 DEF At
<1>4. \/ store' = IF At = None THEN store ELSE [store EXCEPT ![At] = e]
      \/ erred' /\ store' = store
  BY <1>3 DEF CursorSet, CursorSetFails, EngineErrs
<1> QED
  BY <1>1, <1>2, <1>3, <1>4 DEF Index!CursorSet, Index!Store

\* Freeing it, and a return of the caller, change nothing else.
LEMMA FreeStep ==
  ASSUME TypeOK, TypeOK', trusted, trusted', CursorFree \/ CallerReturns
  PROVE  Index!CursorFree \/ Index!Return
<1>1. Content = store /\ Content' = store'
  BY TrustedHolds, TrustedHoldsNext
<1>2. CASE CursorFree
  <2>1. store' = store /\ cursor' = NoCursor /\ answer' = None
        /\ call' = Index!Call("cursor_free", None, None)
    BY <1>2 DEF CursorFree, Call, Index!Call
  <2>2. At' = None
    BY <2>1 DEF At, NoCursor
  <2> QED
    BY <1>1, <2>1, <2>2 DEF Index!CursorFree
<1>3. CASE CallerReturns
  <2>1. store' = store /\ cursor' = cursor /\ answer' = None
        /\ call' = Index!Call("return", None, None)
    BY <1>3 DEF CallerReturns, Call, Index!Call
  <2>2. At' = At
    BY <2>1 DEF At
  <2> QED
    BY <1>1, <2>1, <2>2 DEF Index!Return
<1> QED
  BY <1>2, <1>3

\* On khash, the Cabinets, BDB and LevelDB a lookup answers what was stored last for
\* the hash, through whatever calls, closings, failures and deaths, as long as khash
\* is not asked for a hash it has not and LevelDB is not reset (bzing.c:294-579).
THEOREM InventoryImplemented == Careless = {} => (Spec => ImplementsInventory)
<1> SUFFICES ASSUME Careless = {}
             PROVE  Spec => ImplementsInventory
  OBVIOUS
<1> DEFINE Inv == TypeOK /\ ClosedEmpty /\ CursorThere
<1>1. Init => Inv /\ Index!Init
  <2> SUFFICES ASSUME Init
               PROVE  Inv /\ Index!Init
    OBVIOUS
  <2>1. ~cursor.hnd /\ store = Nothing
    BY DEF Init, NoCursor
  <2> QED
    BY <2>1, InitTyped, InitIsInit DEF ClosedEmpty, CursorThere
<1>2. Inv /\ [Next]_bvars => Inv'
  BY StepTyped, ClosedStays, CursorThereStays
<1>3. Inv /\ Inv' /\ [Next]_bvars => [Index!Next]_Index!ivars
  <2> SUFFICES ASSUME Inv, Inv', Next
               PROVE  Index!Next
    BY DEF bvars, Index!ivars, Content, At
  <2>1. engine' = engine /\ (trusted' => trusted)
    BY TrustOnlyLost
  <2>2. SUFFICES ASSUME trusted'
                 PROVE  Index!Step
    BY <2>1 DEF Index!Next
  <2>3. trusted
    BY <2>1, <2>2
  <2>4. CASE Alloc \/ Free \/ ErrorDies \/ \E h \in Hashes : MissingDies(h)
    BY <2>2, <2>3, <2>4, HandleStep DEF Index!Step
  <2>5. CASE Reset \/ ResetFails
    BY <2>2, <2>3, <2>5, ResetStep DEF Index!Step
  <2>6. CASE \E h \in Hashes, e \in Entries : InvSet(h, e) \/ InvSetFails(h, e)
    BY <2>2, <2>3, <2>6, SetStep DEF Index!Step
  <2>7. CASE \E h \in Hashes : InvGet(h) \/ InvGetFails(h)
    BY <2>2, <2>3, <2>7, GetStep DEF Index!Step
  <2>8. CASE \E h \in Hashes : CursorFind(h) \/ CursorFindFails(h)
    BY <2>2, <2>3, <2>8, FindStep DEF Index!Step
  <2>9. CASE CursorGet \/ CursorGetFails
    BY <2>2, <2>3, <2>9, CursorGetStep DEF Index!Step
  <2>10. CASE \E e \in Entries : CursorSet(e) \/ CursorSetFails(e)
    BY <2>2, <2>3, <2>10, CursorSetStep DEF Index!Step
  <2>11. CASE CursorFree \/ CallerReturns
    BY <2>2, <2>3, <2>11, FreeStep DEF Index!Step
  <2> QED
    BY <2>4, <2>5, <2>6, <2>7, <2>8, <2>9, <2>10, <2>11 DEF Next
<1> QED
  BY <1>1, <1>2, <1>3, PTL DEF Spec, ImplementsInventory, Index!Spec
=============================================================================
