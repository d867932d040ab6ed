--------------------------- MODULE ListThreadsProofs ---------------------------
(***************************************************************************)
(* Proofs about ListThreads, for any threads that ArrayAssumption admits.  *)
(*                                                                         *)
(* What readers answer beside one POST at a time.  Alone among writers, a  *)
(* thread finds the list as its last step left it (Poster), so between the *)
(* steps of anyone the array has the shape that Array and Distinct say,    *)
(* and its books stand in the order of their ids even while a removal      *)
(* moves them.  What a reader has read thus precedes what it can still     *)
(* meet (Reader), until an id is given again to a new book; that needs a   *)
(* change of modCount, and the reader's next look at modCount stops it.    *)
(*                                                                         *)
(* With several POSTs at a time (Races) all this is lost, but each         *)
(* addition and each removal has moved the size by one at most: that       *)
(* bounds every index, and every loop.                                     *)
(***************************************************************************)
EXTENDS ListThreads, FiniteSetTheorems, TLAPS

(* The inductive invariant.                                                *)

Posting(t) == Running(t) /\ Post(req[t])
Reading(t) == Running(t) /\ ~ Post(req[t])

\* No two POSTs are served at a time.
OnePoster == \A t, u \in Threads : Posting(t) /\ Posting(u) => t = u

Places == 0 .. (Capacity - 1)
ids == [o \in Objects |-> heap[o].id]
Answered == {Seed} \union { t \in Threads : pc[t] = "answered" }
UpTo(o, u) == o = u \/ ids[o] < ids[u]

\* The books of the list were added by requests that are answered; behind them
\* there may be one that is not listed yet, or not any more.  Ids grow with the
\* places and are no smaller than them.
Array ==
    /\ size \in 0 .. Capacity
    /\ \A k \in Places : k < size => es[k] \in Answered
    /\ \A k \in Places : k > size => es[k] = Null
    /\ \A k \in Places : k = size /\ es[k] # Null =>
          \E t \in Threads : pc[t] \in {"addSize", "clear"}
    /\ \A k \in Places : es[k] # Null => ids[es[k]] >= k
    /\ \A j, k \in Places : j < k /\ es[j] # Null /\ es[k] # Null => UpTo(es[j], es[k])

\* A book is at two places only while a removal moves it from one to the other.
Distinct ==
    \A j, k \in Places : j < k /\ k < size /\ es[j] = es[k] =>
        \E t \in Threads : pc[t] \in {"shift", "shrink"} /\ loc[t].i = k

\* Ids are given out one at a time.
Adders == { t \in Threads : ids[t] # NoId }
IdsCounted == \A o \in Objects : ids[o] <= Cardinality(Adders)

\* A book nobody changes has the data of one request.
Whole == \A o \in Objects :
            /\ (\A t \in Threads : ~ Changing(t, o)) =>
                  heap[o].name = heap[o].author /\ heap[o].author = heap[o].year
            /\ heap[o].name # Null /\ heap[o].author # Null /\ heap[o].year # Null

AddLabels == {"addReadMod", "addWriteMod", "addReadSize", "addStore"}
SetLabels == {"setName", "setAuthor", "setYear"}
RemoveLabels == {"removeReadSize", "scan", "removeReadMod", "removeWriteMod",
                 "newSize", "shift", "shrink", "clear"}

\* Where a thread is tells what it was asked.
Fits(l, op) ==
    /\ l \in PostLabels => op \in {"add", "change", "remove"}
    /\ l \in AddLabels \union {"addSize"} => op = "add"
    /\ l \in SetLabels => op = "change"
    /\ l \in RemoveLabels => op = "remove"
    /\ l \in ListLabels \union {"dead"} => op = "list"
    /\ l \in LoopLabels => op \in {"change", "remove", "list"}
    /\ l = "idle" => op = "none"

Where(t) ==
    /\ Fits(pc[t], req[t].op)
    /\ pc[t] \in {"idle", "size", "lastIndex", "checkIndex", "readLast"} =>
          ids[t] = NoId
    /\ pc[t] = "idle" => loc[t] = NoLocals
    /\ pc[t] # "answered" => answer[t].status = "none"
    /\ loc[t].mod <= modCount
    /\ before[t].listed \subseteq Answered /\ before[t].gone \subseteq Answered

\* A book that is about to be stored follows all others.
Newest(t) == /\ ids[t] >= size /\ ids[t] < Capacity
             /\ \A k \in Places : k < size => ids[es[k]] < ids[t]

\* The place of the book that leaves the list, or of its neighbour moved there.
Gap(t) == LET i == loc[t].i IN
          /\ \A k \in Places : k # i => es[k] # loc[t].cur
          /\ es[i] = loc[t].cur \/ (i > 0 /\ es[i] = es[i - 1])

\* Alone among writers, a thread finds the list as it has left it.
Poster(t) ==
    /\ pc[t] = "lastIndex" => size > 0
    /\ pc[t] \in {"checkIndex", "readLast"} => size > 0 /\ loc[t].n = size - 1
    /\ pc[t] \in AddLabels => Newest(t)
    /\ pc[t] = "addStore" => loc[t].n = size
    /\ pc[t] = "addSize" => loc[t].n = size /\ size < Capacity /\ es[size] = t
    /\ pc[t] \in {"hasNext", "checkMod", "checkSize", "fetch", "addWriteMod", "removeWriteMod"} =>
          loc[t].mod = modCount
    /\ pc[t] = "hasNext" => loc[t].i <= size
    /\ pc[t] \in {"checkMod", "checkSize", "fetch"} => loc[t].i < size
    /\ pc[t] \in SetLabels \union (RemoveLabels \ {"clear"}) =>
          loc[t].cur \in Objects /\ ids[loc[t].cur] = req[t].id
    /\ pc[t] \in SetLabels \union {"removeReadSize"} =>
          \E k \in Places : k < size /\ es[k] = loc[t].cur
    /\ pc[t] \in {"setAuthor", "setYear"} => heap[loc[t].cur].name = t
    /\ pc[t] = "setYear" => heap[loc[t].cur].author = t
    /\ pc[t] = "scan" => loc[t].n = size /\ loc[t].i < size
    /\ pc[t] \in {"removeReadMod", "removeWriteMod", "newSize"} =>
          loc[t].i < size /\ es[loc[t].i] = loc[t].cur
    /\ pc[t] = "shift" => loc[t].n = size - 1 /\ loc[t].i < loc[t].n /\ Gap(t)
    /\ pc[t] = "shrink" => loc[t].n = size - 1 /\ loc[t].i = loc[t].n /\ Gap(t)
    /\ pc[t] = "clear" => loc[t].n = size /\ size < Capacity

Named(r) == { k \in 1 .. Len(r) : r[k].book # Null }

\* Another thread has changed the list, or is about to, since a reader began.
Disturbed(t) == loc[t].mod # modCount
Late(t, o) == o \notin before[t].listed /\ Disturbed(t)
Ahead(t) == { k \in Places : k >= loc[t].i /\ es[k] # Null /\ ~ Late(t, es[k]) }

\* A book that a reader has read precedes what it will find, but for books that
\* came later, and precedes a book that is on its way while nothing has changed.
Precedes(t, o) ==
    /\ ids[o] >= 0 /\ o \notin before[t].gone
    /\ \A p \in Ahead(t) : UpTo(o, es[p])
    /\ \A w \in Threads : pc[w] \in {"addReadSize", "addStore"} /\ ~ Disturbed(t)
                              => ids[o] < ids[w]

\* A reader meets no book that was gone when it began.
NoneGone(t) == \A k \in Places : k < size \/ (pc[t] = "fetch" /\ k = loc[t].i)
                                     => es[k] \notin before[t].gone

Reader(t) ==
    LET out == loc[t].out
        cur == loc[t].cur
    IN
    /\ pc[t] = "iterator" => out = << >>
    /\ \A k \in Named(out) : Precedes(t, out[k].book)
    /\ \A j, k \in Named(out) : j < k =>
          \/ UpTo(out[j].book, out[k].book)
          \/ /\ k = Len(out) /\ Late(t, out[k].book)
             /\ pc[t] \notin {"checkSize", "fetch", "readName"}
    /\ NoneGone(t)
    /\ pc[t] = "fetch" => loc[t].i < Capacity
    /\ pc[t] = "readName" =>
          /\ cur \in Objects /\ Precedes(t, cur)
          /\ \A k \in Named(out) : UpTo(out[k].book, cur) \/ Late(t, cur)
    /\ pc[t] \in {"readAuthor", "readYear"} => out # << >> /\ cur \in Objects

\* What a client was told of stays in order.
Told(t) ==
    LET r == answer[t].books IN
    answer[t].status = "list" =>
        \A k \in Named(r) :
            /\ ids[r[k].book] >= 0 /\ r[k].book \notin before[t].gone
            /\ \A j \in Named(r) : j < k =>
                  UpTo(r[j].book, r[k].book) \/ (k = Len(r) /\ r[k].book \notin before[t].listed)

IInv == /\ TypeOK /\ OnePoster /\ Array /\ Distinct /\ IdsCounted /\ Whole /\ BooksKept
        /\ \A t \in Threads : Where(t) /\ Told(t)
        /\ \A t \in Threads : Posting(t) => Poster(t)
        /\ \A t \in Threads : Reading(t) => Reader(t)

-----------------------------------------------------------------------------
(* Facts about the constants and the definitions.                          *)

Locals == [i : 0 .. Capacity, n : -Capacity .. Capacity, mod : Nat,
           cur : Fields, out : Seq(ReadBooks)]
AnswerSet == [status : {"none", "done", "list"}, books : Seq(ReadBooks)]
Heaps == [Objects -> [id : NoId .. MaxId, name : Fields, author : Fields, year : Fields]]

LEMMA CapacityFacts ==
    /\ IsFiniteSet(Threads) /\ Cardinality(Threads) \in Nat
    /\ MaxId = Cardinality(Threads) /\ Capacity = MaxId + 1
    /\ MaxId \in Nat /\ Capacity \in Nat /\ Capacity > 0
<1>1. IsFiniteSet(Threads) /\ Cardinality(Threads) \in Nat
  BY ThreadsAssumption, FS_CardinalityType
<1>2. Cardinality(Objects) = Cardinality(Threads) + 1
  BY <1>1, ThreadsAssumption, FS_AddElement DEF Objects
<1> QED BY <1>1, <1>2 DEF MaxId, Capacity

LEMMA ObjectFacts == /\ Null \notin Objects /\ Objects \subseteq Fields /\ Null \in Fields
                     /\ Seed \in Objects /\ Threads \subseteq Objects /\ Seed \notin Threads
BY NullAssumption, ThreadsAssumption DEF Objects, Fields

\* The requests, by their kind.
LEMMA RequestFacts ==
    \A r \in Requests \union {NoRequest} :
        /\ r.op \in {"add", "change", "remove", "list", "none"}
        /\ r.op = "none" <=> r \notin Requests
        /\ r.op \in {"change", "remove"} => r.id \in 0 .. MaxId
        /\ Post(r) <=> r.op \in {"add", "change", "remove"}
<1>1. ASSUME NEW r \in Requests
      PROVE  /\ r.op \in {"add", "change", "remove", "list"}
             /\ r.op \in {"change", "remove"} => r.id \in 0 .. MaxId
  BY DEF Requests
<1>2. NoRequest.op = "none"
  BY DEF NoRequest
<1> QED BY <1>1, <1>2 DEF Post

\* TypeOK by the names used here.
Typed == /\ pc \in [Threads -> Labels] /\ req \in [Threads -> Requests \union {NoRequest}]
         /\ loc \in [Threads -> Locals] /\ answer \in [Threads -> AnswerSet]
         /\ heap \in Heaps /\ es \in [Places -> Fields] /\ size \in -Capacity .. Capacity
         /\ modCount \in Nat
         /\ before \in [Threads -> [listed : SUBSET Objects, gone : SUBSET Objects]]

LEMMA TypeFacts == (TypeOK <=> Typed) /\ (TypeOK <=> Typed)'
BY DEF TypeOK, Typed, Locals, AnswerSet, Heaps, Places

LEMMA IdsType == TypeOK => ids \in [Objects -> NoId .. MaxId]
BY TypeFacts DEF Typed, ids, Heaps

\* A thread's locals after an assignment.
LEMMA LocalsType ==
    ASSUME NEW r \in Locals, NEW i \in 0 .. Capacity, NEW n \in -Capacity .. Capacity,
           NEW mod \in Nat, NEW cur \in Fields, NEW out \in Seq(ReadBooks)
    PROVE  /\ [r EXCEPT !.i = i] \in Locals
           /\ [r EXCEPT !.n = n] \in Locals
           /\ [r EXCEPT !.mod = mod] \in Locals
           /\ [r EXCEPT !.cur = cur] \in Locals
           /\ [r EXCEPT !.out = out] \in Locals
BY CapacityFacts DEF Locals
LEMMA LocalsTwice ==
    ASSUME NEW r \in Locals, NEW i \in 0 .. Capacity, NEW n \in -Capacity .. Capacity,
           NEW mod \in Nat, NEW cur \in Fields, NEW out \in Seq(ReadBooks)
    PROVE  /\ [r EXCEPT !.i = i, !.mod = mod] \in Locals
           /\ [r EXCEPT !.i = i, !.n = n] \in Locals
           /\ [r EXCEPT !.i = i, !.cur = cur] \in Locals
           /\ [r EXCEPT !.i = i, !.out = out] \in Locals
           /\ [r EXCEPT !.out = out, !.cur = cur] \in Locals
BY LocalsType

\* The list in terms of the array.
LEMMA ListedFacts ==
    ASSUME TypeOK, Array
    PROVE  Listed = { es[k] : k \in { j \in Places : j < size } }
<1>1. \A k \in 0 .. (size - 1) : k \in Places /\ k < size /\ es[k] # Null
  BY CapacityFacts, ObjectFacts DEF TypeOK, Array, Places, Answered, Objects
<1>2. \A k \in Places : k < size => k \in 0 .. (size - 1)
  BY CapacityFacts DEF TypeOK, Array, Places
<1> QED BY <1>1, <1>2 DEF Listed

\* The sample book is alone in the list, and nobody was asked for anything.
LEMMA InitInv == Init => IInv
<1> SUFFICES ASSUME Init PROVE IInv
  OBVIOUS
<1> USE CapacityFacts, ObjectFacts
<1>1. TypeOK
  <2>1. NoLocals \in Locals /\ NoAnswer \in AnswerSet
    BY DEF NoLocals, NoAnswer, Locals, AnswerSet
  <2>2. heap \in Heaps
    BY DEF Init, NewBook, Heaps, NoId
  <2>3. "idle" \in Labels
    BY DEF Labels
  <2>4. es \in [Places -> Fields] /\ size \in -Capacity .. Capacity /\ modCount \in Nat
    BY DEF Init, Places
  <2> QED BY <2>1, <2>2, <2>3, <2>4, TypeFacts DEF Init, Typed
<1>2. /\ \A t \in Threads : pc[t] = "idle" /\ req[t] = NoRequest /\ loc[t] = NoLocals
                           /\ answer[t] = NoAnswer /\ before[t] = [listed |-> {}, gone |-> {}]
                           /\ ids[t] = NoId
      /\ ids[Seed] = 0 /\ size = 1 /\ es[0] = Seed /\ modCount = 1
      /\ \A k \in Places : k # 0 => es[k] = Null
  BY DEF Init, ids, NewBook, Places
<1>3. \A t \in Threads : ~ Running(t)
  BY <1>2 DEF Running
<1>4. OnePoster /\ Array /\ Distinct
  BY <1>2, <1>3 DEF OnePoster, Posting, Array, Distinct, Answered, Places
<1>5. IdsCounted
  <2>1. Adders = {}
    BY <1>2 DEF Adders
  <2>2. Cardinality(Adders) = 0
    BY <2>1, FS_EmptySet
  <2> QED BY <1>2, <2>2 DEF IdsCounted, Objects, NoId
<1>6. Whole
  BY DEF Init, Whole, NewBook
<1>7. BooksKept
  <2>1. Acknowledged = {Seed}
    BY <1>2 DEF Acknowledged, NoRequest
  <2>2. Seed \in Listed
    BY <1>2 DEF Listed
  <2> QED BY <2>1, <2>2 DEF BooksKept
<1>8. ASSUME NEW t \in Threads PROVE Where(t) /\ Told(t)
  BY <1>2 DEF Where, Fits, Told, NoRequest, NoLocals, NoAnswer, PostLabels, AddLabels, SetLabels,
              RemoveLabels, ListLabels, LoopLabels
<1> QED BY <1>1, <1>3, <1>4, <1>5, <1>6, <1>7, <1>8 DEF IInv, Posting, Reading

-----------------------------------------------------------------------------
(* What steps have in common.                                              *)

LEMMA BooksNamed ==
    ASSUME NEW r \in Seq(ReadBooks)
    PROVE  \A k \in Named(r) : k \in 1 .. Len(r) /\ r[k].book \in Objects
<1>1. \A k \in 1 .. Len(r) : r[k] \in ReadBooks
  OBVIOUS
<1>2. \A k \in 1 .. Len(r) : r[k].book \in Fields
  BY <1>1 DEF ReadBooks
<1> QED BY <1>2 DEF Named, Fields

\* What a reader knows stays true of a step of another thread, if no book it has
\* read is named anew, none it knows of moves back, and none that was gone comes
\* back.
LEMMA ReaderKept ==
    ASSUME TypeOK, NEW u \in Threads, Reader(u),
           pc'[u] = pc[u], loc'[u] = loc[u], before'[u] = before[u],
           Disturbed(u) => Disturbed(u)',
           \A o \in Objects : ids[o] >= 0 => ids'[o] = ids[o],
           \A o \in Objects : Precedes(u, o) => Precedes(u, o)',
           NoneGone(u)'
    PROVE  Reader(u)'
<1> DEFINE out == loc[u].out
           cur == loc[u].cur
<1>1. loc[u] \in Locals /\ out \in Seq(ReadBooks)
  BY TypeFacts DEF Typed, Locals
<1>2. \A k \in Named(out) : out[k].book \in Objects
  BY <1>1, BooksNamed
<1>3. \A k \in Named(out) : Precedes(u, out[k].book) /\ ids[out[k].book] >= 0
  BY DEF Reader, Precedes
<1>4. \A k \in Named(out) : Precedes(u, out[k].book)' /\ ids'[out[k].book] = ids[out[k].book]
  BY <1>2, <1>3
<1>5. \A o \in Objects : Late(u, o) => Late(u, o)'
  BY DEF Late
<1>6. ASSUME NEW j \in Named(out), NEW k \in Named(out), j < k
      PROVE  \/ UpTo(out[j].book, out[k].book)'
             \/ /\ k = Len(out) /\ Late(u, out[k].book)'
                /\ pc[u] \notin {"checkSize", "fetch", "readName"}
  BY <1>2, <1>4, <1>5, <1>6 DEF Reader, UpTo
<1>7. pc[u] = "readName" =>
          /\ cur \in Objects /\ Precedes(u, cur)'
          /\ \A k \in Named(out) : UpTo(out[k].book, cur)' \/ Late(u, cur)'
  <2> SUFFICES ASSUME pc[u] = "readName"
               PROVE  /\ cur \in Objects /\ Precedes(u, cur)'
                      /\ \A k \in Named(out) : UpTo(out[k].book, cur)' \/ Late(u, cur)'
    OBVIOUS
  <2>1. cur \in Objects /\ Precedes(u, cur)
    BY DEF Reader
  <2>2. ids'[cur] = ids[cur] /\ Precedes(u, cur)'
    BY <2>1 DEF Precedes
  <2>3. \A k \in Named(out) : UpTo(out[k].book, cur) \/ Late(u, cur)
    BY DEF Reader
  <2> QED BY <1>4, <1>5, <2>1, <2>2, <2>3 DEF UpTo
<1> QED BY <1>4, <1>6, <1>7 DEF Reader

\* The case of a step that leaves the list and the ids, and brings no new book
\* on its way.
LEMMA ReaderUntouched ==
    ASSUME TypeOK, NEW u \in Threads, Reader(u),
           pc'[u] = pc[u], loc'[u] = loc[u], before'[u] = before[u],
           UNCHANGED <<es, size, modCount, ids>>,
           \A w \in Threads : pc'[w] \in {"addReadSize", "addStore"} =>
               pc[w] \in {"addReadSize", "addStore"}
    PROVE  Reader(u)'
<1>1. \A o \in Objects : Late(u, o)' <=> Late(u, o)
  BY DEF Late, Disturbed
<1>2. Ahead(u)' = Ahead(u)
  BY DEF Ahead, Late, Disturbed
<1>3. \A o \in Objects : Precedes(u, o) => Precedes(u, o)'
  BY <1>2 DEF Precedes, UpTo, Disturbed
<1>4. NoneGone(u)'
  BY DEF Reader, NoneGone
<1> QED BY <1>3, <1>4, ReaderKept DEF Disturbed

\* The condemned, by their ids.
LEMMA CondemnedFacts ==
    \A o \in Objects : Condemned(o) <=>
        \E t \in Threads : req[t].op = "remove" /\ req[t].id = ids[o]
BY DEF Condemned, ids

\* A step that leaves the list and the ids keeps the invariant if it keeps what
\* concerns its own thread.
LEMMA Quiet ==
    ASSUME IInv, NEW t \in Threads, Running(t),
           NEW l \in Labels, NEW x \in Locals, NEW a \in AnswerSet,
           pc' = [pc EXCEPT ![t] = l], loc' = [loc EXCEPT ![t] = x],
           answer' = [answer EXCEPT ![t] = a],
           UNCHANGED <<req, es, size, modCount, before, ids>>,
           heap' \in Heaps, heap' = heap \/ Post(req[t]), Whole',
           pc[t] \notin {"addSize", "clear", "shift", "shrink"}, l # "idle",
           l \in {"addReadSize", "addStore"} => pc[t] \in {"addReadSize", "addStore"},
           Where(t)', Told(t)', Posting(t)' => Poster(t)', Reading(t)' => Reader(t)',
           a.status = "done" => req[t].op # "add"
    PROVE  IInv'
<1>1. TypeOK
  BY DEF IInv
<1>2. TypeOK'
  BY <1>1, TypeFacts DEF Typed
<1>3. /\ pc'[t] = l /\ loc'[t] = x /\ answer'[t] = a
      /\ \A u \in Threads \ {t} : pc'[u] = pc[u] /\ loc'[u] = loc[u] /\ answer'[u] = answer[u]
  BY <1>1, TypeFacts DEF Typed
<1>4. \A u \in Threads : /\ Posting(u)' => Posting(u)
                         /\ u # t /\ Reading(u)' => Reading(u)
  BY <1>3 DEF Posting, Reading, Running
<1>5. OnePoster'
  <2>1. OnePoster
    BY DEF IInv
  <2>2. ASSUME NEW v \in Threads, NEW w \in Threads, Posting(v)', Posting(w)' PROVE v = w
    <3>1. Posting(v) /\ Posting(w)
      BY <1>4, <2>2
    <3> QED BY <2>1, <3>1 DEF OnePoster
  <2> QED BY <2>2 DEF OnePoster
<1>6. /\ \A o \in Answered : o \in Answered'
      /\ \A u \in Threads : pc[u] \in {"addSize", "clear"} => pc'[u] \in {"addSize", "clear"}
  BY <1>3 DEF Answered, Running
<1>7. Array'
  <2>1. Array
    BY DEF IInv
  <2> QED BY <1>6, <2>1 DEF Array, UpTo
<1>8. Distinct'
  <2>1. Distinct
    BY DEF IInv
  <2>2. \A u \in Threads : pc[u] \in {"shift", "shrink"} =>
            pc'[u] \in {"shift", "shrink"} /\ loc'[u] = loc[u]
    BY <1>3
  <2> QED BY <2>1, <2>2 DEF Distinct
<1>9. IdsCounted'
  BY DEF IInv, IdsCounted, Adders
<1>10. BooksKept'
  <2>1. Listed' = Listed /\ Acknowledged' \subseteq Acknowledged
    BY <1>3 DEF Listed, Acknowledged
  <2>2. \A o \in Acknowledged : o \in Objects
    BY ObjectFacts DEF Acknowledged, Objects
  <2>3. \A o \in Objects : Condemned(o) => Condemned(o)'
    BY CondemnedFacts DEF Condemned, ids
  <2> QED BY <2>1, <2>2, <2>3 DEF IInv, BooksKept
<1>11. ASSUME NEW u \in Threads PROVE Where(u)' /\ Told(u)'
  <2>1. CASE u = t
    BY <2>1
  <2>2. CASE u # t
    <3>1. Where(u) /\ Told(u)
      BY DEF IInv
    <3>2. Where(u)'
      BY <1>3, <1>6, <2>2, <3>1 DEF Where
    <3>3. Told(u)'
      BY <1>3, <2>2, <3>1 DEF Told, UpTo
    <3> QED BY <3>2, <3>3
  <2> QED BY <2>1, <2>2
<1>12. ASSUME NEW u \in Threads, Posting(u)' PROVE Poster(u)'
  <2>1. CASE u = t
    BY <1>12, <2>1
  <2>2. CASE u # t
    <3>1. Posting(u)
      BY <1>4, <1>12
    <3>0. Poster(u)
      BY <3>1 DEF IInv
    <3>2. ~ Posting(t)
      BY <2>2, <3>1 DEF IInv, OnePoster
    <3>3. heap' = heap
      BY <3>2 DEF Posting
    <3> QED BY <1>3, <2>2, <3>0, <3>3 DEF Poster, Newest, Gap
  <2> QED BY <2>1, <2>2
<1>13. ASSUME NEW u \in Threads, Reading(u)' PROVE Reader(u)'
  <2>1. CASE u = t
    BY <1>13, <2>1
  <2>2. CASE u # t
    <3>0. Reading(u)
      BY <1>4, <1>13, <2>2
    <3>1. Reader(u)
      BY <3>0 DEF IInv
    <3> QED BY <1>1, <1>3, <2>2, <3>1, ReaderUntouched
  <2> QED BY <2>1, <2>2
<1> QED BY <1>2, <1>5, <1>7, <1>8, <1>9, <1>10, <1>11, <1>12, <1>13 DEF IInv

\* The same for a POST: what it was asked and told is seen to here.
LEMMA PosterMoves ==
    ASSUME IInv, NEW t \in Threads, Posting(t),
           NEW l \in Labels, NEW x \in Locals, NEW a \in AnswerSet,
           pc' = [pc EXCEPT ![t] = l], loc' = [loc EXCEPT ![t] = x],
           answer' = [answer EXCEPT ![t] = a],
           UNCHANGED <<req, es, size, modCount, before, ids>>,
           heap' \in Heaps, Whole',
           pc[t] \notin {"addSize", "clear", "shift", "shrink"},
           Fits(l, req[t].op), x.mod <= modCount,
           l \in {"size", "lastIndex", "checkIndex", "readLast"} => ids[t] = NoId,
           l \in {"addReadSize", "addStore"} => pc[t] \in {"addReadSize", "addStore"},
           IF l = "answered" THEN a.status = "done" /\ req[t].op # "add" ELSE a = answer[t],
           l # "answered" => Poster(t)'
    PROVE  IInv'
<1>1. Running(t) /\ Post(req[t]) /\ Typed /\ Where(t)
  BY TypeFacts DEF IInv, Posting
<1>2. pc'[t] = l /\ loc'[t] = x /\ answer'[t] = a /\ req'[t] = req[t]
  BY <1>1 DEF Typed
<1>3. l # "idle" /\ req[t].op \in {"add", "change", "remove"}
  BY <1>1 DEF Fits, Post
<1>4. ~ Reading(t)'
  BY <1>1, <1>2 DEF Reading, Post
<1>5. \A o \in Answered : o \in Answered'
  BY <1>1 DEF Answered, Typed, Running
<1>6. Where(t)'
  BY <1>1, <1>2, <1>3, <1>5 DEF Where, Running
<1>7. Told(t)' /\ (a.status = "done" => req[t].op # "add")
  BY <1>1, <1>2, <1>3 DEF Told, Where, Running
<1>8. Posting(t)' => Poster(t)'
  BY <1>2 DEF Posting, Running
<1> QED BY <1>1, <1>3, <1>4, <1>6, <1>7, <1>8, Quiet

\* The same for a request for the list.
LEMMA ReaderMoves ==
    ASSUME IInv, NEW t \in Threads, Reading(t),
           NEW l \in Labels, NEW x \in Locals, NEW a \in AnswerSet,
           pc' = [pc EXCEPT ![t] = l], loc' = [loc EXCEPT ![t] = x],
           answer' = [answer EXCEPT ![t] = a],
           UNCHANGED <<req, es, size, modCount, before, heap>>,
           l \in LoopLabels \union ListLabels \union {"answered", "dead"},
           x.mod <= modCount,
           IF l = "answered" THEN a.status = "list" /\ Told(t)' ELSE a = answer[t],
           l \notin {"answered", "dead"} => Reader(t)'
    PROVE  IInv'
<1>1. Running(t) /\ ~ Post(req[t]) /\ Typed /\ Where(t) /\ Whole
  BY TypeFacts DEF IInv, Reading
<1>2. pc'[t] = l /\ loc'[t] = x /\ answer'[t] = a /\ req'[t] = req[t]
  BY <1>1 DEF Typed
<1>3. req[t].op = "list" /\ pc[t] \in LoopLabels \union ListLabels
  BY <1>1 DEF Where, Fits, Post, Running, Typed, Labels
<1>4. ~ Posting(t)'
  BY <1>1, <1>2 DEF Posting, Post
<1>5. \A o \in Answered : o \in Answered'
  BY <1>1 DEF Answered, Typed, Running
<1>6. Fits(l, "list")
  BY DEF Fits, PostLabels, AddLabels, SetLabels, RemoveLabels, ListLabels, LoopLabels
<1>7. UNCHANGED ids /\ heap' \in Heaps
  BY <1>1 DEF ids, Typed
<1>8. Where(t)'
  BY <1>1, <1>2, <1>3, <1>5, <1>6, <1>7 DEF Where, LoopLabels, ListLabels
<1>9. Told(t)' /\ (a.status = "done" => req[t].op # "add")
  BY <1>1, <1>2, <1>3 DEF Told, Where, Running
<1>10. Reading(t)' => Reader(t)'
  BY <1>2 DEF Reading, Running
<1>11. /\ pc[t] \notin {"addSize", "clear", "shift", "shrink"}
       /\ l # "idle" /\ l \notin {"addReadSize", "addStore"}
  BY <1>3 DEF LoopLabels, ListLabels
<1>12. Whole'
  <2>1. \A u \in Threads : pc[u] \in {"setAuthor", "setYear"} =>
            pc'[u] = pc[u] /\ loc'[u] = loc[u]
    BY <1>1, <1>3 DEF Typed, LoopLabels, ListLabels
  <2>2. \A u \in Threads, o \in Objects : Changing(u, o) => Changing(u, o)'
    BY <2>1 DEF Changing
  <2> QED BY <1>1, <2>2 DEF Whole
<1> QED BY <1>1, <1>4, <1>7, <1>8, <1>9, <1>10, <1>11, <1>12, Quiet

\* A reader that goes on knows what it knew.
LEMMA ReaderGoes ==
    ASSUME Typed, NEW t \in Threads, NEW l \in Labels, NEW x \in Locals,
           pc' = [pc EXCEPT ![t] = l], loc' = [loc EXCEPT ![t] = x],
           UNCHANGED <<es, size, modCount, before, ids>>,
           x.mod = loc[t].mod, x.i >= loc[t].i, l \notin {"addReadSize", "addStore"}
    PROVE  /\ \A o \in Objects : Precedes(t, o) => Precedes(t, o)'
           /\ \A o \in Objects : (Late(t, o) => Late(t, o)') /\ (Late(t, o)' => Late(t, o))
           /\ \A p \in Ahead(t)' : p \in Ahead(t)
           /\ \A o, u \in Objects : UpTo(o, u) => UpTo(o, u)'
<1>1. loc'[t] = x /\ \A w \in Threads : pc'[w] \in {"addReadSize", "addStore"} => pc'[w] = pc[w]
  BY DEF Typed
<1>2. \A o \in Objects : (Late(t, o) => Late(t, o)') /\ (Late(t, o)' => Late(t, o))
  BY <1>1 DEF Late, Disturbed
<1>3. \A p \in Ahead(t)' : p \in Ahead(t)
  <2> SUFFICES ASSUME NEW p \in Ahead(t)' PROVE p \in Ahead(t)
    OBVIOUS
  <2>1. p \in Places /\ p >= x.i /\ es[p] # Null /\ ~ Late(t, es[p])'
    BY <1>1 DEF Ahead, Late, Disturbed
  <2>2. es[p] \in Objects
    BY <2>1 DEF Typed, Fields
  <2>3. p \in Int
    BY <2>1, CapacityFacts DEF Places
  <2>4. loc[t] \in Locals
    BY DEF Typed
  <2>5. x.i \in Int /\ loc[t].i \in Int
    BY <2>4, CapacityFacts DEF Locals, Places
  <2> QED BY <1>2, <2>1, <2>2, <2>3, <2>5 DEF Ahead
<1>4. \A o, u \in Objects : UpTo(o, u) => UpTo(o, u)'
  BY DEF UpTo
<1>5. \A o \in Objects : Precedes(t, o) => Precedes(t, o)'
  BY <1>1, <1>3 DEF Precedes, UpTo, Disturbed
<1> QED BY <1>2, <1>3, <1>4, <1>5

\* Only a change of its fields makes a book less than whole.
LEMMA WholeKept ==
    ASSUME Typed, Whole, NEW t \in Threads, pc[t] \notin {"setAuthor", "setYear"}, UNCHANGED heap,
           \A u \in Threads \ {t} : pc'[u] = pc[u] /\ loc'[u] = loc[u]
    PROVE  Whole'
<1>1. \A u \in Threads, o \in Objects : Changing(u, o) => Changing(u, o)'
  BY DEF Changing
<1> QED BY <1>1 DEF Whole

\* A thread in the loop is a POST, or a request for the list.
LEMMA LoopFacts ==
    ASSUME IInv, NEW t \in Threads, pc[t] \in LoopLabels \union ListLabels
    PROVE  /\ Typed /\ Whole /\ Running(t) /\ loc[t] \in Locals /\ loc[t].mod <= modCount
           /\ size \in 0 .. Capacity /\ answer[t] \in AnswerSet
           /\ answer = [answer EXCEPT ![t] = answer[t]] /\ loc = [loc EXCEPT ![t] = loc[t]]
           /\ Posting(t) => Poster(t) /\ ~ Reading(t) /\ req[t].op \in {"change", "remove"}
           /\ ~ Posting(t) => Reading(t) /\ Reader(t) /\ req[t].op = "list"
           /\ pc[t] \in ListLabels => ~ Posting(t)
<1>1. Typed /\ Whole /\ Where(t) /\ Running(t)
  BY TypeFacts DEF IInv, LoopLabels, ListLabels, Running
<1>0. /\ size \in 0 .. Capacity /\ answer[t] \in AnswerSet
      /\ answer = [answer EXCEPT ![t] = answer[t]] /\ loc = [loc EXCEPT ![t] = loc[t]]
  BY <1>1 DEF IInv, Array, Typed
<1>2. loc[t] \in Locals /\ loc[t].mod <= modCount /\ req[t].op \in {"change", "remove", "list"}
  BY <1>1 DEF Typed, Where, Fits
<1>3. pc[t] \in ListLabels => req[t].op = "list"
  BY <1>1 DEF Where, Fits
<1>4. CASE Posting(t)
  BY <1>0, <1>1, <1>2, <1>3, <1>4 DEF IInv, Posting, Reading, Post
<1>5. CASE ~ Posting(t)
  BY <1>0, <1>1, <1>2, <1>3, <1>5 DEF IInv, Posting, Reading, Post
<1> QED BY <1>0, <1>1, <1>2, <1>4, <1>5

\* What the places of the labels say of each other.
LEMMA LoopFits ==
    /\ \A op \in {"change", "remove", "list"} : \A l \in LoopLabels \union {"answered"} : Fits(l, op)
    /\ LoopLabels \subseteq Labels /\ ListLabels \subseteq Labels /\ PostLabels \subseteq Labels
    /\ "answered" \in Labels /\ "dead" \in Labels
BY DEF Fits, PostLabels, AddLabels, SetLabels, RemoveLabels, ListLabels, LoopLabels, Labels

\* A reader that goes on in the loop with what it has read, and looks at
\* modCount where it should.
LEMMA ReaderSame ==
    ASSUME Typed, size \in 0 .. Capacity, NEW t \in Threads, Reader(t),
           NEW l \in LoopLabels \ {"iterator"}, NEW x \in Locals,
           pc' = [pc EXCEPT ![t] = l], loc' = [loc EXCEPT ![t] = x],
           UNCHANGED <<es, size, modCount, before, ids>>,
           x.mod = loc[t].mod, x.i >= loc[t].i, x.out = loc[t].out,
           \/ pc[t] \in {"checkSize", "fetch"}
           \/ ~ Disturbed(t)
           \/ l \notin {"checkSize", "fetch"},
           l = "fetch" => x.i < size
    PROVE  Reader(t)'
<1> DEFINE out == loc[t].out
<1>1. pc'[t] = l /\ loc'[t] = x /\ l \in Labels
  BY LoopFits DEF Typed
<1>2. out \in Seq(ReadBooks) /\ \A k \in Named(out) : out[k].book \in Objects
  <2>1. out \in Seq(ReadBooks)
    BY DEF Typed, Locals
  <2> QED BY <2>1, BooksNamed
<1>3. /\ \A o \in Objects : Precedes(t, o) => Precedes(t, o)'
      /\ \A o \in Objects : Late(t, o) => Late(t, o)'
      /\ \A o, u \in Objects : UpTo(o, u) => UpTo(o, u)'
  BY <1>1, ReaderGoes DEF LoopLabels
<1>4. \A k \in Named(out) : Precedes(t, out[k].book)'
  BY <1>2, <1>3 DEF Reader
<1>5. ASSUME NEW j \in Named(out), NEW k \in Named(out), j < k
      PROVE  \/ UpTo(out[j].book, out[k].book)'
             \/ k = Len(out) /\ Late(t, out[k].book)' /\ l \notin {"checkSize", "fetch", "readName"}
  <2>1. \/ UpTo(out[j].book, out[k].book)
        \/ /\ k = Len(out) /\ Late(t, out[k].book)
           /\ pc[t] \notin {"checkSize", "fetch", "readName"}
    BY <1>5 DEF Reader
  <2>2. Late(t, out[k].book) => Disturbed(t)
    BY DEF Late
  <2> QED BY <1>2, <1>3, <2>1, <2>2 DEF LoopLabels
<1>6. NoneGone(t)'
  <2>1. x.i \in 0 .. Capacity /\ NoneGone(t)
    BY DEF Locals, Reader
  <2> QED BY <1>1, <2>1 DEF NoneGone
<1>7. l = "fetch" => x.i < Capacity
  BY CapacityFacts DEF Locals
<1> QED BY <1>1, <1>4, <1>5, <1>6, <1>7 DEF Reader, LoopLabels

LEMMA NoLocalsType ==
    NoLocals \in Locals /\ (modCount \in Nat => NoLocals.mod <= modCount) /\ "answered" \in Labels
BY LoopFits, CapacityFacts, ObjectFacts DEF NoLocals, Locals

\* A thread that changes the list is a POST, and the only one.
LEMMA PosterFacts ==
    ASSUME IInv, NEW t \in Threads, pc[t] \in PostLabels
    PROVE  /\ Posting(t) /\ Poster(t) /\ ~ Reading(t) /\ Running(t) /\ Where(t)
           /\ req[t].op \in {"add", "change", "remove"}
           /\ \A u \in Threads : u # t => ~ Posting(u)
<1>1. Where(t) /\ Running(t)
  BY DEF IInv, PostLabels, Running
<1>2. req[t].op \in {"add", "change", "remove"}
  BY <1>1 DEF Where, Fits
<1>3. Posting(t) /\ ~ Reading(t)
  BY <1>1, <1>2 DEF Posting, Reading, Post
<1>4. Poster(t)
  BY <1>3 DEF IInv
<1>5. \A u \in Threads : u # t => ~ Posting(u)
  BY <1>3 DEF IInv, OnePoster
<1> QED BY <1>1, <1>2, <1>3, <1>4, <1>5

\* While a book is on its way the array holds what is listed, all before it.
LEMMA AddFacts ==
    ASSUME IInv, NEW w \in Threads, pc[w] \in AddLabels
    PROVE  \A k \in Places : es[k] # Null => k < size /\ ids[es[k]] < ids[w]
<1>1. Posting(w) /\ Poster(w) /\ \A u \in Threads : u # w => ~ Posting(u)
  BY PosterFacts DEF AddLabels, PostLabels
<1>2. Newest(w) /\ Array /\ size \in Int
  BY <1>1 DEF Poster, IInv, Array
<1>3. \A u \in Threads : pc[u] \notin {"addSize", "clear"}
  BY <1>1, PosterFacts DEF AddLabels, PostLabels
<1>4. \A k \in Places : k \in Int
  BY CapacityFacts DEF Places
<1> QED BY <1>2, <1>3, <1>4 DEF Newest, Array

-----------------------------------------------------------------------------
(* The loop.                                                               *)

LEMMA IteratorInv == ASSUME IInv, NEW t \in Threads, Iterator(t) PROVE IInv'
<1> DEFINE x == [loc[t] EXCEPT !.i = 0, !.mod = modCount]
<1>1. /\ pc[t] = "iterator" /\ pc' = [pc EXCEPT ![t] = "hasNext"]
      /\ UNCHANGED <<req, answer, heap, es, size, modCount, before>>
  BY DEF Iterator, Go, list
<1>2. /\ Typed /\ loc[t] \in Locals /\ modCount \in Nat /\ size \in 0 .. Capacity
      /\ answer[t] \in AnswerSet /\ heap \in Heaps /\ "iterator" \in LoopLabels
  BY <1>1, TypeFacts DEF IInv, Array, Typed, LoopLabels
<1>3. /\ x \in Locals /\ x.mod = modCount /\ x.mod <= modCount
      /\ loc' = [loc EXCEPT ![t] = x] /\ answer' = [answer EXCEPT ![t] = answer[t]]
  <2>1. x \in Locals /\ x.mod = modCount /\ x.mod <= modCount
    <3>1. 0 \in 0 .. Capacity /\ 0 \in -Capacity .. Capacity /\ Null \in Fields /\ << >> \in Seq(ReadBooks)
      BY CapacityFacts, ObjectFacts
    <3>2. x \in Locals
      BY <1>2, <3>1, LocalsTwice
    <3>3. x.mod = modCount
      BY <1>2 DEF Locals
    <3> QED BY <1>2, <3>2, <3>3
  <2>2. loc' = [loc EXCEPT ![t] = x]
    BY <1>1 DEF Iterator
  <2>3. answer' = [answer EXCEPT ![t] = answer[t]]
    BY <1>1, <1>2 DEF Typed
  <2> QED BY <2>1, <2>2, <2>3
<1>4. loc'[t] = x /\ pc'[t] = "hasNext" /\ UNCHANGED ids
  BY <1>1, <1>2, <1>3 DEF Typed, ids
<1>5. CASE Posting(t)
  <2>1. req[t].op \in {"change", "remove"}
    BY <1>1, <1>2, <1>5, LoopFacts
  <2>2. Poster(t)'
    BY <1>1, <1>2, <1>4 DEF Poster, AddLabels, SetLabels, RemoveLabels
  <2>3. Whole'
    BY <1>1, <1>2, <1>3, WholeKept DEF IInv, Typed
  <2>4. Fits("hasNext", req[t].op) /\ "hasNext" \in Labels
    BY <2>1, LoopFits DEF LoopLabels
  <2> HIDE DEF x
  <2> QED BY <1>1, <1>2, <1>3, <1>4, <1>5, <2>2, <2>3, <2>4, PosterMoves
<1>6. CASE ~ Posting(t)
  <2>1. Reading(t) /\ Reader(t) /\ loc[t].out = << >>
    BY <1>1, <1>2, <1>6, LoopFacts DEF Reader
  <2>2. Named(loc[t].out) = {}
    BY <2>1 DEF Named
  <2>3. Reader(t)'
    BY <1>1, <1>2, <1>4, <2>1, <2>2 DEF Reader, NoneGone
  <2> QED BY <1>1, <1>2, <1>3, <1>4, <2>1, <2>3, ReaderMoves DEF LoopLabels, Labels
<1> QED BY <1>5, <1>6

LEMMA HasNextInv == ASSUME IInv, NEW t \in Threads, HasNext(t) PROVE IInv'
<1>1. /\ pc[t] = "hasNext" /\ UNCHANGED <<req, heap, es, size, modCount, before, ids>>
      /\ modCount \in Nat /\ heap \in Heaps
  BY TypeFacts DEF HasNext, list, ids, IInv, Typed
<1>2. /\ Typed /\ Whole /\ loc[t] \in Locals /\ loc[t].mod <= modCount
      /\ size \in 0 .. Capacity /\ answer[t] \in AnswerSet
      /\ answer = [answer EXCEPT ![t] = answer[t]] /\ loc = [loc EXCEPT ![t] = loc[t]]
      /\ Posting(t) => Poster(t) /\ req[t].op \in {"change", "remove"}
      /\ ~ Posting(t) => Reading(t) /\ Reader(t) /\ req[t].op = "list"
  BY <1>1, LoopFacts DEF LoopLabels
<1>3. ASSUME Posting(t) PROVE Fits("checkMod", req[t].op) /\ Fits("answered", req[t].op)
  BY <1>2, <1>3, LoopFits DEF LoopLabels
<1>4. CASE loc[t].i # size
  <2>1. /\ pc' = [pc EXCEPT ![t] = "checkMod"] /\ UNCHANGED <<loc, answer>>
        /\ loc' = [loc EXCEPT ![t] = loc[t]] /\ answer' = [answer EXCEPT ![t] = answer[t]]
    BY <1>2, <1>4 DEF HasNext, Go
  <2>2. pc'[t] = "checkMod" /\ loc'[t] = loc[t] /\ "checkMod" \in Labels /\ "checkMod" \in LoopLabels
    BY <1>2, <2>1, LoopFits DEF Typed, LoopLabels
  <2>3. CASE Posting(t)
    <3>1. loc[t].i < size /\ loc[t].mod = modCount
      BY <1>1, <1>2, <1>4, <2>3 DEF Poster, Locals
    <3>2. Poster(t)'
      BY <1>1, <2>2, <3>1 DEF Poster, AddLabels, SetLabels, RemoveLabels
    <3>3. Whole'
      BY <1>1, <1>2, <2>1, WholeKept DEF Typed
    <3> QED BY <1>1, <1>2, <1>3, <2>1, <2>2, <2>3, <3>2, <3>3, PosterMoves
  <2>4. CASE ~ Posting(t)
    <3>1. loc[t].i >= loc[t].i /\ loc[t].mod = loc[t].mod /\ loc[t].out = loc[t].out
      BY <1>2, CapacityFacts DEF Locals
    <3>2. Reader(t)'
      BY <1>1, <1>2, <2>1, <2>2, <2>4, <3>1, ReaderSame
    <3> QED BY <1>1, <1>2, <2>1, <2>2, <2>4, <3>2, ReaderMoves
  <2> QED BY <2>3, <2>4
<1>5. CASE loc[t].i = size /\ Posting(t)
  <2> DEFINE a == [status |-> "done", books |-> << >>]
  <2>1. /\ pc' = [pc EXCEPT ![t] = "answered"] /\ loc' = [loc EXCEPT ![t] = NoLocals]
        /\ answer' = [answer EXCEPT ![t] = a] /\ a \in AnswerSet /\ a.status = "done"
    BY <1>2, <1>5 DEF HasNext, Done, Reply, Go, AnswerSet
  <2>2. Whole'
    BY <1>1, <1>2, <2>1, WholeKept DEF Typed
  <2> HIDE DEF a
  <2> QED BY <1>1, <1>2, <1>3, <1>5, <2>1, <2>2, NoLocalsType, PosterMoves
<1>6. CASE loc[t].i = size /\ ~ Posting(t)
  <2> DEFINE out == loc[t].out
             a == [status |-> "list", books |-> out]
  <2>1. /\ pc' = [pc EXCEPT ![t] = "answered"] /\ loc' = [loc EXCEPT ![t] = NoLocals]
        /\ answer' = [answer EXCEPT ![t] = a] /\ a \in AnswerSet /\ a.status = "list"
    BY <1>2, <1>6 DEF HasNext, Reply, Go, AnswerSet, Locals
  <2>2. answer'[t].books = out
    BY <1>2, <2>1 DEF Typed
  <2>3. \A k \in Named(out) : ids[out[k].book] >= 0 /\ out[k].book \notin before[t].gone
    BY <1>2, <1>6 DEF Reader, Precedes
  <2>4. \A j, k \in Named(out) : j < k =>
            UpTo(out[j].book, out[k].book) \/ (k = Len(out) /\ out[k].book \notin before[t].listed)
    BY <1>2, <1>6 DEF Reader, Late
  <2>5. Told(t)'
    BY <1>1, <2>2, <2>3, <2>4 DEF Told, UpTo
  <2> HIDE DEF a
  <2> QED BY <1>1, <1>2, <1>6, <2>1, <2>5, NoLocalsType, ReaderMoves
<1> QED BY <1>4, <1>5, <1>6

LEMMA CheckModInv == ASSUME IInv, NEW t \in Threads, CheckMod(t) PROVE IInv'
<1>1. /\ pc[t] = "checkMod" /\ UNCHANGED <<req, heap, es, size, modCount, before, ids>>
      /\ modCount \in Nat /\ heap \in Heaps
  BY TypeFacts DEF CheckMod, list, ids, IInv, Typed
<1>2. /\ Typed /\ Whole /\ loc[t] \in Locals /\ loc[t].mod <= modCount
      /\ size \in 0 .. Capacity /\ answer[t] \in AnswerSet
      /\ answer = [answer EXCEPT ![t] = answer[t]] /\ loc = [loc EXCEPT ![t] = loc[t]]
      /\ Posting(t) => Poster(t) /\ req[t].op \in {"change", "remove"}
      /\ ~ Posting(t) => Reading(t) /\ Reader(t) /\ req[t].op = "list"
  BY <1>1, LoopFacts DEF LoopLabels
<1>3. CASE Posting(t)
  <2>1. /\ pc' = [pc EXCEPT ![t] = "checkSize"] /\ UNCHANGED <<loc, answer>>
        /\ loc[t].i < size /\ loc[t].mod = modCount
    BY <1>1, <1>2, <1>3 DEF CheckMod, Go, Poster
  <2>2. pc'[t] = "checkSize" /\ loc'[t] = loc[t] /\ "checkSize" \in Labels
    BY <1>2, <2>1, LoopFits DEF Typed, LoopLabels
  <2>3. Poster(t)'
    BY <1>1, <2>1, <2>2 DEF Poster, AddLabels, SetLabels, RemoveLabels
  <2>4. Whole'
    BY <1>1, <1>2, <2>1, WholeKept DEF Typed
  <2>5. Fits("checkSize", req[t].op)
    BY <1>2, <1>3, LoopFits DEF LoopLabels
  <2> QED BY <1>1, <1>2, <1>3, <2>1, <2>2, <2>3, <2>4, <2>5, PosterMoves
<1>4. CASE ~ Posting(t) /\ modCount = loc[t].mod
  <2>1. /\ pc' = [pc EXCEPT ![t] = "checkSize"] /\ UNCHANGED <<loc, answer>>
        /\ loc' = [loc EXCEPT ![t] = loc[t]] /\ answer' = [answer EXCEPT ![t] = answer[t]]
    BY <1>2, <1>4 DEF CheckMod, Go
  <2>2. "checkSize" \in Labels /\ "checkSize" \in LoopLabels
    BY LoopFits DEF LoopLabels
  <2>3. loc[t].i >= loc[t].i /\ loc[t].mod = loc[t].mod /\ loc[t].out = loc[t].out
    BY <1>2, CapacityFacts DEF Locals
  <2>4. Reader(t)'
    BY <1>1, <1>2, <1>4, <2>1, <2>2, <2>3, ReaderSame DEF Disturbed
  <2> QED BY <1>1, <1>2, <1>4, <2>1, <2>2, <2>4, ReaderMoves
<1>5. CASE ~ Posting(t) /\ ~ (modCount = loc[t].mod)
  <2>1. /\ pc' = [pc EXCEPT ![t] = "dead"] /\ loc' = [loc EXCEPT ![t] = NoLocals]
        /\ answer' = [answer EXCEPT ![t] = answer[t]]
    BY <1>2, <1>5 DEF CheckMod, Die, Go
  <2> QED BY <1>1, <1>2, <1>5, <2>1, NoLocalsType, LoopFits, ReaderMoves
<1> QED BY <1>3, <1>4, <1>5

LEMMA CheckSizeInv == ASSUME IInv, NEW t \in Threads, CheckSize(t) PROVE IInv'
<1>1. /\ pc[t] = "checkSize" /\ UNCHANGED <<req, heap, es, size, modCount, before, ids>>
      /\ modCount \in Nat /\ heap \in Heaps
  BY TypeFacts DEF CheckSize, list, ids, IInv, Typed
<1>2. /\ Typed /\ Whole /\ loc[t] \in Locals /\ loc[t].mod <= modCount
      /\ size \in 0 .. Capacity /\ answer[t] \in AnswerSet
      /\ answer = [answer EXCEPT ![t] = answer[t]] /\ loc = [loc EXCEPT ![t] = loc[t]]
      /\ Posting(t) => Poster(t) /\ req[t].op \in {"change", "remove"}
      /\ ~ Posting(t) => Reading(t) /\ Reader(t) /\ req[t].op = "list"
  BY <1>1, LoopFacts DEF LoopLabels
<1>3. CASE Posting(t)
  <2>1. /\ pc' = [pc EXCEPT ![t] = "fetch"] /\ UNCHANGED <<loc, answer>>
        /\ loc[t].i < size /\ loc[t].mod = modCount
    BY <1>1, <1>2, <1>3 DEF CheckSize, Go, Poster
  <2>2. pc'[t] = "fetch" /\ loc'[t] = loc[t] /\ "fetch" \in Labels
    BY <1>2, <2>1, LoopFits DEF Typed, LoopLabels
  <2>3. Poster(t)'
    BY <1>1, <2>1, <2>2 DEF Poster, AddLabels, SetLabels, RemoveLabels
  <2>4. Whole'
    BY <1>1, <1>2, <2>1, WholeKept DEF Typed
  <2>5. Fits("fetch", req[t].op)
    BY <1>2, <1>3, LoopFits DEF LoopLabels
  <2> QED BY <1>1, <1>2, <1>3, <2>1, <2>2, <2>3, <2>4, <2>5, PosterMoves
<1>4. CASE ~ Posting(t) /\ loc[t].i < size
  <2>1. /\ pc' = [pc EXCEPT ![t] = "fetch"] /\ UNCHANGED <<loc, answer>>
        /\ loc' = [loc EXCEPT ![t] = loc[t]] /\ answer' = [answer EXCEPT ![t] = answer[t]]
    BY <1>2, <1>4 DEF CheckSize, Go
  <2>2. "fetch" \in Labels /\ "fetch" \in LoopLabels
    BY LoopFits DEF LoopLabels
  <2>3. loc[t].i >= loc[t].i /\ loc[t].mod = loc[t].mod /\ loc[t].out = loc[t].out
    BY <1>2, CapacityFacts DEF Locals
  <2>4. Reader(t)'
    BY <1>1, <1>2, <1>4, <2>1, <2>2, <2>3, ReaderSame
  <2> QED BY <1>1, <1>2, <1>4, <2>1, <2>2, <2>4, ReaderMoves
<1>5. CASE ~ Posting(t) /\ ~ (loc[t].i < size)
  <2>1. /\ pc' = [pc EXCEPT ![t] = "dead"] /\ loc' = [loc EXCEPT ![t] = NoLocals]
        /\ answer' = [answer EXCEPT ![t] = answer[t]]
    BY <1>2, <1>5 DEF CheckSize, Die, Go
  <2> QED BY <1>1, <1>2, <1>5, <2>1, NoLocalsType, LoopFits, ReaderMoves
<1> QED BY <1>3, <1>4, <1>5

\* A POST finds its book, or goes on.
LEMMA FetchPosted == ASSUME IInv, NEW t \in Threads, Fetch(t), Posting(t) PROVE IInv'
<1> DEFINE i == loc[t].i
           b == es[i]
<1>1. /\ pc[t] = "fetch" /\ UNCHANGED <<req, heap, es, size, modCount, before, ids>>
      /\ modCount \in Nat /\ heap \in Heaps
  BY TypeFacts DEF Fetch, list, ids, IInv, Typed
<1>2. /\ Typed /\ Whole /\ loc[t] \in Locals /\ loc[t].mod <= modCount
      /\ size \in 0 .. Capacity /\ answer[t] \in AnswerSet
      /\ answer = [answer EXCEPT ![t] = answer[t]]
      /\ Poster(t) /\ req[t].op \in {"change", "remove"}
  BY <1>1, LoopFacts DEF LoopLabels
<1>3. i < size /\ loc[t].mod = modCount /\ i \in Places /\ i + 1 \in 0 .. Capacity /\ i + 1 <= size
  <2>1. i < size /\ loc[t].mod = modCount /\ i \in 0 .. Capacity
    BY <1>1, <1>2 DEF Poster, Locals
  <2> QED BY <1>2, <2>1, CapacityFacts DEF Places
<1>4. b \in Objects /\ b # Null /\ heap[b].id = ids[b]
  <2>1. b \in Answered
    BY <1>3 DEF IInv, Array
  <2> QED BY <2>1, ObjectFacts DEF Answered, ids
<1>5. CASE heap[b].id # req[t].id
  <2> DEFINE x == [loc[t] EXCEPT !.i = i + 1]
  <2>1. /\ pc' = [pc EXCEPT ![t] = "hasNext"] /\ loc' = [loc EXCEPT ![t] = x]
        /\ answer' = [answer EXCEPT ![t] = answer[t]]
    BY <1>2, <1>4, <1>5 DEF Fetch, Go
  <2>2. x \in Locals /\ x.i = i + 1 /\ x.mod = modCount
    BY <1>2, <1>3, CapacityFacts DEF Locals
  <2> HIDE DEF x
  <2>3. pc'[t] = "hasNext" /\ loc'[t] = x /\ "hasNext" \in Labels /\ Fits("hasNext", req[t].op)
    BY <1>2, <2>1, LoopFits DEF Typed, LoopLabels
  <2>4. Poster(t)'
    BY <1>1, <1>3, <2>2, <2>3 DEF Poster, AddLabels, SetLabels, RemoveLabels
  <2>5. Whole' /\ x.mod <= modCount
    BY <1>1, <1>2, <2>1, <2>2, WholeKept DEF Typed
  <2> QED BY <1>1, <1>2, <2>1, <2>2, <2>3, <2>4, <2>5, PosterMoves
<1>6. CASE heap[b].id = req[t].id
  <2> DEFINE x == [[loc[t] EXCEPT !.i = i + 1] EXCEPT !.cur = b]
  <2>1. PICK l \in {"removeReadSize", "setName"} :
           /\ l = IF req[t].op = "remove" THEN "removeReadSize" ELSE "setName"
           /\ pc' = [pc EXCEPT ![t] = l]
    BY <1>2, <1>4, <1>6 DEF Fetch, Go
  <2>2. loc' = [loc EXCEPT ![t] = x] /\ answer' = [answer EXCEPT ![t] = answer[t]]
    BY <1>2, <1>4, <1>6 DEF Fetch
  <2>3. x \in Locals /\ x.cur = b /\ x.mod = modCount
    <3>1. PICK y : y = [loc[t] EXCEPT !.i = i + 1]
      OBVIOUS
    <3>2. y \in Locals /\ y.mod = modCount /\ b \in Fields
      BY <1>2, <1>3, <1>4, <3>1, ObjectFacts DEF Locals
    <3>3. [y EXCEPT !.cur = b] \in Locals /\ [y EXCEPT !.cur = b].cur = b
          /\ [y EXCEPT !.cur = b].mod = modCount
      BY <3>2 DEF Locals
    <3> QED BY <3>1, <3>3
  <2> HIDE DEF x
  <2>4. /\ pc'[t] = l /\ loc'[t] = x /\ l \in Labels
        /\ Fits(l, req[t].op)
    BY <1>2, <2>1, <2>2
       DEF Typed, Labels, Fits, PostLabels, AddLabels, SetLabels, RemoveLabels, ListLabels, LoopLabels
  <2>5. Poster(t)'
    BY <1>1, <1>3, <1>4, <1>6, <2>1, <2>3, <2>4 DEF Poster, AddLabels, SetLabels, RemoveLabels
  <2>6. Whole' /\ x.mod <= modCount
    BY <1>1, <1>2, <2>1, <2>2, <2>3, WholeKept DEF Typed
  <2> QED BY <1>1, <1>2, <2>1, <2>2, <2>3, <2>4, <2>5, <2>6, PosterMoves
<1> QED BY <1>5, <1>6

\* An answer in the making grows by one.
LEMMA NamedGrows ==
    ASSUME NEW r \in Seq(ReadBooks), NEW e \in ReadBooks
    PROVE  /\ Append(r, e) \in Seq(ReadBooks) /\ Len(Append(r, e)) = Len(r) + 1
           /\ Append(r, e)[Len(r) + 1] = e
           /\ \A k \in Named(r) : /\ k \in 1 .. Len(r) /\ k # Len(r) + 1
                                  /\ Append(r, e)[k] = r[k]
           /\ \A k \in Named(Append(r, e)) :
                  k \in Named(r) \/ (k = Len(r) + 1 /\ e.book # Null)
<1>1. /\ Append(r, e) \in Seq(ReadBooks) /\ Len(Append(r, e)) = Len(r) + 1
      /\ Append(r, e)[Len(r) + 1] = e
      /\ \A k \in 1 .. Len(r) : k # Len(r) + 1 /\ Append(r, e)[k] = r[k]
  OBVIOUS
<1>2. \A k \in 1 .. Len(r) + 1 : k \in 1 .. Len(r) \/ k = Len(r) + 1
  OBVIOUS
<1> QED BY <1>1, <1>2 DEF Named

\* A reader takes the next book, or a null; what it knows of the book is what it
\* knew of the places before it, and what the array says of its own.
LEMMA FetchRead == ASSUME IInv, NEW t \in Threads, Fetch(t), ~ Posting(t) PROVE IInv'
<1> PICK i, b, out : i = loc[t].i /\ b = es[i] /\ out = loc[t].out
  OBVIOUS
<1>1. /\ pc[t] = "fetch" /\ UNCHANGED <<req, heap, es, size, modCount, before, ids>>
      /\ modCount \in Nat /\ heap \in Heaps
  BY TypeFacts DEF Fetch, list, ids, IInv, Typed
<1>2. /\ Typed /\ Whole /\ loc[t] \in Locals /\ loc[t].mod <= modCount
      /\ size \in 0 .. Capacity /\ answer[t] \in AnswerSet
      /\ answer = [answer EXCEPT ![t] = answer[t]]
      /\ Reading(t) /\ Reader(t) /\ req[t].op = "list" /\ Array
  BY <1>1, LoopFacts DEF LoopLabels, IInv
<1>3. i \in Places /\ i + 1 \in 0 .. Capacity /\ i + 1 > i /\ out \in Seq(ReadBooks)
  <2>1. i < Capacity /\ i \in 0 .. Capacity /\ out \in Seq(ReadBooks)
    BY <1>1, <1>2 DEF Reader, Locals
  <2> QED BY <1>2, <2>1, CapacityFacts DEF Places
<1>4. \A k \in Named(out) : k \in 1 .. Len(out) /\ out[k].book \in Objects
  BY <1>3, BooksNamed
<1>5. \A j, k \in Named(out) : j < k => UpTo(out[j].book, out[k].book)
  BY <1>1, <1>2 DEF Reader
<1>6. CASE b # Null
  <2> DEFINE x == [[loc[t] EXCEPT !.i = i + 1] EXCEPT !.cur = b]
  <2>1. /\ pc' = [pc EXCEPT ![t] = "readName"] /\ loc' = [loc EXCEPT ![t] = x]
        /\ answer' = [answer EXCEPT ![t] = answer[t]] /\ "readName" \in Labels
    BY <1>2, <1>6, LoopFits DEF Fetch, Go, ListLabels
  <2>2. b \in Objects
    BY <1>2, <1>3, <1>6 DEF Typed, Fields
  <2>3. x \in Locals /\ x.cur = b /\ x.mod = loc[t].mod /\ x.i = i + 1 /\ x.out = out
    <3>1. PICK y : y = [loc[t] EXCEPT !.i = i + 1]
      OBVIOUS
    <3>2. /\ y \in Locals /\ y.mod = loc[t].mod /\ y.i = i + 1 /\ y.out = out /\ b \in Fields
      BY <1>2, <1>3, <2>2, <3>1, ObjectFacts DEF Locals
    <3>3. /\ [y EXCEPT !.cur = b] \in Locals /\ [y EXCEPT !.cur = b].cur = b
          /\ [y EXCEPT !.cur = b].mod = y.mod /\ [y EXCEPT !.cur = b].i = y.i
          /\ [y EXCEPT !.cur = b].out = y.out
      BY <3>2 DEF Locals
    <3> QED BY <3>1, <3>2, <3>3
  <2> HIDE DEF x
  <2>4. pc'[t] = "readName" /\ loc'[t] = x
    BY <1>2, <2>1 DEF Typed
  <2>5. /\ \A o \in Objects : Precedes(t, o) => Precedes(t, o)'
        /\ \A o \in Objects : Late(t, o) => Late(t, o)'
        /\ \A p \in Ahead(t)' : p \in Ahead(t)
        /\ \A o, u \in Objects : UpTo(o, u) => UpTo(o, u)'
    <3>1. x.i >= loc[t].i
      BY <1>3, <2>3, CapacityFacts DEF Places
    <3> QED BY <1>1, <1>2, <2>1, <2>3, <3>1, ReaderGoes
  <2>6. Precedes(t, b)'
    <3>1. ids[b] >= 0
      <4>1. ids[b] >= i /\ i >= 0 /\ i \in Int
        BY <1>2, <1>3, <1>6, CapacityFacts DEF Array, Places
      <4>2. ids[b] \in Int
        BY <1>2, <2>2, IdsType, TypeFacts, CapacityFacts DEF NoId
      <4> QED BY <4>1, <4>2
    <3>2. b \notin before[t].gone
      BY <1>1, <1>2, <1>3 DEF Reader, NoneGone
    <3>3. \A p \in Ahead(t)' : UpTo(b, es[p])'
      <4> SUFFICES ASSUME NEW p \in Ahead(t)' PROVE UpTo(b, es[p])'
        OBVIOUS
      <4>1. p \in Places /\ p >= i + 1 /\ es[p] # Null
        BY <1>1, <2>3, <2>4 DEF Ahead
      <4>2. i < p
        BY <1>3, <4>1, CapacityFacts DEF Places
      <4>3. UpTo(b, es[p])
        BY <1>2, <1>3, <1>6, <4>1, <4>2 DEF Array
      <4> QED BY <1>1, <4>3 DEF UpTo
    <3>4. \A w \in Threads : pc'[w] \in {"addReadSize", "addStore"} => ids[b] < ids[w]
      <4> SUFFICES ASSUME NEW w \in Threads, pc'[w] \in {"addReadSize", "addStore"}
                   PROVE  ids[b] < ids[w]
        OBVIOUS
      <4>1. pc[w] \in AddLabels
        BY <1>2, <2>1, <2>4 DEF Typed, AddLabels
      <4> QED BY <1>3, <1>6, <4>1, AddFacts
    <3> QED BY <1>1, <3>1, <3>2, <3>3, <3>4 DEF Precedes, UpTo
  <2>7. \A k \in Named(out) : UpTo(out[k].book, b)' \/ Late(t, b)'
    <3> SUFFICES ASSUME NEW k \in Named(out), ~ Late(t, b)
                 PROVE  UpTo(out[k].book, b)
      BY <1>4, <2>2, <2>5
    <3>1. i \in Ahead(t)
      BY <1>3, <1>6 DEF Ahead, Places
    <3> QED BY <1>2, <3>1 DEF Reader, Precedes
  <2>8. NoneGone(t)'
    <3>1. NoneGone(t)
      BY <1>2 DEF Reader
    <3> QED BY <1>1, <2>4, <3>1 DEF NoneGone
  <2>9. Reader(t)'
    <3>1. \A k \in Named(out) : Precedes(t, out[k].book)'
      BY <1>2, <1>4, <2>5 DEF Reader
    <3>2. \A j, k \in Named(out) : j < k => UpTo(out[j].book, out[k].book)'
      BY <1>4, <1>5, <2>5
    <3> QED BY <2>2, <2>3, <2>4, <2>6, <2>7, <2>8, <3>1, <3>2 DEF Reader
  <2> QED BY <1>1, <1>2, <2>1, <2>3, <2>9, ReaderMoves DEF ListLabels
<1>7. CASE b = Null
  <2> DEFINE e == [book |-> Null, name |-> Null, author |-> Null, year |-> Null]
             x == [[loc[t] EXCEPT !.i = i + 1] EXCEPT !.out = Append(out, e)]
  <2>1. /\ pc' = [pc EXCEPT ![t] = "hasNext"] /\ answer' = [answer EXCEPT ![t] = answer[t]]
        /\ "hasNext" \in Labels
    BY <1>2, <1>7, LoopFits DEF Fetch, Go, LoopLabels
  <2>2. loc' = [loc EXCEPT ![t] = x]
    <3>1. loc' = [loc EXCEPT ![t] = [[loc[t] EXCEPT !.i = @ + 1] EXCEPT !.out = Append(@, e)]]
      BY <1>2, <1>7 DEF Fetch
    <3>2. [loc[t] EXCEPT !.i = @ + 1].out = out
      BY <1>2 DEF Locals
    <3> QED BY <3>1, <3>2
  <2>3. e \in ReadBooks /\ e.book = Null
    BY ObjectFacts DEF ReadBooks
  <2> HIDE DEF e
  <2>4. PICK out2 : out2 = Append(out, e)
    OBVIOUS
  <2>5. /\ out2 \in Seq(ReadBooks) /\ Len(out2) = Len(out) + 1
        /\ \A k \in Named(out2) : k \in Named(out) /\ out2[k] = out[k]
    BY <1>3, <2>3, <2>4, NamedGrows
  <2>6. x \in Locals /\ x.mod = loc[t].mod /\ x.i = i + 1 /\ x.out = out2
    <3>1. PICK y : y = [loc[t] EXCEPT !.i = i + 1]
      OBVIOUS
    <3>2. y \in Locals /\ y.mod = loc[t].mod /\ y.i = i + 1
      BY <1>2, <1>3, <3>1 DEF Locals
    <3>3. /\ [y EXCEPT !.out = out2] \in Locals /\ [y EXCEPT !.out = out2].mod = y.mod
          /\ [y EXCEPT !.out = out2].i = y.i /\ [y EXCEPT !.out = out2].out = out2
      BY <2>5, <3>2 DEF Locals
    <3> QED BY <2>4, <3>1, <3>2, <3>3
  <2> HIDE DEF x
  <2>7. pc'[t] = "hasNext" /\ loc'[t] = x
    BY <1>2, <2>1, <2>2 DEF Typed
  <2>8. /\ \A o \in Objects : Precedes(t, o) => Precedes(t, o)'
        /\ \A o, u \in Objects : UpTo(o, u) => UpTo(o, u)'
    <3>1. x.i >= loc[t].i
      BY <1>3, <2>6, CapacityFacts DEF Places
    <3> QED BY <1>1, <1>2, <2>1, <2>2, <2>6, <3>1, ReaderGoes
  <2>9. Reader(t)'
    <3>1. \A k \in Named(out2) : Precedes(t, out2[k].book)'
      BY <1>2, <1>4, <2>5, <2>8 DEF Reader
    <3>2. \A j, k \in Named(out2) : j < k => UpTo(out2[j].book, out2[k].book)'
      BY <1>4, <1>5, <2>5, <2>8
    <3>3. NoneGone(t)'
      <4>1. NoneGone(t)
        BY <1>2 DEF Reader
      <4> QED BY <1>1, <2>7, <4>1 DEF NoneGone
    <3> QED BY <2>6, <2>7, <3>1, <3>2, <3>3 DEF Reader
  <2> QED BY <1>1, <1>2, <2>1, <2>2, <2>6, <2>9, ReaderMoves DEF LoopLabels
<1> QED BY <1>6, <1>7

LEMMA FetchInv == ASSUME IInv, NEW t \in Threads, Fetch(t) PROVE IInv'
BY FetchPosted, FetchRead

\* Gson writes the book it has fetched behind the others.
LEMMA ReadNameInv == ASSUME IInv, NEW t \in Threads, ReadName(t) PROVE IInv'
<1> PICK cur, out : cur = loc[t].cur /\ out = loc[t].out
  OBVIOUS
<1>1. /\ pc[t] = "readName" /\ UNCHANGED <<req, answer, heap, es, size, modCount, before, ids>>
      /\ pc' = [pc EXCEPT ![t] = "readAuthor"]
  BY DEF ReadName, Go, list, ids
<1>2. /\ Typed /\ loc[t] \in Locals /\ loc[t].mod <= modCount
      /\ answer = [answer EXCEPT ![t] = answer[t]] /\ answer[t] \in AnswerSet
      /\ Reading(t) /\ Reader(t) /\ "readAuthor" \in Labels
  BY <1>1, LoopFacts, LoopFits DEF ListLabels
<1>3. cur \in Objects /\ Precedes(t, cur) /\ \A k \in Named(out) : UpTo(out[k].book, cur) \/ Late(t, cur)
  BY <1>1, <1>2 DEF Reader
<1>4. /\ out \in Seq(ReadBooks) /\ loc[t].i >= loc[t].i
      /\ \A k \in Named(out) : k \in 1 .. Len(out) /\ out[k].book \in Objects
  <2>1. out \in Seq(ReadBooks) /\ loc[t].i >= loc[t].i
    BY <1>2, CapacityFacts DEF Locals
  <2> QED BY <2>1, BooksNamed
<1>5. PICK e : e = [book |-> cur, name |-> heap[cur].name, author |-> Null, year |-> Null]
  OBVIOUS
<1>6. e \in ReadBooks /\ e.book = cur
  <2>1. heap[cur].name \in Fields /\ cur \in Fields /\ Null \in Fields
    BY <1>2, <1>3, ObjectFacts DEF Typed, Heaps
  <2> QED BY <1>5, <2>1 DEF ReadBooks
<1>7. PICK out2 : out2 = Append(out, e)
  OBVIOUS
<1>8. /\ out2 \in Seq(ReadBooks) /\ Len(out2) = Len(out) + 1 /\ out2 # << >>
      /\ out2[Len(out2)] = e
      /\ \A k \in Named(out) : k \in 1 .. Len(out) /\ out2[k] = out[k]
      /\ \A k \in Named(out2) : k \in Named(out) \/ k = Len(out2)
  BY <1>4, <1>6, <1>7, NamedGrows
<1>9. PICK x : x = [loc[t] EXCEPT !.out = out2]
  OBVIOUS
<1>10. /\ x \in Locals /\ x.mod = loc[t].mod /\ x.i = loc[t].i /\ x.cur = cur /\ x.out = out2
       /\ loc' = [loc EXCEPT ![t] = x]
  <2>1. x \in Locals /\ x.mod = loc[t].mod /\ x.i = loc[t].i /\ x.cur = cur /\ x.out = out2
    BY <1>2, <1>8, <1>9 DEF Locals
  <2>2. loc' = [loc EXCEPT ![t] = x]
    BY <1>5, <1>7, <1>9 DEF ReadName
  <2> QED BY <2>1, <2>2
<1>11. pc'[t] = "readAuthor" /\ loc'[t] = x
  BY <1>1, <1>2, <1>10 DEF Typed
<1>12. /\ \A o \in Objects : Precedes(t, o) => Precedes(t, o)'
       /\ \A o \in Objects : Late(t, o) => Late(t, o)'
       /\ \A o, u \in Objects : UpTo(o, u) => UpTo(o, u)'
  BY <1>1, <1>2, <1>4, <1>10, ReaderGoes
<1>13. \A k \in Named(out2) : Precedes(t, out2[k].book)'
  BY <1>2, <1>3, <1>4, <1>6, <1>8, <1>12 DEF Reader
<1>14. ASSUME NEW j \in Named(out2), NEW k \in Named(out2), j < k
       PROVE  \/ UpTo(out2[j].book, out2[k].book)'
              \/ k = Len(out2) /\ Late(t, out2[k].book)'
  <2>1. j \in Named(out) /\ j \in 1 .. Len(out)
    <3>1. j \in 1 .. Len(out2) /\ k \in 1 .. Len(out2) /\ Len(out2) \in Nat
      BY <1>8, <1>14 DEF Named
    <3>2. j # Len(out2)
      BY <1>14, <3>1
    <3> QED BY <1>4, <1>8, <3>2
  <2>2. CASE k \in Named(out)
    BY <1>1, <1>2, <1>4, <1>8, <1>12, <1>14, <2>1, <2>2 DEF Reader
  <2>3. CASE k = Len(out2)
    BY <1>3, <1>4, <1>6, <1>8, <1>12, <2>1, <2>3
  <2> QED BY <1>8, <2>2, <2>3
<1>15. NoneGone(t)'
  <2>1. NoneGone(t)
    BY <1>2 DEF Reader
  <2> QED BY <1>1, <1>11, <2>1 DEF NoneGone
<1>16. Reader(t)'
  BY <1>3, <1>8, <1>10, <1>11, <1>13, <1>14, <1>15 DEF Reader
<1> QED BY <1>1, <1>2, <1>10, <1>16, ReaderMoves DEF ListLabels

\* A field is written into the last book of an answer in the making.
LEMMA FieldRead ==
    ASSUME NEW r \in Seq(ReadBooks), r # << >>, NEW f \in Fields, NEW s,
           s = [r EXCEPT ![Len(r)].author = f] \/ s = [r EXCEPT ![Len(r)].year = f]
    PROVE  /\ s \in Seq(ReadBooks) /\ Len(s) = Len(r)
           /\ \A k \in 1 .. Len(r) : s[k].book = r[k].book
<1>1. Len(r) \in 1 .. Len(r) /\ \A k \in 1 .. Len(r) : r[k] \in ReadBooks
  OBVIOUS
<1>2. \A e \in ReadBooks : /\ [e EXCEPT !.author = f] \in ReadBooks /\ [e EXCEPT !.author = f].book = e.book
                           /\ [e EXCEPT !.year = f] \in ReadBooks /\ [e EXCEPT !.year = f].book = e.book
  BY DEF ReadBooks
<1>3. PICK e \in ReadBooks : e.book = r[Len(r)].book /\ s = [r EXCEPT ![Len(r)] = e]
  BY <1>1, <1>2
<1>4. /\ s \in Seq(ReadBooks) /\ Len(s) = Len(r) /\ s[Len(r)] = e
      /\ \A k \in 1 .. Len(r) : k # Len(r) => s[k] = r[k]
  BY <1>3
<1> QED BY <1>3, <1>4

\* What a reader has read, and where it is, is not touched by the fields it adds.
LEMMA ReaderReads ==
    ASSUME Typed, NEW t \in Threads, Reader(t), pc[t] \in {"readAuthor", "readYear"},
           NEW l \in {"readYear", "hasNext"}, NEW x \in Locals,
           pc' = [pc EXCEPT ![t] = l], loc' = [loc EXCEPT ![t] = x],
           UNCHANGED <<es, size, modCount, before, ids>>,
           x.mod = loc[t].mod, x.i = loc[t].i, l = "readYear" => x.cur = loc[t].cur,
           Len(x.out) = Len(loc[t].out),
           \A k \in 1 .. Len(loc[t].out) : x.out[k].book = loc[t].out[k].book
    PROVE  Reader(t)'
<1> PICK out : out = loc[t].out
  OBVIOUS
<1>1. pc'[t] = l /\ loc'[t] = x /\ l \in Labels
  BY LoopFits DEF Typed, LoopLabels, ListLabels
<1>2. out \in Seq(ReadBooks) /\ x.i >= loc[t].i /\ x.out \in Seq(ReadBooks)
  BY CapacityFacts DEF Typed, Locals
<1>3. \A k \in Named(out) : k \in 1 .. Len(out) /\ out[k].book \in Objects
  BY <1>2, BooksNamed
<1>4. Named(x.out) = Named(out) /\ out # << >> /\ x.out # << >>
  BY <1>2 DEF Named, Reader
<1>5. /\ \A o \in Objects : Precedes(t, o) => Precedes(t, o)'
      /\ \A o \in Objects : Late(t, o) => Late(t, o)'
      /\ \A o, u \in Objects : UpTo(o, u) => UpTo(o, u)'
  BY <1>1, <1>2, ReaderGoes
<1>6. \A k \in Named(out) : Precedes(t, out[k].book)'
  BY <1>3, <1>5 DEF Reader
<1>7. \A j, k \in Named(out) : j < k => \/ UpTo(out[j].book, out[k].book)'
                                        \/ k = Len(out) /\ Late(t, out[k].book)'
  BY <1>3, <1>5 DEF Reader
<1>8. NoneGone(t)'
  <2>1. NoneGone(t)
    BY DEF Reader
  <2> QED BY <1>1, <2>1 DEF NoneGone
<1> QED BY <1>1, <1>3, <1>4, <1>6, <1>7, <1>8 DEF Reader

LEMMA ReadAuthorInv == ASSUME IInv, NEW t \in Threads, ReadAuthor(t) PROVE IInv'
<1> PICK out, f : out = loc[t].out /\ f = heap[loc[t].cur].author
  OBVIOUS
<1>1. /\ pc[t] = "readAuthor" /\ UNCHANGED <<req, answer, heap, es, size, modCount, before, ids>>
      /\ pc' = [pc EXCEPT ![t] = "readYear"]
  BY DEF ReadAuthor, Go, list, ids
<1>2. /\ Typed /\ loc[t] \in Locals /\ loc[t].mod <= modCount
      /\ answer = [answer EXCEPT ![t] = answer[t]] /\ answer[t] \in AnswerSet
      /\ Reading(t) /\ Reader(t) /\ "readYear" \in Labels
  BY <1>1, LoopFacts, LoopFits DEF ListLabels
<1>3. out \in Seq(ReadBooks) /\ out # << >> /\ f \in Fields
  BY <1>1, <1>2 DEF Reader, Locals, Typed, Heaps
<1>4. PICK out2 : out2 = [out EXCEPT ![Len(out)].author = f]
  OBVIOUS
<1>5. /\ out2 \in Seq(ReadBooks) /\ Len(out2) = Len(out)
      /\ \A k \in 1 .. Len(out) : out2[k].book = out[k].book
  BY <1>3, <1>4, FieldRead
<1>6. PICK x : x = [loc[t] EXCEPT !.out = out2]
  OBVIOUS
<1>7. x \in Locals /\ x.mod = loc[t].mod /\ x.i = loc[t].i /\ x.cur = loc[t].cur /\ x.out = out2
  BY <1>2, <1>5, <1>6 DEF Locals
<1>8. loc' = [loc EXCEPT ![t] = x]
  BY <1>4, <1>6 DEF ReadAuthor
<1>9. Reader(t)'
  BY <1>1, <1>2, <1>5, <1>7, <1>8, ReaderReads
<1> QED BY <1>1, <1>2, <1>7, <1>8, <1>9, ReaderMoves DEF ListLabels

LEMMA ReadYearInv == ASSUME IInv, NEW t \in Threads, ReadYear(t) PROVE IInv'
<1> PICK out, f : out = loc[t].out /\ f = heap[loc[t].cur].year
  OBVIOUS
<1>1. /\ pc[t] = "readYear" /\ UNCHANGED <<req, answer, heap, es, size, modCount, before, ids>>
      /\ pc' = [pc EXCEPT ![t] = "hasNext"]
  BY DEF ReadYear, Go, list, ids
<1>2. /\ Typed /\ loc[t] \in Locals /\ loc[t].mod <= modCount
      /\ answer = [answer EXCEPT ![t] = answer[t]] /\ answer[t] \in AnswerSet
      /\ Reading(t) /\ Reader(t) /\ "hasNext" \in Labels
  BY <1>1, LoopFacts, LoopFits DEF ListLabels, LoopLabels
<1>3. out \in Seq(ReadBooks) /\ out # << >> /\ f \in Fields
  BY <1>1, <1>2 DEF Reader, Locals, Typed, Heaps
<1>4. PICK out2 : out2 = [out EXCEPT ![Len(out)].year = f]
  OBVIOUS
<1>5. /\ out2 \in Seq(ReadBooks) /\ Len(out2) = Len(out)
      /\ \A k \in 1 .. Len(out) : out2[k].book = out[k].book
  BY <1>3, <1>4, FieldRead
<1>6. PICK y : y = [loc[t] EXCEPT !.out = out2]
  OBVIOUS
<1>7. y \in Locals /\ y.mod = loc[t].mod /\ y.i = loc[t].i /\ y.out = out2
  BY <1>2, <1>5, <1>6 DEF Locals
<1>8. PICK x : x = [y EXCEPT !.cur = Null]
  OBVIOUS
<1>9. x \in Locals /\ x.mod = loc[t].mod /\ x.i = loc[t].i /\ x.out = out2
  BY <1>7, <1>8, ObjectFacts DEF Locals
<1>10. loc' = [loc EXCEPT ![t] = x]
  <2>1. x = [loc[t] EXCEPT !.out[Len(out)].year = f, !.cur = Null]
    BY <1>4, <1>6, <1>8
  <2> QED BY <2>1 DEF ReadYear
<1>11. Reader(t)'
  BY <1>1, <1>2, <1>5, <1>9, <1>10, ReaderReads
<1> QED BY <1>1, <1>2, <1>9, <1>10, <1>11, ReaderMoves DEF LoopLabels

-----------------------------------------------------------------------------
(* What a POST does beside the list.                                       *)

LEMMA PosterLocals ==
    ASSUME IInv, NEW t \in Threads, pc[t] \in PostLabels
    PROVE  /\ Typed /\ Whole /\ loc[t] \in Locals /\ loc[t].mod <= modCount
           /\ size \in 0 .. Capacity /\ modCount \in Nat /\ heap \in Heaps
           /\ answer[t] \in AnswerSet /\ ids \in [Objects -> NoId .. MaxId]
           /\ answer = [answer EXCEPT ![t] = answer[t]] /\ loc = [loc EXCEPT ![t] = loc[t]]
<1>1. Where(t)
  BY PosterFacts
<1> QED BY <1>1, TypeFacts, IdsType DEF IInv, Array, Typed, Where

\* The end of a POST that has nothing more to do to the list.
LEMMA PosterEnds ==
    ASSUME IInv, NEW t \in Threads, pc[t] \in PostLabels, Done(t), req[t].op # "add",
           UNCHANGED <<req, es, size, modCount, before, ids>>, heap' \in Heaps, Whole',
           pc[t] \notin {"addSize", "clear", "shift", "shrink"}
    PROVE  IInv'
<1> PICK a : a = [status |-> "done", books |-> << >>]
  OBVIOUS
<1>1. a \in AnswerSet /\ a.status = "done"
  BY DEF AnswerSet
<1>2. /\ pc' = [pc EXCEPT ![t] = "answered"] /\ loc' = [loc EXCEPT ![t] = NoLocals]
      /\ answer' = [answer EXCEPT ![t] = a]
  BY DEF Done, Reply, Go
<1>3. Posting(t) /\ modCount \in Nat
  BY PosterFacts, PosterLocals
<1>4. Fits("answered", req[t].op)
  BY DEF Fits, PostLabels, AddLabels, SetLabels, RemoveLabels, ListLabels, LoopLabels
<1> QED BY <1>1, <1>2, <1>3, <1>4, NoLocalsType, PosterMoves

LEMMA LabelFits ==
    /\ \A l \in PostLabels : l \in Labels
    /\ \A l \in {"size", "lastIndex", "checkIndex", "readLast"} :
           l \in PostLabels /\ \A op \in {"add", "change", "remove"} : Fits(l, op)
    /\ \A l \in AddLabels \union {"addSize"} : l \in PostLabels /\ Fits(l, "add")
    /\ \A l \in SetLabels : l \in PostLabels /\ Fits(l, "change")
    /\ \A l \in RemoveLabels : l \in PostLabels /\ Fits(l, "remove")
    /\ Fits("answered", "add") /\ Fits("answered", "change") /\ Fits("answered", "remove")
    /\ Fits("iterator", "change") /\ Fits("iterator", "remove")
BY DEF Fits, PostLabels, AddLabels, SetLabels, RemoveLabels, ListLabels, LoopLabels, Labels

LEMMA LastIndexInv == ASSUME IInv, NEW t \in Threads, LastIndex(t) PROVE IInv'
<1> PICK x : x = [loc[t] EXCEPT !.n = size - 1]
  OBVIOUS
<1>1. /\ pc[t] = "lastIndex" /\ UNCHANGED <<req, answer, heap, es, size, modCount, before, ids>>
      /\ pc' = [pc EXCEPT ![t] = "checkIndex"] /\ loc' = [loc EXCEPT ![t] = x]
      /\ pc[t] \in PostLabels
  BY LabelFits DEF LastIndex, Go, list, ids
<1>0. /\ Typed /\ Whole /\ loc[t] \in Locals /\ loc[t].mod <= modCount /\ heap \in Heaps
      /\ size \in 0 .. Capacity /\ modCount \in Nat /\ answer[t] \in AnswerSet
      /\ answer = [answer EXCEPT ![t] = answer[t]] /\ loc = [loc EXCEPT ![t] = loc[t]]
  BY <1>1, PosterLocals
<1>2. x \in Locals /\ x.mod = loc[t].mod /\ x.n = size - 1
  BY <1>0, CapacityFacts, SMTT(30) DEF Locals
<1>3. Posting(t) /\ size > 0 /\ ids[t] = NoId /\ req[t].op \in {"add", "change", "remove"}
  BY <1>1, PosterFacts DEF Poster, Where
<1>4. pc'[t] = "checkIndex" /\ loc'[t] = x
  BY <1>0, <1>1 DEF Typed
<1>5. Poster(t)'
  BY <1>1, <1>2, <1>3, <1>4 DEF Poster, AddLabels, SetLabels, RemoveLabels
<1>6. Whole'
  BY <1>0, <1>1, WholeKept DEF Typed
<1>7. Fits("checkIndex", req[t].op) /\ "checkIndex" \in Labels
  BY <1>3, LabelFits
<1> QED BY <1>0, <1>1, <1>2, <1>3, <1>5, <1>6, <1>7, PosterMoves

\* The index is that of the last book, as the list has not changed.
LEMMA CheckIndexInv == ASSUME IInv, NEW t \in Threads, CheckIndex(t) PROVE IInv'
<1>1. /\ pc[t] = "checkIndex" /\ UNCHANGED <<req, heap, es, size, modCount, before, ids>>
      /\ pc[t] \in PostLabels
  BY LabelFits DEF CheckIndex, list, ids
<1>2. /\ Typed /\ Whole /\ loc[t] \in Locals /\ loc[t].mod <= modCount /\ heap \in Heaps
      /\ size \in 0 .. Capacity /\ answer[t] \in AnswerSet
      /\ answer = [answer EXCEPT ![t] = answer[t]] /\ loc = [loc EXCEPT ![t] = loc[t]]
  BY <1>1, PosterLocals
<1>3. /\ Posting(t) /\ size > 0 /\ loc[t].n = size - 1 /\ ids[t] = NoId
      /\ req[t].op \in {"add", "change", "remove"}
  BY <1>1, PosterFacts DEF Poster, Where
<1>4. loc[t].n \in 0 .. (size - 1)
  BY <1>2, <1>3, CapacityFacts
<1>5. /\ pc' = [pc EXCEPT ![t] = "readLast"] /\ UNCHANGED <<loc, answer>>
  BY <1>4 DEF CheckIndex, Go
<1>6. pc'[t] = "readLast" /\ loc'[t] = loc[t]
  BY <1>2, <1>5 DEF Typed
<1>7. Poster(t)'
  BY <1>1, <1>3, <1>6 DEF Poster, AddLabels, SetLabels, RemoveLabels
<1>8. Whole'
  BY <1>1, <1>2, <1>5, WholeKept DEF Typed
<1>9. Fits("readLast", req[t].op) /\ "readLast" \in Labels
  BY <1>3, LabelFits
<1> QED BY <1>1, <1>2, <1>3, <1>5, <1>7, <1>8, <1>9, PosterMoves

LEMMA AddReadModInv == ASSUME IInv, NEW t \in Threads, AddReadMod(t) PROVE IInv'
<1> PICK x : x = [loc[t] EXCEPT !.mod = modCount]
  OBVIOUS
<1>1. /\ pc[t] = "addReadMod" /\ UNCHANGED <<req, answer, heap, es, size, modCount, before, ids>>
      /\ pc' = [pc EXCEPT ![t] = "addWriteMod"] /\ loc' = [loc EXCEPT ![t] = x]
      /\ pc[t] \in PostLabels /\ pc[t] \in AddLabels
  BY LabelFits DEF AddReadMod, Go, list, ids, AddLabels
<1>0. /\ Typed /\ Whole /\ loc[t] \in Locals /\ loc[t].mod <= modCount /\ heap \in Heaps
      /\ size \in 0 .. Capacity /\ modCount \in Nat /\ answer[t] \in AnswerSet
      /\ answer = [answer EXCEPT ![t] = answer[t]] /\ loc = [loc EXCEPT ![t] = loc[t]]
  BY <1>1, PosterLocals
<1>2. x \in Locals /\ x.mod = modCount /\ x.mod <= modCount
  BY <1>0, SMTT(30) DEF Locals
<1>3. Posting(t) /\ Newest(t) /\ req[t].op = "add"
  BY <1>1, PosterFacts DEF Poster, Where, Fits
<1>4. pc'[t] = "addWriteMod" /\ loc'[t] = x
  BY <1>0, <1>1 DEF Typed
<1>5. Poster(t)'
  BY <1>1, <1>2, <1>3, <1>4 DEF Poster, AddLabels, SetLabels, RemoveLabels, Newest
<1>6. Whole'
  BY <1>0, <1>1, WholeKept DEF Typed
<1>7. Fits("addWriteMod", req[t].op) /\ "addWriteMod" \in Labels
  BY <1>3, LabelFits DEF AddLabels
<1> QED BY <1>0, <1>1, <1>2, <1>3, <1>5, <1>6, <1>7, PosterMoves

LEMMA AddReadSizeInv == ASSUME IInv, NEW t \in Threads, AddReadSize(t) PROVE IInv'
<1> PICK x : x = [loc[t] EXCEPT !.n = size]
  OBVIOUS
<1>1. /\ pc[t] = "addReadSize" /\ UNCHANGED <<req, answer, heap, es, size, modCount, before, ids>>
      /\ pc' = [pc EXCEPT ![t] = "addStore"] /\ loc' = [loc EXCEPT ![t] = x]
      /\ pc[t] \in PostLabels /\ pc[t] \in AddLabels
  BY LabelFits DEF AddReadSize, Go, list, ids, AddLabels
<1>0. /\ Typed /\ Whole /\ loc[t] \in Locals /\ loc[t].mod <= modCount /\ heap \in Heaps
      /\ size \in 0 .. Capacity /\ modCount \in Nat /\ answer[t] \in AnswerSet
      /\ answer = [answer EXCEPT ![t] = answer[t]] /\ loc = [loc EXCEPT ![t] = loc[t]]
  BY <1>1, PosterLocals
<1>2. x \in Locals /\ x.mod = loc[t].mod /\ x.n = size
  BY <1>0, CapacityFacts, SMTT(30) DEF Locals
<1>3. Posting(t) /\ Newest(t) /\ req[t].op = "add"
  BY <1>1, PosterFacts DEF Poster, Where, Fits
<1>4. pc'[t] = "addStore" /\ loc'[t] = x
  BY <1>0, <1>1 DEF Typed
<1>5. Poster(t)'
  BY <1>1, <1>2, <1>3, <1>4 DEF Poster, AddLabels, SetLabels, RemoveLabels, Newest
<1>6. Whole'
  BY <1>0, <1>1, WholeKept DEF Typed
<1>7. Fits("addStore", req[t].op) /\ "addStore" \in Labels
  BY <1>3, LabelFits DEF AddLabels
<1> QED BY <1>0, <1>1, <1>2, <1>3, <1>5, <1>6, <1>7, PosterMoves

\* A field of the book that a change has found.
LEMMA SetFacts ==
    ASSUME IInv, NEW t \in Threads, pc[t] \in SetLabels
    PROVE  /\ pc[t] \in PostLabels /\ Posting(t) /\ req[t].op = "change"
           /\ loc[t].cur \in Objects /\ ids[loc[t].cur] = req[t].id
           /\ \E k \in Places : k < size /\ es[k] = loc[t].cur
           /\ pc[t] \in {"setAuthor", "setYear"} => heap[loc[t].cur].name = t
           /\ pc[t] = "setYear" => heap[loc[t].cur].author = t
           /\ t \in Fields /\ t # Null
           /\ \A u \in Threads : u # t => pc[u] \notin {"setAuthor", "setYear"}
<1>1. pc[t] \in PostLabels
  BY LabelFits
<1>2. Posting(t) /\ Poster(t) /\ Where(t) /\ \A u \in Threads : u # t => ~ Posting(u)
  BY <1>1, PosterFacts
<1>3. \A u \in Threads : pc[u] \in {"setAuthor", "setYear"} => Posting(u)
  BY PosterFacts DEF PostLabels
<1> QED BY <1>1, <1>2, <1>3, ObjectFacts DEF Poster, Where, Fits

LEMMA SetNameInv == ASSUME IInv, NEW t \in Threads, SetName(t) PROVE IInv'
<1> PICK cur : cur = loc[t].cur
  OBVIOUS
<1>1. /\ pc[t] = "setName" /\ UNCHANGED <<req, loc, answer, es, size, modCount, before>>
      /\ pc' = [pc EXCEPT ![t] = "setAuthor"] /\ heap' = [heap EXCEPT ![cur].name = t]
      /\ pc[t] \in SetLabels
  BY DEF SetName, Go, list, SetLabels
<1>2. /\ pc[t] \in PostLabels /\ Posting(t) /\ req[t].op = "change"
      /\ cur \in Objects /\ ids[cur] = req[t].id
      /\ \E k \in Places : k < size /\ es[k] = cur
      /\ t \in Fields /\ t # Null
      /\ \A u \in Threads : u # t => pc[u] \notin {"setAuthor", "setYear"}
  BY <1>1, SetFacts
<1>3. /\ Typed /\ Whole /\ loc[t] \in Locals /\ loc[t].mod <= modCount /\ heap \in Heaps
      /\ answer[t] \in AnswerSet
      /\ answer = [answer EXCEPT ![t] = answer[t]] /\ loc = [loc EXCEPT ![t] = loc[t]]
  BY <1>2, PosterLocals
<1>4. /\ heap' \in Heaps /\ heap'[cur].name = t /\ \A o \in Objects : o # cur => heap'[o] = heap[o]
      /\ heap'[cur].author = heap[cur].author /\ heap'[cur].year = heap[cur].year
      /\ \A o \in Objects : heap'[o].id = heap[o].id
  BY <1>1, <1>2, <1>3 DEF Heaps
<1>5. UNCHANGED ids
  BY <1>4 DEF ids
<1>6. pc'[t] = "setAuthor" /\ \A u \in Threads : u # t => pc'[u] = pc[u]
  BY <1>1, <1>3 DEF Typed
<1>7. Whole'
  <2>1. \A o \in Objects : o # cur => \A u \in Threads : ~ Changing(u, o)
    BY <1>1, <1>2 DEF Changing
  <2>2. Changing(t, cur)'
    BY <1>1, <1>6 DEF Changing
  <2> QED BY <1>2, <1>3, <1>4, <2>1, <2>2 DEF Whole
<1>8. Poster(t)'
  BY <1>1, <1>2, <1>4, <1>5, <1>6 DEF Poster, AddLabels, SetLabels, RemoveLabels
<1>9. Fits("setAuthor", req[t].op) /\ "setAuthor" \in Labels
  BY <1>2, LabelFits DEF SetLabels
<1> QED BY <1>1, <1>2, <1>3, <1>4, <1>5, <1>7, <1>8, <1>9, PosterMoves

LEMMA SetAuthorInv == ASSUME IInv, NEW t \in Threads, SetAuthor(t) PROVE IInv'
<1> PICK cur : cur = loc[t].cur
  OBVIOUS
<1>1. /\ pc[t] = "setAuthor" /\ UNCHANGED <<req, loc, answer, es, size, modCount, before>>
      /\ pc' = [pc EXCEPT ![t] = "setYear"] /\ heap' = [heap EXCEPT ![cur].author = t]
      /\ pc[t] \in SetLabels
  BY DEF SetAuthor, Go, list, SetLabels
<1>2. /\ pc[t] \in PostLabels /\ Posting(t) /\ req[t].op = "change"
      /\ cur \in Objects /\ ids[cur] = req[t].id /\ heap[cur].name = t
      /\ \E k \in Places : k < size /\ es[k] = cur
      /\ t \in Fields /\ t # Null
      /\ \A u \in Threads : u # t => pc[u] \notin {"setAuthor", "setYear"}
  BY <1>1, SetFacts
<1>3. /\ Typed /\ Whole /\ loc[t] \in Locals /\ loc[t].mod <= modCount /\ heap \in Heaps
      /\ answer[t] \in AnswerSet
      /\ answer = [answer EXCEPT ![t] = answer[t]] /\ loc = [loc EXCEPT ![t] = loc[t]]
  BY <1>2, PosterLocals
<1>4. /\ heap' \in Heaps /\ heap'[cur].author = t /\ \A o \in Objects : o # cur => heap'[o] = heap[o]
      /\ heap'[cur].name = t /\ heap'[cur].year = heap[cur].year
      /\ \A o \in Objects : heap'[o].id = heap[o].id
  BY <1>1, <1>2, <1>3 DEF Heaps
<1>5. UNCHANGED ids
  BY <1>4 DEF ids
<1>6. pc'[t] = "setYear" /\ \A u \in Threads : u # t => pc'[u] = pc[u]
  BY <1>1, <1>3 DEF Typed
<1>7. Whole'
  <2>1. \A o \in Objects : o # cur => \A u \in Threads : ~ Changing(u, o)
    BY <1>1, <1>2 DEF Changing
  <2>2. Changing(t, cur)'
    BY <1>1, <1>6 DEF Changing
  <2> QED BY <1>2, <1>3, <1>4, <2>1, <2>2 DEF Whole
<1>8. Poster(t)'
  BY <1>1, <1>2, <1>4, <1>5, <1>6 DEF Poster, AddLabels, SetLabels, RemoveLabels
<1>9. Fits("setYear", req[t].op) /\ "setYear" \in Labels
  BY <1>2, LabelFits DEF SetLabels
<1> QED BY <1>1, <1>2, <1>3, <1>4, <1>5, <1>7, <1>8, <1>9, PosterMoves

\* With the third field the book is whole again.
LEMMA SetYearInv == ASSUME IInv, NEW t \in Threads, SetYear(t) PROVE IInv'
<1> PICK cur : cur = loc[t].cur
  OBVIOUS
<1>1. /\ pc[t] = "setYear" /\ UNCHANGED <<req, es, size, modCount, before>>
      /\ Done(t) /\ heap' = [heap EXCEPT ![cur].year = t] /\ pc[t] \in SetLabels
  BY DEF SetYear, list, SetLabels
<1>2. /\ pc[t] \in PostLabels /\ req[t].op = "change"
      /\ cur \in Objects /\ heap[cur].name = t /\ heap[cur].author = t
      /\ t \in Fields /\ t # Null
      /\ \A u \in Threads : u # t => pc[u] \notin {"setAuthor", "setYear"}
  BY <1>1, SetFacts
<1>3. Typed /\ Whole /\ heap \in Heaps
  BY <1>2, PosterLocals
<1>4. /\ heap' \in Heaps /\ heap'[cur].year = t /\ \A o \in Objects : o # cur => heap'[o] = heap[o]
      /\ heap'[cur].name = t /\ heap'[cur].author = t
      /\ \A o \in Objects : heap'[o].id = heap[o].id
  BY <1>1, <1>2, <1>3 DEF Heaps
<1>5. UNCHANGED ids
  BY <1>4 DEF ids
<1>6. Whole'
  <2>1. \A o \in Objects : o # cur => \A u \in Threads : ~ Changing(u, o)
    BY <1>1, <1>2 DEF Changing
  <2> QED BY <1>2, <1>3, <1>4, <2>1 DEF Whole
<1>7. req[t].op # "add" /\ pc[t] \notin {"addSize", "clear", "shift", "shrink"}
  BY <1>1, <1>2
<1> QED BY <1>1, <1>2, <1>4, <1>5, <1>6, <1>7, PosterEnds

\* The search begins at the first place, and has the book before it.
LEMMA RemoveReadSizeInv == ASSUME IInv, NEW t \in Threads, RemoveReadSize(t) PROVE IInv'
<1>1. /\ pc[t] = "removeReadSize" /\ UNCHANGED <<req, heap, es, size, modCount, before, ids>>
      /\ pc[t] \in PostLabels
  BY LabelFits DEF RemoveReadSize, list, ids, RemoveLabels
<1>2. /\ Typed /\ Whole /\ loc[t] \in Locals /\ loc[t].mod <= modCount /\ heap \in Heaps
      /\ size \in 0 .. Capacity /\ answer[t] \in AnswerSet
      /\ answer = [answer EXCEPT ![t] = answer[t]]
  BY <1>1, PosterLocals
<1>3. /\ Posting(t) /\ req[t].op = "remove"
      /\ loc[t].cur \in Objects /\ ids[loc[t].cur] = req[t].id
      /\ \E k \in Places : k < size /\ es[k] = loc[t].cur
  BY <1>1, PosterFacts DEF Poster, Where, Fits, RemoveLabels, SetLabels
<1>4. size > 0
  BY <1>2, <1>3, CapacityFacts DEF Places
<1>5. PICK y : y = [loc[t] EXCEPT !.i = 0]
  OBVIOUS
<1>6. y \in Locals /\ y.mod = loc[t].mod /\ y.i = 0 /\ y.cur = loc[t].cur
  BY <1>2, <1>5, CapacityFacts, SMTT(30) DEF Locals
<1>7. PICK x : x = [y EXCEPT !.n = size]
  OBVIOUS
<1>8. x \in Locals /\ x.mod = loc[t].mod /\ x.i = 0 /\ x.cur = loc[t].cur /\ x.n = size
  BY <1>2, <1>6, <1>7, CapacityFacts, SMTT(30) DEF Locals
<1>9. /\ pc' = [pc EXCEPT ![t] = "scan"] /\ loc' = [loc EXCEPT ![t] = x] /\ answer' = answer
  BY <1>4, <1>5, <1>7 DEF RemoveReadSize, Go
<1>10. pc'[t] = "scan" /\ loc'[t] = x
  BY <1>2, <1>9 DEF Typed
<1>11. Poster(t)'
  BY <1>1, <1>3, <1>4, <1>8, <1>10 DEF Poster, AddLabels, SetLabels, RemoveLabels
<1>12. Whole'
  BY <1>1, <1>2, <1>9, WholeKept DEF Typed
<1>13. Fits("scan", req[t].op) /\ "scan" \in Labels
  BY <1>3, LabelFits DEF RemoveLabels
<1> QED BY <1>1, <1>2, <1>3, <1>8, <1>9, <1>11, <1>12, <1>13, PosterMoves

LEMMA ScanInv == ASSUME IInv, NEW t \in Threads, Scan(t) PROVE IInv'
<1>1. /\ pc[t] = "scan" /\ UNCHANGED <<req, heap, es, size, modCount, before, ids>>
      /\ pc[t] \in PostLabels
  BY LabelFits DEF Scan, list, ids, RemoveLabels
<1>2. /\ Typed /\ Whole /\ loc[t] \in Locals /\ loc[t].mod <= modCount /\ heap \in Heaps
      /\ size \in 0 .. Capacity /\ answer[t] \in AnswerSet
      /\ answer = [answer EXCEPT ![t] = answer[t]] /\ loc = [loc EXCEPT ![t] = loc[t]]
  BY <1>1, PosterLocals
<1>3. /\ Posting(t) /\ req[t].op = "remove" /\ loc[t].n = size /\ loc[t].i < size
      /\ loc[t].cur \in Objects /\ ids[loc[t].cur] = req[t].id
  BY <1>1, PosterFacts DEF Poster, Where, Fits, RemoveLabels, SetLabels
<1>5. CASE es[loc[t].i] = loc[t].cur
  <2>1. pc' = [pc EXCEPT ![t] = "removeReadMod"] /\ UNCHANGED <<loc, answer>>
    BY <1>5 DEF Scan, Go
  <2>2. pc'[t] = "removeReadMod" /\ loc'[t] = loc[t]
    BY <1>2, <2>1 DEF Typed
  <2>3. Poster(t)'
    BY <1>1, <1>3, <1>5, <2>2 DEF Poster, AddLabels, SetLabels, RemoveLabels
  <2>4. Whole'
    BY <1>1, <1>2, <2>1, WholeKept DEF Typed
  <2>5. Fits("removeReadMod", req[t].op) /\ "removeReadMod" \in Labels
    BY <1>3, LabelFits DEF RemoveLabels
  <2> QED BY <1>1, <1>2, <1>3, <2>1, <2>3, <2>4, <2>5, PosterMoves
<1>6. CASE es[loc[t].i] # loc[t].cur /\ loc[t].i + 1 < loc[t].n
  <2> PICK x : x = [loc[t] EXCEPT !.i = loc[t].i + 1]
    OBVIOUS
  <2>1. /\ pc' = [pc EXCEPT ![t] = "scan"] /\ loc' = [loc EXCEPT ![t] = x] /\ answer' = answer
    <3>1. ~ (loc[t].i + 1 >= loc[t].n)
      BY <1>2, <1>6, CapacityFacts DEF Locals
    <3>2. pc' = pc /\ loc' = [loc EXCEPT ![t] = x] /\ answer' = answer
      BY <1>6, <3>1 DEF Scan
    <3> QED BY <1>1, <1>2, <3>2 DEF Typed
  <2>2. x \in Locals /\ x.mod = loc[t].mod /\ x.i = loc[t].i + 1 /\ x.cur = loc[t].cur /\ x.n = size
    BY <1>2, <1>3, <1>6, CapacityFacts DEF Locals
  <2>3. pc'[t] = "scan" /\ loc'[t] = x
    BY <1>2, <2>1 DEF Typed
  <2>4. Poster(t)'
    BY <1>1, <1>3, <1>6, <2>2, <2>3 DEF Poster, AddLabels, SetLabels, RemoveLabels
  <2>5. Whole'
    BY <1>1, <1>2, <2>1, WholeKept DEF Typed
  <2>6. Fits("scan", req[t].op) /\ "scan" \in Labels
    BY <1>3, LabelFits DEF RemoveLabels
  <2>7. x.mod <= modCount /\ answer' = [answer EXCEPT ![t] = answer[t]]
    BY <1>2, <2>1, <2>2
  <2>8. "scan" \notin {"answered", "addReadSize", "addStore", "size", "lastIndex", "checkIndex", "readLast"}
    OBVIOUS
  <2>9. answer[t] \in AnswerSet /\ heap' \in Heaps /\ Posting(t)
    BY <1>1, <1>2, <1>3
  <2> QED BY <1>1, <2>1, <2>2, <2>4, <2>5, <2>6, <2>7, <2>8, <2>9, PosterMoves
<1>7. CASE es[loc[t].i] # loc[t].cur /\ ~ (loc[t].i + 1 < loc[t].n)
  <2>1. Done(t)
    BY <1>7 DEF Scan
  <2>2. \A u \in Threads \ {t} : pc'[u] = pc[u] /\ loc'[u] = loc[u]
    BY <1>2, <2>1 DEF Done, Reply, Go, Typed
  <2>3. Whole'
    BY <1>1, <1>2, <2>2, WholeKept
  <2> QED BY <1>1, <1>2, <1>3, <2>1, <2>3, PosterEnds
<1> QED BY <1>5, <1>6, <1>7

LEMMA RemoveReadModInv == ASSUME IInv, NEW t \in Threads, RemoveReadMod(t) PROVE IInv'
<1> PICK x : x = [loc[t] EXCEPT !.mod = modCount]
  OBVIOUS
<1>1. /\ pc[t] = "removeReadMod" /\ UNCHANGED <<req, answer, heap, es, size, modCount, before, ids>>
      /\ pc' = [pc EXCEPT ![t] = "removeWriteMod"] /\ loc' = [loc EXCEPT ![t] = x]
      /\ pc[t] \in PostLabels
  BY LabelFits DEF RemoveReadMod, Go, list, ids, RemoveLabels
<1>2. /\ Typed /\ Whole /\ loc[t] \in Locals /\ heap \in Heaps /\ modCount \in Nat
      /\ answer[t] \in AnswerSet /\ answer = [answer EXCEPT ![t] = answer[t]]
  BY <1>1, PosterLocals
<1>3. /\ Posting(t) /\ req[t].op = "remove" /\ loc[t].i < size /\ es[loc[t].i] = loc[t].cur
      /\ loc[t].cur \in Objects /\ ids[loc[t].cur] = req[t].id
  BY <1>1, PosterFacts DEF Poster, Where, Fits, RemoveLabels, SetLabels
<1>4. /\ x \in Locals /\ x.mod = modCount /\ x.mod <= modCount
      /\ x.i = loc[t].i /\ x.cur = loc[t].cur
  BY <1>2 DEF Locals
<1>5. pc'[t] = "removeWriteMod" /\ loc'[t] = x
  BY <1>1, <1>2 DEF Typed
<1>6. Poster(t)'
  BY <1>1, <1>3, <1>4, <1>5 DEF Poster, AddLabels, SetLabels, RemoveLabels
<1>7. Whole'
  BY <1>1, <1>2, WholeKept DEF Typed
<1>8. Fits("removeWriteMod", req[t].op) /\ "removeWriteMod" \in Labels
  BY <1>3, LabelFits DEF RemoveLabels
<1> QED BY <1>1, <1>2, <1>3, <1>4, <1>6, <1>7, <1>8, PosterMoves

\* The book is at no other place: the list has it once, and holds nothing
\* behind its last place.
LEMMA NewSizeInv == ASSUME IInv, NEW t \in Threads, NewSize(t) PROVE IInv'
<1> PICK x, l : /\ x = [loc[t] EXCEPT !.n = size - 1]
                /\ l = IF size - 1 > loc[t].i THEN "shift" ELSE "shrink"
  OBVIOUS
<1>1. /\ pc[t] = "newSize" /\ UNCHANGED <<req, answer, heap, es, size, modCount, before, ids>>
      /\ pc' = [pc EXCEPT ![t] = l] /\ loc' = [loc EXCEPT ![t] = x]
      /\ pc[t] \in PostLabels /\ l \in {"shift", "shrink"}
  BY LabelFits DEF NewSize, Go, list, ids, RemoveLabels
<1>2. /\ Typed /\ Whole /\ loc[t] \in Locals /\ loc[t].mod <= modCount /\ heap \in Heaps
      /\ size \in 0 .. Capacity /\ Array /\ Distinct
      /\ answer[t] \in AnswerSet /\ answer = [answer EXCEPT ![t] = answer[t]]
  BY <1>1, PosterLocals DEF IInv
<1>3. /\ Posting(t) /\ req[t].op = "remove" /\ loc[t].i < size /\ es[loc[t].i] = loc[t].cur
      /\ loc[t].cur \in Objects /\ ids[loc[t].cur] = req[t].id
  BY <1>1, PosterFacts DEF Poster, Where, Fits, RemoveLabels, SetLabels
<1>4. /\ x \in Locals /\ x.mod = loc[t].mod /\ x.n = size - 1
      /\ x.i = loc[t].i /\ x.cur = loc[t].cur
  BY <1>2, CapacityFacts, SMTT(30) DEF Locals
<1>5. pc'[t] = l /\ loc'[t] = x
  BY <1>1, <1>2 DEF Typed
<1>6. loc[t].i \in Places /\ \A k \in Places : k # loc[t].i => es[k] # loc[t].cur
  <2>1. \A u \in Threads : pc[u] \notin {"addSize", "clear", "shift", "shrink"}
    <3>1. \A u \in Threads : u # t => ~ Posting(u)
      BY <1>1, PosterFacts
    <3> QED BY <1>1, <3>1, PosterFacts DEF PostLabels
  <2>2. loc[t].i \in Places /\ loc[t].i \in Int
    BY <1>2, <1>3, CapacityFacts DEF Locals, Places
  <2>3. ASSUME NEW k \in Places, k # loc[t].i, es[k] = loc[t].cur PROVE FALSE
    <3>1. k \in Int /\ size \in Int /\ loc[t].cur # Null
      BY <1>2, <1>3, CapacityFacts, ObjectFacts DEF Places
    <3>2. k < size
      BY <1>2, <2>1, <2>3, <3>1 DEF Array
    <3>3. CASE k < loc[t].i
      BY <1>2, <1>3, <2>1, <2>2, <2>3, <3>3 DEF Distinct
    <3>4. CASE loc[t].i < k
      BY <1>2, <1>3, <2>1, <2>2, <2>3, <3>2, <3>4 DEF Distinct
    <3> QED BY <2>2, <2>3, <3>1, <3>3, <3>4
  <2> QED BY <2>2, <2>3
<1>7. Poster(t)'
  <2>1. Gap(t)'
    BY <1>1, <1>3, <1>4, <1>5, <1>6 DEF Gap
  <2>2. l = "shift" => x.i < x.n
    BY <1>4
  <2>3. l = "shrink" => x.i = x.n
    BY <1>2, <1>3, <1>4 DEF Locals
  <2> QED BY <1>1, <1>3, <1>4, <1>5, <2>1, <2>2, <2>3 DEF Poster, AddLabels, SetLabels, RemoveLabels
<1>8. Whole'
  BY <1>1, <1>2, WholeKept DEF Typed
<1>9. Fits(l, req[t].op) /\ l \in Labels
  BY <1>1, <1>3, LabelFits DEF RemoveLabels
<1> QED BY <1>1, <1>2, <1>3, <1>4, <1>7, <1>8, <1>9, PosterMoves, ZenonT(60)

-----------------------------------------------------------------------------
(* What a POST does to the list.                                           *)

\* A step of the only POST keeps the invariant if it keeps the shape of the
\* array, what concerns itself, and what the readers know.
LEMMA PosterSteps ==
    ASSUME IInv, NEW t \in Threads, pc[t] \in PostLabels,
           NEW l \in Labels, NEW x \in Locals, NEW a \in AnswerSet,
           pc' = [pc EXCEPT ![t] = l], loc' = [loc EXCEPT ![t] = x],
           answer' = [answer EXCEPT ![t] = a], UNCHANGED <<req, before>>,
           TypeOK', Array', Distinct', IdsCounted', Whole', BooksKept',
           modCount <= modCount', modCount' \in Nat, \A u \in Threads \ {t} : ids'[u] = ids[u],
           \A o \in Objects : ids[o] >= 0 => ids'[o] = ids[o],
           Fits(l, req[t].op), l # "idle", x.mod <= modCount',
           l \in {"size", "lastIndex", "checkIndex", "readLast"} => ids'[t] = NoId,
           IF l = "answered" THEN a.status = "done" ELSE a = answer[t],
           l # "answered" => Poster(t)',
           \A u \in Threads : Reading(u) =>
               /\ Disturbed(u) => Disturbed(u)'
               /\ \A o \in Objects : Precedes(u, o) => Precedes(u, o)'
               /\ NoneGone(u)'
    PROVE  IInv'
<1>1. /\ Posting(t) /\ Where(t) /\ req[t].op \in {"add", "change", "remove"} /\ Running(t)
      /\ \A u \in Threads : u # t => ~ Posting(u)
  BY PosterFacts
<1>2. Typed /\ modCount \in Nat /\ TypeOK
  BY PosterLocals DEF IInv
<1>3. /\ pc'[t] = l /\ loc'[t] = x /\ answer'[t] = a
      /\ \A u \in Threads \ {t} : pc'[u] = pc[u] /\ loc'[u] = loc[u] /\ answer'[u] = answer[u]
  BY <1>2 DEF Typed
<1>4. \A u \in Threads : u # t => ~ Posting(u)'
  BY <1>1, <1>3 DEF Posting, Running
<1>5. OnePoster'
  BY <1>4 DEF OnePoster
<1>6. \A o \in Answered : o \in Answered'
  BY <1>1, <1>3 DEF Answered, Running
<1>7. Where(t)'
  BY <1>1, <1>3, <1>6 DEF Where, Running
<1>8. ASSUME NEW u \in Threads, u # t PROVE Where(u)'
  <2>1. Where(u) /\ loc[u].mod \in Nat
    BY <1>2 DEF IInv, Typed, Locals
  <2>2. loc[u].mod <= modCount'
    BY <1>2, <2>1 DEF Where
  <2> QED BY <1>3, <1>6, <1>8, <2>1, <2>2 DEF Where
<1>9. ASSUME NEW u \in Threads PROVE Told(u)'
  <2>1. CASE u = t
    BY <1>1, <1>3, <2>1 DEF Told, Where, Running
  <2>2. CASE u # t
    <3> PICK r : r = answer[u].books
      OBVIOUS
    <3>1. answer'[u] = answer[u] /\ Told(u) /\ r \in Seq(ReadBooks)
      BY <1>2, <1>3, <2>2 DEF IInv, Typed, AnswerSet
    <3>2. \A k \in Named(r) : r[k].book \in Objects
      BY <3>1, BooksNamed
    <3>3. answer[u].status = "list" => \A k \in Named(r) : ids'[r[k].book] = ids[r[k].book]
      BY <3>1, <3>2 DEF Told
    <3> QED BY <3>1, <3>3 DEF Told, UpTo
  <2> QED BY <2>1, <2>2
<1>10. ASSUME NEW u \in Threads, Posting(u)' PROVE Poster(u)'
  <2>1. u = t
    BY <1>4, <1>10
  <2>2. l # "answered"
    BY <1>3, <1>10, <2>1 DEF Posting, Running
  <2> QED BY <2>1, <2>2
<1>11. ASSUME NEW u \in Threads, Reading(u)' PROVE Reader(u)'
  <2>1. u # t
    BY <1>1, <1>11 DEF Reading, Posting
  <2>2. Reading(u) /\ pc'[u] = pc[u] /\ loc'[u] = loc[u] /\ before'[u] = before[u]
    BY <1>3, <1>11, <2>1 DEF Reading, Running
  <2>3. Reader(u)
    BY <2>2 DEF IInv
  <2> QED BY <1>2, <2>2, <2>3, ReaderKept
<1> QED BY <1>5, <1>7, <1>8, <1>9, <1>10, <1>11 DEF IInv

\* A book that leaves the list has been condemned.
LEMMA KeptFrom ==
    ASSUME IInv, UNCHANGED <<req, ids>>,
           \A o \in Acknowledged' : o \in Acknowledged \/ o \in Listed',
           \A o \in Objects : o \in Listed => o \in Listed' \/ Condemned(o)
    PROVE  BooksKept'
<1>1. \A o \in Objects : Condemned(o) => Condemned(o)'
  BY DEF Condemned, ids
<1>2. \A o \in Acknowledged : o \in Objects
  BY DEF Acknowledged, Objects
<1> QED BY <1>1, <1>2 DEF IInv, BooksKept

LEMMA ListedNext ==
    ASSUME TypeOK', Array'
    PROVE  Listed' = { es'[k] : k \in { j \in Places : j < size' } }
<1>1. size' \in 0 .. Capacity /\ \A k \in Places : k < size' => es'[k] \in Answered'
  BY DEF Array
<1>2. \A s \in 0 .. Capacity : /\ \A k \in 0 .. (s - 1) : k \in Places /\ k < s
                               /\ \A k \in Places : k < s => k \in 0 .. (s - 1)
  BY CapacityFacts DEF Places
<1>3. /\ \A k \in 0 .. (size' - 1) : k \in Places /\ k < size'
      /\ \A k \in Places : k < size' => k \in 0 .. (size' - 1)
  BY <1>1, <1>2
<1>4. \A o \in Answered' : o # Null
  BY ObjectFacts DEF Answered
<1> QED BY <1>1, <1>2, <1>3, <1>4 DEF Listed

\* No other thread is where only a POST can be.
LEMMA OthersRead ==
    ASSUME IInv, NEW t \in Threads, pc[t] \in PostLabels
    PROVE  /\ \A u \in Threads : u # t => pc[u] \notin PostLabels
           /\ \A u \in Threads : Reading(u) =>
                  u # t /\ loc[u] \in Locals /\ loc[u].mod <= modCount
                  /\ before[u].listed \subseteq Answered /\ before[u].gone \subseteq Answered
                  /\ Reader(u) /\ NoneGone(u)
<1>1. \A u \in Threads : u # t => ~ Posting(u)
  BY PosterFacts
<1>2. \A u \in Threads : pc[u] \in PostLabels => Posting(u)
  BY PosterFacts
<1>3. ~ Reading(t) /\ Typed
  BY PosterFacts, PosterLocals
<1> QED BY <1>1, <1>2, <1>3 DEF IInv, Where, Typed, Reader

\* modCount is written: every reader is disturbed.
LEMMA ModWritten ==
    ASSUME IInv, NEW t \in Threads, pc[t] \in PostLabels,
           NEW l \in Labels, pc' = [pc EXCEPT ![t] = l], modCount' = modCount + 1,
           UNCHANGED <<req, loc, answer, heap, es, size, before>>,
           pc[t] \notin {"addSize", "clear", "shift", "shrink", "setAuthor", "setYear"},
           l \notin {"answered", "idle", "size", "lastIndex", "checkIndex", "readLast"},
           Fits(l, req[t].op), Poster(t)'
    PROVE  IInv'
<1>1. /\ Typed /\ Whole /\ loc[t] \in Locals /\ loc[t].mod <= modCount /\ TypeOK
      /\ modCount \in Nat /\ answer[t] \in AnswerSet
      /\ answer = [answer EXCEPT ![t] = answer[t]] /\ loc = [loc EXCEPT ![t] = loc[t]]
  BY PosterLocals DEF IInv
<1>2. /\ pc'[t] = l /\ modCount' \in Nat /\ modCount <= modCount' /\ loc[t].mod <= modCount'
      /\ \A u \in Threads \ {t} : pc'[u] = pc[u]
  BY <1>1 DEF Typed, Locals
<1>3. TypeOK'
  BY <1>1, <1>2, TypeFacts DEF Typed
<1>4. UNCHANGED ids
  BY DEF ids
<1>5. \A o \in Answered : o \in Answered'
  BY <1>2, PosterFacts DEF Answered, Running
<1>6. /\ \A u \in Threads : pc[u] \in {"addSize", "clear"} => pc'[u] \in {"addSize", "clear"}
      /\ \A u \in Threads : pc[u] \in {"shift", "shrink"} => pc'[u] \in {"shift", "shrink"}
  BY <1>2
<1>7. Array'
  <2>1. Array
    BY DEF IInv
  <2> QED BY <1>4, <1>5, <1>6, <2>1 DEF Array, UpTo
<1>8. Distinct'
  BY <1>6 DEF IInv, Distinct
<1>9. IdsCounted'
  BY <1>4 DEF IInv, IdsCounted, Adders
<1>10. Whole'
  BY <1>1, <1>2, WholeKept
<1>11. BooksKept'
  BY <1>4, KeptFrom DEF Acknowledged, Listed
<1>12. ASSUME NEW u \in Threads, Reading(u)
       PROVE  /\ Disturbed(u)'
              /\ \A o \in Objects : Precedes(u, o) => Precedes(u, o)'
              /\ NoneGone(u)'
  <2>1. u # t /\ loc[u] \in Locals /\ loc[u].mod <= modCount /\ NoneGone(u)
    BY <1>12, OthersRead
  <2>2. Disturbed(u)'
    BY <1>1, <2>1 DEF Disturbed, Locals
  <2>3. \A o \in Objects : Late(u, o) => Late(u, o)'
    BY <2>2 DEF Late
  <2>4. \A p \in Ahead(u)' : p \in Ahead(u)
    <3> SUFFICES ASSUME NEW p \in Ahead(u)' PROVE p \in Ahead(u)
      OBVIOUS
    <3>1. p \in Places /\ p >= loc[u].i /\ es[p] # Null /\ ~ Late(u, es[p])'
      BY DEF Ahead, Late, Disturbed
    <3>2. es[p] \in Objects
      BY <1>1, <3>1 DEF Typed, Fields
    <3> QED BY <2>3, <3>1, <3>2 DEF Ahead
  <2>5. \A o \in Objects : Precedes(u, o) => Precedes(u, o)'
    BY <1>4, <2>2, <2>4 DEF Precedes, UpTo
  <2>6. NoneGone(u)'
    BY <1>2, <2>1 DEF NoneGone
  <2> QED BY <2>2, <2>5, <2>6
<1> QED BY <1>1, <1>2, <1>3, <1>4, <1>7, <1>8, <1>9, <1>10, <1>11, <1>12, PosterSteps

LEMMA AddWriteModInv == ASSUME IInv, NEW t \in Threads, AddWriteMod(t) PROVE IInv'
<1>1. /\ pc[t] = "addWriteMod" /\ pc' = [pc EXCEPT ![t] = "addReadSize"] /\ modCount' = loc[t].mod + 1
      /\ UNCHANGED <<req, loc, answer, heap, es, size, before, ids>>
      /\ pc[t] \in PostLabels
  BY LabelFits DEF AddWriteMod, Go, ids, AddLabels
<1>2. loc[t].mod = modCount /\ Newest(t) /\ req[t].op = "add"
  BY <1>1, PosterFacts DEF Poster, Where, Fits, AddLabels
<1>3. pc'[t] = "addReadSize"
  BY <1>1, PosterLocals DEF Typed
<1>4. Poster(t)'
  BY <1>1, <1>2, <1>3 DEF Poster, AddLabels, SetLabels, RemoveLabels, Newest
<1>5. Fits("addReadSize", req[t].op) /\ "addReadSize" \in Labels
  BY <1>2, LabelFits DEF AddLabels
<1> QED BY <1>1, <1>2, <1>4, <1>5, ModWritten

LEMMA RemoveWriteModInv == ASSUME IInv, NEW t \in Threads, RemoveWriteMod(t) PROVE IInv'
<1>1. /\ pc[t] = "removeWriteMod" /\ pc' = [pc EXCEPT ![t] = "newSize"] /\ modCount' = loc[t].mod + 1
      /\ UNCHANGED <<req, loc, answer, heap, es, size, before, ids>>
      /\ pc[t] \in PostLabels
  BY LabelFits DEF RemoveWriteMod, Go, ids, RemoveLabels
<1>2. /\ loc[t].mod = modCount /\ req[t].op = "remove"
      /\ loc[t].cur \in Objects /\ ids[loc[t].cur] = req[t].id
      /\ loc[t].i < size /\ es[loc[t].i] = loc[t].cur
  BY <1>1, PosterFacts DEF Poster, Where, Fits, RemoveLabels
<1>3. pc'[t] = "newSize"
  BY <1>1, PosterLocals DEF Typed
<1>4. Poster(t)'
  BY <1>1, <1>2, <1>3 DEF Poster, AddLabels, SetLabels, RemoveLabels
<1>5. Fits("newSize", req[t].op) /\ "newSize" \in Labels
  BY <1>2, LabelFits DEF RemoveLabels
<1> QED BY <1>1, <1>2, <1>4, <1>5, ModWritten

\* An id is given to the thread's book, which is in no list and in no answer.
LEMMA NewIdInv ==
    ASSUME IInv, NEW t \in Threads, pc[t] \in {"size", "readLast"}, req[t].op = "add",
           NEW n \in Nat, n <= Cardinality(Adders) + 1, n >= size,
           \A k \in Places : k < size => ids[es[k]] < n,
           HasNewId(t, n), UNCHANGED <<req, loc, answer, list, before>>
    PROVE  IInv'
<1>1. /\ pc' = [pc EXCEPT ![t] = "addReadMod"] /\ heap' = [heap EXCEPT ![t].id = n]
      /\ UNCHANGED <<req, loc, answer, es, size, modCount, before>>
      /\ pc[t] \in PostLabels
  BY LabelFits DEF HasNewId, Go, list
<1>2. /\ Typed /\ Whole /\ loc[t] \in Locals /\ loc[t].mod <= modCount /\ heap \in Heaps
      /\ size \in 0 .. Capacity /\ modCount \in Nat /\ answer[t] \in AnswerSet
      /\ ids \in [Objects -> NoId .. MaxId]
      /\ answer = [answer EXCEPT ![t] = answer[t]] /\ loc = [loc EXCEPT ![t] = loc[t]]
      /\ Array /\ Distinct /\ TypeOK
  BY <1>1, PosterLocals DEF IInv
<1>3. ids[t] = NoId /\ Running(t) /\ answer[t].status = "none" /\ t \in Objects
  BY <1>1, PosterFacts, ObjectFacts DEF Where, Running
<1>4. /\ IsFiniteSet(Adders) /\ Cardinality(Adders) \in Nat
      /\ Cardinality(Adders \union {t}) = Cardinality(Adders) + 1
      /\ Cardinality(Adders \union {t}) <= MaxId
  <2>1. Adders \subseteq Threads /\ t \notin Adders /\ Adders \union {t} \subseteq Threads
    BY <1>3 DEF Adders
  <2>2. IsFiniteSet(Adders) /\ IsFiniteSet(Adders \union {t})
    BY <2>1, CapacityFacts, FS_Subset
  <2> QED BY <2>1, <2>2, CapacityFacts, FS_AddElement, FS_CardinalityType, FS_Subset
<1>5. n \in NoId .. MaxId /\ n < Capacity
  BY <1>4, CapacityFacts DEF NoId
<1>6. /\ heap' \in Heaps /\ heap'[t].id = n
      /\ \A o \in Objects : o # t => heap'[o] = heap[o]
      /\ \A o \in Objects : /\ heap'[o].name = heap[o].name
                            /\ heap'[o].author = heap[o].author /\ heap'[o].year = heap[o].year
  BY <1>1, <1>2, <1>3, <1>5 DEF Heaps
<1>7. ids'[t] = n /\ \A o \in Objects : o # t => ids'[o] = ids[o]
  BY <1>3, <1>6 DEF ids
<1>8. pc'[t] = "addReadMod" /\ \A u \in Threads \ {t} : pc'[u] = pc[u]
  BY <1>1, <1>2 DEF Typed
<1>9. "addReadMod" \in Labels /\ Fits("addReadMod", req[t].op)
  BY LabelFits DEF AddLabels
<1>10. TypeOK'
  BY <1>1, <1>2, <1>6, <1>9, TypeFacts DEF Typed
<1>11. Answered' = Answered /\ t \notin Answered
  BY <1>3, <1>8, ThreadsAssumption DEF Answered, Running
<1>12. \A k \in Places : es[k] # t
  <2>1. \A u \in Threads : pc[u] \notin {"addSize", "clear"}
    BY <1>1, OthersRead DEF PostLabels
  <2>2. \A k \in Places : k \in Int /\ size \in Int
    BY <1>2, CapacityFacts DEF Places
  <2>3. t # Null
    BY <1>3, ObjectFacts
  <2> QED BY <1>2, <1>11, <2>1, <2>2, <2>3 DEF Array
<1>13. \A k \in Places : es[k] # Null => es[k] \in Objects /\ ids'[es[k]] = ids[es[k]]
  BY <1>2, <1>7, <1>12 DEF Typed, Fields
<1>14. Array'
  <2>1. \A u \in Threads : pc[u] \in {"addSize", "clear"} => pc'[u] \in {"addSize", "clear"}
    BY <1>8
  <2> QED BY <1>1, <1>2, <1>11, <1>13, <2>1 DEF Array, UpTo
<1>15. Distinct'
  <2>1. \A u \in Threads : pc[u] \in {"shift", "shrink"} => pc'[u] \in {"shift", "shrink"}
    BY <1>8
  <2> QED BY <1>1, <1>2, <2>1 DEF Distinct
<1>16. IdsCounted'
  <2>1. Adders' = Adders \union {t}
    BY <1>3, <1>7, ObjectFacts DEF Adders, NoId
  <2>2. \A o \in Objects : ids[o] <= Cardinality(Adders) /\ ids[o] \in Int
    BY <1>2, CapacityFacts DEF IInv, IdsCounted, NoId
  <2>3. Cardinality(Adders') = Cardinality(Adders) + 1
    BY <1>4, <2>1
  <2> QED BY <1>4, <1>7, <2>2, <2>3 DEF IdsCounted
<1>17. Whole'
  <2>1. \A u \in Threads, o \in Objects : Changing(u, o) => Changing(u, o)'
    BY <1>1, <1>8 DEF Changing
  <2> QED BY <1>2, <1>6, <2>1 DEF Whole
<1>18. BooksKept'
  <2>1. Acknowledged' = Acknowledged /\ t \notin Acknowledged /\ Listed' = Listed
    BY <1>1, <1>3, ThreadsAssumption DEF Acknowledged, Listed
  <2>2. \A o \in Acknowledged : o \in Objects /\ heap'[o] = heap[o]
    BY <1>6, <2>1, ObjectFacts DEF Acknowledged
  <2> QED BY <1>1, <2>1, <2>2 DEF IInv, BooksKept, Condemned
<1>19. Poster(t)'
  <2>1. Newest(t)'
    <3>1. \A k \in Places : k < size => ids'[es[k]] < n
      <4>1. \A k \in Places : k < size => es[k] # Null
        BY <1>2, ObjectFacts DEF Array, Answered
      <4> QED BY <1>13, <4>1
    <3> QED BY <1>1, <1>5, <1>7, <3>1 DEF Newest
  <2> QED BY <1>8, <2>1 DEF Poster, AddLabels, SetLabels, RemoveLabels
<1>20. ASSUME NEW u \in Threads, Reading(u)
       PROVE  /\ Disturbed(u) => Disturbed(u)'
              /\ \A o \in Objects : Precedes(u, o) => Precedes(u, o)'
              /\ NoneGone(u)'
  <2>1. u # t /\ NoneGone(u)
    BY <1>1, <1>20, OthersRead
  <2>2. \A o \in Objects : Late(u, o)' => Late(u, o)
    BY <1>1 DEF Late, Disturbed
  <2>3. \A p \in Ahead(u)' : p \in Ahead(u) /\ ids'[es[p]] = ids[es[p]]
    <3> SUFFICES ASSUME NEW p \in Ahead(u)' PROVE p \in Ahead(u) /\ ids'[es[p]] = ids[es[p]]
      OBVIOUS
    <3>1. p \in Places /\ p >= loc[u].i /\ es[p] # Null /\ ~ Late(u, es[p])'
      BY <1>1 DEF Ahead, Late, Disturbed
    <3>2. ~ Late(u, es[p])
      BY <1>1, <3>1 DEF Late, Disturbed
    <3> QED BY <1>13, <3>1, <3>2 DEF Ahead
  <2>4. \A w \in Threads : pc'[w] \in {"addReadSize", "addStore"} =>
            pc[w] \in {"addReadSize", "addStore"} /\ ids'[w] = ids[w]
    BY <1>7, <1>8, ObjectFacts
  <2>5. \A o \in Objects : ids[o] >= 0 => ids'[o] = ids[o]
    BY <1>3, <1>7 DEF NoId
  <2>6. ASSUME NEW o \in Objects, Precedes(u, o) PROVE Precedes(u, o)'
    <3>1. ids'[o] = ids[o] /\ ids[o] >= 0 /\ o \notin before'[u].gone
      BY <1>1, <2>5, <2>6 DEF Precedes
    <3>2. \A p \in Ahead(u)' : UpTo(o, es[p])'
      BY <1>1, <2>3, <2>6, <3>1 DEF Precedes, UpTo
    <3>3. \A w \in Threads : pc'[w] \in {"addReadSize", "addStore"} /\ ~ Disturbed(u)' => ids'[o] < ids'[w]
      BY <1>1, <2>4, <2>6, <3>1 DEF Precedes, Disturbed
    <3> QED BY <3>1, <3>2, <3>3 DEF Precedes
  <2>7. NoneGone(u)'
    BY <1>1, <1>8, <2>1 DEF NoneGone
  <2> QED BY <1>1, <2>6, <2>7 DEF Disturbed
<1>21. /\ modCount' \in Nat /\ modCount <= modCount' /\ loc[t].mod <= modCount'
       /\ \A u \in Threads \ {t} : ids'[u] = ids[u]
       /\ \A o \in Objects : ids[o] >= 0 => ids'[o] = ids[o]
       /\ loc' = [loc EXCEPT ![t] = loc[t]] /\ answer' = [answer EXCEPT ![t] = answer[t]]
  BY <1>1, <1>2, <1>3, <1>7, ObjectFacts DEF NoId
<1> QED BY <1>1, <1>2, <1>9, <1>10, <1>14, <1>15, <1>16, <1>17, <1>18, <1>19, <1>20, <1>21, PosterSteps

\* A POST that adds nothing has no use for the id.
LEMMA NoNewIdInv ==
    ASSUME IInv, NEW t \in Threads, pc[t] \in {"size", "readLast"}, req[t].op # "add",
           NEW n, HasNewId(t, n), UNCHANGED <<req, loc, answer, list, before>>
    PROVE  IInv'
<1>1. /\ pc' = [pc EXCEPT ![t] = "iterator"] /\ pc[t] \in PostLabels
      /\ UNCHANGED <<req, loc, answer, heap, es, size, modCount, before, ids>>
  BY LabelFits DEF HasNewId, Go, list, ids
<1>2. /\ Typed /\ Whole /\ loc[t] \in Locals /\ loc[t].mod <= modCount /\ heap \in Heaps
      /\ answer[t] \in AnswerSet
      /\ answer = [answer EXCEPT ![t] = answer[t]] /\ loc = [loc EXCEPT ![t] = loc[t]]
  BY <1>1, PosterLocals
<1>3. Posting(t) /\ req[t].op \in {"change", "remove"}
  BY <1>1, PosterFacts
<1>4. pc'[t] = "iterator"
  BY <1>1, <1>2 DEF Typed
<1>5. Poster(t)'
  BY <1>4 DEF Poster, AddLabels, SetLabels, RemoveLabels
<1>6. Whole'
  BY <1>1, <1>2, WholeKept DEF Typed
<1>7. Fits("iterator", req[t].op) /\ "iterator" \in Labels
  BY <1>3, LabelFits, LoopFits DEF LoopLabels
<1> QED BY <1>1, <1>2, <1>3, <1>5, <1>6, <1>7, PosterMoves, ZenonT(60)

LEMMA ReadSizeInv == ASSUME IInv, NEW t \in Threads, ReadSize(t) PROVE IInv'
<1>1. pc[t] = "size" /\ UNCHANGED <<req, loc, answer, list, before>> /\ pc[t] \in PostLabels
  BY LabelFits DEF ReadSize
<1>2. /\ Typed /\ Whole /\ loc[t] \in Locals /\ loc[t].mod <= modCount /\ heap \in Heaps
      /\ size \in 0 .. Capacity /\ answer[t] \in AnswerSet
      /\ answer = [answer EXCEPT ![t] = answer[t]] /\ loc = [loc EXCEPT ![t] = loc[t]]
  BY <1>1, PosterLocals
<1>3. Posting(t) /\ req[t].op \in {"add", "change", "remove"} /\ ids[t] = NoId
  BY <1>1, PosterFacts DEF Where
<1>4. CASE size # 0
  <2>1. /\ pc' = [pc EXCEPT ![t] = "lastIndex"]
        /\ UNCHANGED <<req, loc, answer, heap, es, size, modCount, before, ids>>
    BY <1>1, <1>4 DEF ReadSize, Go, list, ids
  <2>2. pc'[t] = "lastIndex"
    BY <1>2, <2>1 DEF Typed
  <2>3. Poster(t)'
    BY <1>2, <1>4, <2>1, <2>2 DEF Poster, AddLabels, SetLabels, RemoveLabels
  <2>4. Whole'
    BY <1>1, <1>2, <2>1, WholeKept DEF Typed
  <2>5. Fits("lastIndex", req[t].op) /\ "lastIndex" \in Labels
    BY <1>3, LabelFits
  <2> QED BY <1>1, <1>2, <1>3, <2>1, <2>3, <2>4, <2>5, PosterMoves, ZenonT(60)
<1>5. CASE size = 0
  <2>1. HasNewId(t, 0)
    BY <1>5 DEF ReadSize
  <2>2. 0 <= Cardinality(Adders) + 1
    <3>1. IsFiniteSet(Adders)
      BY CapacityFacts, FS_Subset DEF Adders
    <3> QED BY <3>1, FS_CardinalityType
  <2>3. \A k \in Places : ~ (k < size)
    BY <1>5, CapacityFacts DEF Places
  <2> QED BY <1>1, <1>3, <1>5, <2>1, <2>2, <2>3, NewIdInv, NoNewIdInv
<1> QED BY <1>4, <1>5

\* The last book is there and has the greatest id.
LEMMA ReadLastInv == ASSUME IInv, NEW t \in Threads, ReadLast(t) PROVE IInv'
<1> PICK last, k : k = loc[t].n /\ last = es[k]
  OBVIOUS
<1>1. pc[t] = "readLast" /\ UNCHANGED <<req, list, before>> /\ pc[t] \in PostLabels
  BY LabelFits DEF ReadLast
<1>2. Typed /\ size \in 0 .. Capacity /\ Array /\ ids \in [Objects -> NoId .. MaxId]
  BY <1>1, PosterLocals DEF IInv
<1>3. size > 0 /\ k = size - 1 /\ req[t].op \in {"add", "change", "remove"}
  BY <1>1, PosterFacts DEF Poster
<1>4. k \in Places /\ k < size /\ k \in Nat
  BY <1>2, <1>3, CapacityFacts DEF Places
<1>5. last \in Answered /\ last \in Objects /\ last # Null
  BY <1>2, <1>4, ObjectFacts DEF Array, Answered
<1>6. HasNewId(t, ids[last] + 1) /\ UNCHANGED <<loc, answer>>
  BY <1>5 DEF ReadLast, ids
<1>7. ids[last] >= k /\ ids[last] \in Nat /\ ids[last] + 1 \in Nat /\ ids[last] + 1 >= size
  <2>1. ids[last] >= k
    BY <1>2, <1>4, <1>5 DEF Array
  <2> QED BY <1>2, <1>3, <1>4, <1>5, <2>1, CapacityFacts DEF NoId
<1>8. ids[last] + 1 <= Cardinality(Adders) + 1
  <2>1. IsFiniteSet(Adders)
    BY CapacityFacts, FS_Subset DEF Adders
  <2>2. Cardinality(Adders) \in Nat /\ ids[last] <= Cardinality(Adders)
    BY <1>5, <2>1, FS_CardinalityType DEF IInv, IdsCounted
  <2> QED BY <1>7, <2>2
<1>9. ASSUME NEW j \in Places, j < size PROVE ids[es[j]] < ids[last] + 1
  <2>1. es[j] \in Answered /\ es[j] \in Objects /\ es[j] # Null /\ j \in Int
    BY <1>2, <1>9, ObjectFacts, CapacityFacts DEF Array, Answered, Places
  <2>2. j = k \/ j < k
    BY <1>2, <1>3, <1>9, <2>1
  <2>3. UpTo(es[j], last)
    BY <1>2, <1>4, <1>5, <2>1, <2>2 DEF Array, UpTo
  <2>4. ids[es[j]] \in Int
    BY <1>2, <2>1, CapacityFacts DEF NoId
  <2> QED BY <1>7, <2>3, <2>4 DEF UpTo
<1> QED BY <1>1, <1>3, <1>6, <1>7, <1>8, <1>9, NewIdInv, NoNewIdInv

\* A book ahead of a reader was ahead of it, or on its way.
LEMMA StillPrecedes ==
    ASSUME NEW u \in Threads, loc'[u] = loc[u], UNCHANGED <<modCount, ids, before>>,
           \A w \in Threads : pc'[w] \in {"addReadSize", "addStore"} =>
               pc[w] \in {"addReadSize", "addStore"},
           \A p \in Places : p >= loc[u].i /\ es'[p] # Null /\ ~ Late(u, es'[p]) =>
               \/ \E q \in Ahead(u) : es[q] = es'[p]
               \/ es'[p] \in Threads /\ pc[es'[p]] \in {"addReadSize", "addStore"} /\ ~ Disturbed(u)
    PROVE  /\ Disturbed(u) => Disturbed(u)'
           /\ \A o \in Objects : Precedes(u, o) => Precedes(u, o)'
<1>1. (Disturbed(u) => Disturbed(u)') /\ (Disturbed(u)' => Disturbed(u))
  BY DEF Disturbed
<1>2. ASSUME NEW o \in Objects, Precedes(u, o) PROVE Precedes(u, o)'
  <2>1. \A p \in Ahead(u)' : UpTo(o, es[p])'
    <3> SUFFICES ASSUME NEW p \in Ahead(u)' PROVE UpTo(o, es[p])'
      OBVIOUS
    <3>1. p \in Places /\ p >= loc[u].i /\ es'[p] # Null /\ ~ Late(u, es'[p])
      BY DEF Ahead, Late, Disturbed
    <3>2. CASE \E q \in Ahead(u) : es[q] = es'[p]
      BY <1>2, <3>2 DEF Precedes, UpTo
    <3>3. CASE es'[p] \in Threads /\ pc[es'[p]] \in {"addReadSize", "addStore"} /\ ~ Disturbed(u)
      BY <1>2, <3>3 DEF Precedes, UpTo
    <3> QED BY <3>1, <3>2, <3>3
  <2> QED BY <1>1, <1>2, <2>1 DEF Precedes
<1> QED BY <1>1, <1>2

\* The new book goes behind the last place, where it is not listed yet.
LEMMA AddStoreInv == ASSUME IInv, NEW t \in Threads, AddStore(t) PROVE IInv'
<1>1. pc[t] = "addStore" /\ UNCHANGED <<req, heap, size, modCount, before, ids>> /\ pc[t] \in PostLabels
  BY LabelFits DEF AddStore, ids, AddLabels
<1>2. /\ Typed /\ Whole /\ loc[t] \in Locals /\ loc[t].mod <= modCount /\ heap \in Heaps
      /\ size \in 0 .. Capacity /\ modCount \in Nat /\ answer[t] \in AnswerSet
      /\ ids \in [Objects -> NoId .. MaxId]
      /\ answer = [answer EXCEPT ![t] = answer[t]] /\ loc = [loc EXCEPT ![t] = loc[t]]
      /\ Array /\ Distinct
  BY <1>1, PosterLocals DEF IInv
<1>3. loc[t].n = size /\ Newest(t) /\ req[t].op = "add" /\ Running(t) /\ t \in Objects /\ t # Null
  BY <1>1, PosterFacts, ObjectFacts DEF Poster, Where, Fits, AddLabels
<1>4. size < Capacity /\ size \in Places /\ ids[t] >= size
  BY <1>2, <1>3, CapacityFacts DEF Newest, Places, NoId
<1>5. /\ pc' = [pc EXCEPT ![t] = "addSize"] /\ es' = [es EXCEPT ![size] = t]
      /\ UNCHANGED <<loc, answer>>
  BY <1>2, <1>3 DEF AddStore, Go
<1>6. pc'[t] = "addSize" /\ \A u \in Threads \ {t} : pc'[u] = pc[u]
  BY <1>2, <1>5 DEF Typed
<1>7. es'[size] = t /\ (\A k \in Places : k # size => es'[k] = es[k]) /\ es' \in [Places -> Fields]
  BY <1>2, <1>3, <1>4, <1>5, ObjectFacts DEF Typed
<1>8. "addSize" \in Labels /\ Fits("addSize", req[t].op)
  BY <1>3, LabelFits
<1>9. TypeOK'
  BY <1>1, <1>2, <1>5, <1>7, <1>8, TypeFacts DEF Typed
<1>10. Answered' = Answered /\ t \notin Answered
  BY <1>3, <1>6, ThreadsAssumption DEF Answered, Running
<1>11. \A k \in Places : k \in Int
  BY CapacityFacts DEF Places
<1>12. Array'
  <2>1. \A k \in Places : k < size => es'[k] = es[k] /\ es[k] \in Answered /\ ids[es[k]] < ids[t]
    BY <1>2, <1>3, <1>7 DEF Array, Newest
  <2>2. \A k \in Places : k > size => es'[k] = Null
    BY <1>2, <1>7, <1>11 DEF Array
  <2>3. \A k \in Places : es'[k] # Null => ids[es'[k]] >= k
    BY <1>2, <1>4, <1>7 DEF Array
  <2>4. ASSUME NEW j \in Places, NEW k \in Places, j < k, es'[j] # Null, es'[k] # Null
        PROVE  UpTo(es'[j], es'[k])
    <3>1. k <= size
      BY <1>2, <1>11, <2>2, <2>4
    <3>2. CASE k = size
      BY <1>7, <2>1, <2>4, <3>2 DEF UpTo
    <3>3. CASE k < size
      BY <1>2, <1>7, <1>11, <2>4, <3>3 DEF Array
    <3> QED BY <1>2, <1>11, <3>1, <3>2, <3>3
  <2> QED BY <1>1, <1>2, <1>6, <1>10, <2>1, <2>2, <2>3, <2>4 DEF Array, UpTo
<1>13. Distinct'
  <2>1. \A u \in Threads : pc[u] \in {"shift", "shrink"} => pc'[u] \in {"shift", "shrink"}
    BY <1>1, <1>6
  <2>2. ASSUME NEW j \in Places, NEW k \in Places, j < k, k < size, es'[j] = es'[k]
        PROVE  es[j] = es[k]
    <3>1. j # size /\ k # size
      BY <1>2, <1>11, <2>2
    <3> QED BY <1>7, <2>2, <3>1
  <2> QED BY <1>1, <1>2, <1>5, <2>1, <2>2 DEF Distinct
<1>14. IdsCounted' /\ Whole'
  <2>1. IdsCounted'
    BY <1>1 DEF IInv, IdsCounted, Adders
  <2> QED BY <1>1, <1>2, <1>5, <1>6, <2>1, WholeKept
<1>15. BooksKept'
  <2>1. \A k \in 0 .. (size - 1) : es'[k] = es[k]
    BY <1>2, <1>7, CapacityFacts DEF Places
  <2>2. Listed' = Listed
    BY <1>1, <2>1 DEF Listed
  <2> QED BY <1>1, <1>5, <2>2, KeptFrom DEF Acknowledged
<1>16. Poster(t)'
  BY <1>1, <1>3, <1>4, <1>5, <1>6, <1>7 DEF Poster, AddLabels, SetLabels, RemoveLabels
<1>17. ASSUME NEW u \in Threads, Reading(u)
       PROVE  /\ Disturbed(u) => Disturbed(u)'
              /\ \A o \in Objects : Precedes(u, o) => Precedes(u, o)'
              /\ NoneGone(u)'
  <2>1. /\ u # t /\ NoneGone(u)
        /\ before[u].listed \subseteq Answered /\ before[u].gone \subseteq Answered
    BY <1>1, <1>17, OthersRead
  <2>2. loc'[u] = loc[u] /\ pc'[u] = pc[u]
    BY <1>5, <1>6, <2>1
  <2>3. \A w \in Threads : pc'[w] \in {"addReadSize", "addStore"} => pc[w] \in {"addReadSize", "addStore"}
    BY <1>6
  <2>4. ASSUME NEW p \in Places, p >= loc[u].i, es'[p] # Null, ~ Late(u, es'[p])
        PROVE  \/ \E q \in Ahead(u) : es[q] = es'[p]
               \/ es'[p] \in Threads /\ pc[es'[p]] \in {"addReadSize", "addStore"} /\ ~ Disturbed(u)
    <3>1. CASE p = size
      BY <1>1, <1>7, <1>10, <2>1, <2>4, <3>1 DEF Late
    <3>2. CASE p # size
      BY <1>7, <2>4, <3>2 DEF Ahead
    <3> QED BY <3>1, <3>2
  <2>5. NoneGone(u)'
    BY <1>1, <1>7, <1>10, <2>1, <2>2 DEF NoneGone
  <2> QED BY <1>1, <2>2, <2>3, <2>4, <2>5, StillPrecedes
<1>18. /\ \A o \in Objects : ids[o] >= 0 => ids'[o] = ids[o]
       /\ modCount' \in Nat /\ modCount <= modCount' /\ loc[t].mod <= modCount'
       /\ loc' = [loc EXCEPT ![t] = loc[t]] /\ answer' = [answer EXCEPT ![t] = answer[t]]
  BY <1>1, <1>2, <1>5
<1> QED BY <1>1, <1>2, <1>5, <1>8, <1>9, <1>12, <1>13, <1>14, <1>15, <1>16, <1>17, <1>18, PosterSteps

\* The new book is listed, and its client is answered.
LEMMA AddSizeInv == ASSUME IInv, NEW t \in Threads, AddSize(t) PROVE IInv'
<1> PICK a : a = [status |-> "done", books |-> << >>]
  OBVIOUS
<1>1. /\ pc[t] = "addSize" /\ UNCHANGED <<req, heap, es, modCount, before, ids>> /\ pc[t] \in PostLabels
      /\ pc' = [pc EXCEPT ![t] = "answered"] /\ loc' = [loc EXCEPT ![t] = NoLocals]
      /\ answer' = [answer EXCEPT ![t] = a] /\ size' = loc[t].n + 1
  BY LabelFits DEF AddSize, ids, Done, Reply, Go
<1>2. /\ Typed /\ Whole /\ loc[t] \in Locals /\ size \in 0 .. Capacity /\ modCount \in Nat
      /\ NoLocals \in Locals /\ NoLocals.mod <= modCount /\ a \in AnswerSet /\ a.status = "done"
      /\ Array /\ Distinct
  BY <1>1, PosterLocals, NoLocalsType DEF IInv, AnswerSet
<1>3. /\ loc[t].n = size /\ size < Capacity /\ es[size] = t
      /\ req[t].op = "add" /\ Running(t) /\ t \in Objects /\ t # Null
  BY <1>1, PosterFacts, ObjectFacts DEF Poster, Where, Fits
<1>4. size' = size + 1 /\ size' \in 0 .. Capacity /\ size' \in -Capacity .. Capacity /\ size \in Places
  BY <1>1, <1>2, <1>3, CapacityFacts DEF Places
<1>5. pc'[t] = "answered" /\ \A u \in Threads \ {t} : pc'[u] = pc[u] /\ loc'[u] = loc[u]
  BY <1>1, <1>2 DEF Typed
<1>6. "answered" \in Labels /\ Fits("answered", req[t].op)
  BY <1>3, LabelFits, LoopFits
<1>7. TypeOK'
  BY <1>1, <1>2, <1>4, <1>6, TypeFacts DEF Typed
<1>8. (\A o \in Answered : o \in Answered') /\ t \in Answered' /\ t \notin Answered
  BY <1>1, <1>3, <1>5, ThreadsAssumption DEF Answered, Running
<1>9. \A k \in Places : k \in Int /\ (k < size' => k < size \/ k = size)
                                  /\ (k >= size' => k > size) /\ (k > size' => k > size)
  BY <1>2, <1>4, CapacityFacts DEF Places
<1>10. Array'
  <2>1. \A k \in Places : k < size' => es[k] \in Answered'
    BY <1>2, <1>3, <1>8, <1>9 DEF Array
  <2>2. \A k \in Places : k >= size' => es[k] = Null
    BY <1>2, <1>9 DEF Array
  <2>3. \A k \in Places : (k > size' => k >= size') /\ (k = size' => k >= size')
    BY <1>4, <1>9
  <2> QED BY <1>1, <1>2, <1>4, <2>1, <2>2, <2>3 DEF Array, UpTo
<1>11. Distinct'
  <2> SUFFICES ASSUME NEW j \in Places, NEW k \in Places, j < k, k < size', es[j] = es[k]
               PROVE  FALSE
    BY <1>1 DEF Distinct
  <2>1. \A u \in Threads : pc[u] \notin {"shift", "shrink"}
    BY <1>1, OthersRead DEF PostLabels
  <2>2. CASE k < size
    BY <1>2, <2>1, <2>2 DEF Distinct
  <2>3. CASE k = size
    BY <1>2, <1>3, <1>8, <2>3 DEF Array
  <2> QED BY <1>9, <2>2, <2>3
<1>12. IdsCounted' /\ Whole'
  <2>1. IdsCounted'
    BY <1>1 DEF IInv, IdsCounted, Adders
  <2> QED BY <1>1, <1>2, <1>5, <2>1, WholeKept
<1>13. BooksKept'
  <2>1. \A k \in 0 .. (size - 1) : k \in 0 .. (size' - 1)
    BY <1>2, <1>4, CapacityFacts
  <2>2. size \in 0 .. (size' - 1)
    BY <1>2, <1>4, CapacityFacts
  <2>3. (\A o \in Listed : o \in Listed') /\ t \in Listed'
    BY <1>1, <1>3, <2>1, <2>2 DEF Listed
  <2>4. \A o \in Acknowledged' : o \in Acknowledged \/ o = t
    BY <1>1, <1>2 DEF Acknowledged, Typed
  <2> QED BY <1>1, <2>3, <2>4, KeptFrom
<1>14. ASSUME NEW u \in Threads, Reading(u)
       PROVE  /\ Disturbed(u) => Disturbed(u)'
              /\ \A o \in Objects : Precedes(u, o) => Precedes(u, o)'
              /\ NoneGone(u)'
  <2>1. u # t /\ NoneGone(u) /\ before[u].gone \subseteq Answered
    BY <1>1, <1>14, OthersRead
  <2>2. loc'[u] = loc[u] /\ pc'[u] = pc[u]
    BY <1>5, <2>1
  <2>3. \A w \in Threads : pc'[w] \in {"addReadSize", "addStore"} => pc[w] \in {"addReadSize", "addStore"}
    BY <1>5
  <2>4. \A p \in Places : p >= loc[u].i /\ es'[p] # Null /\ ~ Late(u, es'[p]) =>
            \E q \in Ahead(u) : es[q] = es'[p]
    BY <1>1 DEF Ahead
  <2>5. NoneGone(u)'
    BY <1>1, <1>3, <1>8, <1>9, <2>1, <2>2 DEF NoneGone
  <2> QED BY <1>1, <2>2, <2>3, <2>4, <2>5, StillPrecedes
<1>15. /\ \A o \in Objects : ids[o] >= 0 => ids'[o] = ids[o]
       /\ modCount' \in Nat /\ modCount <= modCount' /\ NoLocals.mod <= modCount'
  BY <1>1, <1>2
<1> QED BY <1>1, <1>2, <1>6, <1>7, <1>10, <1>11, <1>12, <1>13, <1>14, <1>15, PosterSteps

\* A removal takes its own book off the list, and no other.
LEMMA ShiftListed ==
    ASSUME IInv, NEW t \in Threads, Shift(t)
    PROVE  Listed' \subseteq Listed /\ \A o \in Listed : o \in Listed' \/ o = loc[t].cur
<1> PICK i, cur : i = loc[t].i /\ cur = loc[t].cur
  OBVIOUS
<1>1. pc[t] = "shift" /\ UNCHANGED size /\ es' = [es EXCEPT ![i] = es[i + 1]] /\ pc[t] \in PostLabels
  BY LabelFits DEF Shift, RemoveLabels
<1>2. Typed /\ loc[t] \in Locals /\ size \in 0 .. Capacity
  BY <1>1, PosterLocals
<1>3. loc[t].n = size - 1 /\ i < loc[t].n /\ Gap(t)
  BY <1>1, PosterFacts DEF Poster
<1>4. /\ i \in Places /\ i \in Nat /\ i + 1 \in 0 .. (size - 1)
      /\ \A k \in 0 .. (size - 1) : k \in Places
  BY <1>2, <1>3, CapacityFacts DEF Locals, Places
<1>5. es'[i] = es[i + 1] /\ \A k \in Places : k # i => es'[k] = es[k]
  BY <1>1, <1>2, <1>4 DEF Typed
<1>6. ASSUME NEW k \in 0 .. (size - 1), es[k] \notin Listed', es[k] # Null PROVE es[k] = cur
  <2>1. k = i
    BY <1>1, <1>4, <1>5, <1>6 DEF Listed
  <2>2. CASE i > 0 /\ es[i] = es[i - 1]
    <3>1. i - 1 \in Places /\ i - 1 # i /\ i - 1 \in 0 .. (size - 1)
      BY <1>2, <1>4, <2>2, CapacityFacts DEF Places
    <3>2. es'[i - 1] = es[i]
      BY <1>5, <2>2, <3>1
    <3> QED BY <1>1, <1>6, <2>1, <3>1, <3>2 DEF Listed
  <2> QED BY <1>3, <2>1, <2>2 DEF Gap
<1>7. \A k \in 0 .. (size - 1) : es'[k] = es[k] \/ es'[k] = es[i + 1]
  BY <1>4, <1>5
<1> QED BY <1>1, <1>4, <1>6, <1>7 DEF Listed

LEMMA ShrinkListed ==
    ASSUME IInv, NEW t \in Threads, Shrink(t)
    PROVE  Listed' = Listed \ {loc[t].cur}
<1> PICK i, cur : i = loc[t].i /\ cur = loc[t].cur
  OBVIOUS
<1>1. pc[t] = "shrink" /\ UNCHANGED es /\ size' = loc[t].n /\ pc[t] \in PostLabels
  BY LabelFits DEF Shrink, RemoveLabels
<1>2. Typed /\ loc[t] \in Locals /\ size \in 0 .. Capacity
  BY <1>1, PosterLocals
<1>3. loc[t].n = size - 1 /\ i = size - 1 /\ size' = i /\ Gap(t)
  BY <1>1, PosterFacts DEF Poster
<1>4. /\ i \in Nat /\ \A k \in 0 .. (i - 1) : k \in 0 .. (size - 1) /\ k # i /\ k \in Places
      /\ \A k \in 0 .. (size - 1) : k = i \/ k \in 0 .. (i - 1)
      /\ i > 0 => i - 1 \in 0 .. (i - 1)
  <2>0. i \in 0 .. Capacity
    BY <1>2 DEF Locals
  <2>1. i \in Nat /\ i <= Capacity - 1 /\ size = i + 1
    BY <1>2, <1>3, <2>0, CapacityFacts
  <2> QED BY <2>1, CapacityFacts DEF Places
<1>5. \A k \in 0 .. (i - 1) : es[k] # cur
  BY <1>3, <1>4 DEF Gap
<1>6. es[i] = cur \/ \E k \in 0 .. (i - 1) : es[i] = es[k]
  BY <1>3, <1>4 DEF Gap
<1>7. Listed' = { es[k] : k \in 0 .. (i - 1) } \ {Null}
  BY <1>1, <1>3 DEF Listed
<1> QED BY <1>4, <1>5, <1>6, <1>7 DEF Listed

\* One book moves down over its neighbour, which leaves the list or has been
\* moved before.
LEMMA ShiftInv == ASSUME IInv, NEW t \in Threads, Shift(t) PROVE IInv'
<1> PICK i, cur : i = loc[t].i /\ cur = loc[t].cur
  OBVIOUS
<1> PICK x, l : /\ x = [loc[t] EXCEPT !.i = i + 1]
                /\ l = IF i + 1 < loc[t].n THEN "shift" ELSE "shrink"
  OBVIOUS
<1>1. /\ pc[t] = "shift" /\ UNCHANGED <<req, answer, heap, size, modCount, before, ids>>
      /\ pc[t] \in PostLabels /\ l \in {"shift", "shrink"}
      /\ pc' = [pc EXCEPT ![t] = l] /\ loc' = [loc EXCEPT ![t] = x]
      /\ es' = [es EXCEPT ![i] = es[i + 1]]
  BY LabelFits DEF Shift, ids, Go, RemoveLabels
<1>2. /\ Typed /\ Whole /\ loc[t] \in Locals /\ loc[t].mod <= modCount
      /\ size \in 0 .. Capacity /\ modCount \in Nat /\ answer[t] \in AnswerSet
      /\ ids \in [Objects -> NoId .. MaxId]
      /\ answer = [answer EXCEPT ![t] = answer[t]]
      /\ Array /\ Distinct
  BY <1>1, PosterLocals DEF IInv
<1>3. /\ loc[t].n = size - 1 /\ i < loc[t].n /\ Gap(t) /\ req[t].op = "remove" /\ Running(t)
      /\ cur \in Objects /\ ids[cur] = req[t].id
  BY <1>1, PosterFacts DEF Poster, Where, Fits, RemoveLabels
<1>4. /\ i \in Places /\ i + 1 \in Places /\ i \in Nat /\ i + 1 < size /\ i < size /\ i + 1 \in 0 .. Capacity
      /\ i < i + 1
  BY <1>2, <1>3, CapacityFacts, SMTT(30) DEF Locals, Places
<1>5. /\ x \in Locals /\ x.mod = loc[t].mod /\ x.i = i + 1 /\ x.n = size - 1 /\ x.cur = cur
      /\ x.mod <= modCount
  BY <1>2, <1>3, <1>4 DEF Locals
<1>6. pc'[t] = l /\ loc'[t] = x /\ \A u \in Threads \ {t} : pc'[u] = pc[u] /\ loc'[u] = loc[u]
  BY <1>1, <1>2 DEF Typed
<1>7. es'[i] = es[i + 1] /\ (\A k \in Places : k # i => es'[k] = es[k]) /\ es' \in [Places -> Fields]
  BY <1>1, <1>2, <1>4 DEF Typed
<1>8. l \in Labels /\ Fits(l, req[t].op)
  BY <1>1, <1>3, LabelFits DEF RemoveLabels
<1>9. TypeOK'
  BY <1>1, <1>2, <1>5, <1>7, <1>8, TypeFacts DEF Typed
<1>10. \A o \in Answered : o \in Answered'
  BY <1>1, <1>6 DEF Answered
<1>11. \A k \in Places : k \in Int
  BY CapacityFacts DEF Places
<1>12. \A u \in Threads : u # t => pc[u] \notin {"addSize", "clear", "shift", "shrink"}
  BY <1>1, OthersRead DEF PostLabels
<1>13. \A k \in Places : k < size => es[k] # Null /\ es[k] \in Answered
  BY <1>2, ObjectFacts DEF Array, Answered
<1>14. Array'
  <2>1. \A k \in Places : k < size => es'[k] \in Answered'
    BY <1>4, <1>7, <1>10, <1>13
  <2>2. \A k \in Places : k >= size => es'[k] = Null
    <3>1. \A k \in Places : k >= size => es[k] = Null
      BY <1>1, <1>2, <1>11, <1>12 DEF Array
    <3> QED BY <1>2, <1>4, <1>7, <1>11, <3>1
  <2>3. \A k \in Places : es'[k] # Null => ids[es'[k]] >= k
    <3>1. ids[es[i + 1]] >= i + 1 /\ ids[es[i + 1]] \in Int
      <4>1. es[i + 1] \in Objects
        BY <1>4, <1>13, ObjectFacts DEF Answered
      <4> QED BY <1>2, <1>4, <1>13, <4>1, CapacityFacts DEF Array, NoId
    <3>2. ids[es[i + 1]] >= i
      BY <1>4, <3>1
    <3> QED BY <1>2, <1>7, <3>2 DEF Array
  <2>4. ASSUME NEW j \in Places, NEW k \in Places, j < k, es'[j] # Null, es'[k] # Null
        PROVE  UpTo(es'[j], es'[k])
    <3>0. j \in Int /\ k \in Int
      BY <1>11
    <3>1. CASE j = i /\ k = i + 1
      BY <1>4, <1>7, <3>1 DEF UpTo
    <3>2. CASE j = i /\ k # i + 1
      <4>1. i + 1 < k /\ k # i
        BY <1>4, <2>4, <3>0, <3>2
      <4> QED BY <1>2, <1>4, <1>7, <1>13, <2>4, <3>2, <4>1 DEF Array
    <3>3. CASE k = i
      <4>1. j < i + 1 /\ j # i
        BY <1>4, <2>4, <3>0, <3>3
      <4> QED BY <1>2, <1>4, <1>7, <1>13, <2>4, <3>3, <4>1 DEF Array
    <3>4. CASE j # i /\ k # i
      BY <1>2, <1>7, <2>4, <3>4 DEF Array
    <3> QED BY <3>1, <3>2, <3>3, <3>4
  <2>5. \A k \in Places : (k > size => k >= size) /\ (k = size => k >= size)
    BY <1>2, <1>11
  <2> QED BY <1>1, <1>2, <2>1, <2>2, <2>3, <2>4, <2>5 DEF Array, UpTo
<1>15. Distinct'
  <2> SUFFICES ASSUME NEW j \in Places, NEW k \in Places, j < k, k < size, es'[j] = es'[k],
                      k # i + 1
               PROVE  FALSE
    BY <1>1, <1>5, <1>6, ZenonT(60) DEF Distinct
  <2>1. \A m, n \in Places : m < n /\ n < size /\ es[m] = es[n] => n = i
    BY <1>2, <1>12 DEF Distinct
  <2>0. j \in Int /\ k \in Int
    BY <1>11
  <2>2. CASE k = i
    <3>1. j < i + 1 /\ j # i /\ i + 1 # i
      BY <1>4, <2>0, <2>2
    <3> QED BY <1>4, <1>7, <2>1, <2>2, <3>1
  <2>3. CASE j = i
    <3>1. i + 1 < k /\ k # i
      BY <1>4, <2>0, <2>3
    <3> QED BY <1>4, <1>7, <2>1, <2>3, <3>1
  <2>4. CASE j # i /\ k # i
    BY <1>7, <2>1, <2>4
  <2> QED BY <2>2, <2>3, <2>4
<1>16. IdsCounted' /\ Whole'
  <2>1. IdsCounted'
    BY <1>1 DEF IInv, IdsCounted, Adders
  <2> QED BY <1>1, <1>2, <1>6, <2>1, WholeKept
<1>17. BooksKept'
  <2>1. \A o \in Listed : o \in Listed' \/ Condemned(o)
    BY <1>3, CondemnedFacts, ShiftListed
  <2> QED BY <1>1, <2>1, KeptFrom DEF Acknowledged
<1>18. Poster(t)'
  <2>1. Gap(t)'
    <3>1. \A k \in Places : k # i + 1 => es'[k] # cur
      BY <1>3, <1>4, <1>7 DEF Gap
    <3>2. i + 1 > 0 /\ (i + 1) - 1 = i /\ i + 1 # i
      BY <1>4
    <3>3. es'[i + 1] = es'[i]
      BY <1>4, <1>7, <3>2
    <3> QED BY <1>5, <1>6, <3>1, <3>2, <3>3 DEF Gap
  <2>2. (l = "shift" => x.i < x.n) /\ (l = "shrink" => x.i = x.n)
    BY <1>2, <1>3, <1>4, <1>5
  <2> QED BY <1>1, <1>3, <1>5, <1>6, <2>1, <2>2, ZenonT(60) DEF Poster, AddLabels, SetLabels, RemoveLabels
<1>19. ASSUME NEW u \in Threads, Reading(u)
       PROVE  /\ Disturbed(u) => Disturbed(u)'
              /\ \A o \in Objects : Precedes(u, o) => Precedes(u, o)'
              /\ NoneGone(u)'
  <2>1. u # t /\ NoneGone(u) /\ loc[u] \in Locals
    BY <1>1, <1>19, OthersRead
  <2>2. loc'[u] = loc[u] /\ pc'[u] = pc[u]
    BY <1>6, <2>1
  <2>3. \A w \in Threads : pc'[w] \in {"addReadSize", "addStore"} => pc[w] \in {"addReadSize", "addStore"}
    BY <1>1, <1>6
  <2>4. ASSUME NEW p \in Places, p >= loc[u].i, es'[p] # Null, ~ Late(u, es'[p])
        PROVE  \E q \in Ahead(u) : es[q] = es'[p]
    <3>1. CASE p = i
      <4>1. i + 1 >= loc[u].i
        BY <1>4, <2>1, <2>4, <3>1, CapacityFacts, SMTT(30) DEF Locals
      <4> QED BY <1>4, <1>7, <2>4, <3>1, <4>1 DEF Ahead
    <3>2. CASE p # i
      BY <1>7, <2>4, <3>2 DEF Ahead
    <3> QED BY <3>1, <3>2
  <2>5. NoneGone(u)'
    BY <1>1, <1>4, <1>7, <2>1, <2>2 DEF NoneGone
  <2> QED BY <1>1, <2>2, <2>3, <2>4, <2>5, StillPrecedes
<1>20. /\ \A o \in Objects : ids[o] >= 0 => ids'[o] = ids[o]
       /\ modCount' \in Nat /\ modCount <= modCount' /\ x.mod <= modCount'
       /\ answer' = [answer EXCEPT ![t] = answer[t]]
  BY <1>1, <1>2, <1>5
<1> QED BY <1>1, <1>2, <1>5, <1>8, <1>9, <1>14, <1>15, <1>16, <1>17, <1>18, <1>19, <1>20, PosterSteps

\* The last place is given up; its book is listed before it, or has to go.
LEMMA ShrinkInv == ASSUME IInv, NEW t \in Threads, Shrink(t) PROVE IInv'
<1> PICK i, cur : i = loc[t].i /\ cur = loc[t].cur
  OBVIOUS
<1>1. /\ pc[t] = "shrink" /\ UNCHANGED <<req, loc, answer, heap, es, modCount, before, ids>>
      /\ pc[t] \in PostLabels /\ pc' = [pc EXCEPT ![t] = "clear"] /\ size' = loc[t].n
  BY LabelFits DEF Shrink, ids, Go, RemoveLabels
<1>2. /\ Typed /\ Whole /\ loc[t] \in Locals /\ loc[t].mod <= modCount
      /\ size \in 0 .. Capacity /\ modCount \in Nat /\ answer[t] \in AnswerSet
      /\ answer = [answer EXCEPT ![t] = answer[t]] /\ loc = [loc EXCEPT ![t] = loc[t]]
      /\ Array /\ Distinct
  BY <1>1, PosterLocals DEF IInv
<1>3. /\ loc[t].n = size - 1 /\ i = loc[t].n /\ Gap(t) /\ req[t].op = "remove" /\ Running(t)
      /\ cur \in Objects /\ ids[cur] = req[t].id
  BY <1>1, PosterFacts DEF Poster, Where, Fits, RemoveLabels
<1>4. /\ i \in Places /\ i \in Nat /\ i = size - 1 /\ size' = i /\ size' \in 0 .. Capacity
      /\ size' \in -Capacity .. Capacity /\ size' < Capacity
  <2>1. i = size - 1 /\ size' = i /\ i \in 0 .. Capacity
    BY <1>1, <1>2, <1>3 DEF Locals
  <2>2. i \in Places /\ i \in Nat /\ i \in -Capacity .. Capacity /\ i < Capacity
    BY <1>2, <2>1, CapacityFacts DEF Places
  <2> QED BY <2>1, <2>2
<1>5. pc'[t] = "clear" /\ \A u \in Threads \ {t} : pc'[u] = pc[u]
  BY <1>1, <1>2 DEF Typed
<1>6. "clear" \in Labels /\ Fits("clear", req[t].op)
  BY <1>3, LabelFits DEF RemoveLabels
<1>7. TypeOK'
  BY <1>1, <1>2, <1>4, <1>6, TypeFacts DEF Typed
<1>8. \A o \in Answered : o \in Answered'
  BY <1>1, <1>5 DEF Answered
<1>9. \A k \in Places : k \in Int /\ (k < i => k < size) /\ (k > i => k >= size)
  BY <1>2, <1>4, CapacityFacts DEF Places
<1>10. \A u \in Threads : u # t => pc[u] \notin {"addSize", "clear", "shift", "shrink"}
  BY <1>1, OthersRead DEF PostLabels
<1>11. Array'
  <2>1. \A k \in Places : k < i => es[k] \in Answered'
    BY <1>2, <1>8, <1>9 DEF Array
  <2>2. \A k \in Places : k > i => es[k] = Null
    <3>1. \A k \in Places : k >= size => es[k] = Null
      <4>1. \A k \in Places : k = size => es[k] = Null
        BY <1>1, <1>2, <1>10 DEF Array
      <4> QED BY <1>2, <1>9, <4>1 DEF Array
    <3> QED BY <1>9, <3>1
  <2> QED BY <1>1, <1>2, <1>4, <1>5, <2>1, <2>2 DEF Array, UpTo
<1>12. Distinct'
  <2> SUFFICES ASSUME NEW j \in Places, NEW k \in Places, j < k, k < i, es[j] = es[k]
               PROVE  FALSE
    BY <1>1, <1>4 DEF Distinct
  <2>1. k < size /\ k # i
    BY <1>4, <1>9
  <2> QED BY <1>2, <1>10, <2>1 DEF Distinct
<1>13. IdsCounted' /\ Whole'
  <2>1. IdsCounted'
    BY <1>1 DEF IInv, IdsCounted, Adders
  <2> QED BY <1>1, <1>2, <1>5, <2>1, WholeKept
<1>14. BooksKept'
  <2>1. \A o \in Listed : o \in Listed' \/ Condemned(o)
    BY <1>3, CondemnedFacts, ShrinkListed
  <2> QED BY <1>1, <2>1, KeptFrom DEF Acknowledged
<1>15. Poster(t)'
  BY <1>1, <1>3, <1>4, <1>5 DEF Poster, AddLabels, SetLabels, RemoveLabels
<1>16. ASSUME NEW u \in Threads, Reading(u)
       PROVE  /\ Disturbed(u) => Disturbed(u)'
              /\ \A o \in Objects : Precedes(u, o) => Precedes(u, o)'
              /\ NoneGone(u)'
  <2>1. u # t /\ NoneGone(u)
    BY <1>1, <1>16, OthersRead
  <2>2. loc'[u] = loc[u] /\ pc'[u] = pc[u]
    BY <1>1, <1>5, <2>1
  <2>3. \A w \in Threads : pc'[w] \in {"addReadSize", "addStore"} => pc[w] \in {"addReadSize", "addStore"}
    BY <1>5
  <2>4. \A p \in Places : p >= loc[u].i /\ es'[p] # Null /\ ~ Late(u, es'[p]) =>
            \E q \in Ahead(u) : es[q] = es'[p]
    BY <1>1 DEF Ahead
  <2>5. NoneGone(u)'
    BY <1>1, <1>4, <1>9, <2>1, <2>2 DEF NoneGone
  <2> QED BY <1>1, <2>2, <2>3, <2>4, <2>5, StillPrecedes
<1>17. /\ \A o \in Objects : ids[o] >= 0 => ids'[o] = ids[o]
       /\ modCount' \in Nat /\ modCount <= modCount' /\ loc[t].mod <= modCount'
       /\ loc' = [loc EXCEPT ![t] = loc[t]] /\ answer' = [answer EXCEPT ![t] = answer[t]]
  BY <1>1, <1>2
<1> QED BY <1>1, <1>2, <1>6, <1>7, <1>11, <1>12, <1>13, <1>14, <1>15, <1>16, <1>17, PosterSteps

LEMMA ClearInv == ASSUME IInv, NEW t \in Threads, Clear(t) PROVE IInv'
<1> PICK a : a = [status |-> "done", books |-> << >>]
  OBVIOUS
<1>1. pc[t] = "clear" /\ UNCHANGED <<req, heap, size, modCount, before, ids>> /\ pc[t] \in PostLabels
  BY LabelFits DEF Clear, ids, RemoveLabels
<1>2. /\ Typed /\ Whole /\ loc[t] \in Locals /\ size \in 0 .. Capacity /\ modCount \in Nat
      /\ NoLocals \in Locals /\ NoLocals.mod <= modCount /\ a \in AnswerSet /\ a.status = "done"
      /\ Array /\ Distinct
  BY <1>1, PosterLocals, NoLocalsType DEF IInv, AnswerSet
<1>3. loc[t].n = size /\ size < Capacity /\ req[t].op = "remove" /\ Running(t)
  BY <1>1, PosterFacts DEF Poster, Where, Fits, RemoveLabels
<1>4. size \in Places
  BY <1>2, <1>3, CapacityFacts DEF Places
<1>5. /\ pc' = [pc EXCEPT ![t] = "answered"] /\ loc' = [loc EXCEPT ![t] = NoLocals]
      /\ answer' = [answer EXCEPT ![t] = a] /\ es' = [es EXCEPT ![size] = Null]
  BY <1>2, <1>3 DEF Clear, Done, Reply, Go
<1>6. pc'[t] = "answered" /\ \A u \in Threads \ {t} : pc'[u] = pc[u] /\ loc'[u] = loc[u]
  BY <1>2, <1>5 DEF Typed
<1>7. es'[size] = Null /\ (\A k \in Places : k # size => es'[k] = es[k]) /\ es' \in [Places -> Fields]
  BY <1>2, <1>4, <1>5, ObjectFacts DEF Typed
<1>8. "answered" \in Labels /\ Fits("answered", req[t].op)
  BY <1>3, LabelFits, LoopFits
<1>9. TypeOK'
  BY <1>1, <1>2, <1>5, <1>7, <1>8, TypeFacts DEF Typed
<1>10. \A o \in Answered : o \in Answered'
  BY <1>6 DEF Answered
<1>11. \A k \in Places : k \in Int
  BY CapacityFacts DEF Places
<1>12. Array'
  <2>1. \A k \in Places : k < size => es'[k] \in Answered'
    BY <1>2, <1>7, <1>10, <1>11 DEF Array
  <2>2. \A k \in Places : k >= size => es'[k] = Null
    BY <1>2, <1>7, <1>11 DEF Array
  <2>3. \A k \in Places : es'[k] # Null => es'[k] = es[k]
    BY <1>7
  <2>4. \A k \in Places : (k > size => k >= size) /\ (k = size => k >= size)
    BY <1>2, <1>11
  <2> QED BY <1>1, <1>2, <2>1, <2>2, <2>3, <2>4 DEF Array, UpTo
<1>13. Distinct'
  <2> SUFFICES ASSUME NEW j \in Places, NEW k \in Places, j < k, k < size, es'[j] = es'[k]
               PROVE  FALSE
    BY <1>1 DEF Distinct
  <2>1. es[j] = es[k]
    BY <1>2, <1>7, <1>11
  <2>2. \A u \in Threads : pc[u] \notin {"shift", "shrink"}
    BY <1>1, OthersRead DEF PostLabels
  <2> QED BY <1>2, <2>1, <2>2 DEF Distinct
<1>14. IdsCounted' /\ Whole'
  <2>1. IdsCounted'
    BY <1>1 DEF IInv, IdsCounted, Adders
  <2> QED BY <1>1, <1>2, <1>6, <2>1, WholeKept
<1>15. BooksKept'
  <2>1. \A k \in 0 .. (size - 1) : es'[k] = es[k]
    BY <1>2, <1>7, CapacityFacts DEF Places
  <2>2. Listed' = Listed
    BY <1>1, <2>1 DEF Listed
  <2>3. \A o \in Acknowledged' : o \in Acknowledged
    <3>1. \A u \in Threads : u # t => answer'[u] = answer[u]
      BY <1>2, <1>5 DEF Typed
    <3> QED BY <1>1, <1>3, <3>1 DEF Acknowledged
  <2> QED BY <1>1, <2>2, <2>3, KeptFrom
<1>16. ASSUME NEW u \in Threads, Reading(u)
       PROVE  /\ Disturbed(u) => Disturbed(u)'
              /\ \A o \in Objects : Precedes(u, o) => Precedes(u, o)'
              /\ NoneGone(u)'
  <2>1. /\ u # t /\ NoneGone(u) /\ before[u].gone \subseteq Objects
    <3>1. before[u] \in [listed : SUBSET Objects, gone : SUBSET Objects]
      BY <1>2 DEF Typed
    <3> QED BY <1>1, <1>16, <3>1, OthersRead
  <2>2. loc'[u] = loc[u] /\ pc'[u] = pc[u]
    BY <1>6, <2>1
  <2>3. \A w \in Threads : pc'[w] \in {"addReadSize", "addStore"} => pc[w] \in {"addReadSize", "addStore"}
    BY <1>6
  <2>4. \A p \in Places : p >= loc[u].i /\ es'[p] # Null /\ ~ Late(u, es'[p]) =>
            \E q \in Ahead(u) : es[q] = es'[p]
    BY <1>7 DEF Ahead
  <2>5. NoneGone(u)'
    BY <1>1, <1>7, <2>1, <2>2, ObjectFacts DEF NoneGone
  <2> QED BY <1>1, <2>2, <2>3, <2>4, <2>5, StillPrecedes
<1>17. /\ \A o \in Objects : ids[o] >= 0 => ids'[o] = ids[o]
       /\ modCount' \in Nat /\ modCount <= modCount' /\ NoLocals.mod <= modCount'
  BY <1>1, <1>2
<1> QED BY <1>1, <1>2, <1>5, <1>8, <1>9, <1>12, <1>13, <1>14, <1>15, <1>16, <1>17, PosterSteps

-----------------------------------------------------------------------------
(* A connection is accepted.                                               *)

\* A POST is accepted only when no other is served; a request for the list notes
\* what is listed, and what was and is gone.
LEMMA AcceptInv ==
    ASSUME Posters <= 1, IInv, NEW t \in Threads, NEW r \in Requests, Accept(t, r)
    PROVE  IInv'
<1> PICK l, b : /\ l = IF Post(r) THEN "size" ELSE "iterator"
                /\ b = [listed |-> Listed, gone |-> Acknowledged \ Listed]
  OBVIOUS
<1>1. /\ pc[t] = "idle" /\ pc' = [pc EXCEPT ![t] = l] /\ req' = [req EXCEPT ![t] = r]
      /\ before' = [before EXCEPT ![t] = b] /\ l \in {"size", "iterator"}
      /\ UNCHANGED <<loc, answer, heap, es, size, modCount, ids>>
  BY DEF Accept, Go, list, ids
<1>2. /\ Typed /\ TypeOK /\ Array /\ Distinct /\ Whole /\ size \in 0 .. Capacity /\ Where(t)
  BY TypeFacts DEF IInv, Array
<1>3. /\ req[t].op = "none" /\ ids[t] = NoId /\ loc[t] = NoLocals /\ answer[t].status = "none"
      /\ ~ Running(t)
  BY <1>1, <1>2 DEF Where, Fits, Running
<1>4. Post(r) => \A u \in Threads : ~ Posting(u)
  <2> SUFFICES ASSUME Post(r) PROVE \A u \in Threads : ~ Posting(u)
    OBVIOUS
  <2> PICK S : S = {u \in Threads : Running(u) /\ Post(req[u])}
    OBVIOUS
  <2>1. IsFiniteSet(S) /\ Cardinality(S) < Posters
    BY CapacityFacts, FS_Subset DEF Accept
  <2>2. Cardinality(S) \in Nat /\ Posters \in Nat
    BY <2>1, FS_CardinalityType, BoundsAssumption
  <2>3. Cardinality(S) = 0
    BY <2>1, <2>2
  <2>4. S = {}
    BY <2>1, <2>3, FS_EmptySet
  <2> QED BY <2>4 DEF Posting
<1>5. b.listed = Listed /\ b.gone = Acknowledged \ Listed /\ Listed \subseteq Answered
      /\ Acknowledged \subseteq Answered /\ Answered \subseteq Objects
  <2>1. Listed \subseteq Answered
    BY <1>2, ListedFacts DEF Array
  <2>2. Acknowledged \subseteq Answered
    BY DEF Acknowledged, Answered, IInv, Where
  <2>3. Answered \subseteq Objects
    BY DEF Answered, Objects
  <2> QED BY <2>1, <2>2, <2>3
<1>6. /\ pc'[t] = l /\ req'[t] = r /\ before'[t] = b
      /\ \A u \in Threads : u # t => pc'[u] = pc[u] /\ req'[u] = req[u] /\ before'[u] = before[u]
  BY <1>1, <1>2 DEF Typed
<1>7. r.op \in {"add", "change", "remove", "list"} /\ (Post(r) <=> r.op # "list")
  BY RequestFacts DEF Requests, Post
<1>8. Fits(l, r.op) /\ l \in Labels
  BY <1>1, <1>7 DEF Fits, PostLabels, AddLabels, SetLabels, RemoveLabels, ListLabels, LoopLabels, Labels
<1>9. TypeOK'
  <2>1. b \in [listed : SUBSET Objects, gone : SUBSET Objects]
    BY <1>5
  <2> QED BY <1>1, <1>2, <1>8, <2>1, TypeFacts DEF Typed
<1>10. Answered' = Answered
  BY <1>1, <1>6 DEF Answered
<1>11. OnePoster'
  <2>1. \A u \in Threads : u # t => (Posting(u)' => Posting(u))
    BY <1>6 DEF Posting, Running
  <2>2. Posting(t)' => Post(r)
    BY <1>6 DEF Posting
  <2>3. OnePoster
    BY DEF IInv
  <2>4. ASSUME NEW v \in Threads, NEW w \in Threads, Posting(v)', Posting(w)', v # w PROVE FALSE
    <3>1. CASE v # t /\ w # t
      BY <2>1, <2>3, <2>4, <3>1 DEF OnePoster
    <3>2. CASE v = t
      BY <1>4, <2>1, <2>2, <2>4, <3>2
    <3>3. CASE w = t
      BY <1>4, <2>1, <2>2, <2>4, <3>3
    <3> QED BY <3>1, <3>2, <3>3
  <2> QED BY <2>4 DEF OnePoster
<1>12. \A u \in Threads : pc[u] # "idle" => pc'[u] = pc[u]
  BY <1>1, <1>6
<1>13. Array'
  BY <1>1, <1>2, <1>10, <1>12 DEF Array, UpTo
<1>14. Distinct'
  BY <1>1, <1>2, <1>12 DEF Distinct
<1>15. IdsCounted'
  BY <1>1 DEF IInv, IdsCounted, Adders
<1>16. Whole'
  BY <1>1, <1>2, <1>12 DEF Whole, Changing
<1>17. BooksKept'
  <2>1. Listed' = Listed /\ \A o \in Acknowledged' : o \in Acknowledged
    BY <1>1, <1>3, <1>6 DEF Listed, Acknowledged
  <2>2. \A o \in Objects : Condemned(o) => Condemned(o)'
    BY <1>1, <1>3, <1>6 DEF Condemned
  <2>3. Acknowledged \subseteq Objects
    BY <1>5
  <2> QED BY <2>1, <2>2, <2>3 DEF IInv, BooksKept
<1>18. ASSUME NEW u \in Threads PROVE Where(u)' /\ Told(u)'
  <2>1. CASE u = t
    <3>1. Where(t)'
      BY <1>1, <1>2, <1>3, <1>5, <1>6, <1>8, <1>10 DEF Where
    <3>2. Told(t)'
      BY <1>1, <1>3 DEF Told
    <3> QED BY <2>1, <3>1, <3>2
  <2>2. CASE u # t
    <3>1. Where(u) /\ Told(u)
      BY DEF IInv
    <3>2. Where(u)'
      BY <1>1, <1>6, <1>10, <2>2, <3>1 DEF Where
    <3>3. Told(u)'
      BY <1>1, <1>6, <2>2, <3>1 DEF Told, UpTo
    <3> QED BY <3>2, <3>3
  <2> QED BY <2>1, <2>2
<1>19. ASSUME NEW u \in Threads, Posting(u)' PROVE Poster(u)'
  <2>1. CASE u = t
    <3>1. pc'[t] = "size"
      BY <1>6, <1>19, <2>1 DEF Posting
    <3> QED BY <2>1, <3>1 DEF Poster, AddLabels, SetLabels, RemoveLabels
  <2>2. CASE u # t
    <3>1. Posting(u) /\ req'[u] = req[u] /\ pc'[u] = pc[u]
      BY <1>6, <1>19, <2>2 DEF Posting, Running
    <3>2. Poster(u)
      BY <3>1 DEF IInv
    <3> QED BY <1>1, <3>1, <3>2 DEF Poster, Newest, Gap
  <2> QED BY <2>1, <2>2
<1>20. ASSUME NEW u \in Threads, Reading(u)' PROVE Reader(u)'
  <2>1. CASE u = t
    <3>1. pc'[t] = "iterator" /\ loc'[t].out = << >>
      BY <1>1, <1>3, <1>6, <1>20, <2>1 DEF Reading, NoLocals
    <3>2. Named(<< >>) = {}
      BY DEF Named
    <3>3. NoneGone(t)'
      <4>1. \A k \in Places : k < size => es[k] \in Listed
        BY <1>2, ListedFacts
      <4> QED BY <1>1, <1>5, <1>6, <3>1, <4>1 DEF NoneGone
    <3> QED BY <2>1, <3>1, <3>2, <3>3 DEF Reader
  <2>2. CASE u # t
    <3>1. Reading(u) /\ pc'[u] = pc[u] /\ loc'[u] = loc[u] /\ before'[u] = before[u]
      BY <1>1, <1>6, <1>20, <2>2 DEF Reading, Running
    <3>2. Reader(u)
      BY <3>1 DEF IInv
    <3>3. \A w \in Threads : pc'[w] \in {"addReadSize", "addStore"} =>
              pc[w] \in {"addReadSize", "addStore"}
      BY <1>1, <1>6
    <3> QED BY <1>1, <1>2, <3>1, <3>2, <3>3, ReaderUntouched
  <2> QED BY <2>1, <2>2
<1> QED BY <1>9, <1>11, <1>13, <1>14, <1>15, <1>16, <1>17, <1>18, <1>19, <1>20 DEF IInv

LEMMA StutterInv == IInv /\ UNCHANGED vars => IInv'
<1> SUFFICES ASSUME IInv, UNCHANGED vars PROVE IInv'
  OBVIOUS
<1>1. UNCHANGED <<pc, req, loc, answer, heap, es, size, modCount, before, ids>>
  BY DEF vars, list, ids
<1>2. TypeOK' /\ OnePoster' /\ BooksKept'
  BY <1>1 DEF IInv, TypeOK, OnePoster, Posting, Running, BooksKept, Acknowledged, Listed, Condemned
<1>3. Array' /\ Distinct' /\ IdsCounted' /\ Whole'
  BY <1>1 DEF IInv, Array, Answered, UpTo, Distinct, IdsCounted, Adders, Whole, Changing
<1>4. ASSUME NEW t \in Threads PROVE Where(t)' /\ Told(t)'
  <2>1. Where(t) /\ Told(t)
    BY DEF IInv
  <2> QED BY <1>1, <2>1 DEF Where, Answered, Told, UpTo
<1>5. ASSUME NEW t \in Threads, Posting(t)' PROVE Poster(t)'
  <2>1. Poster(t)
    BY <1>1, <1>5 DEF IInv, Posting, Running
  <2> QED BY <1>1, <2>1 DEF Poster, Newest, Gap
<1>6. ASSUME NEW t \in Threads, Reading(t)' PROVE Reader(t)'
  <2>1. Reader(t)
    BY <1>1, <1>6 DEF IInv, Reading, Running
  <2> QED BY <1>1, <2>1, ReaderUntouched DEF IInv
<1> QED BY <1>2, <1>3, <1>4, <1>5, <1>6 DEF IInv

LEMMA NextInv == Posters <= 1 /\ IInv /\ [Next]_vars => IInv'
<1> SUFFICES ASSUME Posters <= 1, IInv, [Next]_vars PROVE IInv'
  OBVIOUS
<1>1. ASSUME NEW t \in Threads, Add(t) PROVE IInv'
  BY <1>1, AddReadModInv, AddWriteModInv, AddReadSizeInv, AddStoreInv, AddSizeInv DEF Add
<1>2. ASSUME NEW t \in Threads, Loop(t) PROVE IInv'
  BY <1>2, IteratorInv, HasNextInv, CheckModInv, CheckSizeInv, FetchInv DEF Loop
<1>3. ASSUME NEW t \in Threads, Read(t) PROVE IInv'
  BY <1>3, ReadNameInv, ReadAuthorInv, ReadYearInv DEF Read
<1>4. ASSUME NEW t \in Threads, Set(t) PROVE IInv'
  BY <1>4, SetNameInv, SetAuthorInv, SetYearInv DEF Set
<1>5. ASSUME NEW t \in Threads, Removal(t) PROVE IInv'
  BY <1>5, RemoveReadSizeInv, ScanInv, RemoveReadModInv, RemoveWriteModInv, NewSizeInv,
     ShiftInv, ShrinkInv, ClearInv DEF Removal
<1>6. ASSUME NEW t \in Threads, Step(t) PROVE IInv'
  BY <1>1, <1>2, <1>3, <1>4, <1>5, <1>6, ReadSizeInv, LastIndexInv, CheckIndexInv, ReadLastInv
     DEF Step
<1> QED BY <1>6, AcceptInv, StutterInv DEF Next

LEMMA InvHolds == ASSUME Posters <= 1 PROVE Spec => []IInv
<1>1. IInv /\ [Next]_vars => IInv'
  BY NextInv
<1> QED BY <1>1, InitInv, PTL DEF Spec

-----------------------------------------------------------------------------
(* What follows.                                                           *)

\* Readers answer in the order of the ids, without what was gone, though the
\* list changes while they walk it.
THEOREM OnePosterOrder == ASSUME Posters <= 1 PROVE Spec => []ListedInOrder
<1>1. IInv => ListedInOrder
  <2> SUFFICES ASSUME IInv, NEW t \in Threads, answer[t].status = "list",
                      NEW k \in Named(answer[t].books)
               PROVE  LET r == answer[t].books IN
                      /\ r[k].book \notin before[t].gone
                      /\ \A j \in Named(r) : j < k =>
                            \/ r[j].book = r[k].book
                            \/ heap[r[j].book].id < heap[r[k].book].id
                            \/ k = Len(r) /\ r[k].book \notin before[t].listed
    BY DEF ListedInOrder, Named
  <2>1. Told(t) /\ answer[t].books \in Seq(ReadBooks)
    BY TypeFacts DEF IInv, Typed, AnswerSet
  <2>2. \A j \in Named(answer[t].books) : answer[t].books[j].book \in Objects
    BY <2>1, BooksNamed
  <2> QED BY <2>1, <2>2 DEF Told, UpTo, ids
<1> QED BY <1>1, InvHolds, PTL

-----------------------------------------------------------------------------
(* Any number of POSTs at a time.  Little is left of the list then, but no *)
(* access of a thread is beyond its array, and every loop comes to an end. *)

\* The additions that have written the size they count, and the removals that
\* may have: each moves it by one at most, whatever it had read.
Grown == { t \in Threads : req[t].op = "add" /\ pc[t] = "answered" }
Shrunk == { t \in Threads : req[t].op = "remove" /\ pc[t] \in {"clear", "answered", "dead"} }
High == 1 + Cardinality(Grown)
Low == 1 - Cardinality(Shrunk)

\* What is true of a thread at label l with locals x, when its request is op and
\* its own book has an id, while the size is between low and high.
At(l, x, op, id, low, high) ==
    /\ l \in AddLabels \union {"addSize"} => op = "add"
    /\ l \in RemoveLabels => op = "remove"
    /\ l \in {"idle", "size", "lastIndex", "checkIndex", "readLast"} => id = NoId
    /\ l = "readLast" => x.n \in Places
    /\ l = "addStore" => x.n <= high
    /\ l = "addSize" => 0 <= x.n /\ x.n <= high
    /\ l = "fetch" => x.i < Capacity
    /\ l \in SetLabels \union ListLabels => x.cur \in Objects
    /\ l \in {"readAuthor", "readYear"} => x.out # << >>
    /\ l \in {"scan", "shift"} => x.i < x.n
    /\ l \in {"removeReadMod", "removeWriteMod", "newSize"} => x.i < Capacity
    /\ l \in {"shift", "shrink", "clear"} => x.n < Capacity
    /\ l \in {"shift", "shrink"} => low - 1 <= x.n /\ x.n <= high

Inside(t) == At(pc[t], loc[t], req[t].op, ids[t], Low, High)
Races == /\ Typed /\ IdsCounted
         /\ Low <= size /\ size <= High
         /\ \A t \in Threads : Inside(t)

\* Sets of threads are counted.
LEMMA CountFacts ==
    ASSUME NEW S, S \subseteq Threads
    PROVE  /\ Cardinality(S) \in Nat /\ Cardinality(S) <= MaxId
           /\ \A t \in Threads \ S : Cardinality(S \union {t}) = Cardinality(S) + 1
           /\ \A T \in SUBSET Threads : S \subseteq T => Cardinality(S) <= Cardinality(T)
<1>1. IsFiniteSet(Threads) /\ MaxId = Cardinality(Threads)
  BY CapacityFacts
<1>2. IsFiniteSet(S) /\ Cardinality(S) \in Nat /\ Cardinality(S) <= MaxId
  BY <1>1, FS_Subset, FS_CardinalityType
<1>3. \A t \in Threads \ S : Cardinality(S \union {t}) = Cardinality(S) + 1
  BY <1>2, FS_AddElement
<1>4. ASSUME NEW T \in SUBSET Threads, S \subseteq T
      PROVE  Cardinality(S) <= Cardinality(T)
  <2>1. IsFiniteSet(T)
    BY <1>1, FS_Subset
  <2> QED BY <1>4, <2>1, FS_Subset
<1> QED BY <1>2, <1>3, <1>4

LEMMA SizeBounds ==
    /\ Grown \subseteq Threads /\ Shrunk \subseteq Threads
    /\ Low \in Int /\ High \in Int /\ -Capacity < Low /\ High <= Capacity /\ Low <= 1 /\ 1 <= High
    /\ \A t \in Threads \ Grown : High < Capacity
    /\ \A t \in Threads \ Shrunk : -Capacity < Low - 1
<1>1. Grown \subseteq Threads /\ Shrunk \subseteq Threads
  BY DEF Grown, Shrunk
<1>2. \A S : S \subseteq Threads =>
          /\ Cardinality(S) \in Nat /\ Cardinality(S) <= MaxId
          /\ \A t \in Threads \ S : Cardinality(S) < MaxId
  <2> SUFFICES ASSUME NEW S, S \subseteq Threads
               PROVE  /\ Cardinality(S) \in Nat /\ Cardinality(S) <= MaxId
                      /\ \A t \in Threads \ S : Cardinality(S) < MaxId
    OBVIOUS
  <2>1. Cardinality(S) \in Nat /\ Cardinality(S) <= MaxId
    BY CountFacts
  <2>2. ASSUME NEW t \in Threads \ S PROVE Cardinality(S) < MaxId
    <3>1. Cardinality(S \union {t}) = Cardinality(S) + 1
      BY CountFacts
    <3>2. Cardinality(S \union {t}) <= MaxId
      BY CountFacts
    <3> QED BY <2>1, <3>1, <3>2, CapacityFacts
  <2> QED BY <2>1, <2>2
<1>3. /\ Cardinality(Grown) \in Nat /\ Cardinality(Grown) <= MaxId
      /\ \A t \in Threads \ Grown : Cardinality(Grown) < MaxId
  BY <1>1, <1>2
<1>4. /\ Cardinality(Shrunk) \in Nat /\ Cardinality(Shrunk) <= MaxId
      /\ \A t \in Threads \ Shrunk : Cardinality(Shrunk) < MaxId
  BY <1>1, <1>2
<1> QED BY <1>1, <1>3, <1>4, CapacityFacts DEF Low, High

\* What holds within bounds holds within wider ones.
LEMMA AtWider ==
    ASSUME NEW l, NEW x \in Locals, NEW op, NEW id, NEW low \in Int, NEW high \in Int,
           NEW low2 \in Int, NEW high2 \in Int, low2 <= low, high <= high2,
           At(l, x, op, id, low, high)
    PROVE  At(l, x, op, id, low2, high2)
<1>1. x.n \in Int
  BY CapacityFacts DEF Locals
<1> QED BY <1>1 DEF At

\* A step of one thread, that takes it from its label to l and its locals to x.
LEMMA Moves ==
    ASSUME Races, NEW t \in Threads, Running(t),
           NEW l \in Labels \ {"idle"}, NEW x \in Locals, NEW a \in AnswerSet,
           pc' = [pc EXCEPT ![t] = l], loc' = [loc EXCEPT ![t] = x],
           answer' = [answer EXCEPT ![t] = a], UNCHANGED <<req, before>>,
           heap' \in Heaps, es' \in [Places -> Fields], modCount' \in Nat, size' \in Int,
           \A u \in Threads \ {t} : ids'[u] = ids[u], IdsCounted',
           pc[t] = "clear" => l \in {"answered", "dead"},
           \/ size' = size
           \/ req[t].op = "add" /\ l = "answered" /\ 1 <= size' /\ size' <= High + 1
           \/ req[t].op = "remove" /\ l = "clear" /\ Low - 1 <= size' /\ size' <= High,
           At(l, x, req[t].op, ids'[t], Low, High)
    PROVE  Races'
<1>1. Typed /\ Low <= size /\ size <= High
  BY DEF Races
<1>2. /\ pc'[t] = l /\ loc'[t] = x /\ req'[t] = req[t]
      /\ \A u \in Threads \ {t} : pc'[u] = pc[u] /\ loc'[u] = loc[u] /\ req'[u] = req[u]
  BY <1>1 DEF Typed
<1>3. t \notin Grown /\ (pc[t] # "clear" => t \notin Shrunk)
  BY DEF Grown, Shrunk, Running
<1>4. /\ Grown' = IF req[t].op = "add" /\ l = "answered" THEN Grown \union {t} ELSE Grown
      /\ Shrunk \subseteq Shrunk'
      /\ req[t].op = "remove" /\ l = "clear" => Shrunk' = Shrunk \union {t} /\ t \notin Shrunk
  BY <1>2, <1>3 DEF Grown, Shrunk, Running
<1>5. Grown \subseteq Threads /\ Shrunk \subseteq Threads /\ Grown' \subseteq Threads /\ Shrunk' \subseteq Threads
  BY DEF Grown, Shrunk
<1>6. /\ Low \in Int /\ High \in Int /\ Low <= 1 /\ 1 <= High
      /\ Low' \in Int /\ High' \in Int /\ -Capacity < Low' /\ High' <= Capacity /\ Low' <= 1 /\ 1 <= High'
  <2>1. /\ Cardinality(Grown) \in Nat /\ Cardinality(Shrunk) \in Nat
        /\ Cardinality(Grown') \in Nat /\ Cardinality(Shrunk') \in Nat
        /\ Cardinality(Grown') <= MaxId /\ Cardinality(Shrunk') <= MaxId
    BY <1>5, CountFacts
  <2> QED BY <2>1, CapacityFacts DEF Low, High
<1>7. Low' <= Low /\ High <= High'
  <2>1. Cardinality(Shrunk) <= Cardinality(Shrunk') /\ Cardinality(Grown) <= Cardinality(Grown')
    BY <1>4, <1>5, CountFacts
  <2>2. /\ Cardinality(Grown) \in Nat /\ Cardinality(Shrunk) \in Nat
        /\ Cardinality(Grown') \in Nat /\ Cardinality(Shrunk') \in Nat
    BY <1>5, CountFacts
  <2> QED BY <2>1, <2>2 DEF Low, High
<1>8. req[t].op = "add" /\ l = "answered" => High' = High + 1
  <2>1. Cardinality(Grown) \in Nat /\ Cardinality(Grown \union {t}) = Cardinality(Grown) + 1
    BY <1>3, <1>5, CountFacts
  <2> QED BY <1>4, <2>1 DEF High
<1>9. req[t].op = "remove" /\ l = "clear" => Low' = Low - 1
  <2> SUFFICES ASSUME req[t].op = "remove" /\ l = "clear" PROVE Low' = Low - 1
    OBVIOUS
  <2>1. Shrunk' = Shrunk \union {t} /\ t \in Threads \ Shrunk
    BY <1>4
  <2>2. Cardinality(Shrunk) \in Nat /\ Cardinality(Shrunk \union {t}) = Cardinality(Shrunk) + 1
    BY <1>5, <2>1, CountFacts
  <2> QED BY <2>1, <2>2 DEF Low
<1>10. Low' <= size' /\ size' <= High'
  <2>1. CASE size' = size
    BY <1>1, <1>6, <1>7, <2>1
  <2>2. CASE req[t].op = "add" /\ l = "answered" /\ 1 <= size' /\ size' <= High + 1
    BY <1>6, <1>8, <2>2
  <2>3. CASE req[t].op = "remove" /\ l = "clear" /\ Low - 1 <= size' /\ size' <= High
    BY <1>6, <1>7, <1>9, <2>3
  <2> QED BY <2>1, <2>2, <2>3
<1>11. ASSUME NEW u \in Threads PROVE Inside(u)'
  <2>1. CASE u = t
    <3>1. At(l, x, req[t].op, ids'[t], Low', High')
      BY <1>6, <1>7, AtWider
    <3> QED BY <1>2, <2>1, <3>1 DEF Inside
  <2>2. CASE u # t
    <3>1. At(pc[u], loc[u], req[u].op, ids[u], Low, High) /\ loc[u] \in Locals
      BY <1>1 DEF Races, Inside, Typed
    <3>2. At(pc[u], loc[u], req[u].op, ids[u], Low', High')
      BY <1>6, <1>7, <3>1, AtWider
    <3> QED BY <1>2, <2>2, <3>2 DEF Inside
  <2> QED BY <2>1, <2>2
<1>12. Typed'
  <2>1. size' \in -Capacity .. Capacity
    BY <1>6, <1>10, CapacityFacts
  <2> QED BY <1>1, <2>1 DEF Typed
<1> QED BY <1>10, <1>11, <1>12 DEF Races

\* What a thread finds where it is.
LEMMA Found ==
    ASSUME Races, NEW t \in Threads
    PROVE  /\ Typed /\ At(pc[t], loc[t], req[t].op, ids[t], Low, High)
           /\ loc[t] \in Locals /\ loc[t].i \in 0 .. Capacity /\ loc[t].n \in -Capacity .. Capacity
           /\ loc[t].mod \in Nat /\ loc[t].cur \in Fields /\ loc[t].out \in Seq(ReadBooks)
           /\ answer[t] \in AnswerSet
           /\ answer = [answer EXCEPT ![t] = answer[t]] /\ loc = [loc EXCEPT ![t] = loc[t]]
           /\ size \in Int /\ Low <= size /\ size <= High /\ modCount \in Nat
           /\ heap \in Heaps /\ es \in [Places -> Fields] /\ IdsCounted
           /\ Low \in Int /\ High \in Int /\ -Capacity < Low /\ High <= Capacity /\ Low <= 1 /\ 1 <= High
           /\ Running(t) /\ pc[t] # "clear" => -Capacity < Low - 1
           /\ Running(t) => High < Capacity
           /\ size \in -Capacity .. Capacity
           /\ Running(t) /\ pc[t] # "clear" => size - 1 \in -Capacity .. Capacity
<1>1. Typed /\ IdsCounted /\ Low <= size /\ size <= High /\ Inside(t)
  BY DEF Races
<1>2. /\ loc[t] \in Locals /\ answer[t] \in AnswerSet
      /\ answer = [answer EXCEPT ![t] = answer[t]] /\ loc = [loc EXCEPT ![t] = loc[t]]
      /\ size \in Int /\ modCount \in Nat /\ heap \in Heaps /\ es \in [Places -> Fields]
  BY <1>1, CapacityFacts DEF Typed
<1>3. /\ Running(t) /\ pc[t] # "clear" => t \in Threads \ Shrunk
      /\ Running(t) => t \in Threads \ Grown
  BY DEF Running, Grown, Shrunk
<1>4. /\ Low \in Int /\ High \in Int /\ -Capacity < Low /\ High <= Capacity /\ Low <= 1 /\ 1 <= High
      /\ Running(t) /\ pc[t] # "clear" => -Capacity < Low - 1
      /\ Running(t) => High < Capacity
  BY <1>3, SizeBounds
<1>5. /\ size \in -Capacity .. Capacity
      /\ Running(t) /\ pc[t] # "clear" => size - 1 \in -Capacity .. Capacity
  BY <1>1, <1>2, <1>4, CapacityFacts
<1> QED BY <1>1, <1>2, <1>4, <1>5 DEF Inside, Locals

\* A step that leaves the list and the books.
LEMMA Onward ==
    ASSUME Races, NEW t \in Threads, Running(t),
           NEW l \in Labels \ {"idle"}, NEW x \in Locals, NEW a \in AnswerSet,
           pc' = [pc EXCEPT ![t] = l], loc' = [loc EXCEPT ![t] = x],
           answer' = [answer EXCEPT ![t] = a],
           UNCHANGED <<req, heap, es, size, modCount, before>>, pc[t] # "clear",
           At(l, x, req[t].op, ids[t], Low, High)
    PROVE  Races'
<1>1. UNCHANGED ids /\ IdsCounted'
  BY DEF Races, IdsCounted, Adders, ids
<1> QED BY <1>1, Found, Moves

\* A step with which a request is over, answered or not.
LEMMA Ends ==
    ASSUME Races, NEW t \in Threads, Running(t), NEW a \in AnswerSet, Reply(t, a) \/ Die(t),
           UNCHANGED <<req, ids, modCount, before>>, heap' \in Heaps,
           es' \in [Places -> Fields], size' \in Int,
           \/ size' = size
           \/ req[t].op = "add" /\ Reply(t, a) /\ 1 <= size' /\ size' <= High + 1
    PROVE  Races'
<1>1. NoLocals \in Locals /\ {"answered", "dead"} \subseteq Labels \ {"idle"}
  BY NoLocalsType DEF Labels
<1>2. \A l \in {"answered", "dead"} : At(l, NoLocals, req[t].op, ids'[t], Low, High)
  BY DEF At, AddLabels, RemoveLabels, SetLabels, ListLabels
<1>3. IdsCounted' /\ modCount' \in Nat
  BY Found DEF IdsCounted, Adders
<1>4. CASE Reply(t, a)
  <2>1. /\ pc' = [pc EXCEPT ![t] = "answered"] /\ loc' = [loc EXCEPT ![t] = NoLocals]
        /\ answer' = [answer EXCEPT ![t] = a]
    BY <1>4 DEF Reply, Go
  <2> QED BY <1>1, <1>2, <1>3, <2>1, Moves
<1>5. CASE Die(t) /\ size' = size
  <2>1. /\ pc' = [pc EXCEPT ![t] = "dead"] /\ loc' = [loc EXCEPT ![t] = NoLocals]
        /\ answer' = [answer EXCEPT ![t] = answer[t]] /\ answer[t] \in AnswerSet
    BY <1>5, Found DEF Die, Go
  <2> QED BY <1>1, <1>2, <1>3, <1>5, <2>1, Moves
<1> QED BY <1>4, <1>5

\* The answer to a POST.
LEMMA DoneAnswer ==
    ASSUME NEW t \in Threads
    PROVE  \E a \in AnswerSet : Done(t) => Reply(t, a)
<1>1. [status |-> "done", books |-> << >>] \in AnswerSet
  BY DEF AnswerSet
<1> QED BY <1>1 DEF Done

\* The end of a request that leaves the list and the books.
LEMMA EndsQuietly ==
    ASSUME Races, NEW t \in Threads, Running(t), Done(t) \/ Die(t),
           UNCHANGED <<req, heap, es, size, modCount, before>>
    PROVE  Races'
<1>1. PICK a \in AnswerSet : Done(t) => Reply(t, a)
  BY DoneAnswer
<1>2. UNCHANGED ids
  BY DEF ids
<1> QED BY <1>1, <1>2, Found, Ends

-----------------------------------------------------------------------------
(* The steps.                                                              *)

LEMMA PostStarts ==
    ASSUME Races, NEW t \in Threads, LastIndex(t) \/ CheckIndex(t) \/ AddReadMod(t) \/ AddReadSize(t)
    PROVE  Races'
<1>1. CASE LastIndex(t)
  <2>1. pc[t] = "lastIndex" /\ UNCHANGED <<req, answer, heap, es, size, modCount, before>>
    BY <1>1 DEF LastIndex, list
  <2>2. PICK x : x = [loc[t] EXCEPT !.n = size - 1]
    OBVIOUS
  <2>3. x \in Locals
    BY <2>1, <2>2, Found, LocalsType DEF Running
  <2>4. pc' = [pc EXCEPT ![t] = "checkIndex"] /\ loc' = [loc EXCEPT ![t] = x]
    BY <1>1, <2>2 DEF LastIndex, Go
  <2>5. At("checkIndex", x, req[t].op, ids[t], Low, High)
    BY <2>1, Found DEF At, AddLabels, RemoveLabels, SetLabels, ListLabels
  <2> QED BY <2>1, <2>3, <2>4, <2>5, Found, Onward DEF Running, Labels, PostLabels
<1>2. CASE CheckIndex(t)
  <2>1. pc[t] = "checkIndex" /\ UNCHANGED <<req, heap, es, size, modCount, before>>
    BY <1>2 DEF CheckIndex, list
  <2>2. CASE loc[t].n \in 0 .. (size - 1)
    <3>1. pc' = [pc EXCEPT ![t] = "readLast"] /\ loc' = [loc EXCEPT ![t] = loc[t]]
      BY <1>2, <2>2, Found DEF CheckIndex, Go
    <3>2. UNCHANGED answer
      BY <1>2, <2>2 DEF CheckIndex
    <3>3. At("readLast", loc[t], req[t].op, ids[t], Low, High)
      BY <2>1, <2>2, Found, CapacityFacts DEF At, AddLabels, RemoveLabels, SetLabels, ListLabels, Places
    <3> QED BY <2>1, <3>1, <3>2, <3>3, Found, Onward DEF Running, Labels, PostLabels
  <2>3. CASE loc[t].n \notin 0 .. (size - 1)
    <3>1. Die(t)
      BY <1>2, <2>3 DEF CheckIndex
    <3> QED BY <2>1, <3>1, EndsQuietly DEF Running
  <2> QED BY <2>2, <2>3
<1>3. CASE AddReadMod(t)
  <2>1. pc[t] = "addReadMod" /\ UNCHANGED <<req, answer, heap, es, size, modCount, before>>
    BY <1>3 DEF AddReadMod, list
  <2>2. PICK x : x = [loc[t] EXCEPT !.mod = modCount]
    OBVIOUS
  <2>3. x \in Locals
    BY <2>2, Found, LocalsType
  <2>4. pc' = [pc EXCEPT ![t] = "addWriteMod"] /\ loc' = [loc EXCEPT ![t] = x]
    BY <1>3, <2>2 DEF AddReadMod, Go
  <2>5. At("addWriteMod", x, req[t].op, ids[t], Low, High)
    BY <2>1, Found DEF At, AddLabels, RemoveLabels, SetLabels, ListLabels
  <2> QED BY <2>1, <2>3, <2>4, <2>5, Found, Onward DEF Running, Labels, PostLabels
<1>4. CASE AddReadSize(t)
  <2>1. pc[t] = "addReadSize" /\ UNCHANGED <<req, answer, heap, es, size, modCount, before>>
    BY <1>4 DEF AddReadSize, list
  <2>2. PICK x : x = [loc[t] EXCEPT !.n = size]
    OBVIOUS
  <2>3. x \in Locals
    BY <2>2, Found, LocalsType
  <2>4. pc' = [pc EXCEPT ![t] = "addStore"] /\ loc' = [loc EXCEPT ![t] = x]
    BY <1>4, <2>2 DEF AddReadSize, Go
  <2>5. At("addStore", x, req[t].op, ids[t], Low, High)
    <3>1. x.n = size
      BY <2>2, Found DEF Locals
    <3> QED BY <2>1, <3>1, Found DEF At, AddLabels, RemoveLabels, SetLabels, ListLabels
  <2> QED BY <2>1, <2>3, <2>4, <2>5, Found, Onward DEF Running, Labels, PostLabels
<1> QED BY <1>1, <1>2, <1>3, <1>4

\* A new id is one more than those given.
LEMMA Numbers ==
    ASSUME Races, NEW t \in Threads, ids[t] = NoId,
           NEW n \in 0 .. Cardinality(Adders) + 1, heap' = [heap EXCEPT ![t].id = n]
    PROVE  /\ heap' \in Heaps /\ IdsCounted'
           /\ \A u \in Threads \ {t} : ids'[u] = ids[u]
<1>1. heap \in Heaps /\ IdsCounted /\ t \in Objects
  BY Found, ObjectFacts
<1>2. t \in Threads \ Adders /\ Adders \subseteq Threads
  BY DEF Adders
<1>3. /\ Cardinality(Adders) \in Nat /\ Cardinality(Adders \union {t}) = Cardinality(Adders) + 1
      /\ Cardinality(Adders \union {t}) <= MaxId
  BY <1>2, CountFacts
<1>4. n \in 0 .. MaxId
  BY <1>3, CapacityFacts
<1>5. heap' \in Heaps
  BY <1>1, <1>4, CapacityFacts DEF Heaps, NoId
<1>6. ids' = [ids EXCEPT ![t] = n]
  BY <1>1 DEF ids, Heaps
<1>7. Adders' = Adders \union {t}
  BY <1>1, <1>2, <1>4, <1>6, ObjectFacts DEF Adders, NoId, ids
<1>8. IdsCounted'
  <2> SUFFICES ASSUME NEW o \in Objects PROVE ids'[o] <= Cardinality(Adders) + 1
    BY <1>3, <1>7 DEF IdsCounted
  <2>1. ids[o] \in Int /\ ids[o] <= Cardinality(Adders)
    BY <1>1, CapacityFacts DEF IdsCounted, ids, Heaps, NoId
  <2> QED BY <1>1, <1>3, <1>6, <2>1 DEF ids
<1> QED BY <1>1, <1>5, <1>6, <1>8, ObjectFacts DEF ids

\* An id is known.
LEMMA NewIdKnown ==
    ASSUME Races, NEW t \in Threads, pc[t] \in {"size", "readLast"},
           NEW n \in 0 .. Cardinality(Adders) + 1, HasNewId(t, n),
           UNCHANGED <<req, loc, answer, es, size, modCount, before>>
    PROVE  Races'
<1>1. ids[t] = NoId /\ Running(t)
  BY Found DEF At, Running
<1>2. CASE req[t].op = "add"
  <2>1. /\ pc' = [pc EXCEPT ![t] = "addReadMod"] /\ heap' = [heap EXCEPT ![t].id = n]
    BY <1>2 DEF HasNewId, Go
  <2>2. At("addReadMod", loc[t], req[t].op, ids'[t], Low, High)
    BY <1>2 DEF At, AddLabels, RemoveLabels, SetLabels, ListLabels
  <2>3. heap' \in Heaps /\ IdsCounted' /\ \A u \in Threads \ {t} : ids'[u] = ids[u]
    BY <1>1, <2>1, Numbers
  <2>4. "addReadMod" \in Labels \ {"idle"} /\ pc[t] # "clear"
    BY DEF Labels, PostLabels
  <2> QED BY <1>1, <2>1, <2>2, <2>3, <2>4, Found, Moves
<1>3. CASE req[t].op # "add"
  <2>1. pc' = [pc EXCEPT ![t] = "iterator"] /\ UNCHANGED heap
    BY <1>3 DEF HasNewId, Go
  <2>2. At("iterator", loc[t], req[t].op, ids[t], Low, High)
    BY DEF At, AddLabels, RemoveLabels, SetLabels, ListLabels
  <2> QED BY <1>1, <2>1, <2>2, Found, Onward DEF Labels, LoopLabels
<1> QED BY <1>2, <1>3

LEMMA NewIdSteps ==
    ASSUME Races, NEW t \in Threads, ReadSize(t) \/ ReadLast(t)
    PROVE  Races'
<1>1. Adders \subseteq Threads /\ Cardinality(Adders) \in Nat
  BY CountFacts DEF Adders
<1>2. CASE ReadSize(t)
  <2>1. pc[t] = "size" /\ UNCHANGED <<req, loc, answer, es, size, modCount, before>>
    BY <1>2 DEF ReadSize, list
  <2>2. CASE size = 0
    BY <1>1, <1>2, <2>1, <2>2, NewIdKnown DEF ReadSize
  <2>3. CASE size # 0
    <3>1. pc' = [pc EXCEPT ![t] = "lastIndex"] /\ UNCHANGED heap
      BY <1>2, <2>3 DEF ReadSize, Go
    <3>2. At("lastIndex", loc[t], req[t].op, ids[t], Low, High)
      BY <2>1, Found DEF At, AddLabels, RemoveLabels, SetLabels, ListLabels
    <3> QED BY <2>1, <3>1, <3>2, Found, Onward DEF Running, Labels, PostLabels
  <2> QED BY <2>2, <2>3
<1>3. CASE ReadLast(t)
  <2>1. pc[t] = "readLast" /\ UNCHANGED <<req, es, size, modCount, before>>
    BY <1>3 DEF ReadLast, list
  <2>2. PICK last \in Fields : last = es[loc[t].n]
    BY <2>1, Found DEF At
  <2>3. CASE last = Null
    BY <1>3, <2>1, <2>2, <2>3, EndsQuietly DEF ReadLast, Running
  <2>4. CASE last # Null
    <3>1. last \in Objects
      BY <2>4 DEF Fields
    <3>2. heap[last].id + 1 \in 0 .. Cardinality(Adders) + 1
      <4>1. heap[last].id \in NoId .. MaxId /\ ids[last] = heap[last].id
        BY <3>1, Found DEF ids, Heaps
      <4>2. ids[last] <= Cardinality(Adders)
        BY <3>1, Found DEF IdsCounted
      <4> QED BY <1>1, <4>1, <4>2, CapacityFacts DEF NoId
    <3>3. HasNewId(t, heap[last].id + 1) /\ UNCHANGED <<loc, answer>>
      BY <1>3, <2>2, <2>4 DEF ReadLast
    <3> QED BY <2>1, <3>2, <3>3, NewIdKnown
  <2> QED BY <2>3, <2>4
<1> QED BY <1>2, <1>3

LEMMA AddSteps ==
    ASSUME Races, NEW t \in Threads, AddWriteMod(t) \/ AddStore(t) \/ AddSize(t)
    PROVE  Races'
<1>1. CASE AddWriteMod(t)
  <2>1. /\ pc[t] = "addWriteMod" /\ UNCHANGED <<req, loc, answer, heap, es, size, before, ids>>
        /\ pc' = [pc EXCEPT ![t] = "addReadSize"] /\ modCount' = loc[t].mod + 1
    BY <1>1 DEF AddWriteMod, Go, ids
  <2>2. At("addReadSize", loc[t], req[t].op, ids[t], Low, High)
    BY <2>1, Found DEF At, AddLabels, RemoveLabels, SetLabels, ListLabels
  <2>3. Running(t) /\ "addReadSize" \in Labels \ {"idle"} /\ pc[t] # "clear"
    BY <2>1 DEF Running, Labels, PostLabels
  <2>4. modCount' \in Nat
    BY <2>1, Found
  <2>5. IdsCounted'
    BY <2>1, Found DEF IdsCounted, Adders
  <2> QED BY <2>1, <2>2, <2>3, <2>4, <2>5, Found, Moves
<1>2. CASE AddStore(t)
  <2>1. pc[t] = "addStore" /\ UNCHANGED <<req, heap, size, modCount, before, ids>> /\ Running(t)
    BY <1>2 DEF AddStore, Running, ids
  <2>2. CASE loc[t].n < 0
    <3>1. Die(t) /\ UNCHANGED es
      BY <1>2, <2>2 DEF AddStore
    <3> QED BY <2>1, <3>1, EndsQuietly
  <2>3. CASE ~ (loc[t].n < 0)
    <3>1. /\ pc' = [pc EXCEPT ![t] = "addSize"] /\ UNCHANGED <<loc, answer>>
          /\ es' = [es EXCEPT ![loc[t].n] = t]
      BY <1>2, <2>3 DEF AddStore, Go
    <3>2. es' \in [Places -> Fields]
      BY <3>1, Found, ObjectFacts
    <3>3. At("addSize", loc[t], req[t].op, ids[t], Low, High)
      BY <2>1, <2>3, Found DEF At, AddLabels, RemoveLabels, SetLabels, ListLabels
    <3>4. "addSize" \in Labels \ {"idle"} /\ pc[t] # "clear"
      BY <2>1 DEF Labels, PostLabels
    <3>5. IdsCounted'
      BY <2>1, Found DEF IdsCounted, Adders
    <3> QED BY <2>1, <3>1, <3>2, <3>3, <3>4, <3>5, Found, Moves
  <2> QED BY <2>2, <2>3
<1>3. CASE AddSize(t)
  <2>1. /\ pc[t] = "addSize" /\ UNCHANGED <<req, heap, es, modCount, before, ids>> /\ Running(t)
        /\ size' = loc[t].n + 1 /\ Done(t)
    BY <1>3 DEF AddSize, Running, ids
  <2>2. PICK a \in AnswerSet : Done(t) => Reply(t, a)
    BY DoneAnswer
  <2>3. req[t].op = "add" /\ size' \in Int /\ 1 <= size' /\ size' <= High + 1
    BY <2>1, Found, CapacityFacts DEF At
  <2> QED BY <2>1, <2>2, <2>3, Found, Ends
<1> QED BY <1>1, <1>2, <1>3

LEMMA LoopSteps ==
    ASSUME Races, NEW t \in Threads, Iterator(t) \/ HasNext(t) \/ CheckMod(t) \/ CheckSize(t)
    PROVE  Races'
<1>1. CASE Iterator(t)
  <2>1. pc[t] = "iterator" /\ UNCHANGED <<req, answer, heap, es, size, modCount, before>>
    BY <1>1 DEF Iterator, list
  <2>2. PICK x : x = [loc[t] EXCEPT !.i = 0, !.mod = modCount]
    OBVIOUS
  <2>3. x \in Locals
    <3>1. 0 \in 0 .. Capacity
      BY CapacityFacts
    <3> QED BY <2>2, <3>1, Found, LocalsTwice
  <2>4. pc' = [pc EXCEPT ![t] = "hasNext"] /\ loc' = [loc EXCEPT ![t] = x]
    BY <1>1, <2>2 DEF Iterator, Go
  <2>5. At("hasNext", x, req[t].op, ids[t], Low, High)
    BY DEF At, AddLabels, RemoveLabels, SetLabels, ListLabels
  <2> QED BY <2>1, <2>3, <2>4, <2>5, Found, Onward DEF Running, Labels, LoopLabels
<1>2. CASE HasNext(t)
  <2>1. pc[t] = "hasNext" /\ UNCHANGED <<req, heap, es, size, modCount, before, ids>> /\ Running(t)
    BY <1>2 DEF HasNext, list, Running, ids
  <2>2. CASE loc[t].i # size
    <3>1. pc' = [pc EXCEPT ![t] = "checkMod"] /\ UNCHANGED <<loc, answer>>
      BY <1>2, <2>2 DEF HasNext, Go
    <3>2. At("checkMod", loc[t], req[t].op, ids[t], Low, High)
      BY DEF At, AddLabels, RemoveLabels, SetLabels, ListLabels
    <3> QED BY <2>1, <3>1, <3>2, Found, Onward DEF Labels, LoopLabels
  <2>3. CASE loc[t].i = size /\ req[t].op = "list"
    <3>1. PICK a : a = [status |-> "list", books |-> loc[t].out]
      OBVIOUS
    <3>2. Reply(t, a) /\ a \in AnswerSet
      BY <1>2, <2>3, <3>1, Found DEF HasNext, AnswerSet
    <3> QED BY <2>1, <3>2, Found, Ends
  <2>4. CASE loc[t].i = size /\ req[t].op # "list"
    BY <1>2, <2>1, <2>4, EndsQuietly DEF HasNext
  <2> QED BY <2>2, <2>3, <2>4
<1>3. CASE CheckMod(t)
  <2>1. pc[t] = "checkMod" /\ UNCHANGED <<req, heap, es, size, modCount, before>> /\ Running(t)
    BY <1>3 DEF CheckMod, list, Running
  <2>2. CASE modCount = loc[t].mod
    <3>1. pc' = [pc EXCEPT ![t] = "checkSize"] /\ UNCHANGED <<loc, answer>>
      BY <1>3, <2>2 DEF CheckMod, Go
    <3>2. At("checkSize", loc[t], req[t].op, ids[t], Low, High)
      BY DEF At, AddLabels, RemoveLabels, SetLabels, ListLabels
    <3> QED BY <2>1, <3>1, <3>2, Found, Onward DEF Labels, LoopLabels
  <2>3. CASE modCount # loc[t].mod
    BY <1>3, <2>1, <2>3, EndsQuietly DEF CheckMod
  <2> QED BY <2>2, <2>3
<1>4. CASE CheckSize(t)
  <2>1. pc[t] = "checkSize" /\ UNCHANGED <<req, heap, es, size, modCount, before>> /\ Running(t)
    BY <1>4 DEF CheckSize, list, Running
  <2>2. CASE loc[t].i < size
    <3>1. pc' = [pc EXCEPT ![t] = "fetch"] /\ UNCHANGED <<loc, answer>>
      BY <1>4, <2>2 DEF CheckSize, Go
    <3>2. loc[t].i < Capacity
      BY <2>2, Found, CapacityFacts
    <3>3. At("fetch", loc[t], req[t].op, ids[t], Low, High)
      BY <3>2 DEF At, AddLabels, RemoveLabels, SetLabels, ListLabels
    <3> QED BY <2>1, <3>1, <3>3, Found, Onward DEF Labels, LoopLabels
  <2>3. CASE ~ (loc[t].i < size)
    BY <1>4, <2>1, <2>3, EndsQuietly DEF CheckSize
  <2> QED BY <2>2, <2>3
<1> QED BY <1>1, <1>2, <1>3, <1>4

LEMMA FetchStep == ASSUME Races, NEW t \in Threads, Fetch(t) PROVE Races'
<1>1. pc[t] = "fetch" /\ UNCHANGED <<req, heap, es, size, modCount, before>> /\ Running(t)
  BY DEF Fetch, list, Running
<1>2. PICK b \in Fields : b = es[loc[t].i]
  <2>1. loc[t].i \in Places
    BY <1>1, Found, CapacityFacts DEF At, Places
  <2> QED BY <2>1, Found
<1>3. PICK rest \in Locals : rest = [loc[t] EXCEPT !.i = @ + 1]
  <2>1. loc[t].i + 1 \in 0 .. Capacity
    BY <1>1, Found, CapacityFacts DEF At
  <2>2. [loc[t] EXCEPT !.i = loc[t].i + 1] \in Locals
    BY <2>1, Found, LocalsType
  <2> QED BY <2>2
<1>4. /\ rest.out \in Seq(ReadBooks) /\ Null \in Fields
      /\ [rest EXCEPT !.cur = b] \in Locals /\ [rest EXCEPT !.cur = b].cur = b
  <2>1. rest.out \in Seq(ReadBooks) /\ rest.i \in 0 .. Capacity /\ rest.n \in -Capacity .. Capacity
        /\ rest.mod \in Nat
    BY DEF Locals
  <2>2. [rest EXCEPT !.cur = b] \in Locals
    BY <2>1, LocalsType
  <2> QED BY <2>1, <2>2, ObjectFacts DEF Locals
<1>5. \A l \in {"readName", "setName"} : b # Null =>
          At(l, [rest EXCEPT !.cur = b], req[t].op, ids[t], Low, High)
  <2>1. b # Null => b \in Objects
    BY DEF Fields
  <2> QED BY <1>4, <2>1 DEF At, AddLabels, RemoveLabels, SetLabels, ListLabels
<1>6. CASE req[t].op = "list" /\ b # Null
  <2>1. pc' = [pc EXCEPT ![t] = "readName"] /\ loc' = [loc EXCEPT ![t] = [rest EXCEPT !.cur = b]]
        /\ UNCHANGED answer
    BY <1>2, <1>3, <1>6 DEF Fetch, Go
  <2> QED BY <1>1, <1>4, <1>5, <1>6, <2>1, Found, Onward DEF Labels, ListLabels
<1>7. CASE req[t].op = "list" /\ b = Null
  <2>1. PICK e : e = [book |-> Null, name |-> Null, author |-> Null, year |-> Null]
    OBVIOUS
  <2>2. e \in ReadBooks
    BY <1>4, <2>1 DEF ReadBooks
  <2>3. PICK x : x = [rest EXCEPT !.out = Append(rest.out, e)]
    OBVIOUS
  <2>4. x \in Locals
    <3>1. Append(rest.out, e) \in Seq(ReadBooks)
      BY <1>4, <2>2
    <3> QED BY <2>3, <3>1, Found, LocalsType
  <2>5. pc' = [pc EXCEPT ![t] = "hasNext"] /\ loc' = [loc EXCEPT ![t] = x] /\ UNCHANGED answer
    BY <1>2, <1>3, <1>7, <2>1, <2>3 DEF Fetch, Go
  <2>6. At("hasNext", x, req[t].op, ids[t], Low, High)
    BY DEF At, AddLabels, RemoveLabels, SetLabels, ListLabels
  <2> QED BY <1>1, <2>4, <2>5, <2>6, Found, Onward DEF Labels, LoopLabels
<1>8. CASE req[t].op # "list" /\ b = Null
  <2>1. Die(t)
    BY <1>2, <1>8 DEF Fetch
  <2> QED BY <1>1, <2>1, EndsQuietly
<1>9. CASE req[t].op # "list" /\ b # Null /\ heap[b].id # req[t].id
  <2>1. pc' = [pc EXCEPT ![t] = "hasNext"] /\ loc' = [loc EXCEPT ![t] = rest] /\ UNCHANGED answer
    BY <1>2, <1>3, <1>9 DEF Fetch, Go
  <2>2. At("hasNext", rest, req[t].op, ids[t], Low, High)
    BY DEF At, AddLabels, RemoveLabels, SetLabels, ListLabels
  <2> QED BY <1>1, <2>1, <2>2, Found, Onward DEF Labels, LoopLabels
<1>10. CASE req[t].op # "list" /\ b # Null /\ heap[b].id = req[t].id
  <2>1. PICK l : l = IF req[t].op = "remove" THEN "removeReadSize" ELSE "setName"
    OBVIOUS
  <2>2. pc' = [pc EXCEPT ![t] = l] /\ loc' = [loc EXCEPT ![t] = [rest EXCEPT !.cur = b]]
        /\ UNCHANGED answer
    BY <1>2, <1>3, <1>10, <2>1 DEF Fetch, Go
  <2>3. At("removeReadSize", [rest EXCEPT !.cur = b], "remove", ids[t], Low, High)
    BY DEF At, AddLabels, RemoveLabels, SetLabels, ListLabels
  <2>4. At(l, [rest EXCEPT !.cur = b], req[t].op, ids[t], Low, High)
    BY <1>5, <1>10, <2>1, <2>3
  <2>5. l \in Labels \ {"idle"}
    BY <2>1 DEF Labels, PostLabels
  <2> QED BY <1>1, <1>4, <2>2, <2>4, <2>5, Found, Onward
<1> QED BY <1>6, <1>7, <1>8, <1>9, <1>10

LEMMA ReadSteps ==
    ASSUME Races, NEW t \in Threads, Read(t)
    PROVE  Races'
<1>1. /\ pc[t] \in ListLabels /\ Running(t) /\ pc[t] # "clear"
      /\ UNCHANGED <<req, answer, heap, es, size, modCount, before>>
  BY DEF Read, ReadName, ReadAuthor, ReadYear, ListLabels, Running, list
<1>2. /\ loc[t].cur \in Objects
      /\ heap[loc[t].cur].name \in Fields /\ heap[loc[t].cur].author \in Fields
      /\ heap[loc[t].cur].year \in Fields
  <2>1. loc[t].cur \in Objects
    BY <1>1, Found DEF At
  <2> QED BY <2>1, Found DEF Heaps
<1>3. PICK out \in Seq(ReadBooks) : out = loc[t].out
  BY Found
<1>4. CASE ReadName(t)
  <2>1. PICK e : e = [book |-> loc[t].cur, name |-> heap[loc[t].cur].name,
                      author |-> Null, year |-> Null]
    OBVIOUS
  <2>2. e \in ReadBooks
    BY <1>2, <2>1, ObjectFacts DEF ReadBooks
  <2>3. Append(out, e) \in Seq(ReadBooks) /\ Append(out, e) # << >>
    <3>1. Append(out, e) \in Seq(ReadBooks) /\ Len(Append(out, e)) = Len(out) + 1 /\ Len(out) \in Nat
      BY <2>2
    <3>2. Append(out, e) = << >> => Len(Append(out, e)) = 0
      OBVIOUS
    <3> QED BY <3>1, <3>2
  <2>4. PICK x : x = [loc[t] EXCEPT !.out = Append(out, e)]
    OBVIOUS
  <2>5. x \in Locals /\ x.out # << >> /\ x.cur = loc[t].cur
    BY <2>3, <2>4, Found DEF Locals
  <2>6. pc[t] = "readName" /\ pc' = [pc EXCEPT ![t] = "readAuthor"] /\ loc' = [loc EXCEPT ![t] = x]
    BY <1>3, <1>4, <2>1, <2>4 DEF ReadName, Go
  <2>7. At("readAuthor", x, req[t].op, ids[t], Low, High)
    BY <1>2, <2>5 DEF At, AddLabels, RemoveLabels, SetLabels, ListLabels
  <2> QED BY <1>1, <2>5, <2>6, <2>7, Found, Onward DEF Labels, ListLabels
<1>5. CASE ReadAuthor(t)
  <2>1. pc[t] = "readAuthor" /\ out # << >>
    BY <1>3, <1>5, Found DEF ReadAuthor, At
  <2>2. PICK out2 : out2 = [out EXCEPT ![Len(out)].author = heap[loc[t].cur].author]
    OBVIOUS
  <2>3. out2 \in Seq(ReadBooks) /\ Len(out2) = Len(out)
    BY <1>2, <2>1, <2>2, FieldRead
  <2>4. out2 # << >>
    BY <2>1, <2>3
  <2>5. PICK x : x = [loc[t] EXCEPT !.out = out2]
    OBVIOUS
  <2>6. x \in Locals /\ x.out = out2 /\ x.cur = loc[t].cur
    BY <2>3, <2>5, Found DEF Locals
  <2>7. pc' = [pc EXCEPT ![t] = "readYear"] /\ loc' = [loc EXCEPT ![t] = x]
    BY <1>3, <1>5, <2>2, <2>5 DEF ReadAuthor, Go
  <2>8. At("readYear", x, req[t].op, ids[t], Low, High)
    BY <1>2, <2>4, <2>6 DEF At, AddLabels, RemoveLabels, SetLabels, ListLabels
  <2> QED BY <1>1, <2>6, <2>7, <2>8, Found, Onward DEF Labels, ListLabels
<1>6. CASE ReadYear(t)
  <2>1. pc[t] = "readYear" /\ out # << >>
    BY <1>3, <1>6, Found DEF ReadYear, At
  <2>2. PICK out2 : out2 = [out EXCEPT ![Len(out)].year = heap[loc[t].cur].year]
    OBVIOUS
  <2>3. out2 \in Seq(ReadBooks)
    BY <1>2, <2>1, <2>2, FieldRead
  <2>4. PICK x : x = [loc[t] EXCEPT !.out = out2, !.cur = Null]
    OBVIOUS
  <2>5. x \in Locals
    BY <2>3, <2>4, Found, ObjectFacts, LocalsTwice
  <2>6. pc' = [pc EXCEPT ![t] = "hasNext"] /\ loc' = [loc EXCEPT ![t] = x]
    <3>1. x = [loc[t] EXCEPT !.out[Len(out)].year = heap[loc[t].cur].year, !.cur = Null]
      BY <1>3, <2>2, <2>4
    <3> QED BY <1>3, <1>6, <3>1 DEF ReadYear, Go
  <2>7. At("hasNext", x, req[t].op, ids[t], Low, High)
    BY DEF At, AddLabels, RemoveLabels, SetLabels, ListLabels
  <2> QED BY <1>1, <2>5, <2>6, <2>7, Found, Onward DEF Labels, LoopLabels
<1> QED BY <1>4, <1>5, <1>6 DEF Read

LEMMA SetSteps == ASSUME Races, NEW t \in Threads, Set(t) PROVE Races'
<1>1. pc[t] \in SetLabels /\ UNCHANGED <<req, es, size, modCount, before>>
  BY DEF Set, SetName, SetAuthor, SetYear, SetLabels, list
<1>2. Running(t) /\ pc[t] # "clear" /\ loc[t].cur \in Objects /\ t \in Fields
  BY <1>1, Found, ObjectFacts DEF At, SetLabels, Running
<1>3. heap' \in Heaps /\ UNCHANGED ids
  <2>1. \/ heap' = [heap EXCEPT ![loc[t].cur].name = t]
        \/ heap' = [heap EXCEPT ![loc[t].cur].author = t]
        \/ heap' = [heap EXCEPT ![loc[t].cur].year = t]
    BY DEF Set, SetName, SetAuthor, SetYear
  <2>2. heap \in Heaps
    BY Found
  <2>3. heap' \in Heaps
    BY <1>2, <2>1, <2>2 DEF Heaps
  <2>4. \A o \in Objects : heap'[o].id = heap[o].id
    BY <1>2, <2>1, <2>2 DEF Heaps
  <2> QED BY <2>3, <2>4 DEF ids
<1>4. IdsCounted'
  BY <1>3, Found DEF IdsCounted, Adders
<1>5. \A l \in SetLabels : At(l, loc[t], req[t].op, ids'[t], Low, High)
  BY <1>2 DEF At, AddLabels, RemoveLabels, SetLabels, ListLabels
<1>6. CASE SetName(t) \/ SetAuthor(t)
  <2>1. PICK l \in {"setAuthor", "setYear"} : pc' = [pc EXCEPT ![t] = l]
    BY <1>6 DEF SetName, SetAuthor, Go
  <2>2. UNCHANGED <<loc, answer>>
    BY <1>6 DEF SetName, SetAuthor
  <2>3. l \in Labels \ {"idle"} /\ l \in SetLabels
    BY DEF Labels, PostLabels, SetLabels
  <2> QED BY <1>1, <1>2, <1>3, <1>4, <1>5, <2>1, <2>2, <2>3, Found, Moves
<1>7. CASE SetYear(t)
  <2>1. PICK a \in AnswerSet : Done(t) => Reply(t, a)
    BY DoneAnswer
  <2>2. Reply(t, a)
    BY <1>7, <2>1 DEF SetYear
  <2> QED BY <1>1, <1>2, <1>3, <2>2, Found, Ends
<1> QED BY <1>6, <1>7 DEF Set

LEMMA SearchSteps ==
    ASSUME Races, NEW t \in Threads, RemoveReadSize(t) \/ Scan(t) \/ RemoveReadMod(t)
    PROVE  Races'
<1>1. CASE RemoveReadSize(t)
  <2>1. pc[t] = "removeReadSize" /\ UNCHANGED <<req, heap, es, size, modCount, before>> /\ Running(t)
    BY <1>1 DEF RemoveReadSize, list, Running
  <2>2. CASE size > 0
    <3>1. PICK x : x = [loc[t] EXCEPT !.i = 0, !.n = size]
      OBVIOUS
    <3>2. 0 \in 0 .. Capacity
      BY CapacityFacts
    <3>3. x \in Locals
      BY <3>1, <3>2, Found, LocalsTwice
    <3>4. x.i = 0 /\ x.n = size
      BY <3>1, Found DEF Locals
    <3>5. pc' = [pc EXCEPT ![t] = "scan"] /\ loc' = [loc EXCEPT ![t] = x] /\ UNCHANGED answer
      BY <1>1, <2>2, <3>1 DEF RemoveReadSize, Go
    <3>6. At("scan", x, req[t].op, ids[t], Low, High)
      BY <2>1, <2>2, <3>4, Found DEF At, AddLabels, RemoveLabels, SetLabels, ListLabels
    <3> QED BY <2>1, <3>3, <3>5, <3>6, Found, Onward DEF Labels, PostLabels
  <2>3. CASE ~ (size > 0)
    BY <1>1, <2>1, <2>3, EndsQuietly DEF RemoveReadSize
  <2> QED BY <2>2, <2>3
<1>2. CASE Scan(t)
  <2>1. pc[t] = "scan" /\ UNCHANGED <<req, heap, es, size, modCount, before>> /\ Running(t)
    BY <1>2 DEF Scan, list, Running
  <2>2. loc[t].i < loc[t].n /\ req[t].op = "remove"
    BY <2>1, Found DEF At, RemoveLabels
  <2>3. CASE pc' = [pc EXCEPT ![t] = "removeReadMod"] /\ UNCHANGED <<loc, answer>>
    <3>1. loc[t].i < Capacity
      BY <2>2, Found, CapacityFacts
    <3>2. At("removeReadMod", loc[t], req[t].op, ids[t], Low, High)
      BY <2>2, <3>1 DEF At, AddLabels, RemoveLabels, SetLabels, ListLabels
    <3> QED BY <2>1, <2>3, <3>2, Found, Onward DEF Labels, PostLabels
  <2>4. CASE /\ loc[t].i + 1 < loc[t].n /\ UNCHANGED <<pc, answer>>
             /\ loc' = [loc EXCEPT ![t].i = @ + 1]
    <3>1. PICK x : x = [loc[t] EXCEPT !.i = loc[t].i + 1]
      OBVIOUS
    <3>2. loc[t].i + 1 \in 0 .. Capacity
      BY <2>4, Found, CapacityFacts
    <3>3. x \in Locals
      BY <3>1, <3>2, Found, LocalsType
    <3>4. x.i = loc[t].i + 1 /\ x.n = loc[t].n
      BY <3>1, Found DEF Locals
    <3>5. loc' = [loc EXCEPT ![t] = x] /\ pc' = [pc EXCEPT ![t] = "scan"]
      BY <2>1, <2>4, <3>1, Found DEF Typed
    <3>6. At("scan", x, req[t].op, ids[t], Low, High)
      BY <2>2, <2>4, <3>4 DEF At, AddLabels, RemoveLabels, SetLabels, ListLabels
    <3>7. "scan" \in Labels \ {"idle"} /\ UNCHANGED answer
      BY <2>4 DEF Labels, PostLabels
    <3> QED BY <2>1, <3>3, <3>5, <3>6, <3>7, Found, Onward
  <2>5. CASE Done(t)
    BY <2>1, <2>5, EndsQuietly
  <2> QED BY <1>2, <2>3, <2>4, <2>5 DEF Scan, Go
<1>3. CASE RemoveReadMod(t)
  <2>1. pc[t] = "removeReadMod" /\ UNCHANGED <<req, answer, heap, es, size, modCount, before>>
    BY <1>3 DEF RemoveReadMod, list
  <2>2. PICK x : x = [loc[t] EXCEPT !.mod = modCount]
    OBVIOUS
  <2>3. x \in Locals
    BY <2>2, Found, LocalsType
  <2>4. x.i = loc[t].i
    BY <2>2, Found DEF Locals
  <2>5. pc' = [pc EXCEPT ![t] = "removeWriteMod"] /\ loc' = [loc EXCEPT ![t] = x]
    BY <1>3, <2>2 DEF RemoveReadMod, Go
  <2>6. At("removeWriteMod", x, req[t].op, ids[t], Low, High)
    BY <2>1, <2>4, Found DEF At, AddLabels, RemoveLabels, SetLabels, ListLabels
  <2> QED BY <2>1, <2>3, <2>5, <2>6, Found, Onward DEF Running, Labels, PostLabels
<1> QED BY <1>1, <1>2, <1>3

LEMMA GapSteps ==
    ASSUME Races, NEW t \in Threads,
           RemoveWriteMod(t) \/ NewSize(t) \/ Shift(t) \/ Shrink(t) \/ Clear(t)
    PROVE  Races'
<1>1. CASE RemoveWriteMod(t)
  <2>1. /\ pc[t] = "removeWriteMod" /\ UNCHANGED <<req, loc, answer, heap, es, size, before, ids>>
        /\ pc' = [pc EXCEPT ![t] = "newSize"] /\ modCount' = loc[t].mod + 1
    BY <1>1 DEF RemoveWriteMod, Go, ids
  <2>2. At("newSize", loc[t], req[t].op, ids[t], Low, High)
    BY <2>1, Found DEF At, AddLabels, RemoveLabels, SetLabels, ListLabels
  <2>3. Running(t) /\ "newSize" \in Labels \ {"idle"} /\ pc[t] # "clear"
    BY <2>1 DEF Running, Labels, PostLabels
  <2>4. modCount' \in Nat
    BY <2>1, Found
  <2>5. IdsCounted'
    BY <2>1, Found DEF IdsCounted, Adders
  <2> QED BY <2>1, <2>2, <2>3, <2>4, <2>5, Found, Moves
<1>2. CASE NewSize(t)
  <2>1. pc[t] = "newSize" /\ UNCHANGED <<req, answer, heap, es, size, modCount, before>> /\ Running(t)
    BY <1>2 DEF NewSize, list, Running
  <2>2. PICK x, l : /\ x = [loc[t] EXCEPT !.n = size - 1]
                    /\ l = IF size - 1 > loc[t].i THEN "shift" ELSE "shrink"
    OBVIOUS
  <2>3. x \in Locals
    BY <2>1, <2>2, Found, LocalsType
  <2>4. x.i = loc[t].i /\ x.n = size - 1
    BY <2>2, Found DEF Locals
  <2>5. pc' = [pc EXCEPT ![t] = l] /\ loc' = [loc EXCEPT ![t] = x]
    BY <1>2, <2>2 DEF NewSize, Go
  <2>6. Low - 1 <= size - 1 /\ size - 1 <= High /\ size - 1 < Capacity
    BY Found, CapacityFacts
  <2>7. At(l, x, req[t].op, ids[t], Low, High)
    BY <2>1, <2>2, <2>4, <2>6, Found DEF At, AddLabels, RemoveLabels, SetLabels, ListLabels
  <2> QED BY <2>1, <2>2, <2>3, <2>5, <2>7, Found, Onward DEF Labels, PostLabels
<1>3. CASE Shift(t)
  <2>1. /\ pc[t] = "shift" /\ UNCHANGED <<req, answer, heap, size, modCount, before, ids>> /\ Running(t)
        /\ es' = [es EXCEPT ![loc[t].i] = es[loc[t].i + 1]]
    BY <1>3 DEF Shift, Running, ids
  <2>2. /\ loc[t].i < loc[t].n /\ loc[t].n < Capacity /\ Low - 1 <= loc[t].n /\ loc[t].n <= High
        /\ req[t].op = "remove"
    BY <2>1, Found DEF At, RemoveLabels
  <2>3. loc[t].i \in Places /\ loc[t].i + 1 \in Places /\ loc[t].i + 1 \in 0 .. Capacity
    <3>1. loc[t].i \in 0 .. Capacity /\ loc[t].n \in -Capacity .. Capacity
      BY Found
    <3> QED BY <2>2, <3>1, CapacityFacts DEF Places
  <2>4. es' \in [Places -> Fields]
    BY <2>1, <2>3, Found
  <2>5. PICK x, l : /\ x = [loc[t] EXCEPT !.i = loc[t].i + 1]
                    /\ l = IF loc[t].i + 1 < loc[t].n THEN "shift" ELSE "shrink"
    OBVIOUS
  <2>6. x \in Locals
    BY <2>3, <2>5, Found, LocalsType
  <2>7. x.i = loc[t].i + 1 /\ x.n = loc[t].n
    BY <2>5, Found DEF Locals
  <2>8. pc' = [pc EXCEPT ![t] = l] /\ loc' = [loc EXCEPT ![t] = x]
    BY <1>3, <2>5 DEF Shift, Go
  <2>9. At(l, x, req[t].op, ids'[t], Low, High)
    BY <2>2, <2>5, <2>7 DEF At, AddLabels, RemoveLabels, SetLabels, ListLabels
  <2>10. l \in Labels \ {"idle"} /\ pc[t] # "clear"
    BY <2>1, <2>5 DEF Labels, PostLabels
  <2>11. IdsCounted'
    BY <2>1, Found DEF IdsCounted, Adders
  <2> QED BY <2>1, <2>4, <2>6, <2>8, <2>9, <2>10, <2>11, Found, Moves
<1>4. CASE Shrink(t)
  <2>1. /\ pc[t] = "shrink" /\ UNCHANGED <<req, loc, answer, heap, es, modCount, before, ids>> /\ Running(t)
        /\ pc' = [pc EXCEPT ![t] = "clear"] /\ size' = loc[t].n
    BY <1>4 DEF Shrink, Go, Running, ids
  <2>2. /\ loc[t].n < Capacity /\ Low - 1 <= loc[t].n /\ loc[t].n <= High
        /\ req[t].op = "remove"
    BY <2>1, Found DEF At, RemoveLabels
  <2>3. At("clear", loc[t], req[t].op, ids'[t], Low, High)
    BY <2>2 DEF At, AddLabels, RemoveLabels, SetLabels, ListLabels
  <2>4. "clear" \in Labels \ {"idle"} /\ pc[t] # "clear" /\ size' \in Int
    BY <2>1, Found DEF Labels, PostLabels
  <2>5. IdsCounted'
    BY <2>1, Found DEF IdsCounted, Adders
  <2> QED BY <2>1, <2>2, <2>3, <2>4, <2>5, Found, Moves
<1>5. CASE Clear(t)
  <2>1. pc[t] = "clear" /\ UNCHANGED <<req, heap, size, modCount, before, ids>> /\ Running(t)
    BY <1>5 DEF Clear, Running, ids
  <2>2. PICK a \in AnswerSet : Done(t) => Reply(t, a)
    BY DoneAnswer
  <2>3. (Reply(t, a) \/ Die(t)) /\ es' \in [Places -> Fields]
    BY <1>5, <2>2, Found, ObjectFacts DEF Clear
  <2> QED BY <2>1, <2>2, <2>3, Found, Ends
<1> QED BY <1>1, <1>2, <1>3, <1>4, <1>5

LEMMA AcceptSteps == ASSUME Races, NEW t \in Threads, NEW r \in Requests, Accept(t, r) PROVE Races'
<1>1. /\ pc[t] = "idle" /\ req' = [req EXCEPT ![t] = r]
      /\ UNCHANGED <<loc, answer, heap, es, size, modCount, ids>>
      /\ before' = [before EXCEPT ![t] = [listed |-> Listed, gone |-> Acknowledged \ Listed]]
  BY DEF Accept, list, ids
<1>2. PICK l \in {"size", "iterator"} : pc' = [pc EXCEPT ![t] = l]
  BY DEF Accept, Go
<1>3. Typed /\ ids[t] = NoId
  BY <1>1, Found DEF At
<1>4. /\ pc'[t] = l
      /\ \A u \in Threads \ {t} : pc'[u] = pc[u] /\ req'[u] = req[u]
  BY <1>1, <1>2, <1>3 DEF Typed
<1>5. Grown' = Grown /\ Shrunk' = Shrunk
  BY <1>1, <1>4 DEF Grown, Shrunk
<1>6. Low' = Low /\ High' = High
  BY <1>5 DEF Low, High
<1>7. ASSUME NEW u \in Threads PROVE Inside(u)'
  <2>1. CASE u = t
    <3>1. At(l, loc[t], r.op, ids[t], Low, High)
      BY <1>3 DEF At, AddLabels, RemoveLabels, SetLabels, ListLabels
    <3> QED BY <1>1, <1>3, <1>4, <1>6, <2>1, <3>1 DEF Inside, Typed
  <2>2. CASE u # t
    <3>1. Inside(u)
      BY DEF Races
    <3> QED BY <1>1, <1>4, <1>6, <2>2, <3>1 DEF Inside
  <2> QED BY <2>1, <2>2
<1>8. Typed'
  <2>1. \A k \in 0 .. (size - 1) : k \in Places
    BY <1>3, CapacityFacts DEF Typed, Places
  <2>2. \A k \in Places : es[k] # Null => es[k] \in Objects
    BY <1>3 DEF Typed, Fields
  <2>3. Listed \subseteq Objects /\ Acknowledged \subseteq Objects
    BY <2>1, <2>2, ObjectFacts DEF Listed, Acknowledged
  <2>4. l \in Labels
    BY DEF Labels, PostLabels, LoopLabels
  <2> QED BY <1>1, <1>2, <1>3, <2>3, <2>4 DEF Typed
<1>9. IdsCounted'
  BY <1>1, Found DEF IdsCounted, Adders
<1> QED BY <1>1, <1>6, <1>7, <1>8, <1>9 DEF Races

LEMMA InitRaces == Init => Races
<1> SUFFICES ASSUME Init PROVE Races
  OBVIOUS
<1>1. Typed /\ IdsCounted
  BY InitInv, TypeFacts DEF IInv
<1>2. \A t \in Threads : pc[t] = "idle" /\ ids[t] = NoId
  BY ObjectFacts DEF Init, ids, NewBook
<1>3. Grown = {} /\ Shrunk = {}
  BY <1>2 DEF Grown, Shrunk
<1>4. Low = 1 /\ High = 1 /\ size = 1
  BY <1>3, FS_EmptySet DEF Low, High, Init
<1>5. \A t \in Threads : Inside(t)
  BY <1>2 DEF Inside, At, AddLabels, RemoveLabels, SetLabels, ListLabels
<1> QED BY <1>1, <1>4, <1>5 DEF Races

LEMMA StepRaces == ASSUME Races, NEW t \in Threads, Step(t) PROVE Races'
<1>1. ReadSize(t) \/ ReadLast(t) => Races'
  BY NewIdSteps
<1>2. LastIndex(t) \/ CheckIndex(t) \/ AddReadMod(t) \/ AddReadSize(t) => Races'
  BY PostStarts
<1>3. AddWriteMod(t) \/ AddStore(t) \/ AddSize(t) => Races'
  BY AddSteps
<1>4. Iterator(t) \/ HasNext(t) \/ CheckMod(t) \/ CheckSize(t) => Races'
  BY LoopSteps
<1>5. Fetch(t) => Races'
  BY FetchStep
<1>6. Read(t) => Races'
  BY ReadSteps
<1>7. Set(t) => Races'
  BY SetSteps
<1>8. RemoveReadSize(t) \/ Scan(t) \/ RemoveReadMod(t) => Races'
  BY SearchSteps
<1>9. RemoveWriteMod(t) \/ NewSize(t) \/ Shift(t) \/ Shrink(t) \/ Clear(t) => Races'
  BY GapSteps
<1> QED BY <1>1, <1>2, <1>3, <1>4, <1>5, <1>6, <1>7, <1>8, <1>9 DEF Step, Add, Loop, Removal

LEMMA StutterRaces == Races /\ UNCHANGED vars => Races'
<1> SUFFICES ASSUME Races, UNCHANGED vars PROVE Races'
  OBVIOUS
<1>1. UNCHANGED <<pc, req, loc, answer, heap, es, size, modCount, before>>
  BY DEF vars, list
<1>2. UNCHANGED ids
  BY <1>1 DEF ids
<1> QED BY <1>1, <1>2 DEF Races, Typed, IdsCounted, Adders, Inside, Low, High, Grown, Shrunk

LEMMA RacesHold == Spec => []Races
<1>1. ASSUME Races, [Next]_vars PROVE Races'
  <2>1. CASE Next
    BY <1>1, <2>1, StepRaces, AcceptSteps DEF Next
  <2>2. CASE UNCHANGED vars
    BY <1>1, <2>2, StutterRaces
  <2> QED BY <1>1, <2>1, <2>2
<1> QED BY <1>1, InitRaces, PTL DEF Spec

\* However many POSTs race, size leaves 0 .. Capacity only downwards and by no
\* more than the removals, and every field of every thread stays of its type.
THEOREM ThreadsTyped == Spec => []TypeOK
<1>1. Races => TypeOK
  BY TypeFacts DEF Races
<1> QED BY <1>1, RacesHold, PTL

\* Where a thread is about to read or write an element, that is a place of the
\* array of ten that ArrayList has until it grows, or before all of them; what it
\* writes to is a book.
InTheArray ==
    \A t \in Threads :
        LET i == loc[t].i
            n == loc[t].n
        IN
        /\ pc[t] \in {"readLast", "addSize"} => n \in FirstArray
        /\ pc[t] \in {"fetch", "scan"} => i \in FirstArray
        /\ pc[t] = "shift" => i \in FirstArray /\ i + 1 \in FirstArray
        /\ pc[t] \in {"addStore", "clear"} => n \in FirstArray \/ n < 0
        /\ pc[t] \in SetLabels \union ListLabels => loc[t].cur \in Objects

\* However the first nine requests race (ArrayAssumption), none reads or writes
\* past the array's last place, and none has it copied: add and remove, which test
\* no index against it, throw for a negative one only.  Of the copy that a later
\* addition may make, while others hold the old array, this says nothing.
THEOREM IndexesInTheArray == Spec => []InTheArray
<1>1. ASSUME Races PROVE InTheArray
  <2> SUFFICES ASSUME NEW t \in Threads
               PROVE  /\ pc[t] \in {"readLast", "addSize"} => loc[t].n \in FirstArray
                      /\ pc[t] \in {"fetch", "scan"} => loc[t].i \in FirstArray
                      /\ pc[t] = "shift" => loc[t].i \in FirstArray /\ loc[t].i + 1 \in FirstArray
                      /\ pc[t] \in {"addStore", "clear"} => loc[t].n \in FirstArray \/ loc[t].n < 0
                      /\ pc[t] \in SetLabels \union ListLabels => loc[t].cur \in Objects
    BY DEF InTheArray
  <2>1. At(pc[t], loc[t], req[t].op, ids[t], Low, High)
    BY <1>1, Found
  <2>2. loc[t].i \in 0 .. Capacity /\ loc[t].n \in -Capacity .. Capacity /\ Low \in Int /\ High \in Int
    BY <1>1, Found
  <2>3. pc[t] \in {"addStore", "addSize"} => High < Capacity
    BY <1>1, Found DEF Running
  <2>4. Places \subseteq FirstArray
    BY CapacityFacts, ArrayAssumption DEF Places, FirstArray
  <2> QED BY <2>1, <2>2, <2>3, <2>4, CapacityFacts DEF At, Places
<1> QED BY <1>1, RacesHold, PTL

\* The list without a way back: its size is negative, and every request in
\* progress still has the test before it that this size will not pass.
Broken ==
    /\ size < 0
    /\ \A t \in Threads : Running(t) =>
          pc[t] \in {"size", "lastIndex", "checkIndex",
                     "iterator", "hasNext", "checkMod", "checkSize"}

\* Two removals at once can leave the size at -1, and from then on, until the
\* server is started again, no request to the list is answered: books.get and
\* next() throw for every POST and every books/list.
NoWayBack == [][Broken => Broken' /\ answer' = answer]_vars

\* No interleaving of requests brings the size of books above 0 again.
THEOREM NoAnswerAgain == Spec => NoWayBack
<1>1. ASSUME Races, Broken, NEW t \in Threads, Step(t)
      PROVE  Broken' /\ answer' = answer
  <2> DEFINE Short == {"size", "lastIndex", "checkIndex",
                       "iterator", "hasNext", "checkMod", "checkSize"}
  <2>1. /\ pc[t] \in Short /\ size < 0 /\ loc[t].i \in 0 .. Capacity
        /\ size \in Int /\ pc \in [Threads -> Labels]
    <3>1. Running(t)
      BY <1>1 DEF Step, ReadSize, LastIndex, CheckIndex, ReadLast, Add, AddReadMod, AddWriteMod,
                  AddReadSize, AddStore, AddSize, Loop, Iterator, HasNext, CheckMod, CheckSize, Fetch,
                  Read, ReadName, ReadAuthor, ReadYear, Set, SetName, SetAuthor, SetYear, Removal,
                  RemoveReadSize, Scan, RemoveReadMod, RemoveWriteMod, NewSize, Shift, Shrink, Clear,
                  Running
    <3> QED BY <1>1, <3>1, Found DEF Broken, Typed
  <2>2. \/ ReadSize(t) \/ LastIndex(t) \/ CheckIndex(t)
        \/ Iterator(t) \/ HasNext(t) \/ CheckMod(t) \/ CheckSize(t)
    BY <1>1, <2>1 DEF Step, ReadLast, Add, AddReadMod, AddWriteMod, AddReadSize, AddStore, AddSize,
                      Loop, Fetch, Read, ReadName, ReadAuthor, ReadYear, Set, SetName, SetAuthor,
                      SetYear, Removal, RemoveReadSize, Scan, RemoveReadMod, RemoveWriteMod,
                      NewSize, Shift, Shrink, Clear
  <2>3. /\ UNCHANGED <<size, answer>>
        /\ \E l \in Short \union {"dead"} : pc' = [pc EXCEPT ![t] = l]
    <3>1. CASE ReadSize(t)
      BY <2>1, <3>1 DEF ReadSize, Go, list
    <3>2. CASE LastIndex(t) \/ Iterator(t)
      BY <3>2 DEF LastIndex, Iterator, Go, list
    <3>3. CASE CheckIndex(t)
      <4>1. loc[t].n \notin 0 .. (size - 1)
        BY <2>1
      <4> QED BY <3>3, <4>1 DEF CheckIndex, Die, Go, list
    <3>4. CASE HasNext(t)
      <4>1. loc[t].i # size
        BY <2>1
      <4> QED BY <3>4, <4>1 DEF HasNext, Go, list
    <3>5. CASE CheckMod(t)
      BY <3>5 DEF CheckMod, Die, Go, list
    <3>6. CASE CheckSize(t)
      <4>1. ~ (loc[t].i < size)
        BY <2>1, CapacityFacts
      <4> QED BY <3>6, <4>1 DEF CheckSize, Die, Go, list
    <3> QED BY <2>2, <3>1, <3>2, <3>3, <3>4, <3>5, <3>6
  <2> QED BY <1>1, <2>1, <2>3 DEF Broken, Running
<1>2. ASSUME Races, Broken, NEW t \in Threads, NEW r \in Requests, Accept(t, r)
      PROVE  Broken' /\ answer' = answer
  <2>1. UNCHANGED <<size, answer>> /\ \E l \in {"size", "iterator"} : pc' = [pc EXCEPT ![t] = l]
    BY <1>2 DEF Accept, Go, list
  <2>2. pc \in [Threads -> Labels]
    BY <1>2, Found DEF Typed
  <2> QED BY <1>2, <2>1, <2>2 DEF Broken, Running
<1>3. Races /\ [Next]_vars => [Broken => Broken' /\ answer' = answer]_vars
  BY <1>1, <1>2 DEF Next
<1> QED BY <1>3, RacesHold, PTL DEF Spec, NoWayBack

-----------------------------------------------------------------------------
(* Every step of a request uses up some of what it can still do, whatever   *)
(* the other requests do to the list.                                      *)

\* The most steps left at label l, when the cursor is at i and n is as read.
LoopEnd == 2 * Capacity + 8
StepsLeft(l, i, n) ==
    CASE l \in {"answered", "dead"} -> 0
      [] l = "clear" -> 1
      [] l = "shrink" -> 2
      [] l = "shift" -> 2 + (n - i)
      [] l = "newSize" -> 3 + Capacity
      [] l = "removeWriteMod" -> 4 + Capacity
      [] l = "removeReadMod" -> 5 + Capacity
      [] l = "scan" -> 5 + Capacity + (n - i)
      [] l = "removeReadSize" -> 6 + 2 * Capacity
      [] l = "setYear" -> 1
      [] l = "setAuthor" -> 2
      [] l = "setName" -> 3
      [] l = "hasNext" -> LoopEnd + 8 * (Capacity - i) + 3
      [] l = "checkMod" -> LoopEnd + 8 * (Capacity - i) + 2
      [] l = "checkSize" -> LoopEnd + 8 * (Capacity - i) + 1
      [] l = "fetch" -> LoopEnd + 8 * (Capacity - i)
      [] l = "readName" -> LoopEnd + 8 * (Capacity - i) + 6
      [] l = "readAuthor" -> LoopEnd + 8 * (Capacity - i) + 5
      [] l = "readYear" -> LoopEnd + 8 * (Capacity - i) + 4
      [] l = "iterator" -> 10 * Capacity + 12
      [] l = "addSize" -> 1
      [] l = "addStore" -> 2
      [] l = "addReadSize" -> 3
      [] l = "addWriteMod" -> 4
      [] l = "addReadMod" -> 5
      [] l = "readLast" -> 10 * Capacity + 13
      [] l = "checkIndex" -> 10 * Capacity + 14
      [] l = "lastIndex" -> 10 * Capacity + 15
      [] l = "size" -> 10 * Capacity + 16
      [] l = "idle" -> 10 * Capacity + 17
Left(t) == StepsLeft(pc[t], loc[t].i, loc[t].n)

LeftNat == \A t \in Threads : Left(t) \in Nat
UsesUp == \E t \in Threads : /\ Left(t)' < Left(t)
                             /\ \A u \in Threads \ {t} : Left(u)' = Left(u)
StepsRunOut == []LeftNat /\ [][UsesUp]_vars

\* What is left at each label, given what is true there.
LEMMA LeftFacts ==
    ASSUME Races, NEW t \in Threads
    PROVE  Left(t) \in Nat /\ (Running(t) => Left(t) > 0)
<1>1. /\ pc[t] \in Labels /\ loc[t].i \in 0 .. Capacity /\ loc[t].n \in -Capacity .. Capacity
      /\ pc[t] \in {"scan", "shift"} => loc[t].i < loc[t].n
  BY Found DEF At, Typed
<1>2. Capacity \in Nat
  BY CapacityFacts
<1>3. CASE pc[t] \in LoopLabels \union ListLabels
  BY <1>1, <1>2, <1>3 DEF Left, StepsLeft, LoopEnd, LoopLabels, ListLabels
<1>4. CASE pc[t] \in RemoveLabels
  BY <1>1, <1>2, <1>4 DEF Left, StepsLeft, RemoveLabels
<1>5. CASE pc[t] \in Labels \ (LoopLabels \union ListLabels \union RemoveLabels)
  BY <1>1, <1>2, <1>5 DEF Left, StepsLeft, Labels, PostLabels, LoopLabels, ListLabels, RemoveLabels, Running
<1> QED BY <1>1, <1>3, <1>4, <1>5

\* A step of a thread takes it to label l, with cursor i and n as read: what is
\* left is less.
LEMMA LeftStep == ASSUME Races, NEW t \in Threads, Step(t) PROVE Left(t)' < Left(t)
<1>1. /\ pc \in [Threads -> Labels] /\ loc \in [Threads -> Locals] /\ loc[t] \in Locals
      /\ loc[t].i \in 0 .. Capacity /\ loc[t].n \in -Capacity .. Capacity
      /\ pc[t] \in {"scan", "shift"} => loc[t].i < loc[t].n
      /\ pc[t] = "fetch" => loc[t].i < Capacity
      /\ size \in Int /\ size <= Capacity
  BY Found, CapacityFacts DEF At, Typed
<1>2. Capacity \in Nat
  BY CapacityFacts
<1>3. Running(t) /\ Left(t) > 0 /\ Left(t) \in Nat
  <2>1. Running(t)
    BY DEF Step, ReadSize, LastIndex, CheckIndex, ReadLast, Add, AddReadMod, AddWriteMod,
           AddReadSize, AddStore, AddSize, Loop, Iterator, HasNext, CheckMod, CheckSize, Fetch,
           Read, ReadName, ReadAuthor, ReadYear, Set, SetName, SetAuthor, SetYear, Removal,
           RemoveReadSize, Scan, RemoveReadMod, RemoveWriteMod, NewSize, Shift, Shrink, Clear,
           Running
  <2> QED BY <2>1, LeftFacts
<1>4. (\E a \in AnswerSet : Reply(t, a)) \/ Done(t) \/ Die(t) => Left(t)' < Left(t)
  <2> SUFFICES ASSUME (\E a \in AnswerSet : Reply(t, a)) \/ Done(t) \/ Die(t)
               PROVE  Left(t)' < Left(t)
    OBVIOUS
  <2>1. pc'[t] \in {"answered", "dead"}
    BY <1>1 DEF Reply, Done, Die, Go
  <2>2. Left(t)' = 0
    BY <2>1 DEF Left, StepsLeft
  <2> QED BY <1>3, <2>2
<1>5. CASE ReadSize(t) \/ LastIndex(t) \/ CheckIndex(t) \/ ReadLast(t)
  <2>1. CASE ReadSize(t)
    <3>1. pc[t] = "size" /\ pc'[t] \in {"addReadMod", "iterator", "lastIndex"}
      BY <1>1, <2>1 DEF ReadSize, HasNewId, Go
    <3> QED BY <1>2, <3>1 DEF Left, StepsLeft
  <2>2. CASE LastIndex(t)
    <3>1. pc[t] = "lastIndex" /\ pc'[t] = "checkIndex"
      BY <1>1, <2>2 DEF LastIndex, Go
    <3> QED BY <1>2, <3>1 DEF Left, StepsLeft
  <2>3. CASE CheckIndex(t) /\ ~ Die(t)
    <3>1. pc[t] = "checkIndex" /\ pc'[t] = "readLast"
      BY <1>1, <2>3 DEF CheckIndex, Go
    <3> QED BY <1>2, <3>1 DEF Left, StepsLeft
  <2>4. CASE ReadLast(t) /\ ~ Die(t)
    <3>1. pc[t] = "readLast" /\ pc'[t] \in {"addReadMod", "iterator"}
      BY <1>1, <2>4 DEF ReadLast, HasNewId, Go
    <3> QED BY <1>2, <3>1 DEF Left, StepsLeft
  <2> QED BY <1>4, <1>5, <2>1, <2>2, <2>3, <2>4
<1>6. CASE Add(t)
  <2>1. \/ Done(t) \/ Die(t)
        \/ pc[t] = "addReadMod" /\ pc'[t] = "addWriteMod"
        \/ pc[t] = "addWriteMod" /\ pc'[t] = "addReadSize"
        \/ pc[t] = "addReadSize" /\ pc'[t] = "addStore"
        \/ pc[t] = "addStore" /\ pc'[t] = "addSize"
    BY <1>1, <1>6 DEF Add, AddReadMod, AddWriteMod, AddReadSize, AddStore, AddSize, Go
  <2>2. \/ pc[t] = "addReadMod" /\ pc'[t] = "addWriteMod"
        \/ pc[t] = "addWriteMod" /\ pc'[t] = "addReadSize"
        \/ pc[t] = "addReadSize" /\ pc'[t] = "addStore"
        \/ pc[t] = "addStore" /\ pc'[t] = "addSize"
        => Left(t)' < Left(t)
    BY DEF Left, StepsLeft
  <2> QED BY <1>4, <2>1, <2>2
<1>7. CASE Iterator(t)
  <2>1. pc[t] = "iterator" /\ pc'[t] = "hasNext"
    BY <1>1, <1>7 DEF Iterator, Go
  <2>2. loc'[t].i = 0
    BY <1>1, <1>7 DEF Iterator, Locals
  <2> QED BY <1>2, <2>1, <2>2 DEF Left, StepsLeft, LoopEnd
<1>8. CASE HasNext(t) \/ CheckMod(t) \/ CheckSize(t)
  <2>1. \/ \E a \in AnswerSet : Reply(t, a)
        \/ Done(t) \/ Die(t)
        \/ /\ UNCHANGED loc
           /\ \/ pc[t] = "hasNext" /\ pc'[t] = "checkMod"
              \/ pc[t] = "checkMod" /\ pc'[t] = "checkSize"
              \/ pc[t] = "checkSize" /\ pc'[t] = "fetch"
    <3>1. [status |-> "list", books |-> loc[t].out] \in AnswerSet
      BY <1>1 DEF AnswerSet, Locals
    <3> QED BY <1>1, <1>8, <3>1 DEF HasNext, CheckMod, CheckSize, Go
  <2>2. /\ UNCHANGED loc
        /\ \/ pc[t] = "hasNext" /\ pc'[t] = "checkMod"
           \/ pc[t] = "checkMod" /\ pc'[t] = "checkSize"
           \/ pc[t] = "checkSize" /\ pc'[t] = "fetch"
        => Left(t)' < Left(t)
    BY <1>1, <1>2 DEF Left, StepsLeft, LoopEnd
  <2> QED BY <1>4, <2>1, <2>2
<1>9. CASE Fetch(t) /\ ~ Die(t)
  <2>1. /\ pc[t] = "fetch" /\ loc'[t].i = loc[t].i + 1
        /\ pc'[t] \in {"readName", "hasNext", "removeReadSize", "setName"}
    <3>1. PICK l \in {"readName", "hasNext", "removeReadSize", "setName"} :
              pc' = [pc EXCEPT ![t] = l]
      BY <1>9 DEF Fetch, Go
    <3>2. PICK rest : rest = [loc[t] EXCEPT !.i = @ + 1]
      OBVIOUS
    <3>3. pc[t] = "fetch" /\ loc[t].i + 1 \in 0 .. Capacity
      BY <1>1, <1>2, <1>9 DEF Fetch
    <3>4. rest \in Locals /\ rest.i = loc[t].i + 1
      <4>1. rest \in Locals
        BY <3>2, <3>3, Found, LocalsType
      <4> QED BY <1>1, <3>2, <4>1 DEF Locals
    <3>5. \/ loc' = [loc EXCEPT ![t] = [rest EXCEPT !.cur = es[loc[t].i]]]
          \/ loc' = [loc EXCEPT ![t] = rest]
          \/ \E o : loc' = [loc EXCEPT ![t] = [rest EXCEPT !.out = o]]
      BY <1>9, <3>2 DEF Fetch
    <3>6. loc'[t].i = rest.i
      BY <1>1, <3>4, <3>5 DEF Locals
    <3> QED BY <1>1, <3>1, <3>3, <3>4, <3>6
  <2> QED BY <1>1, <1>2, <2>1 DEF Left, StepsLeft, LoopEnd
<1>10. CASE Read(t)
  <2>1. \/ pc[t] = "readName" /\ pc'[t] = "readAuthor"
        \/ pc[t] = "readAuthor" /\ pc'[t] = "readYear"
        \/ pc[t] = "readYear" /\ pc'[t] = "hasNext"
    BY <1>1, <1>10 DEF Read, ReadName, ReadAuthor, ReadYear, Go
  <2>2. loc'[t].i = loc[t].i
    BY <1>1, <1>10 DEF Read, ReadName, ReadAuthor, ReadYear, Locals
  <2> QED BY <1>1, <1>2, <2>1, <2>2 DEF Left, StepsLeft, LoopEnd
<1>11. CASE Set(t)
  <2>1. \/ Done(t)
        \/ pc[t] = "setName" /\ pc'[t] = "setAuthor"
        \/ pc[t] = "setAuthor" /\ pc'[t] = "setYear"
    BY <1>1, <1>11 DEF Set, SetName, SetAuthor, SetYear, Go
  <2>2. pc[t] \in {"setName", "setAuthor"} /\ pc'[t] \in {"setAuthor", "setYear"} /\ pc[t] # pc'[t]
            /\ pc'[t] # "setName" => Left(t)' < Left(t)
    BY DEF Left, StepsLeft
  <2> QED BY <1>4, <2>1, <2>2
<1>12. CASE RemoveReadSize(t) /\ ~ Done(t)
  <2>1. pc[t] = "removeReadSize" /\ pc'[t] = "scan" /\ loc'[t].i = 0 /\ loc'[t].n = size
    BY <1>1, <1>12 DEF RemoveReadSize, Go, Locals
  <2> QED BY <1>1, <1>2, <2>1 DEF Left, StepsLeft
<1>13. CASE Scan(t) /\ ~ Done(t)
  <2>1. pc[t] = "scan"
    BY <1>13 DEF Scan
  <2>2. \/ pc'[t] = "removeReadMod"
        \/ pc'[t] = "scan" /\ loc'[t].i = loc[t].i + 1 /\ loc'[t].n = loc[t].n
    BY <1>1, <1>13, <2>1 DEF Scan, Go, Locals
  <2> QED BY <1>1, <1>2, <2>1, <2>2 DEF Left, StepsLeft
<1>14. CASE RemoveReadMod(t) \/ RemoveWriteMod(t)
  <2>1. \/ pc[t] = "removeReadMod" /\ pc'[t] = "removeWriteMod"
        \/ pc[t] = "removeWriteMod" /\ pc'[t] = "newSize"
    BY <1>1, <1>14 DEF RemoveReadMod, RemoveWriteMod, Go
  <2> QED BY <1>2, <2>1 DEF Left, StepsLeft
<1>15. CASE NewSize(t)
  <2>1. /\ pc[t] = "newSize" /\ pc'[t] \in {"shift", "shrink"}
        /\ loc'[t].i = loc[t].i /\ loc'[t].n = size - 1
    BY <1>1, <1>15 DEF NewSize, Go, Locals
  <2> QED BY <1>1, <1>2, <2>1 DEF Left, StepsLeft
<1>16. CASE Shift(t)
  <2>1. /\ pc[t] = "shift" /\ pc'[t] \in {"shift", "shrink"}
        /\ loc'[t].i = loc[t].i + 1 /\ loc'[t].n = loc[t].n
    BY <1>1, <1>16 DEF Shift, Go, Locals
  <2> QED BY <1>1, <1>2, <2>1 DEF Left, StepsLeft
<1>17. CASE Shrink(t)
  <2>1. pc[t] = "shrink" /\ pc'[t] = "clear"
    BY <1>1, <1>17 DEF Shrink, Go
  <2> QED BY <2>1 DEF Left, StepsLeft
<1>18. Clear(t) => Done(t) \/ Die(t)
  BY DEF Clear
<1> QED BY <1>4, <1>5, <1>6, <1>7, <1>8, <1>9, <1>10, <1>11, <1>12, <1>13, <1>14, <1>15, <1>16,
           <1>17, <1>18 DEF Step, Loop, Removal

\* A step leaves the others where they are.
LEMMA OthersStay ==
    ASSUME Races, NEW t \in Threads, NEW u \in Threads \ {t},
           Step(t) \/ \E r \in Requests : Accept(t, r)
    PROVE  pc'[u] = pc[u] /\ loc'[u] = loc[u]
<1>1. pc \in [Threads -> Labels] /\ loc \in [Threads -> Locals]
  BY Found DEF Typed
<1>2. pc'[u] = pc[u]
  BY <1>1 DEF Step, ReadSize, LastIndex, CheckIndex, ReadLast, Add, AddReadMod, AddWriteMod,
              AddReadSize, AddStore, AddSize, Loop, Iterator, HasNext, CheckMod, CheckSize, Fetch,
              Read, ReadName, ReadAuthor, ReadYear, Set, SetName, SetAuthor, SetYear, Removal,
              RemoveReadSize, Scan, RemoveReadMod, RemoveWriteMod, NewSize, Shift, Shrink, Clear,
              Accept, HasNewId, Go, Done, Reply, Die
<1>3. loc'[u] = loc[u]
  BY <1>1 DEF Step, ReadSize, LastIndex, CheckIndex, ReadLast, Add, AddReadMod, AddWriteMod,
              AddReadSize, AddStore, AddSize, Loop, Iterator, HasNext, CheckMod, CheckSize, Fetch,
              Read, ReadName, ReadAuthor, ReadYear, Set, SetName, SetAuthor, SetYear, Removal,
              RemoveReadSize, Scan, RemoveReadMod, RemoveWriteMod, NewSize, Shift, Shrink, Clear,
              Accept, Done, Reply, Die
<1> QED BY <1>2, <1>3

\* Each step of a request leaves it fewer steps to take, and the others as many
\* as they had: no interleaving of POSTs keeps one in a loop over the list, and
\* all come to an end if the system goes on running them (ListThreads!Terminates).
THEOREM RequestsRunOut == Spec => StepsRunOut
<1>1. ASSUME Races, NEW t \in Threads, Step(t) \/ \E r \in Requests : Accept(t, r)
      PROVE  Left(t)' < Left(t) /\ \A u \in Threads \ {t} : Left(u)' = Left(u)
  <2>1. ASSUME NEW r \in Requests, Accept(t, r) PROVE Left(t)' < Left(t)
    <3>1. pc[t] = "idle" /\ pc'[t] \in {"size", "iterator"}
      BY <1>1, <2>1, Found DEF Accept, Go, Typed
    <3> QED BY <3>1, CapacityFacts DEF Left, StepsLeft
  <2>2. \A u \in Threads \ {t} : Left(u)' = Left(u)
    BY <1>1, OthersStay DEF Left
  <2> QED BY <1>1, <2>1, <2>2, LeftStep
<1>2. Races /\ [Next]_vars => [UsesUp]_vars
  BY <1>1 DEF Next, UsesUp
<1>3. Races => LeftNat
  BY LeftFacts DEF LeftNat
<1> QED BY <1>2, <1>3, RacesHold, PTL DEF Spec, StepsRunOut
=============================================================================
