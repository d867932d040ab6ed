----------------------------- MODULE ListThreads -----------------------------
(***************************************************************************)
(* The book list of Practise 8 as it runs: SimpleHttpServer hands every    *)
(* connection to a thread of a cached pool, and the threads read and write *)
(* the same java.util.ArrayList with no lock.  One action is one access to *)
(* the list's fields (size, modCount, one element) or to a field of a Book *)
(* in it; what a thread does with its own locals goes with the access      *)
(* before it.  The list's own code is the JDK 11 ArrayList, which lies     *)
(* outside the repository.                                                 *)
(*                                                                         *)
(* Accesses are interleaved and each sees the latest write.  The Java      *)
(* memory model allows a data race to see more, so what fails here can     *)
(* fail in the program; what holds here holds of interleaving alone.       *)
(***************************************************************************)
EXTENDS Integers, Sequences, FiniteSets, SequencesExt

CONSTANTS
    Threads,   \* one per connection: it serves one request
    Seed,      \* the sample book added by main
    Null,
    Ops,       \* bound: the kinds of request made
    InFlight,  \* bound: requests being served at a time
    Posters    \* bound: POST requests among them

ASSUME ThreadsAssumption == IsFiniteSet(Threads) /\ Seed \notin Threads
ASSUME NullAssumption == Null \notin Threads \union {Seed}
ASSUME BoundsAssumption ==
    /\ Ops \subseteq {"add", "change", "remove", "list"}
    /\ InFlight \in Nat \ {0}
    /\ Posters \in 0 .. InFlight

\* bound: no more requests than leave the first array in its place.  An eleventh
\* book would have add copy it into a larger one (grow), beside threads that read
\* and write the old: that is not modelled.
ASSUME ArrayAssumption == Cardinality(Threads) < 10

\* Gson makes one Book of each POST, named here by the thread that serves it;
\* a field is named by the request its value came with.
Objects == Threads \union {Seed}
Capacity == Cardinality(Objects) \* places used of the array
FirstArray == 0 .. 9 \* the places of the array that ArrayList starts with
MaxId == Cardinality(Threads)
NoId == -1

VARIABLES
    pc,        \* where each thread is
    req,       \* the request it serves
    loc,       \* its locals
    answer,    \* what it wrote to its client
    heap,      \* the Book objects
    es,        \* ArrayList.elementData
    size,      \* ArrayList.size
    modCount,  \* AbstractList.modCount
    before     \* history: the books listed and the books gone at its start

list == <<es, size, modCount>>
vars == <<pc, req, loc, answer, heap, es, size, modCount, before>>

Requests == [op : Ops \intersect {"add", "list"}, id : {NoId}]
                \union [op : Ops \intersect {"change", "remove"}, id : 0 .. MaxId]
NoRequest == [op |-> "none", id |-> NoId]
NoLocals == [i |-> 0, n |-> 0, mod |-> 0, cur |-> Null, out |-> << >>]
NoAnswer == [status |-> "none", books |-> << >>]

PostLabels == { "size", "lastIndex", "checkIndex", "readLast",
                "addReadMod", "addWriteMod", "addReadSize", "addStore", "addSize",
                "setName", "setAuthor", "setYear",
                "removeReadSize", "scan", "removeReadMod", "removeWriteMod",
                "newSize", "shift", "shrink", "clear" }
LoopLabels == {"iterator", "hasNext", "checkMod", "checkSize", "fetch"}
ListLabels == {"readName", "readAuthor", "readYear"}
Labels == PostLabels \union LoopLabels \union ListLabels
              \union {"idle", "answered", "dead"}

Running(t) == pc[t] \notin {"idle", "answered", "dead"}
Post(r) == r.op \in {"add", "change", "remove"}

\* The books between the first place and the last.
Listed == { es[k] : k \in 0 .. (size - 1) } \ {Null}

\* The books a client was told of: the sample, and each one whose POST was
\* answered "done".
Acknowledged == {Seed} \union { t \in Threads : req[t].op = "add"
                                                /\ answer[t].status = "done" }

Fields == Objects \union {Null}
ReadBooks == [book : Fields, name : Fields, author : Fields, year : Fields]

TypeOK ==
    /\ pc \in [Threads -> Labels]
    /\ req \in [Threads -> Requests \union {NoRequest}]
    /\ loc \in [Threads -> [i : 0 .. Capacity, n : -Capacity .. Capacity, mod : Nat,
                            cur : Fields, out : Seq(ReadBooks)]]
    /\ answer \in [Threads -> [status : {"none", "done", "list"},
                               books : Seq(ReadBooks)]]
    /\ heap \in [Objects -> [id : NoId .. MaxId, name : Fields,
                             author : Fields, year : Fields]]
    /\ es \in [0 .. (Capacity - 1) -> Fields]
    /\ size \in -Capacity .. Capacity
    /\ modCount \in Nat
    /\ before \in [Threads -> [listed : SUBSET Objects, gone : SUBSET Objects]]

\* A book as a POST brings it: without an id until it is given one.
NewBook(o, i) == [id |-> i, name |-> o, author |-> o, year |-> o]

Init ==
    /\ pc = [t \in Threads |-> "idle"]
    /\ req = [t \in Threads |-> NoRequest]
    /\ loc = [t \in Threads |-> NoLocals]
    /\ answer = [t \in Threads |-> NoAnswer]
    /\ heap = [o \in Objects |-> NewBook(o, IF o = Seed THEN 0 ELSE NoId)]
    /\ es = [k \in 0 .. (Capacity - 1) |-> IF k = 0 THEN Seed ELSE Null]
    /\ size = 1
    /\ modCount = 1
    /\ before = [t \in Threads |-> [listed |-> {}, gone |-> {}]]

-----------------------------------------------------------------------------
Go(t, to) == pc' = [pc EXCEPT ![t] = to]

\* The answer is sent and the connection closed; the thread is back in the pool.
Reply(t, a) == /\ Go(t, "answered")
               /\ answer' = [answer EXCEPT ![t] = a]
               /\ loc' = [loc EXCEPT ![t] = NoLocals]

Done(t) == Reply(t, [status |-> "done", books |-> << >>])

\* An unchecked exception leaves run(): the client gets no answer and its
\* connection is not closed.
Die(t) == /\ Go(t, "dead")
          /\ loc' = [loc EXCEPT ![t] = NoLocals]
          /\ UNCHANGED answer

\* The server's accept loop gives a connection to a pool thread.
Accept(t, r) ==
    /\ pc[t] = "idle"
    /\ Cardinality({u \in Threads : Running(u)}) < InFlight
    /\ Post(r) =>
          Cardinality({u \in Threads : Running(u) /\ Post(req[u])}) < Posters
    /\ Go(t, IF Post(r) THEN "size" ELSE "iterator")
    /\ req' = [req EXCEPT ![t] = r]
    /\ before' = [before EXCEPT ![t] =
                     [listed |-> Listed, gone |-> Acknowledged \ Listed]]
    /\ UNCHANGED <<loc, answer, heap, list>>

-----------------------------------------------------------------------------
(* analyzePost: the id a new book would get, computed for every POST.      *)

\* A mutant of HasNewId: one is added twice.
HasNewId_PlusTwo(t, newId) ==
    /\ Go(t, IF req[t].op = "add" THEN "addReadMod" ELSE "iterator")
    /\ IF req[t].op = "add"
       THEN heap' = [heap EXCEPT ![t].id = newId + 1]
       ELSE UNCHANGED heap

\* Where a POST goes when newId is known, and the Book that takes it.
HasNewId(t, newId) ==
    /\ Go(t, IF req[t].op = "add" THEN "addReadMod" ELSE "iterator")
    /\ IF req[t].op = "add"
       THEN heap' = [heap EXCEPT ![t].id = newId]
       ELSE UNCHANGED heap

\* A mutant of ReadSize: no test for the empty list.
ReadSize_NoTest(t) ==
    /\ pc[t] = "size"
    /\ Go(t, "lastIndex")
    /\ UNCHANGED <<req, loc, answer, heap, list, before>>

\* books.size() == 0
ReadSize(t) ==
    /\ pc[t] = "size"
    /\ IF size = 0 THEN HasNewId(t, 0)
                   ELSE Go(t, "lastIndex") /\ UNCHANGED heap
    /\ UNCHANGED <<req, loc, answer, list, before>>

\* books.size() - 1, read again
LastIndex(t) ==
    /\ pc[t] = "lastIndex"
    /\ Go(t, "checkIndex")
    /\ loc' = [loc EXCEPT ![t].n = size - 1]
    /\ UNCHANGED <<req, answer, heap, list, before>>

\* books.get checks the index against the size ...
CheckIndex(t) ==
    /\ pc[t] = "checkIndex"
    /\ IF loc[t].n \in 0 .. (size - 1)
       THEN Go(t, "readLast") /\ UNCHANGED <<loc, answer>>
       ELSE Die(t)
    /\ UNCHANGED <<req, heap, list, before>>

\* A mutant of ReadLast: the new id is the last book's own.
ReadLast_SameId(t) ==
    /\ pc[t] = "readLast"
    /\ HasNewId(t, heap[es[loc[t].n]].id)
    /\ UNCHANGED <<req, loc, answer, list, before>>

\* ... and reads the element, which has no id if it is null.
ReadLast(t) ==
    /\ pc[t] = "readLast"
    /\ LET last == es[loc[t].n]
       IN  IF last = Null
           THEN Die(t) /\ UNCHANGED heap
           ELSE HasNewId(t, heap[last].id + 1) /\ UNCHANGED <<loc, answer>>
    /\ UNCHANGED <<req, list, before>>

-----------------------------------------------------------------------------
(* books.add(newBook): modCount++; elementData[s] = e; size = s + 1.       *)

AddReadMod(t) ==
    /\ pc[t] = "addReadMod"
    /\ Go(t, "addWriteMod")
    /\ loc' = [loc EXCEPT ![t].mod = modCount]
    /\ UNCHANGED <<req, answer, heap, list, before>>

AddWriteMod(t) ==
    /\ pc[t] = "addWriteMod"
    /\ Go(t, "addReadSize")
    /\ modCount' = loc[t].mod + 1
    /\ UNCHANGED <<req, loc, answer, heap, es, size, before>>

AddReadSize(t) ==
    /\ pc[t] = "addReadSize"
    /\ Go(t, "addStore")
    /\ loc' = [loc EXCEPT ![t].n = size]
    /\ UNCHANGED <<req, answer, heap, list, before>>

AddStore(t) ==
    /\ pc[t] = "addStore"
    /\ IF loc[t].n < 0
       THEN Die(t) /\ UNCHANGED es
       ELSE /\ Go(t, "addSize")
            /\ es' = [es EXCEPT ![loc[t].n] = t]
            /\ UNCHANGED <<loc, answer>>
    /\ UNCHANGED <<req, heap, size, modCount, before>>

AddSize(t) ==
    /\ pc[t] = "addSize"
    /\ size' = loc[t].n + 1
    /\ Done(t)
    /\ UNCHANGED <<req, heap, es, modCount, before>>

-----------------------------------------------------------------------------
(* for (Book current : books), in analyzePost and in Gson's toJson.        *)

Iterator(t) ==
    /\ pc[t] = "iterator"
    /\ Go(t, "hasNext")
    /\ loc' = [loc EXCEPT ![t].i = 0, ![t].mod = modCount]
    /\ UNCHANGED <<req, answer, heap, list, before>>

\* cursor != size; the loop's end sends the answer.
HasNext(t) ==
    /\ pc[t] = "hasNext"
    /\ IF loc[t].i # size
       THEN Go(t, "checkMod") /\ UNCHANGED <<loc, answer>>
       ELSE IF req[t].op = "list"
            THEN Reply(t, [status |-> "list", books |-> loc[t].out])
            ELSE Done(t)
    /\ UNCHANGED <<req, heap, list, before>>

\* next() throws ConcurrentModificationException ...
CheckMod(t) ==
    /\ pc[t] = "checkMod"
    /\ IF modCount = loc[t].mod
       THEN Go(t, "checkSize") /\ UNCHANGED <<loc, answer>>
       ELSE Die(t)
    /\ UNCHANGED <<req, heap, list, before>>

\* ... or NoSuchElementException ...
CheckSize(t) ==
    /\ pc[t] = "checkSize"
    /\ IF loc[t].i < size
       THEN Go(t, "fetch") /\ UNCHANGED <<loc, answer>>
       ELSE Die(t)
    /\ UNCHANGED <<req, heap, list, before>>

\* A mutant of Fetch: the cursor stays where it is.
Fetch_Stuck(t) ==
    /\ pc[t] = "fetch"
    /\ LET b == es[loc[t].i]
       IN  IF b # Null /\ heap[b].id = req[t].id
           THEN Go(t, "removeReadSize") /\ loc' = [loc EXCEPT ![t].cur = b]
           ELSE Go(t, "hasNext") /\ UNCHANGED loc
    /\ UNCHANGED <<req, answer, heap, list, before>>

\* ... or returns the element.  A POST compares its id, which null has not;
\* Gson writes null as it is.
Fetch(t) ==
    /\ pc[t] = "fetch"
    /\ LET b == es[loc[t].i]
           rest == [loc[t] EXCEPT !.i = @ + 1]
       IN  \/ /\ req[t].op = "list" /\ b # Null
              /\ Go(t, "readName")
              /\ loc' = [loc EXCEPT ![t] = [rest EXCEPT !.cur = b]]
              /\ UNCHANGED answer
           \/ /\ req[t].op = "list" /\ b = Null
              /\ Go(t, "hasNext")
              /\ loc' = [loc EXCEPT ![t] = [rest EXCEPT !.out = Append(@,
                    [book |-> Null, name |-> Null, author |-> Null, year |-> Null])]]
              /\ UNCHANGED answer
           \/ /\ req[t].op # "list" /\ b = Null
              /\ Die(t)
           \/ /\ req[t].op # "list" /\ b # Null
              /\ heap[b].id # req[t].id
              /\ Go(t, "hasNext")
              /\ loc' = [loc EXCEPT ![t] = rest]
              /\ UNCHANGED answer
           \/ /\ req[t].op # "list" /\ b # Null
              /\ heap[b].id = req[t].id
              /\ Go(t, IF req[t].op = "remove" THEN "removeReadSize" ELSE "setName")
              /\ loc' = [loc EXCEPT ![t] = [rest EXCEPT !.cur = b]]
              /\ UNCHANGED answer
    /\ UNCHANGED <<req, heap, list, before>>

-----------------------------------------------------------------------------
(* Gson reads the fields of a book one after the other.                    *)

ReadName(t) ==
    /\ pc[t] = "readName"
    /\ Go(t, "readAuthor")
    /\ loc' = [loc EXCEPT ![t].out = Append(@,
                  [book |-> loc[t].cur, name |-> heap[loc[t].cur].name,
                   author |-> Null, year |-> Null])]
    /\ UNCHANGED <<req, answer, heap, list, before>>

ReadAuthor(t) ==
    /\ pc[t] = "readAuthor"
    /\ Go(t, "readYear")
    /\ loc' = [loc EXCEPT ![t].out[Len(loc[t].out)].author = heap[loc[t].cur].author]
    /\ UNCHANGED <<req, answer, heap, list, before>>

ReadYear(t) ==
    /\ pc[t] = "readYear"
    /\ Go(t, "hasNext")
    /\ loc' = [loc EXCEPT ![t].out[Len(loc[t].out)].year = heap[loc[t].cur].year,
                          ![t].cur = Null]
    /\ UNCHANGED <<req, answer, heap, list, before>>

-----------------------------------------------------------------------------
(* Changing a book: three assignments.                                     *)

SetName(t) ==
    /\ pc[t] = "setName"
    /\ Go(t, "setAuthor")
    /\ heap' = [heap EXCEPT ![loc[t].cur].name = t]
    /\ UNCHANGED <<req, loc, answer, list, before>>

\* A mutant of SetAuthor: the assignment is forgotten.
SetAuthor_Forgotten(t) ==
    /\ pc[t] = "setAuthor"
    /\ Go(t, "setYear")
    /\ UNCHANGED <<req, loc, answer, heap, list, before>>

SetAuthor(t) ==
    /\ pc[t] = "setAuthor"
    /\ Go(t, "setYear")
    /\ heap' = [heap EXCEPT ![loc[t].cur].author = t]
    /\ UNCHANGED <<req, loc, answer, list, before>>

SetYear(t) ==
    /\ pc[t] = "setYear"
    /\ heap' = [heap EXCEPT ![loc[t].cur].year = t]
    /\ Done(t)
    /\ UNCHANGED <<req, list, before>>

-----------------------------------------------------------------------------
(* books.remove(current): find the object's place, close the gap.          *)

\* A mutant of RemoveReadSize: books.remove(i), where i counts from one.
RemoveReadSize_ByPlace(t) ==
    /\ pc[t] = "removeReadSize"
    /\ IF loc[t].i < size
       THEN Go(t, "removeReadMod") /\ UNCHANGED <<loc, answer>>
       ELSE Done(t)
    /\ UNCHANGED <<req, heap, list, before>>

RemoveReadSize(t) ==
    /\ pc[t] = "removeReadSize"
    /\ IF size > 0
       THEN /\ Go(t, "scan")
            /\ loc' = [loc EXCEPT ![t].i = 0, ![t].n = size]
            /\ UNCHANGED answer
       ELSE Done(t)
    /\ UNCHANGED <<req, heap, list, before>>

\* One place of the search; past the last one the book is not there any more,
\* which remove reports and analyzePost ignores.
Scan(t) ==
    /\ pc[t] = "scan"
    /\ \/ /\ es[loc[t].i] = loc[t].cur
          /\ Go(t, "removeReadMod")
          /\ UNCHANGED <<loc, answer>>
       \/ /\ es[loc[t].i] # loc[t].cur /\ loc[t].i + 1 < loc[t].n
          /\ loc' = [loc EXCEPT ![t].i = @ + 1]
          /\ UNCHANGED <<pc, answer>>
       \/ /\ es[loc[t].i] # loc[t].cur /\ loc[t].i + 1 >= loc[t].n
          /\ Done(t)
    /\ UNCHANGED <<req, heap, list, before>>

RemoveReadMod(t) ==
    /\ pc[t] = "removeReadMod"
    /\ Go(t, "removeWriteMod")
    /\ loc' = [loc EXCEPT ![t].mod = modCount]
    /\ UNCHANGED <<req, answer, heap, list, before>>

RemoveWriteMod(t) ==
    /\ pc[t] = "removeWriteMod"
    /\ Go(t, "newSize")
    /\ modCount' = loc[t].mod + 1
    /\ UNCHANGED <<req, loc, answer, heap, es, size, before>>

\* newSize = size - 1; the later elements move only if there are any.
NewSize(t) ==
    /\ pc[t] = "newSize"
    /\ loc' = [loc EXCEPT ![t].n = size - 1]
    /\ Go(t, IF size - 1 > loc[t].i THEN "shift" ELSE "shrink")
    /\ UNCHANGED <<req, answer, heap, list, before>>

\* System.arraycopy, one element at a time.
Shift(t) ==
    /\ pc[t] = "shift"
    /\ es' = [es EXCEPT ![loc[t].i] = es[loc[t].i + 1]]
    /\ loc' = [loc EXCEPT ![t].i = @ + 1]
    /\ Go(t, IF loc[t].i + 1 < loc[t].n THEN "shift" ELSE "shrink")
    /\ UNCHANGED <<req, answer, heap, size, modCount, before>>

\* size = newSize, evaluated before the store it indexes ...
Shrink(t) ==
    /\ pc[t] = "shrink"
    /\ Go(t, "clear")
    /\ size' = loc[t].n
    /\ UNCHANGED <<req, loc, answer, heap, es, modCount, before>>

\* ... of null, which has no place when newSize is negative.
Clear(t) ==
    /\ pc[t] = "clear"
    /\ IF loc[t].n < 0
       THEN Die(t) /\ UNCHANGED es
       ELSE Done(t) /\ es' = [es EXCEPT ![loc[t].n] = Null]
    /\ UNCHANGED <<req, heap, size, modCount, before>>

-----------------------------------------------------------------------------
Add(t) == \/ AddReadMod(t) \/ AddWriteMod(t)
          \/ AddReadSize(t) \/ AddStore(t) \/ AddSize(t)
Loop(t) == Iterator(t) \/ HasNext(t) \/ CheckMod(t) \/ CheckSize(t) \/ Fetch(t)
Read(t) == ReadName(t) \/ ReadAuthor(t) \/ ReadYear(t)
Set(t) == SetName(t) \/ SetAuthor(t) \/ SetYear(t)
Removal(t) == \/ RemoveReadSize(t) \/ Scan(t)
             \/ RemoveReadMod(t) \/ RemoveWriteMod(t)
             \/ NewSize(t) \/ Shift(t) \/ Shrink(t) \/ Clear(t)

Step(t) == \/ ReadSize(t) \/ LastIndex(t) \/ CheckIndex(t) \/ ReadLast(t)
           \/ Add(t) \/ Loop(t) \/ Read(t) \/ Set(t) \/ Removal(t)

Next == \E t \in Threads : Step(t) \/ \E r \in Requests : Accept(t, r)

Spec == Init /\ [][Next]_vars

\* The operating system runs every thread of the pool.
FairSpec == Spec /\ \A t \in Threads : WF_vars(Step(t))

-----------------------------------------------------------------------------
(* What the service owes its clients.                                      *)

\* A request to remove this book has been accepted.
Condemned(o) == \E t \in Threads : req[t].op = "remove" /\ req[t].id = heap[o].id

\* analyzePost answers "done" to a new book and takes a book off the list only
\* for a request with its id, so an acknowledged book stays listed until
\* someone asks for its removal.
BooksKept == \A o \in Acknowledged : o \in Listed \/ Condemned(o)

\* No POST is left without an answer: analyzePost sends "done" on every path,
\* so only an exception thrown by the list it walks can keep it from there.
PostsAnswered == \A t \in Threads : Post(req[t]) => pc[t] # "dead"

\* The answer to books/list has no book whose removal was over when the request
\* was accepted, and is in the order of the ids, but for a last book that came
\* after the request: all others were read before modCount changed.  A reader
\* that meets a removal on its way can name one book twice, and one that meets a
\* removal and an addition can be given a null in place of its last book.
ListedInOrder ==
    \A t \in Threads : answer[t].status = "list" =>
        LET r == answer[t].books
            named == { k \in 1 .. Len(r) : r[k].book # Null }
        IN  \A k \in named :
               /\ r[k].book \notin before[t].gone
               /\ \A j \in named :
                     j < k => \/ r[j].book = r[k].book
                              \/ heap[r[j].book].id < heap[r[k].book].id
                              \/ k = Len(r) /\ r[k].book \notin before[t].listed

\* The answer to books/list has every book that was listed when the request
\* was accepted and is listed still.
ListComplete ==
    \A t \in Threads : answer[t].status = "list" =>
        before[t].listed \intersect Listed
            \subseteq { r.book : r \in ToSet(answer[t].books) }

\* No request is served for ever: the loops over the list end whatever other
\* threads do to its size.  (Each thread serves one request.)
Terminates == <>[](\A t \in Threads : ~ Running(t))

-----------------------------------------------------------------------------
(* The list as a catalogue.  A book is in from the write of size on, out   *)
(* from the point where remove has its place and the new size, and changed *)
(* from the first of the three assignments on.                             *)

Leaving == { loc[t].cur : t \in {u \in Threads : pc[u] \in {"shift", "shrink"}} }
Changing(t, o) == pc[t] \in {"setAuthor", "setYear"} /\ loc[t].cur = o

DataOf(o) ==
    IF \E t \in Threads : Changing(t, o)
    THEN LET t == CHOOSE u \in Threads : Changing(u, o) IN <<t, t, t>>
    ELSE <<heap[o].name, heap[o].author, heap[o].year>>

Catalogue == [i \in { heap[o].id : o \in Listed \ Leaving } |->
                 DataOf(CHOOSE o \in Listed \ Leaving : heap[o].id = i)]

Catalog == INSTANCE BookCatalog WITH Id <- 0 .. MaxId,
                                     Data <- { <<o, o, o>> : o \in Objects },
                                     catalog <- Catalogue

\* With its POSTs one at a time the array is a catalogue, whoever reads it.
IsCatalog == Catalog!Spec
=============================================================================
