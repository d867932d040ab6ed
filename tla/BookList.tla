------------------------------- MODULE BookList -------------------------------
(***************************************************************************)
(* The book list of Practise 8 as its requests are meant to run, one       *)
(* POST /books/post after the other: the static ArrayList                  *)
(* SimpleHttpServer.books and each outcome of HttpReadWriter.analyzePost   *)
(* as one step.  ListThreads opens these steps up and lets the threads of  *)
(* the pool interleave inside them.                                        *)
(*                                                                         *)
(* An id is the decimal string of a Java int; it is kept as the number.    *)
(* GET books/list reads the list and changes nothing.                      *)
(***************************************************************************)
EXTENDS Integers, Sequences, SequencesExt

CONSTANTS
    Data,      \* the (name, author, year) triples a request can carry
    Blank,     \* the triple with all three fields null
    SeedData,  \* the triple of the sample book added by main
    MaxId      \* bound: no id above it is given out (in the code 2^31 - 1,
               \* beyond which Integer.parseInt(newId) + 1 wraps around)

ASSUME DataAssumption == Blank \in Data /\ SeedData \in Data \ {Blank}
ASSUME MaxIdAssumption == MaxId \in Nat

VARIABLE books \* SimpleHttpServer.books

Book == [id : 0 .. MaxId, data : Data]

\* The places of the list, and the ids of the books in it.
Places == 1 .. Len(books)
IdsOf(s) == { s[k].id : k \in 1 .. Len(s) }
Ids == IdsOf(books)

TypeOK == books \in Seq(Book)

Init == books = << [id |-> 0, data |-> SeedData] >>

\* A mutant of NewId: the first id not in use.
NewId_FirstFree == CHOOSE i \in 0 .. Len(books) :
                       i \notin Ids /\ 0 .. (i - 1) \subseteq Ids

\* The id analyzePost computes before it looks at the request: one more than
\* the id of the last book of the list.
NewId == IF Len(books) = 0 THEN 0 ELSE books[Len(books)].id + 1

-----------------------------------------------------------------------------
\* A mutant of AddBook: the book is added without its id.
AddBook_NoId(d) ==
    /\ NewId \in 0 .. MaxId
    /\ books' = Append(books, [id |-> -1, data |-> d])

\* A request without an id: a new book at the end of the list.  Nothing checks
\* that the request has any data.
AddBook(d) ==
    /\ NewId \in 0 .. MaxId
    /\ books' = Append(books, [id |-> NewId, data |-> d])

\* The place the for loop stops at when the request's id is i.
FirstWithId(k, i) == /\ books[k].id = i
                     /\ \A j \in 1 .. (k - 1) : books[j].id # i

\* A request with the id of a book and no data removes that book.
RemoveBook(i) ==
    \E k \in Places : /\ FirstWithId(k, i)
                      /\ books' = RemoveAt(books, k)

\* A mutant of ChangeBook: the new Book takes the old one's place, under the id
\* that was computed for it.
ChangeBook_NewId(i, d) ==
    /\ d # Blank
    /\ \E k \in Places : /\ FirstWithId(k, i) /\ NewId <= MaxId
                         /\ books' = [books EXCEPT ![k] = [id |-> NewId, data |-> d]]

\* A request with the id of a book and some data replaces the book's data.
ChangeBook(i, d) ==
    /\ d # Blank
    /\ \E k \in Places : /\ FirstWithId(k, i)
                         /\ books' = [books EXCEPT ![k].data = d]

\* A request with an id no book has is answered like the others and does
\* nothing.
UnknownId(i) == i \notin Ids /\ UNCHANGED books

Next == \/ \E d \in Data : AddBook(d)
        \/ \E i \in 0 .. MaxId : \/ RemoveBook(i)
                                 \/ \E d \in Data : ChangeBook(i, d)
                                 \/ UnknownId(i)

Spec == Init /\ [][Next]_books

-----------------------------------------------------------------------------
\* The ids grow along the list, whatever was removed in between: the last book
\* carries the largest id, which is why one more than the last id is an id no
\* live book has (HttpReadWriter.analyzePost takes it without looking at the
\* rest of the list).
IdsIncreasing == \A j, k \in Places : j < k => books[j].id < books[k].id

\* No two books of the list have the same id, so the for loop of analyzePost,
\* which stops at the first match, can reach every book.
UniqueIds == \A j, k \in Places : books[j].id = books[k].id => j = k

\* A list of books as a catalogue by id.
CatalogueOf(s) ==
    [i \in IdsOf(s) |-> s[CHOOSE k \in 1 .. Len(s) : s[k].id = i].data]

Catalog == INSTANCE BookCatalog
               WITH Id <- 0 .. MaxId, catalog <- CatalogueOf(books)

\* The list is a catalogue: each request adds one book under a free id,
\* changes or removes the one book it names, or does nothing, and never
\* disturbs another book.
IsCatalog == Catalog!Spec
=============================================================================
