------------------------------ MODULE BooksPage ------------------------------
(***************************************************************************)
(* The books page of Practise 8 in several browsers over one book list.    *)
(* books.js shows the table it was last sent, however old, and names books *)
(* by the ids in it; its requests travel on connections of their own and   *)
(* are served in any order, or not at all (a body that comes late, a       *)
(* thread that dies).  The server is BookList: one request, one step.      *)
(***************************************************************************)
EXTENDS Integers, Sequences, FiniteSets

CONSTANTS
    Browsers,
    Slots,     \* bound: requests a browser has on their way at a time
    MaxClicks, \* bound: clicks that send something, of all users together
    Null

ASSUME BoundsAssumption == MaxClicks \in Nat \ {0} /\ Null \notin Nat

VARIABLES
    books,      \* SimpleHttpServer.books
    xhr,        \* the XMLHttpRequests of each browser
    page,       \* the rows of its table: ids and the books they were of
    changingId, \* its changingId
    changing,   \* history: the book whose row set it
    clicks      \* how many clicks have sent something

vars == <<books, xhr, page, changingId, changing, clicks>>

\* A book is named by the click that added it, the sample of main by 0; its
\* data are named by the click that wrote them last.
Clicks == 0 .. MaxClicks
Data == [book : Clicks, click : Clicks]
Ids == Clicks
Rows == [id : Ids, book : Clicks]

Server == INSTANCE BookList WITH
              Blank <- Null, Data <- Data \union {Null},
              SeedData <- [book |-> 0, click |-> 0], MaxId <- MaxClicks

\* A POST has the click that sent it, the id it names, and (history) the book
\* the user saw under that id.
Posts == [op : {"add"}, click : Clicks, id : {Null}, seen : {Null}]
             \union [op : {"remove", "change"}, click : Clicks, id : Ids, seen : Clicks]
Free == [state |-> "free"]
SentPost(m) == [state |-> "posted", post |-> m]
SentGet == [state |-> "asked"]
Done == [state |-> "done"]
ListAnswer(rows) == [state |-> "list", rows |-> rows]

XhrOK(x) == \/ x \in {Free, SentGet, Done}
            \/ x.state = "posted" /\ x.post \in Posts
            \/ x.state = "list" /\ x.rows \subseteq Rows

TypeOK ==
    /\ Server!TypeOK
    /\ \A b \in Browsers : /\ \A k \in Slots : XhrOK(xhr[b][k])
                           /\ page[b] \subseteq Rows
                           /\ changingId[b] \in Ids \union {Null}
                           /\ changing[b] \in Clicks \union {Null}
                           /\ changingId[b] = Null <=> changing[b] = Null
    /\ clicks \in Clicks

\* Every page has just been loaded: its script begins with synchronize().
Init ==
    /\ Server!Init
    /\ \E first \in Slots :
          xhr = [b \in Browsers |-> [k \in Slots |-> IF k = first THEN SentGet ELSE Free]]
    /\ page = [b \in Browsers |-> {}]
    /\ changingId = [b \in Browsers |-> Null]
    /\ changing = [b \in Browsers |-> Null]
    /\ clicks = 0

-----------------------------------------------------------------------------
(* The users.                                                              *)

SetXhr(b, k, x) == xhr' = [xhr EXCEPT ![b][k] = x]

\* postRequest, at a click.
PostRequest(b, op, id, seen) ==
    /\ clicks < MaxClicks
    /\ clicks' = clicks + 1
    /\ \E k \in Slots :
          /\ xhr[b][k] = Free
          /\ SetXhr(b, k, SentPost([op |-> op, click |-> clicks + 1,
                                    id |-> id, seen |-> seen]))

SetChanging(b, id, book) ==
    /\ changingId' = [changingId EXCEPT ![b] = id]
    /\ changing' = [changing EXCEPT ![b] = book]
UnsetChanging(b) == SetChanging(b, Null, Null)

\* A mutant of RemoveBookById: it takes the id being changed.
RemoveBookById_Changing(b, row) ==
    /\ row \in page[b]
    /\ PostRequest(b, "remove", changingId[b], row.book)
    /\ UNCHANGED <<books, page, changingId, changing>>

\* The remove button of a row.
RemoveBookById(b, row) ==
    /\ row \in page[b]
    /\ PostRequest(b, "remove", row.id, row.book)
    /\ UNCHANGED <<books, page, changingId, changing>>

\* The change button of a row; pressed again it ends the change.
SetChangingMode(b, row) ==
    /\ row \in page[b]
    /\ IF changingId[b] = row.id THEN UnsetChanging(b)
                                 ELSE SetChanging(b, row.id, row.book)
    /\ UNCHANGED <<books, xhr, page, clicks>>

\* The button below the fields, when all three are filled in.
AddNewBook(b) ==
    /\ changingId[b] = Null
    /\ PostRequest(b, "add", Null, Null)
    /\ UnsetChanging(b)
    /\ UNCHANGED <<books, page>>

ChangeBookById(b) ==
    /\ changingId[b] # Null
    /\ PostRequest(b, "change", changingId[b], changing[b])
    /\ UnsetChanging(b)
    /\ UNCHANGED <<books, page>>

-----------------------------------------------------------------------------
(* The server.                                                             *)

\* The book that has an id.
BookOf(i) == books[CHOOSE k \in DOMAIN books : books[k].id = i].data.book

\* Two mutants of Apply: the number is taken for a place of the list, and a
\* change of a book that is gone adds it.
Apply_Place(m) ==
    \/ /\ m.op = "add"
       /\ Server!AddBook([book |-> m.click, click |-> m.click])
    \/ /\ m.op = "remove"
       /\ \/ /\ m.id + 1 \in DOMAIN books
             /\ Server!RemoveBook(books[m.id + 1].id)
          \/ m.id + 1 \notin DOMAIN books /\ UNCHANGED books
    \/ /\ m.op = "change"
       /\ IF m.id \in Server!Ids
          THEN Server!ChangeBook(m.id, [book |-> BookOf(m.id), click |-> m.click])
          ELSE Server!UnknownId(m.id)
Apply_AddsUnknown(m) ==
    \/ /\ m.op = "add"
       /\ Server!AddBook([book |-> m.click, click |-> m.click])
    \/ /\ m.op = "remove"
       /\ Server!RemoveBook(m.id) \/ Server!UnknownId(m.id)
    \/ /\ m.op = "change"
       /\ IF m.id \in Server!Ids
          THEN Server!ChangeBook(m.id, [book |-> BookOf(m.id), click |-> m.click])
          ELSE Server!AddBook([book |-> m.seen, click |-> m.click])

\* analyzePost; a Book keeps its identity when its data are changed.
Apply(m) ==
    \/ /\ m.op = "add"
       /\ Server!AddBook([book |-> m.click, click |-> m.click])
    \/ /\ m.op = "remove"
       /\ Server!RemoveBook(m.id) \/ Server!UnknownId(m.id)
    \/ /\ m.op = "change"
       /\ IF m.id \in Server!Ids
          THEN Server!ChangeBook(m.id, [book |-> BookOf(m.id), click |-> m.click])
          ELSE Server!UnknownId(m.id)

ServePost(b, k) ==
    /\ xhr[b][k].state = "posted"
    /\ Apply(xhr[b][k].post)
    /\ SetXhr(b, k, Done)
    /\ UNCHANGED <<page, changingId, changing, clicks>>

ServeGet(b, k) ==
    /\ xhr[b][k] = SentGet
    /\ SetXhr(b, k, ListAnswer({ [id |-> books[j].id, book |-> books[j].data.book]
                                    : j \in DOMAIN books }))
    /\ UNCHANGED <<books, page, changingId, changing, clicks>>

\* A request that is not served: its onload never comes.
Lose(b, k) ==
    /\ xhr[b][k].state \in {"posted", "asked"}
    /\ SetXhr(b, k, Free)
    /\ UNCHANGED <<books, page, changingId, changing, clicks>>

-----------------------------------------------------------------------------
(* The browser's callbacks.                                                *)

\* onload of a POST: synchronize() asks for the list.
OnPosted(b, k) ==
    /\ xhr[b][k] = Done
    /\ SetXhr(b, k, SentGet)
    /\ UNCHANGED <<books, page, changingId, changing, clicks>>

\* onload of a list: the table is filled anew; a change that was begun goes on.
OnList(b, k) ==
    /\ xhr[b][k].state = "list"
    /\ page' = [page EXCEPT ![b] = xhr[b][k].rows]
    /\ SetXhr(b, k, Free)
    /\ UNCHANGED <<books, changingId, changing, clicks>>

Next ==
    \E b \in Browsers :
        \/ \E row \in page[b] : RemoveBookById(b, row) \/ SetChangingMode(b, row)
        \/ AddNewBook(b)
        \/ ChangeBookById(b)
        \/ \E k \in Slots : \/ ServePost(b, k) \/ ServeGet(b, k) \/ Lose(b, k)
                            \/ OnPosted(b, k) \/ OnList(b, k)

Spec == Init /\ [][Next]_vars

-----------------------------------------------------------------------------
Live == { books[k].data.book : k \in DOMAIN books }
HasId(u, i) == \E k \in DOMAIN books : books[k].data.book = u /\ books[k].id = i
Written(bs, u) == { bs[k].data.click : k \in { j \in DOMAIN bs : bs[j].data.book = u } }

\* The POSTs that leave the network in a step.
Consumed == { p \in Browsers \X Slots : /\ xhr[p[1]][p[2]].state = "posted"
                                        /\ xhr'[p[1]][p[2]] # xhr[p[1]][p[2]] }
PostAt(p) == xhr[p[1]][p[2]].post

\* A book is changed or removed only for a user who asked it of that book: as
\* long as the book whose row was clicked is in the list, a request reaches it
\* and no other, from however old a table it comes.  A request can go astray
\* only when its book is gone and the list has given the id to a later one.
RequestsHitTheirBook ==
    [][\A u \in Live : Written(books', u) # Written(books, u) =>
          \E p \in Consumed : \/ PostAt(p).seen = u
                              \/ /\ PostAt(p).seen \notin Live
                                 /\ HasId(u, PostAt(p).id)]_vars

\* A removed book never returns, though changes of it may still be on their
\* way: a book appears only for the POST that adds it.
GoneStaysGone ==
    [][\A u \in Live' \ Live :
          \E p \in Consumed : PostAt(p).op = "add" /\ PostAt(p).click = u]_vars
=============================================================================
