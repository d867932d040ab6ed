-------------------------------- MODULE Site10 --------------------------------
(***************************************************************************)
(* The site of Practise 10: pages that the server renders, books.js and    *)
(* task.js in them, and two things all users share, the table of books and *)
(* the last request of the task page.                                      *)
(*                                                                         *)
(* A browser shows one document and has at most one navigation on its way; *)
(* a new one takes the place of an older, and the document it brings ends  *)
(* the script of the old one, whose requests the server may still serve.   *)
(* The table is a BookCatalog, as HibernateStore is shown to be, that      *)
(* never gives an id twice.                                                *)
(***************************************************************************)
EXTENDS Integers, Sequences, FiniteSets, SequencesExt

CONSTANTS
    Browsers,
    Slots,     \* bound: XMLHttpRequests a browser has on their way
    MaxClicks, \* bound: clicks that send one, of all users together
    Data,      \* what a book holds beside its id
    FirstIds,  \* ids of the books that earlier runs have left
    Group,     \* ids from here on have a separator in their digits: 1000
    Texts,     \* what users type on the task page
    Null

ASSUME BrowsersAssumption == IsFiniteSet(Browsers) /\ IsFiniteSet(Slots)
ASSUME BoundsAssumption == /\ MaxClicks \in Nat \ {0} /\ Group \in Nat
                           /\ FirstIds # {} /\ FirstIds \subseteq 1 .. Group
                           /\ Group + MaxClicks < Group * Group

\* An element of a text, by its sign, its digits, what follows them (frac "path"
\* is the element "." or ".."), and what is glued to its end.  The elements of a
\* text stand with ", " between them.  (Left out: "/", "?", "#" and "%", which
\* make another address of a text.)
Elements == [sign : {"", "+", "-", " "}, whole : {"none", "zero", "plain", "padded"},
             frac : {"none", "comma", "dot", "path"}, tail : {"", " ", ",", ",+"}]
Sortings == [ints : Seq(Elements), floats : Seq(Elements), other : Seq(Elements)]
About == [page |-> "about"] \* the page for an address that is no other's
ASSUME NullAssumption == Null \notin Int /\ Null \notin Sortings /\ Null # About

Empty == [sign |-> "", whole |-> "none", frac |-> "none", tail |-> ""]
ASSUME TextsAssumption ==
    /\ Texts \subseteq Seq(Elements) \ {<< >>, <<Empty>>}
    /\ \A t \in Texts : \A k \in 1 .. Len(t) - 1 : t[k].tail # ",+" \* that is ", ", on arrival

VARIABLES
    table, nextId,   \* the books, and the id of the next
    lastTaskRequest, \* SimpleHttpServer.lastTaskRequest
    doc,             \* the document each browser shows
    nav,             \* its navigation
    xhr,             \* its XMLHttpRequests
    clicks,
    version,         \* history: how often the table has changed
    known,           \* history: the newest version a user has seen or heard of
    log              \* history: all that lastTaskRequest has been

books == <<table, nextId, version>>
task == <<lastTaskRequest, log>>
vars == <<books, task, doc, nav, xhr, clicks, known>>

-----------------------------------------------------------------------------
(* ResultMaker.                                                            *)

IsInt(e) == e.sign # " " /\ e.whole \in {"zero", "plain"} /\ e.frac = "none" /\ e.tail = ""
IsFloat(e) == e.sign = "" /\ e.frac = "comma" /\ e.tail = ""

\* split drops the empty elements at the end.
Split(text) ==
    LET filled == { k \in DOMAIN text : text[k] # Empty }
    IN  SubSeq(text, 1, IF filled = {} THEN 0 ELSE CHOOSE k \in filled : \A j \in filled : j <= k)

NoElements == [ints |-> << >>, floats |-> << >>, other |-> << >>]

\* A mutant of ResultMaker: the else before the second if is missing.
ResultMaker_NoElse(text) ==
    LET s == Split(text)
        result[n \in 0 .. Len(s)] ==
            IF n = 0 THEN NoElements
            ELSE LET r == IF IsInt(s[n]) THEN [result[n - 1] EXCEPT !.ints = Append(@, s[n])]
                                         ELSE result[n - 1]
                 IN  IF IsFloat(s[n]) THEN [r EXCEPT !.floats = Append(@, s[n])]
                                      ELSE [r EXCEPT !.other = Append(@, s[n])]
    IN  result[Len(s)]

\* Where an element is put.
Put(r, e) == IF IsInt(e) THEN [r EXCEPT !.ints = Append(@, e)]
             ELSE IF IsFloat(e) THEN [r EXCEPT !.floats = Append(@, e)]
             ELSE [r EXCEPT !.other = Append(@, e)]

\* The loop of getResult.
ResultMaker(text) ==
    LET s == Split(text)
        result[n \in 0 .. Len(s)] == IF n = 0 THEN NoElements ELSE Put(result[n - 1], s[n])
    IN  result[Len(s)]

-----------------------------------------------------------------------------
(* The way of a text, in the address task/..., to the server.              *)

\* The browser drops the spaces that an address ends with.  They may be those of
\* the last ", ": its comma is then glued to the element before it.
Spaces == [sign : {"", " "}, whole : {"none"}, frac : {"none"}, tail : {"", " "}]
Trimmed(text) ==
    IF text = << >> THEN << >>
    ELSE IF Last(text) \notin Spaces
         THEN [text EXCEPT ![Len(text)].tail = IF @ = " " THEN "" ELSE @]
    ELSE IF Len(text) = 1 THEN << >>
    ELSE [Front(text) EXCEPT ![Len(text) - 1].tail = ","]

\* It also resolves what is only "." or "..": the address is task/ or / then.
Resolved(text) == IF text = <<[Empty EXCEPT !.frac = "path"]>> THEN << >> ELSE text

\* URLDecoder: "+" is a space, and ",+" at the end a separator.
Decode(text) ==
    [k \in DOMAIN text |-> [text[k] EXCEPT !.sign = IF @ = "+" THEN " " ELSE @,
                                           !.tail = IF @ = ",+" THEN "" ELSE @]]
    \o IF text # << >> /\ Last(text).tail = ",+" THEN <<Empty>> ELSE << >>

Arrived(text) == Decode(Resolved(Trimmed(text)))

\* getExpansion: with a dot in it an address is a file's.
HasExpansion(text) == \E k \in DOMAIN text : text[k].frac \in {"dot", "path"}

-----------------------------------------------------------------------------
FirstNewId == Max(FirstIds) + 1
Ids == FirstIds \union FirstNewId .. FirstNewId + MaxClicks - 1
Store == INSTANCE BookCatalog WITH Id <- Ids, catalog <- table

Blank == [page |-> "none"]
BooksDoc(rows) == [page |-> "books", rows |-> rows, changingId |-> Null,
                   chosen |-> Null] \* history: the row its user means to change
TaskDoc(result) == [page |-> "task", shown |-> result] \* what is below the field

Idle == [state |-> "idle"]
Asked(page) == [state |-> page]
BooksAnswer(rows, v) == [state |-> "list", rows |-> rows, version |-> v]

Free == [state |-> "free"]

\* The id that the buttons of a row pass on.  FreeMarker writes numbers as the
\* locale of the JVM does: 1,000 are two arguments to JavaScript, the first of
\* them is taken, and 1.000 is 1.  (With a space the script is an error, and a
\* click on the button no step.)
Passed(row) == IF row < Group THEN row ELSE row \div Group

Requests == Seq(Elements)
Results == Sortings \union {Null, About}

Documents == {Blank} \union [page : {"task"}, shown : Results]
                 \union [page : {"books"}, rows : SUBSET Ids, chosen : Ids \union {Null},
                         changingId : { Passed(row) : row \in Ids } \union {Null}]
Navigations == {Idle, Asked("books"), Asked("task")}
                   \union [state : {"list"}, rows : SUBSET Ids, version : Nat]
                   \union [state : {"request", "nonempty"}, request : Requests, since : Nat]
                   \union [state : {"page"}, request : Requests, since : Nat, response : Results]
Xhrs == {Free}
            \union [state : {"posted"}, op : {"add", "change", "remove"},
                    id : { Passed(row) : row \in Ids } \union {Null}, wanted : {"yes", "no"},
                    chosen : Ids \union {Null}, plain : BOOLEAN]
            \union [state : {"done"}, version : Nat, wanted : {"yes"}]
            \union [state : {"task", "noted"}, text : Requests, wanted : {"yes", "no"}]
            \union [state : {"result"}, text : Requests, result : Results, wanted : {"yes"}]

TypeOK ==
    /\ Store!TypeOK /\ nextId \in FirstNewId .. FirstNewId + MaxClicks
    /\ \A i \in DOMAIN table : i < nextId
    /\ lastTaskRequest \in Requests
    /\ doc \in [Browsers -> Documents] /\ nav \in [Browsers -> Navigations]
    /\ xhr \in [Browsers -> [Slots -> Xhrs]] /\ known \in [Browsers -> 0 .. version]
    /\ clicks \in 0 .. MaxClicks /\ version \in 0 .. clicks
    /\ log \in Seq(Requests) /\ Len(log) \in 0 .. clicks

Init ==
    /\ table \in [FirstIds -> Data]
    /\ nextId = FirstNewId /\ version = 0
    /\ lastTaskRequest = << >> /\ log = << >>
    /\ doc = [b \in Browsers |-> Blank]
    /\ nav = [b \in Browsers |-> Idle]
    /\ xhr = [b \in Browsers |-> [k \in Slots |-> Free]]
    /\ clicks = 0 /\ known = [b \in Browsers |-> 0]

-----------------------------------------------------------------------------
(* The users.                                                              *)

SetXhr(b, k, x) == xhr' = [xhr EXCEPT ![b][k] = x]

SendXhr(b, x) ==
    /\ clicks < MaxClicks
    /\ clicks' = clicks + 1
    /\ \E k \in Slots : xhr[b][k] = Free /\ SetXhr(b, k, x)

PostRequest(b, op, id, chosen) ==
    SendXhr(b, [state |-> "posted", op |-> op, id |-> id, wanted |-> "yes",
                chosen |-> chosen, plain |-> doc[b].rows \subseteq 1 .. Group - 1])

RemoveBookById(b, row) ==
    /\ doc[b].page = "books" /\ row \in doc[b].rows
    /\ PostRequest(b, "remove", Passed(row), row)
    /\ UNCHANGED <<books, task, doc, nav, known>>

Chosen(b, row) == IF doc[b].chosen = row THEN Null ELSE row
SetChanging(b, id, chosen) ==
    doc' = [doc EXCEPT ![b].changingId = id, ![b].chosen = chosen]

\* A mutant of SetChangingMode: a click first ends a change of another row.
SetChangingMode_Ends(b, row) ==
    /\ doc[b].page = "books" /\ row \in doc[b].rows
    /\ SetChanging(b, IF doc[b].changingId # Null THEN Null ELSE Passed(row), Chosen(b, row))
    /\ UNCHANGED <<books, task, nav, xhr, clicks, known>>

\* A click on the row that is being changed ends that, on another one goes there.
SetChangingMode(b, row) ==
    /\ doc[b].page = "books" /\ row \in doc[b].rows
    /\ LET id == Passed(row)
       IN  SetChanging(b, IF doc[b].changingId = id THEN Null ELSE id, Chosen(b, row))
    /\ UNCHANGED <<books, task, nav, xhr, clicks, known>>

\* buttonClick, with all fields filled in: addNewBook or changeBookById.
ButtonClick(b) ==
    /\ doc[b].page = "books"
    /\ PostRequest(b, IF doc[b].changingId = Null THEN "add" ELSE "change",
                   doc[b].changingId, doc[b].chosen)
    /\ SetChanging(b, Null, Null)
    /\ UNCHANGED <<books, task, nav, known>>

\* What is in the field: a text typed there, or the request the page came with.
Offered == Texts \union { log[i] : i \in DOMAIN log }

\* getFilter, with a text in the field.
GetFilter(b, text) ==
    /\ doc[b].page = "task" /\ text # << >>
    /\ SendXhr(b, [state |-> "task", text |-> text, wanted |-> "yes"])
    /\ UNCHANGED <<books, task, doc, nav, known>>

\* The links of the navigation bar, and the address line.
Navigate(b, page) ==
    /\ nav' = [nav EXCEPT ![b] = Asked(page)]
    /\ UNCHANGED <<books, task, doc, xhr, clicks, known>>

-----------------------------------------------------------------------------
(* The server.                                                             *)

\* What comes of an XMLHttpRequest goes to the script that sent it, if it runs.
Answer(b, k, x) == SetXhr(b, k, IF xhr[b][k].wanted = "yes" THEN x ELSE Free)

\* A mutant of Transaction: the next book gets the same id.
Transaction_SameId(op, id) ==
    \/ op = "add" /\ UNCHANGED nextId /\ \E d \in Data : Store!Add(nextId, d)
    \/ op = "change" /\ UNCHANGED nextId /\ \E d \in Data : Store!Change(id, d)
    \/ op = "remove" /\ UNCHANGED nextId /\ Store!Remove(id)

\* analyzePost, and its transaction: a book that is not there is an exception.
Transaction(op, id) ==
    \/ /\ op = "add" /\ nextId' = nextId + 1
       /\ \E d \in Data : Store!Add(nextId, d)
    \/ /\ op = "change" /\ UNCHANGED nextId
       /\ \E d \in Data : Store!Change(id, d)
    \/ op = "remove" /\ UNCHANGED nextId /\ Store!Remove(id)

ServePost(b, k) ==
    /\ xhr[b][k].state = "posted"
    /\ Transaction(xhr[b][k].op, xhr[b][k].id)
    /\ version' = version + 1
    /\ Answer(b, k, [state |-> "done", version |-> version + 1, wanted |-> "yes"])
    /\ UNCHANGED <<task, doc, nav, clicks, known>>

\* (The text is history.)
ResultAnswer(text, result) == [state |-> "result", text |-> text, result |-> result, wanted |-> "yes"]

\* Of a text that is all spaces, or "." or "..", nothing arrives behind task/:
\* the answer is the about page.
AnswerAbout(b, k) ==
    /\ xhr[b][k].state = "task" /\ Arrived(xhr[b][k].text) = << >>
    /\ Answer(b, k, ResultAnswer(xhr[b][k].text, About))
    /\ UNCHANGED <<books, task, doc, nav, clicks, known>>

\* task/...: the request is noted, unless its address is a file's; ...
NoteRequest(b, k) ==
    /\ xhr[b][k].state = "task"
    /\ Arrived(xhr[b][k].text) # << >> /\ ~ HasExpansion(Arrived(xhr[b][k].text))
    /\ lastTaskRequest' = Arrived(xhr[b][k].text)
    /\ log' = Append(log, lastTaskRequest')
    /\ SetXhr(b, k, [xhr[b][k] EXCEPT !.state = "noted"])
    /\ UNCHANGED <<books, doc, nav, clicks, known>>

\* A mutant of AnswerRequest: what it answers is read from lastTaskRequest.
AnswerRequest_Last(b, k) ==
    /\ xhr[b][k].state = "noted"
    /\ Answer(b, k, ResultAnswer(xhr[b][k].text, ResultMaker(lastTaskRequest)))
    /\ UNCHANGED <<books, task, doc, nav, clicks, known>>

\* ... and its own result is sent.
AnswerRequest(b, k) ==
    /\ xhr[b][k].state = "noted"
    /\ Answer(b, k, ResultAnswer(xhr[b][k].text, ResultMaker(Arrived(xhr[b][k].text))))
    /\ UNCHANGED <<books, task, doc, nav, clicks, known>>

\* A request that is neither carried out nor answered: a body that came late, a
\* pool without a connection, a book or a file that is not there (HttpExchange).
Lose(b, k) ==
    /\ xhr[b][k].state \in {"posted", "task"}
    /\ SetXhr(b, k, Free)
    /\ UNCHANGED <<books, task, doc, nav, clicks, known>>

\* GET /books: the table, rendered.
RenderBooks(b) ==
    /\ nav[b].state = "books"
    /\ nav' = [nav EXCEPT ![b] = BooksAnswer(DOMAIN table, version)]
    /\ UNCHANGED <<books, task, doc, xhr, clicks, known>>

\* GET /task reads lastTaskRequest for the field, ...
PutRequest(b) ==
    /\ nav[b].state = "task"
    /\ nav' = [nav EXCEPT ![b] = [state |-> "request", request |-> lastTaskRequest,
                                  since |-> Len(log)]]
    /\ UNCHANGED <<books, task, doc, xhr, clicks, known>>

TaskAnswer(b, result) == [state |-> "page", request |-> nav[b].request,
                          since |-> nav[b].since, response |-> result]

\* A mutant of TestRequest: the result of no request is worked out as well.
TestRequest_Dropped(b) ==
    /\ nav[b].state = "request"
    /\ nav' = [nav EXCEPT ![b].state = "nonempty"]
    /\ UNCHANGED <<books, task, doc, xhr, clicks, known>>

\* ... again to see whether there is one, ...
TestRequest(b) ==
    /\ nav[b].state = "request"
    /\ nav' = [nav EXCEPT ![b] = IF lastTaskRequest = << >>
                                 THEN TaskAnswer(b, Null)
                                 ELSE [@ EXCEPT !.state = "nonempty"]]
    /\ UNCHANGED <<books, task, doc, xhr, clicks, known>>

\* ... and again for the result.
PutResponse(b) ==
    /\ nav[b].state = "nonempty"
    /\ nav' = [nav EXCEPT ![b] = TaskAnswer(b, ResultMaker(lastTaskRequest))]
    /\ UNCHANGED <<books, task, doc, xhr, clicks, known>>

-----------------------------------------------------------------------------
(* The browsers.                                                           *)

\* A new document: the scripts of the old one hear of nothing any more.
Unwanted(x) == IF x = Free THEN Free
               ELSE IF x.state \in {"done", "result"} THEN Free
               ELSE [x EXCEPT !.wanted = "no"]
Show(b, d) ==
    /\ doc' = [doc EXCEPT ![b] = d]
    /\ nav' = [nav EXCEPT ![b] = Idle]
    /\ xhr' = [xhr EXCEPT ![b] = [k \in Slots |-> Unwanted(xhr[b][k])]]
    /\ UNCHANGED <<books, task, clicks>>

ShowBooks(b) ==
    /\ nav[b].state = "list"
    /\ Show(b, BooksDoc(nav[b].rows))
    /\ known' = [known EXCEPT ![b] = nav[b].version]

ShowTask(b) ==
    /\ nav[b].state = "page"
    /\ Show(b, TaskDoc(nav[b].response))
    /\ UNCHANGED known

\* The page of an error, when there was no answer.
ShowError(b) ==
    /\ nav[b].state \in {"books", "task"}
    /\ Show(b, Blank)
    /\ UNCHANGED known

\* A mutant of OnPosted: it waits for the navigation on its way instead.
OnPosted_KeepsNav(b, k) ==
    /\ xhr[b][k].state = "done"
    /\ SetXhr(b, k, Free)
    /\ nav' = [nav EXCEPT ![b] = IF @ = Idle THEN Asked("books") ELSE @]
    /\ known' = [known EXCEPT ![b] = IF @ < xhr[b][k].version THEN xhr[b][k].version ELSE @]
    /\ UNCHANGED <<books, task, doc, clicks>>

\* onload of a POST: synchronize() replaces the document, and whatever
\* navigation was on its way.
OnPosted(b, k) ==
    /\ xhr[b][k].state = "done"
    /\ SetXhr(b, k, Free)
    /\ nav' = [nav EXCEPT ![b] = Asked("books")]
    /\ known' = [known EXCEPT ![b] = IF @ < xhr[b][k].version THEN xhr[b][k].version ELSE @]
    /\ UNCHANGED <<books, task, doc, clicks>>

\* onload of a task request.
OnResult(b, k) ==
    /\ xhr[b][k].state = "result"
    /\ SetXhr(b, k, Free)
    /\ doc' = [doc EXCEPT ![b].shown = xhr[b][k].result]
    /\ UNCHANGED <<books, task, nav, clicks, known>>

Next ==
    \E b \in Browsers :
        \/ \E row \in Ids : RemoveBookById(b, row) \/ SetChangingMode(b, row)
        \/ ButtonClick(b)
        \/ \E text \in Offered : GetFilter(b, text)
        \/ Navigate(b, "books") \/ Navigate(b, "task")
        \/ RenderBooks(b) \/ PutRequest(b) \/ TestRequest(b) \/ PutResponse(b)
        \/ ShowBooks(b) \/ ShowTask(b) \/ ShowError(b)
        \/ \E k \in Slots : \/ ServePost(b, k)
                            \/ AnswerAbout(b, k) \/ NoteRequest(b, k) \/ AnswerRequest(b, k)
                            \/ Lose(b, k) \/ OnPosted(b, k) \/ OnResult(b, k)

Spec == Init /\ [][Next]_vars

-----------------------------------------------------------------------------
(* What users see, and ask for.                                            *)

\* From a page whose ids have no separators, a POST does what its user chose:
\* it names the book of the row, adds one only when no row is being changed,
\* and is none that a click on another row has left over.  A page with larger
\* ids promises nothing: there a click can name another book.
RequestsAsChosen ==
    \A b \in Browsers : \A k \in Slots :
        LET x == xhr[b][k] IN
        x.state = "posted" /\ x.plain =>
            x.id = x.chosen /\ (x.op = "add" <=> x.chosen = Null)

\* What s holds at some of its places, in their order and each once.
Extract(part, s, places) ==
    \E at \in [1 .. Len(part) -> places] :
        /\ \A j, k \in 1 .. Len(part) : j < k => at[j] < at[k]
        /\ \A p \in places : \E k \in 1 .. Len(part) : at[k] = p
        /\ \A k \in 1 .. Len(part) : part[k] = s[at[k]]

\* The integers of a text, its fractions, and the rest.
Sorted(r, text) ==
    LET s == Split(text) IN
    /\ Extract(r.ints, s, { k \in DOMAIN s : IsInt(s[k]) })
    /\ Extract(r.floats, s, { k \in DOMAIN s : IsFloat(s[k]) })
    /\ Extract(r.other, s, { k \in DOMAIN s : ~ IsInt(s[k]) /\ ~ IsFloat(s[k]) })

\* A table is never older than what its user knows of, from the last table or
\* from the "done" of a POST: synchronize() asks for it anew, and the older
\* navigation on its way is dropped.
TableNeverOlder ==
    \A b \in Browsers : nav[b].state = "list" => nav[b].version >= known[b]

\* A page of /task shows a request and the result of that or a later one, both
\* noted while it was made or the last before; no result only with no request.
Noted(i) == IF i = 0 THEN << >> ELSE log[i]
ResultOf(i, r) == IF i = 0 THEN r = Null ELSE r # Null /\ Sorted(r, log[i])
PageForward ==
    \A b \in Browsers :
        nav[b].state = "page" =>
            \E i, j \in nav[b].since .. Len(log) :
                i <= j /\ nav[b].request = Noted(i) /\ ResultOf(j, nav[b].response)

\* The result below the field changes only for the answer to a text that was
\* sent from this very page, and is that of this text as it arrived, every element
\* in it once (or the about page, when nothing arrived): whatever other users send,
\* and whatever was on its way when the page was loaded.  Not as it was typed: of
\* "5, " comes "5,", which is no integer.  And of two answers of its own a page
\* shows the later one, be it to the earlier text.
ShownIsOwn ==
    [][\A b \in Browsers :
          doc[b].page = "task" /\ nav'[b] = nav[b] /\ doc'[b] # doc[b] =>
              \E k \in Slots :
                  /\ xhr[b][k].state = "result" /\ xhr[b][k].wanted = "yes"
                  /\ LET request == Arrived(xhr[b][k].text)
                     IN  IF request = << >> THEN doc'[b].shown = About
                         ELSE doc'[b].shown # About /\ Sorted(doc'[b].shown, request)]_vars
=============================================================================
