---------------------------- MODULE BookListProofs ----------------------------
(***************************************************************************)
(* Proofs about BookList: its ids are unique for every set of triples and  *)
(* every bound on the ids, and it implements BookCatalog.  Then about the  *)
(* pages over it, BooksPage: whatever the browsers do and the network      *)
(* loses, a request reaches the book it was meant for, and a removed book  *)
(* stays gone.  They rest on the same facts about the list.                *)
(***************************************************************************)
EXTENDS BookList, SequenceTheorems, TLAPS

\* What ArrayList.remove leaves: one place fewer, the places before k as they
\* were and the later ones moved down by one.
LEMMA RemoveAtIsShift ==
    ASSUME NEW S, NEW s \in Seq(S), NEW k \in 1 .. Len(s)
    PROVE  /\ RemoveAt(s, k) \in Seq(S)
           /\ Len(RemoveAt(s, k)) = Len(s) - 1
           /\ \A i \in 1 .. Len(s) - 1 :
                 RemoveAt(s, k)[i] = IF i < k THEN s[i] ELSE s[i + 1]
<1> DEFINE a == SubSeq(s, 1, k - 1)
           b == SubSeq(s, k + 1, Len(s))
<1>1. Len(s) \in Nat /\ k \in Nat /\ 1 <= k /\ k <= Len(s)
  BY LenProperties
<1>2. /\ a \in Seq(S)
      /\ Len(a) = k - 1
      /\ \A i \in 1 .. k - 1 : a[i] = s[i]
  BY <1>1, SubSeqProperties, SMTT(30)
<1>3. /\ b \in Seq(S)
      /\ Len(b) = Len(s) - k
      /\ \A i \in 1 .. Len(s) - k : b[i] = s[k + i]
  BY <1>1, SubSeqProperties, SMTT(30)
<1> DEFINE c == a \o b
<1>4. RemoveAt(s, k) = c
  BY DEF RemoveAt
<1> HIDE DEF a, b
<1>5. /\ c \in Seq(S)
      /\ Len(c) = Len(a) + Len(b)
      /\ \A i \in 1 .. Len(a) + Len(b) :
            c[i] = IF i <= Len(a) THEN a[i] ELSE b[i - Len(a)]
  BY <1>2, <1>3, ConcatProperties
<1> HIDE DEF c
<1>6. Len(c) = Len(s) - 1
  BY <1>1, <1>2, <1>3, <1>5
<1>7. ASSUME NEW i \in 1 .. Len(s) - 1
      PROVE  c[i] = IF i < k THEN s[i] ELSE s[i + 1]
  <2>1. c[i] = IF i <= k - 1 THEN a[i] ELSE b[i - (k - 1)]
    BY <1>1, <1>2, <1>3, <1>5
  <2>2. CASE i <= k - 1
    BY <1>1, <1>2, <2>1, <2>2
  <2>3. CASE i > k - 1
    <3>1. /\ i - (k - 1) \in 1 .. Len(s) - k
          /\ k + (i - (k - 1)) = i + 1
      BY <1>1, <2>3
    <3>2. b[i - (k - 1)] = s[k + (i - (k - 1))]
      BY <1>3, <3>1
    <3> QED BY <1>1, <2>1, <2>3, <3>1, <3>2
  <2> QED BY <1>1, <2>2, <2>3
<1> QED BY <1>4, <1>5, <1>6, <1>7

-----------------------------------------------------------------------------
Inv == TypeOK /\ IdsIncreasing

\* What a place of the list holds.
LEMMA PlacesAreBooks ==
    ASSUME TypeOK, NEW k \in Places
    PROVE  /\ books[k] \in Book
           /\ books[k].id \in 0 .. MaxId
           /\ books[k].id \in Int
           /\ k \in Nat /\ 1 <= k /\ k <= Len(books) /\ Len(books) \in Nat
<1>1. books[k] \in Book
  BY ElementOfSeq DEF TypeOK, Places
<1>2. books[k].id \in 0 .. MaxId
  BY <1>1 DEF Book
<1>3. Len(books) \in Nat
  BY LenProperties DEF TypeOK
<1> QED BY <1>1, <1>2, <1>3, MaxIdAssumption DEF Places

\* The list starts with the sample book of main.
LEMMA InitInv == Init => Inv
BY DataAssumption, MaxIdAssumption DEF Init, Inv, TypeOK, IdsIncreasing, Places, Book

\* One more than the last id is above every id of the list.
LEMMA NewIdIsLarger ==
    ASSUME Inv, NEW k \in Places
    PROVE  books[k].id < NewId
<1> DEFINE n == Len(books)
<1>1. n \in Nat /\ n \in Places /\ k \in Places /\ k <= n
  BY LenProperties DEF Inv, TypeOK, Places
<1>2. books[k].id \in Int /\ books[n].id \in Int
  BY <1>1, PlacesAreBooks DEF Inv
<1>3. books[k].id <= books[n].id
  BY <1>1, <1>2 DEF Inv, IdsIncreasing, Places
<1>4. NewId = books[n].id + 1
  BY <1>1 DEF NewId, Places
<1> QED BY <1>2, <1>3, <1>4

\* Adding goes above the last id, removing and changing keep the order: no
\* outcome of analyzePost disturbs it.
LEMMA NextInv ==
    ASSUME Inv, [Next]_books
    PROVE  Inv'
<1> USE MaxIdAssumption DEF Inv, TypeOK
<1>1. ASSUME NEW d \in Data, AddBook(d)
      PROVE  Inv'
  <2> DEFINE new == [id |-> NewId, data |-> d]
  <2>1. new \in Book /\ books' = Append(books, new)
    BY <1>1 DEF AddBook, Book
  <2>2. /\ books' \in Seq(Book)
        /\ Len(books') = Len(books) + 1
        /\ \A k \in Places : books'[k] = books[k]
        /\ books'[Len(books) + 1].id = NewId
    BY <2>1, AppendProperties, LenProperties DEF Places
  <2>3. IdsIncreasing'
    BY <2>2, NewIdIsLarger, LenProperties DEF IdsIncreasing, Places
  <2> QED BY <2>2, <2>3
<1>2. ASSUME NEW i \in 0 .. MaxId, RemoveBook(i)
      PROVE  Inv'
  <2>1. PICK k \in Places : books' = RemoveAt(books, k)
    BY <1>2 DEF RemoveBook
  <2>2. /\ books' \in Seq(Book)
        /\ Len(books') = Len(books) - 1
        /\ \A j \in 1 .. Len(books) - 1 :
              books'[j] = IF j < k THEN books[j] ELSE books[j + 1]
    BY <2>1, RemoveAtIsShift DEF Places
  <2>3. IdsIncreasing'
    <3> SUFFICES ASSUME NEW j \in 1 .. Len(books) - 1,
                        NEW m \in 1 .. Len(books) - 1, j < m
                 PROVE  books'[j].id < books'[m].id
      BY <2>2 DEF IdsIncreasing, Places
    <3> DEFINE at(i0) == IF i0 < k THEN i0 ELSE i0 + 1
    <3>1. Len(books) \in Nat /\ k \in Int
      BY PlacesAreBooks
    <3>2. at(j) \in Places /\ at(m) \in Places /\ at(j) < at(m)
      BY <3>1 DEF Places
    <3>3. books'[j] = books[at(j)] /\ books'[m] = books[at(m)]
      BY <2>2, <3>1
    <3> QED BY <3>2, <3>3 DEF IdsIncreasing
  <2> QED BY <2>2, <2>3
<1>3. ASSUME NEW i \in 0 .. MaxId, NEW d \in Data, ChangeBook(i, d)
      PROVE  Inv'
  <2>1. PICK k \in Places : books' = [books EXCEPT ![k].data = d]
    BY <1>3 DEF ChangeBook
  <2>2. [books[k] EXCEPT !.data = d] \in Book
    BY <2>1, PlacesAreBooks DEF Book
  <2>3. /\ books' \in Seq(Book)
        /\ Len(books') = Len(books)
        /\ \A j \in Places : books'[j].id = books[j].id
    BY <2>1, <2>2, ExceptSeq, ElementOfSeq DEF Places, Book
  <2>4. IdsIncreasing'
    BY <2>3 DEF IdsIncreasing, Places
  <2> QED BY <2>3, <2>4
<1>4. ASSUME UNCHANGED books
      PROVE  Inv'
  BY <1>4 DEF IdsIncreasing, Places
<1> QED BY <1>1, <1>2, <1>3, <1>4 DEF Next, UnknownId

\* Every reachable list has its ids in increasing order, and so does every
\* book a type: whatever the requests and their order.
THEOREM ListIncreasing == Spec => [](TypeOK /\ IdsIncreasing)
<1>1. Init => Inv
  BY InitInv
<1>2. Inv /\ [Next]_books => Inv'
  BY NextInv
<1> QED BY <1>1, <1>2, PTL DEF Spec, Inv

\* The list always holds books as Book describes them, for every MaxId.
THEOREM ListTyped == Spec => []TypeOK
  BY ListIncreasing, PTL

\* No two books of analyzePost's list ever share an id.
THEOREM ListUniqueIds == Spec => []UniqueIds
<1>1. Inv => UniqueIds
  <2> SUFFICES ASSUME Inv, NEW j \in Places, NEW k \in Places,
                      books[j].id = books[k].id, j # k
               PROVE  FALSE
    BY DEF UniqueIds
  <2>1. j < k \/ k < j
    BY PlacesAreBooks DEF Inv
  <2> QED BY <2>1, PlacesAreBooks DEF Inv, IdsIncreasing
<1> QED BY <1>1, ListIncreasing, PTL DEF Inv

-----------------------------------------------------------------------------
\* Where the ids are distinct, the catalogue holds each place's data.
LEMMA CatalogueAt ==
    ASSUME NEW s,
           \A j, k \in 1 .. Len(s) : s[j].id = s[k].id => j = k
    PROVE  /\ DOMAIN CatalogueOf(s) = IdsOf(s)
           /\ \A k \in 1 .. Len(s) : /\ s[k].id \in IdsOf(s)
                                     /\ CatalogueOf(s)[s[k].id] = s[k].data
<1> SUFFICES ASSUME NEW k \in 1 .. Len(s)
             PROVE  /\ s[k].id \in IdsOf(s)
                    /\ CatalogueOf(s)[s[k].id] = s[k].data
  BY DEF CatalogueOf
<1> DEFINE m == CHOOSE j \in 1 .. Len(s) : s[j].id = s[k].id
<1>1. m \in 1 .. Len(s) /\ s[m].id = s[k].id
  OBVIOUS
<1>2. m = k
  BY <1>1
<1>3. s[k].id \in IdsOf(s)
  BY DEF IdsOf
<1>4. CatalogueOf(s)[s[k].id] = s[m].data
  BY <1>3 DEF CatalogueOf
<1> QED BY <1>2, <1>3, <1>4

\* Ids that increase are distinct.
LEMMA IncreasingIsUnique ==
    ASSUME NEW s \in Seq(Book),
           \A j, k \in 1 .. Len(s) : j < k => s[j].id < s[k].id
    PROVE  \A j, k \in 1 .. Len(s) : s[j].id = s[k].id => j = k
<1> SUFFICES ASSUME NEW j \in 1 .. Len(s), NEW k \in 1 .. Len(s), j # k
             PROVE  s[j].id # s[k].id
  OBVIOUS
<1>1. s[j].id \in Int /\ s[k].id \in Int
  <2>1. s[j] \in Book /\ s[k] \in Book
    BY ElementOfSeq
  <2>2. s[j].id \in 0 .. MaxId /\ s[k].id \in 0 .. MaxId
    BY <2>1 DEF Book
  <2> QED BY <2>2, MaxIdAssumption
<1>2. j < k \/ k < j
  BY LenProperties
<1> QED BY <1>1, <1>2

\* A request of any kind is one step of the catalogue, or leaves it alone: the
\* book the request names is the only one that appears, changes or goes.
LEMMA StepIsCatalogStep ==
    ASSUME Inv, [Next]_books
    PROVE  [Catalog!Next]_(CatalogueOf(books))
<1> DEFINE cat == CatalogueOf(books)
           new == CatalogueOf(books')
           New == IdsOf(books')
<1>1. Inv'
  BY NextInv
<1>2. /\ \A j, k \in 1 .. Len(books) : books[j].id = books[k].id => j = k
      /\ \A j, k \in 1 .. Len(books') : books'[j].id = books'[k].id => j = k
  BY <1>1, IncreasingIsUnique DEF Inv, TypeOK, IdsIncreasing, Places
<1>3. /\ DOMAIN cat = Ids
      /\ \A k \in Places : books[k].id \in Ids /\ cat[books[k].id] = books[k].data
  BY <1>2, CatalogueAt DEF Ids, Places
<1>4. /\ DOMAIN new = New
      /\ \A k \in 1 .. Len(books') : /\ books'[k].id \in New
                                     /\ new[books'[k].id] = books'[k].data
  BY <1>2, CatalogueAt
<1>5. /\ cat = [i \in Ids |-> cat[i]]
      /\ new = [i \in New |-> new[i]]
  BY DEF CatalogueOf, Ids
<1>6. /\ \A i \in Ids : \E k \in Places : books[k].id = i
      /\ \A i \in New : \E k \in 1 .. Len(books') : books'[k].id = i
  BY DEF Ids, IdsOf, Places
<1> HIDE DEF cat, new, New
<1>7. ASSUME NEW d \in Data, AddBook(d)
      PROVE  Catalog!Next
  <2> DEFINE b == [id |-> NewId, data |-> d]
  <2>1. b \in Book /\ books' = Append(books, b)
    BY <1>7 DEF AddBook, Book
  <2>2. /\ Len(books) \in Nat
        /\ Len(books') = Len(books) + 1
        /\ \A k \in Places : books'[k] = books[k]
        /\ books'[Len(books) + 1] = b
    BY <2>1, AppendProperties, LenProperties DEF Places, Inv, TypeOK
  <2>3. NewId \notin Ids
    <3> SUFFICES ASSUME NEW k \in Places, books[k].id = NewId
                 PROVE  FALSE
      BY <1>6
    <3> QED BY NewIdIsLarger, PlacesAreBooks DEF Inv
  <2>4. New = Ids \union {NewId}
    <3>1. ASSUME NEW i \in New PROVE i \in Ids \union {NewId}
      BY <1>3, <1>6, <2>2 DEF Places
    <3>2. ASSUME NEW i \in Ids PROVE i \in New
      BY <1>4, <1>6, <2>2 DEF Places
    <3>3. NewId \in New
      BY <1>4, <2>2
    <3> QED BY <3>1, <3>2, <3>3
  <2>5. new[NewId] = d
    BY <1>4, <2>2
  <2>6. ASSUME NEW i \in Ids PROVE new[i] = cat[i]
    BY <1>3, <1>4, <1>6, <2>2 DEF Places
  <2>7. new = [i \in DOMAIN cat \union {NewId} |->
                  IF i = NewId THEN d ELSE cat[i]]
    BY <1>3, <1>5, <2>3, <2>4, <2>5, <2>6
  <2>8. Catalog!Add(NewId, d)
    BY <1>3, <2>3, <2>7 DEF Catalog!Add, cat, new
  <2>9. NewId \in 0 .. MaxId
    BY <1>7 DEF AddBook
  <2> QED BY <2>8, <2>9 DEF Catalog!Next
<1>8. ASSUME NEW i \in 0 .. MaxId, RemoveBook(i)
      PROVE  Catalog!Next
  <2>1. PICK k \in Places : books[k].id = i /\ books' = RemoveAt(books, k)
    BY <1>8 DEF RemoveBook, FirstWithId
  <2>2. /\ Len(books) \in Nat
        /\ Len(books') = Len(books) - 1
        /\ \A j \in 1 .. Len(books) - 1 :
              books'[j] = IF j < k THEN books[j] ELSE books[j + 1]
        /\ k \in Nat /\ 1 <= k /\ k <= Len(books)
    BY <2>1, RemoveAtIsShift, PlacesAreBooks DEF Places, Inv, TypeOK
  <2>3. ASSUME NEW j \in 1 .. Len(books')
        PROVE  \E m \in Places : m # k /\ books'[j] = books[m]
    <3>1. CASE j < k
      BY <2>2, <3>1 DEF Places
    <3>2. CASE j >= k
      <4>1. j + 1 \in Places /\ j + 1 # k /\ books'[j] = books[j + 1]
        BY <2>2, <3>2 DEF Places
      <4> QED BY <4>1
    <3> QED BY <2>2, <3>1, <3>2
  <2>4. ASSUME NEW m \in Places, m # k
        PROVE  \E j \in 1 .. Len(books') : books'[j] = books[m]
    <3>1. CASE m < k
      BY <2>2, <3>1 DEF Places
    <3>2. CASE m > k
      <4>1. m - 1 \in 1 .. Len(books') /\ books'[m - 1] = books[m]
        BY <2>2, <3>2 DEF Places
      <4> QED BY <4>1
    <3> QED BY <2>2, <2>4, <3>1, <3>2 DEF Places
  <2>5. New = Ids \ {i}
    <3>1. ASSUME NEW x \in New PROVE x \in Ids \ {i}
      <4>1. PICK j \in 1 .. Len(books') : books'[j].id = x
        BY <1>6
      <4>2. PICK m \in Places : m # k /\ books'[j] = books[m]
        BY <2>3
      <4> QED BY <1>2, <1>3, <2>1, <4>1, <4>2 DEF Places
    <3>2. ASSUME NEW x \in Ids \ {i} PROVE x \in New
      BY <1>4, <1>6, <2>1, <2>4
    <3> QED BY <3>1, <3>2
  <2>6. ASSUME NEW x \in New PROVE new[x] = cat[x]
    <3>1. PICK j \in 1 .. Len(books') : books'[j].id = x
      BY <1>6
    <3>2. PICK m \in Places : m # k /\ books'[j] = books[m]
      BY <2>3
    <3> QED BY <1>3, <1>4, <3>1, <3>2
  <2>7. i \in DOMAIN cat
    BY <1>3, <2>1
  <2>8. new = [x \in DOMAIN cat \ {i} |-> cat[x]]
    BY <1>3, <1>5, <2>5, <2>6
  <2> QED BY <2>7, <2>8 DEF Catalog!Next, Catalog!Remove, cat, new
<1>9. ASSUME NEW i \in 0 .. MaxId, NEW d \in Data, ChangeBook(i, d)
      PROVE  Catalog!Next
  <2>1. PICK k \in Places : /\ books[k].id = i
                            /\ books' = [books EXCEPT ![k].data = d]
    BY <1>9 DEF ChangeBook, FirstWithId
  <2>2. [books[k] EXCEPT !.data = d] \in Book
    BY <2>1, PlacesAreBooks DEF Book, Inv
  <2>3. /\ Len(books') = Len(books)
        /\ \A j \in Places : /\ books'[j].id = books[j].id
                             /\ books'[j].data = IF j = k THEN d ELSE books[j].data
    <3>1. books[k] \in [id : 0 .. MaxId, data : Data]
      BY PlacesAreBooks DEF Book, Inv
    <3>2. /\ [books[k] EXCEPT !.data = d].id = books[k].id
          /\ [books[k] EXCEPT !.data = d].data = d
      BY <3>1
    <3> QED BY <2>1, <2>2, <3>2, ExceptSeq DEF Places, Inv, TypeOK
  <2>4. New = Ids
    BY <2>3 DEF New, Ids, IdsOf, Places
  <2>5. ASSUME NEW x \in Ids PROVE new[x] = IF x = i THEN d ELSE cat[x]
    BY <1>2, <1>3, <1>4, <1>6, <2>1, <2>3 DEF Places
  <2>6. i \in DOMAIN cat
    BY <1>3, <2>1
  <2>7. new = [cat EXCEPT ![i] = d]
    BY <1>3, <1>5, <2>4, <2>5, <2>6
  <2> QED BY <2>6, <2>7 DEF Catalog!Next, Catalog!Change, cat, new
<1>10. CASE UNCHANGED books
  BY <1>10
<1> QED BY <1>7, <1>8, <1>9, <1>10 DEF Next, UnknownId

\* The list of analyzePost implements the catalogue of BookCatalog.
THEOREM ListIsCatalog == Spec => IsCatalog
<1>1. Init => Catalog!Init
  <2> SUFFICES ASSUME Init PROVE Catalog!Init
    OBVIOUS
  <2>1. /\ Len(books) = 1
        /\ books[1] = [id |-> 0, data |-> SeedData]
    BY DEF Init
  <2>2. IdsOf(books) = {0}
    BY <2>1 DEF IdsOf
  <2>3. \A j, k \in 1 .. Len(books) : books[j].id = books[k].id => j = k
    BY <2>1
  <2> DEFINE cat == CatalogueOf(books)
  <2>4. 1 \in 1 .. Len(books) /\ books[1].id = 0 /\ books[1].data = SeedData
    BY <2>1
  <2>5. DOMAIN cat = {0} /\ cat[0] = SeedData
    BY <2>2, <2>3, <2>4, CatalogueAt, SMTT(30)
  <2>6. cat = [i \in DOMAIN cat |-> cat[i]]
    BY <2>5 DEF CatalogueOf
  <2> QED BY <2>5, <2>6, DataAssumption, MaxIdAssumption
          DEF Catalog!Init, Catalog!TypeOK
<1>2. Inv /\ [Next]_books => [Catalog!Next]_(CatalogueOf(books))
  BY StepIsCatalogStep
<1>3. Spec => []Inv
  BY ListIncreasing DEF Inv
<1> QED BY <1>1, <1>2, <1>3, PTL DEF Spec, IsCatalog, Catalog!Spec

-----------------------------------------------------------------------------
(* The pages of Practise 8 over the list: BooksPage, whose server is an    *)
(* instance of BookList.                                                   *)

CONSTANTS Browsers, Slots, MaxClicks, Null
VARIABLES xhr, page, changingId, changing, clicks
Pages == INSTANCE BooksPage

\* What BooksPage assumes of its constants.
PagesBounds == MaxClicks \in Nat \ {0} /\ Null \notin Nat

Entry == [id : 0 .. MaxClicks, data : [book : 0 .. MaxClicks, click : 0 .. MaxClicks]]

\* The additions on their way: each book is named by the click that adds it, so
\* none of them is known to anyone.
AddAt(x, w) == x.state = "posted" /\ x.post.op = "add" /\ x.post.click = w
AddsOf(xs) == { w \in 0 .. MaxClicks : \E b \in Browsers, k \in Slots : AddAt(xs[b][k], w) }

\* The list has each book once, under ids that increase.
ListOK(s, adds, n) ==
    /\ s \in Seq(Entry)
    /\ \A j, k \in 1 .. Len(s) : j < k => s[j].id < s[k].id
    /\ \A j, k \in 1 .. Len(s) : s[j].data.book = s[k].data.book => j = k
    /\ \A k \in 1 .. Len(s) : s[k].data.book <= n /\ s[k].data.book \notin adds

\* Somebody knows book u by id i: while the book is there, that is its id.
Known(s, adds, n, i, u) ==
    /\ u \in 0 .. n /\ u \notin adds
    /\ \A k \in 1 .. Len(s) : s[k].data.book = u => s[k].id = i

\* What an XMLHttpRequest carries is known: the row a POST was clicked in, the
\* rows of a list.
XhrMeans(x, s, adds, n) ==
    /\ Pages!XhrOK(x)
    /\ x.state = "posted" /\ x.post.op # "add" => Known(s, adds, n, x.post.id, x.post.seen)
    /\ x.state = "list" => \A r \in x.rows : Known(s, adds, n, r.id, r.book)

\* One browser: its XMLHttpRequests, its table and the change it is making.
Local(x, rows, id, book, s, adds, n) ==
    /\ DOMAIN x = Slots /\ x = [k \in Slots |-> x[k]]
    /\ \A k \in Slots : XhrMeans(x[k], s, adds, n)
    /\ \A r \in rows : r \in Pages!Rows /\ Known(s, adds, n, r.id, r.book)
    /\ \/ id = Null /\ book = Null
       \/ id \in 0 .. MaxClicks /\ book \in 0 .. MaxClicks /\ Known(s, adds, n, id, book)

\* A book is added by one POST.
OneAdds(xs) ==
    \A b, c \in Browsers : \A j, k \in Slots : \A w \in 0 .. MaxClicks :
        AddAt(xs[b][j], w) /\ AddAt(xs[c][k], w) => b = c /\ j = k

\* What is inductive: the ids of the list increase, each book is in it once, and
\* nobody, page or request, knows a book by an id that another has.
PagesInv ==
    /\ clicks \in 0 .. MaxClicks
    /\ AddsOf(xhr) \subseteq 1 .. clicks /\ OneAdds(xhr)
    /\ ListOK(books, AddsOf(xhr), clicks)
    /\ DOMAIN xhr = Browsers /\ xhr = [b \in Browsers |-> xhr[b]]
    /\ DOMAIN page = Browsers /\ page = [b \in Browsers |-> page[b]]
    /\ DOMAIN changingId = Browsers /\ changingId = [b \in Browsers |-> changingId[b]]
    /\ DOMAIN changing = Browsers /\ changing = [b \in Browsers |-> changing[b]]
    /\ \A b \in Browsers : Local(xhr[b], page[b], changingId[b], changing[b],
                                 books, AddsOf(xhr), clicks)

-----------------------------------------------------------------------------
(* What a step leaves true of those who take no part in it.                *)

\* The list of a later moment: its books were there before, under the same ids,
\* or were being added.
Kept(s, adds, s2) ==
    \A j \in 1 .. Len(s2) :
        \/ s2[j].data.book \in adds
        \/ \E k \in 1 .. Len(s) : s[k].id = s2[j].id /\ s[k].data.book = s2[j].data.book

\* Who knows a book by an id still does when the list, the POSTs and the clicks
\* have gone on.
LEMMA KnownLater ==
    ASSUME NEW s, NEW adds, NEW n \in Nat, NEW i, NEW u, Known(s, adds, n, i, u),
           NEW s2, NEW adds2, NEW n2 \in Nat, n <= n2, adds2 \subseteq adds \union {n + 1},
           Kept(s, adds, s2)
    PROVE  Known(s2, adds2, n2, i, u)
<1>1. u \in 0 .. n2 /\ u # n + 1 /\ u \notin adds
  BY DEF Known
<1>2. \A j \in 1 .. Len(s2) : s2[j].data.book = u => s2[j].id = i
  BY <1>1 DEF Kept, Known
<1> QED BY <1>1, <1>2 DEF Known

\* So a browser that takes no part keeps what the invariant says of it.
LEMMA LocalLater ==
    ASSUME NEW x, NEW rows, NEW id, NEW book, NEW s, NEW adds, NEW n \in Nat,
           Local(x, rows, id, book, s, adds, n),
           NEW s2, NEW adds2, NEW n2 \in Nat, n <= n2, adds2 \subseteq adds \union {n + 1},
           Kept(s, adds, s2)
    PROVE  Local(x, rows, id, book, s2, adds2, n2)
<1>1. \A i, u : Known(s, adds, n, i, u) => Known(s2, adds2, n2, i, u)
  BY KnownLater
<1>2. \A k \in Slots : XhrMeans(x[k], s2, adds2, n2)
  BY <1>1 DEF Local, XhrMeans
<1> QED BY <1>1, <1>2 DEF Local

\* A step of one browser, or of the server for it.
LEMMA OneBrowser ==
    ASSUME PagesBounds, PagesInv, NEW b \in Browsers, NEW x, NEW rows, NEW id, NEW book,
           xhr' = [xhr EXCEPT ![b] = x], page' = [page EXCEPT ![b] = rows],
           changingId' = [changingId EXCEPT ![b] = id], changing' = [changing EXCEPT ![b] = book],
           clicks' \in 0 .. MaxClicks, clicks <= clicks',
           AddsOf(xhr') \subseteq AddsOf(xhr) \union {clicks + 1}, AddsOf(xhr') \subseteq 1 .. clicks',
           OneAdds(xhr'), ListOK(books', AddsOf(xhr'), clicks'), Kept(books, AddsOf(xhr), books'),
           Local(x, rows, id, book, books', AddsOf(xhr'), clicks')
    PROVE  PagesInv'
<1>1. clicks \in Nat /\ clicks' \in Nat
  BY DEF PagesInv
<1>2. ASSUME NEW c \in Browsers
      PROVE  Local(xhr'[c], page'[c], changingId'[c], changing'[c], books', AddsOf(xhr'), clicks')
  <2>1. CASE c = b
    BY <2>1 DEF PagesInv
  <2>2. CASE c # b
    <3>1. Local(xhr[c], page[c], changingId[c], changing[c], books', AddsOf(xhr'), clicks')
      BY <1>1, LocalLater DEF PagesInv
    <3> QED BY <2>2, <3>1 DEF PagesInv
  <2> QED BY <2>1, <2>2
<1>3. /\ DOMAIN xhr' = Browsers /\ xhr' = [c \in Browsers |-> xhr'[c]]
      /\ DOMAIN page' = Browsers /\ page' = [c \in Browsers |-> page'[c]]
      /\ DOMAIN changingId' = Browsers /\ changingId' = [c \in Browsers |-> changingId'[c]]
      /\ DOMAIN changing' = Browsers /\ changing' = [c \in Browsers |-> changing'[c]]
  BY DEF PagesInv
<1> QED BY <1>2, <1>3 DEF PagesInv

\* What the invariant says of one browser.
LEMMA OneOf ==
    ASSUME PagesInv, NEW b \in Browsers
    PROVE  /\ Local(xhr[b], page[b], changingId[b], changing[b], books, AddsOf(xhr), clicks)
           /\ clicks \in 0 .. MaxClicks /\ ListOK(books, AddsOf(xhr), clicks)
           /\ \A k \in Slots : XhrMeans(xhr[b][k], books, AddsOf(xhr), clicks)
           /\ xhr = [xhr EXCEPT ![b] = xhr[b]] /\ page = [page EXCEPT ![b] = page[b]]
           /\ changingId = [changingId EXCEPT ![b] = changingId[b]]
           /\ changing = [changing EXCEPT ![b] = changing[b]]
BY DEF PagesInv, Local

\* One XMLHttpRequest changes.
LEMMA OneXhr ==
    ASSUME PagesBounds, PagesInv, NEW b \in Browsers, NEW k \in Slots, NEW y, Pages!SetXhr(b, k, y)
    PROVE  /\ xhr' = [xhr EXCEPT ![b] = [xhr[b] EXCEPT ![k] = y]]
           /\ xhr'[b][k] = y
           /\ (\A w : ~ AddAt(y, w)) =>
                 /\ AddsOf(xhr') \subseteq AddsOf(xhr) /\ OneAdds(xhr')
                 /\ \A w \in 0 .. MaxClicks : AddAt(xhr[b][k], w) => w \notin AddsOf(xhr')
           /\ \A w \in 0 .. MaxClicks :
                 w \notin AddsOf(xhr) /\ (\A v : AddAt(y, v) => v = w) =>
                     AddsOf(xhr') \subseteq AddsOf(xhr) \union {w} /\ OneAdds(xhr')
<1>1. DOMAIN xhr = Browsers /\ \A c \in Browsers : DOMAIN xhr[c] = Slots
  BY OneOf DEF PagesInv, Local
<1>2. xhr' = [xhr EXCEPT ![b][k] = y]
  BY DEF Pages!SetXhr
<1>3. /\ xhr'[b][k] = y
      /\ \A c \in Browsers : \A j \in Slots : c # b \/ j # k => xhr'[c][j] = xhr[c][j]
  BY <1>1, <1>2
<1>4. OneAdds(xhr)
  BY DEF PagesInv
<1>5. ASSUME \A w : ~ AddAt(y, w)
      PROVE  /\ AddsOf(xhr') \subseteq AddsOf(xhr) /\ OneAdds(xhr')
             /\ \A w \in 0 .. MaxClicks : AddAt(xhr[b][k], w) => w \notin AddsOf(xhr')
  <2>1. \A c \in Browsers : \A j \in Slots : \A w :
            AddAt(xhr'[c][j], w) => (c # b \/ j # k) /\ AddAt(xhr[c][j], w)
    BY <1>3, <1>5
  <2>2. AddsOf(xhr') \subseteq AddsOf(xhr) /\ OneAdds(xhr')
    <3>1. AddsOf(xhr') \subseteq AddsOf(xhr)
      BY <2>1 DEF AddsOf
    <3>2. ASSUME NEW c \in Browsers, NEW d \in Browsers, NEW i \in Slots, NEW j \in Slots,
                 NEW w \in 0 .. MaxClicks, AddAt(xhr'[c][i], w), AddAt(xhr'[d][j], w)
          PROVE  c = d /\ i = j
      <4>1. AddAt(xhr[c][i], w) /\ AddAt(xhr[d][j], w)
        BY <2>1, <3>2
      <4> QED BY <1>4, <4>1 DEF OneAdds
    <3> QED BY <3>1, <3>2 DEF OneAdds
  <2>3. ASSUME NEW w \in 0 .. MaxClicks, AddAt(xhr[b][k], w), w \in AddsOf(xhr')
        PROVE  FALSE
    <3>1. PICK c \in Browsers, j \in Slots : AddAt(xhr'[c][j], w)
      BY <2>3 DEF AddsOf
    <3>2. (c # b \/ j # k) /\ AddAt(xhr[c][j], w)
      BY <2>1, <3>1
    <3> QED BY <1>4, <2>3, <3>2 DEF OneAdds
  <2> QED BY <2>2, <2>3
<1>6. ASSUME NEW w \in 0 .. MaxClicks, w \notin AddsOf(xhr), \A v : AddAt(y, v) => v = w
      PROVE  AddsOf(xhr') \subseteq AddsOf(xhr) \union {w} /\ OneAdds(xhr')
  <2>1. \A c \in Browsers : \A j \in Slots : ~ AddAt(xhr[c][j], w)
    BY <1>6 DEF AddsOf
  <2>2. \A c \in Browsers : \A j \in Slots : \A v :
            AddAt(xhr'[c][j], v) => \/ c = b /\ j = k /\ v = w
                                    \/ (c # b \/ j # k) /\ v # w /\ AddAt(xhr[c][j], v)
    BY <1>3, <1>6, <2>1
  <2>3. AddsOf(xhr') \subseteq AddsOf(xhr) \union {w}
    BY <2>2 DEF AddsOf
  <2>4. OneAdds(xhr')
    BY <1>4, <2>2 DEF OneAdds
  <2> QED BY <2>3, <2>4
<1>7. xhr' = [xhr EXCEPT ![b] = [xhr[b] EXCEPT ![k] = y]]
  BY <1>1, <1>2
<1> QED BY <1>3, <1>5, <1>6, <1>7

-----------------------------------------------------------------------------
(* What a POST does to the list.                                           *)

\* What a place of the list holds.
LEMMA EntryAt ==
    ASSUME PagesBounds, NEW s \in Seq(Entry), NEW k \in 1 .. Len(s)
    PROVE  /\ s[k] \in Entry /\ s[k] = [id |-> s[k].id, data |-> s[k].data]
           /\ s[k].id \in 0 .. MaxClicks /\ s[k].id \in Int
           /\ s[k].data = [book |-> s[k].data.book, click |-> s[k].data.click]
           /\ s[k].data.book \in 0 .. MaxClicks /\ s[k].data.click \in 0 .. MaxClicks
           /\ s[k].data.book \in Int
           /\ k \in Nat /\ 1 <= k /\ k <= Len(s) /\ Len(s) \in Nat
<1>1. s[k] \in Entry
  BY ElementOfSeq
<1>2. MaxClicks \in Nat /\ Len(s) \in Nat
  BY LenProperties DEF PagesBounds
<1> QED BY <1>1, <1>2 DEF Entry

\* The list as it is, when clicks have been made and POSTs been lost.
LEMMA ListLater ==
    ASSUME PagesBounds, NEW s, NEW adds, NEW n \in Nat, ListOK(s, adds, n),
           NEW adds2, NEW n2 \in Nat, n <= n2, adds2 \subseteq adds \union {n + 1}
    PROVE  ListOK(s, adds2, n2) /\ Kept(s, adds, s)
<1>1. s \in Seq(Entry)
  BY DEF ListOK
<1>2. ASSUME NEW k \in 1 .. Len(s)
      PROVE  s[k].data.book <= n2 /\ s[k].data.book \notin adds2
  <2>1. s[k].data.book \in Int
    BY <1>1, EntryAt
  <2>2. s[k].data.book <= n /\ s[k].data.book \notin adds
    BY DEF ListOK
  <2> QED BY <2>1, <2>2
<1> QED BY <1>2 DEF ListOK, Kept

\* A book is added under an id above all others.
LEMMA Appended ==
    ASSUME PagesBounds, NEW s, NEW adds, NEW n \in Nat, ListOK(s, adds, n),
           NEW i \in 0 .. MaxClicks, \A k \in 1 .. Len(s) : s[k].id < i,
           NEW w \in 0 .. MaxClicks, w \in adds, w <= n,
           NEW adds2, adds2 \subseteq adds, w \notin adds2,
           NEW s2, s2 = Append(s, [id |-> i, data |-> [book |-> w, click |-> w]])
    PROVE  /\ ListOK(s2, adds2, n) /\ Kept(s, adds, s2)
           /\ Len(s) \in Nat /\ Len(s2) = Len(s) + 1
           /\ \A k \in 1 .. Len(s) : s2[k] = s[k]
           /\ s2[Len(s) + 1].data.book = w /\ s2[Len(s) + 1].data.click = w
<1>1. PICK e : e = [id |-> i, data |-> [book |-> w, click |-> w]]
  OBVIOUS
<1>2. PICK m : m = Len(s)
  OBVIOUS
<1>3. s \in Seq(Entry) /\ m \in Nat
  BY <1>2, LenProperties DEF ListOK
<1>4. e \in Entry
  BY <1>1 DEF Entry
<1>5. /\ s2 \in Seq(Entry) /\ Len(s2) = m + 1 /\ s2[m + 1] = e
      /\ \A k \in 1 .. m : s2[k] = s[k]
  BY <1>1, <1>2, <1>3, <1>4, AppendProperties
<1>6. \A j, k \in 1 .. Len(s2) : j < k => s2[j].id < s2[k].id
  <2> SUFFICES ASSUME NEW j \in 1 .. m + 1, NEW k \in 1 .. m + 1, j < k
               PROVE  s2[j].id < s2[k].id
    BY <1>5
  <2>1. j \in 1 .. m /\ s2[j] = s[j]
    BY <1>3, <1>5
  <2>2. CASE k \in 1 .. m
    BY <1>2, <1>5, <2>1, <2>2 DEF ListOK
  <2>3. CASE k = m + 1
    BY <1>1, <1>2, <1>5, <2>1, <2>3
  <2>4. k \in 1 .. m \/ k = m + 1
    BY <1>3
  <2> QED BY <2>2, <2>3, <2>4
<1>7. \A k \in 1 .. m : s[k].data.book # w
  BY <1>2 DEF ListOK
<1>8. \A j, k \in 1 .. Len(s2) : s2[j].data.book = s2[k].data.book => j = k
  <2> SUFFICES ASSUME NEW j \in 1 .. m + 1, NEW k \in 1 .. m + 1,
                      s2[j].data.book = s2[k].data.book
               PROVE  j = k
    BY <1>5
  <2>1. CASE j \in 1 .. m /\ k \in 1 .. m
    BY <1>2, <1>5, <2>1 DEF ListOK
  <2>2. CASE j \in 1 .. m /\ k = m + 1
    BY <1>1, <1>5, <1>7, <2>2
  <2>3. CASE j = m + 1 /\ k \in 1 .. m
    BY <1>1, <1>5, <1>7, <2>3
  <2> QED BY <1>3, <2>1, <2>2, <2>3
<1>9. \A k \in 1 .. Len(s2) : s2[k].data.book <= n /\ s2[k].data.book \notin adds2
  <2> SUFFICES ASSUME NEW k \in 1 .. m + 1
               PROVE  s2[k].data.book <= n /\ s2[k].data.book \notin adds2
    BY <1>5
  <2>1. CASE k \in 1 .. m
    BY <1>2, <1>5, <2>1 DEF ListOK
  <2>2. CASE k = m + 1
    BY <1>1, <1>5, <2>2
  <2>3. k \in 1 .. m \/ k = m + 1
    BY <1>3
  <2> QED BY <2>1, <2>2, <2>3
<1>10. Kept(s, adds, s2)
  <2> SUFFICES ASSUME NEW k \in 1 .. m + 1
               PROVE  \/ s2[k].data.book \in adds
                      \/ \E j \in 1 .. Len(s) : s[j].id = s2[k].id /\ s[j].data.book = s2[k].data.book
    BY <1>5 DEF Kept
  <2>1. CASE k \in 1 .. m
    BY <1>2, <1>5, <2>1
  <2>2. CASE k = m + 1
    BY <1>1, <1>5, <2>2
  <2>3. k \in 1 .. m \/ k = m + 1
    BY <1>3
  <2> QED BY <2>1, <2>2, <2>3
<1> QED BY <1>1, <1>2, <1>3, <1>5, <1>6, <1>8, <1>9, <1>10 DEF ListOK

\* A book is removed: the others stay.
Others(s2, s, k) ==
    /\ \A j \in 1 .. Len(s2) : \E m \in 1 .. Len(s) : m # k /\ s2[j] = s[m]
    /\ \A m \in 1 .. Len(s) : m # k => \E j \in 1 .. Len(s2) : s2[j] = s[m]

LEMMA RemovedPlaces ==
    ASSUME PagesBounds, NEW s \in Seq(Entry), NEW k \in 1 .. Len(s), NEW s2, s2 = RemoveAt(s, k)
    PROVE  s2 \in Seq(Entry) /\ Others(s2, s, k)
<1>1. PICK l : l = Len(s)
  OBVIOUS
<1>2. l \in Nat /\ k \in Nat /\ 1 <= k /\ k <= l
  BY <1>1, EntryAt
<1>3. /\ s2 \in Seq(Entry) /\ Len(s2) = l - 1
      /\ \A j \in 1 .. l - 1 : s2[j] = IF j < k THEN s[j] ELSE s[j + 1]
  BY <1>1, RemoveAtIsShift
<1>4. ASSUME NEW j \in 1 .. l - 1
      PROVE  \E m \in 1 .. l : m # k /\ s2[j] = s[m]
  <2>1. CASE j < k
    <3>1. j \in 1 .. l /\ j # k /\ s2[j] = s[j]
      BY <1>2, <1>3, <2>1
    <3> QED BY <3>1
  <2>2. CASE ~ (j < k)
    <3>1. j + 1 \in 1 .. l /\ j + 1 # k /\ s2[j] = s[j + 1]
      BY <1>2, <1>3, <2>2
    <3> QED BY <3>1
  <2> QED BY <2>1, <2>2
<1>5. ASSUME NEW m \in 1 .. l, m # k
      PROVE  \E j \in 1 .. l - 1 : s2[j] = s[m]
  <2>1. CASE m < k
    <3>1. m \in 1 .. l - 1 /\ s2[m] = s[m]
      BY <1>2, <1>3, <2>1
    <3> QED BY <3>1
  <2>2. CASE m > k
    <3>1. m - 1 \in 1 .. l - 1 /\ ~ (m - 1 < k) /\ (m - 1) + 1 = m
      BY <1>2, <2>2
    <3>2. s2[m - 1] = s[m]
      BY <1>3, <3>1
    <3> QED BY <3>1, <3>2
  <2> QED BY <1>2, <1>5, <2>1, <2>2
<1> QED BY <1>1, <1>3, <1>4, <1>5, ZenonT(60) DEF Others

\* So the list without it is in order, and tells nobody anything new.
LEMMA Removed ==
    ASSUME PagesBounds, NEW s, NEW adds, NEW n \in Nat, ListOK(s, adds, n),
           NEW k \in 1 .. Len(s), NEW adds2, adds2 \subseteq adds,
           NEW s2, s2 = RemoveAt(s, k)
    PROVE  ListOK(s2, adds2, n) /\ Kept(s, adds, s2)
<1>1. s \in Seq(Entry)
  BY DEF ListOK
<1>2. PICK l : l = Len(s)
  OBVIOUS
<1>3. l \in Nat /\ k \in Nat /\ 1 <= k /\ k <= l
  BY <1>1, <1>2, EntryAt
<1>4. /\ s2 \in Seq(Entry) /\ Len(s2) = l - 1
      /\ \A j \in 1 .. l - 1 : s2[j] = IF j < k THEN s[j] ELSE s[j + 1]
  BY <1>1, <1>2, RemoveAtIsShift
<1> DEFINE at(j) == IF j < k THEN j ELSE j + 1
<1>5. \A j \in 1 .. l - 1 : at(j) \in 1 .. l /\ at(j) # k /\ s2[j] = s[at(j)]
  BY <1>3, <1>4
<1>6. \A i, j \in 1 .. l - 1 : /\ i < j => at(i) < at(j)
                               /\ at(i) = at(j) => i = j
  BY <1>3
<1> HIDE DEF at
<1>7. ListOK(s2, adds2, n)
  <2>1. \A i, j \in 1 .. l - 1 : i < j => s2[i].id < s2[j].id
    BY <1>2, <1>5, <1>6 DEF ListOK
  <2>2. \A i, j \in 1 .. l - 1 : s2[i].data.book = s2[j].data.book => i = j
    BY <1>2, <1>5, <1>6, SMTT(30) DEF ListOK
  <2>3. \A j \in 1 .. l - 1 : s2[j].data.book <= n /\ s2[j].data.book \notin adds2
    BY <1>2, <1>5 DEF ListOK
  <2> QED BY <1>4, <2>1, <2>2, <2>3 DEF ListOK
<1>8. Kept(s, adds, s2)
  BY <1>2, <1>4, <1>5 DEF Kept
<1> QED BY <1>7, <1>8

\* A book is changed: it keeps its place, its id and its identity.
ChangeAt(s, k, w) == [s EXCEPT ![k].data = [book |-> s[k].data.book, click |-> w]]

LEMMA Changed ==
    ASSUME PagesBounds, NEW s \in Seq(Entry), NEW k \in 1 .. Len(s), NEW w \in 0 .. MaxClicks
    PROVE  /\ ChangeAt(s, k, w) \in Seq(Entry) /\ Len(ChangeAt(s, k, w)) = Len(s)
           /\ \A j \in 1 .. Len(s) : /\ ChangeAt(s, k, w)[j].id = s[j].id
                                     /\ ChangeAt(s, k, w)[j].data.book = s[j].data.book
                                     /\ j # k => ChangeAt(s, k, w)[j] = s[j]
<1> DEFINE s2 == ChangeAt(s, k, w)
<1>1. PICK d : d = [book |-> s[k].data.book, click |-> w]
  OBVIOUS
<1>2. PICK e : e = [id |-> s[k].id, data |-> d]
  OBVIOUS
<1>3. e = [s[k] EXCEPT !.data = d]
  <2>1. s[k] = [id |-> s[k].id, data |-> s[k].data]
    BY EntryAt
  <2>2. [[id |-> s[k].id, data |-> s[k].data] EXCEPT !.data = d] = [id |-> s[k].id, data |-> d]
    OBVIOUS
  <2> QED BY <1>2, <2>1, <2>2
<1>4. e \in Entry
  BY <1>1, <1>2, EntryAt DEF Entry
<1>5. s2 = [s EXCEPT ![k] = e]
  BY <1>1, <1>3 DEF ChangeAt
<1>6. /\ s2 \in Seq(Entry) /\ Len(s2) = Len(s)
      /\ \A j \in 1 .. Len(s) : s2[j] = IF j = k THEN e ELSE s[j]
  BY <1>4, <1>5, ExceptSeq
<1>7. e.id = s[k].id /\ e.data.book = s[k].data.book
  BY <1>1, <1>2
<1> HIDE DEF s2
<1>8. \A j \in 1 .. Len(s) : /\ s2[j].id = s[j].id /\ s2[j].data.book = s[j].data.book
                             /\ j # k => s2[j] = s[j]
  BY <1>6, <1>7
<1>9. s2 \in Seq(Entry) /\ Len(s2) = Len(s)
  BY <1>6
<1>10. ChangeAt(s, k, w) = s2
  BY DEF s2
<1>11. ChangeAt(s, k, w) \in Seq(Entry) /\ Len(ChangeAt(s, k, w)) = Len(s)
  BY <1>9, <1>10
<1>12. \A j \in 1 .. Len(s) : /\ ChangeAt(s, k, w)[j].id = s[j].id
                              /\ ChangeAt(s, k, w)[j].data.book = s[j].data.book
                              /\ j # k => ChangeAt(s, k, w)[j] = s[j]
  BY <1>8, <1>10
<1> QED BY <1>11, <1>12

\* So does the list in which one has been changed.
LEMMA ChangedList ==
    ASSUME NEW s, NEW adds, NEW n, ListOK(s, adds, n), NEW adds2, adds2 \subseteq adds,
           NEW s2 \in Seq(Entry), Len(s2) = Len(s),
           \A j \in 1 .. Len(s) : s2[j].id = s[j].id /\ s2[j].data.book = s[j].data.book
    PROVE  ListOK(s2, adds2, n) /\ Kept(s, adds, s2)
<1>1. \A i, j \in 1 .. Len(s) : i < j => s[i].id < s[j].id
  BY DEF ListOK
<1>2. \A i, j \in 1 .. Len(s) : s[i].data.book = s[j].data.book => i = j
  BY DEF ListOK
<1>3. \A j \in 1 .. Len(s) : s[j].data.book <= n /\ s[j].data.book \notin adds2
  BY DEF ListOK
<1>4. ListOK(s2, adds2, n)
  BY <1>1, <1>2, <1>3 DEF ListOK
<1>5. Kept(s, adds, s2)
  BY DEF Kept
<1> QED BY <1>4, <1>5

\* What analyzePost makes of the list for a POST m.
AddsTo(s, m, s2) ==
    \E i \in 0 .. MaxClicks :
        /\ \A k \in 1 .. Len(s) : s[k].id < i
        /\ s2 = Append(s, [id |-> i, data |-> [book |-> m.click, click |-> m.click]])
RemovesFrom(s, m, s2) ==
    \E k \in 1 .. Len(s) : s[k].id = m.id /\ s2 = RemoveAt(s, k)
ChangesOf(s, m, s2) ==
    \E k \in 1 .. Len(s) : s[k].id = m.id /\ s2 = ChangeAt(s, k, m.click)

\* Every way through analyzePost: one book is added, removed or changed, or none
\* because no book has the id.
LEMMA ApplyEffect ==
    ASSUME PagesBounds, PagesInv, NEW m, Pages!Apply(m)
    PROVE  \/ m.op = "add" /\ AddsTo(books, m, books')
           \/ m.op = "remove" /\ RemovesFrom(books, m, books')
           \/ m.op = "change" /\ ChangesOf(books, m, books')
           \/ m.op # "add" /\ books' = books
<1>1. books \in Seq(Entry) /\ DOMAIN books = 1 .. Len(books) /\ Len(books) \in Nat
  BY LenProperties DEF PagesInv, ListOK
<1>2. \A j, k \in 1 .. Len(books) : j < k => books[j].id < books[k].id
  BY DEF PagesInv, ListOK
<1>3. Pages!Server!Ids = { books[k].id : k \in 1 .. Len(books) }
  BY DEF Pages!Server!Ids, Pages!Server!IdsOf
<1>4. CASE /\ m.op = "add"
           /\ Pages!Server!AddBook([book |-> m.click, click |-> m.click])
  <2>1. PICK i : i = Pages!Server!NewId
    OBVIOUS
  <2>2. i \in 0 .. MaxClicks
    BY <1>4, <2>1 DEF Pages!Server!AddBook
  <2>3. books' = Append(books, [id |-> i, data |-> [book |-> m.click, click |-> m.click]])
    BY <1>4, <2>1 DEF Pages!Server!AddBook
  <2>4. ASSUME NEW k \in 1 .. Len(books) PROVE books[k].id < i
    <3>1. PICK n : n = Len(books)
      OBVIOUS
    <3>2. n \in 1 .. n /\ n # 0 /\ k \in 1 .. n /\ n \in Nat
      BY <1>1, <2>4, <3>1
    <3>3. i = books[n].id + 1
      BY <2>1, <3>1, <3>2 DEF Pages!Server!NewId
    <3>4. books[k].id \in Int /\ books[n].id \in Int
      BY <1>1, <3>1, <3>2, EntryAt
    <3>5. k = n \/ k < n
      BY <3>2
    <3>6. books[k].id <= books[n].id
      BY <1>2, <3>1, <3>2, <3>4, <3>5
    <3> QED BY <3>3, <3>4, <3>6
  <2> QED BY <1>4, <2>2, <2>3, <2>4 DEF AddsTo
<1>5. CASE m.op = "remove" /\ Pages!Server!RemoveBook(m.id)
  BY <1>5 DEF Pages!Server!RemoveBook, Pages!Server!Places, Pages!Server!FirstWithId,
              RemovesFrom, Pages!Server!RemoveAt, RemoveAt
<1>6. CASE m.op \in {"remove", "change"} /\ Pages!Server!UnknownId(m.id)
  BY <1>6 DEF Pages!Server!UnknownId
<1>7. CASE /\ m.op = "change"
           /\ Pages!Server!ChangeBook(m.id, [book |-> Pages!BookOf(m.id), click |-> m.click])
  <2>1. PICK k \in 1 .. Len(books) :
            /\ books[k].id = m.id
            /\ books' = [books EXCEPT ![k].data = [book |-> Pages!BookOf(m.id), click |-> m.click]]
    BY <1>7 DEF Pages!Server!ChangeBook, Pages!Server!Places, Pages!Server!FirstWithId
  <2>2. PICK j : j = CHOOSE i \in DOMAIN books : books[i].id = m.id
    OBVIOUS
  <2>3. j \in 1 .. Len(books) /\ books[j].id = m.id
    BY <1>1, <2>1, <2>2
  <2>4. j = k
    <3>1. books[k].id \in Int /\ books[j].id \in Int
      BY <1>1, <2>1, <2>3, EntryAt
    <3>2. ~ (j < k) /\ ~ (k < j)
      BY <1>2, <2>1, <2>3, <3>1
    <3> QED BY <2>1, <2>3, <3>2
  <2>5. Pages!BookOf(m.id) = books[k].data.book
    BY <2>2, <2>4 DEF Pages!BookOf
  <2>6. books' = ChangeAt(books, k, m.click)
    BY <2>1, <2>5 DEF ChangeAt
  <2> QED BY <1>7, <2>1, <2>6 DEF ChangesOf
<1> QED BY <1>4, <1>5, <1>6, <1>7 DEF Pages!Apply

\* What a POST leaves: the invariant's list, and the books that were there.
LEMMA ApplyKeeps ==
    ASSUME PagesBounds, PagesInv, NEW m, Pages!Apply(m), m.click \in 0 .. MaxClicks,
           NEW adds2, adds2 \subseteq AddsOf(xhr),
           m.op = "add" => m.click \in AddsOf(xhr) /\ m.click \notin adds2
    PROVE  ListOK(books', adds2, clicks) /\ Kept(books, AddsOf(xhr), books')
<1>1. ListOK(books, AddsOf(xhr), clicks) /\ clicks \in Nat
  BY DEF PagesInv
<1>2. CASE m.op = "add" /\ AddsTo(books, m, books')
  <2>1. m.click <= clicks
    BY <1>1, <1>2 DEF PagesInv
  <2>2. PICK i \in 0 .. MaxClicks :
            /\ \A k \in 1 .. Len(books) : books[k].id < i
            /\ books' = Append(books, [id |-> i, data |-> [book |-> m.click, click |-> m.click]])
    BY <1>2 DEF AddsTo
  <2> QED BY <1>1, <1>2, <2>1, <2>2, Appended, ZenonT(60)
<1>3. CASE RemovesFrom(books, m, books')
  BY <1>1, <1>3, Removed DEF RemovesFrom
<1>4. CASE ChangesOf(books, m, books')
  <2>1. PICK k \in 1 .. Len(books) : books' = ChangeAt(books, k, m.click)
    BY <1>4 DEF ChangesOf
  <2>2. PICK w \in 0 .. MaxClicks : w = m.click
    OBVIOUS
  <2>3. books \in Seq(Entry)
    BY <1>1 DEF ListOK
  <2>4. /\ books' \in Seq(Entry) /\ Len(books') = Len(books)
        /\ \A j \in 1 .. Len(books) : /\ books'[j].id = books[j].id
                                      /\ books'[j].data.book = books[j].data.book
    <3>1. books' = ChangeAt(books, k, w)
      BY <2>1, <2>2
    <3>2. PICK s, s2 : s \in Seq(Entry) /\ s = books /\ s2 = ChangeAt(s, k, w)
      BY <2>3
    <3>3. s2 \in Seq(Entry) /\ Len(s2) = Len(s)
      BY <3>2, Changed
    <3>4. \A j \in 1 .. Len(s) : s2[j].id = s[j].id /\ s2[j].data.book = s[j].data.book
      BY <3>2, Changed, SMTT(30)
    <3> QED BY <3>1, <3>2, <3>3, <3>4
  <2> QED BY <1>1, <2>4, ChangedList
<1>5. CASE books' = books
  BY <1>1, <1>5, ListLater
<1> QED BY <1>2, <1>3, <1>4, <1>5, ApplyEffect

-----------------------------------------------------------------------------
(* The steps of a page and of the server for it.                           *)

\* An XMLHttpRequest of browser b goes on, and its page may.
LEMMA XhrStep ==
    ASSUME PagesBounds, PagesInv, NEW b \in Browsers, NEW k \in Slots, NEW y,
           NEW rows, NEW id, NEW book, Pages!SetXhr(b, k, y),
           page' = [page EXCEPT ![b] = rows],
           changingId' = [changingId EXCEPT ![b] = id], changing' = [changing EXCEPT ![b] = book],
           clicks' \in 0 .. MaxClicks, clicks <= clicks',
           AddsOf(xhr') \subseteq AddsOf(xhr) \union {clicks + 1}, AddsOf(xhr') \subseteq 1 .. clicks',
           OneAdds(xhr'), ListOK(books', AddsOf(xhr'), clicks'), Kept(books, AddsOf(xhr), books'),
           Local(xhr[b], rows, id, book, books, AddsOf(xhr), clicks),
           XhrMeans(y, books', AddsOf(xhr'), clicks')
    PROVE  PagesInv'
<1>1. PICK x : x = [xhr[b] EXCEPT ![k] = y]
  OBVIOUS
<1>2. clicks \in Nat /\ clicks' \in Nat
  BY DEF PagesInv, PagesBounds
<1>3. Local(xhr[b], rows, id, book, books', AddsOf(xhr'), clicks')
  BY <1>2, LocalLater
<1>4. DOMAIN x = Slots /\ x = [j \in Slots |-> x[j]]
  BY <1>1, <1>3 DEF Local
<1>5. \A j \in Slots : XhrMeans(x[j], books', AddsOf(xhr'), clicks')
  BY <1>1, <1>3 DEF Local
<1>6. Local(x, rows, id, book, books', AddsOf(xhr'), clicks')
  BY <1>3, <1>4, <1>5 DEF Local
<1>7. xhr' = [xhr EXCEPT ![b] = x]
  BY <1>1, OneXhr
<1> QED BY <1>6, <1>7, OneBrowser

\* A step of the network or a callback: nothing is clicked, and what the
\* XMLHttpRequest becomes is no POST.
LEMMA QuietStep ==
    ASSUME PagesBounds, PagesInv, NEW b \in Browsers, NEW k \in Slots, NEW y,
           NEW rows, Pages!SetXhr(b, k, y), y.state # "posted",
           page' = [page EXCEPT ![b] = rows],
           UNCHANGED <<books, changingId, changing, clicks>>,
           Local(xhr[b], rows, changingId[b], changing[b], books, AddsOf(xhr), clicks),
           Pages!XhrOK(y),
           y.state = "list" => \A r \in y.rows : Known(books, AddsOf(xhr), clicks, r.id, r.book)
    PROVE  PagesInv'
<1>1. clicks \in 0 .. MaxClicks /\ clicks \in Nat /\ clicks' = clicks /\ books' = books
  BY DEF PagesInv, PagesBounds
<1>2. AddsOf(xhr') \subseteq AddsOf(xhr) /\ OneAdds(xhr')
  BY OneXhr DEF AddAt
<1>3. AddsOf(xhr') \subseteq 1 .. clicks
  BY <1>2 DEF PagesInv
<1>4. ListOK(books, AddsOf(xhr'), clicks) /\ Kept(books, AddsOf(xhr), books)
  <2>1. ListOK(books, AddsOf(xhr), clicks)
    BY OneOf
  <2>2. clicks <= clicks /\ AddsOf(xhr') \subseteq AddsOf(xhr) \union {clicks + 1}
    BY <1>1, <1>2
  <2> QED BY <1>1, <2>1, <2>2, ListLater
<1>5. \A i, u : Known(books, AddsOf(xhr), clicks, i, u) => Known(books, AddsOf(xhr'), clicks, i, u)
  BY <1>2 DEF Known
<1>6. XhrMeans(y, books, AddsOf(xhr'), clicks)
  BY <1>5 DEF XhrMeans
<1>7. /\ changingId' = [changingId EXCEPT ![b] = changingId[b]]
      /\ changing' = [changing EXCEPT ![b] = changing[b]]
  BY OneOf
<1>8. /\ clicks' \in 0 .. MaxClicks /\ clicks <= clicks'
      /\ AddsOf(xhr') \subseteq AddsOf(xhr) \union {clicks + 1} /\ AddsOf(xhr') \subseteq 1 .. clicks'
      /\ ListOK(books', AddsOf(xhr'), clicks') /\ Kept(books, AddsOf(xhr), books')
      /\ XhrMeans(y, books', AddsOf(xhr'), clicks')
  BY <1>1, <1>2, <1>3, <1>4, <1>6
<1> QED BY <1>2, <1>7, <1>8, XhrStep

\* The network loses a request, a callback runs.
LEMMA CallbacksKeep ==
    ASSUME PagesBounds, PagesInv, NEW b \in Browsers, NEW k \in Slots,
           Pages!Lose(b, k) \/ Pages!OnPosted(b, k) \/ Pages!OnList(b, k)
    PROVE  PagesInv'
<1>1. CASE Pages!Lose(b, k)
  <2>1. Pages!SetXhr(b, k, Pages!Free) /\ UNCHANGED <<books, page, changingId, changing, clicks>>
    BY <1>1 DEF Pages!Lose
  <2>2. Pages!Free.state = "free" /\ Pages!XhrOK(Pages!Free)
    BY DEF Pages!Free, Pages!XhrOK
  <2>3. page' = [page EXCEPT ![b] = page[b]]
    BY <2>1, OneOf
  <2> HIDE DEF Pages!Free
  <2> QED BY <2>1, <2>2, <2>3, OneOf, QuietStep
<1>2. CASE Pages!OnPosted(b, k)
  <2>1. Pages!SetXhr(b, k, Pages!SentGet) /\ UNCHANGED <<books, page, changingId, changing, clicks>>
    BY <1>2 DEF Pages!OnPosted
  <2>2. Pages!SentGet.state = "asked" /\ Pages!XhrOK(Pages!SentGet)
    BY DEF Pages!SentGet, Pages!XhrOK
  <2>3. page' = [page EXCEPT ![b] = page[b]]
    BY <2>1, OneOf
  <2> QED BY <2>1, <2>2, <2>3, OneOf, QuietStep
<1>3. CASE Pages!OnList(b, k)
  <2>1. PICK rows : rows = xhr[b][k].rows
    OBVIOUS
  <2>2. /\ xhr[b][k].state = "list" /\ page' = [page EXCEPT ![b] = rows]
        /\ Pages!SetXhr(b, k, Pages!Free) /\ UNCHANGED <<books, changingId, changing, clicks>>
    BY <1>3, <2>1 DEF Pages!OnList
  <2>3. Pages!Free.state = "free" /\ Pages!XhrOK(Pages!Free)
    BY DEF Pages!Free, Pages!XhrOK
  <2>4. XhrMeans(xhr[b][k], books, AddsOf(xhr), clicks)
    BY OneOf
  <2>5. \A r \in rows : Known(books, AddsOf(xhr), clicks, r.id, r.book)
    BY <2>1, <2>2, <2>4 DEF XhrMeans
  <2>6. rows \subseteq Pages!Rows
    BY <2>1, <2>2, <2>4 DEF XhrMeans, Pages!XhrOK, Pages!Free, Pages!SentGet, Pages!Done
  <2>7. Local(xhr[b], rows, changingId[b], changing[b], books, AddsOf(xhr), clicks)
    BY <2>5, <2>6, OneOf DEF Local
  <2> QED BY <2>2, <2>3, <2>7, QuietStep
<1> QED BY <1>1, <1>2, <1>3

\* The list is read: every row of the answer is one of its books.
LEMMA ServeGetKeeps ==
    ASSUME PagesBounds, PagesInv, NEW b \in Browsers, NEW k \in Slots, Pages!ServeGet(b, k)
    PROVE  PagesInv'
<1>1. PICK rows : rows = { [id |-> books[j].id, book |-> books[j].data.book] : j \in DOMAIN books }
  OBVIOUS
<1>2. PICK y : y = [state |-> "list", rows |-> rows]
  OBVIOUS
<1>3. Pages!SetXhr(b, k, y) /\ UNCHANGED <<books, page, changingId, changing, clicks>>
  BY <1>1, <1>2 DEF Pages!ServeGet, Pages!ListAnswer
<1>4. y.state = "list" /\ y.rows = rows
  BY <1>2
<1>5. books \in Seq(Entry) /\ DOMAIN books = 1 .. Len(books)
  BY LenProperties DEF PagesInv, ListOK
<1>6. ASSUME NEW r \in rows
      PROVE  r \in Pages!Rows /\ Known(books, AddsOf(xhr), clicks, r.id, r.book)
  <2>1. PICK j \in 1 .. Len(books) : r = [id |-> books[j].id, book |-> books[j].data.book]
    BY <1>1, <1>5
  <2>2. /\ books[j].id \in 0 .. MaxClicks /\ books[j].data.book \in 0 .. MaxClicks
        /\ books[j].data.book <= clicks /\ books[j].data.book \notin AddsOf(xhr)
    BY <1>5, EntryAt DEF PagesInv, ListOK
  <2>3. r.id = books[j].id /\ r.book = books[j].data.book
    BY <2>1
  <2>4. \A i \in 1 .. Len(books) : books[i].data.book = books[j].data.book => i = j
    BY DEF PagesInv, ListOK
  <2>5. r \in Pages!Rows
    BY <2>1, <2>2 DEF Pages!Rows, Pages!Ids, Pages!Clicks
  <2>6. clicks \in Nat
    BY DEF PagesInv, PagesBounds
  <2>7. r.book \in 0 .. clicks
    BY <2>2, <2>3, <2>6
  <2> QED BY <2>2, <2>3, <2>4, <2>5, <2>7 DEF Known
<1>7. Pages!XhrOK(y)
  BY <1>4, <1>6 DEF Pages!XhrOK
<1>8. page' = [page EXCEPT ![b] = page[b]]
  BY <1>3, OneOf
<1> QED BY <1>3, <1>4, <1>6, <1>7, <1>8, OneOf, QuietStep

\* A POST is served: what is known of the books holds of the list it leaves.
LEMMA ServePostKeeps ==
    ASSUME PagesBounds, PagesInv, NEW b \in Browsers, NEW k \in Slots, Pages!ServePost(b, k)
    PROVE  PagesInv'
<1>1. PICK m : m = xhr[b][k].post
  OBVIOUS
<1>2. /\ xhr[b][k].state = "posted" /\ Pages!Apply(m) /\ Pages!SetXhr(b, k, Pages!Done)
      /\ UNCHANGED <<page, changingId, changing, clicks>>
  BY <1>1 DEF Pages!ServePost
<1>3. m \in Pages!Posts
  BY <1>1, <1>2, OneOf DEF XhrMeans, Pages!XhrOK, Pages!Free, Pages!SentGet, Pages!Done
<1>4. m.click \in 0 .. MaxClicks
  BY <1>3 DEF Pages!Posts, Pages!Clicks
<1>5. Pages!Done.state = "done" /\ Pages!XhrOK(Pages!Done)
  BY DEF Pages!Done, Pages!XhrOK
<1> HIDE DEF Pages!Done
<1>6. PICK adds2 : adds2 = AddsOf(xhr')
  OBVIOUS
<1>7. /\ adds2 \subseteq AddsOf(xhr) /\ OneAdds(xhr')
      /\ \A w \in 0 .. MaxClicks : AddAt(xhr[b][k], w) => w \notin adds2
  BY <1>2, <1>5, <1>6, OneXhr DEF AddAt
<1>8. m.op = "add" => m.click \in AddsOf(xhr) /\ m.click \notin adds2
  BY <1>1, <1>2, <1>4, <1>7 DEF AddAt, AddsOf
<1>9. ListOK(books', adds2, clicks) /\ Kept(books, AddsOf(xhr), books')
  BY <1>2, <1>4, <1>7, <1>8, ApplyKeeps
<1>10. XhrMeans(Pages!Done, books', adds2, clicks)
  BY <1>5 DEF XhrMeans
<1>11. clicks \in 0 .. MaxClicks /\ clicks \in Nat /\ clicks' = clicks
  BY <1>2 DEF PagesInv, PagesBounds
<1>12. adds2 \subseteq 1 .. clicks
  BY <1>7 DEF PagesInv
<1>13. /\ page' = [page EXCEPT ![b] = page[b]]
       /\ changingId' = [changingId EXCEPT ![b] = changingId[b]]
       /\ changing' = [changing EXCEPT ![b] = changing[b]]
  BY <1>2, OneOf
<1>14. /\ clicks' \in 0 .. MaxClicks /\ clicks <= clicks'
       /\ AddsOf(xhr') \subseteq AddsOf(xhr) \union {clicks + 1} /\ AddsOf(xhr') \subseteq 1 .. clicks'
       /\ ListOK(books', AddsOf(xhr'), clicks') /\ XhrMeans(Pages!Done, books', AddsOf(xhr'), clicks')
  BY <1>6, <1>7, <1>9, <1>10, <1>11, <1>12
<1>15. Local(xhr[b], page[b], changingId[b], changing[b], books, AddsOf(xhr), clicks)
  BY OneOf
<1> QED BY <1>2, <1>7, <1>9, <1>13, <1>14, <1>15, XhrStep

\* A user sends a POST, of a book the page knows or of a new one.
LEMMA PostKeeps ==
    ASSUME PagesBounds, PagesInv, NEW b \in Browsers, NEW op, NEW i, NEW seen, NEW id, NEW book,
           Pages!PostRequest(b, op, i, seen), UNCHANGED <<books, page>>,
           changingId' = [changingId EXCEPT ![b] = id], changing' = [changing EXCEPT ![b] = book],
           Local(xhr[b], page[b], id, book, books, AddsOf(xhr), clicks),
           \/ op = "add" /\ i = Null /\ seen = Null
           \/ op \in {"remove", "change"} /\ i \in 0 .. MaxClicks /\ Known(books, AddsOf(xhr), clicks, i, seen)
    PROVE  PagesInv'
<1>1. PICK w : w = clicks + 1
  OBVIOUS
<1>2. PICK m : m = [op |-> op, click |-> w, id |-> i, seen |-> seen]
  OBVIOUS
<1>3. PICK y : y = Pages!SentPost(m)
  OBVIOUS
<1>4. PICK k \in Slots : Pages!SetXhr(b, k, y)
  BY <1>1, <1>2, <1>3 DEF Pages!PostRequest
<1>5. /\ clicks \in 0 .. MaxClicks /\ clicks \in Nat /\ MaxClicks \in Nat
      /\ clicks < MaxClicks /\ clicks' = w
  BY <1>1 DEF Pages!PostRequest, PagesInv, PagesBounds
<1>6. w \in 0 .. MaxClicks /\ w \in Nat /\ clicks <= w
  BY <1>1, <1>5
<1>7. AddsOf(xhr) \subseteq 1 .. clicks
  BY DEF PagesInv
<1>8. w \notin AddsOf(xhr)
  BY <1>1, <1>5, <1>7
<1>9. y.state = "posted" /\ y.post = m /\ m.op = op /\ m.click = w /\ m.id = i /\ m.seen = seen
  BY <1>2, <1>3 DEF Pages!SentPost
<1>10. PICK adds2 : adds2 = AddsOf(xhr')
  OBVIOUS
<1>11. adds2 \subseteq AddsOf(xhr) \union {w} /\ OneAdds(xhr')
  BY <1>4, <1>6, <1>8, <1>9, <1>10, OneXhr DEF AddAt
<1>12. m.op # "add" => adds2 \subseteq AddsOf(xhr)
  BY <1>4, <1>9, <1>10, OneXhr DEF AddAt
<1>13. adds2 \subseteq 1 .. w
  BY <1>1, <1>5, <1>7, <1>11
<1>14. ListOK(books, adds2, w) /\ Kept(books, AddsOf(xhr), books)
  <2>1. ListOK(books, AddsOf(xhr), clicks)
    BY DEF PagesInv
  <2> QED BY <1>1, <1>5, <1>6, <1>11, <2>1, ListLater
<1>15. Pages!XhrOK(y)
  <2>1. m \in Pages!Posts
    <3>1. CASE op = "add"
      BY <1>2, <1>6, <3>1 DEF Pages!Posts, Pages!Clicks
    <3>2. CASE op \in {"remove", "change"}
      <4>1. seen \in 0 .. MaxClicks
        BY <1>5, <3>2 DEF Known
      <4> QED BY <1>2, <1>6, <3>2, <4>1 DEF Pages!Posts, Pages!Clicks, Pages!Ids
    <3> QED BY <3>1, <3>2
  <2> QED BY <1>9, <2>1 DEF Pages!XhrOK
<1>16. m.op # "add" => Known(books, adds2, w, i, seen)
  BY <1>1, <1>5, <1>6, <1>9, <1>12 DEF Known
<1>17. XhrMeans(y, books, adds2, w)
  BY <1>9, <1>15, <1>16 DEF XhrMeans
<1>18. page' = [page EXCEPT ![b] = page[b]]
  BY OneOf
<1>19. /\ clicks' \in 0 .. MaxClicks /\ clicks <= clicks'
       /\ AddsOf(xhr') \subseteq AddsOf(xhr) \union {clicks + 1} /\ AddsOf(xhr') \subseteq 1 .. clicks'
       /\ ListOK(books', AddsOf(xhr'), clicks') /\ Kept(books, AddsOf(xhr), books')
       /\ XhrMeans(y, books', AddsOf(xhr'), clicks')
  BY <1>1, <1>5, <1>6, <1>10, <1>11, <1>13, <1>14, <1>17
<1> QED BY <1>4, <1>11, <1>18, <1>19, XhrStep

\* The buttons of the page.
LEMMA ButtonsKeep ==
    ASSUME PagesBounds, PagesInv, NEW b \in Browsers,
           \/ \E row \in page[b] : Pages!RemoveBookById(b, row) \/ Pages!SetChangingMode(b, row)
           \/ Pages!AddNewBook(b) \/ Pages!ChangeBookById(b)
    PROVE  PagesInv'
<1>1. Local(xhr[b], page[b], changingId[b], changing[b], books, AddsOf(xhr), clicks)
  BY OneOf
<1>2. Local(xhr[b], page[b], Null, Null, books, AddsOf(xhr), clicks)
  BY <1>1 DEF Local
<1>3. ASSUME NEW row \in page[b]
      PROVE  row.id \in 0 .. MaxClicks /\ row.book \in 0 .. MaxClicks
             /\ Known(books, AddsOf(xhr), clicks, row.id, row.book)
  BY <1>1 DEF Local, Pages!Rows, Pages!Ids, Pages!Clicks
<1>4. ASSUME NEW row \in page[b], Pages!RemoveBookById(b, row)
      PROVE  PagesInv'
  <2>1. /\ Pages!PostRequest(b, "remove", row.id, row.book)
        /\ UNCHANGED <<books, page, changingId, changing>>
    BY <1>4 DEF Pages!RemoveBookById
  <2>2. /\ changingId' = [changingId EXCEPT ![b] = changingId[b]]
        /\ changing' = [changing EXCEPT ![b] = changing[b]]
    BY <2>1, OneOf
  <2> QED BY <1>1, <1>3, <1>4, <2>1, <2>2, PostKeeps
<1>5. ASSUME NEW row \in page[b], Pages!SetChangingMode(b, row)
      PROVE  PagesInv'
  <2>1. PICK id, book : /\ Pages!SetChanging(b, id, book)
                        /\ (id = Null /\ book = Null) \/ (id = row.id /\ book = row.book)
    <3>1. Pages!SetChanging(b, Null, Null) \/ Pages!SetChanging(b, row.id, row.book)
      BY <1>5 DEF Pages!SetChangingMode, Pages!UnsetChanging
    <3> QED BY <3>1
  <2>2. /\ changingId' = [changingId EXCEPT ![b] = id] /\ changing' = [changing EXCEPT ![b] = book]
        /\ UNCHANGED <<books, xhr, page, clicks>>
    BY <1>5, <2>1 DEF Pages!SetChangingMode, Pages!SetChanging
  <2>3. Local(xhr[b], page[b], id, book, books, AddsOf(xhr), clicks)
    BY <1>1, <1>3, <1>5, <2>1 DEF Local
  <2>4. xhr' = [xhr EXCEPT ![b] = xhr[b]] /\ page' = [page EXCEPT ![b] = page[b]]
    BY <2>2, OneOf
  <2>5. clicks \in 0 .. MaxClicks /\ clicks \in Nat
    BY DEF PagesInv, PagesBounds
  <2>6. AddsOf(xhr) \subseteq 1 .. clicks /\ OneAdds(xhr) /\ ListOK(books, AddsOf(xhr), clicks)
    BY DEF PagesInv
  <2>7. Kept(books, AddsOf(xhr), books)
    BY DEF Kept
  <2>8. /\ clicks' \in 0 .. MaxClicks /\ clicks <= clicks'
        /\ AddsOf(xhr') \subseteq AddsOf(xhr) \union {clicks + 1} /\ AddsOf(xhr') \subseteq 1 .. clicks'
        /\ OneAdds(xhr') /\ ListOK(books', AddsOf(xhr'), clicks') /\ Kept(books, AddsOf(xhr), books')
        /\ Local(xhr[b], page[b], id, book, books', AddsOf(xhr'), clicks')
    BY <2>2, <2>3, <2>5, <2>6, <2>7
  <2> QED BY <2>2, <2>4, <2>8, OneBrowser
<1>6. CASE Pages!AddNewBook(b)
  <2>1. /\ Pages!PostRequest(b, "add", Null, Null) /\ UNCHANGED <<books, page>>
        /\ changingId' = [changingId EXCEPT ![b] = Null] /\ changing' = [changing EXCEPT ![b] = Null]
    BY <1>6 DEF Pages!AddNewBook, Pages!UnsetChanging, Pages!SetChanging
  <2> QED BY <1>2, <2>1, PostKeeps
<1>7. CASE Pages!ChangeBookById(b)
  <2>1. /\ Pages!PostRequest(b, "change", changingId[b], changing[b]) /\ UNCHANGED <<books, page>>
        /\ changingId' = [changingId EXCEPT ![b] = Null] /\ changing' = [changing EXCEPT ![b] = Null]
        /\ changingId[b] # Null
    BY <1>7 DEF Pages!ChangeBookById, Pages!UnsetChanging, Pages!SetChanging
  <2>2. changingId[b] \in 0 .. MaxClicks /\ Known(books, AddsOf(xhr), clicks, changingId[b], changing[b])
    BY <1>1, <2>1 DEF Local
  <2> QED BY <1>2, <2>1, <2>2, PostKeeps
<1> QED BY <1>4, <1>5, <1>6, <1>7

\* The pages have just been loaded; nothing has been clicked.
LEMMA PagesInitInv ==
    ASSUME PagesBounds, Pages!Init
    PROVE  PagesInv
<1>1. /\ books = << [id |-> 0, data |-> [book |-> 0, click |-> 0]] >>
      /\ clicks = 0 /\ MaxClicks \in Nat
  BY DEF Pages!Init, Pages!Server!Init, PagesBounds
<1>2. PICK first \in Slots :
          xhr = [b \in Browsers |->
                    [k \in Slots |-> IF k = first THEN Pages!SentGet ELSE Pages!Free]]
  BY DEF Pages!Init
<1>3. \A b \in Browsers : /\ DOMAIN xhr[b] = Slots /\ xhr[b] = [k \in Slots |-> xhr[b][k]]
                          /\ \A k \in Slots : xhr[b][k] \in {Pages!SentGet, Pages!Free}
  BY <1>2
<1>4. /\ Pages!SentGet.state = "asked" /\ Pages!Free.state = "free"
      /\ Pages!XhrOK(Pages!SentGet) /\ Pages!XhrOK(Pages!Free)
  BY DEF Pages!SentGet, Pages!Free, Pages!XhrOK
<1> HIDE DEF Pages!SentGet, Pages!Free
<1>5. AddsOf(xhr) = {} /\ OneAdds(xhr)
  BY <1>3, <1>4 DEF AddsOf, OneAdds, AddAt
<1>6. ListOK(books, {}, 0)
  <2>1. Len(books) = 1 /\ books[1] = [id |-> 0, data |-> [book |-> 0, click |-> 0]]
    BY <1>1
  <2>2. books[1] \in Entry
    BY <1>1, <2>1 DEF Entry
  <2>3. books = << books[1] >>
    BY <1>1, <2>1
  <2>4. books \in Seq(Entry)
    BY <2>2, <2>3
  <2> QED BY <2>1, <2>4 DEF ListOK
<1>7. \A b \in Browsers : page[b] = {} /\ changingId[b] = Null /\ changing[b] = Null
  BY DEF Pages!Init
<1>8. ASSUME NEW b \in Browsers
      PROVE  Local(xhr[b], page[b], changingId[b], changing[b], books, {}, 0)
  <2>1. \A k \in Slots : XhrMeans(xhr[b][k], books, {}, 0)
    BY <1>3, <1>4 DEF XhrMeans
  <2> QED BY <1>3, <1>7, <2>1 DEF Local
<1>9. /\ DOMAIN xhr = Browsers /\ xhr = [b \in Browsers |-> xhr[b]]
      /\ DOMAIN page = Browsers /\ page = [b \in Browsers |-> page[b]]
      /\ DOMAIN changingId = Browsers /\ changingId = [b \in Browsers |-> changingId[b]]
      /\ DOMAIN changing = Browsers /\ changing = [b \in Browsers |-> changing[b]]
  BY <1>2 DEF Pages!Init
<1> QED BY <1>1, <1>5, <1>6, <1>8, <1>9 DEF PagesInv

\* Every step of the pages, of the server for them and of the network.
LEMMA PagesNextInv ==
    ASSUME PagesBounds, PagesInv, [Pages!Next]_(Pages!vars)
    PROVE  PagesInv'
<1>1. CASE UNCHANGED Pages!vars
  BY <1>1 DEF Pages!vars, PagesInv
<1>2. CASE Pages!Next
  BY <1>2, ButtonsKeep, ServePostKeeps, ServeGetKeeps, CallbacksKeep DEF Pages!Next
<1> QED BY <1>1, <1>2

\* A page's rows, its change and its XMLHttpRequests are what BooksPage says,
\* whatever is clicked, lost or served late: TypeOK of the pages.
THEOREM PagesTyped ==
    ASSUME PagesBounds
    PROVE  Pages!Spec => []Pages!TypeOK
<1>1. Pages!Init => PagesInv
  BY PagesInitInv
<1>2. PagesInv /\ [Pages!Next]_(Pages!vars) => PagesInv'
  BY PagesNextInv
<1>3. PagesInv => Pages!TypeOK
  <2> SUFFICES ASSUME PagesInv PROVE Pages!TypeOK
    OBVIOUS
  <2>1. books \in Seq(Entry)
    BY DEF PagesInv, ListOK
  <2>2. Pages!Server!TypeOK
    <3>1. Entry \subseteq Pages!Server!Book
      BY DEF Entry, Pages!Server!Book, Pages!Data, Pages!Clicks
    <3> QED BY <2>1, <3>1, SeqMonotonic DEF Pages!Server!TypeOK
  <2>3. ASSUME NEW b \in Browsers
        PROVE  /\ \A k \in Slots : Pages!XhrOK(xhr[b][k])
               /\ page[b] \subseteq Pages!Rows
               /\ changingId[b] \in Pages!Ids \union {Null}
               /\ changing[b] \in Pages!Clicks \union {Null}
               /\ changingId[b] = Null <=> changing[b] = Null
    <3>1. Local(xhr[b], page[b], changingId[b], changing[b], books, AddsOf(xhr), clicks)
      BY OneOf
    <3>2. Null \notin 0 .. MaxClicks
      BY DEF PagesBounds
    <3>3. \/ changingId[b] = Null /\ changing[b] = Null
          \/ changingId[b] \in 0 .. MaxClicks /\ changing[b] \in 0 .. MaxClicks
      BY <3>1 DEF Local
    <3>4. page[b] \subseteq Pages!Rows /\ \A k \in Slots : Pages!XhrOK(xhr[b][k])
      BY <3>1 DEF Local, XhrMeans
    <3> QED BY <3>2, <3>3, <3>4 DEF Pages!Ids, Pages!Clicks
  <2>4. clicks \in Pages!Clicks
    BY DEF PagesInv, Pages!Clicks
  <2> QED BY <2>2, <2>3, <2>4 DEF Pages!TypeOK
<1> QED BY <1>1, <1>2, <1>3, PTL DEF Pages!Spec

-----------------------------------------------------------------------------
(* Which book a POST reaches.                                              *)

\* Written, by membership.
LEMMA WrittenHas ==
    ASSUME NEW s \in Seq(Entry), NEW u, NEW c
    PROVE  c \in Pages!Written(s, u) <=>
               \E k \in 1 .. Len(s) : s[k].data.book = u /\ c = s[k].data.click
<1>1. DOMAIN s = 1 .. Len(s)
  BY LenProperties
<1> QED BY <1>1 DEF Pages!Written

\* Only a POST that is served changes the list.
LEMMA OnlyServePost ==
    ASSUME [Pages!Next]_(Pages!vars), books' # books
    PROVE  \E b \in Browsers, k \in Slots : Pages!ServePost(b, k)
BY DEF Pages!Next, Pages!vars, Pages!RemoveBookById, Pages!SetChangingMode, Pages!AddNewBook,
       Pages!ChangeBookById, Pages!ServeGet, Pages!Lose, Pages!OnPosted, Pages!OnList

\* The POST that is served leaves the network, and says what its sender saw.
LEMMA PostServed ==
    ASSUME PagesBounds, PagesInv, NEW b \in Browsers, NEW k \in Slots, Pages!ServePost(b, k)
    PROVE  \E p, m :
               /\ p \in Pages!Consumed /\ Pages!PostAt(p) = m /\ Pages!Apply(m) /\ m.click \in 0 .. MaxClicks
               /\ m.op = "add" => m.click \in AddsOf(xhr)
               /\ m.op # "add" => Known(books, AddsOf(xhr), clicks, m.id, m.seen)
<1>1. PICK m : m = xhr[b][k].post
  OBVIOUS
<1>2. PICK p : p = << b, k >>
  OBVIOUS
<1>3. /\ xhr[b][k].state = "posted" /\ Pages!Apply(m) /\ Pages!SetXhr(b, k, Pages!Done)
  BY <1>1 DEF Pages!ServePost
<1>4. xhr'[b][k] # xhr[b][k]
  BY <1>3, OneXhr DEF Pages!Done
<1>5. p \in Browsers \X Slots /\ p[1] = b /\ p[2] = k
  BY <1>2
<1>6. p \in Pages!Consumed
  BY <1>3, <1>4, <1>5 DEF Pages!Consumed
<1>7. Pages!PostAt(p) = m
  BY <1>1, <1>5 DEF Pages!PostAt
<1>8. XhrMeans(xhr[b][k], books, AddsOf(xhr), clicks)
  BY OneOf
<1>9. m.op # "add" => Known(books, AddsOf(xhr), clicks, m.id, m.seen)
  BY <1>1, <1>3, <1>8 DEF XhrMeans
<1>10. m \in Pages!Posts
  BY <1>1, <1>3, <1>8 DEF XhrMeans, Pages!XhrOK, Pages!Free, Pages!SentGet, Pages!Done
<1>11. m.click \in 0 .. MaxClicks
  BY <1>10 DEF Pages!Posts, Pages!Clicks
<1>12. m.op = "add" => m.click \in AddsOf(xhr)
  BY <1>1, <1>3, <1>11 DEF AddAt, AddsOf
<1> QED BY <1>3, <1>6, <1>7, <1>9, <1>11, <1>12

\* A book that a POST removes or changes has the id it names; and if the book
\* its sender saw is in the list, that is the one.
LEMMA HitsSeen ==
    ASSUME PagesBounds, ListOK(books, AddsOf(xhr), clicks), NEW k \in 1 .. Len(books),
           NEW i, NEW seen, books[k].id = i, Known(books, AddsOf(xhr), clicks, i, seen),
           NEW u, books[k].data.book = u
    PROVE  seen = u \/ (seen \notin Pages!Live /\ Pages!HasId(u, i))
<1>1. books \in Seq(Entry) /\ DOMAIN books = 1 .. Len(books)
  BY LenProperties DEF ListOK
<1>2. Pages!HasId(u, i)
  BY <1>1 DEF Pages!HasId
<1>3. ASSUME seen \in Pages!Live
      PROVE  seen = u
  <2>1. PICK j \in 1 .. Len(books) : books[j].data.book = seen
    BY <1>1, <1>3 DEF Pages!Live
  <2>2. books[j].id = i
    BY <2>1 DEF Known
  <2>3. books[j].id \in Int /\ books[k].id \in Int /\ j \in Int /\ k \in Int
    <3>1. j \in Int /\ k \in Int
      BY <1>1, LenProperties
    <3>2. books[j].id \in Int
      BY <1>1, EntryAt
    <3>3. books[k].id \in Int
      BY <1>1, EntryAt
    <3> QED BY <3>1, <3>2, <3>3
  <2>4. ~ (j < k) /\ ~ (k < j)
    BY <2>2, <2>3 DEF ListOK
  <2>5. j = k
    BY <2>3, <2>4
  <2> QED BY <2>1, <2>5
<1> QED BY <1>2, <1>3

\* RequestsHitTheirBook, of one step.
LEMMA StepHits ==
    ASSUME PagesBounds, PagesInv, [Pages!Next]_(Pages!vars), NEW u \in Pages!Live,
           Pages!Written(books', u) # Pages!Written(books, u)
    PROVE  \E p \in Pages!Consumed : \/ Pages!PostAt(p).seen = u
                                     \/ /\ Pages!PostAt(p).seen \notin Pages!Live
                                        /\ Pages!HasId(u, Pages!PostAt(p).id)
<1>1. PICK b \in Browsers, k \in Slots : Pages!ServePost(b, k)
  BY OnlyServePost
<1>2. PICK p, m :
          /\ p \in Pages!Consumed /\ Pages!PostAt(p) = m /\ Pages!Apply(m) /\ m.click \in 0 .. MaxClicks
          /\ m.op = "add" => m.click \in AddsOf(xhr)
          /\ m.op # "add" => Known(books, AddsOf(xhr), clicks, m.id, m.seen)
  BY <1>1, PostServed
<1>3. ListOK(books, AddsOf(xhr), clicks) /\ clicks \in Nat
  BY DEF PagesInv, PagesBounds
<1>4. books \in Seq(Entry) /\ DOMAIN books = 1 .. Len(books)
  BY <1>3, LenProperties DEF ListOK
<1>5. SUFFICES m.seen = u \/ (m.seen \notin Pages!Live /\ Pages!HasId(u, m.id))
  BY <1>2
<1>6. ASSUME m.op = "add", AddsTo(books, m, books')
      PROVE  FALSE
  <2>1. PICK i \in 0 .. MaxClicks :
            books' = Append(books, [id |-> i, data |-> [book |-> m.click, click |-> m.click]])
    BY <1>6 DEF AddsTo
  <2>2. u # m.click
    BY <1>2, <1>3, <1>4, <1>6 DEF Pages!Live, ListOK
  <2>3. PICK e : e = [id |-> i, data |-> [book |-> m.click, click |-> m.click]]
    OBVIOUS
  <2>4. m.click \in 0 .. MaxClicks
    BY <1>2
  <2>5. e \in Entry /\ e.data.book = m.click
    BY <2>3, <2>4 DEF Entry
  <2>6. PICK s2, n : s2 = books' /\ n = Len(books)
    OBVIOUS
  <2>7. /\ s2 \in Seq(Entry) /\ Len(s2) = n + 1 /\ s2[n + 1] = e
        /\ \A j \in 1 .. n : s2[j] = books[j]
        /\ n \in Nat
    BY <1>4, <2>1, <2>3, <2>5, <2>6, AppendProperties, LenProperties
  <2>8. \A j : j \in 1 .. n + 1 <=> j \in 1 .. n \/ j = n + 1
    BY <2>7
  <2>9. \A c : c \in Pages!Written(s2, u) <=> c \in Pages!Written(books, u)
    BY <1>4, <2>2, <2>5, <2>6, <2>7, <2>8, WrittenHas
  <2> QED BY <2>6, <2>9 DEF Pages!Written
<1>7. ASSUME m.op = "remove", RemovesFrom(books, m, books')
      PROVE  m.seen = u \/ (m.seen \notin Pages!Live /\ Pages!HasId(u, m.id))
  <2>1. PICK j \in 1 .. Len(books) : books[j].id = m.id /\ books' = RemoveAt(books, j)
    BY <1>7 DEF RemovesFrom
  <2>2. PICK s2 : s2 = books'
    OBVIOUS
  <2>3. /\ s2 \in Seq(Entry)
        /\ \A i \in 1 .. Len(s2) : \E l \in 1 .. Len(books) : l # j /\ s2[i] = books[l]
        /\ \A l \in 1 .. Len(books) : l # j => \E i \in 1 .. Len(s2) : s2[i] = books[l]
    <3>1. s2 \in Seq(Entry) /\ Others(s2, books, j)
      BY <1>4, <2>1, <2>2, RemovedPlaces
    <3> QED BY <3>1 DEF Others
  <2>4. ASSUME books[j].data.book # u
        PROVE  FALSE
    <3>1. ASSUME NEW c, c \in Pages!Written(s2, u) PROVE c \in Pages!Written(books, u)
      <4>1. PICK i \in 1 .. Len(s2) : s2[i].data.book = u /\ c = s2[i].data.click
        BY <2>3, <3>1, WrittenHas
      <4>2. PICK l \in 1 .. Len(books) : s2[i] = books[l]
        BY <2>3
      <4> QED BY <1>4, <4>1, <4>2, WrittenHas
    <3>2. ASSUME NEW c, c \in Pages!Written(books, u) PROVE c \in Pages!Written(s2, u)
      <4>1. PICK l \in 1 .. Len(books) : books[l].data.book = u /\ c = books[l].data.click
        BY <1>4, <3>2, WrittenHas
      <4>2. PICK i \in 1 .. Len(s2) : s2[i] = books[l]
        BY <2>3, <2>4, <4>1
      <4> QED BY <2>3, <4>1, <4>2, WrittenHas
    <3> QED BY <2>2, <3>1, <3>2, ZenonT(60) DEF Pages!Written
  <2> QED BY <1>2, <1>3, <1>7, <2>1, <2>4, HitsSeen
<1>8. ASSUME m.op = "change", ChangesOf(books, m, books')
      PROVE  m.seen = u \/ (m.seen \notin Pages!Live /\ Pages!HasId(u, m.id))
  <2>1. PICK j \in 1 .. Len(books) : books[j].id = m.id /\ books' = ChangeAt(books, j, m.click)
    BY <1>8 DEF ChangesOf
  <2>2. PICK s2, w : s2 = books' /\ w = m.click
    OBVIOUS
  <2>3. w \in 0 .. MaxClicks
    BY <1>2, <2>2
  <2>4. /\ s2 \in Seq(Entry) /\ Len(s2) = Len(books)
        /\ \A i \in 1 .. Len(books) : i # j => s2[i] = books[i]
        /\ s2[j].data.book = books[j].data.book
    BY <1>4, <2>1, <2>2, <2>3, Changed
  <2>5. ASSUME books[j].data.book # u
        PROVE  FALSE
    <3>1. \A c : c \in Pages!Written(s2, u) <=> c \in Pages!Written(books, u)
      BY <1>4, <2>4, <2>5, WrittenHas
    <3> QED BY <2>2, <3>1 DEF Pages!Written
  <2> QED BY <1>2, <1>3, <1>8, <2>1, <2>5, HitsSeen
<1> QED BY <1>2, <1>6, <1>7, <1>8, ApplyEffect

\* GoneStaysGone, of one step.
LEMMA StepAdds ==
    ASSUME PagesBounds, PagesInv, [Pages!Next]_(Pages!vars), NEW u \in Pages!Live' \ Pages!Live
    PROVE  \E p \in Pages!Consumed : Pages!PostAt(p).op = "add" /\ Pages!PostAt(p).click = u
<1>1. books' # books
  BY DEF Pages!Live
<1>2. PICK b \in Browsers, k \in Slots : Pages!ServePost(b, k)
  BY <1>1, OnlyServePost
<1>3. PICK p, m :
          /\ p \in Pages!Consumed /\ Pages!PostAt(p) = m /\ Pages!Apply(m) /\ m.click \in 0 .. MaxClicks
          /\ m.op = "add" => m.click \in AddsOf(xhr)
  BY <1>2, PostServed
<1>4. ListOK(books, AddsOf(xhr), clicks) /\ clicks \in Nat
  BY DEF PagesInv, PagesBounds
<1>5. books \in Seq(Entry) /\ DOMAIN books = 1 .. Len(books) /\ Len(books) \in Nat
  BY <1>4, LenProperties DEF ListOK
<1>6. PICK s2 : s2 = books'
  OBVIOUS
<1>7. PICK i \in DOMAIN s2 : u = s2[i].data.book
  BY <1>6 DEF Pages!Live
<1>8. \A l \in 1 .. Len(books) : books[l].data.book # u
  BY <1>5 DEF Pages!Live
<1>9. CASE m.op = "add" /\ AddsTo(books, m, books')
  <2>1. PICK a \in 0 .. MaxClicks :
            s2 = Append(books, [id |-> a, data |-> [book |-> m.click, click |-> m.click]])
    BY <1>6, <1>9 DEF AddsTo
  <2>2. PICK e : e = [id |-> a, data |-> [book |-> m.click, click |-> m.click]]
    OBVIOUS
  <2>3. e \in Entry /\ e.data.book = m.click
    BY <1>3, <2>2 DEF Entry
  <2>4. PICK n : n = Len(books)
    OBVIOUS
  <2>5. /\ s2 \in Seq(Entry) /\ Len(s2) = n + 1 /\ s2[n + 1] = e
        /\ \A j \in 1 .. n : s2[j] = books[j]
        /\ n \in Nat
    BY <1>5, <2>1, <2>2, <2>3, <2>4, AppendProperties
  <2>6. i \in 1 .. n + 1
    BY <1>7, <2>5, LenProperties
  <2>7. i = n + 1
    BY <1>7, <1>8, <2>4, <2>5, <2>6
  <2> QED BY <1>3, <1>7, <1>9, <2>3, <2>5, <2>7
<1>10. ASSUME RemovesFrom(books, m, books')
       PROVE  FALSE
  <2>1. PICK j \in 1 .. Len(books) : s2 = RemoveAt(books, j)
    BY <1>6, <1>10 DEF RemovesFrom
  <2>2. /\ s2 \in Seq(Entry)
        /\ \A l \in 1 .. Len(s2) : \E o \in 1 .. Len(books) : o # j /\ s2[l] = books[o]
    <3>1. s2 \in Seq(Entry) /\ Others(s2, books, j)
      BY <1>5, <2>1, RemovedPlaces
    <3> QED BY <3>1 DEF Others
  <2>3. i \in 1 .. Len(s2)
    BY <1>7, <2>2, LenProperties
  <2> QED BY <1>7, <1>8, <2>2, <2>3
<1>11. ASSUME ChangesOf(books, m, books')
       PROVE  FALSE
  <2>1. PICK j \in 1 .. Len(books) : s2 = ChangeAt(books, j, m.click)
    BY <1>6, <1>11 DEF ChangesOf
  <2>2. /\ s2 \in Seq(Entry) /\ Len(s2) = Len(books)
        /\ \A l \in 1 .. Len(books) : s2[l].data.book = books[l].data.book
    BY <1>3, <1>5, <2>1, Changed
  <2>3. i \in 1 .. Len(s2)
    BY <1>7, <2>2, LenProperties
  <2> QED BY <1>7, <1>8, <2>2, <2>3
<1> QED BY <1>1, <1>3, <1>9, <1>10, <1>11, ApplyEffect

\* As long as the book whose row was clicked is in the list, a request reaches
\* it and no other, from however old a table and in whatever order the requests
\* are served: RequestsHitTheirBook for any number of browsers and of clicks.
THEOREM PagesHitTheirBook ==
    ASSUME PagesBounds
    PROVE  Pages!Spec => Pages!RequestsHitTheirBook
<1>1. Pages!Init => PagesInv
  BY PagesInitInv
<1>2. PagesInv /\ [Pages!Next]_(Pages!vars) => PagesInv'
  BY PagesNextInv
<1>3. PagesInv /\ [Pages!Next]_(Pages!vars) =>
          \A u \in Pages!Live : Pages!Written(books', u) # Pages!Written(books, u) =>
              \E p \in Pages!Consumed : \/ Pages!PostAt(p).seen = u
                                        \/ /\ Pages!PostAt(p).seen \notin Pages!Live
                                           /\ Pages!HasId(u, Pages!PostAt(p).id)
  BY StepHits
<1> QED BY <1>1, <1>2, <1>3, PTL DEF Pages!Spec, Pages!RequestsHitTheirBook

\* A removed book never returns: a book appears only for the POST that adds it.
THEOREM PagesGoneStaysGone ==
    ASSUME PagesBounds
    PROVE  Pages!Spec => Pages!GoneStaysGone
<1>1. Pages!Init => PagesInv
  BY PagesInitInv
<1>2. PagesInv /\ [Pages!Next]_(Pages!vars) => PagesInv'
  BY PagesNextInv
<1>3. PagesInv /\ [Pages!Next]_(Pages!vars) =>
          \A u \in Pages!Live' \ Pages!Live :
              \E p \in Pages!Consumed : Pages!PostAt(p).op = "add" /\ Pages!PostAt(p).click = u
  BY StepAdds
<1> QED BY <1>1, <1>2, <1>3, PTL DEF Pages!Spec, Pages!GoneStaysGone

-----------------------------------------------------------------------------
(* The list under the pages.                                               *)

\* The POST that is served is an outcome of analyzePost.
LEMMA ServedIsListStep ==
    ASSUME PagesBounds, PagesInv, NEW b \in Browsers, NEW k \in Slots, Pages!ServePost(b, k)
    PROVE  Pages!Server!Next
<1>1. PICK m : m = xhr[b][k].post
  OBVIOUS
<1>2. Pages!Apply(m)
  BY <1>1 DEF Pages!ServePost
<1>3. m \in Pages!Posts
  <2>1. XhrMeans(xhr[b][k], books, AddsOf(xhr), clicks)
    BY OneOf
  <2> QED BY <1>1, <2>1 DEF Pages!ServePost, XhrMeans, Pages!XhrOK, Pages!Free, Pages!SentGet, Pages!Done
<1>4. m.click \in Pages!Clicks /\ (m.op # "add" => m.id \in 0 .. MaxClicks)
  BY <1>3 DEF Pages!Posts, Pages!Ids, Pages!Clicks
<1>5. \A u \in Pages!Clicks : [book |-> u, click |-> m.click] \in Pages!Data
  BY <1>4 DEF Pages!Data
<1>6. CASE m.op = "add" /\ Pages!Server!AddBook([book |-> m.click, click |-> m.click])
  BY <1>4, <1>5, <1>6 DEF Pages!Server!Next
<1>7. CASE m.op # "add" /\ (Pages!Server!RemoveBook(m.id) \/ Pages!Server!UnknownId(m.id))
  BY <1>4, <1>7 DEF Pages!Server!Next
<1>8. CASE /\ m.op # "add" /\ m.id \in Pages!Server!Ids
           /\ Pages!Server!ChangeBook(m.id, [book |-> Pages!BookOf(m.id), click |-> m.click])
  <2>1. books \in Seq(Entry) /\ DOMAIN books = 1 .. Len(books)
    BY LenProperties DEF PagesInv, ListOK
  <2>2. \E j \in DOMAIN books : books[j].id = m.id
    BY <1>8, <2>1 DEF Pages!Server!Ids, Pages!Server!IdsOf
  <2>3. PICK j \in DOMAIN books : j = CHOOSE i \in DOMAIN books : books[i].id = m.id
    BY <2>2
  <2>4. Pages!BookOf(m.id) = books[j].data.book
    BY <2>3 DEF Pages!BookOf
  <2>5. books[j].data.book \in Pages!Clicks
    BY <2>1, EntryAt DEF Pages!Clicks
  <2> QED BY <1>4, <1>5, <1>8, <2>4, <2>5 DEF Pages!Server!Next
<1> QED BY <1>2, <1>6, <1>7, <1>8 DEF Pages!Apply

\* The list that the pages' requests reach, in whatever order and however late,
\* goes through the steps of BookList: what holds of every list holds of it.
THEOREM PagesServe ==
    ASSUME PagesBounds
    PROVE  Pages!Spec => Pages!Server!Spec
<1>1. Pages!Init => PagesInv /\ Pages!Server!Init
  BY PagesInitInv DEF Pages!Init
<1>2. PagesInv /\ [Pages!Next]_(Pages!vars) => PagesInv'
  BY PagesNextInv
<1>3. PagesInv /\ [Pages!Next]_(Pages!vars) => [Pages!Server!Next]_books
  BY OnlyServePost, ServedIsListStep
<1> QED BY <1>1, <1>2, <1>3, PTL DEF Pages!Spec, Pages!Server!Spec

\* So its ids increase, and no two of its books have the same: the id in a row
\* of any page names one book at most.
THEOREM PagesUniqueIds ==
    ASSUME PagesBounds
    PROVE  Pages!Spec => [](Pages!Server!IdsIncreasing /\ Pages!Server!UniqueIds)
<1>1. Pages!Init => PagesInv
  BY PagesInitInv
<1>2. PagesInv /\ [Pages!Next]_(Pages!vars) => PagesInv'
  BY PagesNextInv
<1>3. PagesInv => Pages!Server!IdsIncreasing /\ Pages!Server!UniqueIds
  <2> SUFFICES ASSUME PagesInv PROVE Pages!Server!IdsIncreasing /\ Pages!Server!UniqueIds
    OBVIOUS
  <2>1. /\ books \in Seq(Entry)
        /\ \A j, k \in 1 .. Len(books) : j < k => books[j].id < books[k].id
    BY DEF PagesInv, ListOK
  <2>2. Pages!Server!IdsIncreasing
    BY <2>1 DEF Pages!Server!IdsIncreasing, Pages!Server!Places
  <2>3. ASSUME NEW j \in 1 .. Len(books), NEW k \in 1 .. Len(books), books[j].id = books[k].id
        PROVE  j = k
    <3>1. books[j].id \in Int /\ j \in Nat
      BY <2>1, EntryAt
    <3>2. books[k].id \in Int /\ k \in Nat
      BY <2>1, EntryAt
    <3>3. ~ (j < k) /\ ~ (k < j)
      BY <2>1, <2>3, <3>1, <3>2
    <3> QED BY <3>1, <3>2, <3>3
  <2> QED BY <2>2, <2>3 DEF Pages!Server!UniqueIds, Pages!Server!Places
<1> QED BY <1>1, <1>2, <1>3, PTL DEF Pages!Spec
=============================================================================
