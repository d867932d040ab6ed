----------------------------- MODULE BookCatalog -----------------------------
(***************************************************************************)
(* What a book service promises its clients, whatever keeps the books (the *)
(* static ArrayList of Practise 8, the PostgreSQL table of Practise 9 and  *)
(* 10): a catalogue of books by id.  A request gives a new book an id no   *)
(* live book has, replaces the data of one live book, or removes one; no   *)
(* request does anything to a book it does not name.                       *)
(***************************************************************************)
CONSTANTS Id,    \* the ids a book can have
          Data   \* what a book holds beside its id

VARIABLE catalog \* the live books: a function from their ids to their data

TypeOK == /\ catalog = [i \in DOMAIN catalog |-> catalog[i]]
          /\ DOMAIN catalog \subseteq Id
          /\ \A i \in DOMAIN catalog : catalog[i] \in Data

\* The service starts with whatever books it is given.
Init == TypeOK

Add(i, d) ==
    /\ i \notin DOMAIN catalog
    /\ catalog' = [j \in DOMAIN catalog \union {i} |->
                      IF j = i THEN d ELSE catalog[j]]

Change(i, d) ==
    /\ i \in DOMAIN catalog
    /\ catalog' = [catalog EXCEPT ![i] = d]

Remove(i) ==
    /\ i \in DOMAIN catalog
    /\ catalog' = [j \in DOMAIN catalog \ {i} |-> catalog[j]]

Next == \E i \in Id : \/ Remove(i)
                      \/ \E d \in Data : Add(i, d) \/ Change(i, d)

Spec == Init /\ [][Next]_catalog
=============================================================================
