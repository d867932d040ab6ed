---------------------------- MODULE HibernateStore ----------------------------
(***************************************************************************)
(* The books of Practise 9 and 10: a PostgreSQL table behind Hibernate.    *)
(* Every POST is one transaction of Hibernate.applyTransaction, every list *)
(* one query of getListOfBooks, each in a session of its own on the thread *)
(* that serves the request.  Sessions share Hibernate's built-in pool of   *)
(* connections, configured with connection.pool_size 1.                    *)
(*                                                                         *)
(* Hibernate 5.4, its pool and PostgreSQL (READ COMMITTED) lie outside the *)
(* repository and are modelled by what the code gets from them: the pool   *)
(* refuses when it is empty, a session keeps its connection until it is    *)
(* closed, save inserts at once to learn the id, update and delete reach   *)
(* the table inside commit, and fail there when the row is gone.           *)
(***************************************************************************)
EXTENDS Integers, FiniteSets

CONSTANTS
    Threads,    \* one per connection: it serves one request
    Earlier,    \* the data of a book stored by an earlier run
    MaxId,      \* bound: largest id of the identity column
    Named,      \* bound: the ids that requests name
    DbMax,      \* bound: connections the database allows
    MaxRestarts \* bound: times the server is stopped and started again

ASSUME ThreadsAssumption == IsFiniteSet(Threads) /\ Earlier \notin Threads
ASSUME BoundsAssumption == /\ MaxId \in Nat \ {0} /\ DbMax \in Nat \ {0}
                           /\ MaxRestarts \in Nat
                           /\ Named \subseteq 1 .. MaxId

VARIABLES
    pc,       \* where each thread is
    req,      \* the request it serves
    mine,     \* the id its insert was given, 0 before
    answer,   \* what it wrote to its client
    table,    \* the committed rows: their data by id
    nextId,   \* the sequence behind the identity column
    used,     \* history: the ids of all rows ever committed
    avail,    \* connections in the pool
    leaked,   \* connections of sessions that were never closed
    restarts

thread == <<pc, req, mine, answer>>
database == <<table, nextId, used>>
pool == <<avail, leaked>>
vars == <<thread, database, pool, restarts>>

Ids == 1 .. MaxId
\* A book's data is named by the request that brought it.
Data == Threads \union {Earlier}
Requests == [op : {"add", "list"}, id : {0}]
                \union [op : {"change", "remove"}, id : Named]
NoRequest == [op |-> "none", id |-> 0]

Labels == {"idle", "connect", "insert", "flush", "query", "commit", "close",
           "reply", "answered", "dead"}
Running(t) == pc[t] \notin {"idle", "answered", "dead"}
\* Sessions that hold a connection of the pool.
Holders == { t \in Threads : pc[t] \in {"insert", "flush", "query", "commit", "close"} }
Connections == avail + leaked + Cardinality(Holders)

TypeOK ==
    /\ pc \in [Threads -> Labels]
    /\ req \in [Threads -> Requests \union {NoRequest}]
    /\ mine \in [Threads -> 0 .. MaxId]
    /\ answer \in [Threads -> {"none", "done", "list"}]
    /\ table \in [DOMAIN table -> Data]
    /\ DOMAIN table \subseteq Ids
    /\ nextId \in 1 .. MaxId + 1
    /\ used \subseteq Ids
    /\ avail \in Nat /\ leaked \in Nat /\ restarts \in Nat

\* The table holds one book of an earlier run; the pool opens one connection.
Init ==
    /\ pc = [t \in Threads |-> "idle"]
    /\ req = [t \in Threads |-> NoRequest]
    /\ mine = [t \in Threads |-> 0]
    /\ answer = [t \in Threads |-> "none"]
    /\ table = [i \in {1} |-> Earlier] /\ used = {1}
    /\ nextId = 2
    /\ avail = 1 /\ leaked = 0 /\ restarts = 0

-----------------------------------------------------------------------------
Go(t, to) == pc' = [pc EXCEPT ![t] = to]

\* The accept loop gives a connection to a pool thread.
Accept(t, r) ==
    /\ pc[t] = "idle"
    /\ Go(t, "connect")
    /\ req' = [req EXCEPT ![t] = r]
    /\ UNCHANGED <<mine, answer, database, pool, restarts>>

\* beginTransaction, or the query of a list, takes a connection.  An empty pool
\* throws; there is no session to leak a connection then, and no answer.
FirstStatement(op) == CASE op = "add" -> "insert"
                        [] op = "list" -> "query"
                        [] op \in {"change", "remove"} -> "flush"
Connect(t) ==
    /\ pc[t] = "connect"
    /\ IF avail > 0
       THEN Go(t, FirstStatement(req[t].op)) /\ avail' = avail - 1
       ELSE Go(t, "dead") /\ UNCHANGED avail
    /\ UNCHANGED <<req, mine, answer, database, leaked, restarts>>

\* Two mutants of Insert: the new book does not learn its id, or the id is one
\* more than the largest in the table, as in Practise 8.
Insert_IdUnknown(t) ==
    /\ pc[t] = "insert"
    /\ nextId <= MaxId
    /\ Go(t, "commit")
    /\ nextId' = nextId + 1
    /\ UNCHANGED <<req, mine, answer, table, used, pool, restarts>>
Insert_MaxPlusOne(t) ==
    /\ pc[t] = "insert"
    /\ \E i \in Ids :
          /\ i = IF DOMAIN table = {} THEN 1
                 ELSE 1 + CHOOSE m \in DOMAIN table : \A j \in DOMAIN table : j <= m
          /\ mine' = [mine EXCEPT ![t] = i]
    /\ Go(t, "commit")
    /\ UNCHANGED <<req, answer, database, pool, restarts>>

\* session.save(book): the row is inserted, seen by nobody yet.
Insert(t) ==
    /\ pc[t] = "insert"
    /\ nextId <= MaxId
    /\ Go(t, "commit")
    /\ mine' = [mine EXCEPT ![t] = nextId]
    /\ nextId' = nextId + 1
    /\ UNCHANGED <<req, answer, table, used, pool, restarts>>

\* A row is locked from the statement that touches it to its transaction's end.
LockedByAnother(t, i) ==
    \E u \in Threads \ {t} : /\ pc[u] = "commit"
                             /\ req[u].op \in {"change", "remove"}
                             /\ req[u].id = i

\* A mutant of Flush: it waits for a row that is gone.
Flush_Waits(t) ==
    /\ pc[t] = "flush"
    /\ ~ LockedByAnother(t, req[t].id)
    /\ req[t].id \in DOMAIN table
    /\ Go(t, "commit")
    /\ UNCHANGED <<req, mine, answer, database, pool, restarts>>

\* commit() sends the update or delete.  It waits for the row's lock; if the
\* row is gone it rolls back and throws, past session.close(), so the session
\* keeps its connection for ever.
Flush(t) ==
    /\ pc[t] = "flush"
    /\ ~ LockedByAnother(t, req[t].id)
    /\ IF req[t].id \in DOMAIN table
       THEN Go(t, "commit") /\ UNCHANGED leaked
       ELSE Go(t, "dead") /\ leaked' = leaked + 1
    /\ UNCHANGED <<req, mine, answer, database, avail, restarts>>

\* A mutant of Commit: the update has no condition on the id.
Commit_AllRows(t) ==
    /\ pc[t] = "commit"
    /\ Go(t, "close")
    /\ \/ /\ req[t].op = "add"
          /\ table' = [i \in DOMAIN table \union {mine[t]} |->
                          IF i = mine[t] THEN t ELSE table[i]]
          /\ used' = used \union {mine[t]}
       \/ /\ req[t].op = "change"
          /\ table' = [i \in DOMAIN table |-> t]
          /\ UNCHANGED used
       \/ /\ req[t].op = "remove"
          /\ table' = [i \in DOMAIN table \ {req[t].id} |-> table[i]]
          /\ UNCHANGED used
    /\ UNCHANGED <<req, mine, answer, nextId, pool, restarts>>

\* The transaction ends and its effect becomes visible.
Commit(t) ==
    /\ pc[t] = "commit"
    /\ Go(t, "close")
    /\ \/ /\ req[t].op = "add"
          /\ table' = [i \in DOMAIN table \union {mine[t]} |->
                          IF i = mine[t] THEN t ELSE table[i]]
          /\ used' = used \union {mine[t]}
       \/ /\ req[t].op = "change"
          /\ table' = [table EXCEPT ![req[t].id] = t]
          /\ UNCHANGED used
       \/ /\ req[t].op = "remove"
          /\ table' = [i \in DOMAIN table \ {req[t].id} |-> table[i]]
          /\ UNCHANGED used
    /\ UNCHANGED <<req, mine, answer, nextId, pool, restarts>>

\* A mutant of Query: the list is answered without session.close().
Query_NotClosed(t) ==
    /\ pc[t] = "query"
    /\ Go(t, "reply")
    /\ leaked' = leaked + 1
    /\ UNCHANGED <<req, mine, answer, database, avail, restarts>>

\* query.getResultList(): the rows committed by now.
Query(t) ==
    /\ pc[t] = "query"
    /\ Go(t, "close")
    /\ UNCHANGED <<req, mine, answer, database, pool, restarts>>

\* A mutant of Close: session.close() is forgotten.
Close_Forgotten(t) ==
    /\ pc[t] = "close"
    /\ Go(t, "reply")
    /\ leaked' = leaked + 1
    /\ UNCHANGED <<req, mine, answer, database, avail, restarts>>

\* session.close() gives the connection back.
Close(t) ==
    /\ pc[t] = "close"
    /\ Go(t, "reply")
    /\ avail' = avail + 1
    /\ UNCHANGED <<req, mine, answer, database, leaked, restarts>>

Reply(t) ==
    /\ pc[t] = "reply"
    /\ Go(t, "answered")
    /\ answer' = [answer EXCEPT ![t] = IF req[t].op = "list" THEN "list" ELSE "done"]
    /\ UNCHANGED <<req, mine, database, pool, restarts>>

\* Every 30 seconds the pool opens a connection if it has none to give, and
\* closes those it has beyond one.
Validate ==
    /\ \/ avail = 0 /\ Connections < DbMax /\ avail' = 1
       \/ avail > 1 /\ avail' = 1
    /\ UNCHANGED <<thread, database, leaked, restarts>>

\* A mutant of Restart: the schema is created anew (hbm2ddl.auto = create).
Restart_Create ==
    /\ restarts < MaxRestarts
    /\ restarts' = restarts + 1
    /\ pc' = [t \in Threads |-> IF Running(t) THEN "dead" ELSE pc[t]]
    /\ avail' = 1 /\ leaked' = 0
    /\ table' = [i \in {} |-> Earlier]
    /\ UNCHANGED <<req, mine, answer, nextId, used>>

\* The server process is stopped and started: the database rolls back what was
\* not committed and keeps the rest, the clients being served get no answer.
Restart ==
    /\ restarts < MaxRestarts
    /\ restarts' = restarts + 1
    /\ pc' = [t \in Threads |-> IF Running(t) THEN "dead" ELSE pc[t]]
    /\ avail' = 1 /\ leaked' = 0
    /\ UNCHANGED <<req, mine, answer, database>>

Step(t) == \/ Connect(t) \/ Insert(t) \/ Flush(t) \/ Commit(t)
           \/ Query(t) \/ Close(t) \/ Reply(t)

Next == \/ \E t \in Threads : Step(t) \/ \E r \in Requests : Accept(t, r)
        \/ Validate
        \/ Restart

Spec == Init /\ [][Next]_vars

\* The threads run.
FairSpec == Spec /\ \A t \in Threads : WF_vars(Step(t))

-----------------------------------------------------------------------------
\* A client that was told "done" can rely on it, whatever other clients do and
\* however often the server restarts: its new book is there unless somebody
\* asked for its removal, the book it changed has its data or that of another
\* change, and the book it removed never comes back.
Wants(u, op, i) == req[u].op = op /\ req[u].id = i
DoneIsDurable ==
    \A t \in Threads : answer[t] = "done" =>
        /\ req[t].op = "add" =>
              mine[t] \in DOMAIN table \/ \E u \in Threads : Wants(u, "remove", mine[t])
        /\ req[t].op = "change" /\ req[t].id \in DOMAIN table =>
              \E u \in Threads : table[req[t].id] = u /\ Wants(u, "change", req[t].id)
        /\ req[t].op = "remove" => req[t].id \notin DOMAIN table

\* An id names one book for ever: a row that becomes visible has an id no
\* committed row ever had, so a client with an old list cannot reach another
\* book by the id of a removed one.
NeverReborn == [][DOMAIN table' \ DOMAIN table \subseteq Ids \ used]_vars

\* Every request that is accepted comes to an end: sessions wait for each
\* other's rows, never in a circle.
Terminates == \A t \in Threads : Running(t) ~> ~Running(t)

\* A connection is lost only to a change or removal whose book is gone, or was
\* not there yet, one for each at most: no other request, however it ends, costs
\* the pool a connection beyond its own time, and no more are open than the
\* database allows.
FailedForNoBook ==
    { t \in Threads : /\ pc[t] = "dead"
                      /\ req[t].op \in {"change", "remove"}
                      /\ \/ req[t].id \notin DOMAIN table
                         \/ \E u \in Threads : mine[u] = req[t].id }
LeaksOnlyForNoBook ==
    /\ leaked <= Cardinality(FailedForNoBook)
    /\ Connections <= DbMax

\* A pool of one refuses, and a refused request gets no answer: but only while
\* another request is in its session, or after a commit that failed.  Whoever
\* comes alone to a server that has had no such commit is served.
RefusedOnlyInCompany ==
    [][\A t \in Threads : pc[t] = "connect" /\ pc'[t] = "dead" =>
          Holders # {} \/ FailedForNoBook # {} \/ restarts' # restarts]_vars

Catalog == INSTANCE BookCatalog WITH Id <- Ids, catalog <- table

\* The table is a catalogue, and each transaction one step of it.
IsCatalog == Catalog!Spec
=============================================================================
