------------------------- MODULE HibernateStoreProofs -------------------------
(***************************************************************************)
(* Proofs about HibernateStore, for every set of threads and all bounds:   *)
(* an id names one book for ever, what was answered "done" lasts, the      *)
(* table implements BookCatalog, and no transactions wait for each other.  *)
(***************************************************************************)
EXTENDS HibernateStore, FiniteSetTheorems, TLAPS

\* The sequence is ahead of every id it gave out; no two threads were given
\* the same one, and none that is still to be committed was ever in the table.
IdsFresh ==
    /\ DOMAIN table \subseteq used
    /\ \A i \in used : i < nextId
    /\ \A t \in Threads : mine[t] < nextId
    /\ \A t, u \in Threads : t # u /\ mine[t] = mine[u] => mine[t] = 0
    /\ \A t \in Threads : pc[t] = "commit" /\ req[t].op = "add" =>
          mine[t] # 0 /\ mine[t] \notin used

\* Where a thread is tells what its request is.
OpAtLabel ==
    \A t \in Threads :
        /\ pc[t] = "idle" => req[t] = NoRequest
        /\ pc[t] = "insert" => req[t].op = "add"
        /\ pc[t] = "flush" => req[t].op \in {"change", "remove"}
        /\ pc[t] = "query" => req[t].op = "list"
        /\ pc[t] = "commit" => req[t].op \in {"add", "change", "remove"}
        /\ answer[t] = "done" => pc[t] = "answered" /\ req[t].op # "list"
        /\ pc[t] = "connect" => req[t] \in Requests

\* Transactions that are about to commit touch different rows.
RowsApart ==
    \A t, u \in Threads : t # u /\ pc[t] = "commit" /\ pc[u] = "commit" =>
        /\ req[t].op = "add" /\ req[u].op = "add" => mine[t] # mine[u]
        /\ req[t].op # "add" /\ req[u].op # "add" => req[t].id # req[u].id

\* A transaction that has found its row keeps it until it commits.
RowHeld ==
    \A t \in Threads : pc[t] = "commit" /\ req[t].op # "add" =>
        req[t].id \in DOMAIN table

\* What DoneIsDurable promises holds from the commit on.
Committed(t) == pc[t] \in {"close", "reply", "answered"}
Kept(t) ==
    /\ req[t].op = "add" =>
          mine[t] \in DOMAIN table \/ \E u \in Threads : Wants(u, "remove", mine[t])
    /\ req[t].op = "change" =>
          /\ req[t].id \in used
          /\ req[t].id \in DOMAIN table =>
                \E u \in Threads : /\ table[req[t].id] = u
                                   /\ Wants(u, "change", req[t].id)
    /\ req[t].op = "remove" => req[t].id \in used \ DOMAIN table
Durable == \A t \in Threads : Committed(t) => Kept(t)

Inv == TypeOK /\ IdsFresh /\ OpAtLabel /\ RowsApart /\ RowHeld /\ Durable

-----------------------------------------------------------------------------
\* An id is a number and never the 0 of a row without one.
LEMMA IdsAreInts ==
    /\ Ids \subseteq Int
    /\ \A i \in Ids : i # 0
BY BoundsAssumption DEF Ids

\* One stored book, an idle server.
LEMMA InitInv == Init => Inv
<1> SUFFICES ASSUME Init PROVE Inv
  OBVIOUS
<1> USE BoundsAssumption, ThreadsAssumption
<1>1. TypeOK
  BY DEF Init, TypeOK, Labels, Data, Ids
<1>2. IdsFresh /\ OpAtLabel /\ RowsApart /\ RowHeld /\ Durable
  BY DEF Init, IdsFresh, OpAtLabel, RowsApart, RowHeld, Durable, Committed
<1> QED BY <1>1, <1>2 DEF Inv

\* A request is accepted once, so what other threads want stays wanted.
LEMMA AcceptKeepsInv ==
    ASSUME Inv, NEW t \in Threads, NEW r \in Requests, Accept(t, r)
    PROVE  Inv'
<1> USE DEF Inv
<1>1. /\ pc[t] = "idle" /\ req[t] = NoRequest
      /\ pc' = [pc EXCEPT ![t] = "connect"]
      /\ req' = [req EXCEPT ![t] = r]
      /\ UNCHANGED <<mine, answer, table, nextId, used, avail, leaked, restarts>>
  BY DEF Accept, Go, database, pool, OpAtLabel
<1>2. TypeOK'
  BY <1>1 DEF TypeOK, Labels
<1>3. IdsFresh'
  BY <1>1 DEF IdsFresh, TypeOK
<1>4. OpAtLabel'
  BY <1>1 DEF OpAtLabel, TypeOK
<1>5. RowsApart' /\ RowHeld'
  BY <1>1 DEF RowsApart, RowHeld, TypeOK
<1>6. ASSUME NEW u \in Threads, Committed(u)' PROVE Kept(u)'
  <2>1. u # t /\ Committed(u) /\ req'[u] = req[u]
    BY <1>1, <1>6 DEF Committed, TypeOK
  <2>2. ASSUME NEW v \in Threads, NEW op \in {"change", "remove"}, NEW i, Wants(v, op, i)
        PROVE  Wants(v, op, i)'
    BY <1>1, <2>2 DEF Wants, NoRequest, TypeOK
  <2> QED BY <1>1, <2>1, <2>2 DEF Durable, Kept
<1> QED BY <1>2, <1>3, <1>4, <1>5, <1>6 DEF Durable

\* Steps that only move a thread, past no commit, keep everything else.
LEMMA MovesKeepInv ==
    ASSUME Inv, NEW t \in Threads, Connect(t) \/ Query(t) \/ Close(t) \/ Reply(t)
    PROVE  Inv'
<1> USE DEF Inv
<1>1. UNCHANGED <<req, mine, table, nextId, used, restarts>>
  BY DEF Connect, Query, Close, Reply, database, pool
<1>2. PICK l \in Labels : pc' = [pc EXCEPT ![t] = l]
  BY DEF Connect, Query, Close, Reply, Go, Labels, FirstStatement, OpAtLabel, Requests
<1>3. pc[t] \in {"connect", "query", "close", "reply"}
  BY DEF Connect, Query, Close, Reply
<1>4. l # "commit" /\ l # "idle"
  BY <1>2, <1>3 DEF Connect, Query, Close, Reply, Go, FirstStatement, TypeOK, OpAtLabel, Requests
<1>5. answer' \in [Threads -> {"none", "done", "list"}]
  BY DEF Connect, Query, Close, Reply, TypeOK
<1>6. avail' \in Nat /\ leaked' \in Nat
  BY DEF Connect, Query, Close, Reply, pool, TypeOK
<1>7. TypeOK'
  BY <1>1, <1>2, <1>5, <1>6 DEF TypeOK
<1>8. IdsFresh'
  BY <1>1, <1>2, <1>4 DEF IdsFresh, TypeOK
<1>9. RowsApart' /\ RowHeld'
  BY <1>1, <1>2, <1>4 DEF RowsApart, RowHeld, TypeOK
<1>10. OpAtLabel'
  BY <1>1, <1>2, <1>3, <1>4 DEF OpAtLabel, TypeOK, Connect, Query, Close, Reply, Go,
     FirstStatement, Requests
<1>11. Durable'
  <2> SUFFICES ASSUME NEW u \in Threads, Committed(u)' PROVE Kept(u)
    BY <1>1 DEF Durable, Kept, Wants
  <2>1. CASE Committed(u)
    BY <2>1 DEF Durable
  <2>2. CASE ~ Committed(u)
    <3>1. u = t /\ pc[t] = "query"
      <4>1. u = t
        BY <1>2, <2>2 DEF Committed, TypeOK
      <4>2. pc[t] \in {"connect", "query"}
        BY <1>3, <2>2, <4>1 DEF Committed
      <4>3. pc[t] = "connect" => pc'[t] \in {"insert", "query", "flush", "dead"}
        BY DEF Connect, Query, Close, Reply, Go, FirstStatement, OpAtLabel, Requests, TypeOK
      <4> QED BY <4>1, <4>2, <4>3 DEF Committed
    <3> QED BY <3>1 DEF OpAtLabel, Kept
  <2> QED BY <2>1, <2>2
<1> QED BY <1>7, <1>8, <1>9, <1>10, <1>11

\* A new row's id is the next one of the sequence.
LEMMA InsertKeepsInv == ASSUME Inv, NEW t \in Threads, Insert(t) PROVE Inv'
<1> USE BoundsAssumption DEF Inv
<1>1. /\ pc[t] = "insert" /\ req[t].op = "add"
      /\ pc' = [pc EXCEPT ![t] = "commit"]
      /\ mine' = [mine EXCEPT ![t] = nextId]
      /\ nextId' = nextId + 1 /\ nextId \in 1 .. MaxId
      /\ UNCHANGED <<req, answer, table, used, avail, leaked, restarts>>
  BY DEF Insert, Go, pool, OpAtLabel, TypeOK
<1>2. TypeOK'
  BY <1>1 DEF TypeOK, Labels
<1>3. \A u \in Threads : mine[u] \in Int
  BY DEF TypeOK
<1>4. \A i \in used : i \in Int
  BY IdsAreInts DEF TypeOK
<1>5. /\ \A u \in Threads : mine'[u] = IF u = t THEN nextId ELSE mine[u]
      /\ \A u \in Threads : pc'[u] = IF u = t THEN "commit" ELSE pc[u]
  BY <1>1 DEF TypeOK
<1>6. IdsFresh'
  BY <1>1, <1>3, <1>4, <1>5 DEF IdsFresh
<1>7. OpAtLabel'
  BY <1>1, <1>5 DEF OpAtLabel
<1>8. RowsApart' /\ RowHeld'
  <2>1. \A u \in Threads : u # t => mine[u] # nextId
    BY <1>1, <1>3 DEF IdsFresh
  <2> QED BY <1>1, <1>5, <2>1 DEF RowsApart, RowHeld
<1>9. Durable'
  BY <1>1, <1>5 DEF Durable, Committed, Kept, Wants
<1> QED BY <1>2, <1>6, <1>7, <1>8, <1>9

\* A statement that finds its row locks it; one that does not is rolled back.
LEMMA FlushKeepsInv == ASSUME Inv, NEW t \in Threads, Flush(t) PROVE Inv'
<1> USE DEF Inv
<1>1. /\ pc[t] = "flush" /\ req[t].op \in {"change", "remove"}
      /\ UNCHANGED <<req, mine, answer, table, nextId, used, avail, restarts>>
      /\ leaked' \in Nat
  BY DEF Flush, database, OpAtLabel, TypeOK
<1>2. \/ pc' = [pc EXCEPT ![t] = "dead"]
      \/ pc' = [pc EXCEPT ![t] = "commit"] /\ req[t].id \in DOMAIN table
  BY DEF Flush, Go
<1>3. \A u \in Threads : u # t => pc'[u] = pc[u]
  BY <1>2 DEF TypeOK
<1>4. pc'[t] \in {"dead", "commit"} /\ (pc'[t] = "commit" => req[t].id \in DOMAIN table)
  BY <1>2 DEF TypeOK
<1>5. TypeOK'
  BY <1>1, <1>2 DEF TypeOK, Labels
<1>6. IdsFresh' /\ OpAtLabel' /\ RowHeld'
  BY <1>1, <1>3, <1>4 DEF IdsFresh, OpAtLabel, RowHeld
<1>7. RowsApart'
  <2>1. \A u \in Threads : u # t /\ pc[u] = "commit" /\ req[u].op # "add" =>
                              req[u].id # req[t].id
    BY DEF Flush, LockedByAnother, OpAtLabel
  <2> QED BY <1>1, <1>3, <1>4, <2>1 DEF RowsApart
<1>8. Durable'
  BY <1>1, <1>3, <1>4 DEF Durable, Committed, Kept, Wants
<1> QED BY <1>5, <1>6, <1>7, <1>8

\* The three effects of a commit.
LEMMA CommitAdd ==
    ASSUME Inv, NEW t \in Threads, Commit(t), req[t].op = "add"
    PROVE  /\ table' = [i \in DOMAIN table \union {mine[t]} |->
                           IF i = mine[t] THEN t ELSE table[i]]
           /\ DOMAIN table' = DOMAIN table \union {mine[t]}
           /\ used' = used \union {mine[t]}
           /\ mine[t] \in Ids /\ mine[t] \notin used /\ mine[t] \notin DOMAIN table
<1>1. mine[t] \in Ids /\ mine[t] \notin used /\ mine[t] \notin DOMAIN table
  BY DEF Inv, Commit, IdsFresh, TypeOK, Ids
<1>2. /\ table' = [i \in DOMAIN table \union {mine[t]} |-> IF i = mine[t] THEN t ELSE table[i]]
      /\ used' = used \union {mine[t]}
  BY DEF Commit
<1> QED BY <1>1, <1>2

\* Where the row that was added is, and that it is the only one.
LEMMA CommitAddRows ==
    ASSUME Inv, NEW t \in Threads, Commit(t), req[t].op = "add"
    PROVE  /\ DOMAIN table' = DOMAIN table \union {mine[t]}
           /\ used' = used \union {mine[t]}
           /\ mine[t] \in Ids /\ mine[t] \notin used /\ mine[t] \notin DOMAIN table
           /\ table'[mine[t]] = t
           /\ \A i \in DOMAIN table : table'[i] = table[i]
<1>1. mine[t] \notin DOMAIN table
  BY CommitAdd
<1>2. table' = [i \in DOMAIN table \union {mine[t]} |-> IF i = mine[t] THEN t ELSE table[i]]
  BY CommitAdd
<1>3. DOMAIN table' = DOMAIN table \union {mine[t]}
  BY <1>2
<1>4. table'[mine[t]] = t /\ \A i \in DOMAIN table : table'[i] = table[i]
  BY <1>1, <1>2
<1>5. used' = used \union {mine[t]} /\ mine[t] \in Ids /\ mine[t] \notin used
  BY CommitAdd
<1> QED BY <1>1, <1>3, <1>4, <1>5

\* An update leaves the set of rows alone.
LEMMA CommitChange ==
    ASSUME Inv, NEW t \in Threads, Commit(t), req[t].op = "change"
    PROVE  /\ table' = [table EXCEPT ![req[t].id] = t]
           /\ DOMAIN table' = DOMAIN table
           /\ used' = used
           /\ req[t].id \in DOMAIN table
BY DEF Inv, Commit, RowHeld

\* A delete takes one row out.
LEMMA CommitRemove ==
    ASSUME Inv, NEW t \in Threads, Commit(t), req[t].op = "remove"
    PROVE  /\ table' = [i \in DOMAIN table \ {req[t].id} |-> table[i]]
           /\ DOMAIN table' = DOMAIN table \ {req[t].id}
           /\ used' = used
           /\ req[t].id \in DOMAIN table
BY DEF Inv, Commit, RowHeld

\* A commit touches its own row only, which no other transaction holds.
LEMMA CommitKeepsInv == ASSUME Inv, NEW t \in Threads, Commit(t) PROVE Inv'
<1> USE DEF Inv
<1>1. /\ pc[t] = "commit" /\ req[t].op \in {"add", "change", "remove"}
      /\ pc' = [pc EXCEPT ![t] = "close"]
      /\ UNCHANGED <<req, mine, answer, nextId, avail, leaked, restarts>>
  BY DEF Commit, Go, pool
<1>2. \A u \in Threads : pc'[u] = IF u = t THEN "close" ELSE pc[u]
  BY <1>1 DEF TypeOK
<1>3. /\ used \subseteq used'
      /\ DOMAIN table' \subseteq DOMAIN table \union (used' \ used)
      /\ used' \subseteq used \union {mine[t]}
      /\ used' # used => req[t].op = "add"
      /\ \A i \in DOMAIN table : i \in DOMAIN table' \/ (req[t].op = "remove" /\ i = req[t].id)
  <2>1. CASE req[t].op = "add"
    <3>1. mine[t] \notin used
      BY <2>1, CommitAddRows
    <3>2. DOMAIN table' = DOMAIN table \union {mine[t]}
      BY <2>1, CommitAddRows
    <3>3. used' = used \union {mine[t]}
      BY <2>1, CommitAddRows
    <3> QED BY <2>1, <3>1, <3>2, <3>3
  <2>2. CASE req[t].op = "change"
    BY <2>2, CommitChange
  <2>3. CASE req[t].op = "remove"
    BY <2>3, CommitRemove
  <2> QED BY <1>1, <2>1, <2>2, <2>3
<1>4. \A i \in DOMAIN table : i \in DOMAIN table' \/ (req[t].op = "remove" /\ i = req[t].id)
  BY <1>3
<1>5. \A i \in DOMAIN table \intersect DOMAIN table' :
          table'[i] = table[i] \/ (table'[i] = t /\ Wants(t, "change", i))
  BY <1>1, CommitAdd, CommitChange, CommitRemove DEF Wants
<1>6. TypeOK'
  <2>1. table' \in [DOMAIN table' -> Data] /\ DOMAIN table' \subseteq Ids /\ used' \subseteq Ids
    <3>1. CASE req[t].op = "add"
      <4>1. \A i \in DOMAIN table : table[i] \in Data
        BY DEF TypeOK
      <4>2. mine[t] \in Ids /\ DOMAIN table' = DOMAIN table \union {mine[t]}
        BY <3>1, CommitAddRows
      <4>3. used' = used \union {mine[t]}
        BY <3>1, CommitAddRows
      <4>4. table'[mine[t]] = t /\ \A i \in DOMAIN table : table'[i] = table[i]
        BY <3>1, CommitAddRows
      <4>5. \A i \in DOMAIN table' : table'[i] \in Data
        BY <4>1, <4>2, <4>4 DEF Data
      <4>6. DOMAIN table' \subseteq Ids /\ used' \subseteq Ids
        BY <4>2, <4>3 DEF TypeOK
      <4>7. table' = [i \in DOMAIN table' |-> table'[i]]
        BY <3>1, CommitAdd
      <4> QED BY <4>5, <4>6, <4>7
    <3>2. CASE req[t].op = "change"
      BY <3>2, CommitChange DEF TypeOK, Data
    <3>3. CASE req[t].op = "remove"
      BY <3>3, CommitRemove DEF TypeOK, Data
    <3> QED BY <1>1, <3>1, <3>2, <3>3
  <2>2. pc' \in [Threads -> Labels]
    BY <1>1 DEF TypeOK, Labels
  <2> QED BY <1>1, <2>1, <2>2 DEF TypeOK
<1>7. IdsFresh'
  <2>1. DOMAIN table' \subseteq used'
    BY <1>3 DEF IdsFresh
  <2>2. \A i \in used' : i < nextId'
    BY <1>1, <1>3 DEF IdsFresh
  <2>3. ASSUME NEW u \in Threads, pc'[u] = "commit", req[u].op = "add"
        PROVE  mine[u] # 0 /\ mine[u] \notin used'
    <3>1. u # t /\ mine[u] # 0 /\ mine[u] \notin used
      BY <1>2, <2>3 DEF IdsFresh
    <3> QED BY <1>3, <3>1 DEF IdsFresh
  <2> QED BY <1>1, <2>1, <2>2, <2>3 DEF IdsFresh
<1>8. OpAtLabel' /\ RowsApart'
  BY <1>1, <1>2 DEF OpAtLabel, RowsApart
<1>9. RowHeld'
  <2> SUFFICES ASSUME NEW u \in Threads, pc'[u] = "commit", req[u].op # "add"
               PROVE  req[u].id \in DOMAIN table'
    BY <1>1 DEF RowHeld
  <2>1. u # t /\ req[u].id \in DOMAIN table
    BY <1>2 DEF RowHeld
  <2> QED BY <1>1, <1>2, <1>4, <2>1 DEF RowsApart
<1>10. Durable'
  <2> SUFFICES ASSUME NEW u \in Threads, Committed(u)' PROVE Kept(u)'
    BY DEF Durable
  <2>1. CASE u = t
    <3>1. CASE req[t].op = "add"
      BY <1>1, <2>1, <3>1, CommitAdd DEF Kept
    <3>2. CASE req[t].op = "change"
      BY <1>1, <2>1, <3>2, CommitChange DEF Kept, Wants, IdsFresh
    <3>3. CASE req[t].op = "remove"
      <4>1. req[t].id \in used' \ DOMAIN table'
        BY <3>3, CommitRemove DEF IdsFresh
      <4> QED BY <1>1, <2>1, <3>3, <4>1 DEF Kept
    <3> QED BY <1>1, <3>1, <3>2, <3>3
  <2>2. CASE u # t
    <3>1. Kept(u) /\ req'[u] = req[u] /\ mine'[u] = mine[u]
      BY <1>1, <1>2, <2>2 DEF Committed, Durable
    <3>2. req[u].op = "add" => Kept(u)'
      BY <1>1, <1>4, <3>1 DEF Kept, Wants
    <3>3. req[u].op = "change" => Kept(u)'
      <4> SUFFICES ASSUME req[u].op = "change", req[u].id \in DOMAIN table'
                   PROVE  \E v \in Threads : /\ table'[req[u].id] = v
                                             /\ Wants(v, "change", req[u].id)
        BY <1>1, <1>3, <3>1 DEF Kept, Wants
      <4>1. req[u].id \in DOMAIN table
        BY <1>3, <3>1 DEF Kept
      <4> QED BY <1>5, <3>1, <4>1 DEF Kept
    <3>4. req[u].op = "remove" => Kept(u)'
      BY <1>3, <3>1 DEF Kept
    <3> QED BY <1>1, <3>2, <3>3, <3>4 DEF Kept
  <2> QED BY <2>1, <2>2
<1> QED BY <1>6, <1>7, <1>8, <1>9, <1>10

\* A restart loses the threads and nothing that was committed.
LEMMA RestartKeepsInv == ASSUME Inv, Restart PROVE Inv'
<1> USE DEF Inv
<1>1. /\ UNCHANGED <<req, mine, answer, table, nextId, used>>
      /\ restarts' \in Nat /\ avail' \in Nat /\ leaked' \in Nat
  BY DEF Restart, database, TypeOK
<1>2. \A t \in Threads : pc'[t] = IF Running(t) THEN "dead" ELSE pc[t]
  BY DEF Restart
<1>3. pc' \in [Threads -> Labels]
  BY DEF Restart, TypeOK, Labels
<1>4. TypeOK'
  BY <1>1, <1>3 DEF TypeOK
<1>5. IdsFresh' /\ RowsApart' /\ RowHeld' /\ OpAtLabel'
  BY <1>1, <1>2 DEF Running, IdsFresh, RowsApart, RowHeld, OpAtLabel
<1>6. Durable'
  BY <1>1, <1>2 DEF Running, Durable, Committed, Kept, Wants
<1> QED BY <1>4, <1>5, <1>6

\* The pool's timer touches nothing but the pool.
LEMMA ValidateKeepsInv == ASSUME Inv, Validate \/ UNCHANGED vars PROVE Inv'
<1>1. UNCHANGED <<pc, req, mine, answer, table, nextId, used, restarts>>
  BY DEF Validate, vars, thread, database
<1>2. avail' \in Nat /\ leaked' \in Nat
  BY DEF Inv, TypeOK, Validate, vars, pool
<1> QED BY <1>1, <1>2 DEF Inv, TypeOK, IdsFresh, RowsApart, RowHeld, OpAtLabel,
        Durable, Committed, Kept, Wants

\* Every step of every thread, of the pool and of the operator keeps Inv.
LEMMA NextInv == Inv /\ [Next]_vars => Inv'
<1> SUFFICES ASSUME Inv, [Next]_vars PROVE Inv'
  OBVIOUS
<1>1. ASSUME NEW t \in Threads, Step(t) PROVE Inv'
  BY <1>1, MovesKeepInv, InsertKeepsInv, FlushKeepsInv, CommitKeepsInv DEF Step
<1>2. ASSUME NEW t \in Threads, NEW r \in Requests, Accept(t, r) PROVE Inv'
  BY <1>2, AcceptKeepsInv
<1> QED BY <1>1, <1>2, RestartKeepsInv, ValidateKeepsInv DEF Next

\* The inductive invariant holds throughout.
LEMMA InvHolds == Spec => []Inv
BY InitInv, NextInv, PTL DEF Spec

-----------------------------------------------------------------------------
\* The variables keep their types.
THEOREM StoreTyped == Spec => []TypeOK
<1>1. Inv => TypeOK
  BY DEF Inv
<1> QED BY <1>1, InvHolds, PTL

\* What analyzePost answered "done" stays done, through every interleaving of
\* transactions and every restart of the server.
THEOREM StoreDurable == Spec => []DoneIsDurable
<1>1. Inv => DoneIsDurable
  <2> SUFFICES ASSUME Inv, NEW t \in Threads, answer[t] = "done"
               PROVE  Kept(t)
    BY DEF DoneIsDurable, Kept
  <2>1. Committed(t)
    BY DEF Inv, OpAtLabel, Committed
  <2> QED BY <2>1 DEF Inv, Durable
<1> QED BY <1>1, InvHolds, PTL

\* Only a commit changes the rows, and it adds at most a row with a fresh id.
LEMMA OnlyCommitsTouchRows ==
    ASSUME Inv, [Next]_vars, UNCHANGED table => FALSE
    PROVE  \E t \in Threads : Commit(t)
BY DEF Next, Step, Accept, Connect, Insert, Flush, Query, Close, Reply, Validate,
       Restart, database, vars

\* The id of a removed book is never given to another: the identity column of
\* Book does not repeat itself.
THEOREM StoreNeverReborn == Spec => NeverReborn
<1>1. Inv /\ [Next]_vars => [DOMAIN table' \ DOMAIN table \subseteq Ids \ used]_vars
  <2> SUFFICES ASSUME Inv, [Next]_vars, table' # table
               PROVE  DOMAIN table' \ DOMAIN table \subseteq Ids \ used
    OBVIOUS
  <2>1. PICK t \in Threads : Commit(t)
    BY OnlyCommitsTouchRows
  <2>2. req[t].op \in {"add", "change", "remove"}
    BY <2>1 DEF Commit
  <2>3. CASE req[t].op = "add"
    <3>1. mine[t] \in Ids /\ mine[t] \notin used
      BY <2>1, <2>3, CommitAddRows
    <3>2. DOMAIN table' = DOMAIN table \union {mine[t]}
      BY <2>1, <2>3, CommitAddRows
    <3> QED BY <3>1, <3>2
  <2>4. CASE req[t].op = "change"
    BY <2>1, <2>4, CommitChange
  <2>5. CASE req[t].op = "remove"
    BY <2>1, <2>5, CommitRemove
  <2> QED BY <2>2, <2>3, <2>4, <2>5
<1> QED BY <1>1, InvHolds, PTL DEF Spec, NeverReborn

\* The table implements the catalogue: a commit is one step of it.
THEOREM StoreIsCatalog == Spec => IsCatalog
<1>1. Init => Catalog!Init
  BY BoundsAssumption DEF Init, Catalog!Init, Catalog!TypeOK, Data, Ids
<1>2. Inv /\ [Next]_vars => [Catalog!Next]_table
  <2> SUFFICES ASSUME Inv, [Next]_vars, table' # table
               PROVE  Catalog!Next
    OBVIOUS
  <2>1. PICK t \in Threads : Commit(t)
    BY OnlyCommitsTouchRows
  <2>2. req[t].op \in {"add", "change", "remove"} /\ t \in Data
    BY <2>1 DEF Commit, Data
  <2>3. CASE req[t].op = "add"
    <3>1. Catalog!Add(mine[t], t)
      BY <2>1, <2>3, CommitAdd DEF Catalog!Add
    <3> QED BY <2>1, <2>2, <2>3, <3>1, CommitAdd DEF Catalog!Next
  <2>4. CASE req[t].op = "change"
    <3>1. Catalog!Change(req[t].id, t) /\ req[t].id \in Ids
      BY <2>1, <2>4, CommitChange DEF Catalog!Change, Inv, TypeOK
    <3> QED BY <2>2, <3>1 DEF Catalog!Next
  <2>5. CASE req[t].op = "remove"
    <3>1. Catalog!Remove(req[t].id) /\ req[t].id \in Ids
      BY <2>1, <2>5, CommitRemove DEF Catalog!Remove, Inv, TypeOK
    <3> QED BY <3>1 DEF Catalog!Next
  <2> QED BY <2>2, <2>3, <2>4, <2>5
<1> QED BY <1>1, <1>2, InvHolds, PTL DEF Spec, IsCatalog, Catalog!Spec

-----------------------------------------------------------------------------
\* An id comes with the insert, so it is not overwritten.
NoIdYet == \A t \in Threads : pc[t] \in {"idle", "connect", "insert"} => mine[t] = 0

\* The pool never has nothing: its connection is in it, in a session or lost.
SomeConnection == Connections >= 1

PoolInv == LeaksOnlyForNoBook /\ NoIdYet /\ SomeConnection

Holding == {"insert", "flush", "query", "commit", "close"}

\* The sets that are counted are finite.
LEMMA CountedSets ==
    /\ IsFiniteSet(Holders) /\ Cardinality(Holders) \in Nat
    /\ IsFiniteSet(FailedForNoBook) /\ Cardinality(FailedForNoBook) \in Nat
<1>1. Holders \in SUBSET Threads /\ FailedForNoBook \in SUBSET Threads
  BY DEF Holders, FailedForNoBook
<1> QED BY <1>1, ThreadsAssumption, FS_Subset, FS_CardinalityType

\* So they are after a step.
LEMMA CountedSetsNext ==
    /\ IsFiniteSet(Holders') /\ Cardinality(Holders') \in Nat
    /\ IsFiniteSet(FailedForNoBook') /\ Cardinality(FailedForNoBook') \in Nat
<1>1. Holders' \in SUBSET Threads /\ FailedForNoBook' \in SUBSET Threads
  BY DEF Holders, FailedForNoBook
<1> QED BY <1>1, ThreadsAssumption, FS_Subset, FS_CardinalityType

\* A thread that moves takes a connection, keeps it, or gives it up.
LEMMA HoldersMove ==
    ASSUME Inv, NEW t \in Threads, NEW l \in Labels, pc' = [pc EXCEPT ![t] = l]
    PROVE  Cardinality(Holders') = Cardinality(Holders)
                                      + (IF l \in Holding THEN 1 ELSE 0)
                                      - (IF pc[t] \in Holding THEN 1 ELSE 0)
<1>1. t \in Holders <=> pc[t] \in Holding
  BY DEF Holders, Holding
<1>2. CASE l \in Holding
  <2>1. Holders' = Holders \union {t}
    BY <1>2 DEF Holders, Holding, Inv, TypeOK
  <2>2. Cardinality(Holders \union {t}) =
           IF t \in Holders THEN Cardinality(Holders) ELSE Cardinality(Holders) + 1
    BY CountedSets, FS_AddElement
  <2> QED BY <1>1, <1>2, <2>1, <2>2, CountedSets
<1>3. CASE l \notin Holding
  <2>1. Holders' = Holders \ {t}
    BY <1>3 DEF Holders, Holding, Inv, TypeOK
  <2>2. Cardinality(Holders \ {t}) =
           IF t \in Holders THEN Cardinality(Holders) - 1 ELSE Cardinality(Holders)
    BY CountedSets, FS_RemoveElement
  <2> QED BY <1>1, <1>3, <2>1, <2>2, CountedSets
<1> QED BY <1>2, <1>3

\* A failed POST stays failed, and its book can only appear as one that some
\* thread has added since.
LEMMA FailedStays ==
    ASSUME Inv, NoIdYet, NEW u \in FailedForNoBook, NEW t \in Threads,
           Step(t) \/ \E r \in Requests : Accept(t, r)
    PROVE  u \in FailedForNoBook'
<1>1. u \in Threads /\ pc[u] = "dead" /\ req[u].op \in {"change", "remove"}
  BY DEF FailedForNoBook
<1>2. u # t
  BY <1>1 DEF Step, Accept, Connect, Insert, Flush, Commit, Query, Close, Reply
<1>3. pc'[u] = "dead" /\ req'[u] = req[u]
  BY <1>1, <1>2 DEF Step, Accept, Connect, Insert, Flush, Commit, Query, Close, Reply,
     Go, Inv, TypeOK
<1>4. req[u].id # 0
  <2>1. req[u] \in Requests
    BY <1>1 DEF Inv, TypeOK, NoRequest
  <2> QED BY <1>1, <2>1, BoundsAssumption DEF Requests
<1>5. ASSUME NEW v \in Threads, mine[v] = req[u].id PROVE mine'[v] = req[u].id
  BY <1>4, <1>5 DEF Step, Accept, Connect, Insert, Flush, Commit, Query, Close, Reply,
     NoIdYet, Inv, TypeOK
<1>6. CASE Commit(t)
  <2>1. mine' = mine
    BY <1>6 DEF Commit
  <2>2. DOMAIN table' \subseteq DOMAIN table \union {mine[t]}
    BY <1>6 DEF Commit, Inv, TypeOK
  <2> QED BY <1>1, <1>3, <1>5, <2>1, <2>2 DEF FailedForNoBook
<1>7. CASE ~ Commit(t)
  <2>1. table' = table
    BY <1>7 DEF Step, Accept, Connect, Insert, Flush, Query, Close, Reply, database
  <2> QED BY <1>1, <1>3, <1>5, <2>1 DEF FailedForNoBook
<1> QED BY <1>6, <1>7

\* Ids are learned once.
LEMMA NoIdYetKept == Inv /\ NoIdYet /\ [Next]_vars => NoIdYet'
<1> SUFFICES ASSUME Inv, NoIdYet, [Next]_vars PROVE NoIdYet'
  OBVIOUS
<1>1. ASSUME NEW t \in Threads, Step(t) PROVE NoIdYet'
  <2>1. ASSUME NEW u \in Threads, u # t PROVE pc'[u] = pc[u] /\ mine'[u] = mine[u]
    BY <1>1, <2>1 DEF Step, Connect, Insert, Flush, Commit, Query, Close, Reply, Go, Inv, TypeOK
  <2>2. pc'[t] \notin {"idle", "connect"} /\ (pc'[t] = "insert" => mine'[t] = 0)
    BY <1>1 DEF Step, Connect, FirstStatement, Insert, Flush, Commit, Query, Close, Reply,
       Go, Inv, TypeOK, NoIdYet, OpAtLabel, Requests
  <2> QED BY <2>1, <2>2 DEF NoIdYet
<1>2. ASSUME NEW t \in Threads, NEW r \in Requests, Accept(t, r) PROVE NoIdYet'
  BY <1>2 DEF Accept, Go, NoIdYet, Inv, TypeOK
<1>3. CASE Validate \/ UNCHANGED vars
  BY <1>3 DEF Validate, vars, thread, NoIdYet
<1>4. CASE Restart
  BY <1>4 DEF Restart, Running, NoIdYet
<1> QED BY <1>1, <1>2, <1>3, <1>4 DEF Next

\* Every step that takes, gives back or loses a connection accounts for it.
LEMMA PoolKept == Inv /\ PoolInv /\ [Next]_vars => PoolInv'
<1> SUFFICES ASSUME Inv, PoolInv, [Next]_vars PROVE LeaksOnlyForNoBook' /\ SomeConnection'
  BY NoIdYetKept DEF PoolInv
<1> DEFINE held == Cardinality(Holders)
           failed == Cardinality(FailedForNoBook)
<1>1. /\ held \in Nat /\ held' \in Nat /\ failed \in Nat /\ failed' \in Nat
      /\ avail \in Nat /\ leaked \in Nat /\ DbMax \in Nat \ {0}
      /\ IsFiniteSet(FailedForNoBook) /\ IsFiniteSet(FailedForNoBook')
  BY CountedSets, CountedSetsNext, BoundsAssumption DEF Inv, TypeOK
<1>2. leaked <= failed /\ avail + leaked + held <= DbMax /\ avail + leaked + held >= 1
  BY DEF PoolInv, LeaksOnlyForNoBook, SomeConnection, Connections
<1>3. ASSUME NEW t \in Threads, Step(t) \/ \E r \in Requests : Accept(t, r)
      PROVE  LeaksOnlyForNoBook' /\ SomeConnection'
  <2>1. FailedForNoBook \subseteq FailedForNoBook'
    BY <1>3, FailedStays DEF PoolInv
  <2>2. failed <= failed'
    BY <1>1, <2>1, FS_Subset
  <2>3. CASE Flush(t) /\ req[t].id \notin DOMAIN table
    <3>1. pc' = [pc EXCEPT ![t] = "dead"] /\ leaked' = leaked + 1 /\ avail' = avail
      BY <2>3 DEF Flush, Go
    <3>2. held' = held - 1
      <4>1. pc[t] \in Holding /\ "dead" \notin Holding /\ "dead" \in Labels
        BY <2>3 DEF Flush, Holding, Labels
      <4>2. held' = held + (IF "dead" \in Holding THEN 1 ELSE 0)
                         - (IF pc[t] \in Holding THEN 1 ELSE 0)
        BY <3>1, <4>1, HoldersMove
      <4> QED BY <1>1, <4>1, <4>2
    <3>3. t \in FailedForNoBook' /\ t \notin FailedForNoBook
      BY <2>3, <3>1 DEF Flush, FailedForNoBook, OpAtLabel, Inv, TypeOK, database
    <3>4. failed + 1 <= failed'
      <4>1. FailedForNoBook \union {t} \subseteq FailedForNoBook'
        BY <2>1, <3>3
      <4>2. Cardinality(FailedForNoBook \union {t}) = failed + 1
        BY <1>1, <3>3, FS_AddElement
      <4>3. Cardinality(FailedForNoBook \union {t}) <= failed'
        BY <1>1, <4>1, FS_Subset
      <4> QED BY <4>2, <4>3
    <3> QED BY <1>1, <1>2, <3>1, <3>2, <3>4 DEF LeaksOnlyForNoBook, SomeConnection, Connections
  <2>4. CASE ~ (Flush(t) /\ req[t].id \notin DOMAIN table)
    <3>1. PICK l \in Labels : pc' = [pc EXCEPT ![t] = l]
      BY <1>3 DEF Step, Accept, Connect, Insert, Flush, Commit, Query, Close, Reply, Go,
         Labels, FirstStatement, Inv, OpAtLabel, Requests
    <3>2. leaked' = leaked /\ avail' \in Nat
      BY <1>1, <1>3, <2>4 DEF Step, Accept, Connect, Insert, Flush, Commit, Query, Close,
         Reply, pool
    <3>3. avail' + held' = avail + held
      <4>1. held' = held + (IF l \in Holding THEN 1 ELSE 0)
                         - (IF pc[t] \in Holding THEN 1 ELSE 0)
        BY <3>1, HoldersMove
      <4>2. l = pc'[t]
        BY <3>1 DEF Inv, TypeOK
      <4>3. \/ avail' = avail /\ (l \in Holding <=> pc[t] \in Holding)
            \/ avail' = avail - 1 /\ l \in Holding /\ pc[t] \notin Holding
            \/ avail' = avail + 1 /\ l \notin Holding /\ pc[t] \in Holding
        BY <1>3, <2>4, <4>2 DEF Step, Accept, Connect, Insert, Flush, Commit, Query,
           Close, Reply, Go, pool, Holding, FirstStatement, Inv, TypeOK, OpAtLabel, Requests
      <4> QED BY <1>1, <3>2, <4>1, <4>3
    <3> QED BY <1>1, <1>2, <2>2, <3>2, <3>3 DEF LeaksOnlyForNoBook, SomeConnection, Connections
  <2> QED BY <2>3, <2>4
<1>4. CASE Validate \/ UNCHANGED vars
  <2>1. Holders' = Holders /\ FailedForNoBook' = FailedForNoBook
    BY <1>4 DEF Validate, vars, thread, database, Holders, FailedForNoBook
  <2> QED BY <1>1, <1>2, <1>4, <2>1
          DEF Validate, vars, thread, pool, LeaksOnlyForNoBook, SomeConnection, Connections
<1>5. CASE Restart
  <2>1. Holders' = {}
    BY <1>5 DEF Restart, Running, Holders, Inv, TypeOK
  <2>2. held' = 0 /\ avail' = 1 /\ leaked' = 0
    BY <1>5, <2>1, FS_EmptySet DEF Restart
  <2> QED BY <1>1, <2>2 DEF LeaksOnlyForNoBook, SomeConnection, Connections
<1> QED BY <1>3, <1>4, <1>5 DEF Next

\* The pool starts with its one connection.
LEMMA PoolInit == Init => PoolInv
<1> SUFFICES ASSUME Init PROVE PoolInv
  OBVIOUS
<1>1. Holders = {}
  BY DEF Init, Holders
<1> QED BY <1>1, CountedSets, FS_EmptySet, BoundsAssumption
        DEF Init, PoolInv, LeaksOnlyForNoBook, SomeConnection, Connections, NoIdYet

\* applyTransaction loses a connection of the pool only where its POST names a
\* book that is not there.
THEOREM StoreLeaks == Spec => []LeaksOnlyForNoBook
<1>1. PoolInv => LeaksOnlyForNoBook
  BY DEF PoolInv
<1> QED BY <1>1, PoolInit, PoolKept, InvHolds, PTL DEF Spec

\* Hibernate's pool of one refuses nobody who comes alone, as long as no POST
\* has failed for a book that was not there.
THEOREM StoreRefusals == Spec => RefusedOnlyInCompany
<1>1. Inv /\ PoolInv /\ [Next]_vars =>
         [\A t \in Threads : pc[t] = "connect" /\ pc'[t] = "dead" =>
             Holders # {} \/ FailedForNoBook # {} \/ restarts' # restarts]_vars
  <2> SUFFICES ASSUME Inv, PoolInv, [Next]_vars, NEW t \in Threads,
                      pc[t] = "connect", pc'[t] = "dead", restarts' = restarts
               PROVE  Holders # {} \/ FailedForNoBook # {}
    OBVIOUS
  <2>1. Connect(t) /\ avail = 0
    <3>1. PICK u \in Threads : Step(u) \/ \E r \in Requests : Accept(u, r)
      BY DEF Next, Validate, Restart, vars, thread, Inv, TypeOK
    <3>2. u = t
      BY <3>1 DEF Step, Accept, Connect, Insert, Flush, Commit, Query, Close, Reply, Go,
         Inv, TypeOK
    <3> QED BY <3>1, <3>2 DEF Step, Accept, Connect, Insert, Flush, Commit, Query, Close,
            Reply, Go, FirstStatement, Inv, TypeOK, OpAtLabel, Requests
  <2>2. leaked + Cardinality(Holders) >= 1 /\ leaked <= Cardinality(FailedForNoBook)
    BY <2>1, CountedSets
       DEF PoolInv, LeaksOnlyForNoBook, SomeConnection, Connections, Inv, TypeOK
  <2>3. Cardinality(Holders) # 0 \/ Cardinality(FailedForNoBook) # 0
    BY <2>2, CountedSets DEF Inv, TypeOK
  <2> QED BY <2>3, FS_EmptySet
<1> QED BY <1>1, PoolInit, PoolKept, InvHolds, PTL DEF Spec, RefusedOnlyInCompany
-----------------------------------------------------------------------------
(* What Terminates promises in the long run, taken apart: who waits for    *)
(* whom, and that all waiting comes to an end.                             *)

\* The guards of the steps of a thread.
CanGo(t) ==
    /\ Running(t)
    /\ pc[t] = "insert" => nextId <= MaxId
    /\ pc[t] = "flush" => ~ LockedByAnother(t, req[t].id)
    /\ pc[t] = "commit" => req[t].op \in {"add", "change", "remove"}

\* A thread that waits does so for the row of a transaction that can commit at
\* once: nobody waits for who waits, and so nobody in a circle.
NobodyStuck ==
    \A t \in Threads : Running(t) =>
        \/ CanGo(t)
        \/ /\ pc[t] = "flush"
           /\ \E u \in Threads \ {t} : pc[u] = "commit" /\ req[u].id = req[t].id /\ CanGo(u)

\* The identity column counts the threads that have had an id of it.
Given == { t \in Threads : mine[t] # 0 }
IdsCounted == nextId = 2 + Cardinality(Given)

LEMMA GivenFinite == IsFiniteSet(Given) /\ Cardinality(Given) \in Nat
<1>1. Given \in SUBSET Threads
  BY DEF Given
<1> QED BY <1>1, ThreadsAssumption, FS_Subset, FS_CardinalityType

LEMMA CountedInit == Init => IdsCounted
<1> SUFFICES ASSUME Init PROVE IdsCounted
  OBVIOUS
<1>1. Given = {} /\ nextId = 2
  BY DEF Init, Given
<1> QED BY <1>1, FS_EmptySet DEF IdsCounted

LEMMA CountedNext == Inv /\ NoIdYet /\ IdsCounted /\ [Next]_vars => IdsCounted'
<1> SUFFICES ASSUME Inv, NoIdYet, IdsCounted, [Next]_vars PROVE IdsCounted'
  OBVIOUS
<1>1. CASE UNCHANGED <<mine, nextId>>
  BY <1>1 DEF IdsCounted, Given
<1>2. ASSUME NEW t \in Threads, Insert(t) PROVE IdsCounted'
  <2>1. mine[t] = 0 /\ mine' = [mine EXCEPT ![t] = nextId] /\ nextId' = nextId + 1 /\ nextId # 0
    BY <1>2 DEF Insert, NoIdYet, Inv, TypeOK
  <2>2. Given' = Given \union {t} /\ t \notin Given
    BY <2>1 DEF Given, Inv, TypeOK
  <2>3. Cardinality(Given \union {t}) = Cardinality(Given) + 1
    BY <2>2, GivenFinite, FS_AddElement
  <2>4. PICK n : n = Cardinality(Given)
    OBVIOUS
  <2>5. n \in Nat /\ nextId = 2 + n /\ Cardinality(Given') = n + 1
    BY <2>2, <2>3, <2>4, GivenFinite DEF IdsCounted
  <2> QED BY <2>1, <2>5 DEF IdsCounted
<1>3. ASSUME NEW t \in Threads, Step(t), ~ Insert(t) PROVE UNCHANGED <<mine, nextId>>
  BY <1>3 DEF Step, Connect, Flush, Commit, Query, Close, Reply, database
<1>4. ASSUME NEW t \in Threads, NEW r \in Requests, Accept(t, r) PROVE UNCHANGED <<mine, nextId>>
  BY <1>4 DEF Accept, database
<1>5. CASE Validate \/ Restart \/ UNCHANGED vars
  BY <1>1, <1>5 DEF Validate, Restart, vars, thread, database
<1> QED BY <1>1, <1>2, <1>3, <1>4, <1>5 DEF Next

\* While there are more ids than requests, any number of transactions on any
\* rows, with restarts and leaks, leaves nobody stuck.
THEOREM StoreNobodyStuck ==
    ASSUME Cardinality(Threads) < MaxId
    PROVE  Spec => []NobodyStuck
<1>1. Inv /\ NoIdYet /\ IdsCounted => NobodyStuck
  <2> SUFFICES ASSUME Inv, NoIdYet, IdsCounted, NEW t \in Threads, Running(t), ~ CanGo(t)
               PROVE  /\ pc[t] = "flush"
                      /\ \E u \in Threads \ {t} :
                            pc[u] = "commit" /\ req[u].id = req[t].id /\ CanGo(u)
    BY DEF NobodyStuck
  <2>1. ASSUME pc[t] = "insert" PROVE nextId <= MaxId
    <3>1. t \notin Given /\ Given \subseteq Threads \ {t}
      BY <2>1 DEF NoIdYet, Given
    <3>2. IsFiniteSet(Threads \ {t}) /\ Cardinality(Threads \ {t}) = Cardinality(Threads) - 1
      BY ThreadsAssumption, FS_RemoveElement
    <3>3. Cardinality(Given) <= Cardinality(Threads \ {t})
      BY <3>1, <3>2, FS_Subset
    <3>4. PICK n, m : n = Cardinality(Given) /\ m = Cardinality(Threads)
      OBVIOUS
    <3>5. n \in Nat /\ m \in Nat /\ n <= m - 1 /\ m < MaxId /\ nextId = 2 + n /\ MaxId \in Nat
      BY <3>2, <3>3, <3>4, GivenFinite, ThreadsAssumption, FS_CardinalityType, BoundsAssumption
         DEF IdsCounted
    <3> QED BY <3>5
  <2>2. ASSUME NEW u \in Threads, pc[u] = "commit" PROVE CanGo(u)
    BY <2>2 DEF CanGo, Running, Inv, OpAtLabel
  <2>3. pc[t] = "flush" /\ LockedByAnother(t, req[t].id)
    BY <2>1, <2>2 DEF CanGo
  <2> QED BY <2>2, <2>3 DEF LockedByAnother
<1>2. Init => NoIdYet /\ IdsCounted
  BY PoolInit, CountedInit DEF PoolInv
<1>3. Inv /\ NoIdYet /\ IdsCounted /\ [Next]_vars => (NoIdYet /\ IdsCounted)'
  BY NoIdYetKept, CountedNext
<1> QED BY <1>1, <1>2, <1>3, InvHolds, PTL DEF Spec

\* The stations a thread has before it.
StationsLeft(l) == IF l = "idle" THEN 6 ELSE IF l = "connect" THEN 5
                   ELSE IF l \in {"insert", "flush", "query"} THEN 4
                   ELSE IF l = "commit" THEN 3 ELSE IF l = "close" THEN 2
                   ELSE IF l = "reply" THEN 1 ELSE 0

\* A thread that moves, by itself or because the server is restarted, has fewer
\* stations left: it comes to its end in seven steps or fewer.  Where no thread
\* moves only the pool changes.
MovesOn ==
    [][/\ \A t \in Threads : pc'[t] = pc[t] \/ StationsLeft(pc'[t]) < StationsLeft(pc[t])
       /\ pc' = pc => UNCHANGED <<thread, database>>]_vars

\* No request goes on for ever: Terminates, but for the fairness that makes the
\* threads run.
THEOREM StoreMovesOn == Spec => MovesOn
<1> DEFINE On == /\ \A t \in Threads : pc'[t] = pc[t] \/ StationsLeft(pc'[t]) < StationsLeft(pc[t])
                 /\ pc' = pc => UNCHANGED <<thread, database>>
<1>1. ASSUME Inv, NEW t \in Threads, NEW l \in Labels, pc' = [pc EXCEPT ![t] = l],
             StationsLeft(l) < StationsLeft(pc[t])
      PROVE  On
  <2>1. pc'[t] = l /\ \A u \in Threads : u # t => pc'[u] = pc[u]
    BY <1>1 DEF Inv, TypeOK
  <2>2. pc'[t] # pc[t]
    <3>1. StationsLeft(pc[t]) \in Int
      BY DEF StationsLeft
    <3> QED BY <1>1, <2>1, <3>1
  <2> QED BY <1>1, <2>1, <2>2
<1>2. ASSUME Inv, NEW t \in Threads, NEW r \in Requests, Accept(t, r) PROVE On
  <2>1. "connect" \in Labels /\ pc' = [pc EXCEPT ![t] = "connect"]
        /\ StationsLeft("connect") < StationsLeft(pc[t])
    BY <1>2 DEF Accept, Go, Labels, StationsLeft
  <2> HIDE DEF On
  <2> QED BY <1>1, <1>2, <2>1
<1>3. ASSUME Inv, NEW t \in Threads, Step(t) PROVE On
  <2>1. PICK l \in Labels : /\ pc' = [pc EXCEPT ![t] = l]
                            /\ StationsLeft(l) < StationsLeft(pc[t])
    <3>1. CASE Connect(t)
      <4>1. FirstStatement(req[t].op) \in {"insert", "flush", "query"}
        <5>1. req[t] \in Requests
          BY <1>3, <3>1 DEF Connect, Inv, OpAtLabel
        <5>2. PICK op : op = req[t].op
          OBVIOUS
        <5>3. op = "add" \/ op = "list" \/ op = "change" \/ op = "remove"
          BY <5>1, <5>2 DEF Requests
        <5>4. /\ FirstStatement("add") = "insert" /\ FirstStatement("list") = "query"
              /\ FirstStatement("change") = "flush" /\ FirstStatement("remove") = "flush"
          BY DEF FirstStatement
        <5> QED BY <5>2, <5>3, <5>4
      <4>2. PICK l \in {"insert", "flush", "query", "dead"} : pc' = [pc EXCEPT ![t] = l]
        BY <3>1, <4>1 DEF Connect, Go
      <4>3. pc[t] = "connect"
        BY <3>1 DEF Connect
      <4>4. l \in Labels
        BY <4>2 DEF Labels
      <4>5. StationsLeft(l) < StationsLeft(pc[t])
        BY <4>2, <4>3 DEF StationsLeft
      <4> QED BY <4>2, <4>4, <4>5
    <3>2. CASE Insert(t) \/ Flush(t) \/ Query(t)
      BY <3>2 DEF Insert, Flush, Query, Go, Labels, StationsLeft
    <3>3. CASE Commit(t) \/ Close(t) \/ Reply(t)
      BY <3>3 DEF Commit, Close, Reply, Go, Labels, StationsLeft
    <3> QED BY <1>3, <3>1, <3>2, <3>3 DEF Step
  <2> HIDE DEF On
  <2> QED BY <1>1, <1>3, <2>1
<1>4. ASSUME Inv, Restart PROVE On
  <2>1. /\ pc' = [t \in Threads |-> IF Running(t) THEN "dead" ELSE pc[t]]
        /\ UNCHANGED <<req, mine, answer, database>>
    BY <1>4 DEF Restart
  <2>2. ASSUME NEW t \in Threads PROVE pc'[t] = pc[t] \/ StationsLeft(pc'[t]) < StationsLeft(pc[t])
    <3>1. pc'[t] = IF Running(t) THEN "dead" ELSE pc[t]
      BY <2>1
    <3>2. ASSUME Running(t) PROVE StationsLeft("dead") < StationsLeft(pc[t])
      <4>1. pc[t] \in {"connect", "insert", "flush", "query", "commit", "close", "reply"}
        BY <1>4, <3>2 DEF Running, Inv, TypeOK, Labels
      <4> QED BY <4>1 DEF StationsLeft
    <3> QED BY <3>1, <3>2
  <2> QED BY <2>1, <2>2 DEF thread
<1>5. ASSUME Validate PROVE On
  BY <1>5 DEF Validate, thread
<1>6. Inv /\ [Next]_vars => [On]_vars
  <2> HIDE DEF On
  <2> QED BY <1>2, <1>3, <1>4, <1>5 DEF Next
<1> QED BY <1>6, InvHolds, PTL DEF Spec, MovesOn
=============================================================================
