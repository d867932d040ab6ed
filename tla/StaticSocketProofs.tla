-------------------------- MODULE StaticSocketProofs --------------------------
(***************************************************************************)
(* Proofs, for any number of connections, that responses only drift        *)
(* forward, and that no GET is answered twice or lost on its way.          *)
(***************************************************************************)
EXTENDS StaticSocket, TLAPS

\* The three streams of a handler were opened one after the other on a field
\* that only moves on, and what it serves came from the first of them.
Ordered(c) ==
    /\ pc[c] \in {"openOut", "openData", "readLine", "header", "body"} =>
          in[c] <= clientDialog
    /\ pc[c] \in {"openData", "readLine", "header", "body"} =>
          in[c] <= out[c] /\ out[c] <= clientDialog
    /\ pc[c] \in {"readLine", "header", "body"} => out[c] <= dataOut[c] /\ dataOut[c] <= clientDialog
    /\ pc[c] \in {"header", "body"} => serving[c] = in[c]
StreamsOrdered == \A c \in Conns : Ordered(c)

\* A stream that is open belongs to a connection.
StreamsOpen ==
    /\ clientDialog = accepted
    /\ \A c \in Conns :
        /\ pc[c] # "none" => c <= accepted
        /\ pc[c] \in {"openOut", "openData", "readLine", "header", "body"} => in[c] \in Conns

Inv == Types /\ StreamsOpen /\ StreamsOrdered /\ AnswersForward

\* No connection, no stream.
LEMMA InitInv == Init => Inv
BY NAssumption DEF Init, Inv, Types, StreamsOpen, StreamsOrdered, Ordered,
   AnswersForward, Conns, Labels

-----------------------------------------------------------------------------
\* The clients touch neither the streams nor what was received.
LEMMA ClientsKeepInv ==
    ASSUME Inv, NEW k \in Conns, NEW kind \in Kinds,
           Send(k, kind) \/ SendRest(k) \/ Close(k)
    PROVE  Inv'
<1> USE DEF Inv
<1>1. Types'
  <2>1. CASE Send(k, kind)
    BY <2>1, SMTT(30) DEF Send, Types, Segments, handler
  <2>2. CASE SendRest(k)
    BY <2>2, SMTT(30) DEF SendRest, Types, Segments, handler
  <2>3. CASE Close(k)
    BY <2>3 DEF Close, Types, handler
  <2> QED BY <2>1, <2>2, <2>3
<1>2. UNCHANGED <<accepted, clientDialog, handler, received>>
  BY DEF Send, SendRest, Close
<1>3. StreamsOpen' /\ StreamsOrdered' /\ AnswersForward'
  BY <1>2 DEF handler, StreamsOpen, StreamsOrdered, Ordered, AnswersForward
<1> QED BY <1>1, <1>3

\* A new connection is later than every stream that is open.
LEMMA AcceptKeepsInv == ASSUME Inv, Accept PROVE Inv'
<1> USE NAssumption DEF Inv, Conns
<1>1. /\ accepted' = accepted + 1 /\ clientDialog' = accepted + 1
      /\ accepted \in Nat /\ accepted + 1 \in 1 .. N
  BY DEF Accept, Types
<1>2. Types'
  <2>1. pc' \in [Conns -> Labels]
    BY DEF Accept, Types, Labels
  <2>2. accepted' \in 0 .. N /\ clientDialog' \in 0 .. N
    BY <1>1
  <2>3. UNCHANGED <<in, out, dataOut, serving, client, asked, inbox, received>>
    BY DEF Accept, wire
  <2> QED BY <2>1, <2>2, <2>3 DEF Types
<1>3. /\ \A c \in Conns : c # accepted + 1 => pc'[c] = pc[c]
      /\ pc'[accepted + 1] = "openIn"
      /\ UNCHANGED <<in, out, dataOut, serving, received>>
  BY DEF Accept, Types
<1>4. StreamsOpen'
  BY <1>1, <1>3 DEF StreamsOpen
<1>5. StreamsOrdered'
  <2> SUFFICES ASSUME NEW c \in Conns
               PROVE  Ordered(c)'
    BY DEF StreamsOrdered
  <2>1. clientDialog < clientDialog' /\ clientDialog \in Int /\ clientDialog' \in Int
    BY <1>1 DEF StreamsOpen
  <2>2. in[c] \in Int /\ out[c] \in Int /\ dataOut[c] \in Int
    BY DEF Types
  <2>3. CASE c = accepted + 1
    BY <1>3, <2>3 DEF Ordered
  <2>4. CASE c # accepted + 1
    BY <1>3, <2>1, <2>2, <2>4 DEF StreamsOrdered, Ordered
  <2> QED BY <2>3, <2>4
<1>6. AnswersForward'
  BY <1>3 DEF AnswersForward
<1> QED BY <1>2, <1>4, <1>5, <1>6

\* Opening the three streams: each new one is no earlier than those before it.
LEMMA OpeningKeepsInv ==
    ASSUME Inv, NEW c \in Conns, OpenIn(c) \/ OpenOut(c) \/ OpenData(c)
    PROVE  Inv'
<1> USE NAssumption DEF Inv, Conns
<1>1. UNCHANGED <<accepted, clientDialog, serving, wire, received>>
  BY DEF OpenIn, OpenOut, OpenData
<1>2. clientDialog \in Conns /\ clientDialog \in 0 .. N
  BY SMTT(30) DEF OpenIn, OpenOut, OpenData, StreamsOpen, Types
<1>3. \A d \in Conns : in[d] \in Int /\ out[d] \in Int /\ dataOut[d] \in Int
  BY SMTT(30) DEF Types
<1>4. CASE OpenIn(c)
  <2>1. Types'
    BY <1>1, <1>2, <1>4 DEF OpenIn, Types, Labels, wire
  <2>2. /\ pc' = [pc EXCEPT ![c] = "openOut"] /\ in' = [in EXCEPT ![c] = clientDialog]
        /\ pc[c] = "openIn" /\ UNCHANGED <<out, dataOut>>
    BY <1>4 DEF OpenIn
  <2>3. StreamsOpen'
    BY <1>1, <1>2, <2>2 DEF StreamsOpen, Types
  <2>4. ASSUME NEW d \in Conns PROVE Ordered(d)'
    <3>1. CASE d = c
      BY <1>1, <1>2, <1>3, <2>2, <3>1 DEF StreamsOrdered, Ordered, Types
    <3>2. CASE d # c
      <4>1. UNCHANGED <<pc[d], in[d], out[d], dataOut[d], serving[d], clientDialog>>
        BY <1>1, <2>2, <3>2 DEF Types
      <4> QED BY <4>1 DEF StreamsOrdered, Ordered
    <3> QED BY <3>1, <3>2
  <2> QED BY <1>1, <2>1, <2>3, <2>4 DEF StreamsOrdered, AnswersForward
<1>5. CASE OpenOut(c)
  <2>1. Types'
    BY <1>1, <1>2, <1>5 DEF OpenOut, Types, Labels, wire
  <2>2. /\ pc' = [pc EXCEPT ![c] = "openData"] /\ out' = [out EXCEPT ![c] = clientDialog]
        /\ pc[c] = "openOut" /\ UNCHANGED <<in, dataOut>>
    BY <1>5 DEF OpenOut
  <2>3. StreamsOpen'
    BY <1>1, <1>2, <2>2 DEF StreamsOpen, Types
  <2>4. ASSUME NEW d \in Conns PROVE Ordered(d)'
    <3>1. CASE d = c
      BY <1>1, <1>2, <1>3, <2>2, <3>1 DEF StreamsOrdered, Ordered, Types
    <3>2. CASE d # c
      <4>1. UNCHANGED <<pc[d], in[d], out[d], dataOut[d], serving[d], clientDialog>>
        BY <1>1, <2>2, <3>2 DEF Types
      <4> QED BY <4>1 DEF StreamsOrdered, Ordered
    <3> QED BY <3>1, <3>2
  <2> QED BY <1>1, <2>1, <2>3, <2>4 DEF StreamsOrdered, AnswersForward
<1>6. CASE OpenData(c)
  <2>1. Types'
    BY <1>1, <1>2, <1>6 DEF OpenData, Types, Labels, wire
  <2>2. /\ pc' = [pc EXCEPT ![c] = "readLine"]
        /\ dataOut' = [dataOut EXCEPT ![c] = clientDialog]
        /\ pc[c] = "openData" /\ UNCHANGED <<in, out>>
    BY <1>6 DEF OpenData
  <2>3. StreamsOpen'
    BY <1>1, <1>2, <2>2 DEF StreamsOpen, Types
  <2>4. ASSUME NEW d \in Conns PROVE Ordered(d)'
    <3>1. CASE d = c
      BY <1>1, <1>2, <1>3, <2>2, <3>1 DEF StreamsOrdered, Ordered, Types
    <3>2. CASE d # c
      <4>1. UNCHANGED <<pc[d], in[d], out[d], dataOut[d], serving[d], clientDialog>>
        BY <1>1, <2>2, <3>2 DEF Types
      <4> QED BY <4>1 DEF StreamsOrdered, Ordered
    <3> QED BY <3>1, <3>2
  <2> QED BY <1>1, <2>1, <2>3, <2>4 DEF StreamsOrdered, AnswersForward
<1> QED BY <1>4, <1>5, <1>6

\* A thread that ends takes its streams with it and leaves the rest alone.
LEMMA FinishKeepsInv ==
    ASSUME Inv, NEW c \in Conns, NEW how \in {"ended", "dead"}, Finish(c, how),
           pc[c] # "none", UNCHANGED <<accepted, clientDialog>>
    PROVE  /\ StreamsOpen' /\ StreamsOrdered'
           /\ pc' \in [Conns -> Labels]
           /\ in' \in [Conns -> 0 .. N] /\ out' \in [Conns -> 0 .. N]
           /\ dataOut' \in [Conns -> 0 .. N] /\ serving' \in [Conns -> 0 .. N]
<1> USE NAssumption DEF Inv, Conns
<1>1. StreamsOpen'
  BY DEF Finish, StreamsOpen, Types
<1>2. StreamsOrdered'
  BY DEF Finish, StreamsOrdered, Ordered, Types
<1>3. pc' \in [Conns -> Labels]
  BY DEF Finish, Types, Labels
<1>4. 0 \in 0 .. N
  OBVIOUS
<1>5. in' \in [Conns -> 0 .. N] /\ out' \in [Conns -> 0 .. N]
  <2>1. in' = [in EXCEPT ![c] = 0] /\ out' = [out EXCEPT ![c] = 0]
    BY DEF Finish
  <2> QED BY <1>4, <2>1 DEF Types
<1>6. dataOut' \in [Conns -> 0 .. N] /\ serving' \in [Conns -> 0 .. N]
  <2>1. dataOut' = [dataOut EXCEPT ![c] = 0] /\ serving' = [serving EXCEPT ![c] = 0]
    BY DEF Finish
  <2> QED BY <1>4, <2>1 DEF Types
<1> QED BY <1>1, <1>2, <1>3, <1>5, <1>6

\* What a handler serves is its reader's connection.
LEMMA ReadLineKeepsInv == ASSUME Inv, NEW c \in Conns, ReadLine(c) PROVE Inv'
<1> USE NAssumption DEF Inv
<1>1. /\ pc[c] = "readLine"
      /\ UNCHANGED <<accepted, clientDialog, client, asked, received>>
      /\ in[c] \in Conns
  BY DEF ReadLine, StreamsOpen
<1>2. AnswersForward'
  BY <1>1 DEF AnswersForward
<1>3. inbox[in[c]] # << >> => Head(inbox[in[c]]) \in Segments
  BY <1>1 DEF Types
<1>4. inbox[in[c]] # << >> => Tail(inbox[in[c]]) \in Seq(Segments)
  BY <1>1 DEF Types
<1>5. CASE \E how \in {"ended", "dead"} : Finish(c, how)
  <2>1. inbox' \in [Conns -> Seq(Segments)]
    BY <1>1, <1>4 DEF ReadLine, Types
  <2>2. PICK how \in {"ended", "dead"} : Finish(c, how)
    BY <1>5
  <2>3. StreamsOpen' /\ StreamsOrdered'
    BY <1>1, <2>2, FinishKeepsInv
  <2>4. Types'
    BY <1>1, <2>1, <2>2, FinishKeepsInv DEF Types
  <2> QED BY <1>2, <2>3, <2>4
<1>6. CASE /\ pc' = [pc EXCEPT ![c] = "header"]
           /\ serving' = [serving EXCEPT ![c] = in[c]]
           /\ UNCHANGED <<in, out, dataOut>>
           /\ inbox' = [inbox EXCEPT ![in[c]] = Tail(@)]
           /\ inbox[in[c]] # << >>
  <2>1. Types'
    <3>1. inbox' \in [Conns -> Seq(Segments)]
      BY <1>6, <1>4 DEF Types
    <3>2. pc' \in [Conns -> Labels] /\ serving' \in [Conns -> 0 .. N]
      BY <1>6 DEF Types, Labels
    <3> QED BY <1>1, <1>6, <3>1, <3>2 DEF Types
  <2>2. StreamsOpen'
    BY <1>1, <1>6 DEF StreamsOpen, Types
  <2>3. StreamsOrdered'
    BY <1>1, <1>6 DEF StreamsOrdered, Ordered, Types
  <2> QED BY <1>2, <2>1, <2>2, <2>3
<1> QED BY <1>1, <1>5, <1>6, <1>3 DEF ReadLine, Segments, Kinds

\* A part goes to the writer's own connection, which is no earlier than the
\* one the request was read from.
LEMMA WritingKeepsInv ==
    ASSUME Inv, NEW c \in Conns, WriteHeader(c) \/ WriteBody(c)
    PROVE  Inv'
<1> USE NAssumption DEF Inv
<1>1. /\ UNCHANGED <<accepted, clientDialog, wire>>
      /\ pc[c] \in {"header", "body"}
      /\ serving[c] = in[c] /\ in[c] \in Conns
      /\ in[c] <= out[c] /\ out[c] <= dataOut[c]
      /\ out[c] \in Int /\ dataOut[c] \in Int /\ in[c] \in Int
  <2>1. pc[c] \in {"header", "body"} /\ UNCHANGED <<accepted, clientDialog, wire>>
    BY DEF WriteHeader, WriteBody
  <2>2. in[c] \in Conns
    BY <2>1 DEF StreamsOpen
  <2>3. Ordered(c)
    BY DEF StreamsOrdered
  <2>4. serving[c] = in[c] /\ in[c] <= out[c] /\ out[c] <= dataOut[c]
    BY <2>1, <2>3 DEF Ordered
  <2>5. out[c] \in Int /\ dataOut[c] \in Int /\ in[c] \in Int
    BY DEF Types
  <2> QED BY <2>1, <2>2, <2>4, <2>5
<1>2. ASSUME NEW k \in Int, NEW part \in {"header", "body"}, k >= in[c],
             Deliver(k, [part |-> part, of |-> serving[c]])
      PROVE  received' \in [Conns -> SUBSET Part] /\ AnswersForward'
  <2> DEFINE p == [part |-> part, of |-> serving[c]]
  <2>1. p \in Part /\ p.of = in[c]
    BY <1>1 DEF Part
  <2>2. received' = [received EXCEPT ![k] = @ \union {p}]
    BY <1>2 DEF Deliver
  <2> HIDE DEF p
  <2>3. received' \in [Conns -> SUBSET Part]
    BY <2>1, <2>2 DEF Types
  <2>4. ASSUME NEW j \in Conns, NEW q \in received'[j] PROVE q.of <= j
    BY <1>1, <1>2, <2>1, <2>2, <2>4 DEF Types, AnswersForward
  <2> QED BY <2>3, <2>4 DEF AnswersForward
<1>3. CASE WriteHeader(c)
  <2>1. received' \in [Conns -> SUBSET Part] /\ AnswersForward'
    BY <1>1, <1>2, <1>3 DEF WriteHeader
  <2>2. Types'
    BY <1>1, <1>3, <2>1 DEF WriteHeader, Types, Labels, wire
  <2>3. StreamsOpen'
    BY <1>1, <1>3 DEF WriteHeader, StreamsOpen, Types
  <2>4. StreamsOrdered'
    BY <1>1, <1>3 DEF WriteHeader, StreamsOrdered, Ordered, Types
  <2> QED BY <2>1, <2>2, <2>3, <2>4
<1>4. CASE WriteBody(c)
  <2>1. received' \in [Conns -> SUBSET Part] /\ AnswersForward'
    BY <1>1, <1>2, <1>4 DEF WriteBody
  <2>2. Finish(c, "ended")
    BY <1>4 DEF WriteBody
  <2>3. StreamsOpen' /\ StreamsOrdered'
    BY <1>1, <2>2, FinishKeepsInv
  <2>4. Types'
    BY <1>1, <2>1, <2>2, FinishKeepsInv DEF Types, wire
  <2> QED BY <2>1, <2>3, <2>4
<1> QED BY <1>3, <1>4

\* No step of a client, of main or of a handler breaks the order.
LEMMA NextInv == Inv /\ [Next]_vars => Inv'
<1> SUFFICES ASSUME Inv, [Next]_vars PROVE Inv'
  OBVIOUS
<1>1. CASE Accept
  BY <1>1, AcceptKeepsInv
<1>2. ASSUME NEW c \in Conns, Step(c) PROVE Inv'
  BY <1>2, OpeningKeepsInv, ReadLineKeepsInv, WritingKeepsInv DEF Step
<1>3. ASSUME NEW k \in Conns,
             (\E kind \in Kinds : Send(k, kind)) \/ SendRest(k) \/ Close(k)
      PROVE  Inv'
  <2>1. "get" \in Kinds
    BY DEF Kinds
  <2> QED BY <1>3, <2>1, ClientsKeepInv
<1>4. CASE UNCHANGED vars
  BY <1>4 DEF vars, handler, wire, Inv, Types, StreamsOpen, StreamsOrdered,
                   Ordered, AnswersForward
<1> QED BY <1>1, <1>2, <1>3, <1>4 DEF Next

\* However many connections race, the variables keep their types and no stream of
\* a handler is of an earlier connection than the one opened before it.
THEOREM SocketTyped == Spec => []TypeOK
<1>1. Inv => TypeOK
  <2> SUFFICES ASSUME Inv, NEW c \in Conns, pc[c] \in {"readLine", "header", "body"}
               PROVE  /\ in[c] \in 1 .. out[c] /\ out[c] \in 1 .. dataOut[c]
                      /\ dataOut[c] \in 1 .. accepted
    BY DEF Inv, TypeOK
  <2>1. in[c] \in 1 .. N /\ clientDialog = accepted
    BY DEF Inv, StreamsOpen, Conns
  <2>2. in[c] <= out[c] /\ out[c] <= dataOut[c] /\ dataOut[c] <= clientDialog
    BY DEF Inv, StreamsOrdered, Ordered
  <2>3. out[c] \in Int /\ dataOut[c] \in Int
    BY DEF Inv, Types
  <2> QED BY <2>1, <2>2, <2>3, NAssumption
<1> QED BY <1>1, InitInv, NextInv, PTL DEF Spec

\* No client ever receives the response to a later connection's request: the
\* static field of ClientHandler can only carry a response forward.
THEOREM ResponsesDriftForward == Spec => []AnswersForward
<1>1. Inv => AnswersForward
  BY DEF Inv
<1> QED BY <1>1, InitInv, NextInv, PTL DEF Spec

-----------------------------------------------------------------------------
(* What becomes of a GET: what ReadAnswered promises, but for the fairness *)
(* that makes the handlers run.                                            *)

\* A GET that no handler has read; the handlers that have read it and are to
\* write its header or its body; and the clients that have a part of its response.
Unread(k) == inbox[k] # << >> /\ Head(inbox[k]) = "get"
AtHeader(k) == { c \in Conns : pc[c] = "header" /\ serving[c] = k }
AtBody(k) == { c \in Conns : pc[c] = "body" /\ serving[c] = k }
Got(part, k) == { j \in Conns : [part |-> part, of |-> k] \in received[j] }

\* Where the request of connection k can be.
NotSeen(k) == AtHeader(k) = {} /\ AtBody(k) = {} /\ Got("header", k) = {} /\ Got("body", k) = {}
Read(k) == /\ ~ Unread(k) /\ AtBody(k) = {} /\ Got("header", k) = {} /\ Got("body", k) = {}
           /\ \E c \in Conns : AtHeader(k) = {c}
HalfAnswered(k) == /\ ~ Unread(k) /\ AtHeader(k) = {} /\ Got("body", k) = {}
                   /\ \E c \in Conns : AtBody(k) = {c} /\ Got("header", k) = {out[c]}
Answered(k) == /\ ~ Unread(k) /\ AtHeader(k) = {} /\ AtBody(k) = {}
               /\ \E i, j \in Conns : /\ Got("header", k) = {i} /\ Got("body", k) = {j}
                                      /\ k <= i /\ i <= j
Account(k) ==
    IF asked[k] = "get"
    THEN (Unread(k) /\ NotSeen(k)) \/ Read(k) \/ HalfAnswered(k) \/ Answered(k)
    ELSE ~ Unread(k) /\ NotSeen(k)

\* A GET is read by one handler at most, and each part of its response is sent
\* once: the header first, then the body, to the same client or a later one.
\* What is no GET gets no response.
GetsAccounted == \A k \in Conns : Account(k)

\* A client sends one request, and what comes after its first line is no
\* other's.
OneRequest(k) ==
    /\ asked[k] = "none" => inbox[k] = << >> /\ client[k] \in {"new", "closed"}
    /\ client[k] = "new" => asked[k] = "none"
    /\ \A i \in 2 .. Len(inbox[k]) : inbox[k][i] = "rest"
Requests == \A k \in Conns : OneRequest(k)

Accounts == Inv /\ Requests /\ GetsAccounted

\* Nothing is asked for before there are connections.
LEMMA InitAccounts == Init => Accounts
<1> SUFFICES ASSUME Init PROVE Requests /\ GetsAccounted
  BY InitInv DEF Accounts
<1>1. Requests
  BY DEF Init, Requests, OneRequest
<1>2. ASSUME NEW k \in Conns PROVE Account(k)
  <2>1. ~ Unread(k) /\ asked[k] # "get"
    BY DEF Init, Unread
  <2>2. NotSeen(k)
    BY DEF Init, NotSeen, AtHeader, AtBody, Got
  <2> QED BY <2>1, <2>2 DEF Account
<1> QED BY <1>1, <1>2 DEF GetsAccounted

\* A request keeps its account in a step that moves none of what it is told by.
LEMMA SameAccount ==
    ASSUME NEW k \in Conns, Account(k),
           asked'[k] = asked[k], Unread(k)' <=> Unread(k),
           AtHeader(k)' = AtHeader(k), AtBody(k)' = AtBody(k),
           Got("header", k)' = Got("header", k), Got("body", k)' = Got("body", k),
           \A c \in Conns : c \in AtBody(k) => out'[c] = out[c]
    PROVE  Account(k)'
<1>1. CASE asked[k] # "get" \/ Unread(k)
  BY <1>1 DEF Account, NotSeen, Read, HalfAnswered, Answered
<1>2. CASE Read(k)
  <2>1. Read(k)'
    BY <1>2 DEF Read
  <2> QED BY <2>1, <1>1 DEF Account
<1>3. CASE HalfAnswered(k)
  <2>1. PICK c \in Conns : AtBody(k) = {c} /\ Got("header", k) = {out[c]}
    BY <1>3 DEF HalfAnswered
  <2>2. out'[c] = out[c]
    BY <2>1
  <2>3. HalfAnswered(k)'
    BY <1>3, <2>1, <2>2 DEF HalfAnswered
  <2> QED BY <2>3, <1>1 DEF Account
<1>4. CASE Answered(k)
  <2>1. Answered(k)'
    BY <1>4 DEF Answered
  <2> QED BY <2>1, <1>1 DEF Account
<1> QED BY <1>1, <1>2, <1>3, <1>4 DEF Account

\* A handler that neither is nor comes to be between a first line and its
\* response moves nobody's account, as long as it leaves the requests alone.
LEMMA ElsewhereKeepsAccount ==
    ASSUME Types, NEW c \in Conns, NEW k \in Conns, Account(k),
           pc[c] \notin {"header", "body"}, pc'[c] \notin {"header", "body"},
           \A d \in Conns : d # c => /\ pc'[d] = pc[d] /\ out'[d] = out[d]
                                     /\ serving'[d] = serving[d],
           UNCHANGED <<asked, received>>, Unread(k)' <=> Unread(k)
    PROVE  Account(k)'
<1>1. AtHeader(k)' = AtHeader(k) /\ AtBody(k)' = AtBody(k)
  BY DEF AtHeader, AtBody
<1>2. Got("header", k)' = Got("header", k) /\ Got("body", k)' = Got("body", k)
  BY DEF Got
<1>3. \A d \in Conns : d \in AtBody(k) => out'[d] = out[d]
  BY DEF AtBody
<1> QED BY <1>1, <1>2, <1>3, SameAccount

-----------------------------------------------------------------------------
\* A request is unread once its first line is there; what follows it tells
\* nothing of it.
LEMMA ClientsKeepAccounts ==
    ASSUME Accounts, NEW k \in Conns, NEW kind \in Kinds,
           Send(k, kind) \/ SendRest(k) \/ Close(k)
    PROVE  Requests' /\ GetsAccounted'
<1>1. Types /\ OneRequest(k) /\ Account(k)
  BY DEF Accounts, Inv, Requests, GetsAccounted
<1>2. UNCHANGED <<pc, out, serving, received>>
  BY DEF Send, SendRest, Close, handler
<1>3. inbox[k] \in Seq(Segments) /\ kind \in Segments /\ "rest" \in Segments
  BY <1>1 DEF Types, Segments
<1>4. \A j \in Conns : j # k => /\ asked'[j] = asked[j] /\ inbox'[j] = inbox[j]
                                /\ client'[j] = client[j]
  BY <1>1 DEF Send, SendRest, Close, Types
<1>5. OneRequest(k)'
  <2>1. CASE Send(k, kind)
    <3>1. inbox[k] = << >>
      BY <1>1, <2>1 DEF Send, OneRequest
    <3>2. inbox'[k] = <<kind>> /\ asked'[k] = kind /\ client'[k] \in {"half", "sent"}
      BY <1>1, <2>1, <3>1 DEF Send, Types
    <3>3. kind # "none" /\ Len(<<kind>>) = 1
      BY DEF Kinds
    <3> QED BY <3>2, <3>3 DEF OneRequest
  <2>2. CASE SendRest(k)
    <3>1. inbox'[k] = Append(inbox[k], "rest") /\ asked'[k] = asked[k]
          /\ client'[k] = "sent" /\ client[k] = "half"
      BY <1>1, <2>2 DEF SendRest, Types
    <3>2. asked[k] # "none"
      BY <1>1, <3>1 DEF OneRequest
    <3>3. ASSUME NEW i \in 2 .. Len(inbox'[k]) PROVE inbox'[k][i] = "rest"
      BY <1>1, <1>3, <3>1 DEF OneRequest
    <3> QED BY <3>1, <3>2, <3>3 DEF OneRequest
  <2>3. CASE Close(k)
    BY <1>1, <2>3 DEF Close, OneRequest, Types
  <2> QED BY <2>1, <2>2, <2>3
<1>6. Requests'
  BY <1>4, <1>5 DEF Accounts, Requests, OneRequest
<1>7. ASSUME NEW j \in Conns, j # k \/ ~ Send(k, kind) PROVE Account(j)'
  <2>1. Account(j) /\ Conns # {}
    BY DEF Accounts, GetsAccounted
  <2>2. asked'[j] = asked[j]
    BY <1>4, <1>7 DEF SendRest, Close
  <2>3. Unread(j)' <=> Unread(j)
    <3>1. CASE j # k
      BY <1>4, <3>1 DEF Unread
    <3>2. CASE j = k /\ SendRest(k)
      <4>1. inbox'[k] = Append(inbox[k], "rest")
        BY <1>1, <3>2 DEF SendRest, Types
      <4>2. CASE inbox[k] = << >>
        BY <1>3, <3>2, <4>1, <4>2 DEF Unread
      <4>3. CASE inbox[k] # << >>
        BY <1>3, <3>2, <4>1, <4>3 DEF Unread
      <4> QED BY <4>2, <4>3
    <3>3. CASE j = k /\ Close(k)
      BY <3>3 DEF Close, Unread
    <3> QED BY <1>7, <3>1, <3>2, <3>3
  <2>4. AtHeader(j)' = AtHeader(j) /\ AtBody(j)' = AtBody(j)
        /\ Got("header", j)' = Got("header", j) /\ Got("body", j)' = Got("body", j)
    BY <1>2 DEF AtHeader, AtBody, Got
  <2> QED BY <1>2, <2>1, <2>2, <2>3, <2>4, SameAccount
<1>8. CASE Send(k, kind)
  <2>1. asked[k] = "none" /\ inbox[k] = << >>
    BY <1>1, <1>8 DEF Send, OneRequest
  <2>2. inbox'[k] = <<kind>> /\ asked'[k] = kind
    BY <1>1, <1>8, <2>1 DEF Send, Types
  <2>3. NotSeen(k)
    BY <1>1, <2>1 DEF Account
  <2>4. NotSeen(k)'
    BY <1>2, <2>3 DEF NotSeen, AtHeader, AtBody, Got
  <2>5. Unread(k)' <=> kind = "get"
    BY <2>2 DEF Unread
  <2>6. Account(k)'
    BY <2>2, <2>4, <2>5 DEF Account
  <2> QED BY <1>6, <1>7, <2>6 DEF GetsAccounted
<1> QED BY <1>6, <1>7, <1>8 DEF GetsAccounted

\* main and the opening of streams come before any first line.
LEMMA OpeningKeepsAccounts ==
    ASSUME Accounts, Accept \/ \E c \in Conns : OpenIn(c) \/ OpenOut(c) \/ OpenData(c)
    PROVE  Requests' /\ GetsAccounted'
<1>1. UNCHANGED <<serving, client, asked, inbox, received>>
  BY DEF Accept, OpenIn, OpenOut, OpenData, wire
<1>2. Requests'
  BY <1>1 DEF Accounts, Requests, OneRequest
<1>3. PICK c \in Conns : /\ pc[c] \notin {"header", "body"} /\ pc'[c] \notin {"header", "body"}
                         /\ \A d \in Conns : d # c => pc'[d] = pc[d] /\ out'[d] = out[d]
  <2>1. Types
    BY DEF Accounts, Inv
  <2>2. CASE Accept
    <3>1. accepted + 1 \in Conns /\ pc[accepted + 1] = "none"
      BY <2>1, <2>2, NAssumption DEF Accept, Accounts, Inv, StreamsOpen, Types, Conns
    <3>2. pc' = [pc EXCEPT ![accepted + 1] = "openIn"] /\ out' = out
      BY <2>2 DEF Accept
    <3> QED BY <2>1, <3>1, <3>2 DEF Types
  <2>3. ASSUME NEW c \in Conns, OpenIn(c) \/ OpenOut(c) \/ OpenData(c)
        PROVE  /\ pc[c] \notin {"header", "body"} /\ pc'[c] \notin {"header", "body"}
               /\ \A d \in Conns : d # c => pc'[d] = pc[d] /\ out'[d] = out[d]
    BY <2>1, <2>3 DEF OpenIn, OpenOut, OpenData, Types
  <2> QED BY <2>2, <2>3
<1>4. ASSUME NEW k \in Conns PROVE Account(k)'
  <2>1. Unread(k)' <=> Unread(k)
    BY <1>1 DEF Unread
  <2>2. Types /\ Account(k)
    BY DEF Accounts, Inv, GetsAccounted
  <2> QED BY <1>1, <1>3, <2>1, <2>2, ElsewhereKeepsAccount
<1> QED BY <1>2, <1>4 DEF GetsAccounted

\* What a reading leaves of a request is not its first line.
LEMMA TailIsRest ==
    ASSUME Accounts, NEW k \in Conns, inbox[k] # << >>
    PROVE  /\ Tail(inbox[k]) # << >> => Head(Tail(inbox[k])) = "rest"
           /\ \A i \in 2 .. Len(Tail(inbox[k])) : Tail(inbox[k])[i] = "rest"
<1>1. inbox[k] \in Seq(Segments) /\ \A i \in 2 .. Len(inbox[k]) : inbox[k][i] = "rest"
  BY DEF Accounts, Inv, Types, Requests, OneRequest
<1>2. /\ Len(Tail(inbox[k])) = Len(inbox[k]) - 1
      /\ \A i \in 1 .. Len(inbox[k]) - 1 : Tail(inbox[k])[i] = inbox[k][i + 1]
      /\ Len(inbox[k]) \in Nat
      /\ Tail(inbox[k]) \in Seq(Segments)
  BY <1>1
<1>3. Tail(inbox[k]) # << >> => Head(Tail(inbox[k])) = Tail(inbox[k])[1] /\ Len(Tail(inbox[k])) >= 1
  BY <1>2
<1> QED BY <1>1, <1>2, <1>3

\* The first handler to read a GET takes it, from whoever else reads there.
LEMMA ReadLineKeepsAccounts ==
    ASSUME Accounts, NEW c \in Conns, ReadLine(c)
    PROVE  Requests' /\ GetsAccounted'
<1>0. PICK k \in Conns : k = in[c]
  BY DEF ReadLine, Accounts, Inv, StreamsOpen
<1>1. /\ Types /\ pc[c] = "readLine"
      /\ UNCHANGED <<asked, client, received>>
  BY DEF ReadLine, Accounts, Inv
<1>2. \A j \in Conns : j # k => inbox'[j] = inbox[j]
  BY <1>0, <1>1 DEF ReadLine, Types
<1>3. CASE inbox[k] # << >> /\ Head(inbox[k]) = "get"
  <2>1. /\ inbox'[k] = Tail(inbox[k])
        /\ pc' = [pc EXCEPT ![c] = "header"] /\ serving' = [serving EXCEPT ![c] = k]
        /\ UNCHANGED <<in, out, dataOut>>
    BY <1>0, <1>1, <1>3 DEF ReadLine, Types
  <2>2. asked[k] = "get" /\ NotSeen(k)
    BY <1>1, <1>3 DEF Accounts, GetsAccounted, Account, Unread, Read, HalfAnswered, Answered
  <2>3. OneRequest(k)'
    BY <1>1, <1>3, <2>1, <2>2, TailIsRest DEF OneRequest, Accounts, Requests
  <2>4. Read(k)'
    <3>1. ~ Unread(k)'
      BY <1>1, <1>3, <2>1, TailIsRest DEF Unread
    <3>2. AtHeader(k)' = {c} /\ AtBody(k)' = {}
      BY <1>1, <2>1, <2>2 DEF NotSeen, AtHeader, AtBody, Types
    <3>3. Got("header", k)' = {} /\ Got("body", k)' = {}
      BY <1>1, <2>2 DEF NotSeen, Got
    <3> QED BY <3>1, <3>2, <3>3 DEF Read
  <2>5. ASSUME NEW j \in Conns, j # k PROVE Account(j)'
    <3>1. Account(j) /\ Unread(j)' <=> Unread(j)
      BY <1>2, <2>5 DEF Accounts, GetsAccounted, Unread
    <3>2. AtHeader(j)' = AtHeader(j) /\ AtBody(j)' = AtBody(j)
      BY <1>1, <2>1, <2>5 DEF AtHeader, AtBody, Types
    <3>3. Got("header", j)' = Got("header", j) /\ Got("body", j)' = Got("body", j)
      BY <1>1 DEF Got
    <3>4. Account(j)
      BY DEF Accounts, GetsAccounted
    <3> QED BY <1>1, <2>1, <3>1, <3>2, <3>3, <3>4, SameAccount
  <2>6. Account(k)'
    BY <1>1, <2>2, <2>4 DEF Account
  <2>7. Requests'
    BY <1>1, <1>2, <2>3 DEF Accounts, Requests, OneRequest
  <2> QED BY <2>5, <2>6, <2>7 DEF GetsAccounted
<1>4. CASE ~ (inbox[k] # << >> /\ Head(inbox[k]) = "get")
  <2>1. /\ \E how \in {"ended", "dead"} : Finish(c, how)
        /\ inbox'[k] \in {inbox[k], Tail(inbox[k])}
        /\ inbox'[k] # inbox[k] => inbox[k] # << >> /\ inbox'[k] = Tail(inbox[k])
    <3>1. CASE inbox[k] = << >>
      BY <1>0, <1>1, <3>1 DEF ReadLine
    <3>2. CASE inbox[k] # << >>
      <4>1. Head(inbox[k]) \in Segments /\ Head(inbox[k]) # "get"
        BY <1>1, <1>4, <3>2 DEF Types
      <4>2. inbox'[k] = Tail(inbox[k])
        BY <1>0, <1>1, <3>2 DEF ReadLine, Types
      <4>3. Finish(c, "ended") \/ Finish(c, "dead")
        BY <1>0, <3>2, <4>1 DEF ReadLine, Segments, Kinds
      <4> QED BY <3>2, <4>2, <4>3
    <3> QED BY <3>1, <3>2
  <2>2. ~ Unread(k) /\ ~ Unread(k)'
    <3>1. ~ Unread(k)
      BY <1>4 DEF Unread
    <3>2. CASE inbox'[k] = inbox[k]
      BY <3>1, <3>2 DEF Unread
    <3>3. CASE inbox[k] # << >> /\ inbox'[k] = Tail(inbox[k])
      <4>1. Tail(inbox[k]) # << >> => Head(Tail(inbox[k])) = "rest"
        BY <3>3, TailIsRest
      <4> QED BY <3>1, <3>3, <4>1 DEF Unread
    <3> QED BY <2>1, <3>1, <3>2, <3>3
  <2>3. OneRequest(k)'
    <3>1. OneRequest(k)
      BY <1>1 DEF Accounts, Requests
    <3>2. CASE inbox'[k] = inbox[k]
      BY <1>1, <3>1, <3>2 DEF OneRequest
    <3>3. CASE inbox[k] # << >> /\ inbox'[k] = Tail(inbox[k])
      BY <1>1, <3>1, <3>3, TailIsRest DEF OneRequest
    <3> QED BY <2>1, <3>2, <3>3
  <2>4. /\ pc'[c] \in {"ended", "dead"}
        /\ \A d \in Conns : d # c => /\ pc'[d] = pc[d] /\ out'[d] = out[d]
                                     /\ serving'[d] = serving[d]
    BY <1>1, <2>1 DEF Finish, Types
  <2>5. ASSUME NEW j \in Conns PROVE Account(j)'
    <3>1. Unread(j)' <=> Unread(j)
      BY <1>2, <2>2 DEF Unread
    <3>2. Account(j)
      BY DEF Accounts, GetsAccounted
    <3> QED BY <1>1, <2>4, <3>1, <3>2, ElsewhereKeepsAccount
  <2>6. Requests'
    BY <1>1, <1>2, <2>3 DEF Accounts, Requests, OneRequest
  <2> QED BY <2>5, <2>6 DEF GetsAccounted
<1> QED BY <1>3, <1>4

\* The handler that has read a request is alone with it, and sends each part once.
LEMMA WritingKeepsAccounts ==
    ASSUME Accounts, NEW c \in Conns, WriteHeader(c) \/ WriteBody(c)
    PROVE  Requests' /\ GetsAccounted'
<1>1. Types /\ Ordered(c) /\ pc[c] \in {"header", "body"} /\ in[c] \in Conns
  BY DEF Accounts, Inv, StreamsOrdered, StreamsOpen, WriteHeader, WriteBody
<1>0. PICK k \in Conns : k = serving[c]
  BY <1>1 DEF Ordered
<1>2. /\ out[c] \in Conns /\ dataOut[c] \in Conns
      /\ k <= out[c] /\ out[c] <= dataOut[c]
  <2>1. k = in[c] /\ in[c] <= out[c] /\ out[c] <= dataOut[c]
    BY <1>0, <1>1 DEF Ordered
  <2>2. out[c] \in 0 .. N /\ dataOut[c] \in 0 .. N /\ N \in Nat
    BY <1>1, NAssumption DEF Types
  <2> QED BY <1>1, <2>1, <2>2 DEF Conns
<1>3. Account(k) /\ UNCHANGED <<asked, client, inbox>>
  BY <1>2 DEF Accounts, GetsAccounted, WriteHeader, WriteBody, wire
<1>4. Requests'
  BY <1>3 DEF Accounts, Requests, OneRequest
<1>5. \A j \in Conns : Unread(j)' <=> Unread(j)
  BY <1>3 DEF Unread
<1>6. ASSUME NEW to \in Conns, NEW part \in {"header", "body"},
             Deliver(to, [part |-> part, of |-> k])
      PROVE  \A q \in {"header", "body"} : \A j \in Conns :
                 Got(q, j)' = IF q = part /\ j = k THEN Got(q, j) \union {to} ELSE Got(q, j)
  <2>1. received' = [received EXCEPT ![to] = @ \union {[part |-> part, of |-> k]}]
    BY <1>6 DEF Deliver
  <2> TAKE q \in {"header", "body"}
  <2> TAKE j \in Conns
  <2>3. [part |-> q, of |-> j] = [part |-> part, of |-> k] <=> q = part /\ j = k
    OBVIOUS
  <2>4. \A i \in Conns : received'[i] = IF i = to THEN received[i] \union {[part |-> part, of |-> k]}
                                                 ELSE received[i]
    BY <1>1, <2>1 DEF Types
  <2> QED BY <2>3, <2>4 DEF Got
<1>7. CASE WriteHeader(c)
  <2>1. /\ pc[c] = "header" /\ pc' = [pc EXCEPT ![c] = "body"]
        /\ UNCHANGED <<in, out, dataOut, serving>>
        /\ Deliver(out[c], [part |-> "header", of |-> k])
    BY <1>0, <1>7 DEF WriteHeader
  <2>2. Read(k) /\ asked[k] = "get" /\ AtHeader(k) = {c}
    <3>1. c \in AtHeader(k)
      BY <1>0, <2>1 DEF AtHeader
    <3> QED BY <1>3, <3>1 DEF Account, NotSeen, Read, HalfAnswered, Answered
  <2>3. AtHeader(k)' = {} /\ AtBody(k)' = {c}
    <3>1. pc'[c] = "body" /\ \A d \in Conns : d # c => pc'[d] = pc[d]
      BY <1>1, <2>1 DEF Types
    <3>2. AtHeader(k)' = {}
      BY <2>1, <2>2, <3>1 DEF AtHeader
    <3>3. AtBody(k)' = {c}
      BY <1>0, <2>1, <2>2, <3>1 DEF Read, AtBody
    <3> QED BY <3>2, <3>3
  <2>4. Got("header", k)' = {out[c]} /\ Got("body", k)' = {}
    BY <1>2, <1>6, <2>1, <2>2 DEF Read
  <2>5. HalfAnswered(k)'
    BY <1>5, <1>2, <2>1, <2>2, <2>3, <2>4 DEF HalfAnswered, Read
  <2>6. Account(k)'
    BY <1>3, <2>2, <2>5 DEF Account
  <2>7. ASSUME NEW j \in Conns, j # k PROVE Account(j)'
    <3>1. Account(j)
      BY DEF Accounts, GetsAccounted
    <3>2. AtHeader(j)' = AtHeader(j) /\ AtBody(j)' = AtBody(j)
      BY <1>0, <1>1, <2>1, <2>7 DEF AtHeader, AtBody, Types
    <3>3. Got("header", j)' = Got("header", j) /\ Got("body", j)' = Got("body", j)
      BY <1>2, <1>6, <2>1, <2>7
    <3> QED BY <1>3, <1>5, <2>1, <3>1, <3>2, <3>3, SameAccount
  <2> QED BY <1>4, <2>6, <2>7 DEF GetsAccounted
<1>8. CASE WriteBody(c)
  <2>1. /\ pc[c] = "body" /\ Finish(c, "ended")
        /\ Deliver(dataOut[c], [part |-> "body", of |-> k])
    BY <1>0, <1>8 DEF WriteBody
  <2>2. HalfAnswered(k) /\ asked[k] = "get" /\ AtBody(k) = {c} /\ Got("header", k) = {out[c]}
    <3>1. c \in AtBody(k)
      BY <1>0, <2>1 DEF AtBody
    <3> QED BY <1>3, <3>1 DEF Account, NotSeen, Read, HalfAnswered, Answered
  <2>3. /\ pc'[c] = "ended"
        /\ \A d \in Conns : d # c => /\ pc'[d] = pc[d] /\ out'[d] = out[d]
                                     /\ serving'[d] = serving[d]
    BY <1>1, <2>1 DEF Finish, Types
  <2>4. AtHeader(k)' = {} /\ AtBody(k)' = {}
    BY <2>1, <2>2, <2>3 DEF HalfAnswered, AtHeader, AtBody
  <2>5. Got("header", k)' = {out[c]} /\ Got("body", k)' = {dataOut[c]}
    BY <1>2, <1>6, <2>1, <2>2 DEF HalfAnswered
  <2>6. Answered(k)'
    BY <1>5, <1>2, <2>2, <2>4, <2>5 DEF HalfAnswered, Answered
  <2>7. Account(k)'
    BY <1>3, <2>2, <2>6 DEF Account
  <2>8. ASSUME NEW j \in Conns, j # k PROVE Account(j)'
    <3>1. Account(j)
      BY DEF Accounts, GetsAccounted
    <3>2. AtHeader(j)' = AtHeader(j) /\ AtBody(j)' = AtBody(j)
      BY <1>0, <2>1, <2>3, <2>8 DEF AtHeader, AtBody
    <3>3. Got("header", j)' = Got("header", j) /\ Got("body", j)' = Got("body", j)
      BY <1>2, <1>6, <2>1, <2>8
    <3>4. \A d \in Conns : d \in AtBody(j) => out'[d] = out[d]
      BY <1>0, <2>1, <2>3, <2>8 DEF AtBody
    <3> QED BY <1>3, <1>5, <3>1, <3>2, <3>3, <3>4, SameAccount
  <2> QED BY <1>4, <2>7, <2>8 DEF GetsAccounted
<1> QED BY <1>7, <1>8

\* No step loses a request or answers one twice.
LEMMA NextAccounts == Accounts /\ [Next]_vars => Accounts'
<1> SUFFICES ASSUME Accounts, [Next]_vars PROVE Requests' /\ GetsAccounted'
  BY NextInv DEF Accounts
<1>1. CASE Accept
  BY <1>1, OpeningKeepsAccounts
<1>2. ASSUME NEW c \in Conns, Step(c) PROVE Requests' /\ GetsAccounted'
  BY <1>2, OpeningKeepsAccounts, ReadLineKeepsAccounts, WritingKeepsAccounts DEF Step
<1>3. ASSUME NEW k \in Conns,
             (\E kind \in Kinds : Send(k, kind)) \/ SendRest(k) \/ Close(k)
      PROVE  Requests' /\ GetsAccounted'
  <2>1. "get" \in Kinds
    BY DEF Kinds
  <2> QED BY <1>3, <2>1, ClientsKeepAccounts
<1>4. CASE UNCHANGED vars
  <2>1. UNCHANGED <<pc, out, serving, client, asked, inbox, received>>
    BY <1>4 DEF vars, handler, wire
  <2>2. Requests'
    BY <2>1 DEF Accounts, Requests, OneRequest
  <2>3. ASSUME NEW k \in Conns PROVE Account(k)'
    <3>1. Unread(k)' <=> Unread(k)
      BY <2>1 DEF Unread
    <3>2. AtHeader(k)' = AtHeader(k) /\ AtBody(k)' = AtBody(k)
          /\ Got("header", k)' = Got("header", k) /\ Got("body", k)' = Got("body", k)
      BY <2>1 DEF AtHeader, AtBody, Got
    <3>3. Account(k)
      BY DEF Accounts, GetsAccounted
    <3> QED BY <2>1, <3>1, <3>2, <3>3, SameAccount
  <2> QED BY <2>2, <2>3 DEF GetsAccounted
<1> QED BY <1>1, <1>2, <1>3, <1>4 DEF Next

\* However the handlers of Practise 7 share their sockets, no GET is answered
\* twice and none is lost between its first line and its response: it is unread,
\* or one handler is at work on it, or header and body have been sent once each,
\* the body to the client that has the header or to a later one.
THEOREM GetsAnsweredOnce == Spec => []GetsAccounted
<1>1. Accounts => GetsAccounted
  BY DEF Accounts
<1> QED BY <1>1, InitAccounts, NextAccounts, PTL DEF Spec
=============================================================================
