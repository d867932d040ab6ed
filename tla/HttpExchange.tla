----------------------------- MODULE HttpExchange -----------------------------
(***************************************************************************)
(* One request, one connection, one thread: ClientHandler.run of Practise  *)
(* 8 to 10, the same in all three.  A request arrives in parts, the lines  *)
(* of its head and then its body; the thread waits for the head line by    *)
(* line, but takes of the body only what is there when it looks.  What the *)
(* request does is one step here; BookList, ListThreads, HibernateStore    *)
(* and Site10 say what is in it.                                           *)
(***************************************************************************)
EXTENDS Integers, Sequences

CONSTANTS
    Conns,
    HeadLines, \* lines of a head, the empty one included
    BodyParts  \* parts that the body of a POST arrives in

ASSUME PartsAssumption == HeadLines \in Nat \ {0} /\ BodyParts \in Nat \ {0}

VARIABLES
    kind,     \* what it asks for, "none" before there is a request
    client,   \* where the client is
    arrived,  \* parts of its request that have arrived
    backlog,  \* connections that main has not accepted
    pc,       \* where the thread of the connection is
    taken,    \* parts it has read
    prompt,   \* history: all had arrived when it looked for the body
    applied,  \* history: how often the request was carried out
    out,      \* what it has written
    socket    \* its socket

network == <<kind, arrived, backlog>>
work == <<taken, prompt>>
vars == <<network, client, pc, work, applied, out, socket>>

\* A GET, a POST of a book, or a POST that the server has no use for: another
\* address, or a body without JSON.
Kinds == {"get", "post", "stray"}
Size(k) == IF k \in {"post", "stray"} THEN HeadLines + BodyParts ELSE HeadLines

TypeOK ==
    /\ kind \in [Conns -> Kinds \union {"none"}]
    /\ client \in [Conns -> {"none", "waiting", "answered", "failed", "left"}]
    /\ arrived \in [Conns -> Nat] /\ taken \in [Conns -> Nat]
    /\ \A c \in Conns : taken[c] <= arrived[c] /\ arrived[c] <= Size(kind[c])
    /\ backlog \in Seq(Conns)
    /\ pc \in [Conns -> {"none", "head", "body", "analyze", "respond", "close", "end", "dead",
                       "collected"}]
    /\ prompt \in [Conns -> {"yes", "no"}]
    /\ applied \in [Conns -> Nat]
    /\ out \in [Conns -> {"nothing", "response"}]
    /\ socket \in [Conns -> {"open", "closed"}]

Init ==
    /\ kind = [c \in Conns |-> "none"]
    /\ client = [c \in Conns |-> "none"]
    /\ arrived = [c \in Conns |-> 0]
    /\ backlog = << >>
    /\ pc = [c \in Conns |-> "none"]
    /\ taken = [c \in Conns |-> 0]
    /\ prompt = [c \in Conns |-> "no"]
    /\ applied = [c \in Conns |-> 0]
    /\ out = [c \in Conns |-> "nothing"]
    /\ socket = [c \in Conns |-> "open"]

-----------------------------------------------------------------------------
(* The clients, and the network.                                           *)

\* A connection is complete before main accepts it.
Connect(c, k) ==
    /\ client[c] = "none"
    /\ client' = [client EXCEPT ![c] = "waiting"]
    /\ kind' = [kind EXCEPT ![c] = k]
    /\ backlog' = Append(backlog, c)
    /\ UNCHANGED <<arrived, pc, work, applied, out, socket>>

Arrive(c) ==
    /\ client[c] = "waiting" /\ socket[c] = "open"
    /\ arrived[c] < Size(kind[c])
    /\ arrived' = [arrived EXCEPT ![c] = @ + 1]
    /\ UNCHANGED <<kind, client, backlog, pc, work, applied, out, socket>>

\* The user goes to another page, or the browser gives up.
Leave(c) ==
    /\ client[c] = "waiting"
    /\ client' = [client EXCEPT ![c] = "left"]
    /\ UNCHANGED <<network, pc, work, applied, out, socket>>

\* onload, with a response as long as its Content-Length; or, at the end of
\* the connection, onerror.
Receive(c) ==
    /\ client[c] = "waiting"
    /\ \/ out[c] = "response" /\ client' = [client EXCEPT ![c] = "answered"]
       \/ /\ out[c] = "nothing" /\ socket[c] = "closed"
          /\ client' = [client EXCEPT ![c] = "failed"]
    /\ UNCHANGED <<network, pc, work, applied, out, socket>>

-----------------------------------------------------------------------------
(* The server.                                                             *)

Goto(c, label) == pc' = [pc EXCEPT ![c] = label]
Take(c) == taken' = [taken EXCEPT ![c] = @ + 1]

\* main: accept, and a thread of the cached pool, which has no bound.
Accept ==
    /\ backlog # << >>
    /\ backlog' = Tail(backlog)
    /\ Goto(Head(backlog), "head")
    /\ UNCHANGED <<kind, client, arrived, work, applied, out, socket>>

\* readLine(), down to the empty line.
ReadLine(c) ==
    /\ pc[c] = "head" /\ taken[c] < arrived[c]
    /\ Take(c)
    /\ IF taken[c] + 1 = HeadLines
       THEN /\ Goto(c, "body")
            /\ prompt' = [prompt EXCEPT ![c] = IF arrived[c] = Size(kind[c]) THEN "yes" ELSE "no"]
       ELSE UNCHANGED <<pc, prompt>>
    /\ UNCHANGED <<network, client, applied, out, socket>>

\* The client has left: readLine() is null, and its length() an exception; or
\* the connection was reset, which readLine() and ready() report by one.
ReadFails(c) ==
    /\ client[c] = "left"
    /\ pc[c] \in {"head", "body"}
    /\ Goto(c, "dead")
    /\ UNCHANGED <<network, client, work, applied, out, socket>>

\* Two mutants of ReadBody: it reads what is not there, and it takes one part.
ReadBody_NotReady(c) ==
    /\ pc[c] = "body" /\ taken[c] < Size(kind[c])
    /\ Take(c)
    /\ UNCHANGED <<network, client, pc, prompt, applied, out, socket>>
ReadBody_Once(c) ==
    /\ pc[c] = "body" /\ taken[c] < arrived[c]
    /\ Take(c) /\ Goto(c, "analyze")
    /\ UNCHANGED <<network, client, prompt, applied, out, socket>>

\* while (in.ready()), as long as it is.
ReadBody(c) ==
    /\ pc[c] = "body" /\ taken[c] < arrived[c]
    /\ Take(c)
    /\ UNCHANGED <<network, client, pc, prompt, applied, out, socket>>


\* in.ready() is false: the body is over, or has not come.
BodyEnd(c) ==
    /\ pc[c] = "body" /\ taken[c] = arrived[c]
    /\ Goto(c, "analyze")
    /\ UNCHANGED <<network, client, work, applied, out, socket>>

\* What analyzeAddress or analyzePost would do something for.
HasEffect(c) == \/ kind[c] = "get"
                \/ kind[c] = "post" /\ taken[c] = Size("post")

\* An unchecked exception ends the thread.  It can come before the request has
\* done anything: a "%" that URLDecoder cannot read, JSON that Gson cannot, a
\* pool without a connection.  And it can come after: list.remove has written a
\* size of -1 when es[-1] = null throws, and session.close() follows commit().
Throw(c) ==
    /\ pc[c] = "analyze"
    /\ Goto(c, "dead")
    /\ \/ UNCHANGED applied
       \/ HasEffect(c) /\ applied' = [applied EXCEPT ![c] = @ + 1]
    /\ UNCHANGED <<network, client, work, out, socket>>

\* A GET of a page, a list or a task; or of a file there is not, or none at all.
AnalyzeGet(c) ==
    /\ pc[c] = "analyze" /\ kind[c] = "get"
    /\ \/ applied' = [applied EXCEPT ![c] = @ + 1] /\ Goto(c, "respond")
       \/ UNCHANGED applied /\ Goto(c, "close")
    /\ UNCHANGED <<network, client, work, out, socket>>

\* A mutant of AnalyzePost: the response is written only for whom the request
\* found its book.
AnalyzePost_Silent(c) ==
    /\ pc[c] = "analyze" /\ kind[c] \in {"post", "stray"}
    /\ IF HasEffect(c)
       THEN /\ applied' = [applied EXCEPT ![c] = @ + 1]
            /\ Goto(c, "respond") \/ Goto(c, "close")
       ELSE UNCHANGED applied /\ Goto(c, "close")
    /\ UNCHANGED <<network, client, work, out, socket>>

\* A POST to another address, one without JSON, and one whose JSON has not all
\* come, are dropped without a word.
AnalyzePost(c) ==
    /\ pc[c] = "analyze" /\ kind[c] \in {"post", "stray"}
    /\ IF HasEffect(c)
       THEN applied' = [applied EXCEPT ![c] = @ + 1] /\ Goto(c, "respond")
       ELSE UNCHANGED applied /\ Goto(c, "close")
    /\ UNCHANGED <<network, client, work, out, socket>>

\* sendHttpResponse; a PrintWriter throws nothing when nobody is there.
Respond(c) ==
    /\ pc[c] = "respond"
    /\ out' = [out EXCEPT ![c] = "response"]
    /\ Goto(c, "close")
    /\ UNCHANGED <<network, client, work, applied, socket>>

\* in.close(), out.close() and clientSocket.close().
Close(c) ==
    /\ pc[c] = "close"
    /\ socket' = [socket EXCEPT ![c] = "closed"]
    /\ Goto(c, "end")
    /\ UNCHANGED <<network, client, work, applied, out>>

\* The exception has passed by the three close(); the socket stays open until
\* the garbage collector, which may never come, closes what nobody refers to.
Collect(c) ==
    /\ pc[c] = "dead"
    /\ socket' = [socket EXCEPT ![c] = "closed"]
    /\ Goto(c, "collected")
    /\ UNCHANGED <<network, client, work, applied, out>>

Step(c) == \/ ReadLine(c) \/ ReadFails(c) \/ ReadBody(c) \/ BodyEnd(c) \/ Throw(c)
           \/ AnalyzeGet(c) \/ AnalyzePost(c) \/ Respond(c) \/ Close(c)

Next == \/ Accept
        \/ \E c \in Conns : \/ \E k \in Kinds : Connect(c, k)
                            \/ Arrive(c) \/ Leave(c) \/ Receive(c)
                            \/ Step(c) \/ Collect(c)

Spec == Init /\ [][Next]_vars

\* main accepts, threads run, and browsers notice what they are sent; that a
\* request ever arrives whole, or its client leaves, is not assumed.
FairSpec == /\ Spec
            /\ WF_vars(Accept)
            /\ \A c \in Conns : WF_vars(Step(c)) /\ WF_vars(Receive(c))

-----------------------------------------------------------------------------
\* No request is carried out twice, and an answer says that it was carried out.
\* While the server runs, a connection that ends without an answer says that it
\* was not, unless an exception came in between: that can have left its change
\* behind, and a client whose socket is collected cannot tell.
OutcomeKnown ==
    \A c \in Conns :
        /\ applied[c] <= 1
        /\ client[c] = "answered" => applied[c] = 1
        /\ client[c] = "failed" => applied[c] = 0 \/ pc[c] = "collected"

\* A POST goes lost only on the way: one whose body was there when its thread
\* looked for it is carried out, unless that throws.
PromptPostsApplied ==
    \A c \in Conns : kind[c] = "post" /\ prompt[c] = "yes" /\ pc[c] = "end" => applied[c] = 1

=============================================================================
