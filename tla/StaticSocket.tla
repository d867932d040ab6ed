----------------------------- MODULE StaticSocket -----------------------------
(***************************************************************************)
(* The HTTP server of Practise 7.  SimpleHttpServer makes a ClientHandler  *)
(* and a thread for every connection, but the constructor keeps the socket *)
(* in a static field, clientDialog, which the handler's run() reads three  *)
(* times: for its reader, for the writer of the header, and for the stream *)
(* of the body.  Each read sees the last connection accepted by then.      *)
(*                                                                         *)
(* Connections are numbered in the order they are accepted; the handler    *)
(* made for connection c is called c.  The field is not volatile: reads    *)
(* are taken to see the latest write.                                      *)
(***************************************************************************)
EXTENDS Integers, Sequences

CONSTANT N \* bound: connections made

ASSUME NAssumption == N \in Nat \ {0}

Conns == 1 .. N

\* What the first line asks for: a GET with numbers, a line with numbers that
\* gets no response (HEAD, POST ...), or a line that cannot be parsed, such as
\* a browser's GET /favicon.ico.
Kinds == {"get", "quiet", "bad"}
\* What one read of a connection takes: a request's first line, alone or with
\* all that follows, or header lines that were sent apart from it.
Segments == Kinds \union {"rest"}

VARIABLES
    accepted,     \* how many connections main has accepted
    clientDialog, \* ClientHandler.clientDialog; 0 is null
    pc,           \* where each handler is
    in, out, dataOut, \* the connections its three streams belong to
    serving,      \* the connection whose first line it has read
    client,       \* what each client has sent and whether it is still there
    asked,        \* the kind of request it sent
    inbox,        \* segments sent on a connection and not yet read
    received      \* parts of responses sent down each connection

handler == <<pc, in, out, dataOut, serving>>
wire == <<client, asked, inbox>>
vars == <<accepted, clientDialog, handler, wire, received>>

Labels == {"none", "openIn", "openOut", "openData", "readLine",
           "header", "body", "ended", "dead"}
Part == [part : {"header", "body"}, of : Conns]

Types ==
    /\ accepted \in 0 .. N
    /\ clientDialog \in 0 .. N
    /\ pc \in [Conns -> Labels]
    /\ in \in [Conns -> 0 .. N]
    /\ out \in [Conns -> 0 .. N]
    /\ dataOut \in [Conns -> 0 .. N]
    /\ serving \in [Conns -> 0 .. N]
    /\ client \in [Conns -> {"new", "half", "sent", "closed"}]
    /\ asked \in [Conns -> Kinds \union {"none"}]
    /\ inbox \in [Conns -> Seq(Segments)]
    /\ received \in [Conns -> SUBSET Part]

\* The streams of a handler that reads or writes are those of connections that
\* have come, none of an earlier one than the stream opened before it.
TypeOK ==
    /\ Types
    /\ \A c \in Conns :
          pc[c] \in {"readLine", "header", "body"} =>
              /\ in[c] \in 1 .. out[c] /\ out[c] \in 1 .. dataOut[c]
              /\ dataOut[c] \in 1 .. accepted

Init ==
    /\ accepted = 0
    /\ clientDialog = 0
    /\ pc = [c \in Conns |-> "none"]
    /\ in = [c \in Conns |-> 0]
    /\ out = [c \in Conns |-> 0]
    /\ dataOut = [c \in Conns |-> 0]
    /\ serving = [c \in Conns |-> 0]
    /\ client = [k \in Conns |-> "new"]
    /\ asked = [k \in Conns |-> "none"]
    /\ inbox = [k \in Conns |-> << >>]
    /\ received = [k \in Conns |-> {}]

-----------------------------------------------------------------------------
(* The clients.                                                            *)

\* A client sends its request, at once or without its last lines.
Send(k, kind) ==
    /\ k <= accepted /\ client[k] = "new"
    /\ asked' = [asked EXCEPT ![k] = kind]
    /\ inbox' = [inbox EXCEPT ![k] = Append(@, kind)]
    /\ \E now \in {"half", "sent"} : client' = [client EXCEPT ![k] = now]
    /\ UNCHANGED <<accepted, clientDialog, handler, received>>

SendRest(k) ==
    /\ client[k] = "half"
    /\ client' = [client EXCEPT ![k] = "sent"]
    /\ inbox' = [inbox EXCEPT ![k] = Append(@, "rest")]
    /\ UNCHANGED <<accepted, clientDialog, handler, asked, received>>

\* A client leaves; what it has sent can still be read.
Close(k) ==
    /\ k <= accepted /\ client[k] # "closed"
    /\ client' = [client EXCEPT ![k] = "closed"]
    /\ UNCHANGED <<accepted, clientDialog, handler, asked, inbox, received>>

-----------------------------------------------------------------------------
(* The server.                                                             *)

\* main accepts a connection, makes its handler and starts the thread.
Accept ==
    /\ accepted < N
    /\ accepted' = accepted + 1
    /\ clientDialog' = accepted + 1
    /\ pc' = [pc EXCEPT ![accepted + 1] = "openIn"]
    /\ UNCHANGED <<in, out, dataOut, serving, wire, received>>

OpenIn(c) ==
    /\ pc[c] = "openIn"
    /\ pc' = [pc EXCEPT ![c] = "openOut"]
    /\ in' = [in EXCEPT ![c] = clientDialog]
    /\ UNCHANGED <<accepted, clientDialog, out, dataOut, serving, wire, received>>

\* A mutant of OpenOut: half of the repair, a socket of its own for the writer
\* alone.
OpenOut_Own(c) ==
    /\ pc[c] = "openOut"
    /\ pc' = [pc EXCEPT ![c] = "openData"]
    /\ out' = [out EXCEPT ![c] = c]
    /\ UNCHANGED <<accepted, clientDialog, in, dataOut, serving, wire, received>>

OpenOut(c) ==
    /\ pc[c] = "openOut"
    /\ pc' = [pc EXCEPT ![c] = "openData"]
    /\ out' = [out EXCEPT ![c] = clientDialog]
    /\ UNCHANGED <<accepted, clientDialog, in, dataOut, serving, wire, received>>

\* A mutant of OpenData: the socket the handler was made for.
OpenData_Own(c) ==
    /\ pc[c] = "openData"
    /\ pc' = [pc EXCEPT ![c] = "readLine"]
    /\ dataOut' = [dataOut EXCEPT ![c] = c]
    /\ UNCHANGED <<accepted, clientDialog, in, out, serving, wire, received>>

OpenData(c) ==
    /\ pc[c] = "openData"
    /\ pc' = [pc EXCEPT ![c] = "readLine"]
    /\ dataOut' = [dataOut EXCEPT ![c] = clientDialog]
    /\ UNCHANGED <<accepted, clientDialog, in, out, serving, wire, received>>

\* run() returns or leaves by an exception; its streams go with it.
Finish(c, how) ==
    /\ pc' = [pc EXCEPT ![c] = how]
    /\ in' = [in EXCEPT ![c] = 0]
    /\ out' = [out EXCEPT ![c] = 0]
    /\ dataOut' = [dataOut EXCEPT ![c] = 0]
    /\ serving' = [serving EXCEPT ![c] = 0]

\* in.readLine() takes what one read gives it.  Only a GET with numbers gets a
\* response.  A line without numbers, a header line in place of a request, and
\* the null of a closed connection end the thread with an unchecked exception.
ReadLine(c) ==
    /\ pc[c] = "readLine"
    /\ \/ /\ inbox[in[c]] # << >>
          /\ inbox' = [inbox EXCEPT ![in[c]] = Tail(@)]
          /\ CASE Head(inbox[in[c]]) = "get" ->
                     /\ pc' = [pc EXCEPT ![c] = "header"]
                     /\ serving' = [serving EXCEPT ![c] = in[c]]
                     /\ UNCHANGED <<in, out, dataOut>>
               [] Head(inbox[in[c]]) = "quiet" -> Finish(c, "ended")
               [] Head(inbox[in[c]]) \in {"bad", "rest"} -> Finish(c, "dead")
       \/ /\ inbox[in[c]] = << >>
          /\ client[in[c]] = "closed"
          /\ Finish(c, "dead")
          /\ UNCHANGED inbox
    /\ UNCHANGED <<accepted, clientDialog, client, asked, received>>

Deliver(k, p) == received' = [received EXCEPT ![k] = @ \union {p}]

\* out.flush() and dataOut.flush(): two connections, if main has accepted one
\* between the second and the third reading of clientDialog.
WriteHeader(c) ==
    /\ pc[c] = "header"
    /\ pc' = [pc EXCEPT ![c] = "body"]
    /\ Deliver(out[c], [part |-> "header", of |-> serving[c]])
    /\ UNCHANGED <<accepted, clientDialog, in, out, dataOut, serving, wire>>

\* A mutant of WriteBody: the body stays in the stream's buffer.
WriteBody_NoFlush(c) ==
    /\ pc[c] = "body"
    /\ Finish(c, "ended")
    /\ UNCHANGED <<accepted, clientDialog, wire, received>>

WriteBody(c) ==
    /\ pc[c] = "body"
    /\ Deliver(dataOut[c], [part |-> "body", of |-> serving[c]])
    /\ Finish(c, "ended")
    /\ UNCHANGED <<accepted, clientDialog, wire>>

Step(c) == \/ OpenIn(c) \/ OpenOut(c) \/ OpenData(c)
           \/ ReadLine(c) \/ WriteHeader(c) \/ WriteBody(c)

Next == \/ Accept
        \/ \E c \in Conns : Step(c)
        \/ \E k \in Conns : \/ \E kind \in Kinds : Send(k, kind)
                            \/ SendRest(k)
                            \/ Close(k)

Spec == Init /\ [][Next]_vars

\* The threads of the handlers run; clients and new connections come as they
\* please.
FairSpec == Spec /\ \A c \in Conns : WF_vars(Step(c))

-----------------------------------------------------------------------------
\* Streams and responses drift one way: clientDialog only moves on, so what a
\* client receives answers its own request or that of an earlier connection,
\* never that of a later one.
AnswersForward == \A k \in Conns : \A p \in received[k] : p.of <= k

\* A GET is lost only where no handler reads its connection.  While one waits
\* for its first line, some handler reads it and sends both parts of the
\* response, to whichever clients its two streams belong to.
ReadAnswered ==
    \A k \in Conns :
        asked[k] = "get" /\ (\E c \in Conns : pc[c] = "readLine" /\ in[c] = k)
            ~> \A part \in {"header", "body"} :
                  \E j \in Conns : [part |-> part, of |-> k] \in received[j]

\* "A separate thread for processing the request and forming the response":
\* what a client receives answers its own request.
OwnAnswer == \A k \in Conns : \A p \in received[k] : p.of = k
=============================================================================
