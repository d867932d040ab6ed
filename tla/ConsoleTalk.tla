----------------------------- MODULE ConsoleTalk -----------------------------
(***************************************************************************)
(* The console dialogue of Practise 6: ConsoleSender sends each line its   *)
(* user types and waits for an answer; Listener accepts one client, sends  *)
(* back the largest number of each line, and stops at "quit", at a line it *)
(* cannot parse, or when its client is gone.                               *)
(*                                                                         *)
(* The operating system completes a connection to a listening port before  *)
(* anyone accepts it, and closes what is open when a process ends: a       *)
(* reader gets all that was sent before the close, then an exception; a    *)
(* connection nobody accepted is reset.                                    *)
(***************************************************************************)
EXTENDS Integers, Sequences, SequencesExt

CONSTANTS
    Clients,  \* processes of ConsoleSender
    Numbers,  \* the integers users type
    NaN,      \* the Double that "NaN" is parsed to
    Quit,     \* the line "quit", and its echo
    Bad,      \* a line Double.parseDouble or list.get throws at: "", ","
    MaxLength,\* bound: numbers in a line
    MaxLines  \* bound: lines a user types

ASSUME NumbersAssumption == Numbers \subseteq Int /\ Numbers # {} /\ NaN \notin Int
ASSUME BoundsAssumption == MaxLength \in Nat \ {0} /\ MaxLines \in Nat \ {0}

Doubles == Numbers \union {NaN}
\* The lines of numbers with commas, no other line among them, and all that a
\* user can type.
Lines == UNION { [1 .. n -> Doubles] : n \in 1 .. MaxLength }
ASSUME LinesAssumption == Quit # Bad /\ {Quit, Bad} \intersect (Doubles \union Lines) = {}
Commands == Lines \union {Quit, Bad}
\* What the server sends: a number, or its client's "quit".
Answers == Doubles \union {Quit}

VARIABLES
    listener,  \* where Listener.start is
    served,    \* the client it accepted, as a set
    sender,    \* where each ConsoleSender.start is
    typed,     \* how many lines each user has typed
    sent,      \* history: the lines each client has sent
    printed,   \* the answers each client has printed
    toServer,  \* lines on their way from each client
    toClient,  \* answers on their way to each client
    backlog    \* connections completed and not yet accepted

network == <<toServer, toClient, backlog>>
vars == <<listener, served, sender, typed, sent, printed, network>>

\* A process that has ended has closed its sockets.
ListenerEnded == listener \in {"ended", "crashed"}
Ended(c) == sender[c] \in {"ended", "failed"}

TypeOK ==
    /\ listener \in {"start", "accept", "read", "sleep", "ended", "crashed"}
    /\ served \in SUBSET Clients
    /\ sender \in [Clients -> {"start", "console", "answer", "lastAnswer", "ended", "failed"}]
    /\ typed \in [Clients -> 0 .. MaxLines]
    /\ sent \in [Clients -> Seq(Commands)] /\ printed \in [Clients -> Seq(Answers)]
    /\ toServer \in [Clients -> Seq(Commands)] /\ toClient \in [Clients -> Seq(Answers)]
    /\ backlog \in Seq(Clients)

Init ==
    /\ listener = "start"
    /\ served = {}
    /\ sender = [c \in Clients |-> "start"]
    /\ typed = [c \in Clients |-> 0]
    /\ sent = [c \in Clients |-> << >>]
    /\ printed = [c \in Clients |-> << >>]
    /\ toServer = [c \in Clients |-> << >>]
    /\ toClient = [c \in Clients |-> << >>]
    /\ backlog = << >>

-----------------------------------------------------------------------------
(* Math: the answer to a line.                                             *)

\* Java's > on doubles: never true of NaN.
Greater(x, y) == x # NaN /\ y # NaN /\ x > y

\* Two mutants of MaxNumOfList: the largest is sought from 0 on, and a number is
\* kept only where it is greater.
MaxNumOfList_FromZero(list) ==
    LET max[n \in 0 .. Len(list)] ==
            IF n = 0 THEN 0
            ELSE IF Greater(list[n], max[n - 1]) THEN list[n] ELSE max[n - 1]
    IN  max[Len(list)]
MaxNumOfList_NotLess(list) ==
    LET max[n \in DOMAIN list] ==
            IF n = 1 THEN list[1]
            ELSE IF Greater(max[n - 1], list[n]) THEN max[n - 1] ELSE list[n]
    IN  max[Len(list)]

\* maxNumOfList: the first number, then each one that is greater.
MaxNumOfList(list) ==
    LET max[n \in DOMAIN list] ==
            IF n = 1 THEN list[1]
            ELSE IF Greater(list[n], max[n - 1]) THEN list[n] ELSE max[n - 1]
    IN  max[Len(list)]

-----------------------------------------------------------------------------
(* ConsoleSender.start                                                     *)

Go(c, to) == sender' = [sender EXCEPT ![c] = to]

\* new Socket(host, port): refused unless the port is listened to.
Connect(c) ==
    /\ sender[c] = "start"
    /\ IF listener \in {"accept", "read", "sleep"}
       THEN Go(c, "console") /\ backlog' = Append(backlog, c)
       ELSE Go(c, "failed") /\ UNCHANGED backlog
    /\ UNCHANGED <<listener, served, typed, sent, printed, toServer, toClient>>

\* A line is there: it is sent, and the client waits.  The writer of a
\* connection that is closed may still write, or may not.
SendLine(c, line) ==
    /\ sender[c] = "console"
    /\ typed[c] < MaxLines
    /\ typed' = [typed EXCEPT ![c] = @ + 1]
    /\ \/ /\ Go(c, IF line = Quit THEN "lastAnswer" ELSE "answer")
          /\ sent' = [sent EXCEPT ![c] = Append(@, line)]
          /\ toServer' = [toServer EXCEPT ![c] = Append(@, line)]
       \/ /\ ListenerEnded
          /\ Go(c, "failed")
          /\ UNCHANGED <<sent, toServer>>
    /\ UNCHANGED <<listener, served, printed, toClient, backlog>>

\* A mutant of ReadAnswer: after an exception it tries again.
ReadAnswer_Retries(c) ==
    /\ sender[c] \in {"answer", "lastAnswer"}
    /\ toClient[c] # << >>
    /\ printed' = [printed EXCEPT ![c] = Append(@, Head(toClient[c]))]
    /\ toClient' = [toClient EXCEPT ![c] = Tail(@)]
    /\ Go(c, IF sender[c] = "answer" THEN "console" ELSE "ended")
    /\ UNCHANGED <<listener, served, typed, sent, toServer, backlog>>

\* ois.readUTF and println; after "quit" the loop and the program end.
ReadAnswer(c) ==
    /\ sender[c] \in {"answer", "lastAnswer"}
    /\ \/ /\ toClient[c] # << >>
          /\ printed' = [printed EXCEPT ![c] = Append(@, Head(toClient[c]))]
          /\ toClient' = [toClient EXCEPT ![c] = Tail(@)]
          /\ Go(c, IF sender[c] = "answer" THEN "console" ELSE "ended")
       \/ /\ toClient[c] = << >> /\ ListenerEnded
          /\ Go(c, "failed")
          /\ UNCHANGED <<printed, toClient>>
    /\ UNCHANGED <<listener, served, typed, sent, toServer, backlog>>

\* The user stops the client with the console's interrupt.
Interrupt(c) ==
    /\ ~ Ended(c)
    /\ Go(c, "failed")
    /\ UNCHANGED <<listener, served, typed, sent, printed, network>>

-----------------------------------------------------------------------------
(* Listener.start                                                          *)

\* new ServerSocket(port)
Listen ==
    /\ listener = "start"
    /\ listener' = "accept"
    /\ UNCHANGED <<served, sender, typed, sent, printed, network>>

\* server.accept()
Accept ==
    /\ listener = "accept"
    /\ backlog # << >>
    /\ listener' = "read"
    /\ served' = {Head(backlog)}
    /\ backlog' = Tail(backlog)
    /\ UNCHANGED <<sender, typed, sent, printed, toServer, toClient>>

\* sendEcho; a client that is gone may make it fail.
SendEcho(c, answer, next) ==
    \/ /\ listener' = next
       /\ toClient' = [toClient EXCEPT ![c] = Append(@, answer)]
    \/ /\ Ended(c)
       /\ listener' = "ended"
       /\ UNCHANGED toClient

\* Two mutants of ReadLine: what could not be parsed is skipped, and quit is not
\* echoed.
ReadLine_SkipsBad(c) ==
    /\ listener = "read" /\ c \in served
    /\ \/ /\ toServer[c] # << >>
          /\ toServer' = [toServer EXCEPT ![c] = Tail(@)]
          /\ LET line == Head(toServer[c])
             IN  \/ line = Quit /\ SendEcho(c, Quit, "sleep")
                 \/ line = Bad /\ UNCHANGED <<listener, toClient>>
                 \/ line \in Lines /\ SendEcho(c, MaxNumOfList(line), "read")
       \/ /\ toServer[c] = << >> /\ Ended(c)
          /\ listener' = "ended"
          /\ UNCHANGED <<toServer, toClient>>
    /\ UNCHANGED <<served, sender, typed, sent, printed, backlog>>
ReadLine_NoEcho(c) ==
    /\ listener = "read" /\ c \in served
    /\ \/ /\ toServer[c] # << >>
          /\ toServer' = [toServer EXCEPT ![c] = Tail(@)]
          /\ LET line == Head(toServer[c])
             IN  \/ line = Quit /\ listener' = "sleep" /\ UNCHANGED toClient
                 \/ line = Bad /\ listener' = "crashed" /\ UNCHANGED toClient
                 \/ line \in Lines /\ SendEcho(c, MaxNumOfList(line), "read")
       \/ /\ toServer[c] = << >> /\ Ended(c)
          /\ listener' = "ended"
          /\ UNCHANGED <<toServer, toClient>>
    /\ UNCHANGED <<served, sender, typed, sent, printed, backlog>>

\* in.readUTF and the answer.  Only IOException is caught: a line that cannot
\* be parsed ends the process.
ReadLine(c) ==
    /\ listener = "read" /\ c \in served
    /\ \/ /\ toServer[c] # << >>
          /\ toServer' = [toServer EXCEPT ![c] = Tail(@)]
          /\ LET line == Head(toServer[c])
             IN  \/ line = Quit /\ SendEcho(c, Quit, "sleep")
                 \/ line = Bad /\ listener' = "crashed" /\ UNCHANGED toClient
                 \/ line \in Lines /\ SendEcho(c, MaxNumOfList(line), "read")
       \/ /\ toServer[c] = << >> /\ Ended(c)
          /\ listener' = "ended"
          /\ UNCHANGED <<toServer, toClient>>
    /\ UNCHANGED <<served, sender, typed, sent, printed, backlog>>

\* Three seconds later the sockets are closed and the program ends.
WakeUp ==
    /\ listener = "sleep"
    /\ listener' = "ended"
    /\ UNCHANGED <<served, sender, typed, sent, printed, network>>

-----------------------------------------------------------------------------
ListenerStep == Listen \/ Accept \/ (\E c \in Clients : ReadLine(c)) \/ WakeUp
Next == \/ ListenerStep
        \/ \E c \in Clients : \/ Connect(c)
                              \/ \E line \in Commands : SendLine(c, line)
                              \/ ReadAnswer(c)
                              \/ Interrupt(c)

Spec == Init /\ [][Next]_vars

\* Both programs run on; users type, or do not.
FairSpec == /\ Spec /\ WF_vars(ListenerStep)
            /\ \A c \in Clients : WF_vars(ReadAnswer(c))

-----------------------------------------------------------------------------
\* What the k-th line of numbers deserves: a number of the line no number of it
\* exceeds; NaN only where the line begins with it, for nothing is greater.
Largest(x, line) ==
    IF Head(line) = NaN
    THEN x = NaN
    ELSE x \in ToSet(line) \ {NaN} /\ \A y \in ToSet(line) \ {NaN} : y <= x

\* The k-th answer a client prints belongs to its k-th line: it is the largest
\* number of the line, or the echo of "quit"; no other client's answer comes
\* between, though one that sends before it is accepted waits beside it.
AnswersMatch ==
    \A c \in Clients : \A k \in DOMAIN printed[c] :
        LET line == sent[c][k] IN
        IF line = Quit THEN printed[c][k] = Quit ELSE Largest(printed[c][k], line)

\* A client that is being served and sends "quit" is answered before the server
\* closes: it never leaves by an exception, unless its user stops it.
QuitIsEchoed ==
    \A c \in served : sender[c] = "lastAnswer" /\ ListenerEnded => toClient[c] # << >>

Waiting(c) == sender[c] \in {"answer", "lastAnswer"}

\* The client that is served never waits for ever: for each line it gets an
\* answer, or an exception when the line has ended the server.
ServedIsAnswered ==
    \A c \in Clients :
        c \in served /\ Waiting(c) ~> ~ Waiting(c)

\* Clients that were never accepted wait without an answer, but only as long as
\* the server lives: its end, whatever brought it, sets all of them free.
EndFreesAll ==
    \A c \in Clients :
        ListenerEnded /\ Waiting(c) ~> ~ Waiting(c)
=============================================================================
