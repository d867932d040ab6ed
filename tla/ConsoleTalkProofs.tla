--------------------------- MODULE ConsoleTalkProofs ---------------------------
(***************************************************************************)
(* Proofs about ConsoleTalk, for any number of clients and lines of any    *)
(* length.                                                                 *)
(*                                                                         *)
(* The argument: what a client has printed, what is on its way to it and   *)
(* what the server has yet to read are, in this order, the lines it has    *)
(* sent (Threaded), with at most one of them unanswered (Turns) and only   *)
(* one client served (OneServed); a "quit" the server has read is followed *)
(* by its echo (Parting).  That an answer is the largest number of its     *)
(* line is an induction over the loop of maxNumOfList.  Whoever is not     *)
(* served is in the queue (Queued), so that one can say who waits for whom *)
(* (WhoWaits).                                                             *)
(***************************************************************************)
EXTENDS ConsoleTalk, SequenceTheorems, WellFoundedInduction, TLAPS

-----------------------------------------------------------------------------
(* Counting up.                                                            *)

\* A set of naturals that has a member has a least one.
LEMMA LeastNatural ==
    ASSUME NEW T, T \subseteq Nat, T # {}
    PROVE  \E m \in T : \A n \in T : m <= n
<1>1. PICK R : IsWellFoundedOn(R, Nat) /\ \A n, m \in Nat : n < m => <<n, m>> \in R
  <2>1. \A n, m \in Nat : n < m => <<n, m>> \in OpToRel(<, Nat)
    BY DEF OpToRel
  <2> QED BY <2>1, NatLessThanWellFounded
<1>2. PICK m \in T : \A n \in T : ~ (<<n, m>> \in R)
  <2>1. IsWellFoundedOn(R, Nat) /\ T \subseteq Nat /\ T # {}
    BY <1>1
  <2> QED BY <2>1, WFMin, ZenonT(60)
<1>3. \A n \in T : ~ (n < m)
  BY <1>1, <1>2
<1> QED BY <1>2, <1>3

\* A set with 1 in it, and with each number up to a bound the next one, has all
\* numbers up to the bound.
LEMMA CountUp ==
    ASSUME NEW N \in Nat, NEW S, 1 \in S, \A k \in 1 .. N : k \in S /\ k < N => k + 1 \in S
    PROVE  1 .. N \subseteq S
<1> SUFFICES ASSUME ~ (1 .. N \subseteq S) PROVE FALSE
  OBVIOUS
<1> DEFINE T == { k \in 1 .. N : k \notin S }
<1>1. PICK m \in T : \A n \in T : m <= n
  <2>1. T \subseteq Nat /\ T # {}
    OBVIOUS
  <2> HIDE DEF T
  <2> QED BY <2>1, LeastNatural
<1>2. m \in 2 .. N /\ m - 1 \in 1 .. N
  OBVIOUS
<1>3. m - 1 \in S
  BY <1>1, <1>2
<1> QED BY <1>2, <1>3

-----------------------------------------------------------------------------
(* The largest number of a line.                                           *)

\* The loop of maxNumOfList has come to place n with max[n].
Found(line, N, max) ==
    max = [n \in 1 .. N |-> IF n = 1 THEN line[1]
                            ELSE IF Greater(line[n], max[n - 1]) THEN line[n] ELSE max[n - 1]]

\* The loop has a course for every line.
LEMMA LoopRuns ==
    ASSUME NEW line, NEW N \in Nat \ {0}
    PROVE  \E max : Found(line, N, max)
<1> DEFINE S == { k \in 1 .. N : \E max : Found(line, k, max) }
<1>1. 1 \in S
  <2>1. Found(line, 1, [n \in 1 .. 1 |-> line[1]])
    BY DEF Found
  <2> QED BY <2>1
<1>2. ASSUME NEW k \in 1 .. N, k \in S, k < N PROVE k + 1 \in S
  <2>1. PICK max : Found(line, k, max)
    BY <1>2
  <2> DEFINE x == IF Greater(line[k + 1], max[k]) THEN line[k + 1] ELSE max[k]
             next == [n \in 1 .. (k + 1) |-> IF n = k + 1 THEN x ELSE max[n]]
  <2>2. \A n \in 1 .. (k + 1) : n # k + 1 => n \in 1 .. k /\ (n # 1 => n - 1 \in 1 .. k /\ n - 1 # k + 1)
    OBVIOUS
  <2>3. \A n \in 1 .. k : max[n] = IF n = 1 THEN line[1]
                                   ELSE IF Greater(line[n], max[n - 1]) THEN line[n] ELSE max[n - 1]
    BY <2>1 DEF Found
  <2>4. \A n \in 1 .. (k + 1) : next[n] = IF n = 1 THEN line[1]
                                ELSE IF Greater(line[n], next[n - 1]) THEN line[n] ELSE next[n - 1]
    <3> TAKE n \in 1 .. (k + 1)
    <3>1. CASE n = k + 1
      <4>1. next[n] = x /\ n # 1 /\ n - 1 = k /\ next[k] = max[k]
        BY <3>1
      <4> QED BY <3>1, <4>1
    <3>2. CASE n # k + 1
      <4>1. next[n] = max[n] /\ (n # 1 => next[n - 1] = max[n - 1]) /\ n \in 1 .. k
        BY <2>2, <3>2
      <4> HIDE DEF next
      <4> QED BY <2>3, <4>1
    <3> QED BY <3>1, <3>2
  <2>5. next = [n \in 1 .. (k + 1) |-> next[n]]
    OBVIOUS
  <2> HIDE DEF next
  <2>6. Found(line, k + 1, next)
    BY <2>4, <2>5 DEF Found
  <2> QED BY <1>2, <2>6
<1>3. 1 .. N \subseteq S
  <2> HIDE DEF S
  <2> QED BY <1>1, <1>2, CountUp
<1> QED BY <1>3

\* A line of numbers is a sequence of them.
LEMMA LineFacts ==
    ASSUME NEW line \in Lines
    PROVE  /\ line \in Seq(Doubles) /\ Len(line) \in Nat \ {0} /\ DOMAIN line = 1 .. Len(line)
           /\ Head(line) = line[1] /\ \A k \in 1 .. Len(line) : line[k] \in Doubles
<1>1. PICK n \in 1 .. MaxLength : line \in [1 .. n -> Doubles]
  BY DEF Lines
<1>2. line \in Seq(Doubles) /\ Len(line) = n
  BY <1>1, BoundsAssumption
<1> QED BY <1>1, <1>2

\* MaxNumOfList is the end of that course.
LEMMA LoopOf ==
    ASSUME NEW line \in Lines
    PROVE  \E max : Found(line, Len(line), max) /\ MaxNumOfList(line) = max[Len(line)]
<1>1. DOMAIN line = 1 .. Len(line) /\ Len(line) \in Nat \ {0}
  BY LineFacts
<1> DEFINE max == CHOOSE m : Found(line, Len(line), m)
<1>2. Found(line, Len(line), max)
  BY <1>1, LoopRuns
<1>3. MaxNumOfList(line) = max[Len(line)]
  BY <1>1 DEF MaxNumOfList, Found
<1> QED BY <1>2, <1>3

\* x is the largest of the first n numbers of a line.
LargestTo(x, line, n) ==
    IF line[1] = NaN
    THEN x = NaN
    ELSE /\ x # NaN /\ \E j \in 1 .. n : line[j] = x
         /\ \A j \in 1 .. n : line[j] # NaN => line[j] <= x

\* One more number.
LEMMA NextLargest ==
    ASSUME NEW line \in Lines, NEW n \in 1 .. Len(line), n + 1 \in 1 .. Len(line),
           NEW x \in Doubles, LargestTo(x, line, n)
    PROVE  LargestTo(IF Greater(line[n + 1], x) THEN line[n + 1] ELSE x, line, n + 1)
<1>1. \A j \in 1 .. Len(line) : line[j] \in Doubles
  BY LineFacts
<1>2. \A d \in Doubles : d # NaN => d \in Int
  BY NumbersAssumption DEF Doubles
<1>3. \A j \in 1 .. (n + 1) : j \in 1 .. n \/ j = n + 1
  OBVIOUS
<1>4. n \in Nat /\ \A j \in 1 .. n : j \in 1 .. (n + 1)
  OBVIOUS
<1>5. CASE line[1] = NaN
  BY <1>5 DEF LargestTo, Greater
<1>6. CASE line[1] # NaN /\ ~ Greater(line[n + 1], x)
  BY <1>1, <1>2, <1>3, <1>4, <1>6 DEF LargestTo, Greater
<1>7. CASE line[1] # NaN /\ Greater(line[n + 1], x)
  <2>1. line[n + 1] # NaN /\ x # NaN /\ line[n + 1] \in Int /\ x \in Int /\ line[n + 1] > x
    BY <1>1, <1>2, <1>7 DEF Greater
  <2>2. \A j \in 1 .. n : line[j] # NaN => line[j] \in Int /\ line[j] <= x
    BY <1>1, <1>2, <1>4, <1>7 DEF LargestTo
  <2>3. \A j \in 1 .. (n + 1) : line[j] # NaN => line[j] <= line[n + 1]
    BY <1>3, <2>1, <2>2
  <2> QED BY <1>4, <1>7, <2>1, <2>3 DEF LargestTo
<1> QED BY <1>5, <1>6, <1>7

\* maxNumOfList finds the largest number of every line that there is, whatever
\* its length, and NaN just where the line begins with it.
LEMMA LargestFound ==
    ASSUME NEW line \in Lines
    PROVE  MaxNumOfList(line) \in Doubles /\ Largest(MaxNumOfList(line), line)
<1> PICK N : N = Len(line)
  OBVIOUS
<1>1. N \in Nat \ {0} /\ DOMAIN line = 1 .. N /\ \A k \in 1 .. N : line[k] \in Doubles
  BY LineFacts
<1>2. PICK max : Found(line, N, max) /\ MaxNumOfList(line) = max[N]
  BY LoopOf
<1>3. \A n \in 1 .. N : max[n] = IF n = 1 THEN line[1]
                                 ELSE IF Greater(line[n], max[n - 1]) THEN line[n] ELSE max[n - 1]
  BY <1>2 DEF Found
<1> DEFINE S == { n \in 1 .. N : max[n] \in Doubles /\ LargestTo(max[n], line, n) }
<1>4. 1 \in S
  <2>1. 1 \in 1 .. N /\ max[1] = line[1] /\ line[1] \in Doubles /\ \A j \in 1 .. 1 : j = 1
    BY <1>1, <1>3
  <2>2. \A d \in Doubles : d # NaN => d \in Int /\ d <= d
    BY NumbersAssumption DEF Doubles
  <2>3. LargestTo(max[1], line, 1)
    BY <2>1, <2>2 DEF LargestTo
  <2> QED BY <2>1, <2>3
<1>5. ASSUME NEW n \in 1 .. N, n \in S, n < N PROVE n + 1 \in S
  <2>1. n + 1 \in 1 .. N /\ n + 1 # 1 /\ (n + 1) - 1 = n
    BY <1>1, <1>5
  <2>2. max[n + 1] = IF Greater(line[n + 1], max[n]) THEN line[n + 1] ELSE max[n]
    BY <1>3, <2>1
  <2>3. LargestTo(max[n + 1], line, n + 1)
    BY <1>5, <2>1, <2>2, NextLargest
  <2>4. max[n + 1] \in Doubles
    BY <1>1, <1>5, <2>1, <2>2
  <2> QED BY <2>1, <2>3, <2>4
<1>6. 1 .. N \subseteq S
  <2> HIDE DEF S
  <2> QED BY <1>1, <1>4, <1>5, CountUp
<1>7. max[N] \in Doubles /\ LargestTo(max[N], line, N)
  BY <1>1, <1>6
<1>8. Head(line) = line[1] /\ ToSet(line) = { line[k] : k \in 1 .. N }
  BY <1>1, LineFacts DEF ToSet
<1> QED BY <1>2, <1>7, <1>8 DEF Largest, LargestTo

-----------------------------------------------------------------------------
(* The inductive invariant.                                                *)

\* An answer that belongs to a line.
Fits(answer, line) == IF line = Quit THEN answer = Quit ELSE Largest(answer, line)

\* The answers printed and those on their way belong to the lines sent, one by
\* one, and the lines on their way are the last of those sent.
Threaded(pr, cl, se, li) ==
    /\ Len(pr) + Len(cl) + Len(se) <= Len(li)
    /\ \A k \in 1 .. Len(se) : se[k] = li[Len(li) - Len(se) + k]
    /\ \A k \in 1 .. Len(pr) : Fits(pr[k], li[k])
    /\ \A k \in 1 .. Len(cl) : Fits(cl[k], li[Len(pr) + k])

\* What is missing is what ended the server.
InStep(c) == Len(printed[c]) + Len(toClient[c]) + Len(toServer[c]) = Len(sent[c])
Flow(c) == /\ Threaded(printed[c], toClient[c], toServer[c], sent[c])
           /\ ~ ListenerEnded => InStep(c)

\* A client waits for the answer to its last line, or for none.
Turns(c) ==
    /\ sender[c] \in {"start", "console"} => Len(sent[c]) = Len(printed[c])
    /\ sender[c] \in {"answer", "lastAnswer"} =>
          /\ Len(sent[c]) = Len(printed[c]) + 1
          /\ sender[c] = "lastAnswer" <=> sent[c][Len(sent[c])] = Quit

\* The one client that is accepted, and those that may be, are connected.
OneServed ==
    /\ \A c, d \in served : c = d
    /\ listener \in {"start", "accept"} => served = {}
    /\ \A c \in served : sender[c] # "start"
    /\ \A k \in 1 .. Len(backlog) : sender[backlog[k]] # "start"

\* The server goes to sleep for the "quit" of its client, crashes at another line
\* of it, and ends without either only when its client has.
Parting ==
    \A c \in served : listener \in {"sleep", "ended", "crashed"} =>
        /\ sender[c] # "console"
        /\ sender[c] = "answer" => listener = "crashed" /\ toClient[c] = << >>
        /\ sender[c] = "lastAnswer" => toClient[c] # << >>

IInv == TypeOK /\ (\A c \in Clients : Flow(c) /\ Turns(c)) /\ OneServed /\ Parting

-----------------------------------------------------------------------------
(* What is said and heard.                                                 *)

\* A message put on its way, and ...
LEMMA Appended ==
    ASSUME NEW S, NEW s \in Seq(S), NEW e \in S
    PROVE  /\ Append(s, e) \in Seq(S) /\ Append(s, e) # << >>
           /\ Len(Append(s, e)) = Len(s) + 1 /\ Len(s) \in Nat
           /\ Append(s, e)[Len(s) + 1] = e /\ \A k \in 1 .. Len(s) : Append(s, e)[k] = s[k]
OBVIOUS

\* ... one taken off it.
LEMMA Taken ==
    ASSUME NEW S, NEW s \in Seq(S), s # << >>
    PROVE  /\ Tail(s) \in Seq(S) /\ Len(Tail(s)) = Len(s) - 1 /\ Len(s) \in Nat \ {0}
           /\ Head(s) \in S /\ Head(s) = s[1]
           /\ \A k \in 1 .. (Len(s) - 1) : Tail(s)[k] = s[k + 1]
BY HeadTailProperties

LEMMA Sums ==
    ASSUME NEW p \in Nat, NEW q \in Nat, NEW r \in Nat, NEW n \in Nat, p + q + r = n
    PROVE  /\ p + q + (r + 1) = n + 1 /\ (p + 1) + (q - 1) + r = n
           /\ p + (q + 1) + (r - 1) = n
OBVIOUS

\* A client sends a line.
LEMMA Said ==
    ASSUME NEW pr \in Seq(Answers), NEW cl \in Seq(Answers), NEW se \in Seq(Commands),
           NEW li \in Seq(Commands), NEW x \in Commands, Threaded(pr, cl, se, li)
    PROVE  Threaded(pr, cl, Append(se, x), Append(li, x))
<1> PICK s2, l2 : s2 = Append(se, x) /\ l2 = Append(li, x)
  OBVIOUS
<1>1. /\ Len(s2) = Len(se) + 1 /\ Len(l2) = Len(li) + 1
      /\ Len(pr) \in Nat /\ Len(cl) \in Nat /\ Len(se) \in Nat /\ Len(li) \in Nat
      /\ s2[Len(se) + 1] = x /\ l2[Len(li) + 1] = x
      /\ \A k \in 1 .. Len(se) : s2[k] = se[k]
      /\ \A k \in 1 .. Len(li) : l2[k] = li[k]
  BY Appended
<1>2. ASSUME NEW k \in 1 .. (Len(se) + 1) PROVE s2[k] = l2[Len(li) - Len(se) + k]
  <2>1. CASE k = Len(se) + 1
    BY <1>1, <2>1
  <2>2. CASE k \in 1 .. Len(se)
    <3>1. Len(li) - Len(se) + k \in 1 .. Len(li)
      BY <1>1, <2>2 DEF Threaded
    <3> QED BY <1>1, <2>2, <3>1 DEF Threaded
  <2>3. k = Len(se) + 1 \/ k \in 1 .. Len(se)
    BY <1>1
  <2> QED BY <2>1, <2>2, <2>3
<1>3. \A k \in 1 .. Len(pr) : k \in 1 .. Len(li)
  BY <1>1 DEF Threaded
<1>4. \A k \in 1 .. Len(cl) : Len(pr) + k \in 1 .. Len(li)
  BY <1>1 DEF Threaded
<1>5. Len(l2) - Len(s2) = Len(li) - Len(se) /\ Len(pr) + Len(cl) + Len(s2) <= Len(l2)
  BY <1>1 DEF Threaded
<1> QED BY <1>1, <1>2, <1>3, <1>4, <1>5 DEF Threaded

\* The server reads a line and does not answer.
LEMMA Lost ==
    ASSUME NEW pr \in Seq(Answers), NEW cl \in Seq(Answers), NEW se \in Seq(Commands),
           NEW li \in Seq(Commands), se # << >>, Threaded(pr, cl, se, li)
    PROVE  Threaded(pr, cl, Tail(se), li)
<1>1. /\ Len(Tail(se)) = Len(se) - 1 /\ Len(se) \in Nat \ {0}
      /\ \A k \in 1 .. (Len(se) - 1) : Tail(se)[k] = se[k + 1]
      /\ Len(pr) \in Nat /\ Len(cl) \in Nat /\ Len(li) \in Nat
  BY Taken
<1>2. \A k \in 1 .. (Len(se) - 1) : k + 1 \in 1 .. Len(se)
                                    /\ Len(li) - (Len(se) - 1) + k = Len(li) - Len(se) + (k + 1)
  BY <1>1
<1> QED BY <1>1, <1>2 DEF Threaded

\* The server answers the line it has read.
LEMMA Replied ==
    ASSUME NEW pr \in Seq(Answers), NEW cl \in Seq(Answers), NEW se \in Seq(Commands),
           NEW li \in Seq(Commands), se # << >>, Threaded(pr, cl, se, li),
           Len(pr) + Len(cl) + Len(se) = Len(li), NEW a \in Answers, Fits(a, Head(se))
    PROVE  Threaded(pr, Append(cl, a), Tail(se), li)
<1> PICK c2 : c2 = Append(cl, a)
  OBVIOUS
<1>1. /\ Len(c2) = Len(cl) + 1 /\ c2[Len(cl) + 1] = a
      /\ \A k \in 1 .. Len(cl) : c2[k] = cl[k]
      /\ Len(pr) \in Nat /\ Len(cl) \in Nat /\ Len(li) \in Nat
  BY Appended
<1>2. /\ Threaded(pr, cl, Tail(se), li) /\ Head(se) = se[1]
      /\ Len(Tail(se)) = Len(se) - 1 /\ Len(se) \in Nat \ {0}
  BY Lost, Taken
<1>3. se[1] = li[Len(pr) + (Len(cl) + 1)]
  <2>1. 1 \in 1 .. Len(se)
    BY <1>2
  <2>2. Len(li) - Len(se) + 1 = Len(pr) + (Len(cl) + 1)
    BY <1>1, <1>2
  <2> QED BY <2>1, <2>2 DEF Threaded
<1>4. \A k \in 1 .. (Len(cl) + 1) : k = Len(cl) + 1 \/ k \in 1 .. Len(cl)
  BY <1>1
<1>5. Len(pr) + Len(c2) + Len(Tail(se)) <= Len(li)
  BY <1>1, <1>2
<1>6. \A k \in 1 .. Len(c2) : Fits(c2[k], li[Len(pr) + k])
  <2>1. \A k \in 1 .. Len(cl) : Fits(c2[k], li[Len(pr) + k])
    BY <1>1 DEF Threaded
  <2> QED BY <1>1, <1>2, <1>3, <1>4, <2>1
<1> QED BY <1>2, <1>5, <1>6 DEF Threaded

\* A client prints an answer.
LEMMA Heard ==
    ASSUME NEW pr \in Seq(Answers), NEW cl \in Seq(Answers), NEW se \in Seq(Commands),
           NEW li \in Seq(Commands), cl # << >>, Threaded(pr, cl, se, li)
    PROVE  Threaded(Append(pr, Head(cl)), Tail(cl), se, li)
<1> PICK p2, c2 : p2 = Append(pr, Head(cl)) /\ c2 = Tail(cl)
  OBVIOUS
<1>1. /\ Len(c2) = Len(cl) - 1 /\ Len(cl) \in Nat \ {0} /\ Head(cl) \in Answers /\ Head(cl) = cl[1]
      /\ \A k \in 1 .. (Len(cl) - 1) : c2[k] = cl[k + 1]
  BY Taken
<1>2. /\ Len(p2) = Len(pr) + 1 /\ p2[Len(pr) + 1] = cl[1]
      /\ \A k \in 1 .. Len(pr) : p2[k] = pr[k]
      /\ Len(pr) \in Nat /\ Len(se) \in Nat /\ Len(li) \in Nat
  BY <1>1, Appended
<1>3. Fits(cl[1], li[Len(pr) + 1])
  <2>1. 1 \in 1 .. Len(cl)
    BY <1>1
  <2> QED BY <2>1 DEF Threaded
<1>4. \A k \in 1 .. (Len(pr) + 1) : k = Len(pr) + 1 \/ k \in 1 .. Len(pr)
  BY <1>2
<1>5. \A k \in 1 .. (Len(cl) - 1) : k + 1 \in 1 .. Len(cl) /\ Len(p2) + k = Len(pr) + (k + 1)
  BY <1>1, <1>2
<1>6. Len(p2) + Len(c2) + Len(se) <= Len(li)
  BY <1>1, <1>2 DEF Threaded
<1> QED BY <1>1, <1>2, <1>3, <1>4, <1>5, <1>6 DEF Threaded

-----------------------------------------------------------------------------
(* The steps.                                                              *)

\* What the types say of a client.
LEMMA TypeFacts ==
    ASSUME TypeOK, NEW c \in Clients
    PROVE  /\ sent[c] \in Seq(Commands) /\ printed[c] \in Seq(Answers)
           /\ toServer[c] \in Seq(Commands) /\ toClient[c] \in Seq(Answers)
           /\ Len(sent[c]) \in Nat /\ Len(printed[c]) \in Nat
           /\ Len(toServer[c]) \in Nat /\ Len(toClient[c]) \in Nat
BY DEF TypeOK

\* Connections that wait for accept.
LEMMA BacklogFacts ==
    ASSUME TypeOK
    PROVE  /\ backlog \in Seq(Clients) /\ served \subseteq Clients
           /\ \A k \in 1 .. Len(backlog) : backlog[k] \in Clients
<1>1. backlog \in Seq(Clients) /\ served \subseteq Clients
  BY DEF TypeOK
<1> QED BY <1>1, ElementOfSeq

\* Who neither speaks nor hears keeps its flow.
LEMMA FlowKept ==
    ASSUME NEW c, Flow(c), sent'[c] = sent[c], printed'[c] = printed[c],
           toServer'[c] = toServer[c], toClient'[c] = toClient[c],
           ListenerEnded => ListenerEnded'
    PROVE  Flow(c)'
BY DEF Flow, InStep

\* Who neither sends nor prints keeps its turn.
LEMMA TurnsKept ==
    ASSUME NEW c, Turns(c), sent'[c] = sent[c], printed'[c] = printed[c],
           sender'[c] = sender[c] \/ sender'[c] \in {"ended", "failed"}
    PROVE  Turns(c)'
BY DEF Turns

\* The programs begin, and nobody has said anything.
LEMMA InitInv == Init => IInv
<1> SUFFICES ASSUME Init PROVE IInv
  OBVIOUS
<1>1. TypeOK
  BY BoundsAssumption DEF Init, TypeOK
<1>2. ASSUME NEW c \in Clients PROVE Flow(c) /\ Turns(c)
  <2>1. /\ sent[c] = << >> /\ printed[c] = << >> /\ toServer[c] = << >> /\ toClient[c] = << >>
        /\ Len(<< >>) = 0 /\ sender[c] = "start"
    BY DEF Init
  <2> QED BY <2>1 DEF Flow, InStep, Threaded, Turns
<1>3. OneServed /\ Parting
  BY DEF Init, OneServed, Parting
<1> QED BY <1>1, <1>2, <1>3 DEF IInv

\* A connection is made, or refused.
LEMMA ConnectKeepsInv == ASSUME IInv, NEW c \in Clients, Connect(c) PROVE IInv'
<1>1. /\ TypeOK /\ sender[c] = "start"
      /\ UNCHANGED <<listener, served, typed, sent, printed, toServer, toClient>>
      /\ \/ sender' = [sender EXCEPT ![c] = "console"] /\ backlog' = Append(backlog, c)
         \/ sender' = [sender EXCEPT ![c] = "failed"] /\ backlog' = backlog
  BY DEF IInv, Connect, Go
<1>2. backlog' \in Seq(Clients)
  <2>1. backlog \in Seq(Clients)
    BY <1>1 DEF TypeOK
  <2> QED BY <1>1, <2>1, Appended
<1>3. TypeOK'
  <2>1. sender' \in [Clients -> {"start", "console", "answer", "lastAnswer", "ended", "failed"}]
    BY <1>1 DEF TypeOK
  <2> QED BY <1>1, <1>2, <2>1 DEF TypeOK
<1>4. \A d \in Clients : (d # c => sender'[d] = sender[d]) /\ sender'[c] \in {"console", "failed"}
  BY <1>1 DEF TypeOK
<1>5. ASSUME NEW d \in Clients PROVE Flow(d)' /\ Turns(d)'
  <2>1. Flow(d)'
    BY <1>1, FlowKept DEF IInv, ListenerEnded
  <2>2. Turns(d)'
    BY <1>1, <1>4 DEF IInv, Turns
  <2> QED BY <2>1, <2>2
<1>6. OneServed'
  <2>1. ASSUME NEW k \in 1 .. Len(backlog) PROVE sender'[backlog[k]] # "start"
    <3>1. backlog[k] \in Clients
      BY <1>1 DEF TypeOK
    <3>2. sender[backlog[k]] # "start"
      BY DEF IInv, OneServed
    <3> QED BY <1>1, <1>4, <3>1, <3>2
  <2>2. \A k \in 1 .. Len(backlog') : sender'[backlog'[k]] # "start"
    <3>1. CASE backlog' = backlog
      BY <2>1, <3>1
    <3>2. CASE backlog' = Append(backlog, c)
      <4>1. /\ Len(backlog') = Len(backlog) + 1 /\ Len(backlog) \in Nat
            /\ backlog'[Len(backlog) + 1] = c /\ \A k \in 1 .. Len(backlog) : backlog'[k] = backlog[k]
        BY <1>1, <3>2, Appended DEF TypeOK
      <4>2. \A k \in 1 .. (Len(backlog) + 1) : k = Len(backlog) + 1 \/ k \in 1 .. Len(backlog)
        BY <4>1
      <4> QED BY <1>4, <2>1, <4>1, <4>2
    <3> QED BY <1>1, <3>1, <3>2
  <2> QED BY <1>1, <1>4, <2>2 DEF IInv, OneServed, TypeOK
<1>7. Parting'
  <2>1. c \notin served /\ served \subseteq Clients
    BY <1>1 DEF IInv, OneServed, TypeOK
  <2> QED BY <1>1, <1>4, <2>1 DEF IInv, Parting
<1> QED BY <1>3, <1>5, <1>6, <1>7 DEF IInv

\* A line is sent, or cannot be.
LEMMA SendKeepsInv == ASSUME IInv, NEW c \in Clients, NEW line \in Commands, SendLine(c, line) PROVE IInv'
<1>1. /\ TypeOK /\ sender[c] = "console" /\ typed[c] < MaxLines /\ typed' = [typed EXCEPT ![c] = @ + 1]
      /\ UNCHANGED <<listener, served, printed, toClient, backlog>>
  BY DEF IInv, SendLine
<1>2. \/ /\ sender' = [sender EXCEPT ![c] = IF line = Quit THEN "lastAnswer" ELSE "answer"]
         /\ sent' = [sent EXCEPT ![c] = Append(@, line)]
         /\ toServer' = [toServer EXCEPT ![c] = Append(@, line)]
      \/ /\ sender' = [sender EXCEPT ![c] = "failed"]
         /\ UNCHANGED <<sent, toServer>>
  BY DEF SendLine, Go
<1>3. /\ Append(sent[c], line) \in Seq(Commands) /\ Len(Append(sent[c], line)) = Len(sent[c]) + 1
      /\ Append(toServer[c], line) \in Seq(Commands) /\ Len(Append(toServer[c], line)) = Len(toServer[c]) + 1
      /\ Append(sent[c], line)[Len(sent[c]) + 1] = line
  BY <1>1, TypeFacts, Appended
<1>4. typed' \in [Clients -> 0 .. MaxLines]
  <2>1. typed[c] + 1 \in 0 .. MaxLines
    BY <1>1, BoundsAssumption DEF TypeOK
  <2> QED BY <1>1, <2>1 DEF TypeOK
<1>5. TypeOK'
  <2>1. sender' \in [Clients -> {"start", "console", "answer", "lastAnswer", "ended", "failed"}]
    BY <1>1, <1>2 DEF TypeOK
  <2>2. sent' \in [Clients -> Seq(Commands)] /\ toServer' \in [Clients -> Seq(Commands)]
    <3>1. sent \in [Clients -> Seq(Commands)] /\ toServer \in [Clients -> Seq(Commands)]
      BY <1>1 DEF TypeOK
    <3> QED BY <1>2, <1>3, <3>1, ZenonT(60)
  <2> QED BY <1>1, <1>4, <2>1, <2>2 DEF TypeOK
<1>6. \A d \in Clients \ {c} : sender'[d] = sender[d] /\ sent'[d] = sent[d] /\ toServer'[d] = toServer[d]
  BY <1>1, <1>2 DEF TypeOK
<1>7. /\ served \subseteq Clients
      /\ \/ /\ sender'[c] = "lastAnswer" <=> line = Quit
            /\ sender'[c] \in {"answer", "lastAnswer"}
            /\ sent'[c] = Append(sent[c], line) /\ toServer'[c] = Append(toServer[c], line)
         \/ sender'[c] = "failed" /\ sent'[c] = sent[c] /\ toServer'[c] = toServer[c]
  BY <1>1, <1>2 DEF TypeOK
<1>8. ASSUME NEW d \in Clients \ {c} PROVE Flow(d)' /\ Turns(d)'
  BY <1>1, <1>6, FlowKept, TurnsKept DEF IInv, ListenerEnded
<1>9. Flow(c)' /\ Turns(c)'
  <2>1. CASE sender'[c] = "failed" /\ sent'[c] = sent[c] /\ toServer'[c] = toServer[c]
    BY <1>1, <2>1, FlowKept, TurnsKept DEF IInv, ListenerEnded
  <2>2. CASE /\ sender'[c] = "lastAnswer" <=> line = Quit
             /\ sender'[c] \in {"answer", "lastAnswer"}
             /\ sent'[c] = Append(sent[c], line) /\ toServer'[c] = Append(toServer[c], line)
    <3>1. Threaded(printed[c], toClient[c], toServer'[c], sent'[c])
      BY <1>1, <2>2, TypeFacts, Said DEF IInv, Flow
    <3>2. ~ ListenerEnded => Len(printed[c]) + Len(toClient[c]) + Len(toServer'[c]) = Len(sent'[c])
      <4>1. /\ Len(sent[c]) \in Nat /\ Len(printed[c]) \in Nat
            /\ Len(toServer[c]) \in Nat /\ Len(toClient[c]) \in Nat
        BY <1>1, TypeFacts
      <4>2. ~ ListenerEnded => Len(printed[c]) + Len(toClient[c]) + Len(toServer[c]) = Len(sent[c])
        BY DEF IInv, Flow, InStep
      <4>3. Len(sent'[c]) = Len(sent[c]) + 1 /\ Len(toServer'[c]) = Len(toServer[c]) + 1
        BY <1>3, <2>2
      <4>4. PICK p, q, r, n : /\ p = Len(printed[c]) /\ q = Len(toClient[c])
                              /\ r = Len(toServer[c]) /\ n = Len(sent[c])
        OBVIOUS
      <4>5. p \in Nat /\ q \in Nat /\ r \in Nat /\ n \in Nat /\ (~ ListenerEnded => p + q + r = n)
        BY <4>1, <4>2, <4>4
      <4>6. ~ ListenerEnded => p + q + (r + 1) = n + 1
        BY <4>5, Sums
      <4> QED BY <4>3, <4>4, <4>6
    <3>3. Flow(c)'
      BY <1>1, <3>1, <3>2 DEF Flow, InStep, ListenerEnded
    <3>4. Len(sent[c]) = Len(printed[c])
      BY <1>1 DEF IInv, Turns
    <3>5. Turns(c)'
      BY <1>1, <1>3, <2>2, <3>4 DEF Turns
    <3> QED BY <3>3, <3>5
  <2> QED BY <1>7, <2>1, <2>2
<1>10. OneServed'
  <2>1. \A d \in Clients : sender[d] # "start" => sender'[d] # "start"
    BY <1>6, <1>7
  <2>2. \A k \in 1 .. Len(backlog) : backlog[k] \in Clients
    BY <1>1 DEF TypeOK
  <2> QED BY <1>1, <1>7, <2>1, <2>2 DEF IInv, OneServed
<1>11. Parting'
  BY <1>1, <1>6, <1>7 DEF IInv, Parting
<1> QED BY <1>5, <1>8, <1>9, <1>10, <1>11 DEF IInv

\* An answer is printed, or an exception ends the client.
LEMMA AnswerKeepsInv == ASSUME IInv, NEW c \in Clients, ReadAnswer(c) PROVE IInv'
<1>1. /\ TypeOK /\ sender[c] \in {"answer", "lastAnswer"}
      /\ UNCHANGED <<listener, served, typed, sent, toServer, backlog>>
  BY DEF IInv, ReadAnswer
<1>2. \/ /\ toClient[c] # << >>
         /\ printed' = [printed EXCEPT ![c] = Append(@, Head(toClient[c]))]
         /\ toClient' = [toClient EXCEPT ![c] = Tail(@)]
         /\ sender' = [sender EXCEPT ![c] = IF sender[c] = "answer" THEN "console" ELSE "ended"]
      \/ /\ sender' = [sender EXCEPT ![c] = "failed"]
         /\ UNCHANGED <<printed, toClient>>
  BY DEF ReadAnswer, Go
<1>3. toClient[c] # << >> =>
          /\ Tail(toClient[c]) \in Seq(Answers) /\ Len(Tail(toClient[c])) = Len(toClient[c]) - 1
          /\ Append(printed[c], Head(toClient[c])) \in Seq(Answers)
          /\ Len(Append(printed[c], Head(toClient[c]))) = Len(printed[c]) + 1
  <2>1. toClient[c] # << >> => Head(toClient[c]) \in Answers
    BY <1>1, TypeFacts, Taken
  <2> QED BY <1>1, <2>1, TypeFacts, Taken, Appended
<1>4. TypeOK'
  <2>1. sender' \in [Clients -> {"start", "console", "answer", "lastAnswer", "ended", "failed"}]
    BY <1>1, <1>2 DEF TypeOK
  <2>2. printed' \in [Clients -> Seq(Answers)] /\ toClient' \in [Clients -> Seq(Answers)]
    <3>1. printed \in [Clients -> Seq(Answers)] /\ toClient \in [Clients -> Seq(Answers)]
      BY <1>1 DEF TypeOK
    <3> QED BY <1>2, <1>3, <3>1
  <2> QED BY <1>1, <2>1, <2>2 DEF TypeOK
<1>5. \A d \in Clients \ {c} : sender'[d] = sender[d] /\ printed'[d] = printed[d] /\ toClient'[d] = toClient[d]
  BY <1>1, <1>2 DEF TypeOK
<1>6. \/ /\ toClient[c] # << >> /\ printed'[c] = Append(printed[c], Head(toClient[c]))
         /\ toClient'[c] = Tail(toClient[c])
         /\ sender'[c] = IF sender[c] = "answer" THEN "console" ELSE "ended"
      \/ sender'[c] = "failed" /\ printed'[c] = printed[c] /\ toClient'[c] = toClient[c]
  BY <1>1, <1>2 DEF TypeOK
<1>7. ASSUME NEW d \in Clients \ {c} PROVE Flow(d)' /\ Turns(d)'
  BY <1>1, <1>5, FlowKept, TurnsKept DEF IInv, ListenerEnded
<1>8. Flow(c)' /\ Turns(c)'
  <2>1. CASE sender'[c] = "failed" /\ printed'[c] = printed[c] /\ toClient'[c] = toClient[c]
    BY <1>1, <2>1, FlowKept, TurnsKept DEF IInv, ListenerEnded
  <2>2. CASE /\ toClient[c] # << >> /\ printed'[c] = Append(printed[c], Head(toClient[c]))
             /\ toClient'[c] = Tail(toClient[c])
             /\ sender'[c] = IF sender[c] = "answer" THEN "console" ELSE "ended"
    <3>1. Threaded(printed'[c], toClient'[c], toServer[c], sent[c])
      BY <1>1, <2>2, TypeFacts, Heard DEF IInv, Flow
    <3>2. /\ Len(sent[c]) \in Nat /\ Len(printed[c]) \in Nat
          /\ Len(toServer[c]) \in Nat /\ Len(toClient[c]) \in Nat
          /\ Len(printed'[c]) = Len(printed[c]) + 1 /\ Len(toClient'[c]) = Len(toClient[c]) - 1
      BY <1>1, <1>3, <2>2, TypeFacts
    <3>3. ~ ListenerEnded => Len(printed[c]) + Len(toClient[c]) + Len(toServer[c]) = Len(sent[c])
      BY DEF IInv, Flow, InStep
    <3>4. ~ ListenerEnded => Len(printed'[c]) + Len(toClient'[c]) + Len(toServer[c]) = Len(sent[c])
      <4>1. PICK p, q, r, n : /\ p = Len(printed[c]) /\ q = Len(toClient[c])
                              /\ r = Len(toServer[c]) /\ n = Len(sent[c])
        OBVIOUS
      <4>2. p \in Nat /\ q \in Nat /\ r \in Nat /\ n \in Nat /\ (~ ListenerEnded => p + q + r = n)
        BY <3>2, <3>3, <4>1
      <4>3. ~ ListenerEnded => (p + 1) + (q - 1) + r = n
        BY <4>2, Sums
      <4> QED BY <3>2, <4>1, <4>3
    <3>5. Flow(c)'
      BY <1>1, <3>1, <3>4 DEF Flow, InStep, ListenerEnded
    <3>6. Len(sent[c]) = Len(printed[c]) + 1
      BY <1>1 DEF IInv, Turns
    <3>7. Turns(c)'
      BY <1>1, <2>2, <3>2, <3>6 DEF Turns
    <3> QED BY <3>5, <3>7
  <2> QED BY <1>6, <2>1, <2>2
<1>9. OneServed'
  <2>1. \A d \in Clients : sender[d] # "start" => sender'[d] # "start"
    BY <1>5, <1>6
  <2>2. (\A k \in 1 .. Len(backlog) : backlog[k] \in Clients) /\ served \subseteq Clients
    BY <1>1, BacklogFacts
  <2> QED BY <1>1, <2>1, <2>2 DEF IInv, OneServed
<1>10. Parting'
  <2>1. served \subseteq Clients
    BY <1>1 DEF TypeOK
  <2>2. c \in served /\ listener \in {"sleep", "ended", "crashed"} =>
            sender'[c] \notin {"console", "answer", "lastAnswer"}
    BY <1>1, <1>6 DEF IInv, Parting
  <2> QED BY <1>1, <1>5, <2>1, <2>2 DEF IInv, Parting
<1> QED BY <1>4, <1>7, <1>8, <1>9, <1>10 DEF IInv

\* A user stops a client.
LEMMA InterruptKeepsInv == ASSUME IInv, NEW c \in Clients, Interrupt(c) PROVE IInv'
<1>1. /\ TypeOK /\ sender' = [sender EXCEPT ![c] = "failed"]
      /\ UNCHANGED <<listener, served, typed, sent, printed, toServer, toClient, backlog>>
  BY DEF IInv, Interrupt, Go, network
<1>2. TypeOK'
  BY <1>1 DEF TypeOK
<1>3. \A d \in Clients : sender'[d] = sender[d] \/ sender'[d] = "failed"
  BY <1>1 DEF TypeOK
<1>4. ASSUME NEW d \in Clients PROVE Flow(d)' /\ Turns(d)'
  BY <1>1, <1>3, FlowKept, TurnsKept DEF IInv, ListenerEnded
<1>5. OneServed'
  <2>1. (\A k \in 1 .. Len(backlog) : backlog[k] \in Clients) /\ served \subseteq Clients
    BY <1>1, BacklogFacts
  <2> QED BY <1>1, <1>3, <2>1 DEF IInv, OneServed
<1>6. Parting'
  <2>1. served \subseteq Clients
    BY <1>1 DEF TypeOK
  <2> QED BY <1>1, <1>3, <2>1 DEF IInv, Parting
<1> QED BY <1>2, <1>4, <1>5, <1>6 DEF IInv

\* The server listens, accepts one client, and ends three seconds after "quit".
LEMMA ListenerKeepsInv == ASSUME IInv, Listen \/ Accept \/ WakeUp PROVE IInv'
<1>1. TypeOK /\ UNCHANGED <<sender, typed, sent, printed, toServer, toClient>>
  BY DEF IInv, Listen, Accept, WakeUp, network
<1>2. ASSUME NEW d \in Clients PROVE Flow(d)' /\ Turns(d)'
  <2>1. ListenerEnded => ListenerEnded'
    BY DEF Listen, Accept, WakeUp, ListenerEnded
  <2> QED BY <1>1, <2>1, FlowKept, TurnsKept DEF IInv
<1>3. CASE Listen
  <2>1. listener' = "accept" /\ served = {} /\ UNCHANGED <<served, backlog>>
    BY <1>3 DEF Listen, network, IInv, OneServed
  <2>2. TypeOK'
    BY <1>1, <2>1 DEF TypeOK
  <2>3. OneServed' /\ Parting'
    BY <1>1, <2>1 DEF IInv, OneServed, Parting
  <2> QED BY <1>2, <2>2, <2>3 DEF IInv
<1>4. CASE WakeUp
  <2>1. listener = "sleep" /\ listener' = "ended" /\ UNCHANGED <<served, backlog>>
    BY <1>4 DEF WakeUp, network
  <2>2. TypeOK'
    BY <1>1, <2>1 DEF TypeOK
  <2>3. OneServed' /\ Parting'
    BY <1>1, <2>1 DEF IInv, OneServed, Parting
  <2> QED BY <1>2, <2>2, <2>3 DEF IInv
<1>5. CASE Accept
  <2>1. /\ listener' = "read" /\ served' = {Head(backlog)} /\ backlog' = Tail(backlog)
        /\ backlog # << >> /\ backlog \in Seq(Clients)
    BY <1>1, <1>5 DEF Accept, TypeOK
  <2>2. /\ Head(backlog) \in Clients /\ Head(backlog) = backlog[1] /\ Tail(backlog) \in Seq(Clients)
        /\ Len(backlog) \in Nat \ {0} /\ Len(Tail(backlog)) = Len(backlog) - 1
        /\ \A k \in 1 .. (Len(backlog) - 1) : Tail(backlog)[k] = backlog[k + 1]
    BY <2>1, Taken
  <2>3. TypeOK'
    BY <1>1, <2>1, <2>2 DEF TypeOK
  <2>4. OneServed'
    <3>1. 1 \in 1 .. Len(backlog) /\ \A k \in 1 .. (Len(backlog) - 1) : k + 1 \in 1 .. Len(backlog)
      BY <2>2
    <3> QED BY <1>1, <2>1, <2>2, <3>1 DEF IInv, OneServed
  <2>5. Parting'
    BY <2>1 DEF Parting
  <2> QED BY <1>2, <2>3, <2>4, <2>5 DEF IInv
<1> QED BY <1>3, <1>4, <1>5

\* The server reads a line and answers it, or finds that its client is gone.
LEMMA ReadKeepsInv == ASSUME IInv, NEW c \in Clients, ReadLine(c) PROVE IInv'
<1>1. /\ TypeOK /\ listener = "read" /\ c \in served /\ served \subseteq Clients
      /\ UNCHANGED <<served, sender, typed, sent, printed, backlog>>
  BY DEF IInv, TypeOK, ReadLine
<1>2. \/ /\ toServer[c] # << >>
         /\ toServer' = [toServer EXCEPT ![c] = Tail(@)]
         /\ \/ Head(toServer[c]) = Quit /\ SendEcho(c, Quit, "sleep")
            \/ Head(toServer[c]) = Bad /\ listener' = "crashed" /\ UNCHANGED toClient
            \/ Head(toServer[c]) \in Lines /\ SendEcho(c, MaxNumOfList(Head(toServer[c])), "read")
      \/ /\ Ended(c)
         /\ listener' = "ended"
         /\ UNCHANGED <<toServer, toClient>>
  BY DEF ReadLine
<1>3. \A d \in Clients : Flow(d) /\ Turns(d)
  BY DEF IInv
<1>4. ~ ListenerEnded /\ \A d \in served : d = c
  BY <1>1 DEF ListenerEnded, IInv, OneServed
<1>5. /\ toClient[c] \in Seq(Answers) /\ toServer[c] \in Seq(Commands)
      /\ printed[c] \in Seq(Answers) /\ sent[c] \in Seq(Commands)
      /\ toServer \in [Clients -> Seq(Commands)] /\ toClient \in [Clients -> Seq(Answers)]
  BY <1>1, TypeFacts DEF TypeOK
<1>6. OneServed'
  <2>1. listener' \notin {"start", "accept"}
    BY <1>2 DEF SendEcho
  <2> QED BY <1>1, <2>1 DEF IInv, OneServed
\* Others hear nothing of it.
<1>7. ASSUME NEW d \in Clients, d # c PROVE Flow(d)' /\ Turns(d)'
  <2>1. toServer'[d] = toServer[d] /\ toClient'[d] = toClient[d]
    BY <1>2, <1>5, <1>7 DEF SendEcho
  <2> QED BY <1>1, <1>3, <1>4, <2>1, FlowKept, TurnsKept
<1>8. Turns(c)'
  BY <1>1, <1>3, TurnsKept
\* A line is answered.
<1>9. ASSUME NEW a \in Answers, Fits(a, Head(toServer[c])), toServer[c] # << >>,
             toServer' = [toServer EXCEPT ![c] = Tail(@)], toClient' = [toClient EXCEPT ![c] = Append(@, a)],
             \/ listener' = "read"
             \/ listener' = "sleep" /\ Head(toServer[c]) = Quit
      PROVE  IInv'
  <2>1. /\ Tail(toServer[c]) \in Seq(Commands) /\ Len(Tail(toServer[c])) = Len(toServer[c]) - 1
        /\ Append(toClient[c], a) \in Seq(Answers) /\ Len(Append(toClient[c], a)) = Len(toClient[c]) + 1
    BY <1>5, <1>9, Taken, Appended
  <2>2. toServer'[c] = Tail(toServer[c]) /\ toClient'[c] = Append(toClient[c], a)
    BY <1>5, <1>9
  <2>3. TypeOK'
    <3>1. toServer' \in [Clients -> Seq(Commands)] /\ toClient' \in [Clients -> Seq(Answers)]
      BY <1>5, <1>9, <2>1
    <3> QED BY <1>1, <1>9, <3>1 DEF TypeOK
  <2>4. InStep(c) /\ Threaded(printed[c], toClient[c], toServer[c], sent[c])
    BY <1>3, <1>4 DEF Flow
  <2>5. Threaded(printed[c], toClient'[c], toServer'[c], sent[c])
    BY <1>5, <1>9, <2>2, <2>4, Replied DEF InStep
  <2>6. Len(printed[c]) + Len(toClient'[c]) + Len(toServer'[c]) = Len(sent[c])
    <3>1. PICK p, q, r, n : /\ p = Len(printed[c]) /\ q = Len(toClient[c])
                            /\ r = Len(toServer[c]) /\ n = Len(sent[c])
      OBVIOUS
    <3>2. p \in Nat /\ q \in Nat /\ r \in Nat /\ n \in Nat /\ p + q + r = n
      BY <1>1, <2>4, <3>1, TypeFacts DEF InStep
    <3>3. p + (q + 1) + (r - 1) = n
      BY <3>2, Sums
    <3> QED BY <2>1, <2>2, <3>1, <3>3
  <2>7. Flow(c)'
    BY <1>1, <2>5, <2>6 DEF Flow, InStep
  <2>8. Parting'
    <3>1. CASE listener' = "read"
      BY <3>1 DEF Parting
    <3>2. CASE listener' = "sleep" /\ Head(toServer[c]) = Quit
      <4>1. toClient'[c] # << >>
        BY <1>5, <1>9, <2>2, Appended, EmptySeq
      <4>2. sender[c] \notin {"console", "answer"}
        <5>1. /\ Len(toServer[c]) \in Nat \ {0} /\ Head(toServer[c]) = toServer[c][1]
              /\ Len(toClient[c]) \in Nat /\ Len(printed[c]) \in Nat /\ Len(sent[c]) \in Nat
          BY <1>1, <1>5, <1>9, Taken, TypeFacts
        <5>2. PICK p, q, r, n : /\ p = Len(printed[c]) /\ q = Len(toClient[c])
                                /\ r = Len(toServer[c]) /\ n = Len(sent[c])
          OBVIOUS
        <5>3. p \in Nat /\ q \in Nat /\ r \in Nat \ {0} /\ n \in Nat /\ p + q + r = n
          BY <2>4, <5>1, <5>2 DEF InStep
        <5>4. toServer[c][1] = sent[c][n - r + 1]
          <6>1. 1 \in 1 .. Len(toServer[c])
            BY <5>2, <5>3
          <6> QED BY <2>4, <5>2, <6>1 DEF Threaded
        <5>5. n # p /\ (n = p + 1 => n - r + 1 = n)
          BY <5>3
        <5> QED BY <1>3, <3>2, <5>1, <5>2, <5>4, <5>5 DEF Turns
      <4> QED BY <1>1, <1>4, <3>2, <4>1, <4>2 DEF Parting
    <3> QED BY <1>9, <3>1, <3>2
  <2> QED BY <1>6, <1>7, <1>8, <2>3, <2>7, <2>8 DEF IInv
\* Or the server ends, for its client has, or at a line it cannot parse.
<1>10. ASSUME toClient' = toClient,
              \/ listener' = "ended" /\ Ended(c)
              \/ listener' = "crashed" /\ toServer[c] # << >> /\ Head(toServer[c]) = Bad,
              \/ toServer' = toServer
              \/ toServer[c] # << >> /\ toServer' = [toServer EXCEPT ![c] = Tail(@)]
       PROVE  IInv'
  <2>1. toServer' \in [Clients -> Seq(Commands)]
    <3>1. toServer[c] # << >> => Tail(toServer[c]) \in Seq(Commands)
      BY <1>5, Taken
    <3> QED BY <1>5, <1>10, <3>1
  <2>2. TypeOK'
    BY <1>1, <1>10, <2>1 DEF TypeOK
  <2>3. Threaded(printed[c], toClient[c], toServer'[c], sent[c])
    BY <1>3, <1>5, <1>10, Lost, ZenonT(60) DEF Flow
  <2>4. Flow(c)'
    BY <1>1, <1>10, <2>3 DEF Flow, ListenerEnded
  <2>5. Parting'
    <3>1. CASE listener' = "ended" /\ Ended(c)
      BY <1>1, <1>4, <3>1 DEF Parting, Ended
    <3>2. CASE listener' = "crashed" /\ toServer[c] # << >> /\ Head(toServer[c]) = Bad
      <4>1. /\ Len(toServer[c]) \in Nat \ {0} /\ Head(toServer[c]) = toServer[c][1]
            /\ Len(toClient[c]) \in Nat /\ Len(printed[c]) \in Nat /\ Len(sent[c]) \in Nat
        BY <1>1, <1>5, <3>2, Taken, TypeFacts
      <4>2. PICK p, q, r, n : /\ p = Len(printed[c]) /\ q = Len(toClient[c])
                              /\ r = Len(toServer[c]) /\ n = Len(sent[c])
        OBVIOUS
      <4>3. p \in Nat /\ q \in Nat /\ r \in Nat \ {0} /\ n \in Nat /\ p + q + r = n
        BY <1>3, <1>4, <4>1, <4>2 DEF Flow, InStep
      <4>4. toServer[c][1] = sent[c][n - r + 1]
        <5>1. 1 \in 1 .. Len(toServer[c])
          BY <4>2, <4>3
        <5> QED BY <1>3, <4>2, <5>1 DEF Flow, Threaded
      <4>5. n # p /\ (n = p + 1 => n - r + 1 = n /\ q = 0)
        BY <4>3
      <4>6. q = 0 => toClient[c] = << >>
        BY <1>5, <4>2, EmptySeq
      <4>7. Bad # Quit
        BY LinesAssumption
      <4>8. sender[c] # "console" /\ sender[c] # "lastAnswer" /\ (sender[c] = "answer" => toClient[c] = << >>)
        BY <1>3, <3>2, <4>1, <4>2, <4>4, <4>5, <4>6, <4>7 DEF Turns
      <4> QED BY <1>1, <1>4, <1>10, <3>2, <4>8 DEF Parting
    <3> QED BY <1>10, <3>1, <3>2
  <2> QED BY <1>6, <1>7, <1>8, <2>2, <2>4, <2>5 DEF IInv
<1>11. Quit \in Answers /\ Fits(Quit, Quit)
  BY DEF Answers, Fits
<1>12. \A line \in Lines : MaxNumOfList(line) \in Answers /\ Fits(MaxNumOfList(line), line)
  BY LargestFound, LinesAssumption DEF Answers, Fits
<1> QED BY <1>2, <1>9, <1>10, <1>11, <1>12 DEF SendEcho

\* Every step keeps the inductive invariant.
LEMMA NextInv == IInv /\ [Next]_vars => IInv'
<1> SUFFICES ASSUME IInv, [Next]_vars PROVE IInv'
  OBVIOUS
<1>1. CASE UNCHANGED vars
  BY <1>1 DEF vars, network, IInv, TypeOK, Flow, InStep, Turns, OneServed, Parting, ListenerEnded
<1>2. CASE ListenerStep
  BY <1>2, ListenerKeepsInv, ReadKeepsInv DEF ListenerStep
<1>3. CASE \E c \in Clients : \/ Connect(c)
                              \/ \E line \in Commands : SendLine(c, line)
                              \/ ReadAnswer(c)
                              \/ Interrupt(c)
  BY <1>3, ConnectKeepsInv, SendKeepsInv, AnswerKeepsInv, InterruptKeepsInv
<1> QED BY <1>1, <1>2, <1>3 DEF Next

\* The inductive invariant holds throughout.
LEMMA InvHolds == Spec => []IInv
BY InitInv, NextInv, PTL DEF Spec

-----------------------------------------------------------------------------
\* The two programs keep their variables in range, however many clients there
\* are and however long their lines.
THEOREM TalkTyped == Spec => []TypeOK
<1>1. IInv => TypeOK
  BY DEF IInv
<1> QED BY <1>1, InvHolds, PTL

\* What ConsoleSender prints for a line is what maxNumOfList makes of that line,
\* and it is the largest number in it; or the echo of "quit".
THEOREM TalkAnswers == Spec => []AnswersMatch
<1>1. IInv => AnswersMatch
  <2> SUFFICES ASSUME IInv, NEW c \in Clients, NEW k \in DOMAIN printed[c]
               PROVE  Fits(printed[c][k], sent[c][k])
    BY DEF AnswersMatch, Fits
  <2>1. printed[c] \in Seq(Answers) /\ k \in 1 .. Len(printed[c])
    BY DEF IInv, TypeOK
  <2> QED BY <2>1 DEF IInv, Flow, Threaded
<1> QED BY <1>1, InvHolds, PTL

\* Listener.start answers the "quit" of the client it accepted before it closes.
THEOREM TalkQuits == Spec => []QuitIsEchoed
<1>1. IInv => QuitIsEchoed
  BY DEF IInv, Parting, QuitIsEchoed, ListenerEnded
<1> QED BY <1>1, InvHolds, PTL

-----------------------------------------------------------------------------
(* Who waits for whom: what ServedIsAnswered and EndFreesAll promise, but for *)
(* the fairness that makes both programs run on.                              *)

\* A client that waits has an answer on its way, or an exception, for the server
\* has ended; or its line is there and the server in readUTF for it; or it
\* is in the queue, unanswered so far, of a server that can accept, or that serves
\* another client.
WhoWaits ==
    \A c \in Clients : Waiting(c) =>
        \/ toClient[c] # << >>
        \/ ListenerEnded
        \/ c \in served /\ listener = "read" /\ toServer[c] # << >>
        \/ /\ c \notin served /\ c \in ToSet(backlog) /\ printed[c] = << >>
           /\ \/ listener = "accept"
              \/ listener \in {"read", "sleep"} /\ \E d \in served : d # c

\* Whoever is connected and not served is in the queue, and has heard nothing;
\* the queue is empty before there is a port, and served is not once the server
\* has accepted.
Queued ==
    /\ \A c \in Clients : c \notin served =>
          /\ sender[c] \in {"console", "answer", "lastAnswer"} => c \in ToSet(backlog)
          /\ toClient[c] = << >> /\ printed[c] = << >>
    /\ listener = "start" => backlog = << >>
    /\ listener \in {"read", "sleep"} => served # {}

\* The queue with one more, and with one less.
LEMMA QueueLonger ==
    ASSUME NEW S, NEW s \in Seq(S), NEW e \in S
    PROVE  ToSet(s) \subseteq ToSet(Append(s, e)) /\ e \in ToSet(Append(s, e))
<1>1. PICK t : t = Append(s, e)
  OBVIOUS
<1>2. /\ DOMAIN t = 1 .. (Len(s) + 1) /\ DOMAIN s = 1 .. Len(s) /\ Len(s) \in Nat
      /\ t[Len(s) + 1] = e /\ \A k \in 1 .. Len(s) : t[k] = s[k]
  BY <1>1
<1>3. Len(s) + 1 \in DOMAIN t /\ \A k \in DOMAIN s : k \in DOMAIN t
  BY <1>2
<1> QED BY <1>1, <1>2, <1>3 DEF ToSet

LEMMA QueueShorter ==
    ASSUME NEW S, NEW s \in Seq(S), s # << >>
    PROVE  \A e \in ToSet(s) : e = Head(s) \/ e \in ToSet(Tail(s))
<1>1. PICK t : t = Tail(s)
  OBVIOUS
<1>2. /\ DOMAIN t = 1 .. (Len(s) - 1) /\ DOMAIN s = 1 .. Len(s) /\ Len(s) \in Nat \ {0}
      /\ Head(s) = s[1] /\ \A k \in 1 .. (Len(s) - 1) : t[k] = s[k + 1]
  BY <1>1, Taken
<1>3. \A k \in DOMAIN s : k = 1 \/ (k - 1 \in DOMAIN t /\ t[k - 1] = s[k])
  BY <1>2
<1>4. TAKE e \in ToSet(s)
<1>5. PICK k \in DOMAIN s : e = s[k]
  BY DEF ToSet
<1> QED BY <1>1, <1>2, <1>3, <1>5 DEF ToSet

\* The queue is empty at first, and so is all else.
LEMMA InitQueued == Init => Queued
BY DEF Init, Queued

\* A client joins the queue as it connects, and leaves it as it is served.
LEMMA NextQueued == IInv /\ Queued /\ [Next]_vars => Queued'
<1> SUFFICES ASSUME IInv, Queued, [Next]_vars PROVE Queued'
  OBVIOUS
<1>1. /\ backlog \in Seq(Clients) /\ served \subseteq Clients
      /\ sender \in [Clients -> {"start", "console", "answer", "lastAnswer", "ended", "failed"}]
      /\ toClient \in [Clients -> Seq(Answers)] /\ printed \in [Clients -> Seq(Answers)]
  BY DEF IInv, TypeOK
<1>2. CASE UNCHANGED vars
  BY <1>2 DEF vars, network, Queued
<1>3. CASE Listen
  BY <1>3 DEF Listen, network, Queued
<1>4. CASE Accept
  <2>1. /\ served' = {Head(backlog)} /\ backlog' = Tail(backlog) /\ listener' = "read"
        /\ served = {} /\ backlog # << >> /\ UNCHANGED <<sender, printed, toClient>>
    BY <1>4 DEF Accept, IInv, OneServed
  <2>2. \A c \in ToSet(backlog) : c \in served' \/ c \in ToSet(backlog')
    BY <1>1, <2>1, QueueShorter
  <2> QED BY <2>1, <2>2 DEF Queued
<1>5. ASSUME NEW c \in Clients, ReadLine(c) PROVE Queued'
  <2>1. /\ listener = "read" /\ c \in served /\ UNCHANGED <<served, sender, printed, backlog>>
        /\ listener' # "start"
        /\ toClient' = toClient \/ \E a : toClient' = [toClient EXCEPT ![c] = Append(@, a)]
    BY <1>5 DEF ReadLine, SendEcho
  <2>2. \A d \in Clients : d # c => toClient'[d] = toClient[d]
    BY <1>1, <2>1
  <2> QED BY <2>1, <2>2 DEF Queued
<1>6. CASE WakeUp
  BY <1>6 DEF WakeUp, network, Queued
<1>7. ASSUME NEW c \in Clients, Connect(c) PROVE Queued'
  <2>1. /\ UNCHANGED <<listener, served, printed, toClient>>
        /\ \/ /\ listener # "start" /\ backlog' = Append(backlog, c)
              /\ sender' = [sender EXCEPT ![c] = "console"]
           \/ backlog' = backlog /\ sender' = [sender EXCEPT ![c] = "failed"]
    BY <1>7 DEF Connect, Go
  <2>2. \A d \in ToSet(backlog) : d \in ToSet(backlog')
    BY <1>1, <2>1, QueueLonger
  <2>3. \A d \in Clients : d # c => sender'[d] = sender[d]
    BY <1>1, <2>1
  <2>4. sender'[c] = "failed" \/ c \in ToSet(backlog')
    BY <1>1, <2>1, QueueLonger
  <2>5. \A d \in Clients : d \notin served' =>
           (sender'[d] \in {"console", "answer", "lastAnswer"} => d \in ToSet(backlog'))
    BY <2>1, <2>2, <2>3, <2>4 DEF Queued
  <2>6. listener' = "start" => backlog' = << >>
    BY <2>1 DEF Queued
  <2> QED BY <2>1, <2>5, <2>6 DEF Queued
<1>8. ASSUME NEW c \in Clients, NEW line \in Commands, SendLine(c, line) PROVE Queued'
  <2>1. /\ sender[c] = "console" /\ UNCHANGED <<listener, served, printed, toClient, backlog>>
        /\ \E to : sender' = [sender EXCEPT ![c] = to]
    BY <1>8 DEF SendLine, Go
  <2>2. \A d \in Clients : d # c => sender'[d] = sender[d]
    BY <1>1, <2>1
  <2>3. \A d \in Clients : sender'[d] \in {"console", "answer", "lastAnswer"} =>
                              sender[d] \in {"console", "answer", "lastAnswer"}
    BY <2>1, <2>2
  <2> QED BY <1>1, <2>1, <2>3 DEF Queued
<1>9. ASSUME NEW c \in Clients, ReadAnswer(c) PROVE Queued'
  <2>1. /\ sender[c] \in {"answer", "lastAnswer"} /\ UNCHANGED <<listener, served, backlog>>
        /\ \E to : sender' = [sender EXCEPT ![c] = to]
        /\ \/ toClient[c] # << >>
           \/ UNCHANGED <<printed, toClient>>
        /\ \A d \in Clients : d # c => printed'[d] = printed[d] /\ toClient'[d] = toClient[d]
    BY <1>1, <1>9 DEF ReadAnswer, Go
  <2>2. \A d \in Clients : d # c => sender'[d] = sender[d]
    BY <1>1, <2>1
  <2>3. \A d \in Clients : sender'[d] \in {"console", "answer", "lastAnswer"} =>
                              sender[d] \in {"console", "answer", "lastAnswer"}
    BY <2>1, <2>2
  <2>4. \A d \in Clients : d \notin served => toClient'[d] = << >> /\ printed'[d] = << >>
    BY <2>1 DEF Queued
  <2> QED BY <2>1, <2>3, <2>4 DEF Queued
<1>10. ASSUME NEW c \in Clients, Interrupt(c) PROVE Queued'
  <2>1. /\ UNCHANGED <<listener, served, printed, toClient, backlog>>
        /\ sender' = [sender EXCEPT ![c] = "failed"]
    BY <1>10 DEF Interrupt, Go, network
  <2>2. \A d \in Clients : sender'[d] = sender[d] \/ sender'[d] = "failed"
    BY <1>1, <2>1
  <2> QED BY <2>1, <2>2 DEF Queued
<1> QED BY <1>2, <1>3, <1>4, <1>5, <1>6, <1>7, <1>8, <1>9, <1>10 DEF Next, ListenerStep

\* In no state do the two programs of Practise 6 wait for each other: the client
\* served waits in readUTF only while its answer, its line or the server's end
\* is there to go on with, and one that was not accepted only for the server,
\* or for the user of the client that is served.
THEOREM TalkWhoWaits == Spec => []WhoWaits
<1>1. ASSUME IInv, Queued PROVE WhoWaits
  <2> SUFFICES ASSUME NEW c \in Clients, Waiting(c), toClient[c] = << >>, ~ ListenerEnded
               PROVE  \/ c \in served /\ listener = "read" /\ toServer[c] # << >>
                      \/ /\ c \notin served /\ c \in ToSet(backlog) /\ printed[c] = << >>
                         /\ \/ listener = "accept"
                            \/ listener \in {"read", "sleep"} /\ \E d \in served : d # c
    BY DEF WhoWaits
  <2>1. /\ listener \in {"start", "accept", "read", "sleep"} /\ served \subseteq Clients
        /\ sender[c] \in {"answer", "lastAnswer"}
        /\ OneServed /\ Parting /\ Flow(c) /\ Turns(c)
    BY <1>1 DEF IInv, TypeOK, Waiting, ListenerEnded
  <2>2. CASE c \in served
    <3>1. listener \in {"read", "sleep"}
      BY <2>1, <2>2 DEF OneServed
    <3>2. listener # "sleep"
      BY <2>1, <2>2 DEF Parting
    <3>3. PICK p, r, n : p = Len(printed[c]) /\ r = Len(toServer[c]) /\ n = Len(sent[c])
      OBVIOUS
    <3>4. p \in Nat /\ r \in Nat /\ n \in Nat /\ Len(toClient[c]) = 0
      BY <1>1, <3>3, TypeFacts, EmptySeq DEF IInv
    <3>5. p + 0 + r = n /\ n = p + 1
      BY <2>1, <3>3, <3>4 DEF Flow, InStep, Turns
    <3>6. r = 1
      BY <3>4, <3>5
    <3>7. toServer[c] # << >>
      <4>1. toServer[c] \in Seq(Commands)
        BY <1>1, TypeFacts DEF IInv
      <4>2. Len(toServer[c]) # 0
        BY <3>3, <3>6
      <4> QED BY <4>1, <4>2, EmptySeq
    <3> QED BY <2>2, <3>1, <3>2, <3>7
  <2>3. CASE c \notin served
    <3>1. c \in ToSet(backlog) /\ printed[c] = << >>
      BY <1>1, <2>1, <2>3 DEF Queued
    <3>2. listener # "start"
      <4>1. ToSet(<< >>) = {}
        BY DEF ToSet
      <4> QED BY <1>1, <3>1, <4>1 DEF Queued
    <3>3. listener \in {"read", "sleep"} => \E d \in served : d # c
      BY <1>1, <2>3 DEF Queued
    <3> QED BY <2>1, <2>3, <3>1, <3>2, <3>3
  <2> QED BY <2>2, <2>3
<1>2. IInv /\ Queued /\ [Next]_vars => (IInv /\ Queued)'
  BY NextInv, NextQueued
<1>3. Init => IInv /\ Queued
  BY InitInv, InitQueued
<1>4. IInv /\ Queued => WhoWaits
  BY <1>1
<1> QED BY <1>2, <1>3, <1>4, PTL DEF Spec
=============================================================================
