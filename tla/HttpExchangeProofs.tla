-------------------------- MODULE HttpExchangeProofs --------------------------
(***************************************************************************)
(* Proofs about HttpExchange, for any number of connections and of parts.  *)
(*                                                                         *)
(* The argument: a thread passes its stations once, so where it stands     *)
(* tells what it has done and what its client can have seen (Told); and    *)
(* what was there when it looked for the body stays there, and is read     *)
(* before it goes on (Kept).  That no connection is accepted twice, which  *)
(* would start a second thread on it, rests on the backlog (Waiting).      *)
(* Then, of NobodyHeld, what needs no fairness: who can be waiting for     *)
(* whom (WhoHolds), and that each exchange has so many steps and no more   *)
(* (ExchangesRunOut).                                                      *)
(***************************************************************************)
EXTENDS HttpExchange, TLAPS

\* Connections of the backlog have a client and no thread, and are there once.
Waiting ==
    /\ \A i \in 1 .. Len(backlog) :
          pc[backlog[i]] = "none" /\ client[backlog[i]] # "none"
    /\ \A i, j \in 1 .. Len(backlog) : backlog[i] = backlog[j] => i = j
    /\ \A c \in Conns : client[c] = "none" => pc[c] = "none" /\ arrived[c] = 0

\* What a thread has done, by where it stands, and what its client knows.
Told(c) ==
    /\ pc[c] \in {"none", "head", "body", "analyze"} =>
          applied[c] = 0 /\ out[c] = "nothing"
    /\ pc[c] \in {"dead", "collected"} => applied[c] \in {0, 1} /\ out[c] = "nothing"
    /\ pc[c] = "respond" => applied[c] = 1 /\ out[c] = "nothing"
    /\ pc[c] \in {"close", "end"} =>
          (out[c] = "response" => applied[c] = 1) /\ (out[c] = "nothing" => applied[c] = 0)
    /\ socket[c] = "closed" => pc[c] \in {"end", "collected"}
    /\ client[c] = "answered" => out[c] = "response"
    /\ client[c] = "failed" => socket[c] = "closed" /\ out[c] = "nothing"

\* What a thread has read, when all was there.
Kept(c) ==
    /\ pc[c] \in {"none", "head"} => prompt[c] = "no"
    /\ prompt[c] = "yes" => arrived[c] = Size(kind[c])
    /\ prompt[c] = "yes" /\ pc[c] = "analyze" => taken[c] = Size(kind[c])
    /\ prompt[c] = "yes" /\ kind[c] = "post" /\ pc[c] \in {"respond", "close", "end"} =>
          applied[c] = 1

Inv == TypeOK /\ Waiting /\ \A c \in Conns : Told(c) /\ Kept(c)

LEMMA SizeNat == \A k \in Kinds \union {"none"} : Size(k) \in Nat \ {0}
  BY PartsAssumption DEF Size, Kinds

LEMMA InitInv == Init => Inv
  BY SizeNat DEF Init, Inv, TypeOK, Waiting, Told, Kept

-----------------------------------------------------------------------------
(* What all steps of one connection have in common.                        *)

Labels == {"none", "head", "body", "analyze", "respond", "close", "end", "dead", "collected"}
Here(c) == <<kind[c], client[c], arrived[c], pc[c], taken[c], prompt[c], applied[c],
             out[c], socket[c]>>

\* A step of one connection leaves what is known of the others.
LEMMA Local ==
    ASSUME Inv, NEW c \in Conns, \A d \in Conns \ {c} : UNCHANGED Here(d),
           Told(c)', Kept(c)'
    PROVE  \A d \in Conns : Told(d)' /\ Kept(d)'
  <1>1. ASSUME NEW d \in Conns \ {c} PROVE Told(d)' /\ Kept(d)'
    BY <1>1 DEF Inv, Here, Told, Kept
  <1> QED BY <1>1

\* A thread that has started moves on: nothing in the backlog is touched.
LEMMA MoveOn ==
    ASSUME TypeOK, Waiting, NEW c \in Conns, pc[c] # "none",
           UNCHANGED <<backlog, client, arrived>>,
           NEW label \in Labels \ {"none"}, pc' = [pc EXCEPT ![c] = label]
    PROVE  Waiting' /\ pc' \in [Conns -> Labels] /\ \A d \in Conns \ {c} : pc'[d] = pc[d]
                    /\ pc'[c] = label
  BY SMTT(30) DEF TypeOK, Waiting, Labels

-----------------------------------------------------------------------------
(* One lemma for each action.                                              *)

LEMMA ReadFailsInv == ASSUME Inv, NEW c \in Conns, ReadFails(c) PROVE Inv'
<1>1. pc[c] # "none" /\ pc' = [pc EXCEPT ![c] = "dead"] /\ UNCHANGED <<kind, client, arrived, backlog, taken, prompt, applied, out, socket>>
  BY DEF ReadFails, network, work, Goto
<1>2. Waiting' /\ pc' \in [Conns -> Labels] /\ \A d \in Conns \ {c} : pc'[d] = pc[d]
  BY <1>1, MoveOn DEF Inv, Labels
<1>3. TypeOK'
  BY <1>1, <1>2 DEF ReadFails, Inv, TypeOK, Labels
<1>4. Told(c)' /\ Kept(c)'
  BY <1>1 DEF ReadFails, Inv, TypeOK, Told, Kept
<1>5. \A d \in Conns \ {c} : UNCHANGED Here(d)
  BY <1>1, <1>2 DEF ReadFails, Inv, TypeOK, Here
<1> QED BY <1>2, <1>3, <1>4, <1>5, Local DEF Inv

LEMMA BodyEndInv == ASSUME Inv, NEW c \in Conns, BodyEnd(c) PROVE Inv'
<1>1. pc[c] # "none" /\ pc' = [pc EXCEPT ![c] = "analyze"] /\ UNCHANGED <<kind, client, arrived, backlog, taken, prompt, applied, out, socket>>
  BY DEF BodyEnd, network, work, Goto
<1>2. Waiting' /\ pc' \in [Conns -> Labels] /\ \A d \in Conns \ {c} : pc'[d] = pc[d]
  BY <1>1, MoveOn DEF Inv, Labels
<1>3. TypeOK'
  BY <1>1, <1>2 DEF BodyEnd, Inv, TypeOK, Labels
<1>4. Told(c)' /\ Kept(c)'
  BY <1>1 DEF BodyEnd, Inv, TypeOK, Told, Kept
<1>5. \A d \in Conns \ {c} : UNCHANGED Here(d)
  BY <1>1, <1>2 DEF BodyEnd, Inv, TypeOK, Here
<1> QED BY <1>2, <1>3, <1>4, <1>5, Local DEF Inv

LEMMA ThrowInv == ASSUME Inv, NEW c \in Conns, Throw(c) PROVE Inv'
<1>1. /\ pc[c] = "analyze" /\ pc' = [pc EXCEPT ![c] = "dead"]
      /\ UNCHANGED <<kind, client, arrived, backlog, taken, prompt, out, socket>>
  BY DEF Throw, network, work, Goto
<1>2. Waiting' /\ pc' \in [Conns -> Labels] /\ (\A d \in Conns \ {c} : pc'[d] = pc[d]) /\ pc'[c] = "dead"
  BY <1>1, MoveOn DEF Inv, Labels
<1>3. /\ applied' \in [Conns -> Nat] /\ applied'[c] \in {0, 1}
      /\ \A d \in Conns \ {c} : applied'[d] = applied[d]
  <2>1. applied[c] = 0 /\ applied \in [Conns -> Nat]
    BY <1>1 DEF Inv, TypeOK, Told
  <2> QED BY <2>1 DEF Throw
<1>4. TypeOK'
  BY <1>1, <1>2, <1>3 DEF Inv, TypeOK, Labels
<1>5. Told(c)' /\ Kept(c)'
  BY <1>1, <1>2, <1>3 DEF Inv, Told, Kept
<1>6. \A d \in Conns \ {c} : UNCHANGED Here(d)
  BY <1>1, <1>2, <1>3 DEF Here
<1> QED BY <1>2, <1>4, <1>5, <1>6, Local DEF Inv

LEMMA CollectInv == ASSUME Inv, NEW c \in Conns, Collect(c) PROVE Inv'
<1>1. /\ pc[c] = "dead" /\ pc' = [pc EXCEPT ![c] = "collected"]
      /\ socket' = [socket EXCEPT ![c] = "closed"]
      /\ UNCHANGED <<kind, client, arrived, backlog, taken, prompt, applied, out>>
  BY DEF Collect, network, work, Goto
<1>2. Waiting' /\ pc' \in [Conns -> Labels] /\ \A d \in Conns \ {c} : pc'[d] = pc[d]
  BY <1>1, MoveOn DEF Inv, Labels
<1>3. TypeOK'
  BY <1>1, <1>2 DEF Inv, TypeOK, Labels
<1>4. Told(c)' /\ Kept(c)'
  BY <1>1 DEF Inv, TypeOK, Told, Kept
<1>5. \A d \in Conns \ {c} : UNCHANGED Here(d)
  BY <1>1, <1>2 DEF Inv, TypeOK, Here
<1> QED BY <1>2, <1>3, <1>4, <1>5, Local DEF Inv

LEMMA RespondInv == ASSUME Inv, NEW c \in Conns, Respond(c) PROVE Inv'
<1>1. pc[c] # "none" /\ pc' = [pc EXCEPT ![c] = "close"] /\ UNCHANGED <<kind, client, arrived, backlog, taken, prompt, applied, socket>>
  BY DEF Respond, network, work, Goto
<1>2. Waiting' /\ pc' \in [Conns -> Labels] /\ \A d \in Conns \ {c} : pc'[d] = pc[d]
  BY <1>1, MoveOn DEF Inv, Labels
<1>3. TypeOK'
  BY <1>1, <1>2 DEF Respond, Inv, TypeOK, Labels
<1>4. Told(c)' /\ Kept(c)'
  BY <1>1 DEF Respond, Inv, TypeOK, Told, Kept
<1>5. \A d \in Conns \ {c} : UNCHANGED Here(d)
  BY <1>1, <1>2 DEF Respond, Inv, TypeOK, Here
<1> QED BY <1>2, <1>3, <1>4, <1>5, Local DEF Inv

LEMMA CloseInv == ASSUME Inv, NEW c \in Conns, Close(c) PROVE Inv'
<1>1. pc[c] # "none" /\ pc' = [pc EXCEPT ![c] = "end"] /\ UNCHANGED <<kind, client, arrived, backlog, taken, prompt, applied, out>>
  BY DEF Close, network, work, Goto
<1>2. Waiting' /\ pc' \in [Conns -> Labels] /\ \A d \in Conns \ {c} : pc'[d] = pc[d]
  BY <1>1, MoveOn DEF Inv, Labels
<1>3. TypeOK'
  BY <1>1, <1>2 DEF Close, Inv, TypeOK, Labels
<1>4. Told(c)' /\ Kept(c)'
  BY <1>1 DEF Close, Inv, TypeOK, Told, Kept
<1>5. \A d \in Conns \ {c} : UNCHANGED Here(d)
  BY <1>1, <1>2 DEF Close, Inv, TypeOK, Here
<1> QED BY <1>2, <1>3, <1>4, <1>5, Local DEF Inv

LEMMA AnalyzeGetInv == ASSUME Inv, NEW c \in Conns, AnalyzeGet(c) PROVE Inv'
<1>1. /\ pc[c] = "analyze" /\ UNCHANGED <<kind, client, arrived, backlog, taken, prompt, out, socket>>
      /\ \/ /\ applied' = [applied EXCEPT ![c] = @ + 1]
            /\ pc' = [pc EXCEPT ![c] = "respond"]
         \/ /\ applied' = applied /\ pc' = [pc EXCEPT ![c] = "close"]
            /\ ~ (kind[c] = "post" /\ taken[c] = Size(kind[c]))
  BY DEF AnalyzeGet, network, work, Goto
<1>2. CASE applied' = [applied EXCEPT ![c] = @ + 1] /\ pc' = [pc EXCEPT ![c] = "respond"]
  <2>1. Waiting' /\ pc' \in [Conns -> Labels] /\ (\A d \in Conns \ {c} : pc'[d] = pc[d]) /\ pc'[c] = "respond"
    BY <1>1, <1>2, MoveOn DEF Inv, Labels
  <2>2. applied[c] = 0 /\ applied \in [Conns -> Nat]
    BY <1>1 DEF Inv, TypeOK, Told
  <2>3. applied' \in [Conns -> Nat] /\ applied'[c] = 1 /\ \A d \in Conns \ {c} : applied'[d] = applied[d]
    BY <1>2, <2>2
  <2>4. TypeOK'
    BY <1>1, <2>1, <2>3 DEF Inv, TypeOK, Labels
  <2>5. Told(c)' /\ Kept(c)'
    BY <1>1, <2>1, <2>3 DEF Inv, Told, Kept
  <2>6. \A d \in Conns \ {c} : UNCHANGED Here(d)
    BY <1>1, <2>1, <2>3 DEF Here
  <2> QED BY <2>1, <2>4, <2>5, <2>6, Local DEF Inv
<1>3. CASE /\ applied' = applied /\ pc' = [pc EXCEPT ![c] = "close"]
           /\ ~ (kind[c] = "post" /\ taken[c] = Size(kind[c]))
  <2>1. Waiting' /\ pc' \in [Conns -> Labels] /\ (\A d \in Conns \ {c} : pc'[d] = pc[d]) /\ pc'[c] = "close"
    BY <1>1, <1>3, MoveOn DEF Inv, Labels
  <2>2. TypeOK'
    BY <1>1, <1>3, <2>1 DEF Inv, TypeOK, Labels
  <2>3. Told(c)' /\ Kept(c)'
    BY <1>1, <1>3, <2>1 DEF Inv, Told, Kept
  <2>4. \A d \in Conns \ {c} : UNCHANGED Here(d)
    BY <1>1, <1>3, <2>1 DEF Here
  <2> QED BY <2>1, <2>2, <2>3, <2>4, Local DEF Inv
<1> QED BY <1>1, <1>2, <1>3

LEMMA AnalyzePostInv == ASSUME Inv, NEW c \in Conns, AnalyzePost(c) PROVE Inv'
<1>1. /\ pc[c] = "analyze" /\ UNCHANGED <<kind, client, arrived, backlog, taken, prompt, out, socket>>
      /\ \/ /\ applied' = [applied EXCEPT ![c] = @ + 1]
            /\ pc' = [pc EXCEPT ![c] = "respond"]
         \/ /\ applied' = applied /\ pc' = [pc EXCEPT ![c] = "close"]
            /\ ~ (kind[c] = "post" /\ taken[c] = Size(kind[c]))
  BY DEF AnalyzePost, HasEffect, network, work, Goto
<1>2. CASE applied' = [applied EXCEPT ![c] = @ + 1] /\ pc' = [pc EXCEPT ![c] = "respond"]
  <2>1. Waiting' /\ pc' \in [Conns -> Labels] /\ (\A d \in Conns \ {c} : pc'[d] = pc[d]) /\ pc'[c] = "respond"
    BY <1>1, <1>2, MoveOn DEF Inv, Labels
  <2>2. applied[c] = 0 /\ applied \in [Conns -> Nat]
    BY <1>1 DEF Inv, TypeOK, Told
  <2>3. applied' \in [Conns -> Nat] /\ applied'[c] = 1 /\ \A d \in Conns \ {c} : applied'[d] = applied[d]
    BY <1>2, <2>2
  <2>4. TypeOK'
    BY <1>1, <2>1, <2>3 DEF Inv, TypeOK, Labels
  <2>5. Told(c)' /\ Kept(c)'
    BY <1>1, <2>1, <2>3 DEF Inv, Told, Kept
  <2>6. \A d \in Conns \ {c} : UNCHANGED Here(d)
    BY <1>1, <2>1, <2>3 DEF Here
  <2> QED BY <2>1, <2>4, <2>5, <2>6, Local DEF Inv
<1>3. CASE /\ applied' = applied /\ pc' = [pc EXCEPT ![c] = "close"]
           /\ ~ (kind[c] = "post" /\ taken[c] = Size(kind[c]))
  <2>1. Waiting' /\ pc' \in [Conns -> Labels] /\ (\A d \in Conns \ {c} : pc'[d] = pc[d]) /\ pc'[c] = "close"
    BY <1>1, <1>3, MoveOn DEF Inv, Labels
  <2>2. TypeOK'
    BY <1>1, <1>3, <2>1 DEF Inv, TypeOK, Labels
  <2>3. Told(c)' /\ Kept(c)'
    BY <1>1, <1>3, <2>1 DEF Inv, Told, Kept
  <2>4. \A d \in Conns \ {c} : UNCHANGED Here(d)
    BY <1>1, <1>3, <2>1 DEF Here
  <2> QED BY <2>1, <2>2, <2>3, <2>4, Local DEF Inv
<1> QED BY <1>1, <1>2, <1>3

LEMMA ReadLineInv == ASSUME Inv, NEW c \in Conns, ReadLine(c) PROVE Inv'
<1>1. /\ pc[c] = "head" /\ taken[c] < arrived[c] /\ taken' = [taken EXCEPT ![c] = @ + 1]
      /\ UNCHANGED <<kind, client, arrived, backlog, applied, out, socket>>
  BY DEF ReadLine, Take, network
<1>2. /\ taken' \in [Conns -> Nat] /\ \A d \in Conns : taken'[d] <= arrived[d]
      /\ \A d \in Conns \ {c} : taken'[d] = taken[d]
  BY <1>1 DEF Inv, TypeOK
<1>3. CASE taken[c] + 1 = HeadLines
  <2>1. PICK p \in {"yes", "no"} : /\ p = "yes" => arrived[c] = Size(kind[c])
                                   /\ prompt' = [prompt EXCEPT ![c] = p]
    BY <1>3 DEF ReadLine
  <2>2. /\ prompt' \in [Conns -> {"yes", "no"}] /\ prompt'[c] = p
        /\ \A d \in Conns \ {c} : prompt'[d] = prompt[d]
    BY <2>1 DEF Inv, TypeOK
  <2>3. pc' = [pc EXCEPT ![c] = "body"]
    BY <1>3 DEF ReadLine, Goto
  <2>4. Waiting' /\ pc' \in [Conns -> Labels] /\ (\A d \in Conns \ {c} : pc'[d] = pc[d]) /\ pc'[c] = "body"
    BY <1>1, <2>3, MoveOn DEF Inv, Labels
  <2>5. TypeOK'
    BY <1>1, <1>2, <2>2, <2>4 DEF Inv, TypeOK, Labels
  <2>6. Told(c)' /\ Kept(c)'
    BY <1>1, <2>1, <2>2, <2>4 DEF Inv, Told, Kept
  <2>7. \A d \in Conns \ {c} : UNCHANGED Here(d)
    BY <1>1, <1>2, <2>2, <2>4 DEF Here
  <2> QED BY <2>4, <2>5, <2>6, <2>7, Local DEF Inv
<1>4. CASE taken[c] + 1 # HeadLines
  <2>1. UNCHANGED <<pc, prompt>>
    BY <1>4 DEF ReadLine
  <2>2. TypeOK' /\ Waiting'
    BY <1>1, <1>2, <2>1 DEF Inv, TypeOK, Waiting
  <2>3. Told(c)' /\ Kept(c)'
    BY <1>1, <2>1 DEF Inv, Told, Kept
  <2>4. \A d \in Conns \ {c} : UNCHANGED Here(d)
    BY <1>1, <1>2, <2>1 DEF Here
  <2> QED BY <2>2, <2>3, <2>4, Local DEF Inv
<1> QED BY <1>3, <1>4

LEMMA ReadBodyInv == ASSUME Inv, NEW c \in Conns, ReadBody(c) PROVE Inv'
<1>1. /\ pc[c] = "body" /\ taken[c] < arrived[c] /\ taken' = [taken EXCEPT ![c] = @ + 1]
      /\ UNCHANGED <<kind, client, arrived, backlog, pc, prompt, applied, out, socket>>
  BY DEF ReadBody, Take, network
<1>2. /\ taken' \in [Conns -> Nat] /\ \A d \in Conns : taken'[d] <= arrived[d]
      /\ \A d \in Conns \ {c} : taken'[d] = taken[d]
  BY <1>1 DEF Inv, TypeOK
<1>3. TypeOK' /\ Waiting'
  BY <1>1, <1>2 DEF Inv, TypeOK, Waiting
<1>4. Told(c)' /\ Kept(c)'
  BY <1>1 DEF Inv, Told, Kept
<1>5. \A d \in Conns \ {c} : UNCHANGED Here(d)
  BY <1>1, <1>2 DEF Here
<1> QED BY <1>3, <1>4, <1>5, Local DEF Inv

Clients == {"none", "waiting", "answered", "failed", "left"}

LEMMA ConnectInv == ASSUME Inv, NEW c \in Conns, NEW k \in Kinds, Connect(c, k) PROVE Inv'
<1>1. /\ client[c] = "none" /\ client' = [client EXCEPT ![c] = "waiting"]
      /\ kind' = [kind EXCEPT ![c] = k] /\ backlog' = Append(backlog, c)
      /\ UNCHANGED <<arrived, pc, taken, prompt, applied, out, socket>>
  BY DEF Connect, work
<1>2. pc[c] = "none" /\ arrived[c] = 0 /\ prompt[c] = "no"
  BY <1>1 DEF Inv, Waiting, Kept
<1>3. /\ kind' \in [Conns -> Kinds \union {"none"}] /\ client' \in [Conns -> Clients]
      /\ kind'[c] = k /\ client'[c] = "waiting"
      /\ \A d \in Conns \ {c} : kind'[d] = kind[d] /\ client'[d] = client[d]
  BY <1>1 DEF Inv, TypeOK, Clients
<1>4. \A d \in Conns : arrived[d] <= Size(kind'[d])
  <2>1. arrived[c] <= Size(kind'[c])
    BY <1>2, <1>3, SizeNat
  <2>2. \A d \in Conns \ {c} : arrived[d] <= Size(kind'[d])
    BY <1>3 DEF Inv, TypeOK
  <2> QED BY <2>1, <2>2
<1>5. TypeOK'
  BY <1>1, <1>3, <1>4 DEF Inv, TypeOK, Clients
<1>6. Waiting'
  <2>1. /\ Len(backlog) \in Nat /\ Len(backlog') = Len(backlog) + 1
        /\ backlog'[Len(backlog) + 1] = c
        /\ \A i \in 1 .. Len(backlog) : backlog'[i] = backlog[i] /\ backlog[i] \in Conns
    BY <1>1 DEF Inv, TypeOK
  <2>2. \A i \in 1 .. Len(backlog) : backlog[i] # c
    BY <1>1 DEF Inv, Waiting
  <2>3. \A i, j \in 1 .. Len(backlog') : backlog'[i] = backlog'[j] => i = j
    BY <2>1, <2>2 DEF Inv, Waiting
  <2>4. \A i \in 1 .. Len(backlog') : pc[backlog'[i]] = "none" /\ client'[backlog'[i]] # "none"
    BY <1>2, <1>3, <2>1, <2>2 DEF Inv, Waiting
  <2> QED BY <1>1, <1>3, <2>3, <2>4 DEF Inv, Waiting
<1>7. Told(c)' /\ Kept(c)'
  BY <1>1, <1>2, <1>3 DEF Inv, Told, Kept
<1>8. \A d \in Conns \ {c} : UNCHANGED Here(d)
  BY <1>1, <1>3 DEF Here
<1> QED BY <1>5, <1>6, <1>7, <1>8, Local DEF Inv

LEMMA ArriveInv == ASSUME Inv, NEW c \in Conns, Arrive(c) PROVE Inv'
<1>1. /\ client[c] = "waiting" /\ arrived[c] < Size(kind[c])
      /\ arrived' = [arrived EXCEPT ![c] = @ + 1]
      /\ UNCHANGED <<kind, client, backlog, pc, taken, prompt, applied, out, socket>>
  BY DEF Arrive, work
<1>2. kind[c] \in Kinds \union {"none"} /\ arrived[c] \in Nat
  BY DEF Inv, TypeOK
<1>3. /\ arrived' \in [Conns -> Nat] /\ arrived'[c] = arrived[c] + 1
      /\ \A d \in Conns \ {c} : arrived'[d] = arrived[d]
  BY <1>1 DEF Inv, TypeOK
<1>4. arrived[c] + 1 <= Size(kind[c]) /\ arrived[c] # Size(kind[c])
  BY <1>1, <1>2, SizeNat
<1>5. \A d \in Conns : taken[d] <= arrived'[d] /\ arrived'[d] <= Size(kind[d])
  <2>1. taken[c] <= arrived'[c] /\ arrived'[c] <= Size(kind[c])
    <3>1. taken[c] \in Nat /\ taken[c] <= arrived[c]
      BY DEF Inv, TypeOK
    <3>2. taken[c] <= arrived[c] + 1
      BY <1>2, <3>1
    <3> QED BY <1>3, <1>4, <3>2
  <2>2. \A d \in Conns \ {c} : taken[d] <= arrived'[d] /\ arrived'[d] <= Size(kind[d])
    BY <1>3 DEF Inv, TypeOK
  <2> QED BY <2>1, <2>2
<1>6. TypeOK'
  BY <1>1, <1>3, <1>5 DEF Inv, TypeOK
<1>7. Waiting'
  BY <1>1, <1>3 DEF Inv, Waiting
<1>8. Told(c)' /\ Kept(c)'
  BY <1>1, <1>4 DEF Inv, Told, Kept
<1>9. \A d \in Conns \ {c} : UNCHANGED Here(d)
  BY <1>1, <1>3 DEF Here
<1> QED BY <1>6, <1>7, <1>8, <1>9, Local DEF Inv

\* What Leave and Receive do to the client.
LEMMA ClientGoes ==
    ASSUME Inv, NEW c \in Conns, client[c] = "waiting",
           UNCHANGED <<kind, arrived, backlog, pc, taken, prompt, applied, out, socket>>,
           NEW goes \in {"answered", "failed", "left"}, client' = [client EXCEPT ![c] = goes],
           goes = "answered" => out[c] = "response",
           goes = "failed" => socket[c] = "closed" /\ out[c] = "nothing"
    PROVE  Inv'
<1>1. /\ client' \in [Conns -> Clients] /\ client'[c] = goes
      /\ \A d \in Conns \ {c} : client'[d] = client[d]
  BY DEF Inv, TypeOK, Clients
<1>2. TypeOK'
  BY <1>1 DEF Inv, TypeOK, Clients
<1>3. \A i \in 1 .. Len(backlog) : backlog[i] \in Conns
  BY DEF Inv, TypeOK
<1>4. Waiting'
  BY <1>1, <1>3 DEF Inv, Waiting
<1>5. Told(c)' /\ Kept(c)'
  BY <1>1 DEF Inv, Told, Kept
<1>6. \A d \in Conns \ {c} : UNCHANGED Here(d)
  BY <1>1 DEF Here
<1> QED BY <1>2, <1>4, <1>5, <1>6, Local DEF Inv

LEMMA LeaveInv == ASSUME Inv, NEW c \in Conns, Leave(c) PROVE Inv'
  BY ClientGoes DEF Leave, network, work

LEMMA ReceiveInv == ASSUME Inv, NEW c \in Conns, Receive(c) PROVE Inv'
  BY ClientGoes DEF Receive, network, work

LEMMA AcceptInv == ASSUME Inv, Accept PROVE Inv'
<1>0. PICK c \in Conns : c = Head(backlog)
  BY DEF Accept, Inv, TypeOK
<1>1. /\ backlog # << >> /\ backlog' = Tail(backlog) /\ pc' = [pc EXCEPT ![c] = "head"]
      /\ UNCHANGED <<kind, client, arrived, taken, prompt, applied, out, socket>>
  BY <1>0 DEF Accept, Goto, work
<1>2. /\ Len(backlog) \in Nat \ {0} /\ c = backlog[1] /\ backlog' \in Seq(Conns)
      /\ Len(backlog') = Len(backlog) - 1
      /\ \A i \in 1 .. Len(backlog) : backlog[i] \in Conns
      /\ \A i \in 1 .. Len(backlog') : backlog'[i] = backlog[i + 1]
  BY <1>0, <1>1 DEF Inv, TypeOK
<1>3. pc[c] = "none" /\ client[c] # "none"
  BY <1>2 DEF Inv, Waiting
<1>4. /\ pc' \in [Conns -> Labels] /\ pc'[c] = "head"
      /\ \A d \in Conns \ {c} : pc'[d] = pc[d]
  BY <1>1, <1>3 DEF Inv, TypeOK, Labels
<1>5. TypeOK'
  BY <1>1, <1>2, <1>4 DEF Inv, TypeOK, Labels
<1>6. Waiting'
  <2>1. \A i \in 1 .. Len(backlog') : i + 1 \in 1 .. Len(backlog) /\ i + 1 # 1
    BY <1>2
  <2>2. \A i, j \in 1 .. Len(backlog') : backlog'[i] = backlog'[j] => i = j
    BY <1>2, <2>1 DEF Inv, Waiting
  <2>3. \A i \in 1 .. Len(backlog') : backlog'[i] # c
    BY <1>2, <2>1 DEF Inv, Waiting
  <2>4. \A i \in 1 .. Len(backlog') : pc'[backlog'[i]] = "none" /\ client[backlog'[i]] # "none"
    BY <1>2, <1>4, <2>1, <2>3 DEF Inv, Waiting
  <2>5. \A d \in Conns : client[d] = "none" => pc'[d] = "none" /\ arrived[d] = 0
    BY <1>3, <1>4 DEF Inv, Waiting
  <2> QED BY <1>1, <2>2, <2>4, <2>5 DEF Waiting
<1>7. Told(c)' /\ Kept(c)'
  BY <1>1, <1>3, <1>4 DEF Inv, Told, Kept
<1>8. \A d \in Conns \ {c} : UNCHANGED Here(d)
  BY <1>1, <1>4 DEF Here
<1> QED BY <1>5, <1>6, <1>7, <1>8, Local DEF Inv

-----------------------------------------------------------------------------
LEMMA NextInv == Inv /\ [Next]_vars => Inv'
<1>1. ASSUME Inv, UNCHANGED vars PROVE Inv'
  BY <1>1 DEF vars, network, work, Inv, TypeOK, Waiting, Told, Kept
<1>2. ASSUME Inv, NEW c \in Conns, Step(c) PROVE Inv'
  BY <1>2, ReadLineInv, ReadFailsInv, ReadBodyInv, BodyEndInv, ThrowInv, AnalyzeGetInv,
     AnalyzePostInv, RespondInv, CloseInv DEF Step
<1>3. ASSUME Inv, NEW c \in Conns,
             (\E k \in Kinds : Connect(c, k)) \/ Arrive(c) \/ Leave(c) \/ Receive(c) \/ Collect(c)
      PROVE  Inv'
  BY <1>3, ConnectInv, ArriveInv, LeaveInv, ReceiveInv, CollectInv
<1> QED BY <1>1, <1>2, <1>3, AcceptInv DEF Next

\* The variables keep their types for any number of connections and of parts:
\* in particular no thread reads what has not arrived.
THEOREM ExchangeTyped == Spec => []TypeOK
<1>1. Inv => TypeOK
  BY DEF Inv
<1> QED BY <1>1, InitInv, NextInv, PTL DEF Spec

\* What ClientHandler.run lets its clients know is true for any number of them,
\* exceptions before and after the change they ask for included.
THEOREM ExchangeOutcomeKnown == Spec => []OutcomeKnown
<1>1. Inv => OutcomeKnown
  <2> SUFFICES ASSUME Inv, NEW c \in Conns
               PROVE  /\ applied[c] <= 1
                      /\ client[c] = "answered" => applied[c] = 1
                      /\ client[c] = "failed" => applied[c] = 0 \/ pc[c] = "collected"
    BY DEF OutcomeKnown
  <2>1. pc[c] \in Labels /\ out[c] \in {"nothing", "response"} /\ Told(c)
    BY DEF Inv, TypeOK, Labels
  <2>2. applied[c] \in {0, 1} /\ (out[c] = "response" => applied[c] = 1)
    BY <2>1 DEF Labels, Told
  <2>3. client[c] = "failed" => applied[c] = 0 \/ pc[c] = "collected"
    BY <2>1 DEF Told
  <2>4. client[c] = "answered" => applied[c] = 1
    BY <2>1, <2>2 DEF Told
  <2> QED BY <2>2, <2>3, <2>4
<1> QED BY <1>1, InitInv, NextInv, PTL DEF Spec

\* No POST that was there in time goes lost, in however many parts it came.
THEOREM ExchangePrompt == Spec => []PromptPostsApplied
<1>1. Inv => PromptPostsApplied
  BY DEF Inv, Kept, PromptPostsApplied
<1> QED BY <1>1, InitInv, NextInv, PTL DEF Spec
-----------------------------------------------------------------------------
(* What NobodyHeld promises in the long run, taken apart: who waits for    *)
(* whom, and that all waiting comes to an end.                             *)

\* A connection without a thread has its place in the backlog; the head is read
\* to its end and no further; a thread ends with its socket closed.
Placed ==
    \A c \in Conns :
        /\ client[c] # "none" => kind[c] # "none"
        /\ pc[c] = "none" => taken[c] = 0
        /\ pc[c] = "none" /\ client[c] # "none" => \E i \in 1 .. Len(backlog) : backlog[i] = c
        /\ pc[c] = "head" => taken[c] < HeadLines
        /\ pc[c] \in {"end", "collected"} => socket[c] = "closed"

\* The guards of the steps of a thread.
CanGo(c) ==
    \/ pc[c] = "head" /\ (taken[c] < arrived[c] \/ client[c] = "left")
    \/ pc[c] = "body" /\ (taken[c] < arrived[c] \/ taken[c] = arrived[c])
    \/ pc[c] = "analyze" /\ kind[c] \in Kinds
    \/ pc[c] \in {"respond", "close"}

\* At any time, a thread that cannot go on waits for the rest of a head, from a
\* client that is still there; and a client that waits has a connection that
\* main can accept, a thread that works for it or waits for it, a socket that
\* has been closed, or a thread that has died.
WhoHolds ==
    \A c \in Conns :
        /\ pc[c] \in {"head", "body", "analyze", "respond", "close"} /\ ~ CanGo(c) =>
              client[c] = "waiting" /\ arrived[c] < HeadLines
        /\ client[c] = "waiting" =>
              \/ \E i \in 1 .. Len(backlog) : backlog[i] = c
              \/ CanGo(c)
              \/ pc[c] = "head" /\ arrived[c] < HeadLines
              \/ pc[c] \in {"end", "collected"} /\ socket[c] = "closed"
              \/ pc[c] = "dead"

LEMMA PlacedInit == Init => Placed
<1> SUFFICES ASSUME Init, NEW c \in Conns
             PROVE  client[c] = "none" /\ pc[c] = "none" /\ taken[c] = 0
  BY DEF Placed
<1> QED BY DEF Init

\* A step of one connection that leaves the backlog alone.
LEMMA PlacedStep ==
    ASSUME Inv, Placed, NEW c \in Conns,
           Step(c) \/ Arrive(c) \/ Leave(c) \/ Receive(c) \/ Collect(c)
    PROVE  Placed'
<1>1. TypeOK /\ HeadLines \in Nat \ {0} /\ Told(c)
  BY PartsAssumption DEF Inv
<1>2. /\ client[c] # "none" => kind[c] # "none"
      /\ pc[c] = "none" => taken[c] = 0
      /\ pc[c] = "none" /\ client[c] # "none" => \E i \in 1 .. Len(backlog) : backlog[i] = c
      /\ pc[c] = "head" => taken[c] < HeadLines
      /\ pc[c] \in {"end", "collected"} => socket[c] = "closed"
  BY DEF Placed
<1>3. /\ UNCHANGED <<kind, backlog>>
      /\ \A d \in Conns \ {c} : UNCHANGED <<client[d], pc[d], taken[d], socket[d]>>
  BY <1>1 DEF TypeOK, Step, ReadLine, ReadFails, ReadBody, BodyEnd, Throw, AnalyzeGet, AnalyzePost,
     Respond, Close, Arrive, Leave, Receive, Collect, Goto, Take, network, work
<1>4. /\ client'[c] # "none" => kind[c] # "none"
      /\ pc'[c] = "none" => taken'[c] = 0
      /\ pc'[c] = "none" /\ client'[c] # "none" => \E i \in 1 .. Len(backlog) : backlog[i] = c
      /\ pc'[c] = "head" => taken'[c] < HeadLines
      /\ pc'[c] \in {"end", "collected"} => socket'[c] = "closed"
  <2>1. CASE Arrive(c) \/ Leave(c) \/ Receive(c)
    BY <1>1, <1>2, <2>1 DEF TypeOK, Arrive, Leave, Receive, network, work
  <2>2. CASE ReadLine(c)
    BY <1>1, <1>2, <2>2 DEF TypeOK, ReadLine, Goto, Take, network, Inv, Waiting
  <2>3. CASE ReadFails(c) \/ ReadBody(c) \/ BodyEnd(c) \/ Throw(c) \/ Respond(c) \/ Close(c)
    BY <1>1, <1>2, <2>3 DEF TypeOK, ReadFails, ReadBody, BodyEnd, Throw, Respond, Close, Goto, Take,
       network, work, Inv, Waiting
  <2>4. CASE AnalyzeGet(c) \/ AnalyzePost(c)
    BY <1>1, <1>2, <2>4 DEF TypeOK, AnalyzeGet, AnalyzePost, Goto, network, work, Inv, Waiting
  <2>5. CASE Collect(c)
    BY <1>1, <1>2, <2>5 DEF TypeOK, Collect, Goto, network, work, Inv, Waiting
  <2> QED BY <2>1, <2>2, <2>3, <2>4, <2>5 DEF Step
<1> QED BY <1>3, <1>4 DEF Placed

LEMMA PlacedConnect ==
    ASSUME Inv, Placed, NEW c \in Conns, NEW k \in Kinds, Connect(c, k)
    PROVE  Placed'
<1>1. TypeOK /\ Len(backlog) \in Nat
  BY DEF Inv, TypeOK
<1>2. /\ client' = [client EXCEPT ![c] = "waiting"] /\ kind' = [kind EXCEPT ![c] = k]
      /\ UNCHANGED <<pc, taken, socket>>
  BY DEF Connect, work
<1>3. Len(backlog') = Len(backlog) + 1 /\ backlog'[Len(backlog) + 1] = c
      /\ \A i \in 1 .. Len(backlog) : backlog'[i] = backlog[i]
  BY <1>1 DEF Connect, TypeOK
<1>4. \A i \in 1 .. Len(backlog) : i \in 1 .. Len(backlog')
  BY <1>1, <1>3
<1>5. Len(backlog) + 1 \in 1 .. Len(backlog')
  BY <1>1, <1>3
<1>6. \A d \in Conns : pc[d] = "none" /\ client'[d] # "none" =>
          \E i \in 1 .. Len(backlog') : backlog'[i] = d
  <2> TAKE d \in Conns
  <2>1. CASE d = c
    BY <1>3, <1>5, <2>1
  <2>2. CASE d # c
    <3>1. client'[d] = client[d]
      BY <1>1, <1>2, <2>2 DEF TypeOK
    <3> QED BY <1>3, <1>4, <3>1 DEF Placed
  <2> QED BY <2>1, <2>2
<1>7. \A d \in Conns : client'[d] # "none" => kind'[d] # "none"
  BY <1>1, <1>2 DEF TypeOK, Placed, Kinds
<1> QED BY <1>2, <1>6, <1>7 DEF Placed

LEMMA PlacedAccept == ASSUME Inv, Placed, Accept PROVE Placed'
<1>1. PICK c \in Conns : c = Head(backlog)
  BY DEF Accept, Inv, TypeOK
<1>2. /\ pc' = [pc EXCEPT ![c] = "head"] /\ UNCHANGED <<kind, client, taken, socket>>
      /\ backlog # << >> /\ backlog' = Tail(backlog) /\ pc \in [Conns -> Labels]
  BY <1>1 DEF Accept, Goto, work, Inv, TypeOK, Labels
<1>3. /\ Len(backlog) \in Nat \ {0} /\ c = backlog[1] /\ Len(backlog') = Len(backlog) - 1
      /\ \A i \in 1 .. Len(backlog') : backlog'[i] = backlog[i + 1]
  BY <1>1, <1>2 DEF Inv, TypeOK
<1>4. pc[c] = "none" /\ taken[c] = 0 /\ HeadLines \in Nat \ {0}
  BY <1>3, PartsAssumption DEF Inv, Waiting, Placed
<1>5. ASSUME NEW d \in Conns, pc'[d] = "none", client[d] # "none"
      PROVE  \E i \in 1 .. Len(backlog') : backlog'[i] = d
  <2>1. d # c /\ pc[d] = "none"
    BY <1>2, <1>5
  <2>2. PICK i \in 1 .. Len(backlog) : backlog[i] = d
    BY <1>5, <2>1 DEF Placed
  <2>3. i # 1
    BY <1>3, <2>1, <2>2
  <2>4. i - 1 \in 1 .. Len(backlog') /\ (i - 1) + 1 = i
    BY <1>3, <2>3
  <2>5. backlog'[i - 1] = d
    BY <1>3, <2>2, <2>4
  <2> QED BY <2>4, <2>5
<1>6. ASSUME NEW d \in Conns
      PROVE  /\ pc'[d] = "none" => taken[d] = 0
             /\ pc'[d] = "head" => taken[d] < HeadLines
             /\ pc'[d] \in {"end", "collected"} => socket[d] = "closed"
  BY <1>2, <1>4 DEF Placed
<1> QED BY <1>2, <1>5, <1>6 DEF Placed

LEMMA PlacedNext == Inv /\ Placed /\ [Next]_vars => Placed'
<1>1. ASSUME Placed, UNCHANGED vars PROVE Placed'
  BY <1>1 DEF vars, network, work, Placed
<1> QED BY <1>1, PlacedStep, PlacedConnect, PlacedAccept DEF Next

\* In any number of exchanges, nobody waits but for a client that has not sent
\* its head, or for a thread that an exception has ended.
THEOREM ExchangeWhoHolds == Spec => []WhoHolds
<1>1. Inv /\ Placed => WhoHolds
  <2> SUFFICES ASSUME Inv, Placed, NEW c \in Conns
               PROVE  /\ pc[c] \in {"head", "body", "analyze", "respond", "close"} /\ ~ CanGo(c) =>
                            client[c] = "waiting" /\ arrived[c] < HeadLines
                      /\ client[c] = "waiting" =>
                            \/ \E i \in 1 .. Len(backlog) : backlog[i] = c
                            \/ CanGo(c)
                            \/ pc[c] = "head" /\ arrived[c] < HeadLines
                            \/ pc[c] \in {"end", "collected"} /\ socket[c] = "closed"
                            \/ pc[c] = "dead"
    BY DEF WhoHolds
  <2>1. /\ pc[c] \in Labels /\ taken[c] \in Nat /\ arrived[c] \in Nat /\ taken[c] <= arrived[c]
        /\ client[c] \in Clients /\ kind[c] \in Kinds \union {"none"} /\ HeadLines \in Nat
    BY PartsAssumption DEF Inv, TypeOK, Labels, Clients
  <2>2. /\ client[c] # "none" => kind[c] # "none"
        /\ pc[c] = "none" /\ client[c] # "none" => \E i \in 1 .. Len(backlog) : backlog[i] = c
        /\ pc[c] = "head" => taken[c] < HeadLines
        /\ pc[c] \in {"end", "collected"} => socket[c] = "closed"
    BY DEF Placed
  <2>3. /\ client[c] = "none" => pc[c] = "none"
        /\ client[c] = "answered" => pc[c] \notin {"head", "body", "analyze", "respond"}
        /\ client[c] = "failed" => pc[c] \in {"end", "collected"}
    BY DEF Inv, Waiting, Told
  <2>4. CASE pc[c] = "head"
    BY <2>1, <2>2, <2>3, <2>4 DEF CanGo, Clients
  <2>5. CASE pc[c] \in {"body", "analyze", "respond", "close"}
    BY <2>1, <2>2, <2>3, <2>5 DEF CanGo
  <2>6. CASE pc[c] \in {"none", "end", "dead", "collected"}
    BY <2>2, <2>6
  <2> QED BY <2>1, <2>4, <2>5, <2>6 DEF Labels
<1>2. Init => Inv /\ Placed
  BY InitInv, PlacedInit
<1>3. Inv /\ Placed /\ [Next]_vars => (Inv /\ Placed)'
  BY NextInv, PlacedNext
<1> QED BY <1>1, <1>2, <1>3, PTL DEF Spec

\* What is left of an exchange: parts that can arrive and be read, turns of its
\* client, stations of its thread.
StationsLeft(l) == IF l = "none" THEN 6 ELSE IF l = "head" THEN 5 ELSE IF l = "body" THEN 4
                   ELSE IF l = "analyze" THEN 3 ELSE IF l = "respond" THEN 2
                   ELSE IF l \in {"close", "dead"} THEN 1 ELSE 0
TurnsLeft(p) == IF p = "none" THEN 2 ELSE IF p = "waiting" THEN 1 ELSE 0
PartsLeft(a, k) == 2 * (HeadLines + BodyParts) - a - k
Left(c) == PartsLeft(arrived[c], taken[c]) + TurnsLeft(client[c]) + StationsLeft(pc[c])

\* Each step takes something from one exchange and nothing from another, so an
\* exchange has no more than 2 * (HeadLines + BodyParts) + 8 of them, whatever
\* its client and the other clients do.
ExchangesRunOut ==
    /\ [](\A c \in Conns : Left(c) \in 0 .. 2 * (HeadLines + BodyParts) + 8)
    /\ [][\E c \in Conns : /\ Left(c)' < Left(c)
                           /\ \A d \in Conns \ {c} : Left(d)' = Left(d)]_vars

LEMMA LeftParts ==
    ASSUME NEW a \in Nat, NEW k \in Nat, k <= a, NEW req \in Kinds \union {"none"},
           a <= Size(req), NEW p, NEW l
    PROVE  /\ PartsLeft(a, k) \in 0 .. 2 * (HeadLines + BodyParts)
           /\ TurnsLeft(p) \in 0 .. 2 /\ StationsLeft(l) \in 0 .. 6
<1>1. HeadLines \in Nat /\ BodyParts \in Nat /\ a <= HeadLines + BodyParts
  BY PartsAssumption DEF Size
<1>2. PartsLeft(a, k) \in 0 .. 2 * (HeadLines + BodyParts)
  BY <1>1 DEF PartsLeft
<1> QED BY <1>2 DEF TurnsLeft, StationsLeft

\* Fewer parts, turns or stations, and no more of the others.
LEMMA LessLeft ==
    ASSUME TypeOK, TypeOK', NEW c \in Conns,
           LET p == PartsLeft(arrived[c], taken[c])    q == PartsLeft(arrived[c], taken[c])'
               m == TurnsLeft(client[c])               n == TurnsLeft(client[c])'
               r == StationsLeft(pc[c])                s == StationsLeft(pc[c])'
           IN  /\ q <= p /\ n <= m /\ s <= r
               /\ q < p \/ n < m \/ s < r
    PROVE  Left(c)' < Left(c)
<1>1. PICK p, q, m, n, r, s :
          /\ p = PartsLeft(arrived[c], taken[c]) /\ q = PartsLeft(arrived[c], taken[c])'
          /\ m = TurnsLeft(client[c]) /\ n = TurnsLeft(client[c])'
          /\ r = StationsLeft(pc[c]) /\ s = StationsLeft(pc[c])'
  OBVIOUS
<1>2. p \in Int /\ m \in Int /\ r \in Int
  <2>1. /\ arrived[c] \in Nat /\ taken[c] \in Nat /\ taken[c] <= arrived[c]
        /\ kind[c] \in Kinds \union {"none"} /\ arrived[c] <= Size(kind[c])
    BY DEF TypeOK
  <2> QED BY <1>1, <2>1, LeftParts
<1>3. q \in Int /\ n \in Int /\ s \in Int
  <2>1. /\ arrived'[c] \in Nat /\ taken'[c] \in Nat /\ taken'[c] <= arrived'[c]
        /\ kind'[c] \in Kinds \union {"none"} /\ arrived'[c] <= Size(kind'[c])
    BY DEF TypeOK
  <2> QED BY <1>1, <2>1, LeftParts
<1>4. q <= p /\ n <= m /\ s <= r /\ (q < p \/ n < m \/ s < r)
  BY <1>1
<1>5. q + n + s < p + m + r
  BY <1>2, <1>3, <1>4
<1> QED BY <1>1, <1>5 DEF Left

\* What a step takes from an exchange, by whose it is.
LEMMA ClientTakes ==
    ASSUME Inv, Inv', NEW c \in Conns,
           (\E k \in Kinds : Connect(c, k)) \/ Arrive(c) \/ Leave(c) \/ Receive(c)
    PROVE  /\ Left(c)' < Left(c)
           /\ \A d \in Conns \ {c} : Left(d)' = Left(d)
<1>1. TypeOK /\ TypeOK'
  BY DEF Inv
<1>2. UNCHANGED <<pc, taken>>
  BY DEF Connect, Arrive, Leave, Receive, work
<1>3. \A d \in Conns \ {c} : arrived'[d] = arrived[d] /\ client'[d] = client[d]
  <2>1. \/ arrived' = arrived /\ \E p : client' = [client EXCEPT ![c] = p]
        \/ client' = client /\ \E a : arrived' = [arrived EXCEPT ![c] = a]
    BY DEF Connect, Arrive, Leave, Receive, network
  <2> QED BY <1>1, <2>1 DEF TypeOK
<1>4. \A d \in Conns \ {c} : Left(d)' = Left(d)
  BY <1>2, <1>3 DEF Left
<1>5. \/ arrived'[c] = arrived[c] + 1 /\ client'[c] = client[c]
      \/ /\ arrived'[c] = arrived[c]
         /\ client[c] = "none" /\ client'[c] = "waiting"
      \/ /\ arrived'[c] = arrived[c]
         /\ client[c] = "waiting" /\ client'[c] \in {"answered", "failed", "left"}
  BY <1>1 DEF TypeOK, Connect, Arrive, Leave, Receive, network
<1>6. arrived[c] \in Nat /\ taken[c] \in Nat /\ HeadLines \in Nat /\ BodyParts \in Nat
  BY <1>1, PartsAssumption DEF TypeOK
<1>7. /\ PartsLeft(arrived[c], taken[c])' <= PartsLeft(arrived[c], taken[c])
      /\ TurnsLeft(client[c])' <= TurnsLeft(client[c])
      /\ \/ PartsLeft(arrived[c], taken[c])' < PartsLeft(arrived[c], taken[c])
         \/ TurnsLeft(client[c])' < TurnsLeft(client[c])
  BY <1>2, <1>5, <1>6 DEF PartsLeft, TurnsLeft
<1>8. StationsLeft(pc[c])' <= StationsLeft(pc[c])
  BY <1>2 DEF StationsLeft
<1> QED BY <1>1, <1>4, <1>7, <1>8, LessLeft

LEMMA ThreadTakes ==
    ASSUME Inv, Inv', NEW c \in Conns, Step(c)
    PROVE  /\ Left(c)' < Left(c)
           /\ \A d \in Conns \ {c} : Left(d)' = Left(d)
<1>1. TypeOK /\ TypeOK'
  BY DEF Inv
<1>2. UNCHANGED <<client, arrived>>
  BY DEF Step, ReadLine, ReadFails, ReadBody, BodyEnd, Throw, AnalyzeGet, AnalyzePost,
     Respond, Close, network
<1>3. \A d \in Conns \ {c} : pc'[d] = pc[d] /\ taken'[d] = taken[d]
  <2>1. pc' = pc \/ \E l : pc' = [pc EXCEPT ![c] = l]
    BY DEF Step, ReadLine, ReadFails, ReadBody, BodyEnd, Throw, AnalyzeGet, AnalyzePost, Respond,
       Close, Goto
  <2>2. taken' = taken \/ \E n : taken' = [taken EXCEPT ![c] = n]
    BY DEF Step, ReadLine, ReadFails, ReadBody, BodyEnd, Throw, AnalyzeGet, AnalyzePost, Respond,
       Close, Take, work
  <2> QED BY <1>1, <2>1, <2>2 DEF TypeOK
<1>4. \A d \in Conns \ {c} : Left(d)' = Left(d)
  BY <1>2, <1>3 DEF Left
<1>5. \/ /\ taken'[c] = taken[c] + 1
         /\ pc'[c] = pc[c] \/ (pc[c] = "head" /\ pc'[c] = "body")
      \/ taken'[c] = taken[c] /\ StationsLeft(pc[c])' < StationsLeft(pc[c])
  <2>1. CASE ReadLine(c) \/ ReadBody(c)
    BY <1>1, <2>1 DEF TypeOK, ReadLine, ReadBody, Goto, Take
  <2>2. CASE ReadFails(c) \/ BodyEnd(c) \/ Throw(c) \/ AnalyzeGet(c) \/ AnalyzePost(c)
             \/ Respond(c) \/ Close(c)
    <3>1. taken'[c] = taken[c]
      BY <2>2 DEF ReadFails, BodyEnd, Throw, AnalyzeGet, AnalyzePost, Respond, Close, work
    <3>2. \/ pc[c] \in {"head", "body", "analyze"} /\ pc'[c] = "dead"
          \/ pc[c] = "body" /\ pc'[c] = "analyze"
          \/ pc[c] = "analyze" /\ pc'[c] \in {"respond", "close"}
          \/ pc[c] = "respond" /\ pc'[c] = "close"
          \/ pc[c] = "close" /\ pc'[c] = "end"
      BY <1>1, <2>2 DEF TypeOK, ReadFails, BodyEnd, Throw, AnalyzeGet, AnalyzePost, Respond, Close, Goto
    <3> QED BY <3>1, <3>2 DEF StationsLeft
  <2> QED BY <2>1, <2>2 DEF Step
<1>6. arrived[c] \in Nat /\ taken[c] \in Nat /\ HeadLines \in Nat /\ BodyParts \in Nat
  BY <1>1, PartsAssumption DEF TypeOK
<1>7. TurnsLeft(client[c])' <= TurnsLeft(client[c])
  BY <1>2 DEF TurnsLeft
<1>8. CASE /\ taken'[c] = taken[c] + 1
           /\ pc'[c] = pc[c] \/ (pc[c] = "head" /\ pc'[c] = "body")
  <2>1. PartsLeft(arrived[c], taken[c])' < PartsLeft(arrived[c], taken[c])
    BY <1>2, <1>6, <1>8 DEF PartsLeft
  <2>2. PartsLeft(arrived[c], taken[c])' <= PartsLeft(arrived[c], taken[c])
    BY <1>2, <1>6, <1>8 DEF PartsLeft
  <2>3. StationsLeft(pc[c])' <= StationsLeft(pc[c])
    BY <1>8 DEF StationsLeft
  <2> QED BY <1>1, <1>4, <1>7, <2>1, <2>2, <2>3, LessLeft
<1>9. CASE taken'[c] = taken[c] /\ StationsLeft(pc[c])' < StationsLeft(pc[c])
  <2>1. PartsLeft(arrived[c], taken[c])' <= PartsLeft(arrived[c], taken[c])
    BY <1>2, <1>6, <1>9 DEF PartsLeft
  <2>2. StationsLeft(pc[c])' <= StationsLeft(pc[c])
    BY <1>9 DEF StationsLeft
  <2> QED BY <1>1, <1>4, <1>7, <1>9, <2>1, <2>2, LessLeft
<1> QED BY <1>5, <1>8, <1>9

LEMMA CollectTakes ==
    ASSUME Inv, Inv', NEW c \in Conns, Collect(c)
    PROVE  /\ Left(c)' < Left(c)
           /\ \A d \in Conns \ {c} : Left(d)' = Left(d)
<1>1. TypeOK /\ TypeOK'
  BY DEF Inv
<1>2. /\ UNCHANGED <<client, arrived, taken>>
      /\ pc[c] = "dead" /\ pc'[c] = "collected" /\ \A d \in Conns \ {c} : pc'[d] = pc[d]
  BY <1>1 DEF Collect, Goto, network, work, TypeOK
<1>3. \A d \in Conns \ {c} : Left(d)' = Left(d)
  BY <1>2 DEF Left
<1>4. StationsLeft(pc[c])' < StationsLeft(pc[c]) /\ StationsLeft(pc[c])' <= StationsLeft(pc[c])
  BY <1>2 DEF StationsLeft
<1>5. arrived[c] \in Nat /\ taken[c] \in Nat /\ HeadLines \in Nat /\ BodyParts \in Nat
  BY <1>1, PartsAssumption DEF TypeOK
<1>6. /\ PartsLeft(arrived[c], taken[c])' <= PartsLeft(arrived[c], taken[c])
      /\ TurnsLeft(client[c])' <= TurnsLeft(client[c])
  BY <1>2, <1>5 DEF PartsLeft, TurnsLeft
<1> QED BY <1>1, <1>3, <1>4, <1>6, LessLeft

LEMMA AcceptTakes ==
    ASSUME Inv, Inv', Accept
    PROVE  \E c \in Conns : /\ Left(c)' < Left(c)
                            /\ \A d \in Conns \ {c} : Left(d)' = Left(d)
<1>1. TypeOK /\ TypeOK'
  BY DEF Inv
<1>2. PICK c \in Conns : c = Head(backlog)
  BY <1>1 DEF Accept, TypeOK
<1>3. /\ pc' = [pc EXCEPT ![c] = "head"] /\ UNCHANGED <<client, arrived, taken>>
      /\ backlog # << >> /\ c = backlog[1] /\ Len(backlog) \in Nat \ {0}
  BY <1>1, <1>2 DEF Accept, Goto, work, TypeOK
<1>4. pc[c] = "none"
  BY <1>3 DEF Inv, Waiting
<1>5. pc'[c] = "head" /\ \A d \in Conns \ {c} : pc'[d] = pc[d]
  BY <1>1, <1>3 DEF TypeOK
<1>6. \A d \in Conns \ {c} : Left(d)' = Left(d)
  BY <1>3, <1>5 DEF Left
<1>7. StationsLeft(pc[c])' < StationsLeft(pc[c]) /\ StationsLeft(pc[c])' <= StationsLeft(pc[c])
  BY <1>4, <1>5 DEF StationsLeft
<1>8. arrived[c] \in Nat /\ taken[c] \in Nat /\ HeadLines \in Nat /\ BodyParts \in Nat
  BY <1>1, PartsAssumption DEF TypeOK
<1>9. /\ PartsLeft(arrived[c], taken[c])' <= PartsLeft(arrived[c], taken[c])
      /\ TurnsLeft(client[c])' <= TurnsLeft(client[c])
  BY <1>3, <1>8 DEF PartsLeft, TurnsLeft
<1> QED BY <1>1, <1>6, <1>7, <1>9, LessLeft

\* No exchange goes on for ever: NobodyHeld, but for the fairness that makes the
\* steps happen.
THEOREM ExchangeRunsOut == Spec => ExchangesRunOut
<1>1. Inv => \A c \in Conns : Left(c) \in 0 .. 2 * (HeadLines + BodyParts) + 8
  <2> SUFFICES ASSUME Inv, NEW c \in Conns
               PROVE  Left(c) \in 0 .. 2 * (HeadLines + BodyParts) + 8
    OBVIOUS
  <2>1. PICK N, p, m, r : /\ N = 2 * (HeadLines + BodyParts)
                          /\ p = PartsLeft(arrived[c], taken[c])
                          /\ m = TurnsLeft(client[c]) /\ r = StationsLeft(pc[c])
    OBVIOUS
  <2>2. /\ arrived[c] \in Nat /\ taken[c] \in Nat /\ taken[c] <= arrived[c]
        /\ kind[c] \in Kinds \union {"none"} /\ arrived[c] <= Size(kind[c])
    BY DEF Inv, TypeOK
  <2>3. p \in 0 .. N /\ m \in 0 .. 2 /\ r \in 0 .. 6
    BY <2>1, <2>2, LeftParts
  <2>4. N \in Nat /\ p + m + r \in 0 .. N + 8
    <3>1. N \in Nat
      BY <2>1, PartsAssumption
    <3> QED BY <2>3, <3>1
  <2> QED BY <2>1, <2>4 DEF Left
<1> DEFINE Takes == \E c \in Conns : /\ Left(c)' < Left(c)
                                     /\ \A d \in Conns \ {c} : Left(d)' = Left(d)
<1>2. Inv /\ Inv' /\ [Next]_vars => [Takes]_vars
  BY ClientTakes, ThreadTakes, CollectTakes, AcceptTakes DEF Next
<1> HIDE DEF Takes
<1>3. Spec => [][Takes]_vars
  BY <1>2, InitInv, NextInv, PTL DEF Spec
<1>4. Spec => [](\A c \in Conns : Left(c) \in 0 .. 2 * (HeadLines + BodyParts) + 8)
  BY <1>1, InitInv, NextInv, PTL DEF Spec
<1> QED BY <1>3, <1>4 DEF ExchangesRunOut, Takes
===============================================================================
