--------------------------- MODULE ClickGameProofs ---------------------------
(***************************************************************************)
(* Proofs about ClickGame, for all its times: one loop at most, and hits   *)
(* that are counted once.                                                  *)
(***************************************************************************)
EXTENDS ClickGame, TLAPS

\* While no bubble explodes there is one more bubble than hits, or so many that
\* no hit of this game is beyond them.
BubbleToHit ==
    expltime = 0 /\ onclick = "stop" =>
        \/ count < bubblecount + revived
        \/ bubblecount = MaxClicks

\* There is a bubble in a game, and no explosion outside of one.
GameOn == /\ onclick = "stop" => bubblecount > 0
          /\ onclick # "stop" => expltime = 0
          /\ lastFrame = "click" => expltime <= ExplTime

Inv == TypeOK /\ OneLoop /\ HitsCounted /\ BubbleToHit /\ GameOn

\* The page has no game at first.
LEMMA InitInv == Init => Inv
<1> SUFFICES ASSUME Init PROVE Inv
  OBVIOUS
<1> USE TimesAssumption, BoundsAssumption
<1>1. TypeOK
  BY DEF Init, TypeOK
<1>2. OneLoop
  BY DEF Init, OneLoop
<1>3. HitsCounted
  BY DEF Init, HitsCounted
<1>4. BubbleToHit /\ GameOn
  BY DEF Init, BubbleToHit, GameOn
<1> QED BY <1>1, <1>2, <1>3, <1>4 DEF Inv

\* A game is started and stopped in step with its loop.
LEMMA ButtonKeepsInv ==
    ASSUME Inv, ImagesLoaded \/ Start \/ Stop
    PROVE  Inv'
<1> USE TimesAssumption, BoundsAssumption DEF Inv, counts
<1>1. CASE ImagesLoaded
  BY <1>1 DEF ImagesLoaded, TypeOK, OneLoop, HitsCounted, BubbleToHit, GameOn
<1>2. CASE Start
  BY <1>2 DEF Start, TypeOK, OneLoop, HitsCounted, BubbleToHit, GameOn
<1>3. CASE Stop
  BY <1>3 DEF Stop, TypeOK, OneLoop, HitsCounted, BubbleToHit, GameOn
<1> QED BY <1>1, <1>2, <1>3

\* A hit uses up the bubble there is.
LEMMA ClickKeepsInv ==
    ASSUME Inv, NEW hit \in BOOLEAN, MouseClick(hit)
    PROVE  Inv'
<1> USE TimesAssumption, BoundsAssumption DEF Inv, MouseClick, button
<1>1. CASE hit /\ expltime = 0
  BY <1>1 DEF TypeOK, OneLoop, HitsCounted, BubbleToHit, GameOn
<1>2. CASE ~ (hit /\ expltime = 0)
  BY <1>2 DEF TypeOK, OneLoop, HitsCounted, BubbleToHit, GameOn
<1> QED BY <1>1, <1>2

\* A frame keeps the bubble, or makes the next, up to the bound of the counter.
LEMMA BubbleKept ==
    ASSUME Inv, onclick = "stop", NEW delta \in -1 .. MaxDelta,
           GenBubble \/ SameBubble(delta)
    PROVE  /\ bubbletime' \in Int /\ bubblecount' \in 1 .. MaxClicks
           /\ bubblecount <= bubblecount'
<1>1. bubblecount \in 1 .. MaxClicks /\ bubbletime \in Int /\ MaxClicks \in Int /\ delta \in Int
  BY BoundsAssumption DEF Inv, TypeOK, GameOn
<1>2. CASE GenBubble
  <2>1. bubbletime' \in Int
    BY <1>2, TimesAssumption DEF GenBubble
  <2>2. bubblecount' = IF bubblecount + 1 < MaxClicks THEN bubblecount + 1 ELSE MaxClicks
    BY <1>2 DEF GenBubble, Cap
  <2> QED BY <1>1, <2>1, <2>2
<1>3. CASE SameBubble(delta)
  BY <1>1, <1>3 DEF SameBubble
<1> QED BY <1>2, <1>3

\* Bubbles and returns that only grow are never fewer than the hits, and one more
\* of either is one more to hit.
LEMMA MoreBubbles ==
    ASSUME NEW c \in Int, NEW m \in Int, NEW b \in Int, NEW r \in Int,
           NEW b2 \in Int, NEW r2 \in Int, b <= b2, r <= r2
    PROVE  /\ c <= b + r => c <= b2 + r2
           /\ c < b + r => c < b2 + r2
           /\ c <= b + r /\ (b2 = b + 1 \/ r2 = r + 1) => c < b2 + r2
           /\ c <= m /\ r2 = m /\ b2 >= 1 => c < b2 + r2
OBVIOUS

\* An explosion ends with the next bubble, or with one that came back.
LEMMA LoopKeepsInv ==
    ASSUME Inv, NEW delta \in -1 .. MaxDelta, Loop(delta)
    PROVE  Inv'
<1> USE TimesAssumption, BoundsAssumption
<1>1. /\ delta \in Int /\ MaxClicks \in Nat /\ ExplTime \in Nat
      /\ count \in 0 .. MaxClicks /\ totalcount \in 0 .. MaxClicks /\ count <= totalcount
      /\ bubblecount \in 1 .. MaxClicks /\ revived \in 0 .. MaxClicks
      /\ expltime \in 0 .. ExplTime + 1
      /\ onclick = "stop" /\ (delta < 0 => expltime <= ExplTime)
  BY DEF Inv, OneLoop, TypeOK, GameOn, Loop
<1>2. /\ onclick' = onclick /\ listeners' = listeners /\ frames' = frames
      /\ count' = count /\ totalcount' = totalcount /\ lastFrame' = "frame"
  BY DEF Loop, counts
<1>3. gametime' \in Int /\ gametime' <= ButtonTime + 1 /\ visibility' \in {"visible", "hidden"}
  BY <1>1 DEF Inv, TypeOK, Cap, Loop
<1>4. OneLoop'
  BY <1>2 DEF Inv, OneLoop
<1>5. bubbletime' \in Int /\ bubblecount' \in 1 .. MaxClicks /\ bubblecount <= bubblecount'
  BY <1>1, BubbleKept DEF Loop, BubbleFrame, ExplosionFrame
<1>6. revived' \in 0 .. MaxClicks /\ revived <= revived' /\ expltime' \in 0 .. ExplTime + 1
  <2>1. CASE BubbleFrame(delta)
    BY <1>1, <2>1 DEF BubbleFrame
  <2>2. CASE ExplosionFrame(delta)
    BY <1>1, <2>2 DEF ExplosionFrame, Cap
  <2> QED BY <2>1, <2>2 DEF Loop
<1>7. TypeOK'
  BY <1>1, <1>2, <1>3, <1>5, <1>6 DEF Inv, TypeOK
<1>8. /\ count \in Int /\ bubblecount \in Int /\ revived \in Int /\ MaxClicks \in Int
      /\ bubblecount' \in Int /\ revived' \in Int
      /\ bubblecount <= bubblecount' /\ revived <= revived' /\ bubblecount' >= 1
      /\ bubblecount' <= MaxClicks /\ count <= MaxClicks
  BY <1>1, <1>5, <1>6
<1>9. count <= bubblecount + revived /\ count <= bubblecount' + revived'
  BY <1>8, MoreBubbles DEF Inv, HitsCounted
<1>10. HitsCounted' /\ GameOn'
  BY <1>1, <1>2, <1>5, <1>9 DEF HitsCounted, GameOn
<1>11. expltime' = 0 => count < bubblecount' + revived' \/ bubblecount' = MaxClicks
  <2>1. CASE BubbleFrame(delta)
    <3>1. revived' = revived /\ (count < bubblecount + revived \/ bubblecount = MaxClicks)
      BY <1>1, <2>1 DEF BubbleFrame, Inv, BubbleToHit
    <3>2. bubblecount = MaxClicks => bubblecount' = MaxClicks
      BY <1>8
    <3> QED BY <1>8, <3>1, <3>2, MoreBubbles
  <2>2. CASE ExplosionFrame(delta) /\ expltime - delta < 0
    <3>1. bubblecount' = IF bubblecount + 1 < MaxClicks THEN bubblecount + 1 ELSE MaxClicks
      BY <2>2 DEF ExplosionFrame, GenBubble, Cap
    <3>2. bubblecount' = bubblecount + 1 \/ bubblecount' = MaxClicks
      BY <3>1
    <3> QED BY <1>8, <1>9, <3>2, MoreBubbles
  <2>3. CASE ExplosionFrame(delta) /\ expltime = delta
    <3>1. revived' = IF revived + 1 < MaxClicks THEN revived + 1 ELSE MaxClicks
      BY <2>3 DEF ExplosionFrame, Cap
    <3>2. revived' = revived + 1 \/ revived' = MaxClicks
      BY <3>1
    <3> QED BY <1>8, <1>9, <3>2, MoreBubbles
  <2>4. CASE ExplosionFrame(delta) /\ expltime > delta
    BY <1>1, <2>4 DEF ExplosionFrame
  <2> QED BY <1>1, <2>1, <2>2, <2>3, <2>4 DEF Loop
<1>12. BubbleToHit'
  BY <1>2, <1>11 DEF BubbleToHit
<1> QED BY <1>4, <1>7, <1>10, <1>12 DEF Inv

\* Every callback of the page keeps Inv.
LEMMA NextInv == Inv /\ [Next]_vars => Inv'
<1> SUFFICES ASSUME Inv, [Next]_vars PROVE Inv'
  OBVIOUS
<1>1. CASE UNCHANGED vars
  BY <1>1 DEF Inv, TypeOK, OneLoop, HitsCounted, BubbleToHit, GameOn, vars, button, counts
<1> QED BY <1>1, ButtonKeepsInv, ClickKeepsInv, LoopKeepsInv DEF Next

\* The inductive invariant holds throughout.
LEMMA InvHolds == Spec => []Inv
BY InitInv, NextInv, PTL DEF Spec

-----------------------------------------------------------------------------
\* No callback of the page leaves a time or a counter of the game out of its
\* range: no more hits than clicks, no explosion longer than expltimedefault.
THEOREM GameTyped == Spec => []TypeOK
<1>1. Inv => TypeOK
  BY DEF Inv
<1> QED BY <1>1, InvHolds, PTL

\* start() and stop() leave one loop in a game and none outside of it, whatever
\* the times and however often they are called.
THEOREM GameOneLoop == Spec => []OneLoop
<1>1. Inv => OneLoop
  BY DEF Inv
<1> QED BY <1>1, InvHolds, PTL

\* mouseclick counts a bubble once, but for bubbles that came back from an
\* explosion.
THEOREM GameHitsCounted == Spec => []HitsCounted
<1>1. Inv => HitsCounted
  BY DEF Inv
<1> QED BY <1>1, InvHolds, PTL
=============================================================================
