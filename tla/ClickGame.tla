------------------------------- MODULE ClickGame -------------------------------
(***************************************************************************)
(* The game of Practise 5: bubbles appear on a canvas for a time, a click  *)
(* on one makes it explode, and the next appears.  One button starts and   *)
(* stops the game; it is hidden for the game's first seconds.              *)
(*                                                                         *)
(* A page runs one callback at a time: a click on the canvas, a click on   *)
(* the button, or the callback of an animation frame.  Frames come at any  *)
(* distance, long ones when the page was in the background.  The first may *)
(* carry a time before the click that started the game, for it is stamped  *)
(* with the time its frame began.                                          *)
(***************************************************************************)
EXTENDS Integers

CONSTANTS
    ExplTime,   \* expltimedefault, in some unit of time
    ButtonTime, \* buttontimedefault
    Lifetimes,  \* what (Math.random() + 0.5) * defaulttime can be
    MaxDelta,   \* bound: time between two frames
    MaxClicks   \* bound: clicks on the canvas in a game

ASSUME TimesAssumption ==
    /\ ExplTime \in Nat \ {0} /\ ButtonTime \in Nat \ {0}
    /\ Lifetimes \subseteq Nat \ {0} /\ Lifetimes # {}
ASSUME BoundsAssumption == MaxDelta \in Nat \ {0} /\ MaxClicks \in Nat \ {0}

VARIABLES
    onclick,    \* what the button does
    visibility, \* whether it is shown
    listeners,  \* what listens to mousedown on the canvas
    frames,     \* callbacks of loop that are pending
    lastFrame,  \* where lastFrameTime comes from: a click, or a frame
    gametime, bubbletime, expltime,
    count, totalcount, \* hits, and clicks
    bubblecount,
    revived     \* history: bubbles that were hit and came back in this game

button == <<onclick, visibility>>
counts == <<count, totalcount>>
vars == <<button, listeners, frames, lastFrame, gametime, bubbletime, expltime,
          counts, bubblecount, revived>>

\* Bounds that lose nothing: no hit is counted beyond MaxClicks, and nothing
\* happens to the button later than at ButtonTime.
Cap(n, bound) == IF n < bound THEN n ELSE bound

TypeOK ==
    /\ onclick \in {"none", "start", "stop"} /\ visibility \in {"visible", "hidden"}
    /\ listeners \subseteq {"mouseclick"} /\ frames \in Nat
    /\ lastFrame \in {"click", "frame"}
    /\ gametime \in Int /\ gametime <= ButtonTime + 1
    /\ bubbletime \in Int /\ expltime \in 0 .. ExplTime + 1
    /\ count \in 0 .. totalcount /\ totalcount \in 0 .. MaxClicks
    /\ bubblecount \in 0 .. MaxClicks /\ revived \in 0 .. MaxClicks

Init ==
    /\ onclick = "none" /\ visibility = "visible" /\ listeners = {}
    /\ frames = 0 /\ lastFrame = "frame"
    /\ gametime = 0 /\ bubbletime = 0 /\ expltime = 0
    /\ count = 0 /\ totalcount = 0 /\ bubblecount = 0 /\ revived = 0

\* checkForAllImagesLoaded: expls.count is undefined, so its loop checks none.
ImagesLoaded ==
    /\ onclick = "none"
    /\ onclick' = "start"
    /\ UNCHANGED <<visibility, listeners, frames, lastFrame, gametime, bubbletime,
                   expltime, counts, bubblecount, revived>>

-----------------------------------------------------------------------------
(* The button.                                                             *)

Start ==
    /\ onclick = "start" /\ visibility = "visible"
    /\ onclick' = "stop" /\ visibility' = "hidden"
    /\ listeners' = listeners \union {"mouseclick"}
    /\ frames' = frames + 1 /\ lastFrame' = "click"
    /\ gametime' = 0
    /\ bubbletime' \in Lifetimes
    /\ count' = 0 /\ totalcount' = 0 /\ bubblecount' = 1 /\ revived' = 0
    /\ UNCHANGED expltime

\* A mutant of Stop: the frame is not cancelled.
Stop_KeepsFrame ==
    /\ onclick = "stop" /\ visibility = "visible"
    /\ onclick' = "start"
    /\ listeners' = listeners \ {"mouseclick"}
    /\ bubbletime' = 0 /\ expltime' = 0
    /\ UNCHANGED <<visibility, frames, lastFrame, gametime, counts, bubblecount, revived>>

\* cancelAnimationFrame(frame) cancels the last callback asked for.
Stop ==
    /\ onclick = "stop" /\ visibility = "visible"
    /\ onclick' = "start"
    /\ listeners' = listeners \ {"mouseclick"}
    /\ frames' = frames - 1
    /\ bubbletime' = 0 /\ expltime' = 0
    /\ UNCHANGED <<visibility, lastFrame, gametime, counts, bubblecount, revived>>

-----------------------------------------------------------------------------
(* The canvas.                                                             *)

\* A mutant of MouseClick: an exploding bubble can be hit.
MouseClick_Exploding(hit) ==
    /\ "mouseclick" \in listeners
    /\ totalcount < MaxClicks
    /\ totalcount' = totalcount + 1
    /\ IF hit
       THEN count' = count + 1 /\ expltime' = ExplTime
       ELSE UNCHANGED <<count, expltime>>
    /\ UNCHANGED <<button, listeners, frames, lastFrame, gametime, bubbletime,
                   bubblecount, revived>>

\* mouseclick, on the bubble's disc or beside it.
MouseClick(hit) ==
    /\ "mouseclick" \in listeners
    /\ totalcount < MaxClicks
    /\ totalcount' = totalcount + 1
    /\ IF hit /\ expltime = 0
       THEN count' = count + 1 /\ expltime' = ExplTime
       ELSE UNCHANGED <<count, expltime>>
    /\ UNCHANGED <<button, listeners, frames, lastFrame, gametime, bubbletime,
                   bubblecount, revived>>

-----------------------------------------------------------------------------
(* The frames.                                                             *)

GenBubble ==
    /\ bubbletime' \in Lifetimes
    /\ bubblecount' = Cap(bubblecount + 1, MaxClicks)

SameBubble(delta) ==
    /\ bubbletime' = bubbletime - delta
    /\ UNCHANGED bubblecount

\* No explosion: a bubble whose time is over gives way to the next.
BubbleFrame(delta) ==
    /\ expltime = 0
    /\ IF bubbletime - delta < 0 THEN GenBubble ELSE SameBubble(delta)
    /\ UNCHANGED <<expltime, revived>>

\* A mutant of ExplosionFrame: expltime is not set to 0.
ExplosionFrame_NotReset(delta) ==
    /\ expltime # 0
    /\ expltime' = expltime - delta
    /\ IF expltime - delta < 0 THEN GenBubble ELSE SameBubble(delta)
    /\ revived' = Cap(revived + (IF expltime = delta THEN 1 ELSE 0), MaxClicks)

\* An explosion that is over gives way to the next bubble; but one that ends
\* with the frame exactly leaves the bubble that was hit.
ExplosionFrame(delta) ==
    /\ expltime # 0
    /\ expltime' = IF expltime - delta < 0 THEN 0 ELSE expltime - delta
    /\ IF expltime - delta < 0 THEN GenBubble ELSE SameBubble(delta)
    /\ revived' = Cap(revived + (IF expltime = delta THEN 1 ELSE 0), MaxClicks)

\* A mutant of Loop: gametime is that of the last frame.
Loop_NoSum(delta) ==
    /\ frames > 0
    /\ delta < 0 => lastFrame = "click"
    /\ lastFrame' = "frame"
    /\ gametime' = Cap(delta, ButtonTime + 1)
    /\ visibility' = IF delta > ButtonTime THEN "visible" ELSE visibility
    /\ BubbleFrame(delta) \/ ExplosionFrame(delta)
    /\ UNCHANGED <<onclick, listeners, frames, counts>>

\* loop and update: one callback gone, the next asked for.
Loop(delta) ==
    /\ frames > 0
    /\ delta < 0 => lastFrame = "click"
    /\ lastFrame' = "frame"
    /\ gametime' = Cap(gametime + delta, ButtonTime + 1)
    /\ visibility' = IF gametime + delta > ButtonTime THEN "visible" ELSE visibility
    /\ BubbleFrame(delta) \/ ExplosionFrame(delta)
    /\ UNCHANGED <<onclick, listeners, frames, counts>>

LongFrame == \E delta \in 1 .. MaxDelta : Loop(delta)

Next == \/ ImagesLoaded \/ Start \/ Stop
        \/ \E hit \in BOOLEAN : MouseClick(hit)
        \/ \E delta \in -1 .. MaxDelta : Loop(delta)

Spec == Init /\ [][Next]_vars

\* The browser goes on drawing, and time goes on between its frames.
FairSpec == Spec /\ WF_vars(LongFrame)

-----------------------------------------------------------------------------
\* The loop runs exactly once while there is a game, and not at all when there
\* is none, however often the game is stopped and started: two loops would
\* share lastFrameTime, and stop() could end only one.
OneLoop == /\ frames = IF onclick = "stop" THEN 1 ELSE 0
           /\ listeners = IF onclick = "stop" THEN {"mouseclick"} ELSE {}

\* Each hit is a hit of another bubble, but for bubbles that came back from an
\* explosion whose end fell on a frame; a game begins with none exploding.
HitsCounted == /\ count <= bubblecount + revived
               /\ lastFrame = "click" /\ totalcount = 0 => expltime = 0

\* A player can end the game: the button that start() hides comes back.
ButtonComesBack == onclick = "stop" ~> visibility = "visible"
=============================================================================
