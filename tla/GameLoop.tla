------------------------------- MODULE GameLoop -------------------------------
(***************************************************************************)
(* The main thread (Game/main.cpp, GameManager::GameLoop): frames that     *)
(* handle the window's events, move the player, keep it in the chunk in    *)
(* the middle of the terrain, and hand chunk and ray to TerrainManager,    *)
(* whose Update is modelled in that module.  Nothing but ProcessMessages   *)
(* looks at the window, so the rest of a frame is one step.                *)
(***************************************************************************)
EXTENDS WindowInput, FPSCounter

CONSTANTS Axes,       \* the horizontal axes of the world
          Size,       \* CHUNK_X and CHUNK_Z
          Steps,      \* how far the player may move along an axis in a frame
          MaxTravel,  \* bound: the distance from the start, along an axis
          ArgSizes,   \* the window sizes that may be given as arguments
          NoSize      \* no such arguments

Half == Size \div 2

ASSUME GameAssumption == /\ Size \in Nat \ {0} /\ MaxTravel \in Nat
                         /\ Steps \subseteq Int
                         /\ ArgSizes \subseteq Sizes \cup {NoSize} /\ NoSize \notin Sizes

VARIABLES at,          \* where the main thread is
          batch,       \* the events this ProcessMessages call has yet to handle
          clicks,      \* the clicks of the right button this frame has handled
          argSize,     \* the size given as arguments, or NoSize
          position,    \* of the player, from the middle of its chunk
          playerChunk, \* mPlayerChunkX and mPlayerChunkZ
          travel       \* how far the player has moved, since the start

inputVars == <<userVars, tables, sizes, shape, queue, owed, mDrawRay>>
playerVars == <<position, playerChunk, travel>>
vars == <<inputVars, fpsVars, at, batch, clicks, argSize, playerVars>>

Init == /\ InputInit /\ FPSInit
        /\ at = "main" /\ batch = 0 /\ clicks = 0
        /\ argSize \in ArgSizes
        /\ position = [a \in Axes |-> 0]
        /\ playerChunk = [a \in Axes |-> 0]
        /\ travel = [a \in Axes |-> 0]

Goto(from, to) == at = from /\ at' = to

-----------------------------------------------------------------------------
(* main: two numeric arguments are the size of the window.                 *)
Main == /\ Goto("main", "frame")
        /\ IF argSize = NoSize THEN UNCHANGED inputVars ELSE SetSize(argSize)
        /\ UNCHANGED <<fpsVars, batch, clicks, argSize, playerVars>>

Exit == /\ Goto("frame", "exit") /\ mClosed
        /\ UNCHANGED <<inputVars, fpsVars, batch, clicks, argSize, playerVars>>

(* The events that had been read from the connection when ProcessMessages  *)
(* starts are handled in this frame: XEventsQueued(QueuedAlready).         *)
FrameStart == /\ Goto("frame", "messages") /\ ~mClosed
              /\ Run
              /\ batch' \in 0 .. Len(queue)
              /\ UNCHANGED <<inputVars, clicks, argSize, playerVars>>

ProcessMessages == /\ at = "messages" /\ batch > 0
                   /\ batch' = batch - 1
                   /\ clicks' = IF IsClick(Head(queue)) THEN clicks + 1 ELSE clicks
                   /\ ProcessMessage
                   /\ UNCHANGED <<fpsVars, at, argSize, playerVars>>

(* GameWindow::Update: the keys in the table say whether the player moves. *)
Moves == IF mKeys = {} THEN {[a \in Axes |-> 0]} ELSE [Axes -> Steps]

(* CalculatePlayerChunk, for the position p along one axis.                *)
RecentreLate(p) == IF p > Size THEN -1 ELSE IF p < -Size THEN 1 ELSE 0
Recentre(p) == IF p > Half THEN -1 ELSE IF p < -Half THEN 1 ELSE 0

CalculateOneWay(pos) ==
    /\ position' = [a \in Axes |-> pos[a] + Size * Recentre(pos[a])]
    /\ playerChunk' = [a \in Axes |-> IF Recentre(pos[a]) < 0
                                      THEN playerChunk[a] - 1 ELSE playerChunk[a]]

CalculatePlayerChunk(pos) ==
    /\ position' = [a \in Axes |-> pos[a] + Size * Recentre(pos[a])]
    /\ playerChunk' = [a \in Axes |-> playerChunk[a] + Recentre(pos[a])]

(* TerrainManager::Update is told whether to cast a ray, and the request   *)
(* is taken back.  There is one ray, however many clicks the frame handled.*)
DropRay == mDrawRay' = FALSE /\ UNCHANGED owed
CastRay == /\ mDrawRay' = FALSE
           /\ owed' = IF mDrawRay THEN owed - clicks ELSE owed

FrameEnd ==
    /\ Goto("messages", "frame") /\ batch = 0
    /\ \E move \in Moves :
           /\ travel' = [a \in Axes |-> travel[a] + move[a]]
           /\ \A a \in Axes : travel'[a] \in -MaxTravel .. MaxTravel
           /\ CalculatePlayerChunk([a \in Axes |-> position[a] + move[a]])
    /\ CastRay /\ clicks' = 0
    /\ UNCHANGED <<userVars, tables, sizes, shape, queue, fpsVars, batch, argSize>>

UserActs == at # "exit" /\ User /\ UNCHANGED <<fpsVars, at, batch, clicks, argSize, playerVars>>

Program == Main \/ Exit \/ FrameStart \/ ProcessMessages \/ FrameEnd

Next == UserActs \/ Program

(* The main thread keeps running: the user cannot hold a frame up.         *)
Spec == Init /\ [][Next]_vars /\ WF_vars(Program)

-----------------------------------------------------------------------------
(* Every variable has its type.                                            *)
TypeOK == /\ InputTypeOK
          /\ mFPSAvg \in Seq(0 .. Stamps - 1) /\ stamp \in 0 .. Stamps - 1 /\ runs \in 0 .. mAvgRange
          /\ at \in {"main", "frame", "messages", "exit"}
          /\ batch \in 0 .. Len(queue) /\ clicks \in Nat
          /\ argSize \in ArgSizes
          /\ position \in [Axes -> Int] /\ playerChunk \in [Axes -> Int]
          /\ travel \in [Axes -> Int]

(* A frame casts a ray if and only if it handled a click of the right      *)
(* button, and a click is answered in the frame that handles it: it waits  *)
(* in the queue, or was handled in this frame, and none is left over from  *)
(* an earlier one.  It is not one ray for each click: the clicks that one  *)
(* call of ProcessMessages handles share a ray, which edits one voxel.     *)
ClickOwesRay == /\ mDrawRay <=> clicks > 0
                /\ owed = Cardinality(Waiting) + clicks

(* The player is where it walked to: position and chunk are moved together *)
(* when the player is put back into the middle chunk, whatever the steps,  *)
(* so their sum is the distance travelled.  The chunk counts downwards.    *)
TravelKept == \A a \in Axes : position[a] = travel[a] + Size * playerChunk[a]

(* CalculatePlayerChunk moves one chunk in a frame however far the player  *)
(* got (a long frame, the LShift key): a player that stands still is in    *)
(* the middle chunk in the end, and does not swing from side to side.      *)
Centred == \A a \in Axes : position[a] \in -Half .. Half
SettlesInMiddle == <>[](at \notin {"main", "exit"} /\ mKeys = {}) => <>[]Centred

(* What is drawn has the size of the window: "Resize viewport and all      *)
(* dependent etities" (Renderer.hpp:93), for "2 numeric args" that main    *)
(* uses "as window size" (main.cpp:25), too.                               *)
ViewportFits == at = "frame" /\ queue = <<>> => viewport = shape

(* The same for the sizes the user gives the window while the game runs.   *)
ViewportFollowsUser == argSize = NoSize /\ queue = <<>> => viewport = shape
=============================================================================
