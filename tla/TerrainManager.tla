--------------------------- MODULE TerrainManager ---------------------------
(***************************************************************************)
(* The terrain (Terrain/TerrainManager.cpp, Chunk.cpp, ChunkPool.cpp) with *)
(* the part of the Renderer and of the game loop that touches it.  Thread  *)
(* Main runs the loop: it moves the visible window of chunks over the      *)
(* world, queues the generation of new ones, commits finished meshes to    *)
(* their VBOs, lets the player edit a chunk, and draws.  Each pass that    *)
(* leaves tasks in mGeneratorQueue detaches a generator thread that calls  *)
(* EmptyWait once and ends.  The queue is an instance of TaskQueue.        *)
(*                                                                         *)
(* A chunk's mState is atomic; its voxels and vertices are plain memory    *)
(* that Main and a generator may touch at once.  Each phase that writes    *)
(* them has a first and a last step, and "torn" stands for whatever two    *)
(* overlapping phases leave behind.                                        *)
(***************************************************************************)
EXTENDS ChunkWalk, Sequences, FiniteSets

CONSTANTS VisibleRadius,  \* TerrainDesc::visibleRadius
          Directions,     \* how the player may change chunk between frames
          MaxMoves,       \* bound: how often the player does
          MaxEdits,       \* bound: how often a voxel is picked
          Main,           \* the main thread
          NoThread, NoTask, NoChunk

(* The threads that passes of GenerateChunks detach, at most one each, by  *)
(* the number of the pass: 0 is the one of Init.                           *)
Generators == 0 .. MaxMoves

ASSUME TerrainAssumption ==
    /\ VisibleRadius \in Nat \ {0}
    /\ Directions \subseteq (Int \X Int) \ {<<0, 0>>}
    /\ MaxMoves \in Nat /\ MaxEdits \in Nat
    /\ Main \notin Generators /\ NoThread \notin Generators \cup {Main}

VARIABLES
    mList, mMutex, mCV, pc, task,  \* mGeneratorQueue and who is where in it
    mChunkPool,         \* the chunks there are, by their place in the world
    mChunks,            \* the chunk in each visible slot
    mTerrainMeshArray,  \* the Renderer's slots: whose mesh is in each
    mCurrentChunk,      \* <<mCurrentChunkX, mCurrentChunkZ>>
    at,                 \* where Main is in the frame
    walk,               \* the loop variables of GenerateChunks
    cursor,             \* the loop variable of Update's commit loop
    rayChunk,           \* the chunk that Update's picking chose
    stage,              \* where each generator is in Chunk::Generate
    moves, edits        \* what the bounds count

queueVars == <<mList, mMutex, mCV, pc, task>>
sceneVars == <<mChunks, mTerrainMeshArray, mCurrentChunk>>
vars == <<queueVars, sceneVars, mChunkPool, at, walk, cursor, rayChunk, stage,
          moves, edits>>

ChunkKey == Int \X Int
Plus(p, q) == <<p[1] + q[1], p[2] + q[2]>>
mChunkCount == CalculateChunkCount[VisibleRadius]
Slots == 0 .. mChunkCount - 1
NoCoord == <<>>

(* The arguments bound by std::bind for one Generate call, in the object   *)
(* that the given pass made of them.                                       *)
Tasks == [chunk : ChunkKey, offset : ChunkKey, current : ChunkKey, pass : Nat]

ASSUME NoTaskAssumption == NoTask \notin Tasks

Q == INSTANCE TaskQueue WITH Producers <- {Main}, Consumers <- {},
        Drainers <- Generators, Cleaners <- {}, MayThrow <- {}

(* A chunk as it enters the pool: copied from a new one, so locked.  The   *)
(* program has no "again": it is history, and says that a pass has found   *)
(* the chunk still waiting for its generation and queued it once more.     *)
NewChunk == [mState |-> "NotGenerated", mLocked |-> TRUE, mVoxels |-> "air",
             mVerts |-> [done |-> TRUE, of |-> "none"], vbo |-> "none",
             mCoord |-> NoCoord, shift |-> NoCoord, again |-> FALSE]

NeedsGeneration(c) == mChunkPool[c].mState = "NotGenerated"
IsGenerated(c) == mChunkPool[c].mState = "Generated"

Init == /\ Q!Init
        /\ mChunkPool = [c \in {} |-> NewChunk]
        /\ mChunks = [n \in Slots |-> NoChunk]
        /\ mTerrainMeshArray = [n \in Slots |-> NoChunk]
        /\ mCurrentChunk = <<0, 0>>
        /\ at = "slot"
        /\ walk = RingStart(0, 0)
        /\ cursor = 0
        /\ rayChunk = NoChunk
        /\ stage = [g \in Generators |-> "coord"]
        /\ moves = 0 /\ edits = 0

At(from, to) == at = from /\ at' = to

-----------------------------------------------------------------------------
(* The frame begins: CalculatePlayerChunk may find the player in a         *)
(* neighbouring chunk, and Update then starts a pass of GenerateChunks.    *)

Stay == /\ At("frame", "commit")
        /\ UNCHANGED <<queueVars, sceneVars, mChunkPool, walk, cursor, rayChunk,
                       stage, moves, edits>>

Move == /\ At("frame", "slot")
        /\ moves < MaxMoves
        /\ \E d \in Directions : mCurrentChunk' = Plus(mCurrentChunk, d)
        /\ walk' = RingStart(0, 0)
        /\ moves' = moves + 1
        /\ UNCHANGED <<queueVars, mChunks, mTerrainMeshArray, mChunkPool, cursor,
                       rayChunk, stage, edits>>

-----------------------------------------------------------------------------
(* GenerateChunks, one slot at a time.                                     *)

Offset == <<walk.x, walk.z>>
Here == Plus(mCurrentChunk, Offset)

ShiftNewOnly(pool, c) ==
    IF pool[c].mState # "NotGenerated" THEN pool
                                       ELSE [pool EXCEPT ![c].shift = Offset]
Shift(pool, c) == [pool EXCEPT ![c].shift = Offset]

GetChunk(c) == [k \in DOMAIN mChunkPool \cup {c} |->
                  IF k \in DOMAIN mChunkPool THEN mChunkPool[k] ELSE NewChunk]
QueuedAgain(c) == [GetChunk(c) EXCEPT ![c].again = c \in DOMAIN mChunkPool]

(* Shift, ReplaceTerrainMesh and the step to the next slot or out of the   *)
(* loops, which end the loop body.                                         *)
Place(pool) ==
    /\ mChunkPool' = Shift(pool, Here)
    /\ mTerrainMeshArray' = [mTerrainMeshArray EXCEPT ![walk.chunkIndex] = Here]
    /\ walk' = NextSlot(walk)
    /\ at' = IF NextSlot(walk).i <= VisibleRadius THEN "slot" ELSE "spawn"

(* The chunk is there and generated: it is only moved to its new place.    *)
VisitGenerated ==
    /\ at = "slot"
    /\ Here \in DOMAIN mChunkPool /\ ~ NeedsGeneration(Here)
    /\ mChunks' = [mChunks EXCEPT ![walk.chunkIndex] = Here]
    /\ Place(mChunkPool)
    /\ UNCHANGED <<queueVars, mCurrentChunk, cursor, rayChunk, stage, moves, edits>>

VisitNeedsGeneration ==
    /\ At("slot", "reset")
    /\ Here \in DOMAIN mChunkPool => NeedsGeneration(Here)
    /\ mChunkPool' = QueuedAgain(Here)
    /\ mChunks' = [mChunks EXCEPT ![walk.chunkIndex] = Here]
    /\ UNCHANGED <<queueVars, mTerrainMeshArray, mCurrentChunk, walk, cursor,
                   rayChunk, stage, moves, edits>>

(* ResetState, and the call of Push with the bound arguments.              *)
ResetState ==
    /\ At("reset", "push")
    /\ mChunkPool' = [mChunkPool EXCEPT
                        ![Here] = [@ EXCEPT !.mState = "NotGenerated",
                                            !.mLocked = TRUE]]
    /\ pc' = [pc EXCEPT ![Main] = "Push"]
    /\ task' = [task EXCEPT ![Main] = [chunk |-> Here, offset |-> Offset,
                                       current |-> mCurrentChunk,
                                       pass |-> moves]]
    /\ UNCHANGED <<mList, mMutex, mCV, sceneVars, walk, cursor, rayChunk, stage,
                   moves, edits>>

PushGenerate ==
    /\ at = "push"
    /\ Q!Push(Main)
    /\ Place(mChunkPool)
    /\ UNCHANGED <<mChunks, mCurrentChunk, cursor, rayChunk, stage, moves, edits>>

(* IsEmpty takes the queue's mutex, then a thread is detached or not.      *)
StartGenerator == /\ Q!Goto(moves, "idle", "EmptyWait")
                  /\ stage' = [stage EXCEPT ![moves] = "coord"]

Spawn == /\ At("spawn", "commit")
         /\ mMutex = NoThread
         /\ IF mList # <<>> THEN StartGenerator ELSE UNCHANGED <<pc, stage>>
         /\ UNCHANGED <<mList, mMutex, mCV, task, sceneVars, mChunkPool, walk,
                        cursor, rayChunk, moves, edits>>

-----------------------------------------------------------------------------
(* Update's commit loop: IsGenerated, then CommitMeshUpdate in two steps,  *)
(* the upload of the vertices and the store of the state.                  *)

CursorKept == /\ cursor' = cursor + 1
              /\ at' = IF cursor + 1 < mChunkCount THEN "commit" ELSE "pick"
NextCursor == /\ cursor' = (cursor + 1) % mChunkCount
              /\ at' = IF cursor + 1 < mChunkCount THEN "commit" ELSE "pick"

CommitSkip == /\ at = "commit" /\ ~ IsGenerated(mChunks[cursor])
              /\ NextCursor
              /\ UNCHANGED <<queueVars, sceneVars, mChunkPool, walk, rayChunk,
                             stage, moves, edits>>

CommitTest == /\ At("commit", "upload") /\ IsGenerated(mChunks[cursor])
              /\ UNCHANGED <<queueVars, sceneVars, mChunkPool, walk, cursor,
                             rayChunk, stage, moves, edits>>

CommitUpload ==
    /\ At("upload", "commitStore")
    /\ mChunkPool' = [mChunkPool EXCEPT ![mChunks[cursor]].vbo =
                        LET v == mChunkPool[mChunks[cursor]].mVerts
                        IN  IF v.done THEN v.of ELSE "torn"]
    /\ UNCHANGED <<queueVars, sceneVars, walk, cursor, rayChunk, stage, moves, edits>>

KeepLocked(c) == [mChunkPool EXCEPT ![c].mState = "Updated"]
SetUpdated(c) == [mChunkPool EXCEPT ![c] = [@ EXCEPT !.mState = "Updated",
                                                     !.mLocked = FALSE]]

CommitStore ==
    /\ at = "commitStore"
    /\ mChunkPool' = SetUpdated(mChunks[cursor])
    /\ NextCursor
    /\ UNCHANGED <<queueVars, sceneVars, walk, rayChunk, stage, moves, edits>>

-----------------------------------------------------------------------------
(* Building a VBO from the voxels (GenerateVBOGreedy, GenerateVBONaive):   *)
(* the vertices are cleared and refilled, then the state is stored.  The   *)
(* last step may have seen the voxels as they were at either end.          *)

Started(k) == [done |-> FALSE,
               of |-> IF k.mVerts.done THEN k.mVoxels ELSE "torn"]

MeshBeginEarly(c) ==
    [mChunkPool EXCEPT ![c] = [@ EXCEPT !.mVerts = Started(mChunkPool[c]),
                                        !.mState = "Generated"]]
MeshBegin(c) ==
    [mChunkPool EXCEPT ![c] = [@ EXCEPT !.mVerts = Started(mChunkPool[c])]]

MeshEndUnstored(c, seen) ==
    [mChunkPool EXCEPT ![c].mVerts = [done |-> TRUE, of |-> seen]]
MeshEnd(c, seen) ==
    [mChunkPool EXCEPT ![c] = [@ EXCEPT !.mVerts = [done |-> TRUE, of |-> seen],
                                        !.mState = "Generated"]]

SeenBy(c) == LET started == mChunkPool[c].mVerts.of
             IN  IF started = "torn" THEN {"torn"}
                 ELSE {started, mChunkPool[c].mVoxels}

-----------------------------------------------------------------------------
(* Update's picking.  The ray meets a voxel of one of the chunks in the    *)
(* PickedSlots that need no generation, or none.                           *)

PickNothing == /\ At("pick", "draw")
               /\ UNCHANGED <<queueVars, sceneVars, mChunkPool, walk, cursor,
                              rayChunk, stage, moves, edits>>

PickAny == {mChunks[n] : n \in PickedSlots}
Pickable == {c \in {mChunks[n] : n \in PickedSlots} : ~ NeedsGeneration(c)}

PickVoxel ==
    /\ At("pick", "remesh")
    /\ edits < MaxEdits
    /\ rayChunk' \in Pickable
    /\ mChunkPool' = [mChunkPool EXCEPT ![rayChunk'].mVoxels = "edited"]
    /\ edits' = edits + 1
    /\ UNCHANGED <<queueVars, sceneVars, walk, cursor, stage, moves>>

Remesh == /\ At("remesh", "remeshed")
          /\ mChunkPool' = MeshBegin(rayChunk)
          /\ UNCHANGED <<queueVars, sceneVars, walk, cursor, rayChunk, stage,
                         moves, edits>>

RemeshEnd == /\ At("remeshed", "draw")
             /\ \E seen \in SeenBy(rayChunk) : mChunkPool' = MeshEnd(rayChunk, seen)
             /\ rayChunk' = NoChunk
             /\ UNCHANGED <<queueVars, sceneVars, walk, cursor, stage, moves, edits>>

(* Renderer::Draw reads every slot's mesh; it changes nothing here.        *)
Draw == /\ At("draw", "frame")
        /\ UNCHANGED <<queueVars, sceneVars, mChunkPool, walk, cursor, rayChunk,
                       stage, moves, edits>>

-----------------------------------------------------------------------------
(* A generator inside EmptyWait, running Chunk::Generate for its task.     *)
(* Voxels read from the disk or made from noise are all "terrain".         *)

InGenerate(g, from, to) == /\ pc[g] = "EmptyWait_run"
                           /\ stage[g] = from
                           /\ stage' = [stage EXCEPT ![g] = to]

mainVars == <<sceneVars, at, walk, cursor, rayChunk, moves, edits>>

CoordNow(k) == Plus(k.offset, mCurrentChunk)
CoordOf(k) == Plus(k.offset, k.current)

GenerateCoord(g) ==
    /\ InGenerate(g, "coord", "fill")
    /\ mChunkPool' = [mChunkPool EXCEPT
                        ![task[g].chunk] = [@ EXCEPT !.mCoord = CoordOf(task[g]),
                                                     !.mVoxels = "filling"]]
    /\ UNCHANGED <<queueVars, mainVars>>

GenerateFill(g) ==
    /\ InGenerate(g, "fill", "mesh")
    /\ mChunkPool' = [mChunkPool EXCEPT ![task[g].chunk].mVoxels = "terrain"]
    /\ UNCHANGED <<queueVars, mainVars>>

GenerateMesh(g) ==
    /\ InGenerate(g, "mesh", "store")
    /\ mChunkPool' = MeshBegin(task[g].chunk)
    /\ UNCHANGED <<queueVars, mainVars>>

(* The store of the state, and the return into EmptyWait's loop.           *)
GenerateStore(g) ==
    /\ InGenerate(g, "store", "coord")
    /\ \E seen \in SeenBy(task[g].chunk) :
           mChunkPool' = MeshEnd(task[g].chunk, seen)
    /\ Q!EmptyWaitTaskDone(g)
    /\ UNCHANGED mainVars

InQueue(g) == /\ Q!EmptyWaitLock(g) \/ Q!EmptyWaitTake(g) \/ Q!EmptyWaitReturn(g)
              /\ UNCHANGED <<mainVars, mChunkPool, stage>>

-----------------------------------------------------------------------------
MainNext == \/ Stay \/ Move
            \/ VisitGenerated \/ VisitNeedsGeneration \/ ResetState
            \/ PushGenerate \/ Spawn
            \/ CommitSkip \/ CommitTest \/ CommitUpload \/ CommitStore
            \/ PickNothing \/ PickVoxel \/ Remesh \/ RemeshEnd
            \/ Draw

GeneratorNext(g) == \/ InQueue(g)
                    \/ GenerateCoord(g) \/ GenerateFill(g)
                    \/ GenerateMesh(g) \/ GenerateStore(g)

Next == MainNext \/ \E g \in Generators : GeneratorNext(g)

Spec == Init /\ [][Next]_vars

(* Threads keep running; a thread that waits for the queue's mutex gets it *)
(* once nobody else holds or wants it, and nothing stronger is needed:     *)
(* every EmptyWait ends and only Main starts new ones.                     *)
FairSpec == Spec /\ WF_vars(MainNext)
                 /\ \A g \in Generators : WF_vars(GeneratorNext(g))

-----------------------------------------------------------------------------
(* Every variable has its type.                                            *)
Voxels == {"air", "filling", "terrain", "edited"}
Contents == Voxels \cup {"none", "torn"}
ChunkType == [mState : {"NotGenerated", "Generated", "Updated"},
              mLocked : BOOLEAN,
              mVoxels : Voxels,
              mVerts : [done : BOOLEAN, of : Contents],
              vbo : Contents,
              mCoord : ChunkKey \cup {NoCoord},
              shift : ChunkKey \cup {NoCoord},
              again : BOOLEAN]

TypeOK ==
    /\ DOMAIN mChunkPool \subseteq ChunkKey
    /\ \A c \in DOMAIN mChunkPool : mChunkPool[c] \in ChunkType
    /\ \A n \in Slots : {mChunks[n], mTerrainMeshArray[n]}
                          \subseteq DOMAIN mChunkPool \cup {NoChunk}
    /\ mList \in Seq(Tasks)
    /\ mMutex \in Generators \cup {NoThread}
    /\ cursor \in Slots
    /\ rayChunk \in DOMAIN mChunkPool \cup {NoChunk}
    /\ \A g \in Generators : stage[g] \in {"coord", "fill", "mesh", "store"}

Visible == {Plus(mCurrentChunk, p) :
              p \in {q \in (-VisibleRadius .. VisibleRadius) \X
                            (-VisibleRadius .. VisibleRadius) :
                         Norm(q) <= VisibleRadius}}

(* When a frame is drawn the Renderer's slots hold the meshes of exactly   *)
(* the chunks around the player, each translated to its place relative to  *)
(* the chunk the player is in now, including the chunks that stayed        *)
(* visible through a move.                                                 *)
DrawnMeshesInPlace ==
    at = "draw" =>
      /\ {mTerrainMeshArray[n] : n \in Slots} = Visible
      /\ \A n \in Slots :
            /\ mTerrainMeshArray[n] = mChunks[n]
            /\ Plus(mCurrentChunk, mChunkPool[mChunks[n]].shift) = mChunks[n]

(* A generated chunk was generated for its own place in the world, however *)
(* far the player has moved between the Push and the Generate call; a      *)
(* chunk is saved to disk under these coordinates.                         *)
GeneratedForItsPlace ==
    \A c \in DOMAIN mChunkPool : ~ NeedsGeneration(c) => mChunkPool[c].mCoord = c

(* No chunk is forgotten: one that needs generation is in a queued task or *)
(* in a running one, or Main is about to queue it.                         *)
TaskedChunks == {mList[n].chunk : n \in 1 .. Len(mList)}
                  \cup {task[g].chunk : g \in {h \in Generators :
                                                 pc[h] = "EmptyWait_run"}}
AboutToQueue == IF at \in {"reset", "push"} THEN {Here} ELSE {}
NoChunkForgotten ==
    \A c \in DOMAIN mChunkPool :
        NeedsGeneration(c) => c \in TaskedChunks \cup AboutToQueue

(* Queued work has a thread: outside a pass of GenerateChunks, a non-empty *)
(* queue has a generator that will still take from it.                     *)
QueuedWorkHasThread ==
    at \notin {"slot", "reset", "push", "spawn"} /\ mList # <<>> =>
        \E g \in Generators : pc[g] # "idle"

(* A mesh the Renderer may draw has been uploaded whole: it is never half  *)
(* built, and once the chunk is Updated it shows the chunk's voxels.  Only *)
(* a chunk that was queued again while it waited may look otherwise.       *)
DrawnMeshesWhole ==
    at = "draw" => \A n \in Slots :
        LET c == mChunkPool[mTerrainMeshArray[n]]
        IN  ~ c.again => /\ ~ c.mLocked => c.vbo \in {"terrain", "edited"}
                         /\ c.mState = "Updated" => c.vbo = c.mVoxels

(* What Update may conclude from IsGenerated: it "returns whether the mesh *)
(* has finished generation and is ready to commit the changes to Mesh      *)
(* object" (Terrain/Chunk.hpp:162).  It is, unless the chunk was queued    *)
(* again; and of such a chunk the vertices are half built only while a     *)
(* call of Generate for it is still under way.                             *)
GeneratedIsFinished ==
    at = "commit" /\ IsGenerated(mChunks[cursor]) =>
        LET c == mChunkPool[mChunks[cursor]]
        IN  /\ ~ c.again => c.mVerts.done /\ c.mVerts.of # "torn"
            /\ ~ c.mVerts.done => mChunks[cursor] \in TaskedChunks

(* "If any voxel was picked, turn it into Bedrock, so we can see it"       *)
(* (Terrain/TerrainManager.cpp:96): an edit, once made, is not undone.     *)
EditsStay == [][\A c \in DOMAIN mChunkPool : mChunkPool[c].mVoxels = "edited"
                  => mChunkPool'[c].mVoxels = "edited"]_vars

(* Where that fails, it is never by Main, nor by a generator for a chunk   *)
(* that was queued once: an edit is undone only by a call of Generate that *)
(* was still to come for a chunk queued again, and never after such calls. *)
EditsUndoneOnlyAgain ==
    [][\A c \in DOMAIN mChunkPool : mChunkPool[c].mVoxels = "edited" =>
          \/ mChunkPool'[c].mVoxels = "edited"
          \/ mChunkPool[c].again /\ c \in TaskedChunks]_vars

(* Frames keep being drawn: the main thread waits for the generator's      *)
(* mutex when it queues or looks, but never for ever.                      *)
FramesGoOn == []<>(at = "draw")

(* Once the player stands still, every visible chunk comes to be shown,    *)
(* and stays shown.                                                        *)
AllShown == \A n \in Slots : /\ mTerrainMeshArray[n] # NoChunk
                             /\ ~ mChunkPool[mTerrainMeshArray[n]].mLocked
EventuallyAllShown == <>[]AllShown
=============================================================================
