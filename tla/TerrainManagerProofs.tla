------------------------ MODULE TerrainManagerProofs ------------------------
(***************************************************************************)
(* Proofs about TerrainManager and its end, TerrainExit, for any radius,   *)
(* any moves and edits of the player and as many generator threads.  The   *)
(* inductive invariant IInv follows a chunk's place in the world through   *)
(* the bound arguments: it holds of every call to Generate, while Main     *)
(* makes it, in the queue, and in the thread that runs it.  PlaceInv       *)
(* follows a pass of GenerateChunks slot by slot: the walk is where        *)
(* ChunkWalkProofs says it is, and the slots written so far show the       *)
(* chunks passed so far.  OnceInv follows each chunk that no pass finds    *)
(* waiting and queues again through its one generation, its commit and its *)
(* edits, to the end of the program; VertsOK says of all chunks who may be *)
(* building their vertices.  FreshOK tells the calls of Generate that wait *)
(* or run apart by pass and offset, also those of a chunk queued twice, so *)
(* that the terrain implements TaskQueue and inherits its theorems.        *)
(***************************************************************************)
EXTENDS TerrainExit, ChunkWalkProofs, TLAPS

PoolOK(pool) == /\ DOMAIN pool \subseteq ChunkKey
                /\ pool \in [DOMAIN pool -> ChunkType]

(* A call of Generate names a chunk that exists, by its place.             *)
CallOK(k) == k \in Tasks /\ k.chunk \in DOMAIN mChunkPool /\ CoordOf(k) = k.chunk

HasCoord(c) == c \in DOMAIN mChunkPool => mChunkPool[c].mCoord = c

Running(g) == pc[g] = "EmptyWait_run"

PlacesOK == /\ mCurrentChunk \in ChunkKey /\ moves \in Generators
            /\ walk \in [i : Nat, j : Nat, x : Int, z : Int,
                         state : GeneratorState, chunkIndex : Nat]

ThreadsOK == /\ pc \in [Q!Threads -> Q!Labels]
             /\ task \in [Q!Threads -> Tasks \cup {NoTask}]
             /\ stage \in [Generators -> {"coord", "fill", "mesh", "store"}]
             /\ \A g \in Generators : ~ Running(g) => stage[g] = "coord"

QueueOK == /\ mList \in Seq(Tasks)
           /\ \A n \in 1 .. Len(mList) : CallOK(mList[n])

RunningOK == \A g \in Generators : Running(g) =>
                /\ CallOK(task[g])
                /\ stage[g] # "coord" => HasCoord(task[g].chunk)

PushOK == /\ at \in {"reset", "push"} => Here \in DOMAIN mChunkPool
          /\ at = "push" => CallOK(task[Main]) /\ task[Main].chunk = Here

MainOK == /\ at \in {"upload", "commitStore"} => HasCoord(mChunks[cursor])
          /\ at \in {"remesh", "remeshed"} => HasCoord(rayChunk)

WorkInv == /\ PoolOK(mChunkPool)
           /\ PlacesOK /\ ThreadsOK /\ QueueOK /\ RunningOK /\ PushOK /\ MainOK
           /\ GeneratedForItsPlace

IInv == WorkInv /\ NoChunkForgotten /\ QueuedWorkHasThread

(* What a generator's step keeps, also after the end of the queue, when    *)
(* WorkInv alone still holds.                                              *)
Kept == /\ WorkInv'
        /\ NoChunkForgotten => NoChunkForgotten'
        /\ QueuedWorkHasThread => QueuedWorkHasThread'

-----------------------------------------------------------------------------
(* Coordinates add up to coordinates, in either order, and the walk of     *)
(* GenerateChunks stays on the grid.                                       *)
LEMMA PlusTyped ==
    ASSUME NEW p \in ChunkKey, NEW q \in ChunkKey
    PROVE  Plus(p, q) \in ChunkKey /\ Plus(p, q) = Plus(q, p)
  BY DEF ChunkKey, Plus

LEMMA HereTyped ==
    ASSUME PlacesOK
    PROVE  /\ Offset \in ChunkKey /\ Here \in ChunkKey
           /\ Plus(Offset, mCurrentChunk) = Here
<1>1. Offset \in ChunkKey BY DEF PlacesOK, Offset, ChunkKey
<1> QED BY <1>1, PlusTyped DEF PlacesOK, Here

(* The passes are numbered as their threads are.                           *)
LEMMA PassTyped ==
    ASSUME PlacesOK
    PROVE  moves \in Generators /\ moves \in Nat
  BY TerrainAssumption DEF PlacesOK, Generators

LEMMA StartTyped ==
    ASSUME NEW i \in Nat, NEW slot \in Nat
    PROVE  RingStart(i, slot) \in [i : Nat, j : Nat, x : Int, z : Int,
                                   state : GeneratorState, chunkIndex : Nat]
  BY DEF RingStart, GeneratorState

LEMMA NextSlotTyped ==
    ASSUME PlacesOK
    PROVE  NextSlot(walk) \in [i : Nat, j : Nat, x : Int, z : Int,
                               state : GeneratorState, chunkIndex : Nat]
<1> DEFINE s == ShiftChunkCoords(walk.x, walk.z, walk.state)
<1>1. /\ walk.i \in Nat /\ walk.j \in Nat /\ walk.chunkIndex \in Nat
      /\ walk.x \in Int /\ walk.z \in Int /\ walk.state \in GeneratorState
  BY DEF PlacesOK
<1>2. XStep[walk.state] \in Int /\ ZStep[walk.state] \in Int
  BY <1>1 DEF XStep, ZStep
<1>3. NextState[walk.state] \in GeneratorState
  BY <1>1 DEF NextState, GeneratorState
<1>4. s.x \in Int /\ s.z \in Int /\ s.state \in GeneratorState
  BY <1>1, <1>2, <1>3 DEF ShiftChunkCoords
<1>5. CASE walk.j + 1 < ChunksInRadius(walk.i)
  <2>1. NextSlot(walk) = [i |-> walk.i, j |-> walk.j + 1, x |-> s.x, z |-> s.z,
                          state |-> s.state, chunkIndex |-> walk.chunkIndex + 1]
    BY <1>5 DEF NextSlot
  <2> HIDE DEF s
  <2> QED BY <1>1, <1>4, <2>1
<1>6. CASE ~ (walk.j + 1 < ChunksInRadius(walk.i))
  <2>1. NextSlot(walk) = RingStart(walk.i + 1, walk.chunkIndex + 1)
    BY <1>6 DEF NextSlot
  <2>2. walk.i + 1 \in Nat /\ walk.chunkIndex + 1 \in Nat BY <1>1
  <2>3. RingStart(walk.i + 1, walk.chunkIndex + 1)
            \in [i : Nat, j : Nat, x : Int, z : Int,
                 state : GeneratorState, chunkIndex : Nat]
    BY <2>2, StartTyped
  <2> QED BY <2>1, <2>3
<1> QED BY <1>5, <1>6

-----------------------------------------------------------------------------
(* What the updates of a chunk do to the pool.                             *)
LEMMA UpdateChunk ==
    ASSUME NEW p, PoolOK(p), NEW c, NEW e, c \in DOMAIN p => e \in ChunkType,
           NEW q, q = [p EXCEPT ![c] = e]
    PROVE  /\ PoolOK(q) /\ DOMAIN q = DOMAIN p
           /\ \A k \in DOMAIN p : q[k] = IF k = c THEN e ELSE p[k]
  BY DEF PoolOK

(* A step of the pool changes no place and, but for chunks that have their *)
(* place already, makes no chunk generated.                                *)
Harmless(p, q) ==
    /\ PoolOK(q) /\ DOMAIN q = DOMAIN p
    /\ \A k \in DOMAIN p :
          /\ q[k].mCoord = p[k].mCoord
          /\ q[k].mState # p[k].mState =>
                q[k].mState # "NotGenerated" /\ p[k].mCoord = k

LEMMA HarmlessUpdate ==
    ASSUME NEW p, PoolOK(p), NEW c, NEW e,
           c \in DOMAIN p =>
              /\ e \in ChunkType /\ e.mCoord = p[c].mCoord
              /\ e.mState # p[c].mState =>
                    e.mState # "NotGenerated" /\ p[c].mCoord = c,
           NEW q, q = [p EXCEPT ![c] = e]
    PROVE  Harmless(p, q) /\ \A k \in DOMAIN p : q[k] = IF k = c THEN e ELSE p[k]
<1>1. /\ PoolOK(q) /\ DOMAIN q = DOMAIN p
      /\ \A k \in DOMAIN p : q[k] = IF k = c THEN e ELSE p[k]
  BY UpdateChunk
<1> QED BY <1>1 DEF Harmless

LEMMA ShiftKeeps ==
    ASSUME PoolOK(mChunkPool), Offset \in ChunkKey, NEW c
    PROVE  /\ Harmless(mChunkPool, Shift(mChunkPool, c))
           /\ \A k \in DOMAIN mChunkPool :
                 Shift(mChunkPool, c)[k].mState = mChunkPool[k].mState
<1> DEFINE e == [mChunkPool[c] EXCEPT !.shift = Offset]
<1>1. ASSUME c \in DOMAIN mChunkPool
      PROVE  /\ e \in ChunkType /\ e.mCoord = mChunkPool[c].mCoord
             /\ e.mState = mChunkPool[c].mState
  <2>1. mChunkPool[c] \in ChunkType BY <1>1 DEF PoolOK
  <2> QED BY <2>1 DEF ChunkType
<1>2. Shift(mChunkPool, c) = [mChunkPool EXCEPT ![c] = e] BY DEF Shift
<1> HIDE DEF e
<1> QED BY <1>1, <1>2, HarmlessUpdate

LEMMA SetUpdatedKeeps ==
    ASSUME PoolOK(mChunkPool), NEW c, HasCoord(c)
    PROVE  Harmless(mChunkPool, SetUpdated(c))
<1> DEFINE e == [mChunkPool[c] EXCEPT !.mState = "Updated", !.mLocked = FALSE]
<1>1. ASSUME c \in DOMAIN mChunkPool
      PROVE  /\ e \in ChunkType /\ e.mCoord = mChunkPool[c].mCoord
             /\ e.mState = "Updated"
  <2>1. mChunkPool[c] \in ChunkType BY <1>1 DEF PoolOK
  <2> QED BY <2>1 DEF ChunkType
<1>2. SetUpdated(c) = [mChunkPool EXCEPT ![c] = e] BY DEF SetUpdated
<1> HIDE DEF e
<1> QED BY <1>1, <1>2, HarmlessUpdate DEF HasCoord

LEMMA MeshBeginKeeps ==
    ASSUME PoolOK(mChunkPool), NEW c
    PROVE  Harmless(mChunkPool, MeshBegin(c))
<1> DEFINE e == [mChunkPool[c] EXCEPT !.mVerts = Started(mChunkPool[c])]
<1>1. ASSUME c \in DOMAIN mChunkPool
      PROVE  /\ e \in ChunkType /\ e.mCoord = mChunkPool[c].mCoord
             /\ e.mState = mChunkPool[c].mState
  <2>1. mChunkPool[c] \in ChunkType BY <1>1 DEF PoolOK
  <2>2. Started(mChunkPool[c]) \in [done : BOOLEAN, of : Contents]
    BY <2>1 DEF ChunkType, Started, Contents
  <2> QED BY <2>1, <2>2 DEF ChunkType
<1>2. MeshBegin(c) = [mChunkPool EXCEPT ![c] = e] BY DEF MeshBegin
<1> HIDE DEF e
<1> QED BY <1>1, <1>2, HarmlessUpdate

LEMMA MeshEndKeeps ==
    ASSUME PoolOK(mChunkPool), NEW c, NEW seen \in SeenBy(c), HasCoord(c)
    PROVE  /\ Harmless(mChunkPool, MeshEnd(c, seen))
           /\ c \in DOMAIN mChunkPool => MeshEnd(c, seen)[c].mState = "Generated"
<1> DEFINE e == [mChunkPool[c] EXCEPT !.mVerts = [done |-> TRUE, of |-> seen],
                                      !.mState = "Generated"]
<1>1. ASSUME c \in DOMAIN mChunkPool
      PROVE  /\ e \in ChunkType /\ e.mCoord = mChunkPool[c].mCoord
             /\ e.mState = "Generated"
  <2>1. mChunkPool[c] \in ChunkType BY <1>1 DEF PoolOK
  <2>2. seen \in Contents BY <2>1 DEF SeenBy, ChunkType, Contents
  <2>3. [done |-> TRUE, of |-> seen] \in [done : BOOLEAN, of : Contents]
    BY <2>2
  <2> QED BY <2>1, <2>3 DEF ChunkType
<1>2. MeshEnd(c, seen) = [mChunkPool EXCEPT ![c] = e] BY DEF MeshEnd
<1> HIDE DEF e
<1> QED BY <1>1, <1>2, HarmlessUpdate DEF HasCoord

-----------------------------------------------------------------------------
(* The invariant holds initially.                                          *)
LEMMA InitInv == Init => IInv
<1> SUFFICES ASSUME Init PROVE IInv
  OBVIOUS
<1> USE TerrainAssumption DEF Init, Q!Init
<1>1. PoolOK(mChunkPool) BY DEF PoolOK
<1>2. PlacesOK
  <2>1. RingStart(0, 0) \in [i : Nat, j : Nat, x : Int, z : Int,
                             state : GeneratorState, chunkIndex : Nat]
    BY StartTyped
  <2>2. mCurrentChunk \in ChunkKey /\ moves \in Generators
    BY DEF ChunkKey, Generators
  <2> QED BY <2>1, <2>2 DEF PlacesOK
<1>3. ThreadsOK BY DEF ThreadsOK, Running, Q!Labels, Q!Threads
<1>4. QueueOK BY DEF QueueOK
<1>5. RunningOK BY DEF RunningOK, Running, Q!Threads
<1>6. PushOK /\ MainOK BY DEF PushOK, MainOK
<1>7. GeneratedForItsPlace /\ NoChunkForgotten /\ QueuedWorkHasThread
  BY DEF GeneratedForItsPlace, NoChunkForgotten, QueuedWorkHasThread
<1> QED BY <1>1, <1>2, <1>3, <1>4, <1>5, <1>6, <1>7 DEF IInv, WorkInv

(* A step of Main that only changes chunks, harmlessly, keeps what the     *)
(* invariant says of the queue and of the generators.                      *)
LEMMA ChunksOnly ==
    ASSUME IInv, UNCHANGED <<queueVars, stage>>, Harmless(mChunkPool, mChunkPool'),
           at \notin {"reset", "push"}, at' \notin {"reset", "push"}
    PROVE  /\ PoolOK(mChunkPool)' /\ ThreadsOK' /\ QueueOK' /\ RunningOK' /\ PushOK'
           /\ GeneratedForItsPlace' /\ NoChunkForgotten'
<1> USE DEF IInv, WorkInv, queueVars, Harmless
<1>1. PoolOK(mChunkPool)' OBVIOUS
<1>2. ThreadsOK' BY DEF ThreadsOK, Running
<1>3. QueueOK' BY DEF QueueOK, CallOK
<1>4. RunningOK' BY DEF RunningOK, CallOK, Running, HasCoord
<1>5. PushOK' BY DEF PushOK
<1>6. GeneratedForItsPlace' BY DEF GeneratedForItsPlace, NeedsGeneration
<1>7. NoChunkForgotten'
  <2>1. TaskedChunks' = TaskedChunks BY DEF TaskedChunks
  <2>2. AboutToQueue = {} BY DEF AboutToQueue
  <2> QED BY <2>1, <2>2 DEF NoChunkForgotten, NeedsGeneration
<1> QED BY <1>1, <1>2, <1>3, <1>4, <1>5, <1>6, <1>7

LEMMA SamePool ==
    ASSUME PoolOK(mChunkPool), UNCHANGED mChunkPool
    PROVE  Harmless(mChunkPool, mChunkPool')
  BY DEF Harmless

(* The steps of Main that leave the queue alone.                           *)
LEMMA MainKeeps ==
    ASSUME IInv,
           \/ Stay \/ Move \/ VisitGenerated \/ CommitSkip \/ CommitTest
           \/ CommitUpload \/ CommitStore \/ PickNothing \/ PickVoxel
           \/ Remesh \/ RemeshEnd \/ Draw
    PROVE  IInv'
<1> USE DEF At
<1>1. /\ UNCHANGED <<queueVars, stage>>
      /\ at \notin {"reset", "push"} /\ at' \notin {"reset", "push"}
  BY DEF Stay, Move, VisitGenerated, CommitSkip, CommitTest, CommitUpload,
     CommitStore, PickNothing, PickVoxel, Remesh, RemeshEnd, Draw, NextCursor, Place
<1>2. PlacesOK'
  <2>1. CASE Move
    <3>1. PICK d \in Directions : mCurrentChunk' = Plus(mCurrentChunk, d)
      BY <2>1 DEF Move
    <3>2. d \in ChunkKey BY TerrainAssumption DEF ChunkKey
    <3>3. mCurrentChunk' \in ChunkKey BY <3>1, <3>2, PlusTyped DEF IInv, WorkInv, PlacesOK
    <3>4. moves' \in Generators
      BY <2>1, TerrainAssumption DEF Move, IInv, WorkInv, PlacesOK, Generators
    <3>5. walk' = RingStart(0, 0) BY <2>1 DEF Move
    <3>6. walk' \in [i : Nat, j : Nat, x : Int, z : Int,
                     state : GeneratorState, chunkIndex : Nat]
      BY <3>5, StartTyped
    <3> QED BY <3>3, <3>4, <3>6 DEF PlacesOK
  <2>2. CASE VisitGenerated
    BY <2>2, NextSlotTyped DEF VisitGenerated, Place, IInv, WorkInv, PlacesOK
  <2>3. CASE ~ Move /\ ~ VisitGenerated
    <3>1. UNCHANGED <<mCurrentChunk, walk, moves>>
      BY <2>3 DEF sceneVars, Stay, CommitSkip, CommitTest, CommitUpload,
         CommitStore, PickNothing, PickVoxel, Remesh, RemeshEnd, Draw
    <3> QED BY <3>1 DEF IInv, WorkInv, PlacesOK
  <2> QED BY <2>1, <2>2, <2>3
<1>3. Harmless(mChunkPool, mChunkPool') /\ MainOK'
  <2> USE DEF IInv, WorkInv
  <2>1. CASE Stay \/ Move \/ CommitSkip \/ PickNothing \/ Draw
    <3>1. /\ UNCHANGED mChunkPool
          /\ at' \notin {"upload", "commitStore", "remesh", "remeshed"}
      BY <2>1 DEF Stay, Move, CommitSkip, PickNothing, Draw, NextCursor
    <3> QED BY <3>1, SamePool DEF MainOK
  <2>2. CASE VisitGenerated
    <3>1. at' \notin {"upload", "commitStore", "remesh", "remeshed"}
      BY <2>2 DEF VisitGenerated, Place
    <3>2. Harmless(mChunkPool, mChunkPool')
      BY <2>2, HereTyped, ShiftKeeps DEF VisitGenerated, Place
    <3> QED BY <3>1, <3>2 DEF MainOK
  <2>3. CASE CommitTest
    <3>1. UNCHANGED <<mChunkPool, mChunks, cursor>> /\ at' = "upload"
      BY <2>3 DEF CommitTest, sceneVars
    <3>2. HasCoord(mChunks[cursor])
      BY <2>3 DEF CommitTest, IsGenerated, HasCoord, GeneratedForItsPlace,
         NeedsGeneration
    <3> QED BY <3>1, <3>2, SamePool DEF MainOK, HasCoord
  <2>4. CASE CommitUpload
    <3> DEFINE c == mChunks[cursor]
    <3> DEFINE v == mChunkPool[c].mVerts
    <3> DEFINE e == [mChunkPool[c] EXCEPT !.vbo = IF v.done THEN v.of ELSE "torn"]
    <3>1. ASSUME c \in DOMAIN mChunkPool
          PROVE  /\ e \in ChunkType /\ e.mCoord = mChunkPool[c].mCoord
                 /\ e.mState = mChunkPool[c].mState
      <4>1. mChunkPool[c] \in ChunkType BY <3>1 DEF PoolOK
      <4>2. v.done \in BOOLEAN /\ v.of \in Contents BY <4>1 DEF ChunkType
      <4>3. (IF v.done THEN v.of ELSE "torn") \in Contents BY <4>2 DEF Contents
      <4> QED BY <4>1, <4>3 DEF ChunkType
    <3>2. mChunkPool' = [mChunkPool EXCEPT ![c] = e] BY <2>4 DEF CommitUpload
    <3>3. UNCHANGED <<mChunks, cursor>> /\ at = "upload" /\ at' = "commitStore"
      BY <2>4 DEF CommitUpload, sceneVars
    <3> HIDE DEF e
    <3>4. Harmless(mChunkPool, mChunkPool') BY <3>1, <3>2, HarmlessUpdate
    <3> QED BY <3>3, <3>4 DEF MainOK, HasCoord, Harmless
  <2>5. CASE CommitStore
    <3>1. at' \notin {"upload", "commitStore", "remesh", "remeshed"}
      BY <2>5 DEF CommitStore, NextCursor
    <3>2. Harmless(mChunkPool, mChunkPool')
      BY <2>5, SetUpdatedKeeps DEF CommitStore, MainOK
    <3> QED BY <3>1, <3>2 DEF MainOK
  <2>6. CASE PickVoxel
    <3> DEFINE c == rayChunk'
    <3> DEFINE e == [mChunkPool[c] EXCEPT !.mVoxels = "edited"]
    <3>1. ASSUME c \in DOMAIN mChunkPool
          PROVE  /\ e \in ChunkType /\ e.mCoord = mChunkPool[c].mCoord
                 /\ e.mState = mChunkPool[c].mState
      <4>1. mChunkPool[c] \in ChunkType BY <3>1 DEF PoolOK
      <4> QED BY <4>1 DEF ChunkType, Voxels
    <3>2. mChunkPool' = [mChunkPool EXCEPT ![c] = e] BY <2>6 DEF PickVoxel
    <3> HIDE DEF e
    <3>3. Harmless(mChunkPool, mChunkPool') BY <3>1, <3>2, HarmlessUpdate
    <3>4. at' = "remesh" BY <2>6 DEF PickVoxel
    <3>5. HasCoord(c)
      BY <2>6 DEF PickVoxel, Pickable, HasCoord, GeneratedForItsPlace
    <3> QED BY <3>3, <3>4, <3>5 DEF MainOK, HasCoord, Harmless
  <2>7. CASE Remesh
    <3>1. UNCHANGED rayChunk /\ at = "remesh" /\ at' = "remeshed"
      BY <2>7 DEF Remesh
    <3>2. Harmless(mChunkPool, mChunkPool') BY <2>7, MeshBeginKeeps DEF Remesh
    <3> QED BY <3>1, <3>2 DEF MainOK, HasCoord, Harmless
  <2>8. CASE RemeshEnd
    <3>1. at = "remeshed" /\ at' = "draw" BY <2>8 DEF RemeshEnd
    <3>2. HasCoord(rayChunk) BY <3>1 DEF MainOK
    <3>3. Harmless(mChunkPool, mChunkPool')
      BY <2>8, <3>2, MeshEndKeeps DEF RemeshEnd
    <3> QED BY <3>1, <3>3 DEF MainOK
  <2> QED BY <2>1, <2>2, <2>3, <2>4, <2>5, <2>6, <2>7, <2>8
<1>4. QueuedWorkHasThread'
  <2>1. \/ at' \in {"slot", "spawn"}
        \/ at \notin {"slot", "reset", "push", "spawn"}
    BY DEF Stay, Move, VisitGenerated, CommitSkip, CommitTest, CommitUpload,
       CommitStore, PickNothing, PickVoxel, Remesh, RemeshEnd, Draw, Place
  <2> QED BY <1>1, <2>1 DEF IInv, WorkInv, QueuedWorkHasThread, queueVars
<1> QED BY <1>1, <1>2, <1>3, <1>4, ChunksOnly DEF IInv, WorkInv

(* What GetChunk, and the note it leaves in the history, do to the pool.   *)
LEMMA AgainNoted ==
    ASSUME NEW k \in ChunkType, NEW b \in BOOLEAN, NEW e,
           e = [k EXCEPT !.again = b]
    PROVE  /\ e \in ChunkType /\ e.mState = k.mState /\ e.mLocked = k.mLocked
           /\ e.mVoxels = k.mVoxels /\ e.mVerts = k.mVerts
           /\ e.mCoord = k.mCoord /\ e.shift = k.shift /\ e.again = b
           /\ k.again = b => e = k
  BY DEF ChunkType

LEMMA QueuedAgainKeeps ==
    ASSUME PoolOK(mChunkPool), NEW c \in ChunkKey, NEW q, q = QueuedAgain(c)
    PROVE  /\ PoolOK(q) /\ DOMAIN q = DOMAIN mChunkPool \cup {c}
           /\ \A k \in DOMAIN mChunkPool :
                 /\ q[k].mState = mChunkPool[k].mState
                 /\ q[k].mLocked = mChunkPool[k].mLocked
                 /\ q[k].mVoxels = mChunkPool[k].mVoxels
                 /\ q[k].mVerts = mChunkPool[k].mVerts
                 /\ q[k].mCoord = mChunkPool[k].mCoord
                 /\ q[k].shift = mChunkPool[k].shift
                 /\ k # c => q[k] = mChunkPool[k]
           /\ c \in DOMAIN mChunkPool => q[c].again
           /\ c \notin DOMAIN mChunkPool => q[c] = NewChunk
<1> DEFINE p == GetChunk(c)
           k0 == p[c]
           b == c \in DOMAIN mChunkPool
           e == [k0 EXCEPT !.again = b]
<1>1. NewChunk \in ChunkType /\ NewChunk.again = FALSE
  BY DEF NewChunk, ChunkType, Contents, Voxels
<1>2. /\ PoolOK(p) /\ DOMAIN p = DOMAIN mChunkPool \cup {c}
      /\ \A k \in DOMAIN mChunkPool : p[k] = mChunkPool[k]
      /\ c \notin DOMAIN mChunkPool => p[c] = NewChunk
  BY <1>1 DEF PoolOK, GetChunk
<1>3. q = [p EXCEPT ![c] = e]
  BY DEF QueuedAgain
<1>4. e = [k0 EXCEPT !.again = b] /\ k0 = p[c] /\ (b <=> c \in DOMAIN mChunkPool)
  OBVIOUS
<1>5. b \in BOOLEAN OBVIOUS
<1> HIDE DEF p, k0, b, e
<1>6. k0 \in ChunkType BY <1>2, <1>4 DEF PoolOK
<1>7. /\ e \in ChunkType /\ e.mState = k0.mState /\ e.mLocked = k0.mLocked
      /\ e.mVoxels = k0.mVoxels /\ e.mVerts = k0.mVerts
      /\ e.mCoord = k0.mCoord /\ e.shift = k0.shift
      /\ e.again = b
      /\ k0.again = b => e = k0
  BY <1>4, <1>5, <1>6, AgainNoted
<1>8. ~ b => e = NewChunk
  <2>1. ~ b => k0.again = b
    BY <1>1, <1>2, <1>4, <1>5
  <2> QED BY <1>2, <1>4, <1>7, <2>1
<1>9. /\ PoolOK(q) /\ DOMAIN q = DOMAIN p
      /\ \A k \in DOMAIN p : q[k] = IF k = c THEN e ELSE p[k]
  BY <1>2, <1>3, <1>7, UpdateChunk
<1>10. b => q[c].again BY <1>2, <1>7, <1>9
<1>11. c \in DOMAIN mChunkPool => q[c].again
  BY <1>4, <1>10, Zenon
<1>12. c \notin DOMAIN mChunkPool => e = NewChunk
  BY <1>4, <1>8, Zenon
<1>13. k0 = p[c] BY <1>4
<1> QED BY <1>2, <1>7, <1>9, <1>11, <1>12, <1>13

(* The steps of a pass that make a chunk and queue its generation.         *)
LEMMA VisitNeedsGenerationKeeps ==
    ASSUME IInv, VisitNeedsGeneration
    PROVE  IInv'
<1> USE DEF IInv, WorkInv, VisitNeedsGeneration, At
<1>1. Here \in ChunkKey BY HereTyped
<1>2. /\ at = "slot" /\ at' = "reset"
      /\ UNCHANGED <<mList, mMutex, mCV, pc, task, stage, mCurrentChunk, walk,
                     moves>>
  BY DEF queueVars
<1>3. Here' = Here BY <1>2 DEF Here, Offset
<1>4. NewChunk \in ChunkType /\ NewChunk.mState = "NotGenerated"
  BY DEF NewChunk, ChunkType, Contents, Voxels
<1>5. /\ DOMAIN mChunkPool' = DOMAIN mChunkPool \cup {Here}
      /\ PoolOK(mChunkPool')
      /\ \A c \in DOMAIN mChunkPool :
            /\ mChunkPool'[c].mState = mChunkPool[c].mState
            /\ mChunkPool'[c].mCoord = mChunkPool[c].mCoord
      /\ mChunkPool'[Here].mState = "NotGenerated"
  <2>1. mChunkPool' = QueuedAgain(Here) OBVIOUS
  <2>2. Here \in DOMAIN mChunkPool => NeedsGeneration(Here) OBVIOUS
  <2>3. PoolOK(mChunkPool) OBVIOUS
  <2> QED BY ONLY <1>1, <1>4, <2>1, <2>2, <2>3, QueuedAgainKeeps DEF NeedsGeneration
<1>6. mChunkPool'[Here].mState = "NotGenerated"
  BY <1>5
<1>7. PlacesOK' /\ ThreadsOK' BY <1>2 DEF PlacesOK, ThreadsOK, Running
<1>8. QueueOK' BY <1>2, <1>5 DEF QueueOK, CallOK
<1>9. RunningOK' BY <1>2, <1>5 DEF RunningOK, CallOK, Running, HasCoord
<1>10. PushOK' /\ MainOK' BY <1>2, <1>3, <1>5 DEF PushOK, MainOK
<1>11. GeneratedForItsPlace'
  BY <1>5, <1>6 DEF GeneratedForItsPlace, NeedsGeneration
<1>12. NoChunkForgotten'
  <2>1. TaskedChunks' = TaskedChunks BY <1>2 DEF TaskedChunks
  <2>2. AboutToQueue = {} /\ AboutToQueue' = {Here}
    BY <1>2, <1>3 DEF AboutToQueue
  <2> QED BY <1>5, <2>1, <2>2 DEF NoChunkForgotten, NeedsGeneration
<1>13. QueuedWorkHasThread' BY <1>2 DEF QueuedWorkHasThread
<1> QED BY <1>5, <1>7, <1>8, <1>9, <1>10, <1>11, <1>12, <1>13

LEMMA ResetStateKeeps ==
    ASSUME IInv, ResetState
    PROVE  IInv'
<1> USE DEF IInv, WorkInv
<1>1. /\ at = "reset" /\ at' = "push"
      /\ UNCHANGED <<mList, stage, mCurrentChunk, walk, moves>>
      /\ pc' = [pc EXCEPT ![Main] = "Push"]
      /\ task' = [task EXCEPT ![Main] = [chunk |-> Here, offset |-> Offset,
                                         current |-> mCurrentChunk,
                                         pass |-> moves]]
  BY DEF ResetState, At, sceneVars
<1>2. Here \in ChunkKey /\ Offset \in ChunkKey /\ mCurrentChunk \in ChunkKey
  BY HereTyped DEF PlacesOK
<1>3. Here' = Here BY <1>1 DEF Here, Offset
<1>4. Here \in DOMAIN mChunkPool BY <1>1 DEF PushOK
<1> DEFINE e == [mChunkPool[Here] EXCEPT !.mState = "NotGenerated", !.mLocked = TRUE]
<1>5. /\ e \in ChunkType /\ e.mState = "NotGenerated"
      /\ e.mCoord = mChunkPool[Here].mCoord
  <2>1. mChunkPool[Here] \in ChunkType BY <1>4 DEF PoolOK
  <2> QED BY <2>1 DEF ChunkType
<1>6. mChunkPool' = [mChunkPool EXCEPT ![Here] = e] BY DEF ResetState
<1> HIDE DEF e
<1>7. /\ PoolOK(mChunkPool') /\ DOMAIN mChunkPool' = DOMAIN mChunkPool
      /\ \A k \in DOMAIN mChunkPool :
            mChunkPool'[k] = IF k = Here THEN e ELSE mChunkPool[k]
  BY <1>5, <1>6, UpdateChunk
<1>8. \A k \in DOMAIN mChunkPool : mChunkPool'[k].mCoord = mChunkPool[k].mCoord
  BY <1>5, <1>7
<1>9. /\ Main \in Q!Threads /\ Generators \subseteq Q!Threads
      /\ \A g \in Generators : g # Main
  BY TerrainAssumption DEF Q!Threads
<1>10. /\ \A g \in Generators : pc'[g] = pc[g] /\ task'[g] = task[g]
       /\ pc' \in [Q!Threads -> Q!Labels]
  BY <1>1, <1>9 DEF ThreadsOK, Q!Labels
<1> DEFINE k == [chunk |-> Here, offset |-> Offset, current |-> mCurrentChunk,
                 pass |-> moves]
<1>11. k \in Tasks /\ k.chunk = Here /\ CoordOf(k) = Here
  BY <1>2, HereTyped, PassTyped DEF Tasks, CoordOf, PlacesOK
<1> HIDE DEF k
<1>12. /\ task'[Main] = k
       /\ task' \in [Q!Threads -> Tasks \cup {NoTask}]
  BY <1>1, <1>9, <1>11 DEF ThreadsOK, k
<1>13. PlacesOK' /\ ThreadsOK'
  BY <1>1, <1>10, <1>12 DEF PlacesOK, ThreadsOK, Running
<1>14. QueueOK' BY <1>1, <1>7 DEF QueueOK, CallOK
<1>15. RunningOK'
  BY <1>1, <1>7, <1>8, <1>10 DEF RunningOK, CallOK, Running, HasCoord
<1>16. PushOK' /\ MainOK'
  BY <1>1, <1>3, <1>4, <1>7, <1>11, <1>12 DEF PushOK, MainOK, CallOK
<1>17. GeneratedForItsPlace'
  BY <1>5, <1>7 DEF GeneratedForItsPlace, NeedsGeneration
<1>18. NoChunkForgotten'
  <2>1. TaskedChunks' = TaskedChunks BY <1>1, <1>10 DEF TaskedChunks
  <2>2. AboutToQueue = {Here} /\ AboutToQueue' = {Here}
    BY <1>1, <1>3 DEF AboutToQueue
  <2> QED BY <1>7, <2>1, <2>2 DEF NoChunkForgotten, NeedsGeneration
<1>19. QueuedWorkHasThread' BY <1>1 DEF QueuedWorkHasThread
<1> QED BY <1>7, <1>13, <1>14, <1>15, <1>16, <1>17, <1>18, <1>19

LEMMA AppendElements ==
    ASSUME NEW S, NEW s \in Seq(S), NEW e \in S
    PROVE  /\ Append(s, e) \in Seq(S)
           /\ Len(Append(s, e)) = Len(s) + 1 /\ Len(s) \in Nat
           /\ \A n \in 1 .. Len(s) : Append(s, e)[n] = s[n]
           /\ Append(s, e)[Len(s) + 1] = e
  OBVIOUS

LEMMA PushGenerateKeeps ==
    ASSUME IInv, PushGenerate
    PROVE  IInv'
<1> USE DEF IInv, WorkInv
<1>1. /\ at = "push" /\ at' \in {"slot", "spawn"}
      /\ UNCHANGED <<stage, mCurrentChunk, moves>> /\ walk' = NextSlot(walk)
      /\ pc' = [pc EXCEPT ![Main] = "idle"]
      /\ task' = [task EXCEPT ![Main] = NoTask]
      /\ mList' = Append(mList, task[Main])
      /\ mChunkPool' = Shift(mChunkPool, Here)
  BY DEF PushGenerate, Place, Q!Push, Q!Goto
<1>2. CallOK(task[Main]) /\ task[Main].chunk = Here BY <1>1 DEF PushOK
<1>3. /\ Harmless(mChunkPool, mChunkPool')
      /\ \A k \in DOMAIN mChunkPool : mChunkPool'[k].mState = mChunkPool[k].mState
  BY <1>1, HereTyped, ShiftKeeps
<1>4. /\ Main \in Q!Threads /\ Generators \subseteq Q!Threads
      /\ \A g \in Generators : g # Main
  BY TerrainAssumption DEF Q!Threads
<1>5. /\ \A g \in Generators : pc'[g] = pc[g] /\ task'[g] = task[g]
      /\ pc' \in [Q!Threads -> Q!Labels]
      /\ task' \in [Q!Threads -> Tasks \cup {NoTask}]
  BY <1>1, <1>4 DEF ThreadsOK, Q!Labels
<1>6. PlacesOK' BY <1>1, NextSlotTyped DEF PlacesOK
<1>7. ThreadsOK' BY <1>1, <1>5 DEF ThreadsOK, Running
<1>8. /\ mList' \in Seq(Tasks) /\ Len(mList') = Len(mList) + 1 /\ Len(mList) \in Nat
      /\ \A n \in 1 .. Len(mList) : mList'[n] = mList[n]
      /\ mList'[Len(mList) + 1] = task[Main]
  BY <1>1, <1>2, AppendElements DEF QueueOK, CallOK
<1>9. QueueOK'
  <2>1. DOMAIN mChunkPool' = DOMAIN mChunkPool BY <1>3 DEF Harmless
  <2>2. ASSUME NEW n \in 1 .. Len(mList')
        PROVE  /\ mList'[n] \in Tasks /\ mList'[n].chunk \in DOMAIN mChunkPool
               /\ CoordOf(mList'[n]) = mList'[n].chunk
    <3>1. n \in 1 .. Len(mList) \/ n = Len(mList) + 1 BY <1>8
    <3> QED BY <1>2, <1>8, <3>1 DEF QueueOK, CallOK
  <2> QED BY <1>8, <2>1, <2>2 DEF QueueOK, CallOK
<1>10. RunningOK'
  BY <1>1, <1>3, <1>5 DEF RunningOK, CallOK, Running, HasCoord, Harmless
<1>11. PushOK' /\ MainOK' BY <1>1 DEF PushOK, MainOK
<1>12. GeneratedForItsPlace'
  BY <1>3 DEF GeneratedForItsPlace, NeedsGeneration, Harmless
<1>13. NoChunkForgotten'
  <2>1. TaskedChunks \subseteq TaskedChunks'
    <3> SUFFICES ASSUME NEW c \in TaskedChunks PROVE c \in TaskedChunks'
      OBVIOUS
    <3>1. CASE \E n \in 1 .. Len(mList) : c = mList[n].chunk
      <4>1. PICK n \in 1 .. Len(mList) : c = mList[n].chunk BY <3>1
      <4>2. n \in 1 .. Len(mList') /\ c = mList'[n].chunk BY <1>8, <4>1
      <4> QED BY <4>2 DEF TaskedChunks
    <3>2. CASE \E g \in Generators : pc[g] = "EmptyWait_run" /\ c = task[g].chunk
      BY <1>5, <3>2 DEF TaskedChunks
    <3> QED BY <3>1, <3>2 DEF TaskedChunks
  <2>2. Here \in TaskedChunks'
    <3>1. Len(mList') \in 1 .. Len(mList') /\ mList'[Len(mList')].chunk = Here
      BY <1>2, <1>8
    <3> QED BY <3>1 DEF TaskedChunks
  <2>3. AboutToQueue = {Here} BY <1>1 DEF AboutToQueue
  <2> QED BY <1>3, <2>1, <2>2, <2>3 DEF NoChunkForgotten, NeedsGeneration, Harmless
<1>14. QueuedWorkHasThread' BY <1>1 DEF QueuedWorkHasThread
<1> QED BY <1>3, <1>6, <1>7, <1>9, <1>10, <1>11, <1>12, <1>13, <1>14 DEF Harmless

(* A step that moves a generator between two points of the queue at which  *)
(* it runs no task.                                                        *)
GeneratorMoves(g, to) ==
    /\ to \in Q!Labels \ {"EmptyWait_run"} /\ ~ Running(g)
    /\ pc' = [pc EXCEPT ![g] = to]
    /\ UNCHANGED <<mList, task, mChunkPool, stage, mChunks, mCurrentChunk,
                   walk, cursor, rayChunk, moves>>
    /\ at' = at \/ (at = "spawn" /\ at' = "commit")

LEMMA GeneratorMovesKeeps ==
    ASSUME WorkInv, NEW g \in Generators, NEW to, GeneratorMoves(g, to)
    PROVE  /\ PoolOK(mChunkPool)' /\ PlacesOK' /\ ThreadsOK' /\ QueueOK'
           /\ RunningOK' /\ PushOK' /\ MainOK'
           /\ GeneratedForItsPlace' /\ (NoChunkForgotten => NoChunkForgotten')
<1> USE DEF WorkInv, GeneratorMoves
<1>1. /\ g \in Q!Threads /\ Generators \subseteq Q!Threads BY DEF Q!Threads
<1>2. /\ pc' \in [Q!Threads -> Q!Labels]
      /\ \A h \in Generators : Running(h)' <=> Running(h)
  BY <1>1 DEF ThreadsOK, Running
<1>3. PoolOK(mChunkPool)' /\ PlacesOK' BY DEF PoolOK, PlacesOK
<1>4. ThreadsOK' BY <1>2 DEF ThreadsOK
<1>5. QueueOK' BY DEF QueueOK, CallOK
<1>6. RunningOK' BY <1>2 DEF RunningOK, CallOK, HasCoord
<1>7. Here' = Here BY DEF Here, Offset
<1>8. PushOK' /\ MainOK' BY <1>7 DEF PushOK, MainOK, CallOK, HasCoord
<1>9. GeneratedForItsPlace' BY DEF GeneratedForItsPlace, NeedsGeneration
<1>10. NoChunkForgotten => NoChunkForgotten'
  <2>1. TaskedChunks' = TaskedChunks
    <3>1. {h \in Generators : pc'[h] = "EmptyWait_run"}
            = {h \in Generators : pc[h] = "EmptyWait_run"}
      BY <1>2 DEF Running
    <3> QED BY <3>1 DEF TaskedChunks
  <2>2. AboutToQueue' = AboutToQueue BY <1>7 DEF AboutToQueue
  <2> QED BY <2>1, <2>2 DEF NoChunkForgotten, NeedsGeneration
<1> QED BY <1>3, <1>4, <1>5, <1>6, <1>8, <1>9, <1>10

LEMMA SpawnKeeps ==
    ASSUME IInv, Spawn
    PROVE  IInv'
<1> USE DEF IInv, WorkInv
<1>1. /\ at = "spawn" /\ at' = "commit"
      /\ UNCHANGED <<mList, task, mChunkPool, mChunks, mCurrentChunk, walk,
                     cursor, rayChunk, moves>>
  BY DEF Spawn, At, sceneVars
<1>2. CASE mList # <<>>
  <2> DEFINE g == moves
  <2>1. /\ Q!Goto(g, "idle", "EmptyWait")
        /\ stage' = [stage EXCEPT ![g] = "coord"] /\ g \in Generators
    BY <1>2, PassTyped DEF Spawn, StartGenerator
  <2> HIDE DEF g
  <2>2. pc[g] = "idle" /\ pc' = [pc EXCEPT ![g] = "EmptyWait"]
    BY <2>1 DEF Q!Goto
  <2>3. ~ Running(g) BY <2>2 DEF Running
  <2>4. stage' = stage BY <2>1, <2>3 DEF ThreadsOK
  <2>5. GeneratorMoves(g, "EmptyWait")
    BY <1>1, <2>2, <2>3, <2>4 DEF GeneratorMoves, Q!Labels
  <2>6. /\ PoolOK(mChunkPool)' /\ PlacesOK' /\ ThreadsOK' /\ QueueOK'
        /\ RunningOK' /\ PushOK' /\ MainOK'
        /\ GeneratedForItsPlace' /\ NoChunkForgotten'
    BY <2>1, <2>5, GeneratorMovesKeeps
  <2>7. pc'[g] = "EmptyWait" BY <2>1, <2>2 DEF ThreadsOK, Q!Threads
  <2>8. QueuedWorkHasThread' BY <2>1, <2>7 DEF QueuedWorkHasThread
  <2> QED BY <2>6, <2>8
<1>3. CASE mList = <<>>
  <2>1. UNCHANGED <<pc, stage>> BY <1>3 DEF Spawn
  <2>2. PoolOK(mChunkPool)' /\ PlacesOK' BY <1>1 DEF PoolOK, PlacesOK
  <2>3. ThreadsOK' /\ RunningOK'
    BY <1>1, <2>1 DEF ThreadsOK, Running, RunningOK, CallOK, HasCoord
  <2>4. QueueOK' /\ PushOK' /\ MainOK'
    BY <1>1 DEF QueueOK, CallOK, PushOK, MainOK
  <2>5. GeneratedForItsPlace'
    BY <1>1 DEF GeneratedForItsPlace, NeedsGeneration
  <2>6. NoChunkForgotten'
    <3>1. TaskedChunks' = TaskedChunks BY <1>1, <2>1 DEF TaskedChunks
    <3>2. AboutToQueue = {} BY <1>1 DEF AboutToQueue
    <3> QED BY <1>1, <3>1, <3>2 DEF NoChunkForgotten, NeedsGeneration
  <2>7. QueuedWorkHasThread' BY <1>1, <1>3 DEF QueuedWorkHasThread
  <2> QED BY <2>2, <2>3, <2>4, <2>5, <2>6, <2>7
<1> QED BY <1>2, <1>3

-----------------------------------------------------------------------------
(* The steps of a generator in the queue.                                  *)
LEMMA TailElements ==
    ASSUME NEW S, NEW s \in Seq(S), s # <<>>, NEW t, t = Tail(s)
    PROVE  /\ t \in Seq(S)
           /\ Head(s) = s[1] /\ Head(s) \in S /\ 1 \in 1 .. Len(s)
           /\ \A n \in 1 .. Len(t) : n + 1 \in 1 .. Len(s) /\ t[n] = s[n + 1]
           /\ \A n \in 1 .. Len(s) : n # 1 => n - 1 \in 1 .. Len(t) /\ t[n - 1] = s[n]
<1>1. /\ t \in Seq(S) /\ Head(s) = s[1] /\ Head(s) \in S
      /\ Len(s) \in Nat \ {0} /\ Len(t) = Len(s) - 1
      /\ \A n \in 1 .. Len(t) : t[n] = s[n + 1]
  OBVIOUS
<1>2. ASSUME NEW n \in 1 .. Len(s), n # 1
      PROVE  n - 1 \in 1 .. Len(t) /\ t[n - 1] = s[n]
  <2>1. n - 1 \in 1 .. Len(t) /\ (n - 1) + 1 = n BY <1>1, <1>2
  <2> QED BY <1>1, <2>1
<1>3. \A n \in 1 .. Len(t) : n + 1 \in 1 .. Len(s) BY <1>1
<1>4. 1 \in 1 .. Len(s) BY <1>1
<1> QED BY <1>1, <1>2, <1>3, <1>4

LEMMA InQueueKeeps ==
    ASSUME WorkInv, NEW g \in Generators, InQueue(g)
    PROVE  Kept
<1> USE DEF WorkInv, Kept, Q!Goto
<1>1. UNCHANGED <<mChunkPool, stage, mChunks, mCurrentChunk, walk, cursor,
                  rayChunk, at, moves>>
  BY DEF InQueue, mainVars, sceneVars
<1>2. g \in Q!Threads /\ Generators \subseteq Q!Threads BY DEF Q!Threads
<1>3. CASE Q!EmptyWaitLock(g)
  <2>1. /\ pc' = [pc EXCEPT ![g] = "EmptyWait_loop"] /\ ~ Running(g)
        /\ UNCHANGED <<mList, task>>
    BY <1>3 DEF Q!EmptyWaitLock, Running
  <2>2. GeneratorMoves(g, "EmptyWait_loop")
    BY <1>1, <2>1 DEF GeneratorMoves, Q!Labels
  <2>3. QueuedWorkHasThread => QueuedWorkHasThread'
    <3>1. pc'[g] # "idle" BY <1>2, <2>1 DEF ThreadsOK
    <3> QED BY <3>1 DEF QueuedWorkHasThread
  <2>4. /\ PoolOK(mChunkPool)' /\ PlacesOK' /\ ThreadsOK' /\ QueueOK'
        /\ RunningOK' /\ PushOK' /\ MainOK'
        /\ GeneratedForItsPlace' /\ (NoChunkForgotten => NoChunkForgotten')
    BY <2>2, GeneratorMovesKeeps
  <2> QED BY <2>3, <2>4
<1>4. CASE Q!EmptyWaitReturn(g)
  <2>1. /\ pc' = [pc EXCEPT ![g] = "idle"] /\ ~ Running(g)
        /\ UNCHANGED <<mList, task>> /\ mList = <<>>
    BY <1>4 DEF Q!EmptyWaitReturn, Running
  <2>2. GeneratorMoves(g, "idle")
    BY <1>1, <2>1 DEF GeneratorMoves, Q!Labels
  <2>3. QueuedWorkHasThread => QueuedWorkHasThread' BY <2>1 DEF QueuedWorkHasThread
  <2>4. /\ PoolOK(mChunkPool)' /\ PlacesOK' /\ ThreadsOK' /\ QueueOK'
        /\ RunningOK' /\ PushOK' /\ MainOK'
        /\ GeneratedForItsPlace' /\ (NoChunkForgotten => NoChunkForgotten')
    BY <2>2, GeneratorMovesKeeps
  <2> QED BY <2>3, <2>4
<1>5. CASE Q!EmptyWaitTake(g)
  <2>1. /\ pc[g] = "EmptyWait_loop" /\ pc' = [pc EXCEPT ![g] = "EmptyWait_run"]
        /\ mList # <<>> /\ mList' = Tail(mList)
        /\ task' = [task EXCEPT ![g] = Head(mList)]
    BY <1>5 DEF Q!EmptyWaitTake, Q!TakeFront
  <2>2. /\ mList' \in Seq(Tasks) /\ Head(mList) \in Tasks
        /\ Head(mList) = mList[1] /\ 1 \in 1 .. Len(mList)
        /\ \A n \in 1 .. Len(mList') :
              n + 1 \in 1 .. Len(mList) /\ mList'[n] = mList[n + 1]
        /\ \A n \in 1 .. Len(mList) :
              n # 1 => n - 1 \in 1 .. Len(mList') /\ mList'[n - 1] = mList[n]
    BY <2>1, TailElements DEF QueueOK
  <2>3. CallOK(Head(mList)) BY <2>2 DEF QueueOK
  <2>4. /\ pc' \in [Q!Threads -> Q!Labels]
        /\ task' \in [Q!Threads -> Tasks \cup {NoTask}]
        /\ pc'[g] = "EmptyWait_run" /\ task'[g] = Head(mList)
        /\ \A h \in Q!Threads : h # g => pc'[h] = pc[h] /\ task'[h] = task[h]
    BY <1>2, <2>1, <2>2 DEF ThreadsOK, Q!Labels
  <2>5. PoolOK(mChunkPool)' /\ PlacesOK' BY <1>1 DEF PoolOK, PlacesOK
  <2>6. stage[g] = "coord" BY <2>1 DEF ThreadsOK, Running
  <2>7. ThreadsOK' BY <1>1, <1>2, <2>4, <2>6 DEF ThreadsOK, Running
  <2>8. QueueOK'
    <3>1. \A n \in 1 .. Len(mList') : CallOK(mList'[n]) BY <2>2 DEF QueueOK
    <3> QED BY <1>1, <2>2, <3>1 DEF QueueOK, CallOK
  <2>9. RunningOK'
    BY <1>1, <1>2, <2>3, <2>4, <2>6 DEF RunningOK, CallOK, Running, HasCoord
  <2>10. Here' = Here BY <1>1 DEF Here, Offset
  <2>11. PushOK' /\ MainOK'
    <3>1. Main \in Q!Threads /\ Main # g BY TerrainAssumption DEF Q!Threads
    <3> QED BY <1>1, <2>4, <2>10, <3>1 DEF PushOK, MainOK, CallOK, HasCoord
  <2>12. GeneratedForItsPlace' BY <1>1 DEF GeneratedForItsPlace, NeedsGeneration
  <2>13. NoChunkForgotten => NoChunkForgotten'
    <3>1. TaskedChunks \subseteq TaskedChunks'
      <4> SUFFICES ASSUME NEW c \in TaskedChunks PROVE c \in TaskedChunks'
        OBVIOUS
      <4>1. CASE \E n \in 1 .. Len(mList) : c = mList[n].chunk
        <5>1. PICK n \in 1 .. Len(mList) : c = mList[n].chunk BY <4>1
        <5>2. CASE n = 1
          BY <2>2, <2>4, <5>1, <5>2 DEF TaskedChunks
        <5>3. CASE n # 1
          <6>1. n - 1 \in 1 .. Len(mList') /\ c = mList'[n - 1].chunk
            BY <2>2, <5>1, <5>3
          <6> QED BY <6>1 DEF TaskedChunks
        <5> QED BY <5>2, <5>3
      <4>2. CASE \E h \in Generators : pc[h] = "EmptyWait_run" /\ c = task[h].chunk
        <5>1. PICK h \in Generators : pc[h] = "EmptyWait_run" /\ c = task[h].chunk
          BY <4>2
        <5>2. pc'[h] = "EmptyWait_run" /\ task'[h] = task[h]
          BY <1>2, <2>1, <2>4, <5>1
        <5> QED BY <5>1, <5>2 DEF TaskedChunks
      <4> QED BY <4>1, <4>2 DEF TaskedChunks
    <3>2. AboutToQueue' = AboutToQueue BY <1>1, <2>10 DEF AboutToQueue
    <3> QED BY <1>1, <3>1, <3>2 DEF NoChunkForgotten, NeedsGeneration
  <2>14. QueuedWorkHasThread => QueuedWorkHasThread' BY <2>4 DEF QueuedWorkHasThread
  <2> QED BY <2>5, <2>7, <2>8, <2>9, <2>11, <2>12, <2>13, <2>14
<1> QED BY <1>3, <1>4, <1>5 DEF InQueue

-----------------------------------------------------------------------------
(* The steps of a generator that runs a task: they give no chunk a place   *)
(* that is not its own, and change no state before the last one.           *)
GeneratorWrites(g, to) ==
    /\ Running(g) /\ to \in {"fill", "mesh", "store"}
    /\ stage' = [stage EXCEPT ![g] = to]
    /\ UNCHANGED <<queueVars, mainVars>>
    /\ PoolOK(mChunkPool') /\ DOMAIN mChunkPool' = DOMAIN mChunkPool
    /\ \A k \in DOMAIN mChunkPool :
          /\ mChunkPool'[k].mState = mChunkPool[k].mState
          /\ mChunkPool'[k].mCoord \in {mChunkPool[k].mCoord, k}
    /\ mChunkPool'[task[g].chunk].mCoord = task[g].chunk

LEMMA GeneratorWritesKeeps ==
    ASSUME WorkInv, NEW g \in Generators, NEW to, GeneratorWrites(g, to)
    PROVE  Kept
<1> USE DEF WorkInv, Kept, GeneratorWrites, queueVars, mainVars, sceneVars
<1>1. PoolOK(mChunkPool)' /\ PlacesOK' BY DEF PlacesOK
<1>2. ThreadsOK' BY DEF ThreadsOK, Running
<1>3. QueueOK' BY DEF QueueOK, CallOK
<1>4. \A h \in Generators : /\ Running(h)' <=> Running(h)
                            /\ h # g => stage'[h] = stage[h]
  BY DEF Running, ThreadsOK
<1>5. \A c : c \in DOMAIN mChunkPool /\ HasCoord(c) => HasCoord(c)'
  BY DEF HasCoord
<1>6. RunningOK'
  <2> SUFFICES ASSUME NEW h \in Generators, Running(h)
               PROVE  /\ CallOK(task[h])'
                      /\ stage'[h] # "coord" => HasCoord(task[h].chunk)'
    BY <1>4 DEF RunningOK
  <2>1. CallOK(task[h])' BY DEF RunningOK, CallOK
  <2>2. CASE h = g BY <2>1, <2>2 DEF HasCoord
  <2>3. CASE h # g
    <3>1. stage'[h] # "coord" => HasCoord(task[h].chunk)
      BY <1>4, <2>3 DEF RunningOK
    <3>2. task[h].chunk \in DOMAIN mChunkPool BY DEF RunningOK, CallOK
    <3> QED BY <2>1, <3>1, <3>2 DEF HasCoord
  <2> QED BY <2>1, <2>2, <2>3
<1>7. Here' = Here BY DEF Here, Offset
<1>8. PushOK' BY <1>7 DEF PushOK, CallOK
<1>9. MainOK' BY DEF MainOK, HasCoord
<1>10. GeneratedForItsPlace' BY DEF GeneratedForItsPlace, NeedsGeneration
<1>11. NoChunkForgotten => NoChunkForgotten'
  <2>1. TaskedChunks' = TaskedChunks BY DEF TaskedChunks
  <2>2. AboutToQueue' = AboutToQueue BY <1>7 DEF AboutToQueue
  <2> QED BY <2>1, <2>2 DEF NoChunkForgotten, NeedsGeneration
<1>12. QueuedWorkHasThread => QueuedWorkHasThread' BY DEF QueuedWorkHasThread
<1> QED BY <1>1, <1>2, <1>3, <1>6, <1>8, <1>9, <1>10, <1>11, <1>12

LEMMA GenerateCoordKeeps ==
    ASSUME WorkInv, NEW g \in Generators, GenerateCoord(g)
    PROVE  Kept
<1> DEFINE c == task[g].chunk
<1> DEFINE e == [mChunkPool[c] EXCEPT !.mCoord = CoordOf(task[g]), !.mVoxels = "filling"]
<1>1. /\ Running(g) /\ stage' = [stage EXCEPT ![g] = "fill"]
      /\ UNCHANGED <<queueVars, mainVars>>
      /\ mChunkPool' = [mChunkPool EXCEPT ![c] = e]
  BY DEF GenerateCoord, InGenerate, Running
<1>2. c \in DOMAIN mChunkPool /\ CoordOf(task[g]) = c /\ c \in ChunkKey
  BY <1>1 DEF WorkInv, RunningOK, CallOK, PoolOK
<1>3. /\ e \in ChunkType /\ e.mState = mChunkPool[c].mState /\ e.mCoord = c
  <2>1. mChunkPool[c] \in ChunkType BY <1>2 DEF WorkInv, PoolOK
  <2> QED BY <1>2, <2>1 DEF ChunkType, Voxels
<1> HIDE DEF e
<1>4. /\ PoolOK(mChunkPool') /\ DOMAIN mChunkPool' = DOMAIN mChunkPool
      /\ \A k \in DOMAIN mChunkPool :
            mChunkPool'[k] = IF k = c THEN e ELSE mChunkPool[k]
  BY <1>1, <1>3, UpdateChunk DEF WorkInv
<1>5. GeneratorWrites(g, "fill")
  BY <1>1, <1>2, <1>3, <1>4 DEF GeneratorWrites
<1> QED BY <1>5, GeneratorWritesKeeps

LEMMA GenerateFillKeeps ==
    ASSUME WorkInv, NEW g \in Generators, GenerateFill(g)
    PROVE  Kept
<1> DEFINE c == task[g].chunk
<1> DEFINE e == [mChunkPool[c] EXCEPT !.mVoxels = "terrain"]
<1>1. /\ Running(g) /\ stage[g] = "fill" /\ stage' = [stage EXCEPT ![g] = "mesh"]
      /\ UNCHANGED <<queueVars, mainVars>>
      /\ mChunkPool' = [mChunkPool EXCEPT ![c] = e]
  BY DEF GenerateFill, InGenerate, Running
<1>2. c \in DOMAIN mChunkPool /\ mChunkPool[c].mCoord = c
  BY <1>1 DEF WorkInv, RunningOK, CallOK, HasCoord
<1>3. /\ e \in ChunkType /\ e.mState = mChunkPool[c].mState /\ e.mCoord = c
  <2>1. mChunkPool[c] \in ChunkType BY <1>2 DEF WorkInv, PoolOK
  <2> QED BY <1>2, <2>1 DEF ChunkType, Voxels
<1> HIDE DEF e
<1>4. /\ PoolOK(mChunkPool') /\ DOMAIN mChunkPool' = DOMAIN mChunkPool
      /\ \A k \in DOMAIN mChunkPool :
            mChunkPool'[k] = IF k = c THEN e ELSE mChunkPool[k]
  BY <1>1, <1>3, UpdateChunk DEF WorkInv
<1>5. GeneratorWrites(g, "mesh")
  BY <1>1, <1>2, <1>3, <1>4 DEF GeneratorWrites
<1> QED BY <1>5, GeneratorWritesKeeps

LEMMA GenerateMeshKeeps ==
    ASSUME WorkInv, NEW g \in Generators, GenerateMesh(g)
    PROVE  Kept
<1> DEFINE c == task[g].chunk
<1> DEFINE e == [mChunkPool[c] EXCEPT !.mVerts = Started(mChunkPool[c])]
<1>1. /\ Running(g) /\ stage[g] = "mesh" /\ stage' = [stage EXCEPT ![g] = "store"]
      /\ UNCHANGED <<queueVars, mainVars>>
      /\ mChunkPool' = [mChunkPool EXCEPT ![c] = e]
  BY DEF GenerateMesh, InGenerate, Running, MeshBegin
<1>2. c \in DOMAIN mChunkPool /\ mChunkPool[c].mCoord = c
  BY <1>1 DEF WorkInv, RunningOK, CallOK, HasCoord
<1>3. /\ e \in ChunkType /\ e.mState = mChunkPool[c].mState /\ e.mCoord = c
  <2>1. mChunkPool[c] \in ChunkType BY <1>2 DEF WorkInv, PoolOK
  <2>2. Started(mChunkPool[c]) \in [done : BOOLEAN, of : Contents]
    BY <2>1 DEF ChunkType, Started, Contents
  <2> QED BY <1>2, <2>1, <2>2 DEF ChunkType
<1> HIDE DEF e
<1>4. /\ PoolOK(mChunkPool') /\ DOMAIN mChunkPool' = DOMAIN mChunkPool
      /\ \A k \in DOMAIN mChunkPool :
            mChunkPool'[k] = IF k = c THEN e ELSE mChunkPool[k]
  BY <1>1, <1>3, UpdateChunk DEF WorkInv
<1>5. GeneratorWrites(g, "store")
  BY <1>1, <1>2, <1>3, <1>4 DEF GeneratorWrites
<1> QED BY <1>5, GeneratorWritesKeeps

LEMMA GenerateStoreKeeps ==
    ASSUME WorkInv, NEW g \in Generators, GenerateStore(g)
    PROVE  Kept
<1> USE DEF WorkInv, Kept
<1> DEFINE c == task[g].chunk
<1>1. /\ Running(g) /\ stage[g] = "store" /\ stage' = [stage EXCEPT ![g] = "coord"]
      /\ pc' = [pc EXCEPT ![g] = "EmptyWait_loop"]
      /\ task' = [task EXCEPT ![g] = NoTask]
      /\ UNCHANGED <<mList, mChunks, mCurrentChunk, at, walk, cursor, rayChunk, moves>>
      /\ \E seen \in SeenBy(c) : mChunkPool' = MeshEnd(c, seen)
  BY DEF GenerateStore, InGenerate, Running, Q!EmptyWaitTaskDone, Q!Goto,
     mainVars, sceneVars
<1>2. c \in DOMAIN mChunkPool /\ HasCoord(c)
  BY <1>1 DEF RunningOK, CallOK
<1>3. Harmless(mChunkPool, mChunkPool') /\ mChunkPool'[c].mState = "Generated"
  BY <1>1, <1>2, MeshEndKeeps
<1>4. /\ g \in Q!Threads /\ Main \in Q!Threads /\ Generators \subseteq Q!Threads
      /\ Main # g
  BY TerrainAssumption DEF Q!Threads
<1>5. /\ pc' \in [Q!Threads -> Q!Labels] /\ task' \in [Q!Threads -> Tasks \cup {NoTask}]
      /\ pc'[g] = "EmptyWait_loop" /\ stage'[g] = "coord"
      /\ \A h \in Q!Threads : h # g => pc'[h] = pc[h] /\ task'[h] = task[h]
      /\ \A h \in Generators : h # g => stage'[h] = stage[h]
  BY <1>1, <1>4 DEF ThreadsOK, Q!Labels
<1>6. stage' \in [Generators -> {"coord", "fill", "mesh", "store"}]
  BY <1>1 DEF ThreadsOK
<1>7. PoolOK(mChunkPool)' /\ PlacesOK' BY <1>1, <1>3 DEF PlacesOK, Harmless
<1>8. ThreadsOK' BY <1>4, <1>5, <1>6 DEF ThreadsOK, Running
<1>9. QueueOK' BY <1>1, <1>3 DEF QueueOK, CallOK, Harmless
<1>10. RunningOK'
  BY <1>3, <1>4, <1>5 DEF RunningOK, CallOK, Running, HasCoord, Harmless
<1>11. Here' = Here BY <1>1 DEF Here, Offset
<1>12. PushOK' BY <1>1, <1>3, <1>4, <1>5, <1>11 DEF PushOK, CallOK, Harmless
<1>13. MainOK' BY <1>1, <1>3 DEF MainOK, HasCoord, Harmless
<1>14. GeneratedForItsPlace'
  BY <1>3 DEF GeneratedForItsPlace, NeedsGeneration, Harmless
<1>15. NoChunkForgotten => NoChunkForgotten'
  <2>1. TaskedChunks \ {c} \subseteq TaskedChunks'
    BY <1>1, <1>4, <1>5 DEF TaskedChunks
  <2>2. AboutToQueue' = AboutToQueue BY <1>1, <1>11 DEF AboutToQueue
  <2> QED BY <1>3, <2>1, <2>2 DEF NoChunkForgotten, NeedsGeneration, Harmless
<1>16. QueuedWorkHasThread => QueuedWorkHasThread' BY <1>5 DEF QueuedWorkHasThread
<1> QED BY <1>7, <1>8, <1>9, <1>10, <1>12, <1>13, <1>14, <1>15, <1>16

LEMMA GeneratorKeeps ==
    ASSUME WorkInv, NEW g \in Generators, GeneratorNext(g)
    PROVE  Kept
  BY InQueueKeeps, GenerateCoordKeeps, GenerateFillKeeps, GenerateMeshKeeps,
     GenerateStoreKeeps DEF GeneratorNext

-----------------------------------------------------------------------------
(* Every step keeps the invariant.                                         *)
LEMMA StepInv == IInv /\ [Next]_vars => IInv'
<1> SUFFICES ASSUME IInv, [Next]_vars PROVE IInv'
  OBVIOUS
<1>1. CASE UNCHANGED vars
  <2> USE <1>1 DEF vars, queueVars, sceneVars, IInv, WorkInv
  <2>1. PoolOK(mChunkPool)' /\ PlacesOK' BY DEF PoolOK, PlacesOK
  <2>2. ThreadsOK' /\ QueueOK' BY DEF ThreadsOK, Running, QueueOK, CallOK
  <2>3. RunningOK' /\ MainOK'
    BY DEF RunningOK, Running, CallOK, HasCoord, MainOK
  <2>4. Here' = Here BY DEF Here, Offset
  <2>5. PushOK' BY <2>4 DEF PushOK, CallOK
  <2>6. GeneratedForItsPlace' BY DEF GeneratedForItsPlace, NeedsGeneration
  <2>7. NoChunkForgotten'
    <3>1. TaskedChunks' = TaskedChunks BY DEF TaskedChunks
    <3>2. AboutToQueue' = AboutToQueue BY <2>4 DEF AboutToQueue
    <3> QED BY <3>1, <3>2 DEF NoChunkForgotten, NeedsGeneration
  <2>8. QueuedWorkHasThread' BY DEF QueuedWorkHasThread
  <2> QED BY <2>1, <2>2, <2>3, <2>5, <2>6, <2>7, <2>8
<1>2. CASE MainNext
  BY <1>2, MainKeeps, VisitNeedsGenerationKeeps, ResetStateKeeps,
     PushGenerateKeeps, SpawnKeeps DEF MainNext
<1>3. CASE \E g \in Generators : GeneratorNext(g)
  BY <1>3, GeneratorKeeps DEF Kept, IInv
<1> QED BY <1>1, <1>2, <1>3 DEF Next

(* The invariant of the terrain holds, whatever the player does.           *)
THEOREM Inductive == Spec => []IInv
<1> QED BY InitInv, StepInv, PTL DEF Spec

(* However far the player moves between the Push and the Generate call of  *)
(* a chunk, TerrainManager::GenerateChunks has bound what makes the chunk  *)
(* be generated for its own place.                                         *)
THEOREM InItsPlace == Spec => []GeneratedForItsPlace
<1>1. IInv => GeneratedForItsPlace BY DEF IInv, WorkInv
<1> QED BY <1>1, Inductive, PTL

(* GenerateChunks leaves no chunk that needs generation without a task:    *)
(* the reset of a chunk that is already queued or running loses nothing.   *)
THEOREM NothingForgotten == Spec => []NoChunkForgotten
<1>1. IInv => NoChunkForgotten BY DEF IInv, WorkInv
<1> QED BY <1>1, Inductive, PTL

(* The thread that GenerateChunks detaches is enough: a generator only     *)
(* ends at an empty queue, and only Main fills it.                         *)
THEOREM WorkHasThread == Spec => []QueuedWorkHasThread
<1>1. IInv => QueuedWorkHasThread BY DEF IInv, WorkInv
<1> QED BY <1>1, Inductive, PTL
-----------------------------------------------------------------------------
(* Where the chunks are drawn.                                             *)
InPass == at \in {"slot", "reset", "push"}

WalkOK == /\ walk.i \in 0 .. VisibleRadius + 1
          /\ walk.j \in 0 .. ChunksInRadius(walk.i) - 1
          /\ walk = WalkAt(walk.i, walk.j, Before(walk.i) + walk.j)
          /\ InPass => walk.i <= VisibleRadius
          /\ ~ InPass => walk.i = VisibleRadius + 1 /\ walk.j = 0

(* Slot n shows the same chunk to Update and to the Renderer, moved to its *)
(* place, which the pass has passed already.                               *)
Shown(n) == LET c == mChunks[n]
            IN  /\ mTerrainMeshArray[n] = c
                /\ c \in DOMAIN mChunkPool /\ mChunkPool[c].shift \in ChunkKey
                /\ Seen(mChunkPool[c].shift, walk.i, walk.j)
                /\ c = Plus(mCurrentChunk, mChunkPool[c].shift)

SlotsOK == /\ mChunks \in [Slots -> DOMAIN mChunkPool \cup {NoChunk}]
           /\ mTerrainMeshArray \in [Slots -> DOMAIN mChunkPool \cup {NoChunk}]

FilledOK == /\ \A n \in 0 .. walk.chunkIndex - 1 : Shown(n)
            /\ \A p \in ChunkKey : Seen(p, walk.i, walk.j) =>
                  \E n \in 0 .. walk.chunkIndex - 1 : mChunks[n] = Plus(mCurrentChunk, p)
            /\ at \in {"reset", "push"} => mChunks[walk.chunkIndex] = Here

LoopsOK == /\ cursor \in Slots
           /\ rayChunk \in DOMAIN mChunkPool \cup {NoChunk}
           /\ mMutex \in Generators \cup {NoThread}

PlaceInv == WalkOK /\ SlotsOK /\ FilledOK /\ LoopsOK

-----------------------------------------------------------------------------
(* There are at least five slots.                                          *)
LEMMA SlotCount == /\ mChunkCount = Total(VisibleRadius)
                   /\ mChunkCount \in Nat /\ mChunkCount > 4
                   /\ Slots = 0 .. Total(VisibleRadius) - 1
<1>1. VisibleRadius \in Nat /\ VisibleRadius >= 1
  BY TerrainAssumption
<1>2. mChunkCount = Total(VisibleRadius)
  BY <1>1, ChunkCount DEF mChunkCount
<1>3. VisibleRadius * (VisibleRadius + 1) >= 2
  BY <1>1
<1>4. Total(VisibleRadius) = 2 * (VisibleRadius * (VisibleRadius + 1)) + 1
  BY <1>1 DEF Total
<1>5. Total(VisibleRadius) \in Nat /\ Total(VisibleRadius) > 4
  BY <1>1, <1>3, <1>4
<1> QED BY <1>2, <1>5 DEF Slots

LEMMA WalkAtFields ==
    ASSUME NEW w, NEW i, NEW k, NEW n, w = WalkAt(i, k, n)
    PROVE  w.x = RingX(i, k) /\ w.z = RingZ(i, k) /\ w.chunkIndex = n
  BY DEF WalkAt

(* Where a pass is: the offset, and a slot inside the arrays.              *)
LEMMA WalkPoint ==
    ASSUME WalkOK, InPass
    PROVE  /\ walk.i \in Nat
           /\ Offset = RingPoint(walk.i, walk.j) /\ Offset \in ChunkKey
           /\ walk.chunkIndex = Before(walk.i) + walk.j
           /\ walk.chunkIndex \in Nat /\ walk.chunkIndex \in Slots
<1>1. /\ walk.i \in Nat /\ walk.i \in 0 .. VisibleRadius /\ VisibleRadius \in Nat
      /\ walk.j \in 0 .. ChunksInRadius(walk.i) - 1
  BY TerrainAssumption DEF WalkOK
<1>2. /\ walk.x = RingX(walk.i, walk.j) /\ walk.z = RingZ(walk.i, walk.j)
      /\ walk.chunkIndex = Before(walk.i) + walk.j
  BY WalkAtFields DEF WalkOK
<1>3. Offset = RingPoint(walk.i, walk.j) /\ Offset \in ChunkKey
  <2>1. RingX(walk.i, walk.j) \in Int /\ RingZ(walk.i, walk.j) \in Int
    BY <1>1, RingPointTyped
  <2> QED BY <1>2, <2>1 DEF Offset, RingPoint, ChunkKey
<1>4. Before(walk.i) \in Nat /\ ChunksInRadius(walk.i) \in Nat
  <2>1. \A i \in Nat : ChunksInRadius(i) \in Nat BY DEF ChunksInRadius
  <2> QED BY <1>1, <2>1, TotalStep
<1>5. Before(walk.i) + ChunksInRadius(walk.i) <= Total(VisibleRadius)
  BY <1>1, TotalMonotonic
<1>6. walk.chunkIndex \in Nat /\ walk.chunkIndex < Total(VisibleRadius)
  <2>1. Total(VisibleRadius) \in Nat BY <1>1, TotalStep
  <2> QED BY <1>1, <1>2, <1>4, <1>5, <2>1
<1>7. walk.chunkIndex \in Slots
  <2>1. Total(VisibleRadius) \in Nat BY <1>1, TotalStep
  <2> QED BY <1>6, <2>1, SlotCount
<1> QED BY <1>1, <1>2, <1>3, <1>6, <1>7

LEMMA PlusInjective ==
    ASSUME NEW c \in ChunkKey, NEW p \in ChunkKey, NEW q \in ChunkKey,
           Plus(c, p) = Plus(c, q)
    PROVE  p = q
<1>1. c[1] + p[1] = c[1] + q[1] /\ c[2] + p[2] = c[2] + q[2]
  BY DEF Plus
<1>2. \A r \in ChunkKey : r[1] \in Int /\ r[2] \in Int /\ r = <<r[1], r[2]>>
  BY DEF ChunkKey
<1>3. /\ c[1] \in Int /\ p[1] \in Int /\ q[1] \in Int
      /\ c[2] \in Int /\ p[2] \in Int /\ q[2] \in Int
  BY <1>2
<1>4. \A a, x, y \in Int : a + x = a + y => x = y
  OBVIOUS
<1>5. p[1] = q[1] /\ p[2] = q[2]
  BY <1>1, <1>3, <1>4, Zenon
<1> QED BY <1>2, <1>5

(* A step of the pool that leaves every chunk where it is drawn.           *)
SamePlaces(p, q) == /\ DOMAIN p \subseteq DOMAIN q
                    /\ \A c \in DOMAIN p : q[c].shift = p[c].shift

LEMMA SamePlacesUpdate ==
    ASSUME NEW p, NEW c, NEW e, c \in DOMAIN p => e.shift = p[c].shift,
           NEW q, q = [p EXCEPT ![c] = e]
    PROVE  SamePlaces(p, q)
  BY DEF SamePlaces

LEMMA BeginSamePlaces ==
    ASSUME NEW c
    PROVE  SamePlaces(mChunkPool, MeshBegin(c))
<1> DEFINE e == [mChunkPool[c] EXCEPT !.mVerts = Started(mChunkPool[c])]
<1>1. MeshBegin(c) = [mChunkPool EXCEPT ![c] = e] BY DEF MeshBegin
<1>2. e.shift = mChunkPool[c].shift OBVIOUS
<1> HIDE DEF e
<1> QED BY <1>1, <1>2, SamePlacesUpdate

LEMMA EndSamePlaces ==
    ASSUME NEW c, NEW seen
    PROVE  SamePlaces(mChunkPool, MeshEnd(c, seen))
<1> DEFINE e == [mChunkPool[c] EXCEPT !.mVerts = [done |-> TRUE, of |-> seen],
                                      !.mState = "Generated"]
<1>1. MeshEnd(c, seen) = [mChunkPool EXCEPT ![c] = e] BY DEF MeshEnd
<1>2. e.shift = mChunkPool[c].shift OBVIOUS
<1> HIDE DEF e
<1> QED BY <1>1, <1>2, SamePlacesUpdate

(* What a step keeps that moves no chunk, slot or loop.                    *)
LEMMA SlotsKept ==
    ASSUME PlaceInv,
           UNCHANGED <<mChunks, mTerrainMeshArray, mCurrentChunk, walk>>,
           SamePlaces(mChunkPool, mChunkPool'), InPass' = InPass,
           at' \in {"reset", "push"} => at \in {"reset", "push"}
    PROVE  (WalkOK /\ SlotsOK /\ FilledOK)'
<1> USE DEF PlaceInv, SamePlaces
<1>1. WalkOK' BY DEF WalkOK
<1>2. SlotsOK' BY DEF SlotsOK
<1>3. Here' = Here BY DEF Here, Offset
<1>4. ASSUME NEW n, Shown(n) PROVE Shown(n)'
  BY <1>4 DEF Shown
<1>5. FilledOK' BY <1>3, <1>4 DEF FilledOK
<1> QED BY <1>1, <1>2, <1>5

-----------------------------------------------------------------------------
LEMMA StartPlace ==
    ASSUME NEW w, w = RingStart(0, 0)
    PROVE  /\ w.i = 0 /\ w.j = 0 /\ w.chunkIndex = 0
           /\ w.j \in 0 .. ChunksInRadius(w.i) - 1
           /\ w = WalkAt(w.i, w.j, Before(w.i) + w.j)
<1>1. w = WalkAt(0, 0, 0) BY RingStartAt
<1>2. w.i = 0 /\ w.j = 0 /\ w.chunkIndex = 0 BY <1>1 DEF WalkAt
<1>3. Before(0) + 0 = 0 /\ 0 \in 0 .. ChunksInRadius(0) - 1
  BY DEF Before, ChunksInRadius
<1> QED BY <1>1, <1>2, <1>3

LEMMA PlaceInit == Init => PlaceInv
<1> SUFFICES ASSUME Init PROVE PlaceInv
  OBVIOUS
<1> USE DEF Init, Q!Init
<1>1. VisibleRadius \in Nat BY TerrainAssumption
<1>3. /\ walk.i = 0 /\ walk.j = 0 /\ walk.chunkIndex = 0
      /\ walk.j \in 0 .. ChunksInRadius(walk.i) - 1
      /\ walk = WalkAt(walk.i, walk.j, Before(walk.i) + walk.j)
  <2>1. walk = RingStart(0, 0) OBVIOUS
  <2> QED BY <2>1, StartPlace
<1>4. WalkOK
  <2>1. InPass BY DEF InPass
  <2> QED BY <1>1, <1>3, <2>1 DEF WalkOK
<1>5. SlotsOK BY DEF SlotsOK
<1>6. \A p \in ChunkKey : ~ Seen(p, 0, 0)
  BY DEF Seen, Norm, AbsOf, ChunkKey
<1>7. FilledOK BY <1>3, <1>6 DEF FilledOK
<1>8. LoopsOK BY SlotCount DEF LoopsOK
<1> QED BY <1>4, <1>5, <1>7, <1>8 DEF PlaceInv

(* The player moves: the pass starts over with no slot shown.              *)
LEMMA MovePlaces ==
    ASSUME PlaceInv, Move
    PROVE  PlaceInv'
<1> USE DEF PlaceInv, Move, At
<1>1. VisibleRadius \in Nat BY TerrainAssumption
<1>2. at' = "slot" OBVIOUS
<1>3. /\ walk'.i = 0 /\ walk'.j = 0 /\ walk'.chunkIndex = 0
      /\ walk'.j \in 0 .. ChunksInRadius(walk'.i) - 1
      /\ walk' = WalkAt(walk'.i, walk'.j, Before(walk'.i) + walk'.j)
  <2>1. walk' = RingStart(0, 0) OBVIOUS
  <2> QED BY <2>1, StartPlace
<1>4. WalkOK'
  BY <1>1, <1>2, <1>3 DEF WalkOK, InPass
<1>5. SlotsOK' BY DEF SlotsOK
<1>6. \A p \in ChunkKey : ~ Seen(p, 0, 0)
  BY DEF Seen, Norm, AbsOf, ChunkKey
<1>7. FilledOK' BY <1>2, <1>3, <1>6 DEF FilledOK
<1>8. LoopsOK' BY DEF LoopsOK, queueVars
<1> QED BY <1>4, <1>5, <1>7, <1>8

(* The chunk is there, and its slot is written: nothing else changes.      *)
LEMMA VisitPlaces ==
    ASSUME IInv, PlaceInv, VisitNeedsGeneration
    PROVE  PlaceInv'
<1> USE DEF PlaceInv, VisitNeedsGeneration, At
<1>1. /\ walk.chunkIndex \in Slots /\ walk.chunkIndex \in Nat
      /\ InPass /\ InPass' /\ at' = "reset"
  BY WalkPoint DEF InPass
<1>2. UNCHANGED <<walk, mCurrentChunk, mTerrainMeshArray>> /\ Here' = Here
  BY DEF Here, Offset
<1>3. /\ DOMAIN mChunkPool' = DOMAIN mChunkPool \cup {Here}
      /\ SamePlaces(mChunkPool, mChunkPool')
  <2>1. Here \in ChunkKey BY HereTyped DEF IInv, WorkInv
  <2>2. PoolOK(mChunkPool) /\ mChunkPool' = QueuedAgain(Here)
    BY DEF IInv, WorkInv
  <2> QED BY <2>1, <2>2, QueuedAgainKeeps DEF SamePlaces
<1>4. /\ mChunks' \in [Slots -> DOMAIN mChunkPool' \cup {NoChunk}]
      /\ mChunks'[walk.chunkIndex] = Here
      /\ \A n \in Slots : n # walk.chunkIndex => mChunks'[n] = mChunks[n]
  BY <1>1, <1>3 DEF SlotsOK
<1>5. WalkOK' BY <1>1, <1>2 DEF WalkOK
<1>6. SlotsOK' BY <1>2, <1>3, <1>4 DEF SlotsOK
<1>7. ASSUME NEW n \in 0 .. walk.chunkIndex - 1
      PROVE  n \in Slots /\ mChunks'[n] = mChunks[n]
  BY <1>1, <1>4, SlotCount DEF Slots
<1>8. ASSUME NEW n \in 0 .. walk.chunkIndex - 1, Shown(n) PROVE Shown(n)'
  BY <1>2, <1>3, <1>7, <1>8 DEF Shown, SamePlaces
<1>9. FilledOK' BY <1>2, <1>4, <1>7, <1>8 DEF FilledOK
<1>10. LoopsOK' BY <1>3 DEF LoopsOK, queueVars, SamePlaces
<1> QED BY <1>5, <1>6, <1>9, <1>10

(* The end of the loop body: the chunk of this slot is in its place, the   *)
(* others stay in theirs since none of them is the same chunk.             *)
LEMMA PlacePlaces ==
    ASSUME IInv, PlaceInv, InPass, Here \in DOMAIN mChunkPool,
           mChunks' = [mChunks EXCEPT ![walk.chunkIndex] = Here],
           Place(mChunkPool), UNCHANGED mCurrentChunk
    PROVE  (WalkOK /\ SlotsOK /\ FilledOK)' /\ DOMAIN mChunkPool' = DOMAIN mChunkPool
<1> DEFINE i == walk.i
           k == walk.j
           slot == walk.chunkIndex
           p == RingPoint(i, k)
<1> USE DEF PlaceInv
<1>1. /\ VisibleRadius \in Nat /\ i \in 0 .. VisibleRadius /\ i \in Nat
      /\ k \in 0 .. ChunksInRadius(i) - 1
      /\ walk = WalkAt(i, k, Before(i) + k)
  BY TerrainAssumption DEF WalkOK
<1>2. /\ Offset = p /\ p \in ChunkKey /\ slot \in Nat /\ slot \in Slots
      /\ slot = Before(i) + k /\ mCurrentChunk \in ChunkKey
      /\ Here = Plus(mCurrentChunk, p)
  BY WalkPoint DEF IInv, WorkInv, PlacesOK, Here
<1>3. /\ walk'.i = IF k + 1 < ChunksInRadius(i) THEN i ELSE i + 1
      /\ walk'.j = IF k + 1 < ChunksInRadius(i) THEN k + 1 ELSE 0
      /\ walk'.i \in Nat /\ walk'.j \in 0 .. ChunksInRadius(walk'.i) - 1
      /\ walk'.chunkIndex = slot + 1
      /\ walk' = WalkAt(walk'.i, walk'.j, Before(walk'.i) + walk'.j)
  <2>1. walk' = NextSlot(WalkAt(i, k, Before(i) + k))
    BY <1>1 DEF Place
  <2>2. i \in Nat /\ k \in 0 .. ChunksInRadius(i) - 1 /\ slot = Before(i) + k
    BY <1>1, <1>2
  <2> HIDE DEF i, k, slot
  <2> QED BY <2>1, <2>2, NextSlotFollows
<1>4. at' = IF walk'.i <= VisibleRadius THEN "slot" ELSE "spawn"
  BY DEF Place
<1>5. /\ DOMAIN mChunkPool' = DOMAIN mChunkPool
      /\ mChunkPool'[Here].shift = p
      /\ \A c \in DOMAIN mChunkPool : c # Here => mChunkPool'[c] = mChunkPool[c]
  <2>1. mChunkPool' = [mChunkPool EXCEPT ![Here] =
                         [mChunkPool[Here] EXCEPT !.shift = p]]
    BY <1>2 DEF Place, Shift
  <2>2. mChunkPool[Here] \in ChunkType BY DEF IInv, WorkInv, PoolOK
  <2> HIDE DEF p
  <2>3. [mChunkPool[Here] EXCEPT !.shift = p].shift = p BY <2>2 DEF ChunkType
  <2> QED BY <2>1, <2>3
<1>6. \A q \in ChunkKey : Seen(q, walk'.i, walk'.j) <=> Seen(q, i, k) \/ q = p
  BY <1>1, <1>3, SeenNext DEF ChunkKey
<1>7. ~ Seen(p, i, k) BY <1>1, SeenIsNew
<1>8. /\ mChunks'[slot] = Here /\ mTerrainMeshArray'[slot] = Here
      /\ \A n \in Slots : n # slot =>
            mChunks'[n] = mChunks[n] /\ mTerrainMeshArray'[n] = mTerrainMeshArray[n]
      /\ SlotsOK'
  <2>1. mTerrainMeshArray' = [mTerrainMeshArray EXCEPT ![slot] = Here]
    BY DEF Place
  <2>2. mChunks' = [mChunks EXCEPT ![slot] = Here] OBVIOUS
  <2> HIDE DEF slot
  <2> QED BY <1>2, <1>5, <2>1, <2>2 DEF SlotsOK
<1>9. WalkOK'
  <2>1. InPass' <=> walk'.i <= VisibleRadius BY <1>4 DEF InPass
  <2> HIDE DEF i, k, slot, p
  <2>2. walk'.i \in 0 .. VisibleRadius + 1 BY <1>1, <1>3
  <2>3. walk'.i > VisibleRadius => walk'.i = VisibleRadius + 1 /\ walk'.j = 0
    BY <1>1, <1>3
  <2> QED BY <1>1, <1>3, <2>1, <2>2, <2>3 DEF WalkOK
<1>10. \A n \in 0 .. slot - 1 : Shown(n) /\ n \in Slots /\ n # slot
  <2>1. \A n \in 0 .. slot - 1 : n \in Slots /\ n # slot
    BY <1>2, SlotCount DEF Slots
  <2> QED BY <2>1 DEF FilledOK
<1>11. \A n \in 0 .. slot : n \in 0 .. slot - 1 \/ n = slot
  BY <1>2
<1>12. 0 .. slot - 1 \subseteq 0 .. slot /\ slot \in 0 .. slot
       /\ 0 .. walk'.chunkIndex - 1 = 0 .. slot
  BY <1>2, <1>3
<1>13. \A q \in ChunkKey : Seen(q, i, k) =>
          \E n \in 0 .. slot - 1 : mChunks[n] = Plus(mCurrentChunk, q)
  BY DEF FilledOK
<1>14. at' \notin {"reset", "push"}
  BY <1>4
<1>15. ASSUME NEW n \in 0 .. slot - 1
       PROVE  Shown(n)'
  <2> DEFINE c == mChunks[n]
  <2>1. /\ mTerrainMeshArray[n] = c /\ c \in DOMAIN mChunkPool
        /\ mChunkPool[c].shift \in ChunkKey
        /\ Seen(mChunkPool[c].shift, i, k)
        /\ c = Plus(mCurrentChunk, mChunkPool[c].shift)
    BY <1>10 DEF Shown
  <2>2. mChunks'[n] = c /\ mTerrainMeshArray'[n] = c
    BY <1>8, <1>10, <2>1
  <2> HIDE DEF c, i, k, slot
  <2>3. mChunkPool[c].shift # p
    BY <1>7, <2>1
  <2> HIDE DEF p
  <2>4. c # Here
    BY <1>2, <2>1, <2>3, PlusInjective
  <2>5. mChunkPool'[c] = mChunkPool[c] /\ c \in DOMAIN mChunkPool'
    BY <1>5, <2>1, <2>4
  <2>6. Seen(mChunkPool[c].shift, walk'.i, walk'.j)
    BY <1>6, <2>1
  <2> QED BY <2>1, <2>2, <2>5, <2>6 DEF Shown
<1> HIDE DEF i, k, p, slot
<1>16. ASSUME NEW n, n = slot
       PROVE  Shown(n)'
  <2>1. Seen(p, walk'.i, walk'.j) BY <1>2, <1>6
  <2>2. /\ mChunks'[slot] = Here /\ mTerrainMeshArray'[slot] = Here
        /\ Here \in DOMAIN mChunkPool' /\ mChunkPool'[Here].shift = p
        /\ Here = Plus(mCurrentChunk', p)
    BY <1>2, <1>5, <1>8
  <2> QED BY <1>2, <1>16, <2>1, <2>2 DEF Shown
<1>17. ASSUME NEW q \in ChunkKey, Seen(q, walk'.i, walk'.j)
       PROVE  \E n \in 0 .. slot : mChunks'[n] = Plus(mCurrentChunk, q)
  <2>1. CASE q = p BY <2>1, <1>2, <1>8, <1>12
  <2>2. CASE Seen(q, i, k)
    <3>1. PICK n \in 0 .. slot - 1 : mChunks[n] = Plus(mCurrentChunk, q)
      BY <2>2, <1>13
    <3> QED BY <3>1, <1>8, <1>10, <1>12
  <2> QED BY <1>6, <1>17, <2>1, <2>2
<1>18. FilledOK'
  <2>1. \A n \in 0 .. walk'.chunkIndex - 1 : Shown(n)'
    <3> SUFFICES ASSUME NEW n \in 0 .. slot PROVE Shown(n)'
      BY <1>12
    <3> QED BY <1>11, <1>15, <1>16
  <2>2. \A q \in ChunkKey : Seen(q, walk'.i, walk'.j) =>
           \E n \in 0 .. walk'.chunkIndex - 1 : mChunks'[n] = Plus(mCurrentChunk', q)
    BY <1>12, <1>17
  <2> QED BY <2>1, <2>2, <1>14 DEF FilledOK
<1> QED BY <1>5, <1>8, <1>9, <1>18
-----------------------------------------------------------------------------
(* The other steps of Main.                                                *)
LEMMA ResetPlaces ==
    ASSUME PlaceInv, ResetState
    PROVE  PlaceInv'
<1> USE DEF ResetState, At
<1>1. UNCHANGED <<mChunks, mTerrainMeshArray, mCurrentChunk, walk, cursor, rayChunk, mMutex>>
  BY DEF sceneVars
<1>2. InPass' = InPass BY DEF InPass
<1> DEFINE e == [mChunkPool[Here] EXCEPT !.mState = "NotGenerated", !.mLocked = TRUE]
<1>3. e.shift = mChunkPool[Here].shift OBVIOUS
<1>4. mChunkPool' = [mChunkPool EXCEPT ![Here] = e] OBVIOUS
<1> HIDE DEF e
<1>5. SamePlaces(mChunkPool, mChunkPool') BY <1>3, <1>4, SamePlacesUpdate
<1>6. (WalkOK /\ SlotsOK /\ FilledOK)' BY <1>1, <1>2, <1>5, SlotsKept
<1>7. LoopsOK' BY <1>1, <1>5 DEF PlaceInv, LoopsOK, SamePlaces
<1> QED BY <1>6, <1>7 DEF PlaceInv

LEMMA VisitGeneratedPlaces ==
    ASSUME IInv, PlaceInv, VisitGenerated
    PROVE  PlaceInv'
<1> USE DEF VisitGenerated
<1>1. (WalkOK /\ SlotsOK /\ FilledOK)' /\ DOMAIN mChunkPool' = DOMAIN mChunkPool
  BY PlacePlaces DEF InPass
<1>2. LoopsOK' BY <1>1 DEF PlaceInv, LoopsOK, queueVars
<1> QED BY <1>1, <1>2 DEF PlaceInv

LEMMA PushPlaces ==
    ASSUME IInv, PlaceInv, PushGenerate
    PROVE  PlaceInv'
<1> USE DEF PushGenerate
<1>1. InPass /\ Here \in DOMAIN mChunkPool /\ mChunks[walk.chunkIndex] = Here
  BY DEF InPass, IInv, WorkInv, PushOK, PlaceInv, FilledOK
<1>2. mChunks' = [mChunks EXCEPT ![walk.chunkIndex] = Here]
  <2>1. mChunks = [mChunks EXCEPT ![walk.chunkIndex] = Here]
    BY <1>1 DEF PlaceInv, SlotsOK
  <2> QED BY <2>1
<1>3. (WalkOK /\ SlotsOK /\ FilledOK)' /\ DOMAIN mChunkPool' = DOMAIN mChunkPool
  BY <1>1, <1>2, PlacePlaces
<1>4. LoopsOK' BY <1>3 DEF PlaceInv, LoopsOK, Q!Push
<1> QED BY <1>3, <1>4 DEF PlaceInv

LEMMA SpawnPlaces ==
    ASSUME PlaceInv, Spawn
    PROVE  PlaceInv'
<1> USE DEF Spawn, At
<1>1. UNCHANGED <<mChunks, mTerrainMeshArray, mCurrentChunk, walk, cursor, rayChunk,
                  mMutex, mChunkPool>>
  BY DEF sceneVars
<1>2. InPass' = InPass BY DEF InPass
<1>3. SamePlaces(mChunkPool, mChunkPool') BY <1>1 DEF SamePlaces
<1>4. (WalkOK /\ SlotsOK /\ FilledOK)' BY <1>1, <1>2, <1>3, SlotsKept
<1>5. LoopsOK' BY <1>1 DEF PlaceInv, LoopsOK
<1> QED BY <1>4, <1>5 DEF PlaceInv

(* A chunk that Main writes to stays where it is drawn.                    *)
LEMMA MainSamePlaces ==
    ASSUME CommitUpload \/ CommitStore \/ PickVoxel \/ Remesh \/ RemeshEnd
    PROVE  SamePlaces(mChunkPool, mChunkPool')
<1>1. CASE CommitUpload
  <2> DEFINE c == mChunks[cursor]
             v == mChunkPool[c].mVerts
             e == [mChunkPool[c] EXCEPT !.vbo = IF v.done THEN v.of ELSE "torn"]
  <2>1. mChunkPool' = [mChunkPool EXCEPT ![c] = e] BY <1>1 DEF CommitUpload
  <2>2. e.shift = mChunkPool[c].shift OBVIOUS
  <2> HIDE DEF e
  <2> QED BY <2>1, <2>2, SamePlacesUpdate
<1>2. CASE CommitStore
  <2> DEFINE c == mChunks[cursor]
             e == [mChunkPool[c] EXCEPT !.mState = "Updated", !.mLocked = FALSE]
  <2>1. mChunkPool' = [mChunkPool EXCEPT ![c] = e]
    BY <1>2 DEF CommitStore, SetUpdated
  <2>2. e.shift = mChunkPool[c].shift OBVIOUS
  <2> HIDE DEF e
  <2> QED BY <2>1, <2>2, SamePlacesUpdate
<1>3. CASE PickVoxel
  <2> DEFINE e == [mChunkPool[rayChunk'] EXCEPT !.mVoxels = "edited"]
  <2>1. mChunkPool' = [mChunkPool EXCEPT ![rayChunk'] = e] BY <1>3 DEF PickVoxel
  <2>2. e.shift = mChunkPool[rayChunk'].shift OBVIOUS
  <2> HIDE DEF e
  <2> QED BY <2>1, <2>2, SamePlacesUpdate
<1>4. CASE Remesh BY <1>4, BeginSamePlaces DEF Remesh
<1>5. CASE RemeshEnd BY <1>5, EndSamePlaces DEF RemeshEnd
<1> QED BY <1>1, <1>2, <1>3, <1>4, <1>5

LEMMA FramePlaces ==
    ASSUME PlaceInv,
           \/ Stay \/ CommitSkip \/ CommitTest \/ CommitUpload \/ CommitStore
           \/ PickNothing \/ PickVoxel \/ Remesh \/ RemeshEnd \/ Draw
    PROVE  PlaceInv'
<1> USE DEF At, NextCursor
<1>1. /\ UNCHANGED <<mChunks, mTerrainMeshArray, mCurrentChunk, walk, mMutex>>
      /\ ~ InPass /\ ~ InPass'
  BY DEF Stay, CommitSkip, CommitTest, CommitUpload, CommitStore, PickNothing,
     PickVoxel, Remesh, RemeshEnd, Draw, InPass, sceneVars, queueVars
<1>2. SamePlaces(mChunkPool, mChunkPool')
  <2>1. CASE CommitUpload \/ CommitStore \/ PickVoxel \/ Remesh \/ RemeshEnd
    BY <2>1, MainSamePlaces
  <2>2. CASE Stay \/ CommitSkip \/ CommitTest \/ PickNothing \/ Draw
    <3>1. UNCHANGED mChunkPool
      BY <2>2 DEF Stay, CommitSkip, CommitTest, PickNothing, Draw
    <3> QED BY <3>1 DEF SamePlaces
  <2> QED BY <2>1, <2>2
<1>3. (WalkOK /\ SlotsOK /\ FilledOK)'
  BY <1>1, <1>2, SlotsKept DEF InPass
<1>4. cursor' \in Slots
  <2>1. CASE CommitSkip \/ CommitStore
    <3>1. cursor' = (cursor + 1) % mChunkCount
      BY <2>1 DEF CommitSkip, CommitStore
    <3>2. cursor \in Nat BY DEF PlaceInv, LoopsOK, Slots
    <3>3. \A m, n \in Nat : n > 0 => m % n \in 0 .. n - 1
      OBVIOUS
    <3> QED BY <3>1, <3>2, <3>3, SlotCount DEF Slots
  <2>2. CASE ~ (CommitSkip \/ CommitStore)
    <3>1. UNCHANGED cursor
      BY <2>2 DEF Stay, CommitTest, CommitUpload, PickNothing, PickVoxel, Remesh,
         RemeshEnd, Draw
    <3> QED BY <3>1 DEF PlaceInv, LoopsOK
  <2> QED BY <2>1, <2>2
<1>5. rayChunk' \in DOMAIN mChunkPool \cup {NoChunk}
  <2>1. CASE PickVoxel
    <3>1. PICK n \in 0 .. 3 : rayChunk' = mChunks[n]
      BY <2>1 DEF PickVoxel, Pickable, PickedSlots
    <3>2. walk.chunkIndex = Total(VisibleRadius)
      <4>1. /\ walk = WalkAt(VisibleRadius + 1, 0, Before(VisibleRadius + 1) + 0)
            /\ VisibleRadius \in Nat
        BY <1>1, TerrainAssumption DEF PlaceInv, WalkOK
      <4>2. walk.chunkIndex = Before(VisibleRadius + 1) + 0
        BY <4>1, WalkAtFields
      <4>3. Before(VisibleRadius + 1) = Total(VisibleRadius)
        BY <4>1 DEF Before
      <4>4. Total(VisibleRadius) \in Nat BY <4>1, TotalStep
      <4> QED BY <4>2, <4>3, <4>4
    <3>3. n \in 0 .. walk.chunkIndex - 1
      BY <3>2, SlotCount
    <3> QED BY <3>1, <3>3 DEF PlaceInv, FilledOK, Shown
  <2>2. CASE ~ PickVoxel
    <3>1. rayChunk' = rayChunk \/ rayChunk' = NoChunk
      BY <2>2 DEF Stay, CommitSkip, CommitTest, CommitUpload, CommitStore,
         PickNothing, Remesh, RemeshEnd, Draw
    <3> QED BY <3>1 DEF PlaceInv, LoopsOK
  <2> QED BY <2>1, <2>2
<1>6. LoopsOK'
  BY <1>1, <1>2, <1>4, <1>5 DEF PlaceInv, LoopsOK, SamePlaces, Slots
<1> QED BY <1>3, <1>6 DEF PlaceInv

-----------------------------------------------------------------------------
(* A generator writes to chunks and the queue, and moves nothing.          *)
LEMMA GeneratorPlaces ==
    ASSUME PlaceInv, NEW g \in Generators, GeneratorNext(g)
    PROVE  PlaceInv'
<1> USE DEF InGenerate
<1>1. UNCHANGED <<mChunks, mTerrainMeshArray, mCurrentChunk, walk, cursor, rayChunk, at>>
  BY DEF GeneratorNext, InQueue, GenerateCoord, GenerateFill, GenerateMesh,
     GenerateStore, mainVars, sceneVars
<1>2. SamePlaces(mChunkPool, mChunkPool')
  <2> DEFINE c == task[g].chunk
  <2>1. CASE InQueue(g) BY <2>1 DEF InQueue, SamePlaces
  <2>2. CASE GenerateCoord(g)
    <3> DEFINE e == [mChunkPool[c] EXCEPT !.mCoord = CoordOf(task[g]),
                                          !.mVoxels = "filling"]
    <3>1. mChunkPool' = [mChunkPool EXCEPT ![c] = e] BY <2>2 DEF GenerateCoord
    <3>2. e.shift = mChunkPool[c].shift OBVIOUS
    <3> HIDE DEF e
    <3> QED BY <3>1, <3>2, SamePlacesUpdate
  <2>3. CASE GenerateFill(g)
    <3> DEFINE e == [mChunkPool[c] EXCEPT !.mVoxels = "terrain"]
    <3>1. mChunkPool' = [mChunkPool EXCEPT ![c] = e] BY <2>3 DEF GenerateFill
    <3>2. e.shift = mChunkPool[c].shift OBVIOUS
    <3> HIDE DEF e
    <3> QED BY <3>1, <3>2, SamePlacesUpdate
  <2>4. CASE GenerateMesh(g) BY <2>4, BeginSamePlaces DEF GenerateMesh
  <2>5. CASE GenerateStore(g) BY <2>5, EndSamePlaces DEF GenerateStore
  <2> QED BY <2>1, <2>2, <2>3, <2>4, <2>5 DEF GeneratorNext
<1>3. (WalkOK /\ SlotsOK /\ FilledOK)'
  BY <1>1, <1>2, SlotsKept DEF InPass
<1>4. mMutex' \in Generators \cup {NoThread}
  BY DEF PlaceInv, LoopsOK, GeneratorNext, InQueue, GenerateCoord, GenerateFill,
     GenerateMesh, GenerateStore, queueVars, Q!EmptyWaitLock, Q!EmptyWaitTake,
     Q!EmptyWaitReturn, Q!EmptyWaitTaskDone
<1>5. LoopsOK' BY <1>1, <1>2, <1>4 DEF PlaceInv, LoopsOK, SamePlaces
<1> QED BY <1>3, <1>5 DEF PlaceInv

LEMMA PlaceStep == IInv /\ PlaceInv /\ [Next]_vars => PlaceInv'
<1> SUFFICES ASSUME IInv, PlaceInv, [Next]_vars PROVE PlaceInv'
  OBVIOUS
<1>1. CASE UNCHANGED vars
  <2> USE <1>1 DEF vars, sceneVars, queueVars
  <2>1. SamePlaces(mChunkPool, mChunkPool') BY DEF SamePlaces
  <2>2. (WalkOK /\ SlotsOK /\ FilledOK)' BY <2>1, SlotsKept DEF InPass
  <2>3. LoopsOK' BY DEF PlaceInv, LoopsOK
  <2> QED BY <2>2, <2>3 DEF PlaceInv
<1>2. CASE MainNext
  BY <1>2, MovePlaces, VisitGeneratedPlaces, VisitPlaces, ResetPlaces, PushPlaces,
     SpawnPlaces, FramePlaces DEF MainNext
<1>3. CASE \E g \in Generators : GeneratorNext(g)
  BY <1>3, GeneratorPlaces
<1> QED BY <1>1, <1>2, <1>3 DEF Next

LEMMA PlaceInvariant == Spec => [](IInv /\ PlaceInv)
<1>1. IInv /\ PlaceInv /\ [Next]_vars => (IInv /\ PlaceInv)'
  BY StepInv, PlaceStep
<1> QED BY InitInv, PlaceInit, <1>1, PTL DEF Spec

-----------------------------------------------------------------------------
(* All variables keep their types: every slot holds a chunk of the pool or *)
(* none, and Update's loops stay inside the arrays.                        *)
THEOREM TypeCorrect == Spec => []TypeOK
<1>1. IInv /\ PlaceInv => TypeOK
  <2> SUFFICES ASSUME IInv, PlaceInv PROVE TypeOK
    OBVIOUS
  <2>1. /\ DOMAIN mChunkPool \subseteq ChunkKey
        /\ \A c \in DOMAIN mChunkPool : mChunkPool[c] \in ChunkType
    BY DEF IInv, WorkInv, PoolOK
  <2>2. \A n \in Slots : {mChunks[n], mTerrainMeshArray[n]}
                            \subseteq DOMAIN mChunkPool \cup {NoChunk}
    BY DEF PlaceInv, SlotsOK
  <2>3. /\ mList \in Seq(Tasks)
        /\ \A g \in Generators : stage[g] \in {"coord", "fill", "mesh", "store"}
    BY DEF IInv, WorkInv, QueueOK, ThreadsOK
  <2> QED BY <2>1, <2>2, <2>3 DEF PlaceInv, LoopsOK, TypeOK
<1> QED BY <1>1, PlaceInvariant, PTL

(* Renderer::Draw finds in its slots exactly the chunks around the player, *)
(* each translated to its place, whatever the player did.                  *)
THEOREM DrawnInPlace == Spec => []DrawnMeshesInPlace
<1>1. IInv /\ PlaceInv => DrawnMeshesInPlace
  <2> SUFFICES ASSUME IInv, PlaceInv, at = "draw"
               PROVE  DrawnMeshesInPlace
    BY DEF DrawnMeshesInPlace
  <2> USE DEF PlaceInv
  <2>1. VisibleRadius \in Nat BY TerrainAssumption
  <2>2. /\ walk.i = VisibleRadius + 1 /\ walk.j = 0
        /\ walk = WalkAt(VisibleRadius + 1, 0, Before(VisibleRadius + 1) + 0)
    BY DEF WalkOK, InPass
  <2>3. walk.chunkIndex = Total(VisibleRadius)
    <3>1. walk.chunkIndex = Before(VisibleRadius + 1) + 0
      BY <2>2, WalkAtFields
    <3>2. Before(VisibleRadius + 1) = Total(VisibleRadius)
      BY <2>1 DEF Before
    <3>3. Total(VisibleRadius) \in Nat BY <2>1, TotalStep
    <3> QED BY <3>1, <3>2, <3>3
  <2>4. 0 .. walk.chunkIndex - 1 = Slots
    BY <2>3, SlotCount
  <2>5. \A n \in Slots : Shown(n)
    BY <2>4 DEF FilledOK
  <2>6. ASSUME NEW p \in ChunkKey
        PROVE  Seen(p, walk.i, walk.j) <=>
                  /\ p \in (-VisibleRadius .. VisibleRadius) \X (-VisibleRadius .. VisibleRadius)
                  /\ Norm(p) <= VisibleRadius
    <3>1. Seen(p, walk.i, walk.j) <=> Norm(p) < VisibleRadius + 1
      BY <2>2 DEF Seen
    <3>2. p[1] \in Int /\ p[2] \in Int /\ p = <<p[1], p[2]>>
      BY DEF ChunkKey
    <3>3. Norm(p) \in Nat
      BY <3>2 DEF Norm, AbsOf
    <3>4. Norm(p) <= VisibleRadius =>
             /\ p[1] \in -VisibleRadius .. VisibleRadius
             /\ p[2] \in -VisibleRadius .. VisibleRadius
      BY <2>1, <3>2 DEF Norm, AbsOf
    <3> QED BY <2>1, <3>1, <3>2, <3>3, <3>4
  <2>7. {mTerrainMeshArray[n] : n \in Slots} = Visible
    <3>1. ASSUME NEW n \in Slots PROVE mTerrainMeshArray[n] \in Visible
      BY <2>5, <2>6 DEF Shown, Visible
    <3>2. ASSUME NEW c \in Visible
          PROVE  \E n \in Slots : mTerrainMeshArray[n] = c
      <4>1. PICK p \in (-VisibleRadius .. VisibleRadius) \X (-VisibleRadius .. VisibleRadius) :
                c = Plus(mCurrentChunk, p) /\ Norm(p) <= VisibleRadius
        BY DEF Visible
      <4>2. p \in ChunkKey BY <2>1 DEF ChunkKey
      <4>3. PICK n \in 0 .. walk.chunkIndex - 1 : mChunks[n] = Plus(mCurrentChunk, p)
        BY <2>6, <4>1, <4>2 DEF FilledOK
      <4> QED BY <2>4, <2>5, <4>1, <4>3 DEF Shown
    <3> QED BY <3>1, <3>2
  <2>8. \A n \in Slots :
           /\ mTerrainMeshArray[n] = mChunks[n]
           /\ Plus(mCurrentChunk, mChunkPool[mChunks[n]].shift) = mChunks[n]
    BY <2>5 DEF Shown
  <2> QED BY <2>7, <2>8 DEF DrawnMeshesInPlace
<1> QED BY <1>1, PlaceInvariant, PTL

-----------------------------------------------------------------------------
(* A chunk that no pass has found waiting and queued again is generated    *)
(* once.  OnceInv is of such chunks, which nobody but the one who has them *)
(* in hand writes to; of a chunk queued again it says little.              *)
Once(c) == c \in DOMAIN mChunkPool /\ ~ mChunkPool[c].again

(* A chunk whose generation has come to stage s.                           *)
AtStage(k, s) ==
    /\ k.mState = "NotGenerated" /\ k.mLocked /\ k.vbo = "none"
    /\ k.mVoxels = IF s = "coord" THEN "air" ELSE IF s = "fill" THEN "filling"
                                             ELSE "terrain"
    /\ k.mVerts = IF s = "store" THEN [done |-> FALSE, of |-> "terrain"]
                                 ELSE [done |-> TRUE, of |-> "none"]

Good == {"terrain", "edited"}

(* One that was generated, and not picked since or meshed again.           *)
Finished(k) == /\ k.mVoxels \in Good
               /\ k.mVerts = [done |-> TRUE, of |-> k.mVoxels]
               /\ k.mState = "Updated" => k.vbo = k.mVoxels
               /\ ~ k.mLocked => k.vbo \in Good

(* One that Main has picked, and is meshing again.                         *)
Edited(k, place) == /\ k.mVoxels = "edited"
                    /\ place = "remesh" => k.mVerts.done /\ k.mVerts.of \in Good
                    /\ place = "remeshed" => k.mVerts = [done |-> FALSE, of |-> "edited"]
                    /\ ~ k.mLocked => k.vbo \in Good

Editing(c) == at \in {"remesh", "remeshed"} /\ c = rayChunk

LockOK == \A g \in Generators :
             pc[g] \in {"EmptyWait_loop", "EmptyWait_run"} => mMutex = g

ListOK == \A n \in 1 .. Len(mList) : Once(mList[n].chunk) =>
             /\ AtStage(mChunkPool[mList[n].chunk], "coord")
             /\ \A m \in 1 .. Len(mList) : mList[m].chunk = mList[n].chunk => m = n

RunOK == \A g \in Generators : Running(g) /\ Once(task[g].chunk) =>
            /\ AtStage(mChunkPool[task[g].chunk], stage[g])
            /\ \A n \in 1 .. Len(mList) : mList[n].chunk # task[g].chunk

NextOK == at \in {"reset", "push"} /\ Once(Here) =>
             AtStage(mChunkPool[Here], "coord") /\ Here \notin TaskedChunks

MadeOK == \A c \in DOMAIN mChunkPool : Once(c) /\ ~ NeedsGeneration(c) =>
             IF Editing(c) THEN Edited(mChunkPool[c], at) ELSE Finished(mChunkPool[c])

FrameOK == /\ at \in {"upload", "commitStore"} =>
                 /\ mChunks[cursor] \in DOMAIN mChunkPool
                 /\ Once(mChunks[cursor]) => IsGenerated(mChunks[cursor])
           /\ at = "commitStore" /\ Once(mChunks[cursor]) =>
                 mChunkPool[mChunks[cursor]].vbo = mChunkPool[mChunks[cursor]].mVoxels
           /\ at \in {"remesh", "remeshed"} =>
                 /\ rayChunk \in DOMAIN mChunkPool
                 /\ Once(rayChunk) => ~ NeedsGeneration(rayChunk)

OnceInv == LockOK /\ ListOK /\ RunOK /\ NextOK /\ MadeOK /\ FrameOK

(* A step of the pool that does nothing to chunks that wait, if they are   *)
(* still to be generated once after it.                                    *)
WaitersSame(p, q) ==
    /\ DOMAIN p \subseteq DOMAIN q
    /\ \A c \in DOMAIN p : ~ q[c].again =>
          /\ ~ p[c].again
          /\ p[c].mState = "NotGenerated" =>
                /\ q[c].mState = p[c].mState /\ q[c].mLocked = p[c].mLocked
                /\ q[c].mVoxels = p[c].mVoxels /\ q[c].mVerts = p[c].mVerts
                /\ q[c].vbo = p[c].vbo

(* Tasks, queued or running, are of chunks in the pool.                    *)
LEMMA TasksInPool ==
    ASSUME WorkInv
    PROVE  /\ \A n \in 1 .. Len(mList) : mList[n].chunk \in DOMAIN mChunkPool
           /\ \A g \in Generators : Running(g) => task[g].chunk \in DOMAIN mChunkPool
           /\ TaskedChunks \subseteq DOMAIN mChunkPool
<1>1. /\ \A n \in 1 .. Len(mList) : mList[n].chunk \in DOMAIN mChunkPool
      /\ \A g \in Generators : Running(g) => task[g].chunk \in DOMAIN mChunkPool
  BY DEF WorkInv, QueueOK, RunningOK, CallOK
<1> QED BY <1>1 DEF TaskedChunks, Running

LEMMA StageNeeds ==
    ASSUME NEW c, NEW s, AtStage(mChunkPool[c], s)
    PROVE  NeedsGeneration(c)
  BY DEF AtStage, NeedsGeneration

(* What Main does to the pool and to idle generators leaves the work that  *)
(* is queued or running as it was.                                         *)
LEMMA QueueOnce ==
    ASSUME WorkInv, OnceInv, WaitersSame(mChunkPool, mChunkPool'),
           UNCHANGED <<mList, mMutex>>,
           \A g \in Generators :
              /\ task'[g] = task[g] /\ stage'[g] = stage[g]
              /\ \/ pc'[g] = pc[g]
                 \/ pc[g] = "idle" /\ pc'[g] = "EmptyWait"
    PROVE  LockOK' /\ ListOK' /\ RunOK' /\ TaskedChunks' = TaskedChunks
<1> USE DEF OnceInv
<1>1. LockOK' BY DEF LockOK
<1>2. ASSUME NEW c \in DOMAIN mChunkPool, NEW s, Once(c)',
             AtStage(mChunkPool[c], s)
      PROVE  AtStage(mChunkPool'[c], s)
  BY <1>2 DEF WaitersSame, AtStage, Once
<1>3. \A c \in DOMAIN mChunkPool : Once(c)' => Once(c)
  BY DEF WaitersSame, Once
<1>4. \A g \in Generators : pc'[g] = "EmptyWait_run" <=> pc[g] = "EmptyWait_run"
  OBVIOUS
<1>5. ListOK'
  BY <1>2, <1>3, TasksInPool DEF ListOK
<1>6. RunOK'
  BY <1>2, <1>3, <1>4, TasksInPool DEF RunOK, Running
<1>7. TaskedChunks' = TaskedChunks
  BY <1>4 DEF TaskedChunks
<1> QED BY <1>1, <1>5, <1>6, <1>7

LEMMA OnceInit == Init => OnceInv
<1> SUFFICES ASSUME Init PROVE OnceInv
  OBVIOUS
<1> USE DEF Init, Q!Init, Q!Threads
<1>1. LockOK /\ ListOK /\ RunOK
  BY DEF LockOK, ListOK, RunOK, Running
<1>2. NextOK /\ MadeOK /\ FrameOK
  BY DEF NextOK, MadeOK, FrameOK
<1> QED BY <1>1, <1>2 DEF OnceInv

(* Outside a pass every slot shows a chunk.                                *)
LEMMA AllPlaced ==
    ASSUME PlaceInv, ~ InPass
    PROVE  \A n \in Slots : Shown(n)
<1> USE DEF PlaceInv
<1>1. VisibleRadius \in Nat BY TerrainAssumption
<1>2. walk = WalkAt(VisibleRadius + 1, 0, Before(VisibleRadius + 1) + 0)
  BY DEF WalkOK
<1>3. walk.chunkIndex = Before(VisibleRadius + 1) + 0
  BY <1>2, WalkAtFields
<1>4. Before(VisibleRadius + 1) = Total(VisibleRadius)
  BY <1>1 DEF Before
<1>5. Total(VisibleRadius) \in Nat BY <1>1, TotalStep
<1>6. 0 .. walk.chunkIndex - 1 = Slots
  BY <1>3, <1>4, <1>5, SlotCount
<1> QED BY <1>6 DEF FilledOK

-----------------------------------------------------------------------------
(* The player moves, whatever is queued and running.                       *)
LEMMA MoveOnce ==
    ASSUME WorkInv, OnceInv, Move
    PROVE  OnceInv'
<1> USE DEF Move, At
<1>1. /\ UNCHANGED <<mList, mMutex, pc, task, stage, mChunkPool, rayChunk>>
      /\ at = "frame" /\ at' = "slot"
  BY DEF queueVars
<1>2. WaitersSame(mChunkPool, mChunkPool') BY <1>1 DEF WaitersSame
<1>3. LockOK' /\ ListOK' /\ RunOK' BY <1>1, <1>2, QueueOnce
<1>4. NextOK' /\ FrameOK' BY <1>1 DEF NextOK, FrameOK
<1>5. MadeOK' BY <1>1 DEF OnceInv, MadeOK, Editing, NeedsGeneration, Once
<1> QED BY <1>3, <1>4, <1>5 DEF OnceInv

(* A chunk that needs generation is new to the pool, or from now on one    *)
(* that was queued again.                                                  *)
LEMMA VisitOnce ==
    ASSUME WorkInv, OnceInv, VisitNeedsGeneration
    PROVE  OnceInv'
<1> USE DEF OnceInv, VisitNeedsGeneration, At
<1>1. PoolOK(mChunkPool) /\ Here \in ChunkKey /\ mChunkPool' = QueuedAgain(Here)
  BY HereTyped DEF WorkInv
<1>2. /\ DOMAIN mChunkPool' = DOMAIN mChunkPool \cup {Here}
      /\ \A c \in DOMAIN mChunkPool : c # Here => mChunkPool'[c] = mChunkPool[c]
      /\ Here \in DOMAIN mChunkPool => mChunkPool'[Here].again
      /\ Here \notin DOMAIN mChunkPool => mChunkPool'[Here] = NewChunk
  BY ONLY <1>1, QueuedAgainKeeps
<1>3. /\ UNCHANGED <<walk, mCurrentChunk, rayChunk>> /\ Here' = Here
      /\ at = "slot" /\ at' = "reset"
  BY DEF Here, Offset
<1>4. WaitersSame(mChunkPool, mChunkPool') BY <1>2 DEF WaitersSame
<1>5. LockOK' /\ ListOK' /\ RunOK' /\ TaskedChunks' = TaskedChunks
  <2>1. UNCHANGED <<mList, mMutex, pc, task, stage>> BY DEF queueVars
  <2> QED BY <1>4, <2>1, QueueOnce
<1>6. AtStage(NewChunk, "coord") /\ NewChunk.mState = "NotGenerated"
  BY DEF AtStage, NewChunk
<1>7. \A c \in DOMAIN mChunkPool' : Once(c)' =>
          \/ c = Here /\ Here \notin DOMAIN mChunkPool
          \/ c # Here /\ Once(c) /\ c \in DOMAIN mChunkPool
  BY <1>2 DEF Once
<1>8. NextOK'
  <2>1. Here \notin DOMAIN mChunkPool => Here \notin TaskedChunks BY TasksInPool
  <2> QED BY <1>2, <1>3, <1>5, <1>6, <1>7, <2>1 DEF NextOK
<1>9. MadeOK'
  BY <1>2, <1>3, <1>6, <1>7 DEF MadeOK, NeedsGeneration, Editing
<1>10. FrameOK' BY <1>3 DEF FrameOK
<1> QED BY <1>5, <1>8, <1>9, <1>10

(* ResetState finds a chunk that is new as it sets it.                     *)
LEMMA ResetOnce ==
    ASSUME WorkInv, OnceInv, ResetState
    PROVE  OnceInv'
<1> USE DEF OnceInv, ResetState, At
<1>1. Here \in DOMAIN mChunkPool /\ mChunkPool[Here] \in ChunkType
  BY DEF WorkInv, PushOK, PoolOK
<1> DEFINE e == [mChunkPool[Here] EXCEPT !.mState = "NotGenerated", !.mLocked = TRUE]
<1>2. /\ e.again = mChunkPool[Here].again
      /\ Once(Here) => e = mChunkPool[Here]
  BY <1>1 DEF AtStage, ChunkType, NextOK
<1>3. mChunkPool' = [mChunkPool EXCEPT ![Here] = e] OBVIOUS
<1> HIDE DEF e
<1>4. /\ DOMAIN mChunkPool' = DOMAIN mChunkPool
      /\ \A c \in DOMAIN mChunkPool : /\ Once(c)' <=> Once(c)
                                      /\ Once(c) => mChunkPool'[c] = mChunkPool[c]
  BY <1>1, <1>2, <1>3 DEF Once
<1>5. /\ UNCHANGED <<walk, mCurrentChunk, rayChunk>> /\ Here' = Here
      /\ at = "reset" /\ at' = "push"
  BY DEF Here, Offset, sceneVars
<1>6. WaitersSame(mChunkPool, mChunkPool') BY <1>4 DEF WaitersSame, Once
<1>7. LockOK' /\ ListOK' /\ RunOK' /\ TaskedChunks' = TaskedChunks
  <2>1. \A g \in Generators :
           task'[g] = task[g] /\ pc'[g] = pc[g] /\ stage'[g] = stage[g]
    BY TerrainAssumption DEF WorkInv, ThreadsOK
  <2>2. UNCHANGED <<mList, mMutex>> OBVIOUS
  <2> HIDE DEF OnceInv, ResetState
  <2> QED BY <1>6, <2>1, <2>2, QueueOnce
<1>8. NextOK' BY <1>1, <1>4, <1>5, <1>7 DEF NextOK
<1>9. MadeOK' BY <1>4, <1>5 DEF MadeOK, NeedsGeneration, Editing
<1>10. FrameOK' BY <1>5 DEF FrameOK
<1> QED BY <1>7, <1>8, <1>9, <1>10

(* The end of the loop body, for a new chunk and for one that was there.   *)
LEMMA PlaceOnce ==
    ASSUME OnceInv, InPass, Here \in DOMAIN mChunkPool,
           Place(mChunkPool), UNCHANGED rayChunk
    PROVE  /\ WaitersSame(mChunkPool, mChunkPool')
           /\ NextOK' /\ MadeOK' /\ FrameOK'
           /\ DOMAIN mChunkPool' = DOMAIN mChunkPool
           /\ \A c \in DOMAIN mChunkPool : Once(c)' <=> Once(c)
<1> USE DEF OnceInv
<1> DEFINE e == [mChunkPool[Here] EXCEPT !.shift = Offset]
<1>1. /\ e.mState = mChunkPool[Here].mState /\ e.mLocked = mChunkPool[Here].mLocked
      /\ e.mVoxels = mChunkPool[Here].mVoxels /\ e.mVerts = mChunkPool[Here].mVerts
      /\ e.vbo = mChunkPool[Here].vbo /\ e.again = mChunkPool[Here].again
  OBVIOUS
<1>2. mChunkPool' = [mChunkPool EXCEPT ![Here] = e]
  BY DEF Place, Shift
<1> HIDE DEF e
<1>3. /\ DOMAIN mChunkPool' = DOMAIN mChunkPool
      /\ \A c \in DOMAIN mChunkPool :
            /\ mChunkPool'[c].mState = mChunkPool[c].mState
            /\ mChunkPool'[c].mLocked = mChunkPool[c].mLocked
            /\ mChunkPool'[c].mVoxels = mChunkPool[c].mVoxels
            /\ mChunkPool'[c].mVerts = mChunkPool[c].mVerts
            /\ mChunkPool'[c].vbo = mChunkPool[c].vbo
            /\ mChunkPool'[c].again = mChunkPool[c].again
  BY <1>1, <1>2
<1>4. at' \in {"slot", "spawn"} BY DEF Place
<1>5. WaitersSame(mChunkPool, mChunkPool') BY <1>3 DEF WaitersSame
<1>6. \A c \in DOMAIN mChunkPool : Once(c)' <=> Once(c) BY <1>3 DEF Once
<1>7. NextOK' /\ FrameOK' BY <1>4 DEF NextOK, FrameOK
<1>8. MadeOK'
  <2>1. \A c : ~ Editing(c) /\ ~ Editing(c)'
    BY <1>4 DEF Editing, InPass
  <2> QED BY <1>3, <1>6, <2>1 DEF MadeOK, NeedsGeneration, Finished
<1> QED BY <1>3, <1>5, <1>6, <1>7, <1>8

LEMMA VisitGeneratedOnce ==
    ASSUME WorkInv, OnceInv, VisitGenerated
    PROVE  OnceInv'
<1>1. /\ InPass /\ Here \in DOMAIN mChunkPool /\ Place(mChunkPool)
      /\ UNCHANGED rayChunk
      /\ UNCHANGED <<mList, mMutex, pc, task, stage>>
  BY DEF VisitGenerated, InPass, queueVars
<1>2. /\ WaitersSame(mChunkPool, mChunkPool')
      /\ NextOK' /\ MadeOK' /\ FrameOK'
  BY <1>1, PlaceOnce
<1>3. LockOK' /\ ListOK' /\ RunOK'
  BY <1>1, <1>2, QueueOnce
<1> QED BY <1>2, <1>3 DEF OnceInv

(* The pushed call, of a chunk queued once, is of one that no other is of. *)
LEMMA PushOnce ==
    ASSUME WorkInv, OnceInv, PushGenerate
    PROVE  OnceInv'
<1> USE DEF OnceInv
<1>1. /\ at = "push" /\ InPass /\ Here \in DOMAIN mChunkPool /\ Place(mChunkPool)
      /\ UNCHANGED <<rayChunk, mMutex, stage>>
      /\ mList' = Append(mList, task[Main]) /\ task[Main] \in Tasks
      /\ task[Main].chunk = Here
  BY DEF PushGenerate, InPass, Q!Push, WorkInv, PushOK, CallOK
<1>2. /\ WaitersSame(mChunkPool, mChunkPool')
      /\ NextOK' /\ MadeOK' /\ FrameOK'
      /\ \A c \in DOMAIN mChunkPool : Once(c)' <=> Once(c)
  BY <1>1, PlaceOnce
<1>3. Once(Here) => AtStage(mChunkPool[Here], "coord") /\ Here \notin TaskedChunks
  BY <1>1 DEF NextOK
<1>4. \A g \in Generators : task'[g] = task[g] /\ pc'[g] = pc[g]
  BY TerrainAssumption DEF PushGenerate, Q!Push, Q!Goto, WorkInv, ThreadsOK
<1>5. LockOK' BY <1>1, <1>4 DEF LockOK
<1>6. ASSUME NEW c \in DOMAIN mChunkPool, NEW s, Once(c),
             AtStage(mChunkPool[c], s)
      PROVE  AtStage(mChunkPool'[c], s)
  BY <1>2, <1>6 DEF WaitersSame, AtStage, Once
<1>7. /\ Len(mList) \in Nat /\ Len(mList') = Len(mList) + 1
      /\ mList'[Len(mList) + 1].chunk = Here
      /\ \A n \in 1 .. Len(mList) : mList'[n] = mList[n]
      /\ \A n \in 1 .. Len(mList') : n \in 1 .. Len(mList) \/ n = Len(mList) + 1
  BY <1>1 DEF WorkInv, QueueOK
<1>8. Once(Here) =>
         /\ \A n \in 1 .. Len(mList) : mList[n].chunk # Here
         /\ \A g \in Generators : Running(g) => task[g].chunk # Here
  BY <1>3 DEF TaskedChunks, Running
<1>9. \A n \in 1 .. Len(mList') : mList'[n].chunk \in DOMAIN mChunkPool
  BY <1>1, <1>7, TasksInPool
<1>10. ListOK'
  <2>1. ASSUME NEW n \in 1 .. Len(mList'), Once(mList'[n].chunk)
        PROVE  AtStage(mChunkPool'[mList'[n].chunk], "coord")
    BY <1>1, <1>3, <1>6, <1>7, <1>9, <2>1 DEF ListOK
  <2>2. ASSUME NEW n \in 1 .. Len(mList'), NEW m \in 1 .. Len(mList'),
               Once(mList'[n].chunk), mList'[m].chunk = mList'[n].chunk
        PROVE  m = n
    BY <2>2, <1>7, <1>8 DEF ListOK
  <2> QED BY <1>2, <1>9, <2>1, <2>2 DEF ListOK
<1>11. RunOK'
  <2> SUFFICES ASSUME NEW g \in Generators, Running(g), Once(task[g].chunk)
               PROVE  /\ AtStage(mChunkPool'[task[g].chunk], stage[g])
                      /\ \A n \in 1 .. Len(mList') : mList'[n].chunk # task[g].chunk
    BY <1>1, <1>2, <1>4, TasksInPool DEF RunOK, Running
  <2> QED BY <1>6, <1>7, <1>8, TasksInPool DEF RunOK
<1> QED BY <1>2, <1>5, <1>10, <1>11

-----------------------------------------------------------------------------
(* A thread is detached.                                                   *)
LEMMA SpawnOnce ==
    ASSUME WorkInv, OnceInv, Spawn
    PROVE  OnceInv'
<1> USE DEF OnceInv, Spawn, At
<1>1. /\ UNCHANGED <<mList, mMutex, task, mChunkPool, rayChunk>>
      /\ at = "spawn" /\ at' = "commit"
  OBVIOUS
<1>2. WaitersSame(mChunkPool, mChunkPool') BY <1>1 DEF WaitersSame
<1>3. \A g \in Generators :
         /\ stage'[g] = stage[g]
         /\ \/ pc'[g] = pc[g]
            \/ pc[g] = "idle" /\ pc'[g] = "EmptyWait"
  <2>1. CASE UNCHANGED <<pc, stage>> BY <2>1
  <2>2. CASE StartGenerator
    <3> DEFINE g == moves
    <3>1. /\ Q!Goto(g, "idle", "EmptyWait")
          /\ stage' = [stage EXCEPT ![g] = "coord"] /\ g \in Generators
      BY <2>2, PassTyped DEF StartGenerator, WorkInv
    <3> HIDE DEF g
    <3>2. /\ pc[g] = "idle" /\ pc' = [pc EXCEPT ![g] = "EmptyWait"]
          /\ g \in Q!Threads
      BY <3>1 DEF Q!Goto, Q!Threads
    <3>3. stage[g] = "coord" BY <3>1, <3>2 DEF WorkInv, ThreadsOK, Running
    <3> QED BY <3>1, <3>2, <3>3 DEF WorkInv, ThreadsOK
  <2> QED BY <2>1, <2>2
<1>4. LockOK' /\ ListOK' /\ RunOK'
  <2> HIDE DEF OnceInv, Spawn
  <2> QED BY <1>1, <1>2, <1>3, QueueOnce
<1>5. NextOK' /\ FrameOK' BY <1>1 DEF NextOK, FrameOK
<1>6. MadeOK' BY <1>1 DEF MadeOK, NeedsGeneration, Editing, Once
<1> QED BY <1>4, <1>5, <1>6

(* The steps of a frame that change no chunk.                              *)
LEMMA QuietOnce ==
    ASSUME WorkInv, PlaceInv, OnceInv,
           Stay \/ CommitSkip \/ CommitTest \/ PickNothing \/ Draw
    PROVE  OnceInv'
<1> USE DEF At
<1>1. /\ UNCHANGED <<mList, mMutex, pc, task, stage, mChunkPool, rayChunk, mChunks>>
      /\ at \in {"frame", "commit", "pick", "draw"}
      /\ at' \in {"frame", "commit", "upload", "pick", "draw"}
      /\ ~ InPass /\ ~ InPass'
  BY DEF Stay, CommitSkip, CommitTest, PickNothing, Draw, InPass, sceneVars,
     queueVars, NextCursor
<1>2. WaitersSame(mChunkPool, mChunkPool') BY <1>1 DEF WaitersSame
<1>3. LockOK' /\ ListOK' /\ RunOK' BY <1>1, <1>2, QueueOnce
<1>4. NextOK' BY <1>1 DEF NextOK
<1>5. MadeOK' BY <1>1 DEF OnceInv, MadeOK, NeedsGeneration, Editing, Once
<1>6. FrameOK'
  <2>1. CASE at' = "upload"
    <3>1. CommitTest BY <2>1 DEF Stay, CommitSkip, PickNothing, Draw, NextCursor
    <3>2. UNCHANGED cursor /\ IsGenerated(mChunks[cursor])
      BY <3>1 DEF CommitTest
    <3>3. mChunks[cursor] \in DOMAIN mChunkPool
      BY <1>1, AllPlaced DEF PlaceInv, LoopsOK, Shown
    <3> QED BY <1>1, <2>1, <3>2, <3>3 DEF FrameOK, IsGenerated
  <2>2. CASE at' # "upload" BY <1>1, <2>2 DEF FrameOK
  <2> QED BY <2>1, <2>2
<1> QED BY <1>3, <1>4, <1>5, <1>6 DEF OnceInv

(* Main writes to one chunk, which if it was queued once needs no          *)
(* generation.                                                             *)
LEMMA WriteOnce ==
    ASSUME WorkInv, OnceInv, at' \notin {"reset", "push"},
           UNCHANGED <<mList, mMutex, pc, task, stage>>,
           NEW c \in DOMAIN mChunkPool,
           NEW e, mChunkPool' = [mChunkPool EXCEPT ![c] = e],
           e.again = mChunkPool[c].again,
           \A d : d # c => ~ Editing(d) /\ ~ Editing(d)',
           Once(c) => /\ ~ NeedsGeneration(c) /\ e.mState # "NotGenerated"
                      /\ IF Editing(c)' THEN Edited(e, at') ELSE Finished(e)
    PROVE  LockOK' /\ ListOK' /\ RunOK' /\ NextOK' /\ MadeOK'
<1>1. /\ DOMAIN mChunkPool' = DOMAIN mChunkPool /\ mChunkPool'[c] = e
      /\ \A d \in DOMAIN mChunkPool : /\ d # c => mChunkPool'[d] = mChunkPool[d]
                                      /\ Once(d)' <=> Once(d)
  BY DEF Once
<1>2. WaitersSame(mChunkPool, mChunkPool')
  BY <1>1 DEF WaitersSame, NeedsGeneration, Once
<1>3. LockOK' /\ ListOK' /\ RunOK' BY <1>2, QueueOnce
<1>4. NextOK' BY DEF NextOK
<1>5. MadeOK' BY <1>1 DEF OnceInv, MadeOK, NeedsGeneration
<1> QED BY <1>3, <1>4, <1>5

(* The two steps of CommitMeshUpdate, on a chunk that is finished, if it   *)
(* was queued once.                                                        *)
LEMMA CommitOnce ==
    ASSUME WorkInv, PlaceInv, OnceInv, CommitUpload \/ CommitStore
    PROVE  OnceInv'
<1> DEFINE c == mChunks[cursor]
           k == mChunkPool[c]
<1>1. /\ UNCHANGED <<mList, mMutex, pc, task, stage, mChunks, rayChunk>>
      /\ at' \notin {"reset", "push"} /\ at \in {"upload", "commitStore"}
      /\ \A d : ~ Editing(d) /\ ~ Editing(d)'
  BY DEF CommitUpload, CommitStore, At, NextCursor, Editing, queueVars,
     sceneVars
<1>2. /\ c \in DOMAIN mChunkPool /\ k \in ChunkType
      /\ Once(c) => /\ ~ NeedsGeneration(c) /\ k.mState = "Generated"
                    /\ at = "commitStore" => k.vbo = k.mVoxels
  BY <1>1 DEF OnceInv, FrameOK, IsGenerated, NeedsGeneration, WorkInv, PoolOK
<1>3. Once(c) => Finished(k) BY <1>1, <1>2 DEF OnceInv, MadeOK
<1>4. Once(c) => k.mVoxels \in Good /\ k.mVerts = [done |-> TRUE, of |-> k.mVoxels]
  BY <1>3 DEF Finished
<1>5. CASE CommitUpload
  <2> DEFINE w == IF k.mVerts.done THEN k.mVerts.of ELSE "torn"
             e == [k EXCEPT !.vbo = w]
  <2>1. mChunkPool' = [mChunkPool EXCEPT ![c] = e] BY <1>5 DEF CommitUpload
  <2>2. Once(c) => w = k.mVoxels
    BY <1>4
  <2> HIDE DEF w
  <2>3. /\ e.mState = k.mState /\ e.mVoxels = k.mVoxels /\ e.mVerts = k.mVerts
        /\ e.vbo = w /\ e.again = k.again
    BY <1>2 DEF ChunkType
  <2>4. at' = "commitStore" /\ UNCHANGED cursor BY <1>5 DEF CommitUpload, At
  <2> HIDE DEF e, k
  <2>5. Once(c) => Finished(e) BY <1>2, <1>4, <2>2, <2>3 DEF Finished
  <2>6. k = mChunkPool[c] /\ c' = c BY <1>1, <2>4 DEF k
  <2> HIDE DEF c
  <2>7. LockOK' /\ ListOK' /\ RunOK' /\ NextOK' /\ MadeOK'
    BY <1>1, <1>2, <2>1, <2>3, <2>5, <2>6, WriteOnce
  <2>8. mChunkPool'[c] = e /\ c \in DOMAIN mChunkPool' /\ (~ e.again => Once(c))
    BY <1>2, <2>1, <2>3, <2>6 DEF Once
  <2>9. mChunks'[cursor'] = c /\ mChunks[cursor] = c BY <2>6 DEF c
  <2>10. FrameOK' BY <1>2, <2>2, <2>3, <2>4, <2>8, <2>9 DEF FrameOK, IsGenerated, Once
  <2> QED BY <2>7, <2>10 DEF OnceInv
<1>6. CASE CommitStore
  <2> DEFINE e == [k EXCEPT !.mState = "Updated", !.mLocked = FALSE]
  <2>1. mChunkPool' = [mChunkPool EXCEPT ![c] = e]
    BY <1>6 DEF CommitStore, SetUpdated
  <2>2. at = "commitStore" /\ at' \in {"commit", "pick"}
    BY <1>6 DEF CommitStore, NextCursor
  <2>3. /\ e.mState = "Updated" /\ e.mVoxels = k.mVoxels /\ e.mVerts = k.mVerts
        /\ e.vbo = k.vbo /\ e.again = k.again
    BY <1>2 DEF ChunkType
  <2> HIDE DEF e, k
  <2>4. Once(c) => Finished(e) BY <1>2, <1>4, <2>2, <2>3 DEF Finished
  <2>5. k = mChunkPool[c] BY DEF k
  <2> HIDE DEF c
  <2>6. LockOK' /\ ListOK' /\ RunOK' /\ NextOK' /\ MadeOK'
    BY <1>1, <1>2, <2>1, <2>3, <2>4, <2>5, WriteOnce
  <2>7. FrameOK' BY <2>2 DEF FrameOK
  <2> QED BY <2>6, <2>7 DEF OnceInv
<1> QED BY <1>5, <1>6

(* The picked chunk is edited and meshed again, by Main alone if it was    *)
(* queued once.                                                            *)
LEMMA PickOnce ==
    ASSUME WorkInv, PlaceInv, OnceInv, PickVoxel
    PROVE  OnceInv'
<1> DEFINE c == rayChunk'
           k == mChunkPool[c]
           e == [k EXCEPT !.mVoxels = "edited"]
<1>1. /\ UNCHANGED <<mList, mMutex, pc, task, stage>>
      /\ at = "pick" /\ at' = "remesh" /\ c \in Pickable
      /\ mChunkPool' = [mChunkPool EXCEPT ![c] = e]
  BY DEF PickVoxel, At, queueVars
<1>2. c \in DOMAIN mChunkPool /\ ~ NeedsGeneration(c)
  <2>1. PICK n \in 0 .. 3 : c = mChunks[n] /\ ~ NeedsGeneration(c)
    BY <1>1 DEF Pickable, PickedSlots
  <2>2. n \in Slots BY SlotCount DEF Slots
  <2>3. ~ InPass BY <1>1 DEF InPass
  <2> QED BY <2>1, <2>2, <2>3, AllPlaced DEF Shown
<1>3. k \in ChunkType /\ (Once(c) => Finished(k))
  BY <1>1, <1>2 DEF WorkInv, PoolOK, OnceInv, MadeOK, Editing
<1>4. /\ e.mState = k.mState /\ e.mLocked = k.mLocked /\ e.mVoxels = "edited"
      /\ e.mVerts = k.mVerts /\ e.vbo = k.vbo /\ e.again = k.again
  BY <1>3 DEF ChunkType
<1>5. e.mState # "NotGenerated" BY <1>2, <1>4 DEF NeedsGeneration
<1> HIDE DEF e
<1>6. Once(c) => Edited(e, "remesh")
  <2> SUFFICES ASSUME Once(c) PROVE Edited(e, "remesh") OBVIOUS
  <2>1. /\ k.mVoxels \in Good /\ k.mVerts = [done |-> TRUE, of |-> k.mVoxels]
        /\ ~ k.mLocked => k.vbo \in Good
    BY <1>3 DEF Finished
  <2> HIDE DEF k
  <2> QED BY <1>4, <2>1 DEF Edited
<1>7. \A d : Editing(d)' <=> d = c BY <1>1 DEF Editing
<1>8. \A d : ~ Editing(d) BY <1>1 DEF Editing
<1>9. LockOK' /\ ListOK' /\ RunOK' /\ NextOK' /\ MadeOK'
  BY <1>1, <1>2, <1>4, <1>5, <1>6, <1>7, <1>8, WriteOnce
<1>10. FrameOK' BY <1>1, <1>2, <1>5 DEF FrameOK, NeedsGeneration
<1> QED BY <1>9, <1>10 DEF OnceInv

LEMMA RemeshOnce ==
    ASSUME WorkInv, PlaceInv, OnceInv, Remesh \/ RemeshEnd
    PROVE  OnceInv'
<1> DEFINE c == rayChunk
           k == mChunkPool[c]
<1>1. /\ UNCHANGED <<mList, mMutex, pc, task, stage>>
      /\ at' \notin {"reset", "push"} /\ at \in {"remesh", "remeshed"}
      /\ \A d : Editing(d) <=> d = c
  BY DEF Remesh, RemeshEnd, At, Editing, queueVars
<1>2. /\ c \in DOMAIN mChunkPool /\ k \in ChunkType
      /\ Once(c) => ~ NeedsGeneration(c) /\ Edited(k, at)
  BY <1>1 DEF OnceInv, FrameOK, MadeOK, WorkInv, PoolOK
<1>3. CASE Remesh
  <2> DEFINE s == Started(k)
             e == [k EXCEPT !.mVerts = s]
  <2>1. /\ mChunkPool' = [mChunkPool EXCEPT ![c] = e] /\ at = "remesh"
        /\ at' = "remeshed" /\ UNCHANGED rayChunk
    BY <1>3 DEF Remesh, MeshBegin, At
  <2>2. Once(c) => s = [done |-> FALSE, of |-> "edited"]
    BY <1>2, <2>1 DEF Edited, Started
  <2> HIDE DEF s
  <2>3. /\ e.mState = k.mState /\ e.mLocked = k.mLocked /\ e.mVoxels = k.mVoxels
        /\ e.mVerts = s /\ e.vbo = k.vbo /\ e.again = k.again
    BY <1>2 DEF ChunkType
  <2> HIDE DEF e
  <2>4. Once(c) => Edited(e, "remeshed") BY <1>2, <2>2, <2>3 DEF Edited
  <2>5. \A d : Editing(d)' <=> d = c BY <2>1 DEF Editing
  <2>6. Once(c) => e.mState # "NotGenerated" BY <1>2, <2>3 DEF NeedsGeneration
  <2>7. \A d : d # c => ~ Editing(d) /\ ~ Editing(d)' BY <1>1, <2>5
  <2>8. LockOK' /\ ListOK' /\ RunOK' /\ NextOK' /\ MadeOK'
    BY <1>1, <1>2, <2>1, <2>3, <2>4, <2>5, <2>6, <2>7, WriteOnce
  <2>9. c \in DOMAIN mChunkPool' /\ mChunkPool'[c] = e /\ (Once(c)' => Once(c))
    BY <1>2, <2>1, <2>3 DEF Once
  <2>10. FrameOK' BY <2>1, <2>6, <2>9 DEF FrameOK, NeedsGeneration
  <2> QED BY <2>8, <2>10 DEF OnceInv
<1>4. CASE RemeshEnd
  <2>1. PICK seen \in SeenBy(c) : mChunkPool' = MeshEnd(c, seen)
    BY <1>4 DEF RemeshEnd
  <2>2. at = "remeshed" /\ at' = "draw" BY <1>4 DEF RemeshEnd, At
  <2>3. Once(c) => /\ k.mVoxels = "edited" /\ k.mVerts = [done |-> FALSE, of |-> "edited"]
                   /\ ~ k.mLocked => k.vbo \in Good
    BY <1>2, <2>2 DEF Edited
  <2>4. Once(c) => seen = "edited" BY <2>1, <2>3 DEF SeenBy
  <2> DEFINE v == [done |-> TRUE, of |-> seen]
             e == [k EXCEPT !.mVerts = v, !.mState = "Generated"]
  <2>5. mChunkPool' = [mChunkPool EXCEPT ![c] = e] BY <2>1 DEF MeshEnd
  <2> HIDE DEF v
  <2>6. /\ e.mState = "Generated" /\ e.mLocked = k.mLocked
        /\ e.mVoxels = k.mVoxels /\ e.mVerts = v /\ e.vbo = k.vbo
        /\ e.again = k.again
    BY <1>2 DEF ChunkType
  <2> HIDE DEF e
  <2>7. Once(c) => Finished(e) BY <2>3, <2>4, <2>6 DEF Finished, Good, v
  <2>8. \A d : ~ Editing(d)' BY <2>2 DEF Editing
  <2>9. e.mState # "NotGenerated" BY <2>6
  <2>10. LockOK' /\ ListOK' /\ RunOK' /\ NextOK' /\ MadeOK'
    BY <1>1, <1>2, <2>5, <2>6, <2>7, <2>8, <2>9, WriteOnce
  <2>11. FrameOK' BY <2>2 DEF FrameOK
  <2> QED BY <2>10, <2>11 DEF OnceInv
<1> QED BY <1>3, <1>4

-----------------------------------------------------------------------------
(* One generator at a time is inside the queue.                            *)
LEMMA OneRuns ==
    ASSUME LockOK, NEW g \in Generators, NEW h \in Generators,
           pc[g] \in {"EmptyWait_loop", "EmptyWait_run"},
           pc[h] \in {"EmptyWait_loop", "EmptyWait_run"}
    PROVE  g = h
  BY DEF LockOK

(* A generator locks, takes or returns: no chunk changes.                  *)
LEMMA InQueueOnce ==
    ASSUME WorkInv, OnceInv, NEW g \in Generators, InQueue(g)
    PROVE  OnceInv'
<1> USE DEF OnceInv, Q!Goto
<1>1. UNCHANGED <<mChunkPool, stage, mChunks, mCurrentChunk, walk, cursor, rayChunk, at>>
  BY DEF InQueue, mainVars, sceneVars
<1>2. /\ g \in Q!Threads /\ Generators \subseteq Q!Threads
      /\ \A h \in Generators : h # NoThread
  BY TerrainAssumption DEF Q!Threads
<1>3. Here' = Here BY <1>1 DEF Here, Offset
<1>4. MadeOK' /\ FrameOK'
  <2>1. MadeOK' BY <1>1 DEF MadeOK, NeedsGeneration, Editing, Once
  <2>2. FrameOK' BY <1>1 DEF FrameOK, NeedsGeneration, IsGenerated, Once
  <2> QED BY <2>1, <2>2
<1>5. ASSUME TaskedChunks' \subseteq TaskedChunks PROVE NextOK'
  BY <1>1, <1>3, <1>5 DEF NextOK, Once
<1>6. CASE Q!EmptyWaitLock(g) \/ Q!EmptyWaitReturn(g)
  <2>1. /\ UNCHANGED <<mList, task>> /\ ~ Running(g) /\ ~ Running(g)'
        /\ \A h \in Generators : h # g => pc'[h] = pc[h]
    BY <1>2, <1>6 DEF Q!EmptyWaitLock, Q!EmptyWaitReturn, WorkInv, ThreadsOK, Running
  <2>2. LockOK'
    <3>1. CASE Q!EmptyWaitLock(g)
      BY <1>2, <2>1, <3>1 DEF LockOK, Q!EmptyWaitLock
    <3>2. CASE Q!EmptyWaitReturn(g)
      <4>1. pc[g] = "EmptyWait_loop" /\ pc'[g] = "idle"
        BY <1>2, <3>2 DEF Q!EmptyWaitReturn, WorkInv, ThreadsOK
      <4> QED BY <2>1, <4>1 DEF LockOK
    <3> QED BY <1>6, <3>1, <3>2
  <2>3. \A h \in Generators : Running(h)' <=> Running(h)
    BY <2>1 DEF Running
  <2>4. TaskedChunks' = TaskedChunks BY <2>1, <2>3 DEF TaskedChunks, Running
  <2>5. ListOK' BY <1>1, <2>1 DEF ListOK, AtStage, Once
  <2>6. RunOK' BY <1>1, <2>1, <2>3 DEF RunOK, AtStage, Once
  <2> QED BY <1>4, <1>5, <2>2, <2>4, <2>5, <2>6
<1>7. CASE Q!EmptyWaitTake(g)
  <2>1. /\ pc[g] = "EmptyWait_loop" /\ pc' = [pc EXCEPT ![g] = "EmptyWait_run"]
        /\ mList # <<>> /\ mList' = Tail(mList) /\ UNCHANGED mMutex
        /\ task' = [task EXCEPT ![g] = Head(mList)]
    BY <1>7 DEF Q!EmptyWaitTake, Q!TakeFront
  <2>2. /\ Head(mList) = mList[1] /\ 1 \in 1 .. Len(mList)
        /\ \A n \in 1 .. Len(mList') :
              n + 1 \in 1 .. Len(mList) /\ mList'[n] = mList[n + 1]
    BY <2>1, TailElements DEF WorkInv, QueueOK
  <2>3. /\ pc'[g] = "EmptyWait_run" /\ task'[g] = mList[1] /\ stage[g] = "coord"
        /\ \A h \in Generators : h # g => pc'[h] = pc[h] /\ task'[h] = task[h]
    BY <1>2, <2>1, <2>2 DEF WorkInv, ThreadsOK, Running
  <2>4. LockOK' BY <2>1, <2>3 DEF LockOK
  <2>5. \A h \in Generators : Running(h)' => h = g
    BY <2>1, <2>3, OneRuns DEF Running
  <2>6. ListOK'
    <3>1. ASSUME NEW n \in 1 .. Len(mList'), NEW m \in 1 .. Len(mList'),
                 Once(mList'[n].chunk), mList'[m].chunk = mList'[n].chunk
          PROVE  m = n
      <4>1. /\ m + 1 \in 1 .. Len(mList) /\ n + 1 \in 1 .. Len(mList)
            /\ mList[m + 1].chunk = mList[n + 1].chunk /\ Once(mList[n + 1].chunk)
        BY <2>2, <3>1
      <4>2. m + 1 = n + 1 BY <4>1 DEF ListOK
      <4> QED BY <4>2
    <3>2. \A n \in 1 .. Len(mList') : Once(mList'[n].chunk) =>
             AtStage(mChunkPool'[mList'[n].chunk], "coord")
      BY <1>1, <2>2 DEF ListOK
    <3> QED BY <1>1, <3>1, <3>2 DEF ListOK, Once
  <2>7. RunOK'
    <3>1. Once(mList[1].chunk) => AtStage(mChunkPool[mList[1].chunk], "coord")
      BY <2>2 DEF ListOK
    <3>2. ASSUME NEW n \in 1 .. Len(mList'), Once(mList[1].chunk),
                 mList'[n].chunk = mList[1].chunk
          PROVE  FALSE
      <4>1. n + 1 = 1 BY <2>2, <3>2 DEF ListOK
      <4> QED BY <4>1
    <3> SUFFICES ASSUME Running(g)', Once(task'[g].chunk)
                 PROVE  /\ AtStage(mChunkPool'[task'[g].chunk], stage'[g])
                        /\ \A n \in 1 .. Len(mList') : mList'[n].chunk # task'[g].chunk
      BY <1>1, <2>5 DEF RunOK, Once
    <3> QED BY <1>1, <2>3, <3>1, <3>2
  <2>8. TaskedChunks' \subseteq TaskedChunks
    <3> SUFFICES ASSUME NEW c \in TaskedChunks' PROVE c \in TaskedChunks
      OBVIOUS
    <3>1. CASE \E n \in 1 .. Len(mList') : c = mList'[n].chunk
      BY <2>2, <3>1 DEF TaskedChunks
    <3>2. CASE \E h \in Generators : Running(h)' /\ c = task'[h].chunk
      BY <2>2, <2>3, <2>5, <3>2 DEF TaskedChunks
    <3> QED BY <3>1, <3>2 DEF TaskedChunks, Running
  <2> QED BY <1>4, <1>5, <2>4, <2>6, <2>7, <2>8
<1> QED BY <1>6, <1>7 DEF InQueue

(* The chunk a generator writes to, if it was queued once, is in nobody    *)
(* else's hands.                                                           *)
LEMMA GeneratorAlone ==
    ASSUME WorkInv, OnceInv, NEW g \in Generators, Running(g), Once(task[g].chunk)
    PROVE  /\ NeedsGeneration(task[g].chunk)
           /\ AtStage(mChunkPool[task[g].chunk], stage[g])
           /\ \A n \in 1 .. Len(mList) : mList[n].chunk # task[g].chunk
           /\ at \in {"reset", "push"} => Here # task[g].chunk
           /\ at \in {"upload", "commitStore"} => mChunks[cursor] # task[g].chunk
           /\ at \in {"remesh", "remeshed"} => rayChunk # task[g].chunk
<1> USE DEF OnceInv
<1>1. AtStage(mChunkPool[task[g].chunk], stage[g]) BY DEF RunOK
<1>2. task[g].chunk \in TaskedChunks BY DEF TaskedChunks, Running
<1>3. NeedsGeneration(task[g].chunk) BY <1>1, StageNeeds
<1>4. at \in {"reset", "push"} => Here # task[g].chunk BY <1>2 DEF NextOK
<1>5. /\ at \in {"upload", "commitStore"} => mChunks[cursor] # task[g].chunk
      /\ at \in {"remesh", "remeshed"} => rayChunk # task[g].chunk
  BY <1>3 DEF FrameOK, IsGenerated, NeedsGeneration
<1>6. \A n \in 1 .. Len(mList) : mList[n].chunk # task[g].chunk BY DEF RunOK
<1> QED BY <1>1, <1>3, <1>4, <1>5, <1>6

(* A generator that runs is the only one, and has its chunk.               *)
LEMMA RunnerChunk ==
    ASSUME WorkInv, OnceInv, NEW g \in Generators, Running(g)
    PROVE  /\ task[g].chunk \in DOMAIN mChunkPool
           /\ mChunkPool[task[g].chunk] \in ChunkType
           /\ task[g].chunk \in TaskedChunks
           /\ \A h \in Generators : Running(h) => h = g
<1>1. task[g].chunk \in TaskedChunks BY DEF TaskedChunks, Running
<1>2. \A h \in Generators : Running(h) => h = g BY OneRuns DEF Running, OnceInv
<1>3. /\ task[g].chunk \in DOMAIN mChunkPool
      /\ mChunkPool[task[g].chunk] \in ChunkType
  BY TasksInPool DEF WorkInv, PoolOK
<1> QED BY <1>1, <1>2, <1>3

(* What a generator's write keeps, whichever stage it is.                  *)
LEMMA GenerateOnce ==
    ASSUME WorkInv, OnceInv, NEW g \in Generators, Running(g), UNCHANGED mainVars,
           UNCHANGED <<mList, mMutex>>,
           NEW e, mChunkPool' = [mChunkPool EXCEPT ![task[g].chunk] = e],
           e.again = mChunkPool[task[g].chunk].again,
           \A h \in Generators : h # g => pc'[h] = pc[h],
           pc'[g] \in {"EmptyWait_loop", "EmptyWait_run"},
           TaskedChunks' \subseteq TaskedChunks,
           Once(task[g].chunk) => \/ e.mState = "NotGenerated"
                                  \/ e.mState = "Generated" /\ Finished(e)
    PROVE  LockOK' /\ ListOK' /\ NextOK' /\ MadeOK' /\ FrameOK'
<1> DEFINE c == task[g].chunk
<1> USE DEF OnceInv
<1>1. /\ c \in DOMAIN mChunkPool
      /\ Once(c) => /\ NeedsGeneration(c)
                    /\ \A n \in 1 .. Len(mList) : mList[n].chunk # c
                    /\ at \in {"reset", "push"} => Here # c
                    /\ at \in {"upload", "commitStore"} => mChunks[cursor] # c
                    /\ at \in {"remesh", "remeshed"} => rayChunk # c
  BY GeneratorAlone, RunnerChunk
<1>2. UNCHANGED <<at, walk, cursor, rayChunk, mChunks, mCurrentChunk>> /\ Here' = Here
  BY DEF mainVars, sceneVars, Here, Offset
<1>3. mChunkPool' = [mChunkPool EXCEPT ![c] = e] /\ e.again = mChunkPool[c].again
      /\ (Once(c) => \/ e.mState = "NotGenerated"
                     \/ e.mState = "Generated" /\ Finished(e))
  OBVIOUS
<1>4. mMutex = g BY DEF LockOK, Running
<1>5. \A d : Once(d)' <=> Once(d)
  BY <1>1, <1>3 DEF Once
<1> HIDE DEF c
<1>6. /\ DOMAIN mChunkPool' = DOMAIN mChunkPool /\ mChunkPool'[c] = e
      /\ \A d : d # c => mChunkPool'[d] = mChunkPool[d]
  BY <1>1, <1>3
<1>7. LockOK' BY <1>4 DEF LockOK
<1>8. ListOK'
  <2> SUFFICES ASSUME NEW n \in 1 .. Len(mList), Once(mList[n].chunk)
               PROVE  /\ AtStage(mChunkPool'[mList[n].chunk], "coord")
                      /\ \A m \in 1 .. Len(mList) :
                            mList[m].chunk = mList[n].chunk => m = n
    BY <1>5 DEF ListOK
  <2>1. mList[n].chunk # c BY <1>1
  <2> QED BY <1>6, <2>1 DEF ListOK
<1>9. NextOK'
  <2> SUFFICES ASSUME at \in {"reset", "push"}, Once(Here)
               PROVE  AtStage(mChunkPool'[Here], "coord") /\ Here \notin TaskedChunks
    BY <1>2, <1>5 DEF NextOK
  <2> QED BY <1>1, <1>6 DEF NextOK
<1>10. MadeOK'
  <2> SUFFICES ASSUME NEW d \in DOMAIN mChunkPool, Once(d), ~ NeedsGeneration(d)'
               PROVE  IF Editing(d)' THEN Edited(mChunkPool'[d], at')
                                     ELSE Finished(mChunkPool'[d])
    BY <1>5, <1>6 DEF MadeOK
  <2>1. Editing(d)' <=> Editing(d) BY <1>2 DEF Editing
  <2>2. CASE d = c
    <3>1. ~ Editing(c) BY <1>1, <2>2 DEF Editing
    <3>2. Finished(e) BY <1>3, <1>6, <2>2 DEF NeedsGeneration
    <3> QED BY <1>6, <2>1, <2>2, <3>1, <3>2
  <2>3. CASE d # c
    BY <1>2, <1>6, <2>1, <2>3 DEF MadeOK, NeedsGeneration
  <2> QED BY <2>2, <2>3
<1>11. FrameOK'
  <2>1. ASSUME NEW d, Once(d), d # c
        PROVE  /\ IsGenerated(d) => IsGenerated(d)'
               /\ ~ NeedsGeneration(d) => ~ NeedsGeneration(d)'
    BY <1>6, <2>1 DEF IsGenerated, NeedsGeneration
  <2> QED BY <1>1, <1>2, <1>5, <1>6, <2>1
     DEF FrameOK, IsGenerated, NeedsGeneration
<1> QED BY <1>7, <1>8, <1>9, <1>10, <1>11

(* The stages that leave the chunk for the next one.                       *)
LEMMA StageOnce ==
    ASSUME WorkInv, OnceInv, NEW g \in Generators,
           GenerateCoord(g) \/ GenerateFill(g) \/ GenerateMesh(g)
    PROVE  OnceInv'
<1> DEFINE c == task[g].chunk
           k == mChunkPool[c]
<1>1. /\ Running(g) /\ UNCHANGED <<mList, mMutex, pc, task>> /\ UNCHANGED mainVars
  BY DEF GenerateCoord, GenerateFill, GenerateMesh, InGenerate, Running, queueVars
<1>2. /\ k \in ChunkType /\ c \in DOMAIN mChunkPool
      /\ \A h \in Generators : Running(h) => h = g
      /\ Once(c) => /\ AtStage(k, stage[g])
                    /\ \A n \in 1 .. Len(mList) : mList[n].chunk # c
  BY <1>1, GeneratorAlone, RunnerChunk
<1>3. PICK e, s : /\ mChunkPool' = [mChunkPool EXCEPT ![c] = e] /\ e.again = k.again
                  /\ stage' = [stage EXCEPT ![g] = s]
                  /\ Once(c) => AtStage(e, s)
  <2>1. CASE GenerateCoord(g)
    <3> DEFINE e == [k EXCEPT !.mCoord = CoordOf(task[g]), !.mVoxels = "filling"]
    <3>1. /\ mChunkPool' = [mChunkPool EXCEPT ![c] = e] /\ stage[g] = "coord"
          /\ stage' = [stage EXCEPT ![g] = "fill"]
      BY <2>1 DEF GenerateCoord, InGenerate
    <3>2. /\ e.mState = k.mState /\ e.mLocked = k.mLocked /\ e.mVoxels = "filling"
          /\ e.mVerts = k.mVerts /\ e.vbo = k.vbo /\ e.again = k.again
      BY <1>2 DEF ChunkType
    <3> HIDE DEF e
    <3>3. Once(c) => AtStage(e, "fill") BY <1>2, <3>1, <3>2 DEF AtStage
    <3> QED BY <3>1, <3>2, <3>3
  <2>2. CASE GenerateFill(g)
    <3> DEFINE e == [k EXCEPT !.mVoxels = "terrain"]
    <3>1. /\ mChunkPool' = [mChunkPool EXCEPT ![c] = e] /\ stage[g] = "fill"
          /\ stage' = [stage EXCEPT ![g] = "mesh"]
      BY <2>2 DEF GenerateFill, InGenerate
    <3>2. /\ e.mState = k.mState /\ e.mLocked = k.mLocked /\ e.mVoxels = "terrain"
          /\ e.mVerts = k.mVerts /\ e.vbo = k.vbo /\ e.again = k.again
      BY <1>2 DEF ChunkType
    <3> HIDE DEF e
    <3>3. Once(c) => AtStage(e, "mesh") BY <1>2, <3>1, <3>2 DEF AtStage
    <3> QED BY <3>1, <3>2, <3>3
  <2>3. CASE GenerateMesh(g)
    <3> DEFINE s == Started(k)
               e == [k EXCEPT !.mVerts = s]
    <3>1. /\ mChunkPool' = [mChunkPool EXCEPT ![c] = e] /\ stage[g] = "mesh"
          /\ stage' = [stage EXCEPT ![g] = "store"]
      BY <2>3 DEF GenerateMesh, InGenerate, MeshBegin
    <3>2. Once(c) => s = [done |-> FALSE, of |-> "terrain"]
      <4> SUFFICES ASSUME AtStage(k, "mesh")
                   PROVE  s = [done |-> FALSE, of |-> "terrain"]
        BY <1>2, <3>1
      <4> QED BY DEF AtStage, Started
    <3> HIDE DEF s
    <3>3. /\ e.mState = k.mState /\ e.mLocked = k.mLocked /\ e.mVoxels = k.mVoxels
          /\ e.mVerts = s /\ e.vbo = k.vbo /\ e.again = k.again
      BY <1>2 DEF ChunkType
    <3> HIDE DEF e
    <3>4. Once(c) => AtStage(e, "store") BY <1>2, <3>1, <3>2, <3>3 DEF AtStage
    <3> QED BY <3>1, <3>3, <3>4
  <2> QED BY <2>1, <2>2, <2>3
<1>4. Once(c) => e.mState = "NotGenerated" BY <1>3 DEF AtStage
<1>5. \A h \in Generators : Running(h)' <=> Running(h) BY <1>1 DEF Running
<1>6. TaskedChunks' = TaskedChunks BY <1>1, <1>5 DEF TaskedChunks
<1>7. stage'[g] = s BY <1>3 DEF WorkInv, ThreadsOK
<1>8. LockOK' /\ ListOK' /\ NextOK' /\ MadeOK' /\ FrameOK'
  BY <1>1, <1>3, <1>4, <1>6, GenerateOnce DEF Running
<1>9. RunOK'
  <2>1. mChunkPool'[c] = e /\ (Once(c)' => Once(c)) BY <1>1, <1>2, <1>3 DEF Once
  <2> HIDE DEF k
  <2> QED BY <1>1, <1>2, <1>3, <1>5, <1>7, <2>1 DEF RunOK
<1> QED BY <1>8, <1>9 DEF OnceInv

(* The last stage: the chunk is finished, and the call is over.            *)
LEMMA StoreOnce ==
    ASSUME WorkInv, OnceInv, NEW g \in Generators, GenerateStore(g)
    PROVE  OnceInv'
<1> DEFINE c == task[g].chunk
           k == mChunkPool[c]
<1>1. /\ Running(g) /\ stage[g] = "store" /\ UNCHANGED <<mList, mMutex>>
      /\ UNCHANGED mainVars
      /\ pc' = [pc EXCEPT ![g] = "EmptyWait_loop"]
      /\ task' = [task EXCEPT ![g] = NoTask]
  BY DEF GenerateStore, InGenerate, Running, Q!EmptyWaitTaskDone, Q!Goto
<1>2. /\ k \in ChunkType /\ c \in DOMAIN mChunkPool
      /\ \A h \in Generators : Running(h) => h = g
      /\ Once(c) => AtStage(k, "store")
  BY <1>1, GeneratorAlone, RunnerChunk
<1>3. Once(c) => /\ k.mVoxels = "terrain" /\ k.mVerts = [done |-> FALSE, of |-> "terrain"]
                 /\ k.mLocked
  BY <1>2 DEF AtStage
<1>4. PICK seen \in SeenBy(c) : mChunkPool' = MeshEnd(c, seen)
  BY DEF GenerateStore
<1>5. Once(c) => seen = "terrain" BY <1>3, <1>4 DEF SeenBy
<1> DEFINE v == [done |-> TRUE, of |-> seen]
           e == [k EXCEPT !.mVerts = v, !.mState = "Generated"]
<1>6. mChunkPool' = [mChunkPool EXCEPT ![c] = e] BY <1>4 DEF MeshEnd
<1> HIDE DEF v
<1>7. /\ e.mState = "Generated" /\ e.mLocked = k.mLocked
      /\ e.mVoxels = k.mVoxels /\ e.mVerts = v /\ e.again = k.again
  BY <1>2 DEF ChunkType
<1> HIDE DEF e
<1>8. Once(c) => Finished(e) BY <1>3, <1>5, <1>7 DEF Finished, Good, v
<1>9. /\ g \in Q!Threads /\ Generators \subseteq Q!Threads BY DEF Q!Threads
<1>10. /\ pc'[g] = "EmptyWait_loop"
       /\ \A h \in Generators : h # g => pc'[h] = pc[h]
  BY <1>1, <1>9 DEF WorkInv, ThreadsOK
<1>11. \A h \in Generators : ~ Running(h)' BY <1>2, <1>10 DEF Running
<1>12. TaskedChunks' \subseteq TaskedChunks
  BY <1>1, <1>11 DEF TaskedChunks, Running
<1>13. LockOK' /\ ListOK' /\ NextOK' /\ MadeOK' /\ FrameOK'
  BY <1>1, <1>6, <1>7, <1>8, <1>10, <1>12, GenerateOnce
<1>14. RunOK' BY <1>11 DEF RunOK
<1> QED BY <1>13, <1>14 DEF OnceInv

LEMMA GeneratorOnce ==
    ASSUME WorkInv, OnceInv, NEW g \in Generators, GeneratorNext(g)
    PROVE  OnceInv'
  BY InQueueOnce, StageOnce, StoreOnce DEF GeneratorNext

LEMMA OnceStep == IInv /\ PlaceInv /\ OnceInv /\ [Next]_vars => OnceInv'
<1> SUFFICES ASSUME IInv, PlaceInv, OnceInv, [Next]_vars PROVE OnceInv'
  OBVIOUS
<1>1. CASE UNCHANGED vars
  <2>1. /\ UNCHANGED <<mList, mMutex, pc, task, stage, mChunkPool, rayChunk, mChunks>>
        /\ UNCHANGED <<at, walk, cursor, mCurrentChunk>>
    BY <1>1 DEF vars, sceneVars, queueVars
  <2>2. WaitersSame(mChunkPool, mChunkPool') BY <2>1 DEF WaitersSame
  <2>3. LockOK' /\ ListOK' /\ RunOK' /\ TaskedChunks' = TaskedChunks
    BY <2>1, <2>2, QueueOnce DEF IInv
  <2>4. Here' = Here BY <2>1 DEF Here, Offset
  <2>5. NextOK' BY <2>1, <2>3, <2>4 DEF OnceInv, NextOK, Once
  <2>6. MadeOK' BY <2>1 DEF OnceInv, MadeOK, NeedsGeneration, Editing, Once
  <2>7. FrameOK' BY <2>1 DEF OnceInv, FrameOK, NeedsGeneration, IsGenerated, Once
  <2> QED BY <2>3, <2>5, <2>6, <2>7 DEF OnceInv
<1>2. CASE MainNext
  BY <1>2, MoveOnce, VisitGeneratedOnce, VisitOnce, ResetOnce, PushOnce, SpawnOnce,
     QuietOnce, CommitOnce, PickOnce, RemeshOnce DEF MainNext, IInv
<1>3. CASE \E g \in Generators : GeneratorNext(g)
  BY <1>3, GeneratorOnce DEF IInv
<1> QED BY <1>1, <1>2, <1>3 DEF Next

LEMMA OnceInvariant == Spec => [](IInv /\ PlaceInv /\ OnceInv)
<1>1. IInv /\ PlaceInv /\ OnceInv /\ [Next]_vars => (IInv /\ PlaceInv /\ OnceInv)'
  BY StepInv, PlaceStep, OnceStep
<1> QED BY InitInv, PlaceInit, OnceInit, <1>1, PTL DEF Spec

(* A chunk that waits for its one generation is locked.                    *)
LEMMA WaitersLocked ==
    ASSUME IInv, OnceInv, NEW c \in DOMAIN mChunkPool, Once(c), NeedsGeneration(c),
           at \notin {"reset", "push"}
    PROVE  mChunkPool[c].mLocked /\ mChunkPool[c].mVoxels # "edited"
<1>1. c \in TaskedChunks BY DEF IInv, NoChunkForgotten, AboutToQueue
<1>2. CASE \E n \in 1 .. Len(mList) : c = mList[n].chunk
  BY <1>2 DEF OnceInv, ListOK, AtStage
<1>3. CASE \E g \in Generators : Running(g) /\ c = task[g].chunk
  BY <1>3 DEF OnceInv, RunOK, AtStage
<1> QED BY <1>1, <1>2, <1>3 DEF TaskedChunks, Running

-----------------------------------------------------------------------------
(* Whatever the radius, the moves, the edits and the number of generator   *)
(* threads, Renderer::Draw finds no half-built mesh, and an Updated chunk  *)
(* shows its voxels, but for chunks that were queued again.                *)
THEOREM MeshesWhole == Spec => []DrawnMeshesWhole
<1>1. IInv /\ PlaceInv /\ OnceInv => DrawnMeshesWhole
  <2> SUFFICES ASSUME IInv, PlaceInv, OnceInv, at = "draw", NEW n \in Slots,
                      ~ mChunkPool[mTerrainMeshArray[n]].again
               PROVE  LET c == mChunkPool[mTerrainMeshArray[n]]
                      IN  /\ ~ c.mLocked => c.vbo \in {"terrain", "edited"}
                          /\ c.mState = "Updated" => c.vbo = c.mVoxels
    BY DEF DrawnMeshesWhole
  <2> DEFINE c == mTerrainMeshArray[n]
  <2>1. c \in DOMAIN mChunkPool /\ Once(c)
    BY AllPlaced DEF InPass, Shown, Once
  <2>2. CASE NeedsGeneration(c)
    <3>1. mChunkPool[c].mLocked BY <2>1, <2>2, WaitersLocked
    <3> QED BY <2>2, <3>1 DEF NeedsGeneration
  <2>3. CASE ~ NeedsGeneration(c)
    <3>1. Finished(mChunkPool[c])
      BY <2>1, <2>3 DEF OnceInv, MadeOK, Editing
    <3> QED BY <3>1 DEF Finished, Good
  <2> QED BY <2>2, <2>3
<1> QED BY <1>1, OnceInvariant, PTL

-----------------------------------------------------------------------------
(* Of any chunk, queued again or not: vertices are half built only while a *)
(* generator or Main is between the two steps of building them.            *)
VertsOK == \A c \in DOMAIN mChunkPool : ~ mChunkPool[c].mVerts.done =>
              \/ \E g \in Generators : /\ Running(g) /\ stage[g] = "store"
                                       /\ task[g].chunk = c
              \/ at = "remeshed" /\ rayChunk = c

(* A step that changes no vertices, and lets nobody who builds them go.    *)
LEMMA VertsSame ==
    ASSUME VertsOK,
           \A c \in DOMAIN mChunkPool' :
              \/ c \in DOMAIN mChunkPool /\ mChunkPool'[c].mVerts = mChunkPool[c].mVerts
              \/ mChunkPool'[c].mVerts.done,
           \A g \in Generators : Running(g) /\ stage[g] = "store" =>
              Running(g)' /\ stage'[g] = "store" /\ task'[g] = task[g],
           at = "remeshed" => at' = "remeshed" /\ rayChunk' = rayChunk
    PROVE  VertsOK'
  BY DEF VertsOK

LEMMA VertsUpdate ==
    ASSUME NEW c, NEW e, mChunkPool' = [mChunkPool EXCEPT ![c] = e],
           e.mVerts = mChunkPool[c].mVerts
    PROVE  /\ DOMAIN mChunkPool' = DOMAIN mChunkPool
           /\ \A k \in DOMAIN mChunkPool :
                 mChunkPool'[k].mVerts = mChunkPool[k].mVerts
  OBVIOUS

(* What Main does: only the two steps of its own meshing are of interest.  *)
LEMMA MainVerts ==
    ASSUME IInv, VertsOK, MainNext
    PROVE  VertsOK'
<1> USE DEF At
<1>1. \A g \in Generators : Running(g) =>
         Running(g)' /\ stage'[g] = stage[g] /\ task'[g] = task[g]
  <2>1. CASE ResetState \/ PushGenerate
    <3>1. \A g \in Generators : pc'[g] = pc[g] /\ task'[g] = task[g]
      <4>1. CASE ResetState
        BY <4>1, TerrainAssumption DEF ResetState, IInv, WorkInv, ThreadsOK
      <4>2. CASE PushGenerate
        BY <4>2, TerrainAssumption DEF PushGenerate, Q!Push, Q!Goto, IInv, WorkInv,
           ThreadsOK
      <4> QED BY <2>1, <4>1, <4>2
    <3>2. UNCHANGED stage BY <2>1 DEF ResetState, PushGenerate
    <3> QED BY <3>1, <3>2 DEF Running
  <2>2. CASE Spawn
    <3>1. CASE UNCHANGED <<pc, stage>> BY <2>2, <3>1 DEF Spawn, Running
    <3>2. CASE StartGenerator
      BY <2>2, <3>2 DEF Spawn, StartGenerator, Q!Goto, IInv, WorkInv, ThreadsOK, Running
    <3> QED BY <2>2, <3>1, <3>2 DEF Spawn
  <2>3. CASE ~ ResetState /\ ~ PushGenerate /\ ~ Spawn
    <3>1. UNCHANGED <<pc, task, stage>>
      BY <2>3 DEF MainNext, Stay, Move, VisitGenerated, VisitNeedsGeneration, CommitSkip,
         CommitTest, CommitUpload, CommitStore, PickNothing, PickVoxel, Remesh,
         RemeshEnd, Draw, queueVars
    <3> QED BY <3>1 DEF Running
  <2> QED BY <2>1, <2>2, <2>3
<1>2. CASE Remesh \/ RemeshEnd
  <2> DEFINE c == rayChunk
             k == mChunkPool[c]
  <2>1. c \in DOMAIN mChunkPool => k \in ChunkType BY DEF IInv, WorkInv, PoolOK
  <2>2. CASE Remesh
    <3> DEFINE e == [k EXCEPT !.mVerts = Started(k)]
    <3>1. /\ mChunkPool' = [mChunkPool EXCEPT ![c] = e]
          /\ at = "remesh" /\ at' = "remeshed" /\ rayChunk' = c
      BY <2>2 DEF Remesh, MeshBegin
    <3> HIDE DEF e
    <3>2. /\ DOMAIN mChunkPool' = DOMAIN mChunkPool
          /\ \A d \in DOMAIN mChunkPool : d # c => mChunkPool'[d] = mChunkPool[d]
      BY <3>1
    <3> QED BY <1>1, <3>1, <3>2 DEF VertsOK
  <2>3. CASE RemeshEnd
    <3>1. PICK seen : mChunkPool' = MeshEnd(c, seen) /\ at' = "draw"
      BY <2>3 DEF RemeshEnd
    <3> DEFINE e == [k EXCEPT !.mVerts = [done |-> TRUE, of |-> seen],
                              !.mState = "Generated"]
    <3>2. mChunkPool' = [mChunkPool EXCEPT ![c] = e] BY <3>1 DEF MeshEnd
    <3>3. c \in DOMAIN mChunkPool => e.mVerts.done BY <2>1 DEF ChunkType
    <3> HIDE DEF e
    <3>4. /\ DOMAIN mChunkPool' = DOMAIN mChunkPool
          /\ \A d \in DOMAIN mChunkPool :
                mChunkPool'[d] = IF d = c THEN e ELSE mChunkPool[d]
      BY <3>2
    <3> QED BY <1>1, <3>1, <3>3, <3>4 DEF VertsOK
  <2> QED BY <1>2, <2>2, <2>3
<1>3. CASE ~ Remesh /\ ~ RemeshEnd
  <2>1. at # "remeshed"
    BY <1>3 DEF MainNext, Stay, Move, VisitGenerated, VisitNeedsGeneration, ResetState,
       PushGenerate, Spawn, CommitSkip, CommitTest, CommitUpload, CommitStore,
       PickNothing, PickVoxel, Draw
  <2>2. \A c \in DOMAIN mChunkPool' :
           \/ c \in DOMAIN mChunkPool /\ mChunkPool'[c].mVerts = mChunkPool[c].mVerts
           \/ mChunkPool'[c].mVerts.done
    <3>1. CASE Stay \/ Move \/ Spawn \/ CommitSkip \/ CommitTest \/ PickNothing \/ Draw
      <4>1. UNCHANGED mChunkPool
        BY <3>1 DEF Stay, Move, Spawn, CommitSkip, CommitTest, PickNothing, Draw
      <4> QED BY <4>1
    <3>2. CASE VisitNeedsGeneration
      <4>1. PoolOK(mChunkPool) /\ Here \in ChunkKey /\ mChunkPool' = QueuedAgain(Here)
        BY <3>2, HereTyped DEF VisitNeedsGeneration, IInv, WorkInv
      <4>2. /\ DOMAIN mChunkPool' = DOMAIN mChunkPool \cup {Here}
            /\ \A c \in DOMAIN mChunkPool :
                  mChunkPool'[c].mVerts = mChunkPool[c].mVerts
            /\ Here \notin DOMAIN mChunkPool => mChunkPool'[Here] = NewChunk
        BY ONLY <4>1, QueuedAgainKeeps
      <4>3. NewChunk.mVerts.done BY DEF NewChunk
      <4> QED BY <4>2, <4>3
    <3>3. CASE VisitGenerated \/ PushGenerate
      <4> DEFINE e == [mChunkPool[Here] EXCEPT !.shift = Offset]
      <4>1. mChunkPool' = [mChunkPool EXCEPT ![Here] = e]
        BY <3>3 DEF VisitGenerated, PushGenerate, Place, Shift
      <4>2. e.mVerts = mChunkPool[Here].mVerts OBVIOUS
      <4> HIDE DEF e
      <4> QED BY <4>1, <4>2, VertsUpdate
    <3>4. CASE ResetState
      <4> DEFINE e == [mChunkPool[Here] EXCEPT !.mState = "NotGenerated", !.mLocked = TRUE]
      <4>1. mChunkPool' = [mChunkPool EXCEPT ![Here] = e] BY <3>4 DEF ResetState
      <4>2. e.mVerts = mChunkPool[Here].mVerts OBVIOUS
      <4> HIDE DEF e
      <4> QED BY <4>1, <4>2, VertsUpdate
    <3>5. CASE CommitUpload \/ CommitStore
      <4> DEFINE c == mChunks[cursor]
                 v == mChunkPool[c].mVerts
                 e == [mChunkPool[c] EXCEPT !.vbo = IF v.done THEN v.of ELSE "torn"]
                 f == [mChunkPool[c] EXCEPT !.mState = "Updated", !.mLocked = FALSE]
      <4>1. \/ mChunkPool' = [mChunkPool EXCEPT ![c] = e]
            \/ mChunkPool' = [mChunkPool EXCEPT ![c] = f]
        BY <3>5 DEF CommitUpload, CommitStore, SetUpdated
      <4>2. e.mVerts = mChunkPool[c].mVerts /\ f.mVerts = mChunkPool[c].mVerts OBVIOUS
      <4> HIDE DEF e, f
      <4> QED BY <4>1, <4>2, VertsUpdate
    <3>6. CASE PickVoxel
      <4> DEFINE c == rayChunk'
                 e == [mChunkPool[c] EXCEPT !.mVoxels = "edited"]
      <4>1. mChunkPool' = [mChunkPool EXCEPT ![c] = e] BY <3>6 DEF PickVoxel
      <4>2. e.mVerts = mChunkPool[c].mVerts OBVIOUS
      <4> HIDE DEF e
      <4> QED BY <4>1, <4>2, VertsUpdate
    <3> QED BY <1>3, <3>1, <3>2, <3>3, <3>4, <3>5, <3>6 DEF MainNext
  <2> QED BY <1>1, <2>1, <2>2, VertsSame
<1> QED BY <1>2, <1>3

LEMMA GeneratorVerts ==
    ASSUME IInv, LockOK, VertsOK, NEW g \in Generators, GeneratorNext(g)
    PROVE  VertsOK'
<1> USE DEF IInv, WorkInv
<1> DEFINE c == task[g].chunk
           k == mChunkPool[c]
<1>1. UNCHANGED <<at, rayChunk>> /\ g \in Q!Threads /\ Generators \subseteq Q!Threads
  BY DEF GeneratorNext, InQueue, GenerateCoord, GenerateFill, GenerateMesh,
     GenerateStore, mainVars, Q!Threads
<1>2. CASE InQueue(g)
  <2>1. /\ ~ Running(g) /\ UNCHANGED <<mChunkPool, stage>>
        /\ \A h \in Generators : h # g => pc'[h] = pc[h] /\ task'[h] = task[h]
    BY <1>1, <1>2 DEF InQueue, Q!EmptyWaitLock, Q!EmptyWaitTake, Q!EmptyWaitReturn,
       Q!Goto, Q!TakeFront, ThreadsOK, Running
  <2> QED BY <1>1, <2>1, VertsSame DEF Running
<1>3. CASE ~ InQueue(g)
  <2>1. Running(g) /\ k \in ChunkType
    BY <1>3, TasksInPool DEF GeneratorNext, GenerateCoord, GenerateFill, GenerateMesh,
       GenerateStore, InGenerate, Running, PoolOK
  <2>2. \A h \in Generators : Running(h) => h = g
    BY <2>1, OneRuns DEF Running
  <2>3. CASE GenerateCoord(g) \/ GenerateFill(g)
    <3> DEFINE e == [k EXCEPT !.mCoord = CoordOf(task[g]), !.mVoxels = "filling"]
               f == [k EXCEPT !.mVoxels = "terrain"]
    <3>1. /\ \/ mChunkPool' = [mChunkPool EXCEPT ![c] = e]
             \/ mChunkPool' = [mChunkPool EXCEPT ![c] = f]
          /\ stage[g] # "store"
      BY <2>3 DEF GenerateCoord, GenerateFill, InGenerate
    <3>2. e.mVerts = k.mVerts /\ f.mVerts = k.mVerts OBVIOUS
    <3> HIDE DEF e, f
    <3> QED BY <1>1, <2>2, <3>1, <3>2, VertsUpdate, VertsSame
  <2>4. CASE GenerateMesh(g)
    <3> DEFINE e == [k EXCEPT !.mVerts = Started(k)]
    <3>1. /\ mChunkPool' = [mChunkPool EXCEPT ![c] = e] /\ stage[g] = "mesh"
          /\ stage' = [stage EXCEPT ![g] = "store"] /\ UNCHANGED <<pc, task>>
      BY <2>4 DEF GenerateMesh, InGenerate, MeshBegin, queueVars
    <3> HIDE DEF e
    <3>2. /\ DOMAIN mChunkPool' = DOMAIN mChunkPool
          /\ \A d \in DOMAIN mChunkPool : d # c => mChunkPool'[d] = mChunkPool[d]
      BY <3>1
    <3>3. stage'[g] = "store" /\ Running(g)' /\ task'[g].chunk = c
      BY <2>1, <3>1 DEF ThreadsOK, Running
    <3>4. ASSUME NEW d \in DOMAIN mChunkPool, d # c, ~ mChunkPool[d].mVerts.done
          PROVE  at = "remeshed" /\ rayChunk = d
      BY <2>2, <3>1, <3>4 DEF VertsOK
    <3> QED BY <1>1, <3>2, <3>3, <3>4 DEF VertsOK
  <2>5. CASE GenerateStore(g)
    <3>1. PICK seen : mChunkPool' = MeshEnd(c, seen) BY <2>5 DEF GenerateStore
    <3> DEFINE e == [k EXCEPT !.mVerts = [done |-> TRUE, of |-> seen],
                              !.mState = "Generated"]
    <3>2. mChunkPool' = [mChunkPool EXCEPT ![c] = e] BY <3>1 DEF MeshEnd
    <3>3. e.mVerts.done BY <2>1 DEF ChunkType
    <3> HIDE DEF e
    <3>4. /\ DOMAIN mChunkPool' = DOMAIN mChunkPool
          /\ \A d \in DOMAIN mChunkPool :
                mChunkPool'[d] = IF d = c THEN e ELSE mChunkPool[d]
      BY <3>2
    <3>5. ASSUME NEW d \in DOMAIN mChunkPool, d # c, ~ mChunkPool[d].mVerts.done
          PROVE  at = "remeshed" /\ rayChunk = d
      BY <2>2, <3>5 DEF VertsOK
    <3> QED BY <1>1, <3>3, <3>4, <3>5 DEF VertsOK
  <2> QED BY <1>3, <2>3, <2>4, <2>5 DEF GeneratorNext
<1> QED BY <1>2, <1>3

LEMMA VertsStep == IInv /\ OnceInv /\ VertsOK /\ [Next]_vars => VertsOK'
<1> SUFFICES ASSUME IInv, OnceInv, VertsOK, [Next]_vars PROVE VertsOK'
  OBVIOUS
<1>1. CASE UNCHANGED vars
  <2>1. UNCHANGED <<mChunkPool, pc, task, stage, at, rayChunk>>
    BY <1>1 DEF vars, queueVars
  <2> QED BY <2>1, VertsSame DEF Running
<1>2. CASE Next
  BY <1>2, MainVerts, GeneratorVerts DEF Next, OnceInv
<1> QED BY <1>1, <1>2

(* What Update concludes from Chunk::IsGenerated is so of a chunk that was *)
(* queued once: no thread is building the vertices it is about to upload.  *)
(* Of one that was queued again they are half built only while a call of   *)
(* Generate for it runs.                                                   *)
THEOREM GeneratedFinished == Spec => []GeneratedIsFinished
<1>1. IInv /\ PlaceInv /\ OnceInv /\ VertsOK => GeneratedIsFinished
  <2> SUFFICES ASSUME IInv, PlaceInv, OnceInv, VertsOK, at = "commit",
                      IsGenerated(mChunks[cursor])
               PROVE  LET c == mChunkPool[mChunks[cursor]]
                      IN  /\ ~ c.again => c.mVerts.done /\ c.mVerts.of # "torn"
                          /\ ~ c.mVerts.done => mChunks[cursor] \in TaskedChunks
    BY DEF GeneratedIsFinished
  <2> DEFINE c == mChunks[cursor]
  <2>1. c \in DOMAIN mChunkPool
    BY AllPlaced DEF InPass, Shown, PlaceInv, LoopsOK
  <2>2. ASSUME ~ mChunkPool[c].again
        PROVE  mChunkPool[c].mVerts.done /\ mChunkPool[c].mVerts.of # "torn"
    <3>1. Finished(mChunkPool[c])
      BY <2>1, <2>2 DEF OnceInv, MadeOK, Editing, IsGenerated, NeedsGeneration, Once
    <3> QED BY <3>1 DEF Finished, Good
  <2>3. ASSUME ~ mChunkPool[c].mVerts.done PROVE c \in TaskedChunks
    <3>1. PICK g \in Generators : Running(g) /\ task[g].chunk = c
      BY <2>1, <2>3 DEF VertsOK
    <3> QED BY <3>1 DEF TaskedChunks, Running
  <2> QED BY <2>2, <2>3
<1>2. Init => VertsOK BY DEF Init, VertsOK
<1> QED BY <1>1, <1>2, VertsStep, OnceInvariant, PTL DEF Spec

(* An update of one chunk that leaves its edits.                           *)
KeepsEdits(p, q) == \A c \in DOMAIN p : p[c].mVoxels = "edited" => q[c].mVoxels = "edited"

LEMMA KeepsEditsUpdate ==
    ASSUME NEW p, NEW c, NEW e, p[c].mVoxels = "edited" => e.mVoxels = "edited",
           NEW q, q = [p EXCEPT ![c] = e]
    PROVE  KeepsEdits(p, q)
  BY DEF KeepsEdits

LEMMA MeshKeepsEdits ==
    ASSUME NEW c, NEW seen
    PROVE  /\ KeepsEdits(mChunkPool, MeshBegin(c))
           /\ KeepsEdits(mChunkPool, MeshEnd(c, seen))
<1> DEFINE b == [mChunkPool[c] EXCEPT !.mVerts = Started(mChunkPool[c])]
           e == [mChunkPool[c] EXCEPT !.mVerts = [done |-> TRUE, of |-> seen],
                                      !.mState = "Generated"]
<1>1. b.mVoxels = mChunkPool[c].mVoxels /\ e.mVoxels = mChunkPool[c].mVoxels
  OBVIOUS
<1>2. /\ MeshBegin(c) = [mChunkPool EXCEPT ![c] = b]
      /\ MeshEnd(c, seen) = [mChunkPool EXCEPT ![c] = e]
  BY DEF MeshBegin, MeshEnd
<1> HIDE DEF b, e
<1> QED BY <1>1, <1>2, KeepsEditsUpdate

LEMMA MainKeepsEdits ==
    ASSUME WorkInv, MainNext
    PROVE  KeepsEdits(mChunkPool, mChunkPool')
<1>1. CASE Stay \/ Move \/ Spawn \/ CommitSkip \/ CommitTest \/ PickNothing \/ Draw
  <2>1. UNCHANGED mChunkPool
    BY <1>1 DEF Stay, Move, Spawn, CommitSkip, CommitTest, PickNothing, Draw
  <2> QED BY <2>1 DEF KeepsEdits
<1>2. CASE VisitGenerated \/ PushGenerate
  <2> DEFINE e == [mChunkPool[Here] EXCEPT !.shift = Offset]
  <2>1. mChunkPool' = [mChunkPool EXCEPT ![Here] = e]
    BY <1>2 DEF VisitGenerated, PushGenerate, Place, Shift
  <2>2. e.mVoxels = mChunkPool[Here].mVoxels OBVIOUS
  <2> HIDE DEF e
  <2> QED BY <2>1, <2>2, KeepsEditsUpdate
<1>3. CASE VisitNeedsGeneration
  <2>1. PoolOK(mChunkPool) /\ Here \in ChunkKey /\ mChunkPool' = QueuedAgain(Here)
    BY <1>3, HereTyped DEF VisitNeedsGeneration, WorkInv
  <2>2. /\ DOMAIN mChunkPool' = DOMAIN mChunkPool \cup {Here}
        /\ \A c \in DOMAIN mChunkPool :
              /\ mChunkPool'[c].mState = mChunkPool[c].mState
              /\ mChunkPool'[c].mVoxels = mChunkPool[c].mVoxels
              /\ c # Here => mChunkPool'[c] = mChunkPool[c]
    BY ONLY <2>1, QueuedAgainKeeps
  <2> QED BY <2>2 DEF KeepsEdits
<1>4. CASE ResetState
  <2> DEFINE e == [mChunkPool[Here] EXCEPT !.mState = "NotGenerated", !.mLocked = TRUE]
  <2>1. mChunkPool' = [mChunkPool EXCEPT ![Here] = e] BY <1>4 DEF ResetState
  <2>2. e.mVoxels = mChunkPool[Here].mVoxels OBVIOUS
  <2> HIDE DEF e
  <2> QED BY <2>1, <2>2, KeepsEditsUpdate
<1>5. CASE CommitUpload
  <2> DEFINE c == mChunks[cursor]
             v == mChunkPool[c].mVerts
             e == [mChunkPool[c] EXCEPT !.vbo = IF v.done THEN v.of ELSE "torn"]
  <2>1. mChunkPool' = [mChunkPool EXCEPT ![c] = e] BY <1>5 DEF CommitUpload
  <2>2. e.mVoxels = mChunkPool[c].mVoxels OBVIOUS
  <2> HIDE DEF e
  <2> QED BY <2>1, <2>2, KeepsEditsUpdate
<1>6. CASE CommitStore
  <2> DEFINE c == mChunks[cursor]
             e == [mChunkPool[c] EXCEPT !.mState = "Updated", !.mLocked = FALSE]
  <2>1. mChunkPool' = [mChunkPool EXCEPT ![c] = e]
    BY <1>6 DEF CommitStore, SetUpdated
  <2>2. e.mVoxels = mChunkPool[c].mVoxels OBVIOUS
  <2> HIDE DEF e
  <2> QED BY <2>1, <2>2, KeepsEditsUpdate
<1>7. CASE PickVoxel
  <2> DEFINE k == mChunkPool[rayChunk']
             e == [k EXCEPT !.mVoxels = "edited"]
  <2>1. mChunkPool' = [mChunkPool EXCEPT ![rayChunk'] = e] BY <1>7 DEF PickVoxel
  <2>2. k.mVoxels = "edited" => e.mVoxels = "edited"
    <3> SUFFICES ASSUME k.mVoxels = "edited" PROVE e.mVoxels = k.mVoxels
      OBVIOUS
    <3> QED OBVIOUS
  <2> HIDE DEF e
  <2> QED BY <2>1, <2>2, KeepsEditsUpdate
<1>8. CASE Remesh \/ RemeshEnd
  BY <1>8, MeshKeepsEdits DEF Remesh, RemeshEnd
<1> QED BY <1>1, <1>2, <1>3, <1>4, <1>5, <1>6, <1>7, <1>8 DEF MainNext

LEMMA GeneratorKeepsEdits ==
    ASSUME WorkInv, OnceInv, NEW g \in Generators, GeneratorNext(g)
    PROVE  \A c \in DOMAIN mChunkPool : mChunkPool[c].mVoxels = "edited" =>
              \/ mChunkPool'[c].mVoxels = "edited"
              \/ mChunkPool[c].again /\ c \in TaskedChunks
<1> DEFINE c == task[g].chunk
<1>1. CASE InQueue(g) BY <1>1 DEF InQueue
<1>2. CASE GenerateCoord(g) \/ GenerateFill(g)
  <2>1. Running(g) /\ stage[g] \in {"coord", "fill"}
    BY <1>2 DEF GenerateCoord, GenerateFill, InGenerate, Running
  <2>2. c \in DOMAIN mChunkPool /\ c \in TaskedChunks
    BY <2>1, RunnerChunk
  <2>3. Once(c) => mChunkPool[c].mVoxels # "edited"
    BY <2>1, GeneratorAlone DEF AtStage
  <2>4. PICK e : mChunkPool' = [mChunkPool EXCEPT ![c] = e]
    BY <1>2 DEF GenerateCoord, GenerateFill
  <2> QED BY <2>2, <2>3, <2>4 DEF Once
<1>3. CASE GenerateMesh(g) \/ GenerateStore(g)
  <2>1. KeepsEdits(mChunkPool, mChunkPool')
    BY <1>3, MeshKeepsEdits DEF GenerateMesh, GenerateStore
  <2> QED BY <2>1 DEF KeepsEdits
<1> QED BY <1>1, <1>2, <1>3 DEF GeneratorNext

(* An edit that Update's picking made is undone, if at all, by a call of   *)
(* Generate for a chunk that a pass had queued again, and by nobody once   *)
(* the calls for the chunk are over.                                       *)
THEOREM EditsKept == Spec => EditsUndoneOnlyAgain
<1>1. IInv /\ PlaceInv /\ OnceInv /\ [Next]_vars =>
         [\A c \in DOMAIN mChunkPool : mChunkPool[c].mVoxels = "edited" =>
             \/ mChunkPool'[c].mVoxels = "edited"
             \/ mChunkPool[c].again /\ c \in TaskedChunks]_vars
  <2> SUFFICES ASSUME IInv, OnceInv, Next
               PROVE  \A c \in DOMAIN mChunkPool : mChunkPool[c].mVoxels = "edited" =>
                         \/ mChunkPool'[c].mVoxels = "edited"
                         \/ mChunkPool[c].again /\ c \in TaskedChunks
    OBVIOUS
  <2> QED BY MainKeepsEdits, GeneratorKeepsEdits DEF Next, IInv, KeepsEdits
<1> QED BY <1>1, OnceInvariant, PTL DEF Spec, EditsUndoneOnlyAgain

-----------------------------------------------------------------------------
(* The end of the program.  The queue is gone, and with it what IInv says  *)
(* of it; WorkInv and OnceInv hold on beside the generators that still     *)
(* run, which write to no chunk that was queued once and that ~ChunkPool   *)
(* saves.                                                                  *)
Ending == at \in {"save", "write", "off"}

DiskOK == \A c \in DOMAIN disk :
             /\ c \in DOMAIN mChunkPool
             /\ Once(c) =>
                  /\ ~ NeedsGeneration(c)
                  /\ IF at = "write" /\ c = fileName
                       THEN disk[c] \in {<<>>, <<mChunkPool[c].mVoxels>>}
                       ELSE /\ disk[c] = <<mChunkPool[c].mVoxels, mChunkPool[c].mVoxels>>
                            /\ c \notin toSave

WritingOK == at = "write" => fileName \in DOMAIN disk /\ Foremost(fileName)

PendingOK == /\ toSave \subseteq DOMAIN mChunkPool
             /\ at = "off" => toSave = {}
             /\ \A c \in DOMAIN mChunkPool : Once(c) /\ mChunkPool[c].mVoxels = "edited" =>
                   ~ NeedsGeneration(c) /\ c \in toSave \cup DOMAIN disk

ExitInv == /\ WorkInv /\ PlaceInv /\ OnceInv
           /\ DiskOK /\ WritingOK
           /\ IF Ending THEN PendingOK
                        ELSE NoChunkForgotten /\ QueuedWorkHasThread /\ DOMAIN disk = {}

LEMMA ExitInitInv == ExitInit => ExitInv
<1> SUFFICES ASSUME ExitInit PROVE ExitInv
  OBVIOUS
<1>1. IInv /\ PlaceInv /\ OnceInv BY InitInv, PlaceInit, OnceInit DEF ExitInit
<1>2. at = "slot" /\ DOMAIN disk = {} BY DEF ExitInit, Init
<1>3. DiskOK /\ WritingOK /\ ~ Ending BY <1>2 DEF DiskOK, WritingOK, Ending
<1> QED BY <1>1, <1>2, <1>3 DEF ExitInv, IInv

(* Steps outside the game, which change no chunk.                          *)
LEMMA AtRest ==
    ASSUME WorkInv, PlaceInv, OnceInv, mList' \in {mList, <<>>},
           UNCHANGED <<mMutex, mCV, pc, task, sceneVars, mChunkPool, walk, cursor,
                       rayChunk, stage, moves>>,
           at \in {"frame", "save", "write", "off"}, Ending'
    PROVE  WorkInv' /\ PlaceInv' /\ OnceInv'
<1> USE DEF WorkInv, OnceInv, Ending, sceneVars
<1>1. /\ ~ InPass /\ ~ InPass' BY DEF InPass
<1>2. mList' \in Seq(Tasks) /\ \A n \in 1 .. Len(mList') : n \in 1 .. Len(mList)
                                                        /\ mList'[n] = mList[n]
  <2>1. CASE mList' = mList BY <2>1 DEF QueueOK
  <2>2. CASE mList' = <<>>
    <3>1. Len(mList') = 0 /\ mList' \in Seq(Tasks) BY <2>2
    <3> QED BY <3>1
  <2> QED BY <2>1, <2>2
<1>3. /\ PoolOK(mChunkPool)' /\ PlacesOK' /\ ThreadsOK'
  BY DEF PoolOK, PlacesOK, ThreadsOK, Running
<1>4. QueueOK' BY <1>2 DEF QueueOK, CallOK
<1>5. RunningOK' BY DEF RunningOK, Running, CallOK, HasCoord
<1>6. PushOK' /\ MainOK' BY DEF PushOK, MainOK
<1>7. GeneratedForItsPlace' BY DEF GeneratedForItsPlace, NeedsGeneration
<1>8. PlaceInv'
  <2>1. SamePlaces(mChunkPool, mChunkPool') BY DEF SamePlaces
  <2>2. /\ UNCHANGED <<mChunks, mTerrainMeshArray, mCurrentChunk, walk>>
        /\ InPass' = InPass /\ at' \notin {"reset", "push"}
    BY <1>1 DEF InPass
  <2>3. (WalkOK /\ SlotsOK /\ FilledOK)' BY <2>1, <2>2, SlotsKept
  <2>4. LoopsOK' BY DEF PlaceInv, LoopsOK
  <2> QED BY <2>3, <2>4 DEF PlaceInv
<1>9. LockOK' BY DEF LockOK
<1>10. ListOK' BY <1>2 DEF ListOK, Once
<1>11. RunOK' BY <1>2 DEF RunOK, Running, Once
<1>12. NextOK' /\ FrameOK' BY <1>1 DEF NextOK, FrameOK
<1>13. MadeOK' BY DEF MadeOK, NeedsGeneration, Editing, Once
<1> QED BY <1>3, <1>4, <1>5, <1>6, <1>7, <1>8, <1>9, <1>10, <1>11, <1>12, <1>13

(* Beside the saving a generator writes to no chunk that was queued once   *)
(* and is saved, and makes no edit there.                                  *)
LEMMA GeneratorLeaves ==
    ASSUME WorkInv, OnceInv, NEW g \in Generators, GeneratorNext(g)
    PROVE  /\ at' = at /\ DOMAIN mChunkPool' = DOMAIN mChunkPool
           /\ \A c \in DOMAIN mChunkPool :
                 /\ Once(c)' <=> Once(c)
                 /\ Once(c) /\ ~ NeedsGeneration(c) => mChunkPool'[c] = mChunkPool[c]
                 /\ Once(c) /\ mChunkPool'[c].mVoxels = "edited" =>
                       mChunkPool[c].mVoxels = "edited"
<1> DEFINE c == task[g].chunk
           k == mChunkPool[c]
<1>1. at' = at
  BY DEF GeneratorNext, InQueue, GenerateCoord, GenerateFill, GenerateMesh,
     GenerateStore, mainVars
<1>2. CASE InQueue(g) BY <1>1, <1>2 DEF InQueue, Once
<1>3. CASE ~ InQueue(g)
  <2>1. Running(g)
    BY <1>3 DEF GeneratorNext, GenerateCoord, GenerateFill, GenerateMesh,
       GenerateStore, InGenerate, Running
  <2>2. k \in ChunkType /\ c \in DOMAIN mChunkPool BY <2>1, RunnerChunk
  <2>3. Once(c) => NeedsGeneration(c) /\ k.mVoxels # "edited"
    BY <2>1, GeneratorAlone DEF AtStage
  <2>4. PICK e : /\ mChunkPool' = [mChunkPool EXCEPT ![c] = e]
                 /\ e.again = k.again
                 /\ e.mVoxels = "edited" => k.mVoxels = "edited"
    <3>1. CASE GenerateCoord(g)
      <4> DEFINE e == [k EXCEPT !.mCoord = CoordOf(task[g]), !.mVoxels = "filling"]
      <4>1. mChunkPool' = [mChunkPool EXCEPT ![c] = e] BY <3>1 DEF GenerateCoord
      <4>2. e.mVoxels = "filling" /\ e.again = k.again BY <2>2 DEF ChunkType
      <4> HIDE DEF e
      <4> QED BY <4>1, <4>2
    <3>2. CASE GenerateFill(g)
      <4> DEFINE e == [k EXCEPT !.mVoxels = "terrain"]
      <4>1. mChunkPool' = [mChunkPool EXCEPT ![c] = e] BY <3>2 DEF GenerateFill
      <4>2. e.mVoxels = "terrain" /\ e.again = k.again BY <2>2 DEF ChunkType
      <4> HIDE DEF e
      <4> QED BY <4>1, <4>2
    <3>3. CASE GenerateMesh(g)
      <4> DEFINE e == [k EXCEPT !.mVerts = Started(k)]
      <4>1. mChunkPool' = [mChunkPool EXCEPT ![c] = e]
        BY <3>3 DEF GenerateMesh, MeshBegin
      <4>2. e.mVoxels = k.mVoxels /\ e.again = k.again OBVIOUS
      <4> HIDE DEF e, k
      <4> QED BY <4>1, <4>2
    <3>4. CASE GenerateStore(g)
      <4>1. PICK seen : mChunkPool' = MeshEnd(c, seen) BY <3>4 DEF GenerateStore
      <4> DEFINE e == [k EXCEPT !.mVerts = [done |-> TRUE, of |-> seen],
                                !.mState = "Generated"]
      <4>2. mChunkPool' = [mChunkPool EXCEPT ![c] = e] BY <4>1 DEF MeshEnd
      <4>3. e.mVoxels = k.mVoxels /\ e.again = k.again OBVIOUS
      <4> HIDE DEF e, k
      <4> QED BY <4>2, <4>3
    <3> QED BY <1>3, <3>1, <3>2, <3>3, <3>4 DEF GeneratorNext
  <2>5. /\ DOMAIN mChunkPool' = DOMAIN mChunkPool
        /\ \A d \in DOMAIN mChunkPool :
              mChunkPool'[d] = IF d = c THEN e ELSE mChunkPool[d]
    BY <2>4
  <2>6. k = mChunkPool[c] OBVIOUS
  <2> HIDE DEF k, c
  <2>7. \A d \in DOMAIN mChunkPool : Once(d)' <=> Once(d)
    BY <2>4, <2>5, <2>6 DEF Once
  <2> QED BY <1>1, <2>3, <2>4, <2>5, <2>6, <2>7
<1> QED BY <1>2, <1>3

(* The game and the generators.                                            *)
LEMMA PlayingExit ==
    ASSUME ExitInv, Playing
    PROVE  ExitInv'
<1> USE DEF ExitInv
<1>1. Next /\ UNCHANGED <<disk, fileName, toSave>> BY DEF Playing
<1>2. ASSUME MainNext PROVE ~ Ending /\ ~ Ending'
  BY <1>2 DEF MainNext, Stay, Move, VisitGenerated, VisitNeedsGeneration, ResetState,
     PushGenerate, Spawn, CommitSkip, CommitTest, CommitUpload, CommitStore,
     PickNothing, PickVoxel, Remesh, RemeshEnd, Draw, At, Place, NextCursor, Ending
<1>3. CASE ~ Ending
  <2>1. IInv' /\ PlaceInv' /\ OnceInv'
    BY <1>1, <1>3, StepInv, PlaceStep, OnceStep DEF IInv
  <2>2. ~ Ending'
    <3>1. CASE MainNext BY <1>2, <3>1
    <3>2. CASE \E g \in Generators : GeneratorNext(g)
      <4>1. at' = at BY <3>2, GeneratorLeaves
      <4> QED BY <1>3, <4>1 DEF Ending
    <3> QED BY <1>1, <3>1, <3>2 DEF Next
  <2>3. DOMAIN disk' = {} BY <1>1, <1>3
  <2>4. DiskOK' /\ WritingOK' BY <2>2, <2>3 DEF DiskOK, WritingOK, Ending
  <2> QED BY <2>1, <2>2, <2>3, <2>4 DEF IInv
<1>4. CASE Ending
  <2>1. PICK g \in Generators : GeneratorNext(g) BY <1>1, <1>2, <1>4 DEF Next
  <2>2. WorkInv' /\ PlaceInv' /\ OnceInv'
    BY <2>1, GeneratorKeeps, GeneratorPlaces, GeneratorOnce DEF Kept
  <2>3. /\ at' = at /\ DOMAIN mChunkPool' = DOMAIN mChunkPool
        /\ \A c \in DOMAIN mChunkPool :
              /\ Once(c)' <=> Once(c)
              /\ Once(c) /\ ~ NeedsGeneration(c) => mChunkPool'[c] = mChunkPool[c]
              /\ Once(c) /\ mChunkPool'[c].mVoxels = "edited" =>
                    mChunkPool[c].mVoxels = "edited"
    BY <2>1, GeneratorLeaves
  <2>4. DiskOK' BY <1>1, <2>3 DEF DiskOK, NeedsGeneration
  <2>5. WritingOK' BY <1>1, <2>3 DEF WritingOK, Foremost
  <2>6. PendingOK' BY <1>1, <1>4, <2>3 DEF PendingOK, NeedsGeneration
  <2>7. Ending' BY <1>4, <2>3 DEF Ending
  <2> QED BY <2>2, <2>4, <2>5, <2>6, <2>7
<1> QED BY <1>3, <1>4

LEMMA CloseExit ==
    ASSUME ExitInv, CloseWindow
    PROVE  ExitInv'
<1> USE DEF ExitInv
<1>1. /\ at = "frame" /\ at' = "save" /\ mList' \in {mList, <<>>}
      /\ UNCHANGED <<mMutex, mCV, pc, task, sceneVars, mChunkPool, walk, cursor,
                     rayChunk, stage, moves, disk>>
      /\ toSave' = DOMAIN mChunkPool
  BY DEF CloseWindow, At
<1>2. ~ Ending /\ Ending' BY <1>1 DEF Ending
<1>3. WorkInv' /\ PlaceInv' /\ OnceInv' BY <1>1, <1>2, AtRest
<1>4. DiskOK' /\ WritingOK' BY <1>1, <1>2 DEF DiskOK, WritingOK
<1>5. \A c \in DOMAIN mChunkPool : Once(c) /\ NeedsGeneration(c) =>
         mChunkPool[c].mVoxels # "edited"
  BY <1>1, <1>2, WaitersLocked DEF IInv
<1>6. PendingOK' BY <1>1, <1>5 DEF PendingOK, NeedsGeneration, Once
<1> QED BY <1>2, <1>3, <1>4, <1>6

-----------------------------------------------------------------------------
(* The steps of ~ChunkPool.                                                *)
LEMMA ForemostUnique ==
    ASSUME PoolOK(mChunkPool), toSave \subseteq DOMAIN mChunkPool,
           NEW c, NEW k, Foremost(c), Foremost(k)
    PROVE  c = k
<1>1. c \in Int \X Int /\ k \in Int \X Int BY DEF PoolOK, ChunkKey, Foremost
<1>2. /\ c[1] \in Int /\ c[2] \in Int /\ c = <<c[1], c[2]>>
      /\ k[1] \in Int /\ k[2] \in Int /\ k = <<k[1], k[2]>>
  BY <1>1
<1>3. /\ c[1] < k[1] \/ (c[1] = k[1] /\ c[2] <= k[2])
      /\ k[1] < c[1] \/ (k[1] = c[1] /\ k[2] <= c[2])
  BY DEF Foremost
<1>4. c[1] = k[1] /\ c[2] = k[2] BY <1>2, <1>3
<1> QED BY <1>2, <1>4

(* A second piece like the first.                                          *)
LEMMA AppendPair ==
    ASSUME NEW w
    PROVE  Append(<<w>>, w) = <<w, w>>
<1> DEFINE s == <<w>>
           t == Append(s, w)
<1>1. s \in Seq({w}) /\ Len(s) = 1 /\ s[1] = w /\ w \in {w} OBVIOUS
<1> HIDE DEF s
<1>2. /\ t \in Seq({w}) /\ Len(t) = Len(s) + 1
      /\ \A n \in 1 .. Len(s) : t[n] = s[n]
      /\ t[Len(s) + 1] = w
  BY <1>1, AppendElements
<1> HIDE DEF t
<1>3. t = [n \in 1 .. 2 |-> t[n]] /\ \A n \in 1 .. 2 : t[n] = w
  BY <1>1, <1>2
<1>4. t = [n \in 1 .. 2 |-> w] BY <1>3
<1>5. <<w, w>> = [n \in 1 .. 2 |-> w] OBVIOUS
<1> QED BY <1>4, <1>5 DEF s, t

LEMMA SaveExit ==
    ASSUME ExitInv, SaveRefused \/ SaveOpen \/ SaveVoxels \/ ProcessEnds \/ Ended
    PROVE  ExitInv'
<1> USE DEF ExitInv, At
<1>1. /\ UNCHANGED <<mList, mMutex, mCV, pc, task, sceneVars, mChunkPool, walk,
                     cursor, rayChunk, stage, moves>>
      /\ at \in {"save", "write", "off"} /\ Ending /\ Ending'
  BY DEF SaveRefused, SaveOpen, SaveVoxels, ProcessEnds, Ended, exitUnchanged,
     exitVars, vars, queueVars, Ending
<1>2. WorkInv' /\ PlaceInv' /\ OnceInv' BY <1>1, AtRest
<1>3. PendingOK BY <1>1
<1>4. /\ UNCHANGED mChunkPool
      /\ \A c : (NeedsGeneration(c)' <=> NeedsGeneration(c)) /\ (Once(c)' <=> Once(c))
  BY <1>1 DEF NeedsGeneration, Once
<1>5. CASE SaveRefused
  <2>1. PICK c \in toSave : NeedsGeneration(c) /\ toSave' = toSave \ {c}
    BY <1>5 DEF SaveRefused, MayBeSaved
  <2>2. at = "save" /\ UNCHANGED <<at, disk, fileName>> BY <1>5 DEF SaveRefused
  <2>3. DiskOK' BY <1>4, <2>1, <2>2 DEF DiskOK
  <2>4. WritingOK' BY <2>2 DEF WritingOK
  <2>5. PendingOK' BY <1>3, <1>4, <2>1, <2>2 DEF PendingOK
  <2> QED BY <1>1, <1>2, <2>3, <2>4, <2>5
<1>6. CASE SaveOpen
  <2>1. PICK c \in toSave : /\ Foremost(c) /\ ~ NeedsGeneration(c)
                            /\ fileName' = mChunkPool[c].mCoord
    BY <1>6 DEF SaveOpen, MayBeSaved
  <2>2. c \in DOMAIN mChunkPool /\ fileName' = c
    BY <1>3, <2>1 DEF PendingOK, WorkInv, GeneratedForItsPlace
  <2>3. /\ at = "save" /\ at' = "write" /\ UNCHANGED toSave
        /\ DOMAIN disk' = DOMAIN disk \cup {c}
        /\ \A f \in DOMAIN disk' : disk'[f] = IF f = c THEN <<>> ELSE disk[f]
    BY <1>6, <2>2 DEF SaveOpen
  <2>4. DiskOK' BY <1>4, <2>1, <2>2, <2>3 DEF DiskOK
  <2>5. WritingOK' BY <2>1, <2>2, <2>3 DEF WritingOK, Foremost
  <2>6. PendingOK' BY <1>3, <1>4, <2>3 DEF PendingOK
  <2> QED BY <1>1, <1>2, <2>4, <2>5, <2>6
<1>7. CASE SaveVoxels
  <2> DEFINE v == mChunkPool[fileName].mVoxels
             d == Append(disk[fileName], v)
  <2>1. at = "write" /\ UNCHANGED fileName BY <1>7 DEF SaveVoxels
  <2>2. fileName \in DOMAIN disk /\ Foremost(fileName) BY <2>1 DEF WritingOK
  <2>3. /\ fileName \in DOMAIN mChunkPool
        /\ Once(fileName) => /\ ~ NeedsGeneration(fileName)
                             /\ disk[fileName] \in {<<>>, <<v>>}
    BY <2>1, <2>2 DEF DiskOK
  <2>4. PICK c \in toSave :
           /\ Foremost(c)
           /\ disk' = [disk EXCEPT ![fileName] =
                          Append(disk[fileName], mChunkPool[c].mVoxels)]
           /\ IF Len(disk'[fileName]) = 2
                THEN at' = "save" /\ toSave' = toSave \ {c}
                ELSE UNCHANGED <<at, toSave>>
    BY <1>7 DEF SaveVoxels
  <2>5. c = fileName
    BY <1>3, <2>2, <2>4, ForemostUnique DEF PendingOK, WorkInv
  <2>6. disk' = [disk EXCEPT ![fileName] = d] BY <2>4, <2>5
  <2> HIDE DEF d
  <2>7. /\ DOMAIN disk' = DOMAIN disk /\ disk'[fileName] = d
        /\ \A f \in DOMAIN disk : f # fileName => disk'[f] = disk[f]
    BY <2>2, <2>6
  <2>8. IF Len(d) = 2 THEN at' = "save" /\ toSave' = toSave \ {fileName}
                      ELSE UNCHANGED <<at, toSave>>
    BY <2>4, <2>5, <2>7
  <2>9. Once(fileName) => IF Len(d) = 2 THEN d = <<v, v>> ELSE d = <<v>>
    <3>1. Append(<<v>>, v) = <<v, v>> BY AppendPair
    <3>2. Append(<<>>, v) = <<v>> /\ Len(<<v, v>>) = 2 /\ Len(<<v>>) = 1 OBVIOUS
    <3>3. d = Append(disk[fileName], v) BY DEF d
    <3> HIDE DEF v
    <3>4. Once(fileName) => d = <<v>> \/ d = <<v, v>>
      BY <2>3, <3>1, <3>2, <3>3
    <3> QED BY <3>2, <3>4
  <2>10. WritingOK' BY <2>1, <2>2, <2>7, <2>8 DEF WritingOK, Foremost
  <2>11. PendingOK' BY <1>3, <1>4, <2>1, <2>2, <2>7, <2>8 DEF PendingOK
  <2>12. DiskOK'
    <3>1. ASSUME NEW f \in DOMAIN disk, f # fileName, Once(f)
          PROVE  /\ ~ NeedsGeneration(f) /\ f \notin toSave'
                 /\ disk'[f] = <<mChunkPool[f].mVoxels, mChunkPool[f].mVoxels>>
      BY <2>7, <2>8, <3>1 DEF DiskOK
    <3>2. \A f \in DOMAIN disk : f \in DOMAIN mChunkPool BY DEF DiskOK
    <3>3. CASE Len(d) = 2
      BY <1>4, <2>1, <2>3, <2>7, <2>8, <2>9, <3>1, <3>2, <3>3 DEF DiskOK
    <3>4. CASE Len(d) # 2
      BY <1>4, <2>1, <2>3, <2>7, <2>8, <2>9, <3>1, <3>2, <3>4 DEF DiskOK
    <3> QED BY <3>3, <3>4
  <2> QED BY <1>1, <1>2, <2>10, <2>11, <2>12
<1>8. CASE ProcessEnds
  <2>1. at = "save" /\ at' = "off" /\ toSave = {} /\ UNCHANGED <<disk, fileName, toSave>>
    BY <1>8 DEF ProcessEnds
  <2>2. DiskOK' BY <1>4, <2>1 DEF DiskOK
  <2>3. WritingOK' BY <2>1 DEF WritingOK
  <2>4. PendingOK' BY <1>3, <1>4, <2>1 DEF PendingOK
  <2> QED BY <1>1, <1>2, <2>2, <2>3, <2>4
<1>9. CASE Ended
  <2>1. at = "off" /\ UNCHANGED <<at, disk, fileName, toSave>>
    BY <1>9 DEF Ended, exitVars, vars
  <2>2. DiskOK' BY <1>4, <2>1 DEF DiskOK
  <2>3. WritingOK' BY <2>1 DEF WritingOK
  <2>4. PendingOK' BY <1>3, <1>4, <2>1 DEF PendingOK
  <2> QED BY <1>1, <1>2, <2>2, <2>3, <2>4
<1> QED BY <1>5, <1>6, <1>7, <1>8, <1>9

LEMMA ExitStep == ExitInv /\ [ExitNext]_exitVars => ExitInv'
<1> SUFFICES ASSUME ExitInv, [ExitNext]_exitVars PROVE ExitInv'
  OBVIOUS
<1>1. CASE UNCHANGED exitVars
  <2>1. UNCHANGED <<vars, disk, fileName, toSave>> BY <1>1 DEF exitVars
  <2>2. /\ UNCHANGED <<queueVars, sceneVars, mChunkPool, at, walk, cursor, rayChunk,
                       stage, moves>>
        /\ UNCHANGED <<mList, mMutex, mCV, pc, task>>
    BY <2>1 DEF vars, queueVars
  <2>3. DiskOK' /\ WritingOK'
    BY <2>1, <2>2 DEF ExitInv, DiskOK, WritingOK, Foremost, NeedsGeneration, Once
  <2>4. CASE Ending
    <3>1. Ending' BY <2>2, <2>4 DEF Ending
    <3>2. WorkInv' /\ PlaceInv' /\ OnceInv'
      BY <2>2, <2>4, <3>1, AtRest DEF ExitInv, Ending
    <3>3. PendingOK'
      BY <2>1, <2>2, <2>4 DEF ExitInv, PendingOK, NeedsGeneration, Once
    <3> QED BY <2>3, <3>1, <3>2, <3>3 DEF ExitInv
  <2>5. CASE ~ Ending
    <3>1. ~ Ending' BY <2>2, <2>5 DEF Ending
    <3>2. IInv' /\ PlaceInv' /\ OnceInv'
      BY <2>1, <2>5, StepInv, PlaceStep, OnceStep DEF ExitInv, IInv
    <3> QED BY <2>1, <2>3, <2>5, <3>1, <3>2 DEF ExitInv, IInv
  <2> QED BY <2>4, <2>5
<1>2. CASE ExitNext
  BY <1>2, PlayingExit, CloseExit, SaveExit DEF ExitNext
<1> QED BY <1>1, <1>2

(* At whatever frame the window is closed, and however far the detached    *)
(* generators are while ~ChunkPool saves and in the freed queue: the file  *)
(* of a chunk that no pass had queued again is whole, with its edits.      *)
THEOREM FilesWhole == ExitSpec => []SavedIsWhole
<1>1. ExitInv => SavedIsWhole
  <2> SUFFICES ASSUME ExitInv, at = "off", NEW c \in DOMAIN mChunkPool,
                      ~ mChunkPool[c].again
               PROVE  /\ c \in DOMAIN disk => Whole(c)
                      /\ mChunkPool[c].mVoxels = "edited" =>
                            c \in DOMAIN disk /\ disk[c] = <<"edited", "edited">>
    BY DEF SavedIsWhole
  <2>1. PendingOK /\ toSave = {} BY DEF ExitInv, Ending, PendingOK
  <2>2. Once(c) BY DEF Once
  <2>3. ASSUME c \in DOMAIN disk
        PROVE  /\ disk[c] = <<mChunkPool[c].mVoxels, mChunkPool[c].mVoxels>>
               /\ mChunkPool[c].mVoxels \in {"terrain", "edited"}
    <3>1. /\ ~ NeedsGeneration(c)
          /\ disk[c] = <<mChunkPool[c].mVoxels, mChunkPool[c].mVoxels>>
      BY <2>2, <2>3 DEF ExitInv, DiskOK
    <3>2. Finished(mChunkPool[c])
      BY <2>2, <3>1 DEF ExitInv, OnceInv, MadeOK, Editing
    <3> QED BY <3>1, <3>2 DEF Finished, Good
  <2>4. c \in DOMAIN disk => Whole(c) BY <2>3 DEF Whole
  <2>5. ASSUME mChunkPool[c].mVoxels = "edited"
        PROVE  c \in DOMAIN disk /\ disk[c] = <<"edited", "edited">>
    <3>1. c \in DOMAIN disk BY <2>1, <2>2, <2>5 DEF PendingOK
    <3> QED BY <2>3, <2>5, <3>1
  <2> QED BY <2>4, <2>5
<1>2. ExitInv /\ [ExitNext]_exitVars => ExitInv' BY ExitStep
<1> QED BY <1>1, <1>2, ExitInitInv, PTL DEF ExitSpec

-----------------------------------------------------------------------------
(* A chunk the Renderer may draw is unlocked; it was generated, and no     *)
(* chunk that Main is about to reset is one of them.                       *)
ShownInv == /\ \A c \in DOMAIN mChunkPool :
                  ~ mChunkPool[c].mLocked => ~ NeedsGeneration(c)
            /\ at = "reset" => mChunkPool[Here].mLocked

(* A chunk e in the place of k takes nothing back.                         *)
Forward(k, e) == /\ k.mState # "NotGenerated" => e.mState # "NotGenerated"
                 /\ ~ k.mLocked => ~ e.mLocked
                 /\ ~ e.mLocked => e.mState # "NotGenerated" \/ e.mLocked = k.mLocked

ForwardOnly(p, q) ==
    /\ DOMAIN p \subseteq DOMAIN q
    /\ \A c \in DOMAIN p : Forward(p[c], q[c])
    /\ \A c \in DOMAIN q \ DOMAIN p : q[c].mLocked

LEMMA ForwardUpdate ==
    ASSUME NEW p, NEW c, NEW e, c \in DOMAIN p => Forward(p[c], e),
           NEW q, q = [p EXCEPT ![c] = e]
    PROVE  ForwardOnly(p, q)
<1>1. DOMAIN q = DOMAIN p /\ \A k \in DOMAIN p : q[k] = IF k = c THEN e ELSE p[k]
  OBVIOUS
<1>2. \A k \in DOMAIN p : Forward(p[k], p[k])
  BY DEF Forward
<1> QED BY <1>1, <1>2 DEF ForwardOnly

LEMMA SameForward ==
    ASSUME UNCHANGED mChunkPool
    PROVE  ForwardOnly(mChunkPool, mChunkPool')
  BY DEF ForwardOnly, Forward

LEMMA MeshForward ==
    ASSUME PoolOK(mChunkPool), NEW c, NEW seen
    PROVE  /\ ForwardOnly(mChunkPool, MeshBegin(c))
           /\ ForwardOnly(mChunkPool, MeshEnd(c, seen))
<1> DEFINE b == [mChunkPool[c] EXCEPT !.mVerts = Started(mChunkPool[c])]
           e == [mChunkPool[c] EXCEPT !.mVerts = [done |-> TRUE, of |-> seen],
                                      !.mState = "Generated"]
<1>1. ASSUME c \in DOMAIN mChunkPool
      PROVE  Forward(mChunkPool[c], b) /\ Forward(mChunkPool[c], e)
  <2>1. mChunkPool[c] \in ChunkType BY <1>1 DEF PoolOK
  <2>2. /\ b.mState = mChunkPool[c].mState /\ b.mLocked = mChunkPool[c].mLocked
        /\ e.mState = "Generated" /\ e.mLocked = mChunkPool[c].mLocked
    BY <2>1 DEF ChunkType
  <2> QED BY <2>2 DEF Forward
<1>2. /\ MeshBegin(c) = [mChunkPool EXCEPT ![c] = b]
      /\ MeshEnd(c, seen) = [mChunkPool EXCEPT ![c] = e]
  BY DEF MeshBegin, MeshEnd
<1> HIDE DEF b, e
<1> QED BY <1>1, <1>2, ForwardUpdate

LEMMA MainForward ==
    ASSUME WorkInv, MainNext, ~ ResetState
    PROVE  ForwardOnly(mChunkPool, mChunkPool')
<1>1. CASE Stay \/ Move \/ Spawn \/ CommitSkip \/ CommitTest \/ PickNothing \/ Draw
  BY <1>1, SameForward DEF Stay, Move, Spawn, CommitSkip, CommitTest, PickNothing, Draw
<1>2. CASE VisitGenerated \/ PushGenerate
  <2> DEFINE e == [mChunkPool[Here] EXCEPT !.shift = Offset]
  <2>1. mChunkPool' = [mChunkPool EXCEPT ![Here] = e]
    BY <1>2 DEF VisitGenerated, PushGenerate, Place, Shift
  <2>2. e.mState = mChunkPool[Here].mState /\ e.mLocked = mChunkPool[Here].mLocked
    OBVIOUS
  <2> HIDE DEF e
  <2>3. Forward(mChunkPool[Here], e) BY <2>2 DEF Forward
  <2> QED BY <2>1, <2>3, ForwardUpdate
<1>3. CASE VisitNeedsGeneration
  <2>1. PoolOK(mChunkPool) /\ Here \in ChunkKey /\ mChunkPool' = QueuedAgain(Here)
    BY <1>3, HereTyped DEF VisitNeedsGeneration, WorkInv
  <2>2. /\ DOMAIN mChunkPool' = DOMAIN mChunkPool \cup {Here}
        /\ \A c \in DOMAIN mChunkPool : c # Here => mChunkPool'[c] = mChunkPool[c]
        /\ Here \in DOMAIN mChunkPool => mChunkPool'[Here].again
        /\ Here \notin DOMAIN mChunkPool => mChunkPool'[Here] = NewChunk
    BY ONLY <2>1, QueuedAgainKeeps
  <2>3. /\ Here \in DOMAIN mChunkPool => mChunkPool'[Here].mLocked = mChunkPool[Here].mLocked
        /\ Here \in DOMAIN mChunkPool => mChunkPool'[Here].mState = mChunkPool[Here].mState
    BY ONLY <2>1, QueuedAgainKeeps
  <2>4. NewChunk.mLocked BY DEF NewChunk
  <2> QED BY <2>2, <2>3, <2>4 DEF ForwardOnly, Forward
<1>4. CASE CommitUpload
  <2> DEFINE c == mChunks[cursor]
             v == mChunkPool[c].mVerts
             e == [mChunkPool[c] EXCEPT !.vbo = IF v.done THEN v.of ELSE "torn"]
  <2>1. mChunkPool' = [mChunkPool EXCEPT ![c] = e] BY <1>4 DEF CommitUpload
  <2>2. e.mState = mChunkPool[c].mState /\ e.mLocked = mChunkPool[c].mLocked OBVIOUS
  <2> HIDE DEF e
  <2>3. Forward(mChunkPool[c], e) BY <2>2 DEF Forward
  <2> QED BY <2>1, <2>3, ForwardUpdate
<1>5. CASE CommitStore
  <2> DEFINE c == mChunks[cursor]
             e == [mChunkPool[c] EXCEPT !.mState = "Updated", !.mLocked = FALSE]
  <2>1. mChunkPool' = [mChunkPool EXCEPT ![c] = e]
    BY <1>5 DEF CommitStore, SetUpdated
  <2>2. ASSUME c \in DOMAIN mChunkPool PROVE Forward(mChunkPool[c], e)
    <3>1. mChunkPool[c] \in ChunkType BY <2>2 DEF WorkInv, PoolOK
    <3>2. e.mState = "Updated" /\ ~ e.mLocked BY <3>1 DEF ChunkType
    <3> QED BY <3>2 DEF Forward
  <2> HIDE DEF e
  <2> QED BY <2>1, <2>2, ForwardUpdate
<1>6. CASE PickVoxel
  <2> DEFINE k == mChunkPool[rayChunk']
             e == [k EXCEPT !.mVoxels = "edited"]
  <2>1. mChunkPool' = [mChunkPool EXCEPT ![rayChunk'] = e] BY <1>6 DEF PickVoxel
  <2>2. e.mState = k.mState /\ e.mLocked = k.mLocked OBVIOUS
  <2> HIDE DEF e
  <2>3. Forward(k, e) BY <2>2 DEF Forward
  <2> QED BY <2>1, <2>3, ForwardUpdate
<1>7. CASE Remesh \/ RemeshEnd
  BY <1>7, MeshForward DEF Remesh, RemeshEnd, WorkInv
<1> QED BY <1>1, <1>2, <1>3, <1>4, <1>5, <1>6, <1>7 DEF MainNext

LEMMA GeneratorForward ==
    ASSUME PoolOK(mChunkPool), NEW g \in Generators, GeneratorNext(g)
    PROVE  ForwardOnly(mChunkPool, mChunkPool')
<1> DEFINE c == task[g].chunk
<1>1. CASE InQueue(g) BY <1>1, SameForward DEF InQueue
<1>2. CASE GenerateCoord(g) \/ GenerateFill(g)
  <2> DEFINE k == mChunkPool[c]
             e == [k EXCEPT !.mCoord = CoordOf(task[g]), !.mVoxels = "filling"]
             f == [k EXCEPT !.mVoxels = "terrain"]
  <2>1. \/ mChunkPool' = [mChunkPool EXCEPT ![c] = e]
        \/ mChunkPool' = [mChunkPool EXCEPT ![c] = f]
    BY <1>2 DEF GenerateCoord, GenerateFill
  <2>2. /\ e.mState = k.mState /\ e.mLocked = k.mLocked
        /\ f.mState = k.mState /\ f.mLocked = k.mLocked
    OBVIOUS
  <2> HIDE DEF e, f
  <2>3. Forward(k, e) /\ Forward(k, f) BY <2>2 DEF Forward
  <2> QED BY <2>1, <2>3, ForwardUpdate
<1>3. CASE GenerateMesh(g) \/ GenerateStore(g)
  BY <1>3, MeshForward DEF GenerateMesh, GenerateStore
<1> QED BY <1>1, <1>2, <1>3 DEF GeneratorNext

(* Generators do not touch the lock, which is Main's.                      *)
LEMMA GeneratorLocks ==
    ASSUME NEW g \in Generators, GeneratorNext(g), NEW k \in DOMAIN mChunkPool
    PROVE  mChunkPool'[k].mLocked = mChunkPool[k].mLocked
<1> DEFINE c == task[g].chunk
<1>1. ASSUME NEW e, e.mLocked = mChunkPool[c].mLocked,
             mChunkPool' = [mChunkPool EXCEPT ![c] = e]
      PROVE  mChunkPool'[k].mLocked = mChunkPool[k].mLocked
  BY <1>1
<1>2. CASE InQueue(g) BY <1>2 DEF InQueue
<1>3. CASE GenerateCoord(g) \/ GenerateFill(g) \/ GenerateMesh(g)
  <2> DEFINE e == [mChunkPool[c] EXCEPT !.mCoord = CoordOf(task[g]), !.mVoxels = "filling"]
             f == [mChunkPool[c] EXCEPT !.mVoxels = "terrain"]
             b == [mChunkPool[c] EXCEPT !.mVerts = Started(mChunkPool[c])]
  <2>1. \/ mChunkPool' = [mChunkPool EXCEPT ![c] = e]
        \/ mChunkPool' = [mChunkPool EXCEPT ![c] = f]
        \/ mChunkPool' = [mChunkPool EXCEPT ![c] = b]
    BY <1>3 DEF GenerateCoord, GenerateFill, GenerateMesh, MeshBegin
  <2>2. /\ e.mLocked = mChunkPool[c].mLocked /\ f.mLocked = mChunkPool[c].mLocked
        /\ b.mLocked = mChunkPool[c].mLocked
    OBVIOUS
  <2> HIDE DEF e, f, b
  <2> QED BY <2>1, <2>2, <1>1
<1>4. CASE GenerateStore(g)
  <2>1. PICK seen \in SeenBy(c) : mChunkPool' = MeshEnd(c, seen)
    BY <1>4 DEF GenerateStore
  <2> DEFINE e == [mChunkPool[c] EXCEPT !.mVerts = [done |-> TRUE, of |-> seen],
                                        !.mState = "Generated"]
  <2>2. mChunkPool' = [mChunkPool EXCEPT ![c] = e] BY <2>1 DEF MeshEnd
  <2>3. e.mLocked = mChunkPool[c].mLocked OBVIOUS
  <2> HIDE DEF e
  <2> QED BY <2>2, <2>3, <1>1
<1> QED BY <1>2, <1>3, <1>4 DEF GeneratorNext

LEMMA ShownInit == Init => ShownInv
  BY DEF Init, ShownInv, NeedsGeneration

(* A step that takes no chunk back keeps the invariant, unless Main comes  *)
(* to a chunk: then that is one that waits.                                *)
LEMMA ForwardShown ==
    ASSUME ShownInv, ForwardOnly(mChunkPool, mChunkPool')
    PROVE  \A c \in DOMAIN mChunkPool' :
              ~ mChunkPool'[c].mLocked => mChunkPool'[c].mState # "NotGenerated"
<1> SUFFICES ASSUME NEW c \in DOMAIN mChunkPool', ~ mChunkPool'[c].mLocked
             PROVE  mChunkPool'[c].mState # "NotGenerated"
  OBVIOUS
<1>1. c \in DOMAIN mChunkPool /\ Forward(mChunkPool[c], mChunkPool'[c])
  BY DEF ForwardOnly
<1> QED BY <1>1 DEF Forward, ShownInv, NeedsGeneration

(* A chunk that the Renderer shows is never locked again, wherever the     *)
(* player walks and whatever the generators do.                            *)
StayShown == \A c \in DOMAIN mChunkPool : ~ mChunkPool[c].mLocked =>
                c \in DOMAIN mChunkPool' /\ ~ mChunkPool'[c].mLocked

LEMMA ShownStep ==
    ASSUME IInv, ShownInv, Next
    PROVE  ShownInv' /\ StayShown
<1> USE DEF At
<1>1. CASE ResetState
  <2>1. at = "reset" /\ at' = "push" /\ Here \in DOMAIN mChunkPool
    BY <1>1 DEF ResetState, IInv, WorkInv, PushOK
  <2> DEFINE e == [mChunkPool[Here] EXCEPT !.mState = "NotGenerated", !.mLocked = TRUE]
  <2>2. mChunkPool' = [mChunkPool EXCEPT ![Here] = e] BY <1>1 DEF ResetState
  <2>3. mChunkPool[Here].mLocked /\ e.mLocked
    <3>1. mChunkPool[Here] \in ChunkType BY <2>1 DEF IInv, WorkInv, PoolOK
    <3> QED BY <2>1, <3>1 DEF ChunkType, ShownInv
  <2> HIDE DEF e
  <2>4. /\ DOMAIN mChunkPool' = DOMAIN mChunkPool
        /\ \A c \in DOMAIN mChunkPool :
              mChunkPool'[c] = IF c = Here THEN e ELSE mChunkPool[c]
    BY <2>2
  <2> QED BY <2>1, <2>3, <2>4 DEF ShownInv, NeedsGeneration, StayShown
<1>2. CASE ~ ResetState
  <2>1. ForwardOnly(mChunkPool, mChunkPool')
    BY <1>2, MainForward, GeneratorForward DEF Next, IInv, WorkInv
  <2>2. \A c \in DOMAIN mChunkPool' :
           ~ mChunkPool'[c].mLocked => mChunkPool'[c].mState # "NotGenerated"
    BY <2>1, ForwardShown
  <2>3. at' = "reset" => mChunkPool'[Here'].mLocked
    <3>1. CASE VisitNeedsGeneration
      <4>1. PoolOK(mChunkPool) /\ Here \in ChunkKey /\ mChunkPool' = QueuedAgain(Here)
        BY <3>1, HereTyped DEF VisitNeedsGeneration, IInv, WorkInv
      <4>2. Here \in DOMAIN mChunkPool =>
               mChunkPool'[Here].mLocked = mChunkPool[Here].mLocked
        BY ONLY <4>1, QueuedAgainKeeps
      <4>3. DOMAIN mChunkPool' = DOMAIN mChunkPool \cup {Here}
        BY ONLY <4>1, QueuedAgainKeeps
      <4>4. Here' = Here
        BY <3>1 DEF VisitNeedsGeneration, sceneVars, Here, Offset
      <4>5. CASE Here \in DOMAIN mChunkPool
        <5>1. mChunkPool[Here].mLocked
          BY <3>1, <4>5 DEF VisitNeedsGeneration, ShownInv
        <5> QED BY <4>2, <4>4, <4>5, <5>1
      <4>6. CASE Here \notin DOMAIN mChunkPool
        BY <2>1, <4>3, <4>4, <4>6 DEF ForwardOnly
      <4> QED BY <4>5, <4>6
    <3>2. CASE \E g \in Generators : GeneratorNext(g)
      <4> SUFFICES ASSUME at' = "reset" PROVE mChunkPool'[Here'].mLocked
        OBVIOUS
      <4>1. UNCHANGED <<at, walk, mCurrentChunk>>
        BY <3>2 DEF GeneratorNext, InQueue, GenerateCoord, GenerateFill, GenerateMesh,
           GenerateStore, mainVars, sceneVars
      <4>2. Here' = Here /\ Here \in DOMAIN mChunkPool /\ mChunkPool[Here].mLocked
        BY <4>1 DEF Here, Offset, IInv, WorkInv, PushOK, ShownInv
      <4>3. PICK g \in Generators : GeneratorNext(g)
        BY <3>2
      <4>4. mChunkPool'[Here].mLocked = mChunkPool[Here].mLocked
        BY <4>2, <4>3, GeneratorLocks
      <4> QED BY <4>2, <4>4
    <3>3. CASE MainNext /\ ~ VisitNeedsGeneration
      BY <1>2, <3>3 DEF MainNext, Stay, Move, VisitGenerated, PushGenerate, Place, Spawn,
         CommitSkip, CommitTest, CommitUpload, CommitStore, NextCursor, PickNothing,
         PickVoxel, Remesh, RemeshEnd, Draw
    <3> QED BY <3>1, <3>2, <3>3 DEF Next
  <2>4. StayShown BY <2>1 DEF ForwardOnly, Forward, StayShown
  <2> QED BY <2>2, <2>3, <2>4 DEF ShownInv, NeedsGeneration
<1> QED BY <1>1, <1>2

(* ResetState, the one place that locks a chunk, never meets a shown one.  *)
THEOREM ShownStays == Spec => [][StayShown]_vars
<1>1. IInv /\ ShownInv /\ [Next]_vars => ShownInv'
  <2>1. CASE UNCHANGED vars
    BY <2>1 DEF vars, sceneVars, ShownInv, NeedsGeneration, Here, Offset
  <2> QED BY <2>1, ShownStep
<1>2. IInv /\ ShownInv /\ [Next]_vars => [StayShown]_vars
  BY ShownStep
<1> QED BY ShownInit, <1>1, <1>2, Inductive, PTL DEF Spec

-----------------------------------------------------------------------------
(* The program as a user of the queue.  Main is in Push exactly while the  *)
(* frame is there, and nobody keeps a task it has given away or finished.  *)
CallInv == /\ pc[Main] = IF at = "push" THEN "Push" ELSE "idle"
           /\ task[Main] # NoTask => at = "push"
           /\ \A g \in Generators : task[g] # NoTask => Running(g)

LEMMA CallInit == Init => CallInv /\ Q!Init
  BY DEF Init, CallInv, Q!Init, Q!Threads

LEMMA QueueThreads ==
    /\ Q!Threads = {Main} \cup Generators
    /\ Main \notin Generators
  BY TerrainAssumption DEF Q!Threads

(* The calls that wait or run: each was made in the pass it names, and in  *)
(* the present pass at an offset that the walk has left.                   *)
Calls == {mList[n] : n \in 1 .. Len(mList)}
            \cup {task[g] : g \in {h \in Generators : Running(h)}}

Fresh(k) == /\ k.pass <= moves
            /\ k.pass = moves => Seen(k.offset, walk.i, walk.j)

FreshOK == /\ \A k \in Calls : Fresh(k)
           /\ at = "push" => task[Main].pass = moves /\ task[Main].offset = Offset

LEMMA CallsTyped ==
    ASSUME WorkInv
    PROVE  Calls \subseteq Tasks
  BY DEF WorkInv, QueueOK, RunningOK, CallOK, Calls

(* The walk leaves the offset it is at, and comes back to none.            *)
LEMMA WalkLeaves ==
    ASSUME PlaceInv, InPass, walk' = NextSlot(walk)
    PROVE  \A q \in ChunkKey :
              Seen(q, walk.i, walk.j) \/ q = Offset => Seen(q, walk'.i, walk'.j)
<1>1. /\ Offset = RingPoint(walk.i, walk.j) /\ Offset \in ChunkKey
      /\ walk.i \in Nat /\ walk.j \in 0 .. ChunksInRadius(walk.i) - 1
      /\ walk = WalkAt(walk.i, walk.j, Before(walk.i) + walk.j)
      /\ walk.chunkIndex \in Nat /\ walk.chunkIndex = Before(walk.i) + walk.j
  BY WalkPoint DEF PlaceInv, WalkOK
<1>2. /\ walk'.i = IF walk.j + 1 < ChunksInRadius(walk.i) THEN walk.i ELSE walk.i + 1
      /\ walk'.j = IF walk.j + 1 < ChunksInRadius(walk.i) THEN walk.j + 1 ELSE 0
  <2>1. walk' = NextSlot(WalkAt(walk.i, walk.j, Before(walk.i) + walk.j))
    BY <1>1
  <2>2. Before(walk.i) + walk.j \in Nat BY <1>1
  <2> QED BY <1>1, <2>1, <2>2, NextSlotFollows
<1>3. \A q \in ChunkKey : Seen(q, walk'.i, walk'.j) <=>
                             Seen(q, walk.i, walk.j) \/ q = RingPoint(walk.i, walk.j)
  BY <1>1, <1>2, SeenNext DEF ChunkKey
<1> QED BY <1>1, <1>3

(* Generators make no call; they take one and end it.                      *)
LEMMA GeneratorFresh ==
    ASSUME WorkInv, FreshOK, NEW g \in Generators, GeneratorNext(g)
    PROVE  FreshOK'
<1> USE DEF Q!Goto
<1>1. /\ UNCHANGED <<at, walk, moves>> /\ Offset' = Offset
      /\ g \in Q!Threads /\ Generators \subseteq Q!Threads
      /\ Main \in Q!Threads /\ Main # g
  BY TerrainAssumption DEF GeneratorNext, InQueue, GenerateCoord, GenerateFill,
     GenerateMesh, GenerateStore, mainVars, Offset, Q!Threads
<1>2. /\ pc \in [Q!Threads -> Q!Labels] /\ task \in [Q!Threads -> Tasks \cup {NoTask}]
      /\ mList \in Seq(Tasks)
  BY DEF WorkInv, ThreadsOK, QueueOK
<1>3. task'[Main] = task[Main]
  <2>1. UNCHANGED task \/ \E k : task' = [task EXCEPT ![g] = k]
    BY DEF GeneratorNext, InQueue, GenerateCoord, GenerateFill, GenerateMesh,
       GenerateStore, queueVars, Q!EmptyWaitLock, Q!EmptyWaitTake, Q!TakeFront,
       Q!EmptyWaitReturn, Q!EmptyWaitTaskDone
  <2> QED BY <1>1, <1>2, <2>1
<1>4. Calls' \subseteq Calls
  <2>1. CASE GenerateCoord(g) \/ GenerateFill(g) \/ GenerateMesh(g)
    <3>1. UNCHANGED <<mList, pc, task>>
      BY <2>1 DEF GenerateCoord, GenerateFill, GenerateMesh, queueVars
    <3> QED BY <3>1 DEF Calls, Running
  <2>2. CASE Q!EmptyWaitLock(g) \/ Q!EmptyWaitReturn(g) \/ Q!EmptyWaitTaskDone(g)
    <3>1. /\ UNCHANGED mList /\ pc'[g] # "EmptyWait_run"
          /\ \A h \in Generators : h # g => pc'[h] = pc[h] /\ task'[h] = task[h]
      BY <1>1, <1>2, <2>2 DEF Q!EmptyWaitLock, Q!EmptyWaitReturn, Q!EmptyWaitTaskDone
    <3> QED BY <3>1 DEF Calls, Running
  <2>3. CASE Q!EmptyWaitTake(g)
    <3>1. /\ mList # <<>> /\ mList' = Tail(mList) /\ task'[g] = Head(mList)
          /\ \A h \in Generators : h # g => pc'[h] = pc[h] /\ task'[h] = task[h]
      BY <1>1, <1>2, <2>3 DEF Q!EmptyWaitTake, Q!TakeFront
    <3>2. /\ Head(mList) = mList[1] /\ 1 \in 1 .. Len(mList)
          /\ \A n \in 1 .. Len(mList') :
                n + 1 \in 1 .. Len(mList) /\ mList'[n] = mList[n + 1]
      BY <1>2, <3>1, TailElements
    <3> QED BY <3>1, <3>2 DEF Calls, Running
  <2> QED BY <2>1, <2>2, <2>3 DEF GeneratorNext, InQueue, GenerateStore
<1> QED BY <1>1, <1>3, <1>4 DEF FreshOK, Fresh

(* Main's steps: a move makes every call one of an earlier pass, and a     *)
(* push leaves the offset of its call behind.                              *)
LEMMA MainFresh ==
    ASSUME IInv, PlaceInv, FreshOK, MainNext
    PROVE  FreshOK'
<1> USE DEF At
<1>1. /\ pc \in [Q!Threads -> Q!Labels] /\ task \in [Q!Threads -> Tasks \cup {NoTask}]
      /\ mList \in Seq(Tasks) /\ Main \in Q!Threads /\ Generators \subseteq Q!Threads
      /\ Main \notin Generators /\ moves \in Nat /\ WorkInv
  BY TerrainAssumption, PassTyped DEF IInv, WorkInv, ThreadsOK, QueueOK, Q!Threads
<1>2. \A k \in Calls : k.pass \in Nat /\ k.offset \in ChunkKey
  BY <1>1, CallsTyped DEF Tasks
<1>3. CASE Move
  <2>1. /\ moves' = moves + 1 /\ at' = "slot" /\ UNCHANGED <<mList, pc, task>>
    BY <1>3 DEF Move, queueVars
  <2>2. Calls' = Calls BY <2>1 DEF Calls, Running
  <2> QED BY <1>1, <1>2, <2>1, <2>2 DEF FreshOK, Fresh
<1>4. CASE VisitGenerated \/ PushGenerate
  <2>1. /\ InPass /\ walk' = NextSlot(walk) /\ at' # "push" /\ UNCHANGED moves
    BY <1>4 DEF VisitGenerated, PushGenerate, Place, InPass
  <2>2. \A q \in ChunkKey :
           Seen(q, walk.i, walk.j) \/ q = Offset => Seen(q, walk'.i, walk'.j)
    BY <2>1, WalkLeaves
  <2>3. \A k \in Calls : Fresh(k)'
    BY <1>2, <2>1, <2>2 DEF FreshOK, Fresh
  <2>4. CASE VisitGenerated
    <3>1. Calls' = Calls BY <2>4 DEF VisitGenerated, queueVars, Calls, Running
    <3> QED BY <2>1, <2>3, <3>1 DEF FreshOK
  <2>5. CASE PushGenerate
    <3>1. /\ mList' = Append(mList, task[Main]) /\ at = "push"
          /\ pc' = [pc EXCEPT ![Main] = "idle"]
          /\ task' = [task EXCEPT ![Main] = NoTask]
      BY <2>5 DEF PushGenerate, Q!Push, Q!Goto
    <3>2. /\ task[Main] \in Tasks /\ task[Main].pass = moves
          /\ task[Main].offset = Offset /\ Offset \in ChunkKey
      BY <1>1, <3>1, HereTyped DEF FreshOK, WorkInv, PushOK, CallOK
    <3>3. \A k : k = task[Main] => Fresh(k)'
      <4>1. Seen(Offset, walk'.i, walk'.j) BY <2>2, <3>2
      <4> QED BY <1>1, <2>1, <3>2, <4>1 DEF Fresh
    <3>4. Calls' \subseteq Calls \cup {task[Main]}
      <4>1. /\ \A n \in 1 .. Len(mList) : mList'[n] = mList[n]
            /\ Len(mList') = Len(mList) + 1 /\ mList'[Len(mList) + 1] = task[Main]
        BY <1>1, <3>1, <3>2, AppendElements
      <4>2. \A n \in 1 .. Len(mList') : n \in 1 .. Len(mList) \/ n = Len(mList) + 1
        BY <1>1, <4>1
      <4>3. \A g \in Generators : pc'[g] = pc[g] /\ task'[g] = task[g]
        BY <1>1, <3>1
      <4> QED BY <4>1, <4>2, <4>3 DEF Calls, Running
    <3> QED BY <2>1, <2>3, <3>3, <3>4 DEF FreshOK
  <2> QED BY <1>4, <2>4, <2>5
<1>5. CASE ResetState
  <2>1. /\ at' = "push" /\ UNCHANGED <<mList, walk, moves>>
        /\ pc' = [pc EXCEPT ![Main] = "Push"]
        /\ task' = [task EXCEPT ![Main] = [chunk |-> Here, offset |-> Offset,
                                           current |-> mCurrentChunk, pass |-> moves]]
    BY <1>5 DEF ResetState
  <2>2. \A g \in Generators : pc'[g] = pc[g] /\ task'[g] = task[g]
    BY <1>1, <2>1
  <2>3. Calls' = Calls BY <2>1, <2>2 DEF Calls, Running
  <2>4. task'[Main].pass = moves' /\ task'[Main].offset = Offset'
    BY <1>1, <2>1 DEF Offset
  <2> QED BY <2>1, <2>3, <2>4 DEF FreshOK, Fresh
<1>6. CASE Spawn
  <2>1. /\ at' = "commit" /\ UNCHANGED <<mList, task, walk, moves>>
        /\ \A g \in Generators : Running(g)' <=> Running(g)
    <3>1. CASE UNCHANGED pc BY <1>6, <3>1 DEF Spawn, Running
    <3>2. CASE StartGenerator
      BY <1>1, <1>6, <3>2 DEF Spawn, StartGenerator, Q!Goto, Running
    <3> QED BY <1>6, <3>1, <3>2 DEF Spawn
  <2>2. Calls' = Calls BY <2>1 DEF Calls
  <2> QED BY <2>1, <2>2 DEF FreshOK, Fresh
<1>7. CASE ~ Move /\ ~ VisitGenerated /\ ~ PushGenerate /\ ~ ResetState /\ ~ Spawn
  <2>1. at' # "push" /\ UNCHANGED <<mList, pc, task, walk, moves>>
    BY <1>7 DEF MainNext, Stay, VisitNeedsGeneration, CommitSkip, CommitTest,
       CommitUpload, CommitStore, NextCursor, PickNothing, PickVoxel, Remesh,
       RemeshEnd, Draw, queueVars
  <2>2. Calls' = Calls BY <2>1 DEF Calls, Running
  <2> QED BY <2>1, <2>2 DEF FreshOK, Fresh
<1> QED BY <1>3, <1>4, <1>5, <1>6, <1>7

LEMMA FreshInvariant == Spec => [](IInv /\ PlaceInv /\ FreshOK)
<1>1. Init => FreshOK
  BY DEF Init, Q!Init, Q!Threads, FreshOK, Calls, Running
<1>2. IInv /\ PlaceInv /\ FreshOK /\ [Next]_vars => FreshOK'
  <2> SUFFICES ASSUME IInv, PlaceInv, FreshOK, [Next]_vars PROVE FreshOK'
    OBVIOUS
  <2>1. CASE UNCHANGED vars
    BY <2>1 DEF vars, queueVars, FreshOK, Fresh, Calls, Running, Offset
  <2>2. CASE Next BY <2>2, MainFresh, GeneratorFresh DEF Next, IInv
  <2> QED BY <2>1, <2>2
<1> QED BY <1>1, <1>2, PlaceInvariant, PTL DEF Spec

(* Main's steps: all but three leave the queue as it is.                   *)
LEMMA QuietCalls ==
    ASSUME CallInv, MainNext, ~ ResetState, ~ PushGenerate, ~ Spawn
    PROVE  CallInv' /\ UNCHANGED queueVars
<1>1. UNCHANGED queueVars
  BY DEF MainNext, Stay, Move, VisitGenerated, VisitNeedsGeneration, CommitSkip, CommitTest,
     CommitUpload, CommitStore, PickNothing, PickVoxel, Remesh, RemeshEnd, Draw
<1>2. at # "push" /\ at' # "push"
  BY DEF MainNext, Stay, Move, VisitGenerated, VisitNeedsGeneration, CommitSkip, CommitTest,
     CommitUpload, CommitStore, PickNothing, PickVoxel, Remesh, RemeshEnd, Draw, At, Place,
     NextCursor
<1> QED BY <1>1, <1>2 DEF CallInv, queueVars, Running

(* The call Main makes is new: the calls that wait or run are of earlier   *)
(* passes, or of this one and of offsets already left, though they may be  *)
(* of the same chunk.                                                      *)
LEMMA ResetCalls ==
    ASSUME IInv, PlaceInv, FreshOK, CallInv, ResetState
    PROVE  CallInv' /\ Q!CallPush(Main)
<1> USE QueueThreads
<1> DEFINE k == [chunk |-> Here, offset |-> Offset, current |-> mCurrentChunk,
                 pass |-> moves]
<1>1. /\ at = "reset" /\ at' = "push"
      /\ pc' = [pc EXCEPT ![Main] = "Push"]
      /\ task' = [task EXCEPT ![Main] = k]
      /\ UNCHANGED <<mList, mMutex, mCV>>
  BY DEF ResetState, At
<1>2. /\ pc \in [Q!Threads -> Q!Labels] /\ task \in [Q!Threads -> Tasks \cup {NoTask}]
      /\ mList \in Seq(Tasks)
  BY DEF IInv, WorkInv, ThreadsOK, QueueOK
<1>3. k \in Tasks /\ k.pass = moves /\ k.offset = Offset
  <2>1. Here \in ChunkKey /\ Offset \in ChunkKey /\ mCurrentChunk \in ChunkKey
        /\ moves \in Nat
    BY HereTyped, PassTyped DEF IInv, WorkInv, PlacesOK
  <2> QED BY <2>1 DEF Tasks
<1>4. ~ Seen(Offset, walk.i, walk.j)
  <2>1. InPass BY <1>1 DEF InPass
  <2> QED BY <2>1, WalkPoint, SeenIsNew DEF PlaceInv, WalkOK
<1> HIDE DEF k
<1>5. k \notin Calls
  BY <1>3, <1>4 DEF FreshOK, Fresh
<1>6. k \notin Q!Queued
  BY <1>5 DEF Q!Queued, Calls
<1>7. k \notin Q!Held
  <2> SUFFICES ASSUME NEW t \in Q!Threads, task[t] = k, task[t] # NoTask PROVE FALSE
    BY DEF Q!Held
  <2>1. t \in Generators /\ Running(t)
    BY <1>1 DEF CallInv
  <2> QED BY <2>1, <1>5 DEF Calls
<1>8. Q!CallPush(Main)
  BY <1>1, <1>3, <1>6, <1>7 DEF CallInv, Q!CallPush, Q!Goto
<1>9. CallInv' BY <1>1, <1>2 DEF CallInv, Running
<1> QED BY <1>8, <1>9

LEMMA OtherCalls ==
    ASSUME IInv, CallInv, PushGenerate \/ Spawn
    PROVE  CallInv' /\ ([Q!Next]_(Q!vars))
<1> USE QueueThreads DEF At, Q!Goto
<1>1. /\ pc \in [Q!Threads -> Q!Labels] /\ task \in [Q!Threads -> Tasks \cup {NoTask}]
      /\ moves \in Generators
  BY DEF IInv, WorkInv, ThreadsOK, PlacesOK
<1>2. CASE PushGenerate
  <2>1. Q!Push(Main) /\ at = "push" /\ at' # "push"
    BY <1>2 DEF PushGenerate, Place
  <2>2. CallInv' BY <2>1, <1>1 DEF CallInv, Q!Push, Running
  <2> QED BY <2>1, <2>2 DEF Q!Next
<1>3. CASE Spawn /\ mList = <<>>
  BY <1>3 DEF Spawn, CallInv, Q!vars, Running
<1>4. CASE Spawn /\ mList # <<>>
  <2>1. Q!Goto(moves, "idle", "EmptyWait")
    BY <1>4 DEF Spawn, StartGenerator
  <2>2. UNCHANGED <<mList, mMutex, mCV, task>> /\ at = "spawn" /\ at' = "commit"
    BY <1>4 DEF Spawn
  <2>3. Q!Next BY <1>1, <2>1, <2>2 DEF Q!Next, Q!Call
  <2>4. CallInv' BY <2>1, <2>2, <1>1 DEF CallInv, Running
  <2> QED BY <2>3, <2>4
<1> QED BY <1>2, <1>3, <1>4

LEMMA GeneratorCalls ==
    ASSUME IInv, CallInv, NEW g \in Generators, GeneratorNext(g)
    PROVE  CallInv' /\ ([Q!Next]_(Q!vars))
<1> USE QueueThreads DEF Q!Goto
<1>1. /\ pc \in [Q!Threads -> Q!Labels] /\ task \in [Q!Threads -> Tasks \cup {NoTask}]
  BY DEF IInv, WorkInv, ThreadsOK
<1>2. UNCHANGED at
  BY DEF GeneratorNext, InQueue, GenerateCoord, GenerateFill, GenerateMesh,
     GenerateStore, mainVars
<1>3. CASE GenerateCoord(g) \/ GenerateFill(g) \/ GenerateMesh(g)
  <2>1. UNCHANGED queueVars BY <1>3 DEF GenerateCoord, GenerateFill, GenerateMesh
  <2> QED BY <1>2, <2>1 DEF queueVars, Q!vars, CallInv, Running
<1>4. CASE InQueue(g) \/ GenerateStore(g)
  <2>1. \/ Q!EmptyWaitLock(g) \/ Q!EmptyWaitTake(g) \/ Q!EmptyWaitReturn(g)
        \/ Q!EmptyWaitTaskDone(g)
    BY <1>4 DEF InQueue, GenerateStore
  <2>2. Q!Next BY <2>1 DEF Q!Next, Q!EmptyWaitStep
  <2>3. CallInv'
    BY <2>1, <1>1, <1>2 DEF CallInv, Running, Q!EmptyWaitLock, Q!EmptyWaitTake, Q!TakeFront,
       Q!EmptyWaitReturn, Q!EmptyWaitTaskDone
  <2> QED BY <2>2, <2>3
<1> QED BY <1>3, <1>4 DEF GeneratorNext

(* The terrain uses its queue as TaskQueue says a queue is used, with Main *)
(* the one thread that pushes and generators that call EmptyWait: what is  *)
(* proved there of the queue by itself holds inside the program, also when *)
(* a pass pushes beside the generators of earlier passes, and calls of     *)
(* Generate for the same chunk wait side by side.                          *)
THEOREM UsesQueue == Spec => Q!Spec
<1>1. Init => CallInv /\ Q!Init
  BY CallInit
<1>2. IInv /\ PlaceInv /\ FreshOK /\ CallInv /\ [Next]_vars
        => CallInv' /\ ([Q!Next]_(Q!vars))
  <2> SUFFICES ASSUME IInv, PlaceInv, FreshOK, CallInv, [Next]_vars
               PROVE  CallInv' /\ ([Q!Next]_(Q!vars))
    OBVIOUS
  <2>1. CASE UNCHANGED vars
    BY <2>1 DEF vars, queueVars, Q!vars, CallInv, Running
  <2>2. CASE MainNext /\ ~ ResetState /\ ~ PushGenerate /\ ~ Spawn
    BY <2>2, QuietCalls DEF queueVars, Q!vars
  <2>3. CASE ResetState
    BY <2>3, ResetCalls DEF Q!Next
  <2>4. CASE PushGenerate \/ Spawn
    BY <2>4, OtherCalls
  <2>5. CASE \E g \in Generators : GeneratorNext(g)
    BY <2>5, GeneratorCalls
  <2> QED BY <2>1, <2>2, <2>3, <2>4, <2>5 DEF Next
<1> QED BY <1>1, <1>2, FreshInvariant, PTL DEF Spec, Q!Spec

(* The queue's own theorems, for the way the terrain uses it.              *)
QP == INSTANCE TaskQueueProofs WITH Producers <- {Main}, Consumers <- {},
         Drainers <- Generators, Cleaners <- {}, MayThrow <- {}

LEMMA SameQueue == Q!Spec => QP!Spec
<1>1. Q!Init => QP!Init
  BY Zenon DEF Q!Init, QP!Init, Q!Threads, QP!Threads
<1>2. [Q!Next]_(Q!vars) => [QP!Next]_(QP!vars)
  BY Zenon DEF Q!vars, QP!vars, Q!Next, QP!Next, Q!CallPush, QP!CallPush, Q!Push, QP!Push,
     Q!Call, QP!Call, Q!EmptyWaitStep, QP!EmptyWaitStep, Q!Queued, QP!Queued, Q!Held,
     QP!Held, Q!Threads, QP!Threads, Q!Goto, QP!Goto, Q!NotifyAll, QP!NotifyAll,
     Q!EmptyWaitLock, QP!EmptyWaitLock, Q!EmptyWaitTake, QP!EmptyWaitTake,
     Q!EmptyWaitTaskDone, QP!EmptyWaitTaskDone, Q!EmptyWaitTaskThrows,
     QP!EmptyWaitTaskThrows, Q!EmptyWaitReturn, QP!EmptyWaitReturn, Q!TakeFront,
     QP!TakeFront
<1> QED BY <1>1, <1>2, PTL DEF Q!Spec, QP!Spec

LEMMA SameFifo == QP!ImplementsFifo => Q!ImplementsFifo
<1>1. Q!Running = QP!Running /\ Q!Running' = QP!Running'
  BY Zenon DEF Q!Running, QP!Running, Q!RunningThreads, QP!RunningThreads, Q!Threads,
     QP!Threads
<1>2. QP!Fifo!Init => Q!Fifo!Init
  BY <1>1, Zenon DEF Q!Fifo!Init, QP!Fifo!Init
<1>3. [QP!Fifo!Next]_(QP!Fifo!vars) => [Q!Fifo!Next]_(Q!Fifo!vars)
  BY <1>1, Zenon DEF Q!Fifo!vars, QP!Fifo!vars, Q!Fifo!Next, QP!Fifo!Next, Q!Fifo!Submit,
     QP!Fifo!Submit, Q!Fifo!End, QP!Fifo!End, Q!Fifo!Start, QP!Fifo!Start, Q!Fifo!Drop,
     QP!Fifo!Drop, Q!Fifo!Live, QP!Fifo!Live
<1> QED BY <1>2, <1>3, PTL DEF Q!ImplementsFifo, QP!ImplementsFifo, Q!Fifo!Spec, QP!Fifo!Spec

LEMMA SameDrain == QP!EmptyWaitCompletesAll => Q!EmptyWaitCompletesAll
<1>1. [\A t \in Generators : QP!EmptyWaitReturn(t) => QP!Running = {}]_(QP!vars)
        => [\A t \in Generators : Q!EmptyWaitReturn(t) => Q!Running = {}]_(Q!vars)
  BY Zenon DEF Q!vars, QP!vars, Q!Running, QP!Running, Q!RunningThreads,
     QP!RunningThreads, Q!Threads, QP!Threads, Q!EmptyWaitReturn, QP!EmptyWaitReturn,
     Q!Goto, QP!Goto
<1> QED BY <1>1, PTL DEF Q!EmptyWaitCompletesAll, QP!EmptyWaitCompletesAll

LEMMA QueueUse == QP!QueueAssumption /\ (Spec => QP!Spec)
<1>1. QP!QueueAssumption
  BY TerrainAssumption, NoTaskAssumption DEF QP!QueueAssumption, QP!Threads
<1>2. Spec => Q!Spec BY UsesQueue
<1> QED BY <1>1, <1>2, SameQueue, PTL

(* Chunk::Generate calls start in the order GenerateChunks pushed them,    *)
(* each once, though every pass of the walk may detach a thread of its own *)
(* to run them.  A chunk that two passes pushed is generated by two calls. *)
THEOREM GeneratesInOrder == Spec => Q!ImplementsFifo
<1>1. QP!Spec => QP!ImplementsFifo BY QueueUse, QP!Implements
<1>2. Spec => QP!Spec BY QueueUse
<1> QED BY <1>1, <1>2, SameFifo, PTL

(* EmptyWait's promise (TaskQueue.hpp:64), which other callers of Pop      *)
(* break, is kept in this program: a generator that ends leaves no call of *)
(* Generate half run, neither its own nor that of an earlier pass's thread.*)
THEOREM GeneratorsFinish == Spec => Q!EmptyWaitCompletesAll
<1>1. QP!Spec => QP!EmptyWaitCompletesAll BY QueueUse, QP!EmptyWaitDrains
<1>2. Spec => QP!Spec BY QueueUse
<1> QED BY <1>1, <1>2, SameDrain, PTL

(* Main, when PushGenerate or Spawn has to wait for the mutex, waits for a *)
(* generator inside EmptyWait, of an earlier pass, that works off a list   *)
(* to which nobody can add: with fairness this is why FramesGoOn holds.    *)
THEOREM MutexComesBack == Spec => []QP!HolderDrains /\ [][QP!RunsDown]_(QP!vars)
<1>1. QP!Spec => []QP!HolderDrains BY QueueUse, QP!MutexNotLeaked
<1>2. QP!Spec => [][QP!RunsDown]_(QP!vars) BY QueueUse, QP!EmptyWaitRunsDown
<1>3. Spec => QP!Spec BY QueueUse
<1> QED BY <1>1, <1>2, <1>3, PTL
=============================================================================
