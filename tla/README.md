# Verification of MineZPRft

MineZPRft is a voxel game in C++: a window, a player, an infinite terrain of
chunks made from Perlin noise, and an OpenGL renderer. These modules model the
part of it that has control of its own and that tests hardly reach: the task
queue, the order in which chunks are visited, the life of a chunk between the
main thread and the generator threads, its mesh, its file, the end of the
program, and the game loop between the window's events and the player. Paths
below are relative to `MineZPRft/`.

## The system

| Component | State | Operations | Talks to |
|---|---|---|---|
| Task queue (`Common/TaskQueue`) | list of tasks, mutex, condition variable | Push, Pop, EmptyWait, Clear, IsEmpty | any thread |
| Terrain manager (`Terrain/TerrainManager`) | visible slots `mChunks`, current chunk, counts, generator queue | Init, Update, GenerateChunks, CalculateChunkCount, ShiftChunkCoords | chunk pool, chunks, queue, Renderer; detaches threads |
| Chunk (`Terrain/Chunk`) | voxels, vertices, mesh, atomic state, coordinates | Generate, GenerateVBO*, CommitMeshUpdate, ResetState, Shift, SetVoxel, SaveToDisk, LoadFromDisk, ray intersection | Mesh, disk, noise |
| Chunk pool (`Terrain/ChunkPool`) | map from world position to chunk | GetChunk; saves all chunks when destroyed | chunks |
| Noise generator | permutation table | Noise | none |
| Renderer, Mesh | terrain mesh slots; per mesh VBO, world matrix, lock | ReplaceTerrainMesh, Draw, Update, SetLocked | OpenGL |
| Game manager, player | player chunk and position, ray flag | GameLoop, CalculatePlayerChunk | all of the above |
| Window (`Common/Linux`, `Common/Win`, `Game/GameWindow`) | key and button tables, mouse position | ProcessMessages and its handlers | player |
| FPS counter, logger, file system, math | a window of frame times; a lock around the log | | |

How they interact: `GameManager::GameLoop` runs on the main thread and calls,
each frame, ProcessMessages, CalculatePlayerChunk, `TerrainManager::Update` and
`Renderer::Draw`. Update starts a pass of GenerateChunks when the player is in
another chunk; the pass pushes one `Chunk::Generate` call per chunk that needs
generation and detaches a thread that runs `EmptyWait` once. Generator threads
and the main thread share the chunks; only a chunk's `mState` is atomic and only
the queue has a lock.

What is hard: EmptyWait runs foreign code with the mutex held; several
generators may be alive; a chunk still queued is queued again by the next pass;
NeedsGeneration and IsGenerated are read and acted on later; bound calls outlive
the position they were made at; slots are written with no bounds check, into
arrays sized by a separate recursion; voxels and vertices are unprotected; the
pool is saved at exit beside generators nobody joins; window events are handled
frames after they happened, when keys, buttons and focus are no longer as they
were; the player is put back into the middle chunk one chunk per frame.
`PROJECT.json` lists each hazard at its line.

What makes the components correct: the queue is a FIFO whose tasks start and end
once and whose sleepers are always woken; one pass fills every slot with exactly
the chunks in sight; a frame is drawn with every mesh in its place; no chunk is
forgotten; what is drawn was built whole; an edit stays (a chunk queued twice breaks
both, and nothing else does); frames go on; a mesh
shows each visible face of a voxel once, from the right side; what is loaded is
what was saved, and only whole chunks are saved; no key sticks, the grab ends with
the buttons, a drag turns the player by what the hand did, and a click is answered
by a ray in the frame that handles it; the player's chunk and position agree with
its walk, and the viewport with the window.

## Modules

* **FifoQueue** is the abstract queue: tasks are submitted, started oldest
  first, ended once, or dropped before they start.
* **TaskQueue** is `Common/TaskQueue.hpp`. Variables are the members `mList`,
  `mMutex`, `mCV` and, per thread, `pc` (which call it is in, and the stage) and
  `task` (what it is pushing or running). A critical section that neither blocks
  nor runs a task is one step (`Push`, `Clear`, the test-and-sleep and the
  test-and-take of Pop); EmptyWait keeps the mutex over many steps. Condition
  variables wake spuriously. It implements FifoQueue with `pending <- mList`
  and `running` the tasks of threads inside a task call. The roles of the
  threads (Producers, Consumers, Drainers, Cleaners) are constants, so each
  user of the queue is an instance.
* **ChunkWalk** holds the operators of the ring walk: `ShiftChunkCoords`, the
  loop step `NextSlot`, the recursion `CalculateChunkCount`.
* **RingWalk** is one whole pass for one radius: the recursion unrolled into
  calls and returns (so that it can be proved about), then one slot per step. It
  is also held against the slots that Update's picking reads, `PickedSlots`.
* **TerrainManager** is the core. `Main` is the main thread; its program counter
  `at` names the place in the frame. Each pass detaches at most one generator
  thread, and `Generators` are numbered by the pass. The queue is
  `Q == INSTANCE TaskQueue` with one producer, the generators as drainers and no
  consumer; its steps are conjoined with the terrain's. The pool is a function
  whose domain grows, as the `std::map` does. A chunk is a record: `mState`, the
  mesh's lock, what its voxels, vertices and VBO hold, its coordinates, and the
  offset of its world matrix. Contents are abstract ("air", "terrain", "edited",
  "filling"); a phase that writes plain memory has two steps, and "torn" is the
  result of two phases that overlap, which in the code is a data race. Two things
  are history the program does not have: `again` marks a chunk that a pass found
  still waiting for its generation and queued once more, and `pass` tells the
  bound calls of two passes apart, which in the code are two objects.
* **PlaneScan** is one of the six passes of greedy meshing. ProcessPlaneX, Y and
  Z are one function but for the order of their loops, so the three loop
  variables are the tuple `at` over a box of any size; `quadProcessing`, `q` and
  `resultQuads` are the locals. One step is one voxel or the end of a line, and
  each branch of the code is an action.
* **GreedyMesh** composes three instances of PlaneScan, one per axis, into
  GenerateVBOGreedy: Generate fills the chunk from a height map, `Cull` is the
  first stage, each of the six calls is a `pass`, `PushVertsFromQuads` makes the
  vertices (doubled coordinates, so that half a voxel is a whole number), and
  `PickVoxel` edits the chunk and starts over. GenerateVBONaive and its geometry
  shader are the reference the faces are compared with; face culling, the world
  matrix and the lighting of the shaders say from where a face can be seen.
* **TerrainExit** extends TerrainManager by the end of the program: at the head
  of any frame the window may be found closed, `mGeneratorQueue` is destroyed,
  then `~ChunkPool` saves the chunks in the order of the map. The generators,
  which nobody joins, go on with their steps meanwhile; in the freed list they
  find the old tasks or nothing. A file holds what two reads of the voxels saw,
  so a chunk written while it is refilled shows.
* **ChunkStore** is a chunk and its file over sessions: LoadFromDisk and
  SaveToDisk one loop iteration at a time, with the noise as what a failed load
  falls back to. A file is a sequence of runs and maybe the first digits of a
  counter; a crash, a failed write or a failed close leaves any such beginning
  of what was written. A read past the end keeps the old values of its
  variables, an uninitialized one is any value.
* **WindowInput** is `Common/Linux/Window.cpp` with GameWindow's handlers. The
  user and the X server are the environment: they press, release, move, resize
  and change the focus at any time and append events to `queue`. One action per
  kind of event handles the oldest. The tables `mKeys` and `mMouseButtons` are
  sets, the x coordinate stands for both, the player's angle is counted in
  pixels dragged. `held`, `pressed`, `dragging`, `wanted`, `owed` record what
  the user did, and the properties compare the program with it; `owed` counts the
  clicks of the right button no ray has answered.
* **FPSCounter** is the deque of the last frame rates, each told apart by the
  number of the `Run` call that pushed it.
* **GameLoop** composes both with main and `GameManager::GameLoop`: the size
  given as arguments (`Main`), the head of a frame (`FrameStart`, `Exit`), the
  events handled in it one at a time, and the rest of the frame as one step
  (`FrameEnd`: the move, CalculatePlayerChunk, the ray), since only
  ProcessMessages looks at what other actors change. `clicks` counts the clicks
  the frame has handled, and a ray settles that many of those owed. `TerrainManager::Update`
  starts where FrameEnd stops; TerrainManager takes any change of chunk.
* **MC_TaskQueue**, **MC_TerrainManager**, **MC_TerrainExit**, **MC_GreedyMesh**,
  **MC_ChunkStore**, **MC_GameLoop** instantiate them for TLC.
* **TaskQueueProofs**, **ChunkWalkProofs**, **RingWalkProofs**,
  **TerrainManagerProofs**, **PlaneScanProofs**, **GreedyMeshProofs**,
  **ChunkStoreProofs**, **GameLoopProofs** hold the theorems.

Definitions named like a variant (`NotifyNobody`, `TakeBack`, `TurnsSwapped`,
`ShiftNewOnly` and so on) are faulty versions of the definition below them; no
specification uses them. They exist to show that each property can fail.

## Runs

| Run | Question | Bounds |
|---|---|---|
| queue | Do Push, Pop, EmptyWait and Clear together implement a FIFO, is no wake-up lost, is what EmptyWait drains complete when it returns, does every Push return and every queued task leave? | 2 producers, 2 consumers, 2 drainers, 1 cleaner, 3 tasks, one of which may throw |
| queue_drain_pop | Is everything completed when EmptyWait returns? Not beside a consumer | 1 of each, 2 tasks |
| ring_walk | Does one pass fill the slots right, and which of the middle chunks does picking read? | the game's radius, 7 (113 slots) |
| terrain | Is everything drawn in its place and generated for its place, does every chunk that needs generation have a task, every task a thread, is a mesh torn or an edit undone for no chunk but one queued twice, do frames go on, and is everything shown in the end? | radius 1, one move at any time (east or to a corner), one edit, a generator per pass |
| terrain_exit | Does a window closed at any frame leave whole chunks and every edit on the disk, but for chunks queued twice? | as terrain, one move east |
| terrain_bedrock | Does an edit always stay? No | the same |
| plane_scan | Is each solid voxel in exactly one quad of its type, and is each quad as long as can be? | every filling of a box of 1 by 2 by 4 |
| greedy_mesh | Has the greedy mesh the faces of the naive one, is the surface closed, is every face lit? | 3 by 5 by 3 voxels, 16 height maps, one edit anywhere |
| chunk_store | Does a load bring back what was saved, and is nothing else played on? | 7 voxels, any edits, any number of sessions and crashes |
| chunk_store_close | May one trust that SaveToDisk returned true? No | the same |
| game | Does a key stick, does the grab outlive the buttons, do drags, clicks and sizes arrive, is the average of the last frames, do position and chunk agree, does a player at rest end in the middle chunk? | 1 key, 2 buttons, 2 sizes, 2 events waiting (3 when the user clicks), 1 axis |
| game_args | Has the viewport the size given as arguments? No | 1 button, 1 event waiting, otherwise as game |

Why the bounds suffice: the queue's hazards need two threads on each side of the
lock and two tasks to be out of order. For the terrain, radius 1 has a centre and
a ring, so a move keeps some chunks, drops some and adds some; one move already
queues chunks twice, and two moves there and back make a chunk wait in the queue
with the arguments of an earlier position. `MaxMoves` and `MaxEdits` are the only
counters. The two passes of one move have a generator each.
One move is enough for DrawnMeshesInPlace to fail if Shift is left out for chunks
that stay; longer walks, there and back, are covered by the theorems InItsPlace
and DrawnInPlace, which bound nothing.
For a plane scan, four voxels on a line are enough for a run, its end, air and
another run, and two lines for the reset between them. The chunk of greedy_mesh
has three voxels inside, columns of two heights that differ by two, so that an
inner voxel may be seen from a side only, bedrock, stone and air; its top layer
is beyond what is meshed. Seven voxels hold runs of length
one, two and three and a change next to the last run, and base 2 makes a counter
with more than one digit. In MC_GameLoop the user has a `hand` at the keys, at the
mouse, at the window's frame, or clicks without moving: keys, mouse and frame
reach disjoint tables, and the focus or the close button, which join them, are in each. Two
events waiting are a key's repeat, a turn of the wheel, or a release before a change
of focus; three, for the hand that clicks, are press, release and press of the right
button, so that one frame handles two clicks. Steps of 10 with
chunks of 4 take the player two chunks too far, so that it is brought back over
several frames; an average of 2 with 4 stamps tells a call kept too long from one
averaged twice. The theorems of GameLoopProofs hold for any queue.

### Disagreements

* `TaskQueue.hpp:64` promises that EmptyWait blocks until all tasks are
  completed; it does not wait for a task another thread has popped
  (queue_drain_pop). What it took itself is complete (EmptyWaitCompletes), and
  the terrain has no consumers, so it is not affected (EmptyWaitDrains).
* `TerrainManager.cpp:96` says that a picked voxel is turned into bedrock. A
  chunk that is still queued when the player changes chunk is queued again, and
  its second Generate wipes an edit made after the first (terrain_bedrock).
  `EditsUndoneOnlyAgain` says that this is the only way an edit is undone. By
  the same cause IsGenerated answers true while the second Generate rebuilds the
  vertices, against `Chunk.hpp:162`, and a torn mesh is uploaded. It is replaced
  when that Generate ends, unless Main has meshed an edit beside it, or stored
  Updated over its Generated: then the mesh stays torn. And by the same cause a
  chunk may be saved half filled: its state is not NotGenerated, so SaveToDisk takes
  it, while the second Generate has just emptied its voxels. The file is a whole one
  to LoadFromDisk, and the next session plays on it; `Chunk.hpp:187` asks that a
  chunk be generated before it is saved. `DrawnMeshesWhole`, `GeneratedIsFinished`
  and `SavedIsWhole` except chunks queued twice for this, and fail without the
  exception.
* `TerrainManager.cpp:72` says that picking uses the "center chunk and adjacent
  ones", and `:84` "each out of 5 middle chunks". The loop at `:86` is `i < 4`, and
  the fifth slot is never read: a ray through the player's neighbour at (0, -1)
  hits nothing there. `MiddlePickedButOne` (ring_walk, and for every radius
  OneIsMissed) says so exactly: the five chunks do own the first five slots, the
  four that are read leave out that neighbour, and it is the same in every pass.
* `GameManager.hpp:34` promises a ray in the next loop, and each click gets that.
  But mDrawRay is one flag: the right clicks that one call of ProcessMessages
  handles share one ray, so that a player who clicks twice within a frame edits one
  voxel. No text of the repository says that a click has a ray of its own, so this
  is how `ClickOwesRay` has it: one ray for all the clicks of a frame.
* `Chunk.hpp:185` promises that SaveToDisk returns true if writing was
  successful and false otherwise. The last write is made by `close`, and the
  stream is not tested after it (chunk_store_close). LoadFromDisk recognises the
  short file, so the terrain is regenerated and only the edits are lost.
* `main.cpp:25` says that two arguments are used as the window's size, and
  `Renderer.hpp:93` that a resize resizes the viewport. `SetSize`
  (`Linux/Window.cpp:64`) stores the size at once, so the event that reports it
  is taken for no change (`:376`), OnResize is not called, and the viewport keeps
  800 by 600 (game_args). Sizes the user gives later arrive
  (theorem ViewportCorrect).

Two things in the window's code look wrong and are not, or hardly: the constructor
clears 255 of the 256 key entries (`Linux/Window.cpp:48`), but the window is part of a
function-local static and zero from the start; and the release of a wheel "button"
clears an entry past the table of three, which is padding for one direction of the
wheel and for the other the lowest byte of the drag's origin, so that DragFollowsHand
excepts a wheel turned down in the middle of a drag.

### Fairness

`TaskQueue!Fairness`: threads keep running (weak fairness), and a thread that
waits for the mutex while others take it again and again gets it at last (strong
fairness of the steps that lock it), which operating-system mutexes give in
practice. Consumers loop on Pop as those of QueueTest do; no caller is forced to
call anything else. `TerrainManager!FairSpec` needs only weak fairness of the
main thread and of each generator: every EmptyWait ends, because only the main
thread pushes and it waits. `GameLoop!Spec` asks for weak fairness of the
program only: the main thread runs on, and the user need never do anything.
ProcessMessages handles the events that were there when it began, so no user can
hold a frame up by sending more.

## Proofs

From the assumptions `QueueAssumption`, `RadiusAssumption`, `TerrainAssumption`,
`BoxAssumption`, `MeshAssumption`, `StoreAssumption`, `InputAssumption`,
`FPSAssumption` and `GameAssumption` alone:

* **TaskQueueProofs**, for any sets of threads and tasks: types, no lost
  wake-up, `EmptyWaitDrains` (with no consumers), `EmptyWaitCompletes`, and the refinement of
  FifoQueue. The inductive invariant adds to the types who may hold the mutex
  (`LockInv`), that sleepers are in Pop's loop (`SleepersWait`), that a thread
  carries a task exactly in the calls that have one (`CarryInv`) and that no task
  is in two places (`UniqueInv`). Uniqueness is what makes a task that ends leave
  exactly itself out of `Running`. `MutexNotLeaked` and `EmptyWaitRunsDown` are
  what PushReturns rests on: a held mutex is held by a thread inside EmptyWait's
  loop, each step of which releases it or lowers `Left` (twice the queued tasks,
  and one for the running one), while nobody else can add to the list.
* **ChunkWalkProofs**, lemmas for any radius. Step k of ring i has a closed form
  (`RingX`, `RingZ`); it is of norm i, injective in k and onto, ShiftChunkCoords
  goes from k to k + 1, and the slots before ring i number 2i(i-1)+1. That
  `CalculateChunkCount`, a recursive function, returns the same polynomial is
  proved without induction over an operator: if it failed, it would fail for a
  least radius (WFMin), and there the recursion contradicts it.
* **RingWalkProofs**, for any radius: the walk stays inside the arrays, visits no
  chunk twice, fills every slot and covers exactly the diamond, nearest chunks
  first, picking reads all of the five in the middle but one, and the unrolled
  recursion returns what the recursive function does. The invariant relates slots,
  loop variables and count by the closed form.
* **TerrainManagerProofs**, for any radius, any moves and any number of
  generators: types, a generated chunk was generated for its own place
  (`GeneratedForItsPlace`), a chunk that needs generation has a task
  (`NoChunkForgotten`), queued work has a thread (`QueuedWorkHasThread`), and
  every frame draws the chunks in sight, each in its place
  (`DrawnMeshesInPlace`). None is inductive alone. `WorkInv` adds that every
  bound call names an existing chunk by its place, whether Main holds it
  (`PushOK`), it is queued (`QueueOK`) or it runs (`RunningOK`, with the stage
  from which mCoord is set), and that the chunk Main is committing or editing
  has its place already (`MainOK`), since a commit or an edit stores a state
  other than NotGenerated. `IInv` is WorkInv with the two facts about the queue;
  WorkInv alone survives the destruction of the queue at exit. Lemma `ChunksOnly`
  covers the steps of Main that leave the queue alone, `GeneratorMovesKeeps`
  those of a generator between tasks, `GeneratorWritesKeeps` those inside
  Chunk::Generate. `PlaceInv` follows a pass slot by slot: the walk is at the
  closed form of its ring and step, each slot before it shows a chunk that the
  pass has reached, shifted to its place, and each place reached is shown by a
  slot. Outside a pass all of the diamond has been reached, so the slots show
  `Visible`.
* **TerrainManagerProofs**, second part, for any player, radius and number of
  generators: `DrawnMeshesWhole`, `GeneratedIsFinished`, `EditsUndoneOnlyAgain`, and
  of the exit `SavedIsWhole`. `OnceInv` follows the chunks that were queued once
  (`Once`), beside others that may be in any state: each queued call of such a chunk
  is its only one and not yet started (`ListOK`); a running one is of a chunk at the
  stage it has come to, queued no more (`RunOK`), and runs alone, since EmptyWait
  holds the queue's mutex around the task (`LockOK`); the chunk about to be queued is
  in no task (`NextOK`). Every other such chunk is then Finished or being edited
  (`MadeOK`, `FrameOK`). What a pass queues again leaves `Once` in the step that finds
  it waiting, and never comes back. Of the others `VertsOK` says that vertices are
  half built only between the two steps of one who builds them, and `EditsKept`
  that who undoes an edit runs a queued call. `ExitInv` carries this past the
  main loop: generators write only to chunks that need generation or were queued
  twice, so that each file on the disk (`DiskOK`), the one being written
  (`WritingOK`) and those to come (`PendingOK`) of the other chunks hold whole
  voxels.
* **TerrainManagerProofs**, third part. `ShownStays`, for any player: a chunk the
  Renderer shows is never locked again. `ShownInv` says that an unlocked chunk has
  been generated and that the one Main is about to reset is locked; every other
  step changes a chunk `Forward` only. `UsesQueue`, for any player: the terrain
  implements TaskQueue!Spec, so that TaskQueue's theorems hold inside the program.
  The step that needs an argument is the call of Push, which TaskQueue allows for a
  task that is nowhere else. A chunk may have several calls there; `FreshOK` says
  that those of this pass are at offsets the walk has left (`WalkLeaves`), and all
  others of earlier passes. From TaskQueueProofs, instantiated as `QP`, follow
  `GeneratesInOrder` (the calls of Chunk::Generate are a FIFO), `GeneratorsFinish`
  (no task runs when an EmptyWait returns, since nobody calls Pop here) and
  `MutexComesBack`, on which FramesGoOn rests: it speaks of a pass that pushes
  beside the generators of earlier passes.
* **PlaneScanProofs**, for any box and any voxels: quads cover solid voxels of
  their type only, a finished pass has each solid voxel in exactly one quad, and
  no two quads could be joined. The invariant splits the box into the cells
  before and after the loop variables (in loop order): each solid cell before
  them is in one closed quad or in the open one, which ends where the loop is.
  No quad leaves the box (`WithinInv`), so a finished pass covers the shown voxels
  and nothing else (`FinishedCovers`), which is what GreedyMeshProofs takes from
  here.
* **GreedyMeshProofs**, for a chunk of any size, any terrain and any edits: the
  greedy mesh has the faces of the naive one (`SameFacesAsNaive`), the surface is
  closed (`SurfaceClosed`) and each face is lit (`FacesLit`). PlaneScanProofs is
  instantiated once for each axis. `MeshInv` says that the pass under way is a
  PlaneScan of the culled voxels (`Scanning`), that each finished pass covers
  every shown voxel once (`PassesDone`, from FinishedCovers), and that the
  vertices are those of the quads of all six passes (`Pushed`). The rest is
  geometry: the faces of a strip are those of its quad's voxels, each once, and
  CalculateIndex is injective inside the chunk, so that no voxel hides another.
  A mesh is a sequence of sequences flattened by a recursive function; since
  there is no induction over data, what it contains is shown by the least
  length at which it would fail. Voxels that must be counted are counted by a
  bijection.
* **ChunkStoreProofs**, for any size and any terrain with air in the last two
  cells: a load that succeeds restores what the last save set out to write, one
  that fails read a file that is not whole, and the player walks on terrain and
  edits only. The invariant says that the runs written so far form a chain
  (`Chain`: no gaps, each true of the voxels under it) that reaches `i`, or in
  the inner loop `i - counter`; a chain cut short is a chain (`ChainCut`), so the
  same holds of whatever file a crash leaves, and LoadFromDisk walks it. Lemma
  `RunEnds` is the delicate step: the last voxel is never taken back, and is in
  the right run only because the voxel before it has the same type (`TopIsAir`).
  This is the assumption on Terrain; the game meets it, since the terrain ends
  far below CHUNK_Y and an edit never changes air.

* **GameLoopProofs**, for any keys, buttons, sizes, steps and any queue of
  events: types, `NoStuckKey`, `GrabEndsWithButtons`, `ClickOwesRay`,
  `TravelKept`, `ViewportFollowsUser`. Most speak of an empty queue and are not
  inductive. `Alive` says what a table will show once the queue is handled: the
  last event that concerns an entry decides, or the table if there is none. An
  entry that will be set is held down, an entry whose grab will last is pressed,
  and handling the oldest event (`AliveTail`) or appending new ones
  (`AliveConcat`) keeps that. `DragFollowsHand` relates a sum of movements to the
  camera, and nothing can be proved here of a sum over a sequence; `DragInv`
  says instead that there is a forecast, a list of what the program will believe
  after each waiting event, which starts at what it believes now, follows one
  event at a time, and ends at what the hand did. The user's events extend the
  forecast at its end, handling one drops its head. `AverageOfLastRuns` follows
  from `FPSInv`: the list holds consecutive stamps modulo Stamps, of which the
  last is the clock's. `ClickOwesRay` counts the clicks in the queue; that handling
  an event takes exactly it out of the count is shown by a bijection. `NeverSwings`
  is what SettlesInMiddle rests on: with no key down each frame settles a player
  (`Settling`) along each axis, also for an odd Size, and nothing else moves it.

Only model-checked is liveness: PushReturns, QueuedTaskLeaves, FramesGoOn,
EventuallyAllShown and SettlesInMiddle, which need fairness and with it ENABLED,
out of the prover's reach. Of what they rest on the safety part is proved:
EmptyWaitRunsDown, Implements, MutexComesBack, ShownStays (with NothingForgotten
and WorkHasThread) and NeverSwings.

## Not modelled

Floating-point code (noise, matrices, camera, ray intersection), OpenGL and file
system wrappers, and the Win32 variants of modelled behaviour. Of the window: the
y coordinate, which is treated like x, the full-screen switch, titles and its
opening. The logger's lock, inside which nothing else is locked or waited for.
Mouse buttons beyond the wheel's two: their releases, too, reach MouseUp without a
range test (`Linux/Window.cpp:281`, `:364`) and clear further bytes after the table.
That XGrabPointer's round trips inside ProcessMessages may read more events from the
connection than there were when it began: the batch of a frame is fixed at its start,
and no property depends on it.
Coordinates beyond a chunk's dimensions (`CalculateIndex` lets one equal to the
dimension through, and a negative one wraps to a large size_t), which no caller
passes. Destroying a queue whose consumers
sleep: the terrain has none. Destroying the chunks' memory under a generator
after they are saved. Data races are represented only as torn contents.

Most lines of the repository are vendored (`GL/glext.h` and its like, googletest);
the modules cover the game's own control.

## Plan

1. Done: FifoQueue, TaskQueue, ChunkWalk, RingWalk, TerrainManager, PlaneScan,
   GreedyMesh, ChunkStore, WindowInput, FPSCounter, GameLoop, TerrainExit, their
   runs, and theorems about each that the prover can reach.
