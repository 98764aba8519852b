----------------------------- MODULE TerrainExit ------------------------------
(***************************************************************************)
(* The end of the program.  When the window is closed the game loop ends,  *)
(* main returns and TerrainManager is destroyed: mGeneratorQueue first,    *)
(* then mChunkPool, whose destructor saves every chunk, one by one.  The   *)
(* generator threads were detached: nobody joins them, and they run on     *)
(* beside all this until the process ends.                                 *)
(***************************************************************************)
EXTENDS TerrainManager

VARIABLES disk,      \* the files of this session: what each was written from
          fileName,  \* the file SaveToDisk has open
          toSave     \* the chunks ~ChunkPool has not come to yet

exitVars == <<vars, disk, fileName, toSave>>

ExitInit == /\ Init
            /\ disk = [f \in {} |-> <<>>] /\ fileName = NoCoord /\ toSave = {}

Playing == at # "off" /\ Next /\ UNCHANGED <<disk, fileName, toSave>>

(* The list of the destroyed queue is freed memory, in which a generator   *)
(* may find the tasks as they were, or nothing.                            *)
CloseWindow ==
    /\ At("frame", "save")
    /\ mList' \in {mList, <<>>}
    /\ toSave' = DOMAIN mChunkPool
    /\ UNCHANGED <<mMutex, mCV, pc, task, sceneVars, mChunkPool, walk, cursor,
                   rayChunk, stage, moves, edits, disk, fileName>>

exitUnchanged == <<queueVars, sceneVars, mChunkPool, walk, cursor, rayChunk,
                   stage, moves, edits>>

(* The next chunk of the std::map.                                         *)
Foremost(c) == /\ c \in toSave
               /\ \A k \in toSave : c[1] < k[1] \/ (c[1] = k[1] /\ c[2] <= k[2])

(* SaveToDisk refuses a chunk that is not generated.                       *)
SaveAny(c) == TRUE
MayBeSaved(c) == ~ NeedsGeneration(c)

SaveRefused == /\ at = "save"
               /\ \E c \in toSave : /\ Foremost(c) /\ ~ MayBeSaved(c)
                                    /\ toSave' = toSave \ {c}
               /\ UNCHANGED <<exitUnchanged, at, disk, fileName>>

(* Files are named after the coordinates that Generate has set.            *)
SaveOpen == /\ At("save", "write")
            /\ \E c \in toSave : /\ Foremost(c) /\ MayBeSaved(c)
                                 /\ fileName' = mChunkPool[c].mCoord
            /\ disk' = [f \in DOMAIN disk \cup {fileName'} |->
                           IF f = fileName' THEN <<>> ELSE disk[f]]
            /\ UNCHANGED <<exitUnchanged, toSave>>

(* The voxels are read one after another: the first of them and the last   *)
(* may be of different contents, if a generator writes meanwhile.          *)
SaveVoxels ==
    /\ at = "write"
    /\ \E c \in toSave :
          /\ Foremost(c)
          /\ disk' = [disk EXCEPT ![fileName] = Append(@, mChunkPool[c].mVoxels)]
          /\ IF Len(disk'[fileName]) = 2
               THEN at' = "save" /\ toSave' = toSave \ {c}
               ELSE UNCHANGED <<at, toSave>>
    /\ UNCHANGED <<exitUnchanged, fileName>>

ProcessEnds == /\ At("save", "off") /\ toSave = {}
               /\ UNCHANGED <<exitUnchanged, disk, fileName, toSave>>

Ended == at = "off" /\ UNCHANGED exitVars

ExitNext == \/ Playing
            \/ CloseWindow
            \/ SaveRefused \/ SaveOpen \/ SaveVoxels
            \/ ProcessEnds \/ Ended

ExitSpec == ExitInit /\ [][ExitNext]_exitVars

-----------------------------------------------------------------------------
(* The next session finds on the disk whole chunks only, however far the   *)
(* generators were when the window was closed ("Chunk needs to be          *)
(* generated beforehand", Terrain/Chunk.hpp:187), and every edited chunk   *)
(* is there as edited; but for chunks that were queued again.              *)
Whole(c) == \E v \in {"terrain", "edited"} : disk[c] = <<v, v>>

SavedIsWhole ==
    at = "off" => \A c \in DOMAIN mChunkPool : ~ mChunkPool[c].again =>
        /\ c \in DOMAIN disk => Whole(c)
        /\ mChunkPool[c].mVoxels = "edited" =>
               c \in DOMAIN disk /\ disk[c] = <<"edited", "edited">>
=============================================================================
