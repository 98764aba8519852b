----------------------------- MODULE ChunkStore -----------------------------
(***************************************************************************)
(* A chunk and its file (Terrain/Chunk.cpp), over any number of sessions.  *)
(* Generate loads the voxels from the file or makes them from noise, the   *)
(* player turns some to bedrock, and at exit ChunkPool::~ChunkPool calls   *)
(* SaveToDisk, which truncates the file and writes runs of equal voxels.   *)
(* The program may end at any point, and the disk may refuse to take all.  *)
(* A chunk is generated and saved by one thread at a time here; what two   *)
(* threads may do to it is the subject of TerrainManager.                  *)
(***************************************************************************)
EXTENDS Integers, Sequences

CONSTANTS Size,      \* CHUNK_X * CHUNK_Y * CHUNK_Z
          Terrain,   \* what the noise makes of this chunk
          Base       \* of the digits counters are written in

Cells == 0 .. Size - 1
VoxelType == {"Air", "Bedrock", "Stone", "Unknown"}

(* Terrain stays far below CHUNK_Y, so that the last two cells, which are  *)
(* neighbours on the topmost layer, are air: the encoder depends on it.    *)
ASSUME StoreAssumption ==
    /\ Size \in Nat /\ Size >= 2
    /\ Terrain \in [Cells -> VoxelType \ {"Unknown"}]
    /\ Terrain[Size - 1] = "Air" /\ Terrain[Size - 2] = "Air"
    /\ Base \in Nat /\ Base >= 2

VARIABLES
    pc,        \* "start", "load" and "noise": in Generate; "playing";
               \* "outer" and "inner": the loops of SaveToDisk;
               \* "saved", "failed": it returned true, false; "off"
    mVoxels,
    i,         \* the loop variable of SaveToDisk or LoadFromDisk
    tempVox, lastVox, counter,   \* locals of SaveToDisk
    out,       \* the runs it gave to the stream
    file,      \* the file
    r,         \* the next run LoadFromDisk reads
    saved,     \* the voxels the last SaveToDisk set out to write
    whole      \* did all of them get to the disk?

saveVars == <<tempVox, lastVox, counter, out>>
vars == <<pc, mVoxels, i, tempVox, lastVox, counter, out, file, r, saved, whole>>

(* A run of n voxels v.  The place "at" where it begins is not in the file *)
(* and nothing reads it back.  A file cut short may end with some digits   *)
(* of a counter, whose value is cut, or with none (cut = 0).               *)
Run == [at : Nat, n : Nat, v : VoxelType]
Contents(runs, cut) == [exists |-> TRUE, runs |-> runs, cut |-> cut]
NoFile == [exists |-> FALSE, runs |-> <<>>, cut |-> 0]

(* The leading digits of a counter.                                        *)
Digits(n) == {d \in 0 .. n : \E k \in 0 .. n : d = n \div Base^k}

(* What is left on the disk when not all of the runs get there.            *)
Torn(runs) == \E k \in 0 .. Len(runs) :
                 \E cut \in IF k < Len(runs) THEN {0} \cup Digits(runs[k + 1].n) ELSE {0} :
                    file' = Contents(SubSeq(runs, 1, k), cut)

Init == /\ pc = "start"
        /\ mVoxels = [c \in Cells |-> "Air"]
        /\ i = 0
        /\ tempVox = "Air" /\ lastVox = "Air" /\ counter = 0 /\ out = <<>>
        /\ file = NoFile
        /\ r = 1
        /\ saved = mVoxels
        /\ whole = FALSE

-----------------------------------------------------------------------------
(* LoadFromDisk                                                            *)
LoadOpen == /\ pc = "start"
            /\ pc' = IF file.exists THEN "load" ELSE "noise"
            /\ i' = 0 /\ r' = 1
            /\ UNCHANGED <<mVoxels, saveVars, file, saved, whole>>

Least(a, b) == IF a < b THEN a ELSE b

(* Fills cells from first up to but not including end.                     *)
Fill(first, end, v) == [c \in Cells |-> IF first <= c /\ c < end THEN v ELSE mVoxels[c]]

LoadRun == /\ pc = "load" /\ r <= Len(file.runs)
           /\ LET end == Least(i + file.runs[r].n, Size)
              IN  /\ mVoxels' = Fill(i, end, file.runs[r].v)
                  /\ i' = end
                  /\ pc' = IF end < Size THEN "load" ELSE "playing"
           /\ r' = r + 1
           /\ UNCHANGED <<saveVars, file, saved, whole>>

(* A read past the end fails and leaves counter and tempVox as they were:  *)
(* undefined at first, later 0, which the decrement wraps, and the voxel   *)
(* of the last run.  Only then is the stream tested.                       *)
LoadFails ==
    /\ pc = "load" /\ r > Len(file.runs)
    /\ \E v \in IF r = 1 THEN VoxelType ELSE {file.runs[r - 1].v} :
       \E end \in IF file.cut > 0 THEN {Least(i + file.cut, Size)}
                  ELSE IF r = 1 THEN i + 1 .. Size ELSE {Size} :
          mVoxels' = Fill(i, end, v) /\ i' = end
    /\ pc' = "noise"
    /\ UNCHANGED <<saveVars, file, r, saved, whole>>

(* The rest of Generate.  Its stages set the solid voxels; stage 0 is what *)
(* puts air everywhere else.                                               *)
NotCleaned(c) == mVoxels[c]
Cleaned(c) == "Air"

GenerateNoise ==
    /\ pc = "noise"
    /\ mVoxels' = [c \in Cells |-> IF Terrain[c] # "Air" THEN Terrain[c] ELSE Cleaned(c)]
    /\ pc' = "playing"
    /\ UNCHANGED <<i, saveVars, file, r, saved, whole>>

PickVoxel == /\ pc = "playing"
             /\ \E c \in Cells : /\ mVoxels[c] # "Air"
                                 /\ mVoxels' = [mVoxels EXCEPT ![c] = "Bedrock"]
             /\ UNCHANGED <<pc, i, saveVars, file, r, saved, whole>>

-----------------------------------------------------------------------------
(* SaveToDisk                                                              *)
SaveOpen == /\ pc = "playing"
            /\ file' = Contents(<<>>, 0)
            /\ tempVox' = mVoxels[0]
            /\ i' = 0 /\ out' = <<>>
            /\ saved' = mVoxels /\ whole' = FALSE
            /\ pc' = "outer"
            /\ UNCHANGED <<mVoxels, lastVox, counter, r>>

SaveOpenFails == /\ pc = "playing"
                 /\ pc' = "failed"
                 /\ UNCHANGED <<mVoxels, i, saveVars, file, r, saved, whole>>

NotReset == counter
FirstOfRun == 1

SaveRun == /\ pc = "outer" /\ i < Size
           /\ lastVox' = tempVox
           /\ counter' = FirstOfRun
           /\ i' = i + 1
           /\ pc' = "inner"
           /\ UNCHANGED <<mVoxels, tempVox, out, file, r, saved, whole>>

SameRun == lastVox = tempVox /\ i < Size

SaveSame == /\ pc = "inner" /\ SameRun
            /\ counter' = counter + 1
            /\ tempVox' = mVoxels[i]
            /\ i' = i + 1
            /\ UNCHANGED <<pc, mVoxels, lastVox, out, file, r, saved, whole>>

(* The voxel that ended the loop belongs to the next run.                  *)
NoStepBack(n) == n
StepBack(n) == IF i < Size THEN n - 1 ELSE n

ThisRun == [at |-> StepBack(i) - StepBack(counter), n |-> StepBack(counter), v |-> lastVox]

SaveWrite == /\ pc = "inner" /\ ~SameRun
             /\ out' = Append(out, ThisRun)
             /\ counter' = StepBack(counter) /\ i' = StepBack(i)
             /\ pc' = "outer"
             /\ UNCHANGED <<mVoxels, tempVox, lastVox, file, r, saved, whole>>

SaveWriteFails == /\ pc = "inner" /\ ~SameRun
                  /\ Torn(Append(out, ThisRun))
                  /\ pc' = "failed"
                  /\ UNCHANGED <<mVoxels, i, saveVars, r, saved, whole>>

SaveClose == /\ pc = "outer" /\ i = Size
             /\ file' = Contents(out, 0)
             /\ whole' = TRUE
             /\ pc' = "saved"
             /\ UNCHANGED <<mVoxels, i, saveVars, r, saved>>

(* close writes what the stream still holds; whether that worked is not    *)
(* asked.                                                                  *)
SaveCloseFails == /\ pc = "outer" /\ i = Size
                  /\ Torn(out)
                  /\ pc' = "saved"
                  /\ UNCHANGED <<mVoxels, i, saveVars, r, saved, whole>>

-----------------------------------------------------------------------------
(* The program ends before the chunk is generated, which SaveToDisk then   *)
(* refuses, or without saving at all.                                      *)
Leave == /\ pc \in {"start", "load", "noise", "playing"}
         /\ pc' = "off"
         /\ UNCHANGED <<mVoxels, i, saveVars, file, r, saved, whole>>

CrashSaving == /\ pc \in {"outer", "inner"}
               /\ Torn(out)
               /\ pc' = "off"
               /\ UNCHANGED <<mVoxels, i, saveVars, r, saved, whole>>

(* A new session begins with a new Chunk.                                  *)
Restart == /\ pc \in {"saved", "failed", "off"}
           /\ pc' = "start"
           /\ mVoxels' = [c \in Cells |-> "Air"]
           /\ UNCHANGED <<i, saveVars, file, r, saved, whole>>

Next == \/ LoadOpen \/ LoadRun \/ LoadFails \/ GenerateNoise
        \/ PickVoxel
        \/ SaveOpen \/ SaveOpenFails \/ SaveRun \/ SaveSame
        \/ SaveWrite \/ SaveWriteFails \/ SaveClose \/ SaveCloseFails
        \/ Leave \/ CrashSaving \/ Restart

Spec == Init /\ [][Next]_vars

-----------------------------------------------------------------------------
(* Every variable has its type; the counter of a run stays within the      *)
(* voxels that were read.                                                  *)
TypeOK == /\ pc \in {"start", "load", "noise", "playing", "outer", "inner",
                     "saved", "failed", "off"}
          /\ mVoxels \in [Cells -> VoxelType] /\ saved \in [Cells -> VoxelType]
          /\ i \in 0 .. Size
          /\ tempVox \in VoxelType /\ lastVox \in VoxelType
          /\ counter \in 0 .. Size
          /\ out \in Seq(Run)
          /\ file \in [exists : BOOLEAN, runs : Seq(Run), cut : Nat]
          /\ r \in Nat \ {0}
          /\ whole \in BOOLEAN

(* LoadFromDisk tells the truth: when it succeeds, the voxels are those    *)
(* SaveToDisk set out to save, whatever became of the file and however     *)
(* many sessions ago; when it fails, the file was not whole.               *)
LoadTellsTruth ==
    [][/\ pc = "load" /\ pc' = "playing" => mVoxels' = saved
       /\ pc = "load" /\ pc' = "noise" => ~whole]_vars

(* The player only ever walks on real terrain: what the noise made, with   *)
(* solid voxels turned to bedrock, and no garbage of a file cut short.     *)
PlayedIsReal ==
    pc = "playing" =>
        \A c \in Cells : \/ mVoxels[c] = Terrain[c]
                         \/ mVoxels[c] = "Bedrock" /\ Terrain[c] # "Air"

(* SaveToDisk returns true only if writing was successful (Chunk.hpp:185). *)
SaveTellsTruth == pc = "saved" => whole
=============================================================================
