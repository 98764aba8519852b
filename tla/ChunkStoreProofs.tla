-------------------------- MODULE ChunkStoreProofs --------------------------
(***************************************************************************)
(* Proofs about ChunkStore, for chunks of any size and any terrain whose   *)
(* topmost cells are air.  The invariant says what the runs written so far *)
(* stand for: they follow one another without a gap and each holds for the *)
(* voxels under it.  A file keeps this when it is cut short.               *)
(***************************************************************************)
EXTENDS ChunkStore, SequenceTheorems, TLAPS

Voxels == [Cells -> VoxelType]
Real(V) == \A c \in Cells : \/ V[c] = Terrain[c]
                            \/ V[c] = "Bedrock" /\ Terrain[c] # "Air"

EndOf(run) == run.at + run.n

(* Where the k-th run has to begin.                                        *)
Begins(runs, k) == IF k = 1 THEN 0 ELSE EndOf(runs[k - 1])
UpTo(runs) == Begins(runs, Len(runs) + 1)

(* Each voxel of V under the run has its type.                             *)
Holds(run, V) == /\ run.n >= 1 /\ EndOf(run) <= Size
                 /\ \A c \in Cells : run.at <= c /\ c < EndOf(run) => V[c] = run.v

Chain(runs, V) == /\ runs \in Seq(Run)
                  /\ \A k \in 1 .. Len(runs) : /\ Holds(runs[k], V)
                                               /\ runs[k].at = Begins(runs, k)

VoxelsReal == pc \in {"playing", "outer", "inner"} => Real(mVoxels)

FileTrue == /\ file.exists => Real(saved) /\ Chain(file.runs, saved)
            /\ whole => file.exists /\ UpTo(file.runs) = Size

Loading == pc = "load" =>
    /\ file.exists
    /\ r \in 1 .. Len(file.runs) + 1
    /\ i = Begins(file.runs, r) /\ i < Size
    /\ \A c \in Cells : c < i => mVoxels[c] = saved[c]

Saving == pc \in {"outer", "inner"} =>
    /\ file.exists /\ ~whole
    /\ saved = mVoxels
    /\ Chain(out, mVoxels)

AtRun == pc = "outer" => /\ UpTo(out) = i
                         /\ i < Size => tempVox = mVoxels[i]

(* The voxels since the run began are its own, but for the last one read.  *)
InRun == pc = "inner" =>
    /\ counter >= 1 /\ counter <= i
    /\ UpTo(out) = i - counter
    /\ tempVox = mVoxels[i - 1]
    /\ counter = 1 => tempVox = lastVox
    /\ \A c \in Cells : i - counter <= c /\ c < i - 1 => mVoxels[c] = lastVox

IInv == TypeOK /\ VoxelsReal /\ FileTrue /\ Loading /\ Saving /\ AtRun /\ InRun

-----------------------------------------------------------------------------
(* Lemmas on chains of runs.                                               *)

LEMMA NoRuns == ASSUME NEW V PROVE Chain(<<>>, V) /\ UpTo(<<>>) = 0
BY DEF Chain, UpTo, Begins

(* The first runs of a chain are a chain.                                  *)
LEMMA ChainCut ==
    ASSUME NEW V, NEW runs, Chain(runs, V), NEW k \in 0 .. Len(runs)
    PROVE  Chain(SubSeq(runs, 1, k), V)
<1> DEFINE s == SubSeq(runs, 1, k)
<1>0. runs \in Seq(Run) /\ Len(runs) \in Nat
  BY LenProperties DEF Chain
<1>1. s \in Seq(Run) /\ Len(s) = k /\ \A j \in 1 .. k : s[j] = runs[j]
  <2>1. CASE k = 0
    BY <1>0, <2>1
  <2>2. CASE k > 0
    BY <1>0, <2>2
  <2> QED BY <1>0, <2>1, <2>2
<1> HIDE DEF s
<1>2. ASSUME NEW j \in 1 .. k PROVE s[j].at = Begins(s, j)
  <2>1. runs[j].at = Begins(runs, j) BY <1>0 DEF Chain
  <2>2. CASE j = 1 BY <1>1, <2>1, <2>2 DEF Begins
  <2>3. CASE j # 1
    <3>1. s[j - 1] = runs[j - 1] BY <1>1, <2>3
    <3> QED BY <1>1, <2>1, <2>3, <3>1 DEF Begins
  <2> QED BY <2>2, <2>3
<1>3. \A j \in 1 .. k : Holds(s[j], V)
  BY <1>0, <1>1 DEF Chain
<1>4. Chain(s, V)
  BY <1>1, <1>2, <1>3 DEF Chain
<1> QED BY <1>4 DEF s

(* A chain grows by a run that begins where it ends.                       *)
LEMMA ChainGrows ==
    ASSUME NEW V, NEW runs, Chain(runs, V), NEW run \in Run,
           Holds(run, V), run.at = UpTo(runs)
    PROVE  /\ Chain(Append(runs, run), V)
           /\ UpTo(Append(runs, run)) = EndOf(run)
<1> DEFINE s == Append(runs, run)
           n == Len(runs)
<1>0. runs \in Seq(Run) /\ n \in Nat
  BY LenProperties DEF Chain
<1>1. /\ s \in Seq(Run) /\ Len(s) = n + 1 /\ s[n + 1] = run
      /\ \A j \in 1 .. n : s[j] = runs[j]
  BY <1>0
<1> HIDE DEF s, n
<1>2. ASSUME NEW j \in 1 .. n + 1 PROVE Begins(s, j) = Begins(runs, j)
  <2>1. CASE j = 1 BY <2>1 DEF Begins
  <2>2. CASE j # 1
    <3>1. s[j - 1] = runs[j - 1] BY <1>0, <1>1, <2>2
    <3> QED BY <2>2, <3>1 DEF Begins
  <2> QED BY <2>1, <2>2
<1>3. ASSUME NEW j \in 1 .. n + 1
      PROVE  Holds(s[j], V) /\ s[j].at = Begins(s, j)
  <2>1. CASE j \in 1 .. n
    BY <1>0, <1>1, <1>2, <2>1 DEF Chain, n
  <2>2. CASE j = n + 1
    BY <1>1, <1>2, <2>2 DEF UpTo, n
  <2> QED BY <1>0, <2>1, <2>2
<1>4. Chain(s, V)
  BY <1>1, <1>3 DEF Chain
<1>5. UpTo(s) = EndOf(run)
  <2>1. Len(s) + 1 # 1 /\ (Len(s) + 1) - 1 = n + 1 BY <1>0, <1>1
  <2> QED BY <1>1, <2>1 DEF UpTo, Begins
<1> QED BY <1>4, <1>5 DEF s

(* The place a chain reaches is a place of the chunk.                      *)
LEMMA BeginsInChunk ==
    ASSUME NEW V, NEW runs, Chain(runs, V), NEW k \in 1 .. Len(runs) + 1
    PROVE  Begins(runs, k) \in 0 .. Size
<1>1. CASE k = 1 BY <1>1, StoreAssumption DEF Begins
<1>2. CASE k # 1
  <2>1. runs \in Seq(Run) /\ Len(runs) \in Nat BY LenProperties DEF Chain
  <2>2. k - 1 \in 1 .. Len(runs) BY <1>2, <2>1
  <2>3. runs[k - 1] \in Run BY <2>1, <2>2
  <2>4. Holds(runs[k - 1], V) BY <2>2 DEF Chain
  <2>5. runs[k - 1].at \in Nat /\ runs[k - 1].n \in Nat BY <2>3 DEF Run
  <2> QED BY <1>2, <2>4, <2>5, StoreAssumption DEF Begins, Holds, EndOf
<1> QED BY <1>1, <1>2

(* Terrain and edits leave the two topmost cells alike.                    *)
LEMMA TopIsAir ==
    ASSUME NEW V, Real(V) PROVE V[Size - 1] = "Air" /\ V[Size - 2] = "Air"
<1>1. Size - 1 \in Cells /\ Size - 2 \in Cells BY StoreAssumption DEF Cells
<1> QED BY <1>1, StoreAssumption DEF Real

FileType == [exists : BOOLEAN, runs : Seq(Run), cut : Nat]

(* What stays of a chain on the disk is a chain.                           *)
LEMMA TornFile ==
    ASSUME NEW V, NEW runs, Chain(runs, V), Torn(runs)
    PROVE  file' \in FileType /\ file'.exists /\ Chain(file'.runs, V)
<1>1. PICK k \in 0 .. Len(runs) :
        \E cut \in IF k < Len(runs) THEN {0} \cup Digits(runs[k + 1].n) ELSE {0} :
           file' = Contents(SubSeq(runs, 1, k), cut)
  BY DEF Torn
<1>2. PICK cut \in IF k < Len(runs) THEN {0} \cup Digits(runs[k + 1].n) ELSE {0} :
           file' = Contents(SubSeq(runs, 1, k), cut)
  BY <1>1
<1>3. Chain(SubSeq(runs, 1, k), V) BY ChainCut
<1>4. cut \in Nat
  <2>1. runs \in Seq(Run) /\ Len(runs) \in Nat BY LenProperties DEF Chain
  <2>2. CASE k < Len(runs)
    <3>1. runs[k + 1] \in Run BY <2>1, <2>2
    <3>2. runs[k + 1].n \in Nat BY <3>1 DEF Run
    <3> QED BY <1>2, <2>2, <3>2 DEF Digits
  <2>3. CASE ~(k < Len(runs)) BY <1>2, <2>3
  <2> QED BY <2>2, <2>3
<1>5. SubSeq(runs, 1, k) \in Seq(Run) BY <1>3 DEF Chain
<1> QED BY <1>2, <1>3, <1>4, <1>5 DEF Contents, FileType

-----------------------------------------------------------------------------
(* The invariant is inductive.                                             *)

LEMMA Starts == Init => IInv
<1> SUFFICES ASSUME Init PROVE IInv OBVIOUS
<1> USE StoreAssumption DEF Init
<1>1. TypeOK BY DEF TypeOK, VoxelType, NoFile, Cells
<1>2. FileTrue BY DEF FileTrue, NoFile
<1> QED BY <1>1, <1>2 DEF IInv, VoxelsReal, Loading, Saving, AtRun, InRun

LEMMA FillType ==
    ASSUME mVoxels \in Voxels, NEW first, NEW end, NEW v \in VoxelType
    PROVE  Fill(first, end, v) \in Voxels
BY DEF Fill, Voxels

LEMMA LoadKeeps ==
    ASSUME IInv, LoadOpen \/ LoadRun \/ LoadFails
    PROVE  IInv' /\ (pc = "load" /\ pc' = "playing" => mVoxels' = saved)
                 /\ (pc = "load" /\ pc' = "noise" => ~whole)
<1> USE StoreAssumption DEF saveVars
<1>0. /\ TypeOK /\ FileTrue /\ Loading
      /\ Size \in Nat /\ i \in 0 .. Size
      /\ file \in FileType /\ mVoxels \in Voxels
  BY DEF IInv, TypeOK, FileType, Voxels
<1>1. CASE LoadOpen
  <2>1. TypeOK' BY <1>0, <1>1 DEF LoadOpen, TypeOK
  <2>2. FileTrue' BY <1>0, <1>1 DEF LoadOpen, FileTrue
  <2>3. Loading'
    <3>1. Len(file.runs) \in Nat BY <1>0, LenProperties DEF FileType
    <3> QED BY <1>0, <1>1, <3>1 DEF LoadOpen, Loading, Begins, Cells
  <2>4. pc' \in {"load", "noise"} /\ pc = "start" BY <1>1 DEF LoadOpen
  <2> QED BY <2>1, <2>2, <2>3, <2>4 DEF IInv, VoxelsReal, Saving, AtRun, InRun
<1>2. CASE LoadRun
  <2> DEFINE run == file.runs[r]
             end == Least(i + run.n, Size)
  <2>1. /\ pc = "load" /\ r <= Len(file.runs)
        /\ mVoxels' = Fill(i, end, run.v) /\ i' = end
        /\ pc' = IF end < Size THEN "load" ELSE "playing"
        /\ r' = r + 1
        /\ UNCHANGED <<tempVox, lastVox, counter, out, file, saved, whole>>
    BY <1>2 DEF LoadRun
  <2>2. /\ file.exists /\ r \in 1 .. Len(file.runs) + 1
        /\ i = Begins(file.runs, r)
        /\ Chain(file.runs, saved) /\ Real(saved)
        /\ \A c \in Cells : c < i => mVoxels[c] = saved[c]
    BY <1>0, <2>1 DEF Loading, FileTrue
  <2>3. Len(file.runs) \in Nat /\ file.runs \in Seq(Run)
    BY <1>0, LenProperties DEF FileType
  <2>4. r \in 1 .. Len(file.runs) BY <2>1, <2>2, <2>3
  <2>5. run \in Run BY <2>3, <2>4
  <2>6. Holds(run, saved) /\ run.at = i BY <2>2, <2>4 DEF Chain
  <2>7. run.n \in Nat /\ run.v \in VoxelType BY <2>5 DEF Run
  <2>8. end = EndOf(run) /\ end \in 0 .. Size
    BY <1>0, <2>6, <2>7 DEF Holds, EndOf, Least
  <2> HIDE DEF run, end
  <2>9. mVoxels' \in Voxels BY <1>0, <2>1, <2>7, FillType
  <2>10. \A c \in Cells : c < end => mVoxels'[c] = saved[c]
    <3> SUFFICES ASSUME NEW c \in Cells, c < end PROVE mVoxels'[c] = saved[c]
      OBVIOUS
    <3>1. c \in Int BY DEF Cells
    <3>2. mVoxels'[c] = IF i <= c /\ c < end THEN run.v ELSE mVoxels[c]
      BY <2>1 DEF Fill
    <3>3. CASE i <= c BY <2>6, <2>8, <3>2, <3>3 DEF Holds
    <3>4. CASE c < i BY <1>0, <2>2, <3>1, <3>2, <3>4
    <3> QED BY <1>0, <3>1, <3>3, <3>4
  <2>11. TypeOK'
    <3>1. r' \in Nat \ {0} BY <2>1, <2>3, <2>4
    <3> QED BY <1>0, <2>1, <2>8, <2>9, <3>1 DEF TypeOK, Voxels
  <2>12. pc' = "playing" => mVoxels' = saved
    <3> SUFFICES ASSUME pc' = "playing" PROVE mVoxels' = saved OBVIOUS
    <3>1. end = Size BY <1>0, <2>1, <2>8
    <3>2. \A c \in Cells : mVoxels'[c] = saved[c] BY <2>10, <3>1 DEF Cells
    <3>3. saved \in Voxels BY <1>0 DEF TypeOK, Voxels
    <3> QED BY <2>9, <3>2, <3>3 DEF Voxels
  <2>13. FileTrue' BY <1>0, <2>1 DEF FileTrue
  <2>14. Loading'
    <3> SUFFICES ASSUME pc' = "load" PROVE Loading' BY DEF Loading
    <3>1. end < Size BY <2>1
    <3>2. r + 1 \in 1 .. Len(file.runs) + 1 BY <2>3, <2>4
    <3>3. Begins(file.runs, r + 1) = end
      <4>1. r + 1 # 1 /\ (r + 1) - 1 = r BY <2>4
      <4> QED BY <2>8, <4>1 DEF Begins, run
    <3> QED BY <2>1, <2>2, <2>10, <3>1, <3>2, <3>3 DEF Loading
  <2>15. VoxelsReal'
    BY <2>1, <2>2, <2>12 DEF VoxelsReal
  <2>16. pc' \in {"load", "playing"} BY <2>1
  <2> QED BY <2>1, <2>11, <2>12, <2>13, <2>14, <2>15, <2>16
          DEF IInv, Saving, AtRun, InRun
<1>3. CASE LoadFails
  <2>1. /\ pc = "load" /\ r > Len(file.runs) /\ pc' = "noise"
        /\ UNCHANGED <<tempVox, lastVox, counter, out, file, r, saved, whole>>
    BY <1>3 DEF LoadFails
  <2>2. PICK v \in IF r = 1 THEN VoxelType ELSE {file.runs[r - 1].v} :
        \E end \in IF file.cut > 0 THEN {Least(i + file.cut, Size)}
                   ELSE IF r = 1 THEN i + 1 .. Size ELSE {Size} :
           mVoxels' = Fill(i, end, v) /\ i' = end
    BY <1>3 DEF LoadFails
  <2>3. PICK end \in IF file.cut > 0 THEN {Least(i + file.cut, Size)}
                     ELSE IF r = 1 THEN i + 1 .. Size ELSE {Size} :
           mVoxels' = Fill(i, end, v) /\ i' = end
    BY <2>2
  <2>4. /\ file.exists /\ r \in 1 .. Len(file.runs) + 1
        /\ i = Begins(file.runs, r) /\ i < Size
        /\ file.runs \in Seq(Run) /\ Len(file.runs) \in Nat
        /\ file.cut \in Nat
    BY <1>0, <2>1, LenProperties DEF Loading, FileType
  <2>5. r = Len(file.runs) + 1 BY <2>1, <2>4
  <2>6. v \in VoxelType
    <3>1. CASE r = 1 BY <2>2, <3>1
    <3>2. CASE r # 1
      <4>1. file.runs[r - 1] \in Run BY <2>4, <2>5, <3>2
      <4> QED BY <2>2, <3>2, <4>1 DEF Run
    <3> QED BY <3>1, <3>2
  <2>7. end \in 0 .. Size BY <1>0, <2>3, <2>4 DEF Least
  <2>8. mVoxels' \in Voxels BY <1>0, <2>3, <2>6, FillType
  <2>9. TypeOK' BY <1>0, <2>1, <2>3, <2>7, <2>8 DEF TypeOK, Voxels
  <2>10. ~whole
    BY <1>0, <2>4, <2>5 DEF FileTrue, UpTo
  <2>11. FileTrue' BY <1>0, <2>1 DEF FileTrue
  <2> QED BY <2>1, <2>9, <2>10, <2>11
          DEF IInv, VoxelsReal, Loading, Saving, AtRun, InRun
<1> QED BY <1>1, <1>2, <1>3

LEMMA PlayKeeps ==
    ASSUME IInv, GenerateNoise \/ PickVoxel \/ SaveOpen \/ SaveOpenFails
    PROVE  IInv'
<1> USE StoreAssumption DEF saveVars
<1>0. TypeOK /\ FileTrue /\ VoxelsReal /\ mVoxels \in Voxels
  BY DEF IInv, TypeOK, Voxels
<1>1. CASE GenerateNoise
  <2>1. mVoxels' \in Voxels /\ Real(mVoxels')
    BY <1>1 DEF GenerateNoise, Cleaned, Voxels, VoxelType, Real
  <2>2. TypeOK' BY <1>0, <1>1, <2>1 DEF GenerateNoise, TypeOK, Voxels
  <2>3. FileTrue' BY <1>0, <1>1 DEF GenerateNoise, FileTrue
  <2>4. VoxelsReal' BY <2>1 DEF VoxelsReal
  <2>5. pc' = "playing" BY <1>1 DEF GenerateNoise
  <2> QED BY <2>2, <2>3, <2>4, <2>5 DEF IInv, Loading, Saving, AtRun, InRun
<1>2. CASE PickVoxel
  <2>1. PICK c \in Cells : /\ mVoxels[c] # "Air"
                           /\ mVoxels' = [mVoxels EXCEPT ![c] = "Bedrock"]
    BY <1>2 DEF PickVoxel
  <2>2. Real(mVoxels) BY <1>0, <1>2 DEF PickVoxel, VoxelsReal
  <2>3. mVoxels' \in Voxels /\ Real(mVoxels')
    BY <1>0, <2>1, <2>2 DEF Voxels, VoxelType, Real
  <2>4. TypeOK' BY <1>0, <1>2, <2>3 DEF PickVoxel, TypeOK, Voxels
  <2>5. FileTrue' BY <1>0, <1>2 DEF PickVoxel, FileTrue
  <2>6. VoxelsReal' BY <2>3 DEF VoxelsReal
  <2>7. pc' = "playing" BY <1>2 DEF PickVoxel
  <2> QED BY <2>4, <2>5, <2>6, <2>7 DEF IInv, Loading, Saving, AtRun, InRun
<1>3. CASE SaveOpen
  <2>1. 0 \in Cells BY DEF Cells
  <2>2. TypeOK'
    <3>1. <<>> \in Seq(Run) BY EmptySeq
    <3>2. mVoxels[0] \in VoxelType BY <1>0, <2>1 DEF Voxels
    <3>3. Contents(<<>>, 0) \in FileType BY <3>1 DEF Contents, FileType
    <3>4. i' \in 0 .. Size /\ out' \in Seq(Run) /\ tempVox' \in VoxelType
      BY <1>3, <3>1, <3>2 DEF SaveOpen
    <3>5. file' \in FileType BY <1>3, <3>3 DEF SaveOpen
    <3>6. /\ pc' = "outer" /\ saved' = mVoxels /\ whole' = FALSE
          /\ UNCHANGED <<mVoxels, lastVox, counter, r>>
      BY <1>3 DEF SaveOpen
    <3> QED BY <1>0, <3>4, <3>5, <3>6 DEF TypeOK, FileType
  <2>3. file'.exists /\ file'.runs = <<>> /\ ~whole' /\ pc' = "outer"
        /\ saved' = mVoxels /\ mVoxels' = mVoxels /\ out' = <<>>
        /\ i' = 0 /\ tempVox' = mVoxels[0]
    BY <1>3 DEF SaveOpen, Contents
  <2>4. Real(mVoxels) BY <1>0, <1>3 DEF SaveOpen, VoxelsReal
  <2>5. FileTrue' BY <2>3, <2>4, NoRuns DEF FileTrue
  <2>6. Saving' BY <2>3, NoRuns DEF Saving
  <2>7. AtRun' BY <2>3, NoRuns DEF AtRun
  <2>8. VoxelsReal' BY <2>3, <2>4 DEF VoxelsReal
  <2> QED BY <2>2, <2>3, <2>5, <2>6, <2>7, <2>8 DEF IInv, Loading, InRun
<1>4. CASE SaveOpenFails
  <2>1. TypeOK' BY <1>0, <1>4 DEF SaveOpenFails, TypeOK
  <2>2. FileTrue' BY <1>0, <1>4 DEF SaveOpenFails, FileTrue
  <2>3. pc' = "failed" BY <1>4 DEF SaveOpenFails
  <2> QED BY <2>1, <2>2, <2>3 DEF IInv, VoxelsReal, Loading, Saving, AtRun, InRun
<1> QED BY <1>1, <1>2, <1>3, <1>4

(* What a run is when the inner loop ends, the last voxel of the chunk     *)
(* included: it is of the run because the one before it is of its type.    *)
LEMMA RunEnds ==
    ASSUME IInv, pc = "inner", ~SameRun
    PROVE  /\ ThisRun \in Run /\ Holds(ThisRun, mVoxels)
           /\ ThisRun.at = UpTo(out) /\ EndOf(ThisRun) = StepBack(i)
           /\ StepBack(i) \in 0 .. Size /\ StepBack(counter) \in 0 .. Size
           /\ StepBack(i) < Size => tempVox = mVoxels[StepBack(i)]
<1> USE StoreAssumption
<1>0. /\ i \in 0 .. Size /\ counter \in 0 .. Size /\ lastVox \in VoxelType
      /\ counter >= 1 /\ counter <= i
      /\ UpTo(out) = i - counter
      /\ tempVox = mVoxels[i - 1]
      /\ counter = 1 => tempVox = lastVox
      /\ \A c \in Cells : i - counter <= c /\ c < i - 1 => mVoxels[c] = lastVox
      /\ Real(mVoxels)
  BY DEF IInv, TypeOK, InRun, VoxelsReal
<1>1. CASE i < Size
  <2>1. tempVox # lastVox BY <1>1 DEF SameRun
  <2>2. /\ StepBack(i) = i - 1 /\ StepBack(counter) = counter - 1
        /\ counter >= 2
    BY <1>0, <1>1, <2>1 DEF StepBack
  <2>3. ThisRun = [at |-> i - counter, n |-> counter - 1, v |-> lastVox]
    BY <1>0, <2>2 DEF ThisRun
  <2> QED BY <1>0, <1>1, <2>2, <2>3 DEF Run, Holds, EndOf
<1>2. CASE i = Size
  <2>1. StepBack(i) = Size /\ StepBack(counter) = counter BY <1>2 DEF StepBack
  <2>2. ThisRun = [at |-> Size - counter, n |-> counter, v |-> lastVox]
    BY <2>1 DEF ThisRun
  <2>3. mVoxels[Size - 1] = lastVox
    <3>1. CASE counter = 1 BY <1>0, <1>2, <3>1
    <3>2. CASE counter # 1
      <4>1. Size - 2 \in Cells /\ Size - counter <= Size - 2 /\ Size - 2 < Size - 1
        BY <1>0, <3>2 DEF Cells
      <4>2. mVoxels[Size - 2] = lastVox BY <1>0, <1>2, <4>1
      <4> QED BY <1>0, <4>2, TopIsAir
    <3> QED BY <3>1, <3>2
  <2>4. \A c \in Cells : Size - counter <= c => mVoxels[c] = lastVox
    <3> SUFFICES ASSUME NEW c \in Cells, Size - counter <= c
                 PROVE  mVoxels[c] = lastVox
      OBVIOUS
    <3>1. c = Size - 1 \/ c < Size - 1 BY DEF Cells
    <3> QED BY <1>0, <1>2, <2>3, <3>1
  <2>5. ThisRun \in Run BY <1>0, <1>2, <2>2 DEF Run
  <2>6. EndOf(ThisRun) = Size BY <1>0, <2>2 DEF EndOf
  <2>7. Holds(ThisRun, mVoxels) BY <1>0, <2>2, <2>4, <2>6 DEF Holds
  <2> QED BY <1>0, <1>2, <2>1, <2>2, <2>5, <2>6, <2>7
<1> QED BY <1>0, <1>1, <1>2

LEMMA SaveKeeps ==
    ASSUME IInv, SaveRun \/ SaveSame \/ SaveWrite
    PROVE  IInv'
<1> USE StoreAssumption
<1>0. /\ TypeOK /\ FileTrue /\ Saving /\ AtRun /\ InRun /\ VoxelsReal
      /\ i \in 0 .. Size /\ counter \in 0 .. Size /\ mVoxels \in Voxels
      /\ tempVox \in VoxelType
  BY DEF IInv, TypeOK, Voxels
<1>1. CASE SaveRun
  <2>1. /\ pc = "outer" /\ i < Size /\ pc' = "inner"
        /\ lastVox' = tempVox /\ counter' = 1 /\ i' = i + 1
        /\ UNCHANGED <<mVoxels, tempVox, out, file, r, saved, whole>>
    BY <1>1 DEF SaveRun, FirstOfRun
  <2>2. TypeOK'
    <3>1. i' \in 0 .. Size /\ counter' \in 0 .. Size BY <1>0, <2>1
    <3> QED BY <1>0, <2>1, <3>1 DEF TypeOK
  <2>3. InRun'
    <3>1. UpTo(out) = i /\ tempVox = mVoxels[i] BY <1>0, <2>1 DEF AtRun
    <3>2. (i + 1) - 1 = i BY <1>0
    <3>3. \A c \in Cells : ~(i <= c /\ c < i) BY <1>0 DEF Cells
    <3> QED BY <1>0, <2>1, <3>1, <3>2, <3>3 DEF InRun
  <2>4. Saving' BY <1>0, <2>1 DEF Saving
  <2>5. FileTrue' BY <1>0, <2>1 DEF FileTrue
  <2>6. VoxelsReal' BY <1>0, <2>1 DEF VoxelsReal
  <2> QED BY <2>1, <2>2, <2>3, <2>4, <2>5, <2>6 DEF IInv, Loading, AtRun
<1>2. CASE SaveSame
  <2>1. /\ pc = "inner" /\ lastVox = tempVox /\ i < Size /\ pc' = "inner"
        /\ counter' = counter + 1 /\ tempVox' = mVoxels[i] /\ i' = i + 1
        /\ UNCHANGED <<mVoxels, lastVox, out, file, r, saved, whole>>
    BY <1>2 DEF SaveSame, SameRun
  <2>2. /\ counter >= 1 /\ counter <= i /\ UpTo(out) = i - counter
        /\ tempVox = mVoxels[i - 1]
        /\ \A c \in Cells : i - counter <= c /\ c < i - 1 => mVoxels[c] = lastVox
    BY <1>0, <2>1 DEF InRun
  <2>3. i \in Cells BY <1>0, <2>1 DEF Cells
  <2>4. TypeOK'
    <3>1. i' \in 0 .. Size /\ counter' \in 0 .. Size BY <1>0, <2>1, <2>2
    <3>2. tempVox' \in VoxelType BY <1>0, <2>1, <2>3 DEF Voxels
    <3> QED BY <1>0, <2>1, <3>1, <3>2 DEF TypeOK
  <2>5. \A c \in Cells : i - counter <= c /\ c < i => mVoxels[c] = lastVox
    <3> SUFFICES ASSUME NEW c \in Cells, i - counter <= c, c < i
                 PROVE  mVoxels[c] = lastVox
      OBVIOUS
    <3>1. c = i - 1 \/ c < i - 1 BY <1>0 DEF Cells
    <3> QED BY <2>1, <2>2, <3>1
  <2>6. InRun'
    <3>1. /\ (i + 1) - 1 = i /\ (i + 1) - (counter + 1) = i - counter
          /\ counter + 1 >= 1 /\ counter + 1 <= i + 1 /\ counter + 1 # 1
      BY <1>0, <2>2
    <3> QED BY <2>1, <2>2, <2>5, <3>1 DEF InRun
  <2>7. Saving' BY <1>0, <2>1 DEF Saving
  <2>8. FileTrue' BY <1>0, <2>1 DEF FileTrue
  <2>9. VoxelsReal' BY <1>0, <2>1 DEF VoxelsReal
  <2> QED BY <2>1, <2>4, <2>6, <2>7, <2>8, <2>9 DEF IInv, Loading, AtRun
<1>3. CASE SaveWrite
  <2>1. /\ pc = "inner" /\ ~SameRun /\ pc' = "outer"
        /\ out' = Append(out, ThisRun)
        /\ counter' = StepBack(counter) /\ i' = StepBack(i)
        /\ UNCHANGED <<mVoxels, tempVox, lastVox, file, r, saved, whole>>
    BY <1>3 DEF SaveWrite
  <2>2. /\ ThisRun \in Run /\ Holds(ThisRun, mVoxels)
        /\ ThisRun.at = UpTo(out) /\ EndOf(ThisRun) = StepBack(i)
        /\ StepBack(i) \in 0 .. Size /\ StepBack(counter) \in 0 .. Size
        /\ StepBack(i) < Size => tempVox = mVoxels[StepBack(i)]
    BY <2>1, RunEnds
  <2>3. Chain(out, mVoxels) /\ file.exists /\ ~whole /\ saved = mVoxels
    BY <1>0, <2>1 DEF Saving
  <2>4. Chain(out', mVoxels) /\ UpTo(out') = StepBack(i)
    BY <2>1, <2>2, <2>3, ChainGrows
  <2>5. TypeOK'
    <3>1. out' \in Seq(Run) BY <2>4 DEF Chain
    <3> QED BY <1>0, <2>1, <2>2, <3>1 DEF TypeOK
  <2>6. AtRun' BY <2>1, <2>2, <2>4 DEF AtRun
  <2>7. Saving' BY <2>1, <2>3, <2>4 DEF Saving
  <2>8. FileTrue' BY <1>0, <2>1 DEF FileTrue
  <2>9. VoxelsReal' BY <1>0, <2>1 DEF VoxelsReal
  <2> QED BY <2>1, <2>5, <2>6, <2>7, <2>8, <2>9 DEF IInv, Loading, InRun
<1> QED BY <1>1, <1>2, <1>3

(* The end of a save and of a session, good or bad.                        *)
LEMMA EndKeeps ==
    ASSUME IInv, \/ SaveWriteFails \/ SaveClose \/ SaveCloseFails
                 \/ Leave \/ CrashSaving \/ Restart
    PROVE  IInv'
<1> USE StoreAssumption DEF saveVars
<1>0. /\ TypeOK /\ FileTrue /\ Saving /\ AtRun /\ VoxelsReal
      /\ mVoxels \in Voxels
  BY DEF IInv, TypeOK, Voxels
<1>1. ASSUME pc \in {"outer", "inner"}, NEW runs, Chain(runs, mVoxels), Torn(runs),
             pc' \in {"saved", "failed", "off"},
             UNCHANGED <<mVoxels, i, saveVars, r, saved, whole>>
      PROVE  IInv'
  <2>1. /\ file' \in FileType /\ file'.exists /\ Chain(file'.runs, mVoxels)
    BY <1>1, TornFile
  <2>2. ~whole /\ saved = mVoxels /\ Real(mVoxels) BY <1>0, <1>1 DEF Saving, VoxelsReal
  <2>3. FileTrue' BY <1>1, <2>1, <2>2 DEF FileTrue
  <2>4. TypeOK' BY <1>0, <1>1, <2>1 DEF TypeOK, FileType
  <2> QED BY <1>1, <2>3, <2>4 DEF IInv, VoxelsReal, Loading, Saving, AtRun, InRun
<1>2. CASE SaveWriteFails
  <2>1. pc = "inner" /\ ~SameRun /\ Torn(Append(out, ThisRun)) /\ pc' = "failed"
        /\ UNCHANGED <<mVoxels, i, saveVars, r, saved, whole>>
    BY <1>2 DEF SaveWriteFails
  <2>2. ThisRun \in Run /\ Holds(ThisRun, mVoxels) /\ ThisRun.at = UpTo(out)
    BY <2>1, RunEnds
  <2>3. Chain(out, mVoxels) BY <1>0, <2>1 DEF Saving
  <2>4. Chain(Append(out, ThisRun), mVoxels) BY <2>2, <2>3, ChainGrows
  <2> QED BY <1>1, <2>1, <2>4
<1>3. CASE SaveClose
  <2>1. /\ pc = "outer" /\ i = Size /\ pc' = "saved"
        /\ file' = Contents(out, 0) /\ whole'
        /\ UNCHANGED <<mVoxels, i, saveVars, r, saved>>
    BY <1>3 DEF SaveClose
  <2>2. Chain(out, mVoxels) /\ saved = mVoxels /\ Real(mVoxels) /\ UpTo(out) = Size
    BY <1>0, <2>1 DEF Saving, AtRun, VoxelsReal
  <2>3. file'.exists /\ file'.runs = out BY <2>1 DEF Contents
  <2>4. FileTrue' BY <2>1, <2>2, <2>3 DEF FileTrue
  <2>5. TypeOK' BY <1>0, <1>3 DEF TypeOK, SaveClose, Contents
  <2> QED BY <2>1, <2>4, <2>5 DEF IInv, VoxelsReal, Loading, Saving, AtRun, InRun
<1>4. CASE SaveCloseFails
  <2>1. pc = "outer" /\ Torn(out) /\ pc' = "saved"
        /\ UNCHANGED <<mVoxels, i, saveVars, r, saved, whole>>
    BY <1>4 DEF SaveCloseFails
  <2>2. Chain(out, mVoxels) BY <1>0, <2>1 DEF Saving
  <2> QED BY <1>1, <2>1, <2>2
<1>5. CASE Leave
  <2>1. TypeOK' BY <1>0, <1>5 DEF Leave, TypeOK
  <2>2. FileTrue' BY <1>0, <1>5 DEF Leave, FileTrue
  <2>3. pc' = "off" BY <1>5 DEF Leave
  <2> QED BY <2>1, <2>2, <2>3 DEF IInv, VoxelsReal, Loading, Saving, AtRun, InRun
<1>6. CASE CrashSaving
  <2>1. pc \in {"outer", "inner"} /\ Torn(out) /\ pc' = "off"
        /\ UNCHANGED <<mVoxels, i, saveVars, r, saved, whole>>
    BY <1>6 DEF CrashSaving
  <2>2. Chain(out, mVoxels) BY <1>0, <2>1 DEF Saving
  <2> QED BY <1>1, <2>1, <2>2
<1>7. CASE Restart
  <2>1. TypeOK' BY <1>0, <1>7 DEF Restart, TypeOK, VoxelType
  <2>2. FileTrue' BY <1>0, <1>7 DEF Restart, FileTrue
  <2>3. pc' = "start" BY <1>7 DEF Restart
  <2> QED BY <2>1, <2>2, <2>3 DEF IInv, VoxelsReal, Loading, Saving, AtRun, InRun
<1> QED BY <1>2, <1>3, <1>4, <1>5, <1>6, <1>7

LEMMA StutterKeeps == ASSUME IInv, UNCHANGED vars PROVE IInv'
BY DEF vars, IInv, TypeOK, VoxelsReal, FileTrue, Loading, Saving, AtRun, InRun

LEMMA Steps == IInv /\ [Next]_vars => IInv'
<1> SUFFICES ASSUME IInv, [Next]_vars PROVE IInv' OBVIOUS
<1>1. CASE LoadOpen \/ LoadRun \/ LoadFails BY <1>1, LoadKeeps
<1>2. CASE GenerateNoise \/ PickVoxel \/ SaveOpen \/ SaveOpenFails BY <1>2, PlayKeeps
<1>3. CASE SaveRun \/ SaveSame \/ SaveWrite BY <1>3, SaveKeeps
<1>4. CASE \/ SaveWriteFails \/ SaveClose \/ SaveCloseFails
           \/ Leave \/ CrashSaving \/ Restart
  BY <1>4, EndKeeps
<1>5. CASE UNCHANGED vars BY <1>5, StutterKeeps
<1> QED BY <1>1, <1>2, <1>3, <1>4, <1>5 DEF Next

(* The invariant holds in every session.                                   *)
THEOREM Invariance == Spec => []IInv
BY Starts, Steps, PTL DEF Spec

(* Every variable keeps its type; no counter outgrows the chunk.           *)
THEOREM TypeCorrect == Spec => []TypeOK
<1>1. IInv => TypeOK BY DEF IInv
<1> QED BY <1>1, Invariance, PTL

(* Whatever files were cut short, nobody plays on garbage.                 *)
THEOREM OnlyRealTerrain == Spec => []PlayedIsReal
<1>1. IInv => PlayedIsReal BY DEF IInv, VoxelsReal, Real, PlayedIsReal
<1> QED BY <1>1, Invariance, PTL

(* A load that succeeds restores the chunk of the last save; one that      *)
(* fails was of a file that is not whole.                                  *)
THEOREM LoadIsTrue == Spec => LoadTellsTruth
<1> DEFINE Tells == /\ pc = "load" /\ pc' = "playing" => mVoxels' = saved
                    /\ pc = "load" /\ pc' = "noise" => ~whole
<1>1. ASSUME IInv, Next PROVE Tells
  <2>1. CASE LoadOpen \/ LoadRun \/ LoadFails BY <1>1, <2>1, LoadKeeps
  <2>2. CASE GenerateNoise \/ PickVoxel \/ SaveOpen \/ SaveOpenFails
    BY <2>2 DEF GenerateNoise, PickVoxel, SaveOpen, SaveOpenFails
  <2>3. CASE SaveRun \/ SaveSame \/ SaveWrite
    BY <2>3 DEF SaveRun, SaveSame, SaveWrite
  <2>4. CASE \/ SaveWriteFails \/ SaveClose \/ SaveCloseFails
             \/ Leave \/ CrashSaving \/ Restart
    BY <2>4 DEF SaveWriteFails, SaveClose, SaveCloseFails, Leave, CrashSaving, Restart
  <2> QED BY <1>1, <2>1, <2>2, <2>3, <2>4 DEF Next
<1>2. IInv /\ [Next]_vars => [Tells]_vars BY <1>1
<1> QED BY <1>2, Invariance, PTL DEF Spec, LoadTellsTruth
=============================================================================
