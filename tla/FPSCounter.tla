----------------------------- MODULE FPSCounter ------------------------------
(***************************************************************************)
(* The average of FPSCounter (Common/FPSCounter.cpp): a deque of the last  *)
(* mAvgRange frame rates, cut back after it has grown past its range.  The *)
(* rates are never looked at before they are summed, so an entry is the    *)
(* stamp of the Run call that pushed it, counted modulo Stamps.  The       *)
(* report every mPeriod seconds goes to the log only and is left out.      *)
(***************************************************************************)
EXTENDS Integers, Sequences

CONSTANTS mAvgRange,  \* how many frame rates the average is of
          Stamps      \* bound: the Run calls told apart

ASSUME FPSAssumption == mAvgRange \in Nat \ {0} /\ Stamps \in Nat
                        /\ Stamps > mAvgRange + 1

VARIABLES mFPSAvg,  \* the deque, oldest first
          stamp,    \* of the latest Run call
          runs      \* how many there were, up to mAvgRange

fpsVars == <<mFPSAvg, stamp, runs>>

FPSInit == mFPSAvg = <<>> /\ stamp = 0 /\ runs = 0

CutEarly(q) == IF Len(q) >= mAvgRange THEN Tail(q) ELSE q
Cut(q) == IF Len(q) > mAvgRange THEN Tail(q) ELSE q

Run == /\ stamp' = (stamp + 1) % Stamps
       /\ runs' = IF runs < mAvgRange THEN runs + 1 ELSE runs
       /\ mFPSAvg' = Cut(Append(mFPSAvg, stamp'))

(* The calls whose rates are averaged; {} stands for the answer 0.         *)
GetAvgFrameCount == IF Len(mFPSAvg) < mAvgRange
                    THEN {} ELSE {mFPSAvg[n] : n \in 1 .. Len(mFPSAvg)}

(* "Averaged FPS from last 100 Run() calls.  0 if Run() was called less    *)
(* than 100 times" (FPSCounter.hpp:43): no call is averaged twice, left    *)
(* out or kept too long, and the average starts with the 100th call.       *)
AverageOfLastRuns ==
    GetAvgFrameCount = IF runs < mAvgRange THEN {}
                       ELSE {(stamp + n) % Stamps : n \in (1 - mAvgRange) .. 0}
=============================================================================
