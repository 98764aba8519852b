-------------------------- MODULE TaskQueueProofs ---------------------------
(***************************************************************************)
(* Proofs about TaskQueue for any sets of threads and tasks.  IInv is the  *)
(* inductive invariant: it says who holds the mutex, who sleeps, and that  *)
(* every live task object is in exactly one place.                         *)
(***************************************************************************)
EXTENDS TaskQueue, TLAPS

InSection == {"EmptyWait_loop", "EmptyWait_run"}
Carrying == {"Push", "Pop_run", "EmptyWait_run"}

LockInv == \A t \in Threads : pc[t] \in InSection => mMutex = t

SleepersWait == \A t \in mCV : pc[t] = "Pop_wait"

CarryInv == \A t \in Threads : task[t] # NoTask <=> pc[t] \in Carrying

UniqueInv ==
    /\ \A m, n \in 1 .. Len(mList) : mList[m] = mList[n] => m = n
    /\ \A t \in Threads : \A n \in 1 .. Len(mList) : task[t] # mList[n]
    /\ \A t, u \in Threads : task[t] = task[u] /\ task[t] # NoTask => t = u

IInv == /\ TypeOK /\ NoSleeperWithWork
        /\ SleepersWait /\ LockInv /\ CarryInv /\ UniqueInv

-----------------------------------------------------------------------------
(* Every step of the program is a step of some thread; one disjunct per    *)
(* action, so that a proof by cases has one case per action.               *)
LEMMA NextCases ==
    ASSUME Next
    PROVE  \E t \in Threads :
              \/ CallPush(t) /\ t \in Producers
              \/ Push(t) /\ t \in Producers
              \/ Call(t, "Pop") /\ t \in Consumers
              \/ PopSleep(t) /\ t \in Consumers
              \/ PopTake(t) /\ t \in Consumers
              \/ PopReturn(t) /\ t \in Consumers
              \/ SpuriousWake(t) /\ t \in Consumers
              \/ Call(t, "EmptyWait") /\ t \in Drainers
              \/ EmptyWaitLock(t) /\ t \in Drainers
              \/ EmptyWaitTake(t) /\ t \in Drainers
              \/ EmptyWaitTaskDone(t) /\ t \in Drainers
              \/ EmptyWaitTaskThrows(t) /\ t \in Drainers
              \/ EmptyWaitReturn(t) /\ t \in Drainers
              \/ Call(t, "Clear") /\ t \in Cleaners
              \/ Clear(t) /\ t \in Cleaners
  BY Zenon DEF Next, PopStep, EmptyWaitStep, Threads

(* What Append and Tail do to the elements of a list, by position.         *)
LEMMA AppendElements ==
    ASSUME NEW S, NEW s \in Seq(S), NEW e \in S
    PROVE  /\ Append(s, e) \in Seq(S)
           /\ Len(Append(s, e)) = Len(s) + 1
           /\ \A n \in 1 .. Len(s) : Append(s, e)[n] = s[n]
           /\ Append(s, e)[Len(s) + 1] = e
  OBVIOUS

LEMMA TailElements ==
    ASSUME NEW S, NEW s \in Seq(S), s # <<>>
    PROVE  /\ Tail(s) \in Seq(S)
           /\ Head(s) = s[1] /\ Head(s) \in S
           /\ Len(Tail(s)) = Len(s) - 1 /\ Len(s) \in Nat \ {0}
           /\ \A n \in 1 .. Len(Tail(s)) : Tail(s)[n] = s[n + 1]
  OBVIOUS

-----------------------------------------------------------------------------
(* The invariant holds initially and is kept by every step.                *)
LEMMA InitInv == Init => IInv
  BY QueueAssumption DEF Init, IInv, TypeOK, NoSleeperWithWork, SleepersWait,
     LockInv, CarryInv,
     UniqueInv, InSection, Carrying, Labels

LEMMA StepInv == IInv /\ [Next]_vars => IInv'
<1> SUFFICES ASSUME IInv, [Next]_vars PROVE IInv'
  OBVIOUS
<1> USE QueueAssumption DEF IInv, Goto, Labels, InSection, Carrying
<1>1. CASE UNCHANGED vars
  BY <1>1 DEF vars, TypeOK, NoSleeperWithWork, SleepersWait, LockInv,
     CarryInv, UniqueInv
<1>2. CASE Next
  <2>1. PICK t \in Threads :
              \/ CallPush(t) /\ t \in Producers
              \/ Push(t) /\ t \in Producers
              \/ Call(t, "Pop") /\ t \in Consumers
              \/ PopSleep(t) /\ t \in Consumers
              \/ PopTake(t) /\ t \in Consumers
              \/ PopReturn(t) /\ t \in Consumers
              \/ SpuriousWake(t) /\ t \in Consumers
              \/ Call(t, "EmptyWait") /\ t \in Drainers
              \/ EmptyWaitLock(t) /\ t \in Drainers
              \/ EmptyWaitTake(t) /\ t \in Drainers
              \/ EmptyWaitTaskDone(t) /\ t \in Drainers
              \/ EmptyWaitTaskThrows(t) /\ t \in Drainers
              \/ EmptyWaitReturn(t) /\ t \in Drainers
              \/ Call(t, "Clear") /\ t \in Cleaners
              \/ Clear(t) /\ t \in Cleaners
    BY <1>2, NextCases
  <2>2. CASE CallPush(t)
    <3>1. TypeOK' BY <2>2 DEF CallPush, TypeOK
    <3>2. NoSleeperWithWork' BY <2>2 DEF CallPush, NoSleeperWithWork
    <3>3. LockInv' BY <2>2 DEF CallPush, TypeOK, LockInv
    <3>6. SleepersWait' BY <2>2 DEF CallPush, TypeOK, SleepersWait
    <3>4. CarryInv' BY <2>2 DEF CallPush, TypeOK, CarryInv
    <3>5. UniqueInv'
      <4>1. PICK k \in Tasks \ (Queued \cup Held) : task' = [task EXCEPT ![t] = k]
        BY <2>2 DEF CallPush
      <4>2. k # NoTask /\ \A n \in 1 .. Len(mList) : k # mList[n]
        BY <4>1 DEF Queued
      <4>3. \A u \in Threads : task[u] # k
        BY <4>1, <4>2 DEF Held
      <4> QED BY <2>2, <4>1, <4>2, <4>3 DEF CallPush, TypeOK, UniqueInv
    <3> QED BY <3>1, <3>2, <3>3, <3>4, <3>5, <3>6
  <2>3. CASE Push(t)
    <3>1. task[t] \in Tasks
      BY <2>3 DEF Push, TypeOK, CarryInv
    <3>2. /\ Len(mList') = Len(mList) + 1
          /\ mList' \in Seq(Tasks)
          /\ \A n \in 1 .. Len(mList) : mList'[n] = mList[n]
          /\ mList'[Len(mList) + 1] = task[t]
      BY <2>3, <3>1, AppendElements DEF Push, TypeOK
    <3>3. TypeOK' BY <2>3, <3>2 DEF Push, NotifyAll, TypeOK
    <3>4. NoSleeperWithWork' BY <2>3 DEF Push, NotifyAll, NoSleeperWithWork
    <3>8. SleepersWait' BY <2>3 DEF Push, NotifyAll, SleepersWait
    <3>5. LockInv' BY <2>3 DEF Push, TypeOK, LockInv
    <3>6. CarryInv' BY <2>3 DEF Push, TypeOK, CarryInv
    <3>7. UniqueInv'
      <4>1. \A m, n \in 1 .. Len(mList') : mList'[m] = mList'[n] => m = n
        <5> SUFFICES ASSUME NEW m \in 1 .. Len(mList'), NEW n \in 1 .. Len(mList'),
                            mList'[m] = mList'[n]
                     PROVE  m = n
          OBVIOUS
        <5>1. Len(mList) \in Nat BY DEF TypeOK
        <5>2. m \in 1 .. Len(mList) \/ m = Len(mList) + 1 BY <3>2, <5>1
        <5>3. n \in 1 .. Len(mList) \/ n = Len(mList) + 1 BY <3>2, <5>1
        <5> QED BY <3>2, <5>2, <5>3 DEF UniqueInv
      <4>2. \A u \in Threads : \A n \in 1 .. Len(mList') : task'[u] # mList'[n]
        <5> SUFFICES ASSUME NEW u \in Threads, NEW n \in 1 .. Len(mList')
                     PROVE  task'[u] # mList'[n]
          OBVIOUS
        <5>1. Len(mList) \in Nat BY DEF TypeOK
        <5>2. n \in 1 .. Len(mList) \/ n = Len(mList) + 1 BY <3>2, <5>1
        <5>3. task'[u] = IF u = t THEN NoTask ELSE task[u]
          BY <2>3 DEF Push, TypeOK
        <5>4. mList'[n] \in Tasks BY <3>2
        <5> QED BY <3>1, <3>2, <5>2, <5>3, <5>4 DEF UniqueInv
      <4>3. \A u, v \in Threads : task'[u] = task'[v] /\ task'[u] # NoTask => u = v
        BY <2>3 DEF Push, TypeOK, UniqueInv
      <4> QED BY <4>1, <4>2, <4>3 DEF UniqueInv
    <3> QED BY <3>3, <3>4, <3>5, <3>6, <3>7, <3>8
  <2>4. CASE /\ TakeFront(t)
             /\ \/ PopTake(t)
                \/ EmptyWaitTake(t)
    <3>1. /\ mList \in Seq(Tasks) /\ mList # <<>> /\ mCV = {}
          /\ mList' = Tail(mList)
          /\ task' = [task EXCEPT ![t] = Head(mList)]
          /\ UNCHANGED <<mMutex, mCV>>
      BY <2>4 DEF TakeFront, TypeOK, NoSleeperWithWork, PopTake, EmptyWaitTake
    <3>2. /\ mList' \in Seq(Tasks)
          /\ Head(mList) = mList[1] /\ mList[1] \in Tasks
          /\ Len(mList') = Len(mList) - 1 /\ Len(mList) \in Nat \ {0}
          /\ \A n \in 1 .. Len(mList') : mList'[n] = mList[n + 1]
      BY <3>1, TailElements
    <3>3. TypeOK' BY <2>4, <3>1, <3>2 DEF TypeOK, PopTake, EmptyWaitTake
    <3>4. NoSleeperWithWork' BY <3>1 DEF NoSleeperWithWork
    <3>8. SleepersWait' BY <3>1 DEF SleepersWait
    <3>5. LockInv' BY <2>4 DEF PopTake, EmptyWaitTake, TypeOK, LockInv
    <3>6. CarryInv' BY <2>4, <3>1, <3>2 DEF PopTake, EmptyWaitTake, TypeOK, CarryInv
    <3>7. UniqueInv'
      <4>1. \A n \in 1 .. Len(mList') : n + 1 \in 1 .. Len(mList) /\ n + 1 # 1
        BY <3>2
      <4>2. 1 \in 1 .. Len(mList) BY <3>2
      <4>3. \A m, n \in 1 .. Len(mList') : mList'[m] = mList'[n] => m = n
        <5> SUFFICES ASSUME NEW m \in 1 .. Len(mList'), NEW n \in 1 .. Len(mList'),
                            mList'[m] = mList'[n]
                     PROVE  m = n
          OBVIOUS
        <5>1. mList[m + 1] = mList[n + 1] BY <3>2
        <5>2. m + 1 = n + 1 BY <4>1, <5>1 DEF UniqueInv
        <5> QED BY <5>2
      <4>4. \A n \in 1 .. Len(mList') : mList[1] # mList'[n]
        BY <3>2, <4>1, <4>2 DEF UniqueInv
      <4>5. \A u \in Threads : \A n \in 1 .. Len(mList') : task[u] # mList'[n]
        BY <3>2, <4>1 DEF UniqueInv
      <4>6. \A u \in Threads : task'[u] = IF u = t THEN mList[1] ELSE task[u]
        BY <3>1, <3>2 DEF TypeOK
      <4>7. \A u \in Threads : task[u] # mList[1]
        BY <4>2 DEF UniqueInv
      <4>8. \A u \in Threads : \A n \in 1 .. Len(mList') : task'[u] # mList'[n]
        BY <4>4, <4>5, <4>6
      <4>9. \A u, v \in Threads : task'[u] = task'[v] /\ task'[u] # NoTask => u = v
        BY <4>6, <4>7 DEF UniqueInv
      <4> QED BY <4>3, <4>8, <4>9 DEF UniqueInv
    <3> QED BY <3>3, <3>4, <3>5, <3>6, <3>7, <3>8
  <2>5. CASE Call(t, "Pop") \/ Call(t, "EmptyWait") \/ Call(t, "Clear")
    <3>1. TypeOK' BY <2>5 DEF Call, TypeOK
    <3>2. NoSleeperWithWork' BY <2>5 DEF Call, NoSleeperWithWork
    <3>3. SleepersWait' BY <2>5 DEF Call, TypeOK, Threads, SleepersWait
    <3>4. LockInv' BY <2>5 DEF Call, TypeOK, LockInv
    <3>5. CarryInv' BY <2>5 DEF Call, TypeOK, CarryInv
    <3>6. UniqueInv' BY <2>5 DEF Call, UniqueInv
    <3> QED BY <3>1, <3>2, <3>3, <3>4, <3>5, <3>6
  <2>6. CASE PopSleep(t) /\ t \in Consumers
    BY <2>6 DEF PopSleep, TypeOK, NoSleeperWithWork, SleepersWait, LockInv,
       CarryInv, UniqueInv
  <2>7. CASE SpuriousWake(t)
    BY <2>7 DEF SpuriousWake, TypeOK, NoSleeperWithWork, SleepersWait,
       LockInv, CarryInv, UniqueInv
  <2>8. CASE PopReturn(t) \/ EmptyWaitTaskDone(t)
    <3>1. /\ pc[t] \in {"Pop_run", "EmptyWait_run"}
          /\ pc'[t] \in {"idle", "EmptyWait_loop"}
          /\ pc'[t] = "EmptyWait_loop" => pc[t] = "EmptyWait_run"
          /\ pc' = [pc EXCEPT ![t] = pc'[t]]
          /\ task' = [task EXCEPT ![t] = NoTask]
          /\ UNCHANGED <<mList, mMutex, mCV>>
      BY <2>8 DEF PopReturn, EmptyWaitTaskDone, TypeOK
    <3>2. TypeOK' BY <3>1 DEF TypeOK
    <3>3. NoSleeperWithWork' BY <3>1 DEF NoSleeperWithWork
    <3>4. SleepersWait' BY <3>1 DEF TypeOK, Threads, SleepersWait
    <3>5. LockInv' BY <3>1 DEF TypeOK, LockInv
    <3>6. CarryInv' BY <3>1 DEF TypeOK, CarryInv
    <3>7. UniqueInv' BY <3>1 DEF TypeOK, UniqueInv
    <3> QED BY <3>2, <3>3, <3>4, <3>5, <3>6, <3>7
  <2>9. CASE EmptyWaitLock(t)
    BY <2>9 DEF EmptyWaitLock, TypeOK, NoSleeperWithWork, SleepersWait,
       LockInv, CarryInv, UniqueInv
  <2>10. CASE EmptyWaitTaskThrows(t)
    BY <2>10 DEF EmptyWaitTaskThrows, TypeOK, NoSleeperWithWork, SleepersWait,
       LockInv, CarryInv,
                 UniqueInv
  <2>11. CASE EmptyWaitReturn(t)
    BY <2>11 DEF EmptyWaitReturn, TypeOK, NoSleeperWithWork, SleepersWait,
       LockInv, CarryInv,
                 UniqueInv
  <2>12. CASE Clear(t)
    BY <2>12 DEF Clear, TypeOK, NoSleeperWithWork, SleepersWait, LockInv,
       CarryInv, UniqueInv
  <2> QED
    BY <2>1, <2>2, <2>3, <2>4, <2>5, <2>6, <2>7, <2>8, <2>9, <2>10, <2>11, <2>12
       DEF PopTake, EmptyWaitTake
<1> QED BY <1>1, <1>2

LEMMA Invariant == Spec => []IInv
  BY InitInv, StepInv, PTL DEF Spec

-----------------------------------------------------------------------------
(* The state of the queue keeps its types: only consumers ever sleep on    *)
(* the condition variable and the mutex belongs to a thread or to nobody.  *)
THEOREM TypeCorrect == Spec => []TypeOK
<1>1. IInv => TypeOK BY DEF IInv
<1> QED BY <1>1, Invariant, PTL

(* Pop and Push never leave a consumer asleep beside a queued task.        *)
THEOREM NoLostWakeUp == Spec => []NoSleeperWithWork
<1>1. IInv => NoSleeperWithWork BY DEF IInv
<1> QED BY <1>1, Invariant, PTL

(* Whoever calls Pop, EmptyWait returns with no drained task running, and  *)
(* no Pop takes a task while one runs: EmptyWaitCompletesDrained.          *)
THEOREM EmptyWaitCompletes == Spec => EmptyWaitCompletesDrained
<1>1. IInv => DrainsAlone
  BY QueueAssumption
  DEF DrainsAlone, IInv, LockInv, InSection, EmptyWaitReturn, PopTake, Goto, Threads
<1>2. IInv /\ [Next]_vars => [DrainsAlone]_vars
  BY <1>1
<1> QED BY <1>2, Invariant, PTL DEF Spec, EmptyWaitCompletesDrained

(* Where nobody calls Pop, EmptyWait keeps its documented promise: when it *)
(* returns, every task that was ever taken from the queue has ended.       *)
THEOREM EmptyWaitDrains ==
    ASSUME Consumers = {}
    PROVE  Spec => EmptyWaitCompletesAll
<1> DEFINE NoPop == \A t \in Threads : pc[t] # "Pop_run"
<1>1. Init => NoPop
  BY DEF Init
<1>2. IInv /\ NoPop /\ [Next]_vars => NoPop'
  <2> SUFFICES ASSUME IInv, NoPop, [Next]_vars PROVE NoPop'
    OBVIOUS
  <2>1. CASE UNCHANGED vars BY <2>1 DEF vars
  <2>2. CASE Next
    BY <2>2, NextCases DEF IInv, TypeOK, Goto, CallPush, Push, NotifyAll, Call,
       EmptyWaitLock, EmptyWaitTake, EmptyWaitTaskDone, EmptyWaitTaskThrows,
       EmptyWaitReturn, Clear
  <2> QED BY <2>1, <2>2
<1>3. IInv /\ NoPop => \A t \in Drainers : EmptyWaitReturn(t) => Running = {}
  BY DEF IInv, LockInv, InSection, EmptyWaitReturn, Goto, Running,
     RunningThreads,
         Threads
<1>4. Spec => []NoPop
  BY <1>1, <1>2, Invariant, PTL DEF Spec
<1>5. IInv /\ NoPop /\ [Next]_vars
        => [\A t \in Drainers : EmptyWaitReturn(t) => Running = {}]_vars
  BY <1>3
<1> QED BY <1>4, <1>5, Invariant, PTL DEF Spec, EmptyWaitCompletesAll

-----------------------------------------------------------------------------
(* What a step does to the set of running tasks, from what it does to one  *)
(* thread: tasks are unique, so the thread that starts or ends its task    *)
(* adds or removes exactly that task.                                      *)
LEMMA RunningElsewhere ==
    ASSUME TypeOK, NEW t \in Threads,
           pc[t] \notin {"Pop_run", "EmptyWait_run"},
           pc'[t] \notin {"Pop_run", "EmptyWait_run"},
           \A u \in Threads \ {t} : pc'[u] = pc[u] /\ task'[u] = task[u]
    PROVE  Running' = Running
  BY DEF Running, RunningThreads

LEMMA RunningStarts ==
    ASSUME TypeOK, NEW t \in Threads,
           pc[t] \notin {"Pop_run", "EmptyWait_run"},
           pc'[t] \in {"Pop_run", "EmptyWait_run"},
           \A u \in Threads \ {t} : pc'[u] = pc[u] /\ task'[u] = task[u]
    PROVE  Running' = Running \cup {task'[t]}
  BY DEF Running, RunningThreads

LEMMA RunningEnds ==
    ASSUME IInv, NEW t \in Threads,
           pc[t] \in {"Pop_run", "EmptyWait_run"},
           pc'[t] \notin {"Pop_run", "EmptyWait_run"},
           \A u \in Threads \ {t} : pc'[u] = pc[u] /\ task'[u] = task[u]
    PROVE  Running' = Running \ {task[t]} /\ task[t] \in Running
<1>1. \A u \in Threads : task[u] = task[t] => u = t
  BY DEF IInv, CarryInv, UniqueInv, Carrying
<1> QED BY <1>1 DEF Running, RunningThreads

(* The tasks live in FifoQueue are queued or carried by a running thread.  *)
LEMMA LiveIsCarried ==
    ASSUME NEW k \in Fifo!Live
    PROVE  (\E n \in 1 .. Len(mList) : mList[n] = k)
             \/ (\E t \in RunningThreads : task[t] = k)
  BY DEF Fifo!Live, Running

(* TaskQueue implements FifoQueue: tasks start oldest first, one at a time *)
(* and once, end once, and only Clear discards them, for any number of     *)
(* threads in any mixture of Push, Pop, EmptyWait and Clear.               *)
THEOREM Implements == Spec => ImplementsFifo
<1>1. Init => Fifo!Init
  BY DEF Init, Fifo!Init, Running, RunningThreads
<1>2. IInv /\ [Next]_vars => [Fifo!Next]_Fifo!vars
  <2> SUFFICES ASSUME IInv, [Next]_vars, ~ UNCHANGED Fifo!vars
               PROVE  Fifo!Next
    OBVIOUS
  <2> USE QueueAssumption DEF Goto
  <2>0. TypeOK BY DEF IInv
  <2>1. Next
    BY DEF vars, Fifo!vars, Running, RunningThreads
  <2>2. PICK t \in Threads :
              \/ CallPush(t) /\ t \in Producers
              \/ Push(t) /\ t \in Producers
              \/ Call(t, "Pop") /\ t \in Consumers
              \/ PopSleep(t) /\ t \in Consumers
              \/ PopTake(t) /\ t \in Consumers
              \/ PopReturn(t) /\ t \in Consumers
              \/ SpuriousWake(t) /\ t \in Consumers
              \/ Call(t, "EmptyWait") /\ t \in Drainers
              \/ EmptyWaitLock(t) /\ t \in Drainers
              \/ EmptyWaitTake(t) /\ t \in Drainers
              \/ EmptyWaitTaskDone(t) /\ t \in Drainers
              \/ EmptyWaitTaskThrows(t) /\ t \in Drainers
              \/ EmptyWaitReturn(t) /\ t \in Drainers
              \/ Call(t, "Clear") /\ t \in Cleaners
              \/ Clear(t) /\ t \in Cleaners
    BY <2>1, NextCases
  <2>3. CASE \/ CallPush(t) \/ Call(t, "Pop") \/ Call(t, "EmptyWait")
             \/ Call(t, "Clear") \/ PopSleep(t) \/ SpuriousWake(t)
             \/ EmptyWaitLock(t) \/ EmptyWaitReturn(t)
    <3>1. mList' = mList
      BY <2>3 DEF CallPush, Call, PopSleep, SpuriousWake, EmptyWaitLock,
                  EmptyWaitReturn
    <3>2. /\ pc[t] \notin {"Pop_run", "EmptyWait_run"}
          /\ pc'[t] \notin {"Pop_run", "EmptyWait_run"}
          /\ \A u \in Threads \ {t} : pc'[u] = pc[u] /\ task'[u] = task[u]
      <4>1. CASE CallPush(t)
        BY <4>1, <2>0 DEF CallPush, TypeOK
      <4>2. CASE SpuriousWake(t)
        <5>1. pc[t] = "Pop_wait"
          BY <4>2 DEF SpuriousWake, IInv, SleepersWait
        <5> QED BY <4>2, <5>1 DEF SpuriousWake
      <4>3. CASE PopSleep(t) \/ EmptyWaitLock(t) \/ EmptyWaitReturn(t)
        BY <4>3, <2>0 DEF PopSleep, EmptyWaitLock, EmptyWaitReturn, TypeOK
      <4>4. CASE Call(t, "Pop") \/ Call(t, "EmptyWait") \/ Call(t, "Clear")
        BY <4>4, <2>0 DEF Call, TypeOK
      <4> QED BY <2>3, <4>1, <4>2, <4>3, <4>4
    <3>3. Running' = Running BY <2>0, <3>2, RunningElsewhere
    <3> QED BY <3>1, <3>3 DEF Fifo!vars
  <2>4. CASE Push(t)
    <3>1. /\ pc[t] = "Push" /\ pc'[t] = "idle"
          /\ \A u \in Threads \ {t} : pc'[u] = pc[u] /\ task'[u] = task[u]
          /\ mList' = Append(mList, task[t])
      BY <2>4, <2>0 DEF Push, TypeOK
    <3>2. Running' = Running BY <2>0, <3>1, RunningElsewhere
    <3>3. task[t] \in Tasks
      BY <3>1, <2>0 DEF IInv, TypeOK, CarryInv, Carrying
    <3>4. task[t] \notin Fifo!Live
      BY <3>1, <3>3, LiveIsCarried DEF IInv, UniqueInv, RunningThreads
    <3> QED BY <3>1, <3>2, <3>3, <3>4 DEF Fifo!Next, Fifo!Submit
  <2>5. CASE PopTake(t) \/ EmptyWaitTake(t)
    <3>1. /\ pc[t] \notin {"Pop_run", "EmptyWait_run"}
          /\ pc'[t] \in {"Pop_run", "EmptyWait_run"}
          /\ \A u \in Threads \ {t} : pc'[u] = pc[u] /\ task'[u] = task[u]
          /\ mList # <<>> /\ mList' = Tail(mList) /\ task'[t] = Head(mList)
      BY <2>5, <2>0 DEF PopTake, EmptyWaitTake, TakeFront, TypeOK
    <3>2. Running' = Running \cup {Head(mList)}
      BY <2>0, <3>1, RunningStarts
    <3> QED BY <3>1, <3>2 DEF Fifo!Next, Fifo!Start
  <2>6. CASE PopReturn(t) \/ EmptyWaitTaskDone(t) \/ EmptyWaitTaskThrows(t)
    <3>1. /\ pc[t] \in {"Pop_run", "EmptyWait_run"}
          /\ pc'[t] \notin {"Pop_run", "EmptyWait_run"}
          /\ \A u \in Threads \ {t} : pc'[u] = pc[u] /\ task'[u] = task[u]
          /\ mList' = mList
      BY <2>6, <2>0 DEF PopReturn, EmptyWaitTaskDone, EmptyWaitTaskThrows, TypeOK
    <3>2. Running' = Running \ {task[t]} /\ task[t] \in Running
      BY <3>1, RunningEnds
    <3>3. task[t] \in Tasks
      BY <3>1, <2>0 DEF IInv, TypeOK, CarryInv, Carrying
    <3> QED BY <3>1, <3>2, <3>3 DEF Fifo!Next, Fifo!End
  <2>7. CASE Clear(t)
    <3>1. /\ pc[t] = "Clear" /\ pc'[t] = "idle"
          /\ \A u \in Threads \ {t} : pc'[u] = pc[u] /\ task'[u] = task[u]
          /\ mList' = <<>>
      BY <2>7, <2>0 DEF Clear, TypeOK
    <3>2. Running' = Running BY <2>0, <3>1, RunningElsewhere
    <3> QED BY <3>1, <3>2 DEF Fifo!Next, Fifo!Drop
  <2> QED BY <2>2, <2>3, <2>4, <2>5, <2>6, <2>7
<1> QED BY <1>1, <1>2, Invariant, PTL DEF Spec, Fifo!Spec, ImplementsFifo

-----------------------------------------------------------------------------
(* The mutex is never left locked: whoever holds it is a caller inside the *)
(* loop of EmptyWait, also after a task of that loop threw an exception.   *)
HolderDrains == mMutex # NoThread => mMutex \in Drainers /\ pc[mMutex] \in InSection

(* The Lock of EmptyWait gives the mutex back on every way out of it.      *)
THEOREM MutexNotLeaked == Spec => []HolderDrains
<1>1. Init => HolderDrains
  BY DEF Init, HolderDrains
<1>2. IInv /\ HolderDrains /\ [Next]_vars => HolderDrains'
  <2> SUFFICES ASSUME IInv, HolderDrains, [Next]_vars, mMutex' # NoThread
               PROVE  mMutex' \in Drainers /\ pc'[mMutex'] \in InSection
    BY DEF HolderDrains
  <2> USE QueueAssumption DEF HolderDrains, IInv, TypeOK, Goto, InSection
  <2>1. CASE UNCHANGED vars
    BY <2>1 DEF vars
  <2>2. CASE Next
    <3>1. PICK t \in Threads :
              \/ CallPush(t) \/ Push(t) \/ Call(t, "Pop") \/ PopSleep(t) \/ PopTake(t)
              \/ PopReturn(t) \/ SpuriousWake(t) \/ Call(t, "EmptyWait")
              \/ EmptyWaitLock(t) /\ t \in Drainers
              \/ EmptyWaitTake(t) \/ EmptyWaitTaskDone(t) \/ EmptyWaitTaskThrows(t)
              \/ EmptyWaitReturn(t) \/ Call(t, "Clear") \/ Clear(t)
      BY <2>2, NextCases
    <3>2. CASE EmptyWaitLock(t) /\ t \in Drainers
      BY <3>2 DEF EmptyWaitLock
    <3>3. CASE \/ Push(t) \/ PopSleep(t) \/ PopTake(t) \/ Clear(t)
               \/ EmptyWaitTaskThrows(t) \/ EmptyWaitReturn(t)
      BY <3>3 DEF Push, PopSleep, PopTake, Clear, EmptyWaitTaskThrows, EmptyWaitReturn
    <3>4. CASE \/ CallPush(t) \/ PopReturn(t) \/ SpuriousWake(t)
               \/ Call(t, "Pop") \/ Call(t, "EmptyWait") \/ Call(t, "Clear")
               \/ EmptyWaitTake(t) \/ EmptyWaitTaskDone(t)
      BY <3>4 DEF CallPush, PopReturn, SpuriousWake, Call, EmptyWaitTake, EmptyWaitTaskDone
    <3>5. QED  BY <3>1, <3>2, <3>3, <3>4
  <2>3. QED  BY <2>1, <2>2
<1>3. QED  BY <1>1, <1>2, Invariant, PTL DEF Spec

(* What is left to do for the holder of the mutex.                         *)
Left(t) == 2 * Len(mList) + IF pc[t] = "EmptyWait_run" THEN 1 ELSE 0

(* EmptyWait gives the mutex back by its own steps alone: none of them     *)
(* waits for the mutex, each of them releases it or leaves less to do, and *)
(* nobody else adds work or takes the mutex away meanwhile.  With fairness *)
(* this is why PushReturns holds.                                          *)
RunsDown ==
    \A t \in Drainers : mMutex = t =>
        IF EmptyWaitStep(t)
        THEN \/ mMutex' = NoThread
             \/ mMutex' = t /\ Left(t)' \in 0 .. Left(t) - 1
        ELSE mMutex' = t /\ Left(t)' = Left(t)

(* A caller of Push that waits for EmptyWait waits for a finite list.      *)
THEOREM EmptyWaitRunsDown == Spec => [][RunsDown]_vars
<1>1. ASSUME IInv, Next, NEW t \in Drainers, mMutex = t, EmptyWaitStep(t)
      PROVE  \/ mMutex' = NoThread
             \/ mMutex' = t /\ Left(t)' \in 0 .. Left(t) - 1
  <2> USE QueueAssumption DEF IInv, TypeOK, Goto, Threads
  <2>1. CASE EmptyWaitTake(t)
    <3>1. mList # <<>> /\ mList' = Tail(mList) /\ mMutex' = t
      BY <1>1, <2>1 DEF EmptyWaitTake, TakeFront
    <3>2. Len(mList) \in Nat \ {0} /\ Len(mList') = Len(mList) - 1
      BY <1>1, <3>1, TailElements
    <3>3. pc[t] = "EmptyWait_loop" /\ pc'[t] = "EmptyWait_run"
      BY <1>1, <2>1 DEF EmptyWaitTake
    <3>4. QED  BY <3>1, <3>2, <3>3 DEF Left
  <2>2. CASE EmptyWaitTaskDone(t)
    <3>1. pc[t] = "EmptyWait_run" /\ pc'[t] = "EmptyWait_loop"
          /\ mMutex' = t /\ mList' = mList
      BY <1>1, <2>2 DEF EmptyWaitTaskDone
    <3>2. Len(mList) \in Nat
      BY <1>1
    <3>3. QED  BY <3>1, <3>2 DEF Left
  <2>3. QED
    BY <1>1, <2>1, <2>2 DEF EmptyWaitStep, EmptyWaitLock, EmptyWaitTaskThrows,
       EmptyWaitReturn
<1>2. ASSUME IInv, Next, NEW t \in Drainers, mMutex = t, ~EmptyWaitStep(t), HolderDrains
      PROVE  mMutex' = t /\ mList' = mList /\ pc'[t] = pc[t]
  <2> USE QueueAssumption DEF IInv, TypeOK, Goto, Threads
  <2>1. t \in Threads /\ pc[t] \in InSection /\ mMutex # NoThread
    BY <1>1, <1>2 DEF HolderDrains
  <2>2. PICK u \in Threads :
            \/ CallPush(u) \/ Push(u) \/ Call(u, "Pop") \/ PopSleep(u) \/ PopTake(u)
            \/ PopReturn(u) \/ SpuriousWake(u) \/ Call(u, "EmptyWait")
            \/ EmptyWaitStep(u) /\ u \in Drainers
            \/ Call(u, "Clear") \/ Clear(u)
    BY <1>2, NextCases DEF EmptyWaitStep
  <2>3. CASE EmptyWaitStep(u) /\ u \in Drainers
    <3>1. u # t
      BY <1>2, <2>3
    <3>2. pc[u] \notin InSection
      BY <1>2, <3>1 DEF LockInv
    <3>3. QED
      BY <1>2, <2>1, <2>3, <3>2 DEF InSection, EmptyWaitStep, EmptyWaitLock, EmptyWaitTake,
         EmptyWaitTaskDone, EmptyWaitTaskThrows, EmptyWaitReturn
  <2>4. CASE Push(u) \/ PopSleep(u) \/ PopTake(u) \/ Clear(u)
    BY <2>1, <2>4 DEF Push, PopSleep, PopTake, Clear
  <2>5. CASE \/ CallPush(u) \/ PopReturn(u) \/ SpuriousWake(u)
             \/ Call(u, "Pop") \/ Call(u, "EmptyWait") \/ Call(u, "Clear")
    BY <1>2, <2>1, <2>5 DEF InSection, CallPush, PopReturn, SpuriousWake, Call
  <2>6. QED  BY <2>2, <2>3, <2>4, <2>5
<1>3. IInv /\ HolderDrains /\ [Next]_vars => [RunsDown]_vars
  <2>1. ASSUME IInv, Next, HolderDrains, NEW t \in Drainers, mMutex = t, ~EmptyWaitStep(t)
        PROVE  mMutex' = t /\ Left(t)' = Left(t)
    BY <1>2, <2>1 DEF Left
  <2>2. QED  BY <1>1, <2>1 DEF RunsDown
<1>4. QED  BY <1>3, Invariant, MutexNotLeaked, PTL DEF Spec
=============================================================================
