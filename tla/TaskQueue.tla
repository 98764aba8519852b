----------------------------- MODULE TaskQueue -----------------------------
(***************************************************************************)
(* TaskQueue<T> (Common/TaskQueue.hpp, Common/TaskQueue.cpp): a list of    *)
(* tasks behind one mutex and one condition variable.  Pop() runs the task *)
(* after releasing the mutex, EmptyWait() runs every task while holding it.*)
(*                                                                         *)
(* Push, Clear and the two halves of Pop's critical section neither block  *)
(* nor run foreign code while they hold the mutex, so each is one step     *)
(* taken when the mutex is free; EmptyWait keeps the mutex across steps.   *)
(* A caller is somewhere in a call (pc names the function, and the stage   *)
(* after an underscore) or outside the queue ("idle").                     *)
(***************************************************************************)
EXTENDS Naturals, Sequences, FiniteSets

CONSTANTS Producers,  \* threads that call Push
          Consumers,  \* threads that call Pop
          Drainers,   \* threads that call EmptyWait
          Cleaners,   \* threads that call Clear
          Tasks,      \* the tasks there are
          MayThrow,   \* those whose call may end in an exception
          NoThread,   \* owner of a free mutex
          NoTask      \* an empty std::function

Threads == Producers \cup Consumers \cup Drainers \cup Cleaners

ASSUME QueueAssumption == /\ NoThread \notin Threads
                          /\ NoTask \notin Tasks
                          /\ MayThrow \subseteq Tasks

VARIABLES mList,   \* the queued tasks, front first
          mMutex,  \* the thread that holds the mutex
          mCV,     \* the threads asleep on the condition variable
          pc,      \* where each thread is
          task     \* the task a thread is about to push, or is running

vars == <<mList, mMutex, mCV, pc, task>>

Queued == {mList[n] : n \in 1 .. Len(mList)}
Held == {task[t] : t \in Threads} \ {NoTask}
RunningThreads == {t \in Threads : pc[t] \in {"Pop_run", "EmptyWait_run"}}
Running == {task[t] : t \in RunningThreads}

Init == /\ mList = <<>>
        /\ mMutex = NoThread
        /\ mCV = {}
        /\ pc = [t \in Threads |-> "idle"]
        /\ task = [t \in Threads |-> NoTask]

Goto(t, from, to) == pc[t] = from /\ pc' = [pc EXCEPT ![t] = to]

-----------------------------------------------------------------------------
(* The callers.  A task object is pushed once: no copy of it is live.      *)

CallPush(t) == /\ Goto(t, "idle", "Push")
               /\ \E k \in Tasks \ (Queued \cup Held) :
                      task' = [task EXCEPT ![t] = k]
               /\ UNCHANGED <<mList, mMutex, mCV>>

Call(t, op) == /\ Goto(t, "idle", op)
               /\ UNCHANGED <<mList, mMutex, mCV, task>>

-----------------------------------------------------------------------------
(* Push and Clear.                                                         *)

NotifyNobody == mCV' = mCV
NotifyAll == mCV' = {}

PushMoved(t) == /\ Goto(t, "Push", "idle")
                /\ mMutex = NoThread
                /\ task' = [task EXCEPT ![t] = NoTask]
                /\ mList' = Append(mList, task'[t])
                /\ NotifyAll
                /\ UNCHANGED mMutex

Push(t) == /\ Goto(t, "Push", "idle")
           /\ mMutex = NoThread
           /\ mList' = Append(mList, task[t])
           /\ NotifyAll
           /\ task' = [task EXCEPT ![t] = NoTask]
           /\ UNCHANGED mMutex

Clear(t) == /\ Goto(t, "Clear", "idle")
            /\ mMutex = NoThread
            /\ mList' = <<>>
            /\ UNCHANGED <<mMutex, mCV, task>>

-----------------------------------------------------------------------------
(* Pop.  The loop re-tests the list after every wake-up, and a wake-up     *)
(* needs no notification (std::condition_variable may wake spuriously).    *)

TakeBack(t) == /\ mList # <<>>
               /\ task' = [task EXCEPT ![t] = mList[Len(mList)]]
               /\ mList' = SubSeq(mList, 1, Len(mList) - 1)

TakeFront(t) == /\ mList # <<>>
                /\ task' = [task EXCEPT ![t] = Head(mList)]
                /\ mList' = Tail(mList)

PopSleep(t) == /\ pc[t] \in {"Pop", "Pop_wait"} /\ t \notin mCV
               /\ mMutex = NoThread
               /\ mList = <<>>
               /\ pc' = [pc EXCEPT ![t] = "Pop_wait"]
               /\ mCV' = mCV \cup {t}
               /\ UNCHANGED <<mList, mMutex, task>>

SpuriousWake(t) == /\ t \in mCV
                   /\ mCV' = mCV \ {t}
                   /\ UNCHANGED <<mList, mMutex, pc, task>>

PopTake(t) == /\ pc[t] \in {"Pop", "Pop_wait"} /\ t \notin mCV
              /\ mMutex = NoThread
              /\ TakeFront(t)
              /\ pc' = [pc EXCEPT ![t] = "Pop_run"]
              /\ UNCHANGED <<mMutex, mCV>>

(* task() returns or throws: either way the caller is out of the queue.    *)
PopReturn(t) == /\ Goto(t, "Pop_run", "idle")
                /\ task' = [task EXCEPT ![t] = NoTask]
                /\ UNCHANGED <<mList, mMutex, mCV>>

-----------------------------------------------------------------------------
(* EmptyWait.  An exception of a task unwinds through the Lock, which      *)
(* releases the mutex with the remaining tasks still queued.               *)

EmptyWaitLock(t) == /\ Goto(t, "EmptyWait", "EmptyWait_loop")
                    /\ mMutex = NoThread
                    /\ mMutex' = t
                    /\ UNCHANGED <<mList, mCV, task>>

EmptyWaitTakeUnlocked(t) == /\ Goto(t, "EmptyWait_loop", "EmptyWait_run")
                            /\ TakeFront(t)
                            /\ mMutex' = NoThread
                            /\ UNCHANGED mCV

EmptyWaitTake(t) == /\ Goto(t, "EmptyWait_loop", "EmptyWait_run")
                    /\ TakeFront(t)
                    /\ UNCHANGED <<mMutex, mCV>>

EmptyWaitTaskDoneOnce(t) == /\ Goto(t, "EmptyWait_run", "idle")
                            /\ task' = [task EXCEPT ![t] = NoTask]
                            /\ mMutex' = NoThread
                            /\ UNCHANGED <<mList, mCV>>

EmptyWaitTaskDone(t) == /\ Goto(t, "EmptyWait_run", "EmptyWait_loop")
                        /\ task' = [task EXCEPT ![t] = NoTask]
                        /\ UNCHANGED <<mList, mMutex, mCV>>

EmptyWaitTaskThrows(t) == /\ task[t] \in MayThrow
                          /\ Goto(t, "EmptyWait_run", "idle")
                          /\ task' = [task EXCEPT ![t] = NoTask]
                          /\ mMutex' = NoThread
                          /\ UNCHANGED <<mList, mCV>>

EmptyWaitReturnLocked(t) == /\ Goto(t, "EmptyWait_loop", "idle")
                            /\ mList = <<>>
                            /\ UNCHANGED <<mList, mMutex, mCV, task>>

EmptyWaitReturn(t) == /\ Goto(t, "EmptyWait_loop", "idle")
                      /\ mList = <<>>
                      /\ mMutex' = NoThread
                      /\ UNCHANGED <<mList, mCV, task>>

-----------------------------------------------------------------------------
PopStep(t) == PopSleep(t) \/ PopTake(t) \/ PopReturn(t)

EmptyWaitStep(t) == \/ EmptyWaitLock(t)
                    \/ EmptyWaitTake(t)
                    \/ EmptyWaitTaskDone(t)
                    \/ EmptyWaitTaskThrows(t)
                    \/ EmptyWaitReturn(t)

Next == \/ \E t \in Producers : CallPush(t) \/ Push(t)
        \/ \E t \in Consumers : Call(t, "Pop") \/ PopStep(t) \/ SpuriousWake(t)
        \/ \E t \in Drainers : Call(t, "EmptyWait") \/ EmptyWaitStep(t)
        \/ \E t \in Cleaners : Call(t, "Clear") \/ Clear(t)

Spec == Init /\ [][Next]_vars

(***************************************************************************)
(* Fairness.  Every thread keeps running, so a step that stays enabled is  *)
(* taken; a mutex that is released again and again is eventually granted   *)
(* to each thread that asks for it (strong fairness of the steps that lock *)
(* it); consumers call Pop in a loop, as those of QueueTest.cpp do.        *)
(* Callers are otherwise free to stop calling.                             *)
(***************************************************************************)
Fairness ==
    /\ \A t \in Producers : SF_vars(Push(t))
    /\ \A t \in Cleaners : SF_vars(Clear(t))
    /\ \A t \in Consumers : /\ WF_vars(Call(t, "Pop"))
                            /\ WF_vars(PopReturn(t))
                            /\ SF_vars(PopSleep(t) \/ PopTake(t))
    /\ \A t \in Drainers : /\ SF_vars(EmptyWaitLock(t))
                           /\ WF_vars(EmptyWaitStep(t))

FairSpec == Spec /\ Fairness

-----------------------------------------------------------------------------
(* Every variable has its type.                                            *)
Labels == {"idle", "Push", "Pop", "Pop_wait", "Pop_run", "Clear", "EmptyWait",
           "EmptyWait_loop", "EmptyWait_run"}

TypeOK == /\ mList \in Seq(Tasks)
          /\ mMutex \in Threads \cup {NoThread}
          /\ mCV \in SUBSET Consumers
          /\ pc \in [Threads -> Labels]
          /\ task \in [Threads -> Tasks \cup {NoTask}]

(* No lost wake-up: a thread sleeps in Pop only while there is nothing to  *)
(* pop.  Pop tests the list and falls asleep, Push appends and notifies:   *)
(* no order of the two may leave a sleeper next to a queued task.          *)
NoSleeperWithWork == mCV # {} => mList = <<>>

(* EmptyWait "empties the queue, blocking execution until all tasks are    *)
(* completed" (TaskQueue.hpp:64): when it returns no task is still running.*)
EmptyWaitCompletesAll ==
    [][\A t \in Drainers : EmptyWaitReturn(t) => Running = {}]_vars

(* What EmptyWait keeps of that beside consumers: it returns with no task  *)
(* of its own kind running, and nobody takes a task away from under it, so *)
(* the tasks it found at the start are done or were popped before it.      *)
DrainsAlone ==
    \A t \in Drainers :
        /\ EmptyWaitReturn(t) => \A u \in Drainers : pc[u] # "EmptyWait_run"
        /\ pc[t] = "EmptyWait_run" => \A u \in Consumers : ~ PopTake(u)
EmptyWaitCompletesDrained == [][DrainsAlone]_vars

(* The queue is a FIFO of tasks that each start and end once, whatever the *)
(* callers' interleaving: TaskQueue implements FifoQueue.                  *)
Fifo == INSTANCE FifoQueue WITH pending <- mList, running <- Running
ImplementsFifo == Fifo!Spec

(* A caller of Push is not kept out of the queue for ever: the mutex that  *)
(* EmptyWait holds while it runs tasks comes back, because nobody can add  *)
(* tasks meanwhile.                                                        *)
PushReturns == \A t \in Producers : pc[t] = "Push" ~> pc[t] = "idle"

(* Where consumers loop on Pop, every queued task leaves the queue.        *)
QueuedTaskLeaves == \A k \in Tasks : k \in Queued ~> k \notin Queued
=============================================================================
