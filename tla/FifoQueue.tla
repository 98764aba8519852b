----------------------------- MODULE FifoQueue -----------------------------
(***************************************************************************)
(* What TaskQueue promises its callers (Common/TaskQueue.hpp, class        *)
(* comment): a FIFO of tasks.  A submitted task waits in `pending'; tasks  *)
(* start one at a time, oldest first; a started task ends exactly once;    *)
(* dropping discards everything that has not started and nothing else.     *)
(* Nothing is said of threads, locks or wake-ups.                          *)
(***************************************************************************)
EXTENDS Naturals, Sequences

CONSTANT Tasks

VARIABLES pending,  \* submitted and not started, oldest first
          running   \* started and not ended

vars == <<pending, running>>

Live == {pending[n] : n \in 1 .. Len(pending)} \cup running

Init == pending = <<>> /\ running = {}

Submit(k) == /\ k \notin Live
             /\ pending' = Append(pending, k)
             /\ UNCHANGED running

Start == /\ pending # <<>>
         /\ pending' = Tail(pending)
         /\ running' = running \cup {Head(pending)}

End(k) == /\ k \in running
          /\ running' = running \ {k}
          /\ UNCHANGED pending

Drop == /\ pending' = <<>>
        /\ UNCHANGED running

Next == \/ \E k \in Tasks : Submit(k) \/ End(k)
        \/ Start
        \/ Drop

Spec == Init /\ [][Next]_vars
=============================================================================
