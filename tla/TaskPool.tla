------------------------------ MODULE TaskPool ------------------------------
(***************************************************************************)
(* What a thread pool promises about its tasks, whatever the threads, the   *)
(* condition variables and the ring buffer inside it do: a submitted task   *)
(* enters one bounded FIFO queue, leaves it at the front, is run by one     *)
(* thread and ends at most once.                                            *)
(***************************************************************************)
EXTENDS Naturals, Sequences

CONSTANTS Task,      \* the tasks that may be submitted
          Capacity   \* the length of the queue

VARIABLES queue,     \* the tasks submitted and not yet taken, oldest first
          running,   \* the tasks a thread has taken and not ended
          finished   \* the tasks that ended

vars == <<queue, running, finished>>

Init == /\ queue = <<>>
        /\ running = {}
        /\ finished = {}

Known(t) == \/ \E i \in 1..Len(queue) : queue[i] = t
            \/ t \in running
            \/ t \in finished

Submit(t) == /\ Len(queue) < Capacity
             /\ ~Known(t)
             /\ queue' = Append(queue, t)
             /\ UNCHANGED <<running, finished>>

Take == /\ queue # <<>>
        /\ running' = running \cup {Head(queue)}
        /\ queue' = Tail(queue)
        /\ UNCHANGED finished

Finish(t) == /\ t \in running
             /\ running' = running \ {t}
             /\ finished' = finished \cup {t}
             /\ UNCHANGED queue

Next == \/ \E t \in Task : Submit(t) \/ Finish(t)
        \/ Take

Spec == Init /\ [][Next]_vars
=============================================================================
