-------------------------------- MODULE RunQueue --------------------------------
(***************************************************************************)
(* What round-robin promises (todo.txt): "a FIFO queue" in which the first *)
(* process runs for a quantum, or for what is left of its burst, and then  *)
(* leaves the queue or goes to its end.                                    *)
(***************************************************************************)
EXTENDS Integers, Sequences

VARIABLES
    quantum,    \* how long a process runs at most
    queue,      \* the processes that are not finished
    left        \* per process: what is left of its burst

vars == <<quantum, queue, left>>

Run(p) ==
    /\ UNCHANGED quantum
    /\ IF left[p] > quantum
         THEN left' = [left EXCEPT ![p] = @ - quantum] /\ queue' = Append(Tail(queue), p)
         ELSE left' = [left EXCEPT ![p] = 0] /\ queue' = Tail(queue)

RunHead == quantum > 0 /\ queue # <<>> /\ Run(Head(queue))

\* From any queue on, heads are run as long as there are any.
Spec == [][RunHead]_vars /\ WF_vars(RunHead)
================================================================================
