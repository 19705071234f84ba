------------------------------- MODULE RoundRobin -------------------------------
(***************************************************************************)
(* The scheduler of round-robin, cmd/main.go: a loop that ranges over a    *)
(* slice of processes, and in its body cuts the head off that slice and    *)
(* appends the process it has just run.                                    *)
(*                                                                         *)
(* The range is evaluated once, so it goes on over the slice as it was,    *)
(* whose array the current slice shares until an append needs a larger     *)
(* one.  Arrays and slices are modelled as such: a slice is a part of an   *)
(* array, s[1:] moves its start, and append writes behind its end if the   *)
(* array has room.  Times are what the sleeps ask for.                     *)
(***************************************************************************)
EXTENDS Integers, Sequences, FiniteSets

CONSTANTS
    Count,      \* how many processes there are, numbered from 1 (10)
    MaxBurst,   \* the longest burst (288 ms)
    Quanta,     \* what the quantum may be set to (3 ms)
    MaxSpare    \* room that a new array has behind its elements, at most

ASSUME RoundRobinAssumption ==
    Count \in Nat /\ MaxBurst \in Nat \ {0} /\ Quanta \subseteq Int /\ MaxSpare \in Nat

Process == 1..Count
Nil == 0        \* what is in an array behind its elements

VARIABLES
    pc,         \* "start", "run" or "exit"
    quantum,    \* Quantum
    burst,      \* burstTime of each process
    remaining,  \* RemainingBurstTime
    state,      \* State
    turnaround, \* TurnAroundTime
    clock,      \* the time since start
    heap,       \* the arrays that are reachable: the range's and the current one
    visited,    \* the slice the range loop is over
    k,          \* how many of its elements it has visited
    copied      \* copiedProcesses

vars == <<pc, quantum, burst, remaining, state, turnaround, clock, heap, visited, k, copied>>

--------------------------------------------------------------------------------
(* Slices. *)

Elements(s) == SubSeq(heap[s.array], s.from + 1, s.from + s.len)

Spare == {[i \in 1..n |-> Nil] : n \in 0..MaxSpare}

\* slices.Clone, and the new array of an append: the elements and some room.
Cloned(elements) == {elements \o spare : spare \in Spare}

\* slices.Delete(s, 0, 1), which moves the elements.
CutHeadInPlace(h, s) ==
    [heap |-> [h EXCEPT ![s.array] =
                 [i \in DOMAIN @ |-> IF i - s.from \in 1..(s.len - 1) THEN @[i + 1]
                                     ELSE IF i = s.from + s.len THEN Nil ELSE @[i]]],
     slice |-> [s EXCEPT !.len = @ - 1]]

\* s[1:], which panics if s is empty.
CutHead(h, s) ==
    [heap |-> h, slice |-> [array |-> s.array, from |-> s.from + 1, len |-> s.len - 1]]

\* append(s, p), in place if there is room.
AppendTo(h, s, p) ==
    LET end == s.from + s.len + 1
        other == 3 - visited.array
    IN  IF end <= Len(h[s.array])
          THEN {[heap |-> [h EXCEPT ![s.array][end] = p],
                 slice |-> [array |-> s.array, from |-> s.from, len |-> s.len + 1]]}
          ELSE {[heap |-> [h EXCEPT ![other] = array],
                 slice |-> [array |-> other, from |-> 0, len |-> s.len + 1]] :
                  array \in Cloned(Append(SubSeq(h[s.array], s.from + 1, s.from + s.len), p))}

--------------------------------------------------------------------------------

\* initQueue, with any bursts.
Init ==
    /\ pc = "start" /\ quantum \in Quanta
    /\ burst \in [Process -> 1..MaxBurst] /\ remaining = burst
    /\ state = [p \in Process |-> "Ready"] /\ turnaround = [p \in Process |-> 0]
    /\ clock = 0
    /\ heap = [a \in 1..2 |-> <<>>]
    /\ visited = [array |-> 1, from |-> 0, len |-> 0] /\ k = 0 /\ copied = visited

\* main: a quantum that is not positive ends the program.
Start ==
    /\ pc = "start"
    /\ IF quantum <= 0 THEN pc' = "exit" /\ UNCHANGED <<heap, visited, copied>>
       ELSE /\ pc' = "run"
            /\ \E array \in Cloned([p \in Process |-> p]) : heap' = [heap EXCEPT ![1] = array]
            /\ copied' = [copied EXCEPT !.len = Count]
            /\ visited' = copied'
    /\ UNCHANGED <<quantum, burst, remaining, state, turnaround, clock, k>>

\* The range loop is over; the outer loop ranges over what is queued now.
RangeAgain ==
    /\ pc = "run" /\ k = visited.len
    /\ IF copied.len > 0 THEN visited' = copied /\ k' = 0 /\ UNCHANGED pc
                         ELSE pc' = "exit" /\ UNCHANGED <<visited, k>>
    /\ UNCHANGED <<quantum, burst, remaining, state, turnaround, clock, heap, copied>>

Visited == heap[visited.array][visited.from + k + 1]

\* What is left of p's burst may be less than the quantum.
SleepsWholeQuantum(p) == quantum

\* time.Sleep of the quantum, or of the part of it that p still needs.
Sleeps(p) ==
    LET after == remaining[p] - quantum IN IF after <= 0 THEN quantum - (-after) ELSE quantum

\* The body for a process whose burst ends in this quantum.
Finish ==
    /\ pc = "run" /\ k < visited.len
    /\ LET p == Visited
           cut == CutHead(heap, copied)
       IN  /\ remaining[p] - quantum <= 0
           /\ clock' = clock + Sleeps(p)
           /\ remaining' = [remaining EXCEPT ![p] = 0]
           /\ state' = [state EXCEPT ![p] = "Finished"]
           /\ turnaround' = [turnaround EXCEPT ![p] = clock']
           /\ heap' = cut.heap /\ copied' = cut.slice
    /\ k' = k + 1
    /\ UNCHANGED <<pc, quantum, burst, visited>>

\* The body for a process that needs another turn.
Requeue ==
    /\ pc = "run" /\ k < visited.len
    /\ LET p == Visited
           cut == CutHead(heap, copied)
       IN  /\ remaining[p] - quantum > 0
           /\ clock' = clock + Sleeps(p)
           /\ remaining' = [remaining EXCEPT ![p] = @ - quantum]
           /\ state' = [state EXCEPT ![p] = "Ready"]
           /\ \E appended \in AppendTo(cut.heap, cut.slice, p) :
                heap' = appended.heap /\ copied' = appended.slice
    /\ k' = k + 1
    /\ UNCHANGED <<pc, quantum, burst, turnaround, visited>>

Next == Start \/ RangeAgain \/ Finish \/ Requeue

\* One goroutine that never waits for another.
Spec == Init /\ [][Next]_vars /\ WF_vars(Next)

--------------------------------------------------------------------------------
(* Properties. *)

\* The processes that wait for a turn, also when no copy of them is made.
Queue == IF pc = "start" \/ quantum <= 0 THEN [p \in Process |-> p] ELSE Elements(copied)

Fifo == INSTANCE RunQueue WITH queue <- Queue, left <- remaining

\* todo.txt: "Internally round robin is usually a FIFO queue".  The loop over the old slice
\* runs the head of the current one, every time, and to the end of all bursts.
ImplementsFifo == Fifo!Spec

Least(a, b) == IF a < b THEN a ELSE b

\* The turns that p needs.
Turns(p) == (burst[p] + quantum - 1) \div quantum

\* How long q has run when p's last turn is over: as many turns as p, or one less if it comes
\* behind p.
RunsBefore(q, p) == Least(burst[q], quantum * (IF q <= p THEN Turns(p) ELSE Turns(p) - 1))

\* The milliseconds of all bursts that have been run by then: the t-th of each q.
UnitsBefore(p) == {u \in Process \X (1..MaxBurst) : u[2] <= RunsBefore(u[1], p)}

\* The turnaround times that main prints are those of round robin: each process waits for one
\* turn of every other, and not longer, between two of its own.
TurnaroundIsRoundRobin ==
    \A p \in Process : state[p] = "Finished" => turnaround[p] = Cardinality(UnitsBefore(p))
================================================================================
