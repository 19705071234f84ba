---------------------------- MODULE RoundRobinProofs ----------------------------
(***************************************************************************)
(* Proofs about RoundRobin for any numbers of processes, bursts, quanta    *)
(* and capacities: the process that the range loop visits is the head of   *)
(* the slice as it is by then, so the scheduler runs a FIFO queue; it goes *)
(* round in the order of the processes, so the turnaround times are round  *)
(* robin's.                                                                *)
(***************************************************************************)
EXTENDS RoundRobin, SequenceTheorems, FiniteSetTheorems, TLAPS

Slice == [array : 1..2, from : Nat, len : Nat]
Heap == [1..2 -> Seq(Nat)]

\* A slice lies within its array.
IsSlice(h, s) == s \in Slice /\ s.from + s.len <= Len(h[s.array])

TypeInv ==
    /\ pc \in {"start", "run", "exit"} /\ quantum \in Int
    /\ remaining \in [Process -> Int]
    /\ heap \in Heap
    /\ IsSlice(heap, visited) /\ IsSlice(heap, copied)
    /\ k \in 0..visited.len

\* Nothing has been copied.
StartInv ==
    /\ pc = "start" => visited = [array |-> 1, from |-> 0, len |-> 0] /\ copied = visited
    /\ pc = "run" => quantum > 0

\* What the range loop has still to visit is the front of the current slice; where the two
\* share an array, it is the same part of it.
SharingInv ==
    /\ visited.len - k <= copied.len
    /\ \A j \in 1..(visited.len - k) :
         heap[visited.array][visited.from + k + j] = heap[copied.array][copied.from + j]
    /\ copied.array = visited.array => copied.from = visited.from + k

\* The slice holds processes.
QueueInv == \A j \in 1..copied.len : heap[copied.array][copied.from + j] \in Process

IInv == TypeInv /\ StartInv /\ SharingInv /\ QueueInv

\* A part of an array, by its first index and its length.
LEMMA PartOfArray ==
    ASSUME NEW a \in Seq(Nat), NEW from \in Nat, NEW len \in Nat, from + len <= Len(a)
    PROVE  /\ SubSeq(a, from + 1, from + len) \in Seq(Nat)
           /\ Len(SubSeq(a, from + 1, from + len)) = len
           /\ \A j \in 1..len : SubSeq(a, from + 1, from + len)[j] = a[from + j]
<1> DEFINE m == from + 1
           n == from + len
<1>1. m \in Int /\ n \in Int /\ n - m + 1 = len /\ (m <= n => n - m + 1 = len) /\ (~(m <= n) => len = 0)
      /\ \A i \in m..n : a[i] \in Nat
  OBVIOUS
<1>2. \A j \in 1..len : m + j - 1 = from + j
  OBVIOUS
<1> HIDE DEF m, n
<1>3. /\ SubSeq(a, m, n) \in Seq(Nat)
      /\ Len(SubSeq(a, m, n)) = IF m <= n THEN n - m + 1 ELSE 0
      /\ \A j \in 1..(n - m + 1) : SubSeq(a, m, n)[j] = a[m + j - 1]
  BY <1>1, SubSeqProperties
<1>4. /\ SubSeq(a, m, n) \in Seq(Nat) /\ Len(SubSeq(a, m, n)) = len
      /\ \A j \in 1..len : SubSeq(a, m, n)[j] = a[m + j - 1]
  BY <1>1, <1>3
<1>5. \A j \in 1..len : SubSeq(a, m, n)[j] = a[from + j]
  BY <1>2, <1>4
<1> QED BY <1>4, <1>5 DEF m, n

\* A slice's elements are a sequence of its length.
LEMMA SliceElements ==
    ASSUME NEW h \in Heap, NEW s, IsSlice(h, s)
    PROVE  /\ SubSeq(h[s.array], s.from + 1, s.from + s.len) \in Seq(Nat)
           /\ Len(SubSeq(h[s.array], s.from + 1, s.from + s.len)) = s.len
           /\ \A j \in 1..s.len :
                SubSeq(h[s.array], s.from + 1, s.from + s.len)[j] = h[s.array][s.from + j]
<1>1. s.array \in 1..2 /\ s.from \in Nat /\ s.len \in Nat /\ h[s.array] \in Seq(Nat)
      /\ s.from + s.len <= Len(h[s.array])
  BY DEF IsSlice, Slice, Heap
<1> QED BY <1>1, PartOfArray

\* Arrays of the elements and some room keep the elements.
LEMMA Cloning ==
    ASSUME NEW elements \in Seq(Nat), NEW array \in Cloned(elements)
    PROVE  /\ array \in Seq(Nat) /\ Len(array) >= Len(elements)
           /\ \A j \in 1..Len(elements) : array[j] = elements[j]
<1>1. PICK spare \in Spare : array = elements \o spare
  BY DEF Cloned
<1>2. spare \in Seq(Nat)
  <2>1. PICK n \in 0..MaxSpare : spare = [i \in 1..n |-> Nil]
    BY <1>1 DEF Spare
  <2> QED BY <2>1, RoundRobinAssumption DEF Nil
<1> QED BY <1>1, <1>2, ConcatProperties

\* An append adds p at the end.  It writes behind the slice's end in the slice's array, or
\* in an array that the range loop does not use.
LEMMA Appending ==
    ASSUME visited \in Slice, NEW h \in Heap, NEW s, IsSlice(h, s), NEW p \in Nat,
           NEW r \in AppendTo(h, s, p)
    PROVE  /\ r.heap \in Heap /\ IsSlice(r.heap, r.slice) /\ r.slice.len = s.len + 1
           /\ \A j \in 1..s.len :
                r.heap[r.slice.array][r.slice.from + j] = h[s.array][s.from + j]
           /\ r.heap[r.slice.array][r.slice.from + s.len + 1] = p
           /\ \/ /\ r.slice.array = s.array /\ r.slice.from = s.from
                 /\ \A a \in 1..2 : Len(r.heap[a]) = Len(h[a])
                 /\ \A a \in 1..2 : \A i \in 1..Len(h[a]) :
                      a # s.array \/ i # s.from + s.len + 1 => r.heap[a][i] = h[a][i]
              \/ /\ r.slice.array = 3 - visited.array
                 /\ r.heap[visited.array] = h[visited.array]
<1> DEFINE end == s.from + s.len + 1
           other == 3 - visited.array
<1>1. /\ visited.array \in 1..2 /\ other \in 1..2 /\ other # visited.array
      /\ s.array \in 1..2 /\ s.from \in Nat /\ s.len \in Nat /\ s \in Slice
      /\ h[s.array] \in Seq(Nat) /\ s.from + s.len <= Len(h[s.array])
  BY DEF IsSlice, Slice, Heap
<1>2. CASE end <= Len(h[s.array])
  <2>1. r = [heap |-> [h EXCEPT ![s.array][end] = p],
             slice |-> [array |-> s.array, from |-> s.from, len |-> s.len + 1]]
    BY <1>2 DEF AppendTo
  <2>2. end \in 1..Len(h[s.array])
    BY <1>1, <1>2
  <2>3. r.heap = [h EXCEPT ![s.array] = [h[s.array] EXCEPT ![end] = p]]
    BY <2>1
  <2>4. /\ [h[s.array] EXCEPT ![end] = p] \in Seq(Nat)
        /\ Len([h[s.array] EXCEPT ![end] = p]) = Len(h[s.array])
        /\ \A i \in 1..Len(h[s.array]) :
             [h[s.array] EXCEPT ![end] = p][i] = IF i = end THEN p ELSE h[s.array][i]
    BY <1>1, <2>2, ExceptSeq
  <2>5. r.slice \in Slice /\ r.slice.array = s.array /\ r.slice.from = s.from /\ r.slice.len = s.len + 1
    <3>1. s.len + 1 \in Nat
      BY <1>1
    <3> QED BY <1>1, <2>1, <3>1 DEF Slice
  <2>6. /\ r.heap \in Heap
        /\ r.heap[s.array] = [h[s.array] EXCEPT ![end] = p]
        /\ \A a \in 1..2 : a # s.array => r.heap[a] = h[a]
    BY <1>1, <2>3, <2>4 DEF Heap
  <2> HIDE DEF end
  <2>7. /\ \A a \in 1..2 : Len(r.heap[a]) = Len(h[a])
        /\ \A a \in 1..2 : \A i \in 1..Len(h[a]) : a # s.array \/ i # end => r.heap[a][i] = h[a][i]
        /\ r.heap[s.array][end] = p
    BY <2>2, <2>4, <2>6
  <2>8. \A j \in 1..s.len : s.from + j \in 1..Len(h[s.array]) /\ s.from + j # end
    <3>1. s.len \in Nat /\ s.from \in Nat /\ Len(h[s.array]) \in Nat /\ s.from + s.len <= Len(h[s.array])
      BY <1>1
    <3> QED BY ONLY <3>1 DEF end
  <2>9. IsSlice(r.heap, r.slice)
    <3>1. s.from + (s.len + 1) <= Len(h[s.array])
      BY <1>1, <1>2 DEF end
    <3>2. Len(r.heap[r.slice.array]) = Len(h[s.array])
      BY <1>1, <2>5, <2>7
    <3> QED BY <2>5, <3>1, <3>2 DEF IsSlice
  <2>10. \A j \in 1..s.len : r.heap[r.slice.array][r.slice.from + j] = h[s.array][s.from + j]
    <3>1. \A j \in 1..s.len : r.heap[s.array][s.from + j] = h[s.array][s.from + j]
      BY <1>1, <2>7, <2>8
    <3> QED BY <2>5, <3>1
  <2>11. r.heap[r.slice.array][r.slice.from + s.len + 1] = p
    BY <2>5, <2>7 DEF end
  <2> QED BY <2>5, <2>6, <2>7, <2>9, <2>10, <2>11 DEF end
<1>3. CASE end > Len(h[s.array])
  <2> DEFINE part == SubSeq(h[s.array], s.from + 1, s.from + s.len)
  <2>1. /\ part \in Seq(Nat) /\ Len(part) = s.len
        /\ \A j \in 1..s.len : part[j] = h[s.array][s.from + j]
    BY <1>1, PartOfArray
  <2> HIDE DEF part
  <2>2. /\ Append(part, p) \in Seq(Nat) /\ Len(Append(part, p)) = s.len + 1
        /\ \A j \in 1..s.len : Append(part, p)[j] = part[j]
        /\ Append(part, p)[s.len + 1] = p
    BY <2>1, AppendProperties
  <2>3. PICK array \in Cloned(Append(part, p)) :
          r = [heap |-> [h EXCEPT ![other] = array],
               slice |-> [array |-> other, from |-> 0, len |-> s.len + 1]]
    <3>1. ~(end <= Len(h[s.array]))
      BY <1>1, <1>3
    <3> QED BY <3>1 DEF AppendTo, part
  <2>4. /\ array \in Seq(Nat) /\ Len(array) >= s.len + 1
        /\ \A j \in 1..(s.len + 1) : array[j] = Append(part, p)[j]
    BY <2>2, Cloning
  <2>5. /\ r.heap = [h EXCEPT ![other] = array]
        /\ r.slice.array = other /\ r.slice.from = 0 /\ r.slice.len = s.len + 1
        /\ r.slice \in Slice
    BY <1>1, <2>3 DEF Slice
  <2>6. r.heap \in Heap /\ r.heap[other] = array /\ r.heap[visited.array] = h[visited.array]
    BY <1>1, <2>4, <2>5 DEF Heap
  <2>7. IsSlice(r.heap, r.slice)
    BY <1>1, <2>4, <2>5, <2>6 DEF IsSlice
  <2>8. /\ \A j \in 1..s.len : array[j] = h[s.array][s.from + j]
        /\ array[s.len + 1] = p
    <3>1. s.len + 1 \in 1..(s.len + 1) /\ \A j \in 1..s.len : j \in 1..(s.len + 1)
      BY <1>1
    <3> QED BY <2>1, <2>2, <2>4, <3>1
  <2> HIDE DEF other
  <2>9. /\ \A j \in 1..s.len : r.heap[r.slice.array][r.slice.from + j] = h[s.array][s.from + j]
        /\ r.heap[r.slice.array][r.slice.from + s.len + 1] = p
    BY <1>1, <2>5, <2>6, <2>8
  <2> QED BY <2>5, <2>6, <2>7, <2>9 DEF other
<1> QED BY <1>1, <1>2, <1>3

\* The range loop visits the head of the current slice.
LEMMA VisitsHead ==
    ASSUME IInv, pc = "run", k < visited.len
    PROVE  /\ k \in Nat /\ visited.len \in Nat /\ copied.len \in Nat /\ copied.len > 0
           /\ Visited = heap[copied.array][copied.from + 1]
           /\ Visited \in Process /\ Visited \in Nat
           /\ Queue \in Seq(Nat) /\ Len(Queue) = copied.len
           /\ \A j \in 1..copied.len : Queue[j] = heap[copied.array][copied.from + j]
           /\ Queue # <<>> /\ Head(Queue) = Visited
<1>1. /\ visited \in Slice /\ copied \in Slice /\ k \in 0..visited.len /\ quantum \in Int
      /\ heap \in Heap /\ IsSlice(heap, copied)
  BY DEF IInv, TypeInv, IsSlice
<1>2. k \in Nat /\ visited.len \in Nat /\ copied.len \in Nat /\ visited.from \in Nat
      /\ visited.len - k <= copied.len
  BY <1>1 DEF Slice, IInv, SharingInv
<1>3. 1 \in 1..(visited.len - k) /\ 1 \in 1..copied.len
  BY <1>2
<1>4. heap[visited.array][visited.from + k + 1] = heap[copied.array][copied.from + 1]
  BY <1>3 DEF IInv, SharingInv
<1>5. heap[copied.array][copied.from + 1] \in Process
  BY <1>3 DEF IInv, QueueInv
<1>6. quantum > 0
  BY DEF IInv, StartInv
<1>7. Queue = SubSeq(heap[copied.array], copied.from + 1, copied.from + copied.len)
  <2>1. ~(pc = "start" \/ quantum <= 0)
    BY <1>1, <1>6
  <2> QED BY <2>1, Zenon DEF Queue, Elements
<1>8. /\ Queue \in Seq(Nat) /\ Len(Queue) = copied.len
      /\ \A j \in 1..copied.len : Queue[j] = heap[copied.array][copied.from + j]
  BY <1>1, <1>7, SliceElements
<1>9. Queue # <<>> /\ Head(Queue) = Queue[1]
  BY <1>3, <1>8
<1>10. Process \subseteq Nat
  BY RoundRobinAssumption DEF Process
<1> QED BY <1>2, <1>3, <1>4, <1>5, <1>8, <1>9, <1>10 DEF Visited

\* The invariant holds when the program starts.
LEMMA InitIInv == Init => IInv
<1> SUFFICES ASSUME Init PROVE IInv
  OBVIOUS
<1>1. heap \in Heap /\ heap[1] = <<>> /\ Len(heap[1]) = 0
  BY DEF Init, Heap
<1>2. visited = [array |-> 1, from |-> 0, len |-> 0] /\ copied = visited /\ k = 0
      /\ pc = "start" /\ quantum \in Quanta /\ remaining \in [Process -> 1..MaxBurst]
  BY DEF Init
<1>3. IsSlice(heap, visited)
  BY <1>1, <1>2 DEF IsSlice, Slice
<1>4. TypeInv
  BY <1>1, <1>2, <1>3, RoundRobinAssumption DEF TypeInv
<1> QED BY <1>2, <1>4 DEF IInv, StartInv, SharingInv, QueueInv

\* The loops start on a copy of all processes, or again on what is queued.
LEMMA LoopSteps ==
    ASSUME IInv, Start \/ RangeAgain
    PROVE  IInv' /\ (quantum > 0 => Queue' = Queue) /\ UNCHANGED <<quantum, remaining>>
<1>1. /\ heap \in Heap /\ quantum \in Int /\ IsSlice(heap, visited) /\ IsSlice(heap, copied)
      /\ visited \in Slice /\ copied \in Slice /\ k \in 0..visited.len
  BY DEF IInv, TypeInv, IsSlice
<1>2. CASE Start /\ quantum <= 0
  <2>1. UNCHANGED <<quantum, remaining, heap, visited, copied, k>> /\ pc' = "exit"
    BY <1>2 DEF Start
  <2> QED BY <1>1, <1>2, <2>1 DEF IInv, TypeInv, StartInv, SharingInv, QueueInv, IsSlice
<1>3. CASE Start /\ quantum > 0
  <2>1. PICK array \in Cloned([p \in Process |-> p]) :
          /\ heap' = [heap EXCEPT ![1] = array]
          /\ copied' = [copied EXCEPT !.len = Count] /\ visited' = copied' /\ pc' = "run"
          /\ UNCHANGED <<quantum, remaining, k>>
    BY <1>1, <1>3 DEF Start
  <2>2. pc = "start" /\ copied = [array |-> 1, from |-> 0, len |-> 0] /\ k = 0
    BY <1>1, <1>3 DEF Start, IInv, StartInv
  <2>3. copied' = [array |-> 1, from |-> 0, len |-> Count]
    BY <2>1, <2>2
  <2>4. [p \in Process |-> p] \in Seq(Nat) /\ Len([p \in Process |-> p]) = Count
    BY RoundRobinAssumption DEF Process
  <2>5. /\ array \in Seq(Nat) /\ Len(array) >= Count
        /\ \A j \in 1..Count : array[j] = j
    BY <2>4, Cloning DEF Process
  <2>6. heap' \in Heap /\ heap'[1] = array
    BY <1>1, <2>1, <2>5 DEF Heap
  <2>7. IsSlice(heap', copied')
    BY <2>3, <2>5, <2>6, RoundRobinAssumption DEF IsSlice, Slice
  <2>8. TypeInv'
    BY <1>1, <2>1, <2>2, <2>3, <2>6, <2>7, RoundRobinAssumption DEF IInv, TypeInv
  <2>9. QueueInv' /\ SharingInv'
    BY <2>1, <2>2, <2>3, <2>5, <2>6, RoundRobinAssumption DEF QueueInv, SharingInv, Process
  <2>10. Queue' = Queue
    <3>1. Queue = [p \in Process |-> p]
      BY <2>2 DEF Queue
    <3>2. Queue' = SubSeq(heap'[copied'.array], copied'.from + 1, copied'.from + copied'.len)
      <4>1. ~(pc' = "start" \/ quantum' <= 0)
        BY <1>1, <1>3, <2>1
      <4> QED BY <4>1, Zenon DEF Queue, Elements
    <3>3. /\ Queue' \in Seq(Nat) /\ Len(Queue') = Count
          /\ \A j \in 1..Count : Queue'[j] = j
      <4>1. /\ Queue' \in Seq(Nat) /\ Len(Queue') = copied'.len
            /\ \A j \in 1..copied'.len : Queue'[j] = heap'[copied'.array][copied'.from + j]
        BY ONLY <2>6, <2>7, <3>2, SliceElements
      <4>2. \A j \in 1..Count : 0 + j = j
        BY RoundRobinAssumption
      <4> QED BY <2>3, <2>5, <2>6, <4>1, <4>2
    <3>4. Len(Queue) = Count /\ Queue \in Seq(Nat) /\ \A j \in 1..Count : Queue[j] = j
      BY <2>4, <3>1 DEF Process
    <3> QED BY <3>3, <3>4, SeqEqual
  <2> QED BY <1>3, <2>1, <2>8, <2>9, <2>10 DEF IInv, StartInv
<1>4. CASE RangeAgain
  <2>1. pc = "run" /\ UNCHANGED <<quantum, remaining, heap, copied>>
    BY <1>4 DEF RangeAgain
  <2>2. Queue' = Queue
    BY <1>4, <2>1 DEF Queue, Elements, RangeAgain
  <2>3. \/ visited' = copied /\ k' = 0 /\ pc' = "run"
        \/ pc' = "exit" /\ UNCHANGED <<visited, k>>
    BY <1>4, <2>1 DEF RangeAgain
  <2>4. copied.from \in Nat /\ copied.len \in Nat
    BY <1>1 DEF Slice
  <2>5. TypeInv' /\ QueueInv' /\ StartInv'
    BY <1>1, <2>1, <2>3, <2>4 DEF IInv, TypeInv, QueueInv, StartInv, IsSlice
  <2>6. SharingInv'
    BY <2>1, <2>3, <2>4 DEF IInv, SharingInv
  <2> QED BY <2>1, <2>2, <2>5, <2>6 DEF IInv
<1> QED BY <1>1, <1>2, <1>3, <1>4

\* Cutting the head off leaves a slice of the other elements.
LEMMA Cutting ==
    ASSUME NEW h \in Heap, NEW s, IsSlice(h, s), s.len > 0
    PROVE  LET cut == CutHead(h, s) IN
           /\ cut.heap = h /\ IsSlice(h, cut.slice)
           /\ cut.slice.array = s.array
           /\ cut.slice.from = s.from + 1 /\ cut.slice.len = s.len - 1
<1> DEFINE t == [array |-> s.array, from |-> s.from + 1, len |-> s.len - 1]
<1>1. s \in Slice /\ s.array \in 1..2 /\ s.from \in Nat /\ s.len \in Nat /\ s.len > 0
      /\ h[s.array] \in Seq(Nat) /\ s.from + s.len <= Len(h[s.array])
  BY DEF IsSlice, Slice, Heap
<1>2. t.array = s.array /\ t.from = s.from + 1 /\ t.len = s.len - 1 /\ t \in Slice
  <2>1. s.from + 1 \in Nat /\ s.len - 1 \in Nat
    BY <1>1
  <2> QED BY <1>1, <2>1 DEF Slice
<1> HIDE DEF t
<1>3. t.from + t.len <= Len(h[t.array])
  BY <1>1, <1>2
<1>4. IsSlice(h, t)
  BY <1>2, <1>3 DEF IsSlice
<1> QED BY <1>2, <1>4 DEF CutHead, t

\* A process whose burst is over is the head, and leaves the queue.
LEMMA FinishStep ==
    ASSUME IInv, Finish
    PROVE  IInv' /\ Fifo!RunHead
<1> DEFINE p == Visited
           cut == CutHead(heap, copied)
<1>1. /\ heap \in Heap /\ quantum \in Int /\ IsSlice(heap, visited) /\ IsSlice(heap, copied)
      /\ visited \in Slice /\ copied \in Slice /\ k \in 0..visited.len
      /\ remaining \in [Process -> Int]
  BY DEF IInv, TypeInv, IsSlice
<1>2. /\ pc = "run" /\ k < visited.len /\ pc' = "run" /\ k' = k + 1
      /\ remaining[p] - quantum <= 0 /\ remaining' = [remaining EXCEPT ![p] = 0]
      /\ heap' = cut.heap /\ copied' = cut.slice /\ UNCHANGED <<quantum, visited>>
  BY DEF Finish
<1>3. quantum > 0
  BY <1>2 DEF IInv, StartInv
<1> HIDE DEF p, cut
<1>4. /\ k \in Nat /\ visited.len \in Nat /\ copied.len \in Nat /\ copied.len > 0
      /\ p \in Process /\ Queue \in Seq(Nat) /\ Len(Queue) = copied.len
      /\ \A j \in 1..copied.len : Queue[j] = heap[copied.array][copied.from + j]
      /\ Queue # <<>> /\ Head(Queue) = p
  BY <1>2, VisitsHead DEF p
<1>5. /\ heap' = heap /\ IsSlice(heap, copied')
      /\ copied'.array = copied.array
      /\ copied'.from = copied.from + 1 /\ copied'.len = copied.len - 1
  BY <1>1, <1>2, <1>4, Cutting DEF cut
<1>6. /\ copied.from \in Nat /\ visited.from \in Nat
      /\ k \in Nat /\ visited.len \in Nat /\ copied.len \in Nat /\ copied.len > 0
  BY <1>1, <1>4 DEF Slice
<1>7. TypeInv' /\ StartInv'
  BY <1>1, <1>2, <1>3, <1>4, <1>5 DEF IInv, TypeInv, StartInv, IsSlice
<1>8. /\ visited.len - k <= copied.len
      /\ \A j \in 1..(visited.len - k) :
           heap[visited.array][visited.from + k + j] = heap[copied.array][copied.from + j]
      /\ copied.array = visited.array => copied.from = visited.from + k
      /\ \A j \in 1..copied.len : heap[copied.array][copied.from + j] \in Process
  BY DEF IInv, SharingInv, QueueInv
<1>9. SharingInv'
  <2>1. visited.len - (k + 1) <= copied.len - 1
    BY <1>4, <1>8
  <2>2. ASSUME NEW j \in 1..(visited.len - (k + 1))
        PROVE  heap[visited.array][visited.from + (k + 1) + j] = heap[copied.array][(copied.from + 1) + j]
    <3>1. /\ j + 1 \in 1..(visited.len - k)
          /\ visited.from + (k + 1) + j = visited.from + k + (j + 1)
          /\ (copied.from + 1) + j = copied.from + (j + 1)
      BY ONLY <1>6
    <3> QED BY <1>8, <3>1
  <2>3. copied.array = visited.array => copied.from + 1 = visited.from + (k + 1)
    BY <1>6, <1>8
  <2> QED BY <1>2, <1>5, <2>1, <2>2, <2>3 DEF SharingInv
<1>10. QueueInv'
  <2>1. ASSUME NEW j \in 1..(copied.len - 1)
        PROVE  heap[copied.array][(copied.from + 1) + j] \in Process
    <3>1. j + 1 \in 1..copied.len /\ (copied.from + 1) + j = copied.from + (j + 1)
      BY ONLY <1>6
    <3> QED BY <1>8, <3>1
  <2> QED BY <1>5, <2>1 DEF QueueInv
<1>11. Queue' = Tail(Queue)
  <2>1. Queue' = SubSeq(heap'[copied'.array], copied'.from + 1, copied'.from + copied'.len)
    <3>1. ~(pc' = "start" \/ quantum' <= 0)
      BY <1>1, <1>2, <1>3
    <3> QED BY <3>1, Zenon DEF Queue, Elements
  <2>2. /\ Queue' \in Seq(Nat) /\ Len(Queue') = copied.len - 1
        /\ \A j \in 1..(copied.len - 1) : Queue'[j] = heap[copied.array][(copied.from + 1) + j]
    <3>1. /\ Queue' \in Seq(Nat) /\ Len(Queue') = copied'.len
          /\ \A j \in 1..copied'.len : Queue'[j] = heap'[copied'.array][copied'.from + j]
      BY <1>1, <1>5, <2>1, SliceElements
    <3> QED BY <1>5, <3>1
  <2>3. /\ Tail(Queue) \in Seq(Nat) /\ Len(Tail(Queue)) = copied.len - 1
        /\ \A j \in 1..(copied.len - 1) : Tail(Queue)[j] = Queue[j + 1]
    BY <1>4, HeadTailProperties
  <2>4. \A j \in 1..(copied.len - 1) : Queue[j + 1] = heap[copied.array][(copied.from + 1) + j]
    <3>1. \A j \in 1..(copied.len - 1) :
            j + 1 \in 1..copied.len /\ copied.from + (j + 1) = (copied.from + 1) + j
      BY ONLY <1>6
    <3> QED BY <1>4, <3>1
  <2> HIDE DEF Fifo!RunHead
  <2> QED BY <2>2, <2>3, <2>4, SeqEqual
<1>12. Fifo!RunHead
  <2>1. ~(remaining[p] > quantum)
    BY <1>1, <1>2, <1>4
  <2> QED BY <1>2, <1>3, <1>4, <1>11, <2>1 DEF Fifo!RunHead, Fifo!Run
<1> QED BY <1>7, <1>9, <1>10, <1>12 DEF IInv

\* A process that needs another turn is the head, and goes to the end of the queue.
LEMMA RequeueStep ==
    ASSUME IInv, Requeue
    PROVE  IInv' /\ Fifo!RunHead
<1> DEFINE p == Visited
           cut == CutHead(heap, copied)
           c == cut.slice
<1>1. /\ heap \in Heap /\ quantum \in Int /\ IsSlice(heap, visited) /\ IsSlice(heap, copied)
      /\ visited \in Slice /\ copied \in Slice /\ k \in 0..visited.len
      /\ remaining \in [Process -> Int]
  BY DEF IInv, TypeInv, IsSlice
<1>2. /\ pc = "run" /\ k < visited.len /\ pc' = "run" /\ k' = k + 1
      /\ remaining[p] - quantum > 0 /\ remaining' = [remaining EXCEPT ![p] = @ - quantum]
      /\ UNCHANGED <<quantum, visited>>
  BY DEF Requeue
<1>3. PICK r \in AppendTo(cut.heap, c, p) : heap' = r.heap /\ copied' = r.slice
  BY Zenon DEF Requeue
<1>4. quantum > 0
  BY <1>2 DEF IInv, StartInv
<1> HIDE DEF p, cut
<1>5. /\ k \in Nat /\ visited.len \in Nat /\ copied.len \in Nat /\ copied.len > 0
      /\ p \in Process /\ p \in Nat /\ Queue \in Seq(Nat) /\ Len(Queue) = copied.len
      /\ \A j \in 1..copied.len : Queue[j] = heap[copied.array][copied.from + j]
      /\ Queue # <<>> /\ Head(Queue) = p
  BY <1>2, VisitsHead DEF p
<1>6. /\ cut.heap = heap /\ IsSlice(heap, c) /\ c.array = copied.array
      /\ c.from = copied.from + 1 /\ c.len = copied.len - 1
  BY <1>1, <1>5, Cutting DEF cut
<1> HIDE DEF c
<1>7. /\ copied.from \in Nat /\ visited.from \in Nat /\ visited.array \in 1..2
      /\ k \in Nat /\ visited.len \in Nat /\ copied.len \in Nat /\ copied.len > 0
      /\ k < visited.len
  BY <1>1, <1>2, <1>5 DEF Slice
<1>8. /\ visited.len - k <= copied.len
      /\ \A j \in 1..(visited.len - k) :
           heap[visited.array][visited.from + k + j] = heap[copied.array][copied.from + j]
      /\ copied.array = visited.array => copied.from = visited.from + k
      /\ \A j \in 1..copied.len : heap[copied.array][copied.from + j] \in Process
  BY DEF IInv, SharingInv, QueueInv
<1>9. /\ heap' \in Heap /\ IsSlice(heap', copied') /\ copied'.len = copied.len
      /\ \A j \in 1..(copied.len - 1) :
           heap'[copied'.array][copied'.from + j] = heap[copied.array][(copied.from + 1) + j]
      /\ heap'[copied'.array][copied'.from + copied.len] = p
      /\ \/ /\ copied'.array = copied.array /\ copied'.from = copied.from + 1
            /\ \A a \in 1..2 : Len(heap'[a]) = Len(heap[a])
            /\ \A a \in 1..2 : \A i \in 1..Len(heap[a]) :
                 a # copied.array \/ i # copied.from + 1 + copied.len => heap'[a][i] = heap[a][i]
         \/ copied'.array = 3 - visited.array /\ heap'[visited.array] = heap[visited.array]
  <2>1. /\ r.heap \in Heap /\ IsSlice(r.heap, r.slice) /\ r.slice.len = c.len + 1
        /\ \A j \in 1..c.len : r.heap[r.slice.array][r.slice.from + j] = heap[c.array][c.from + j]
        /\ r.heap[r.slice.array][r.slice.from + c.len + 1] = p
        /\ \/ /\ r.slice.array = c.array /\ r.slice.from = c.from
              /\ \A a \in 1..2 : Len(r.heap[a]) = Len(heap[a])
              /\ \A a \in 1..2 : \A i \in 1..Len(heap[a]) :
                   a # c.array \/ i # c.from + c.len + 1 => r.heap[a][i] = heap[a][i]
           \/ /\ r.slice.array = 3 - visited.array
              /\ r.heap[visited.array] = heap[visited.array]
    <3>1. /\ visited \in Slice /\ heap \in Heap /\ IsSlice(heap, c) /\ p \in Nat
          /\ r \in AppendTo(heap, c, p)
      BY <1>1, <1>3, <1>5, <1>6
    <3> QED BY ONLY <3>1, Appending
  <2>2. /\ c.len + 1 = copied.len /\ c.from + c.len + 1 = copied.from + 1 + copied.len
    BY <1>6, <1>7
  <2>3. r.slice.from + c.len + 1 = r.slice.from + copied.len
    <3>1. r.slice.from \in Nat
      BY <2>1 DEF IsSlice, Slice
    <3> QED BY <1>6, <1>7, <3>1
  <2> QED BY <1>3, <1>6, <2>1, <2>2, <2>3
<1>10. TypeInv' /\ StartInv'
  <2>1. IsSlice(heap', visited')
    <3>1. Len(heap'[visited.array]) = Len(heap[visited.array])
      BY <1>7, <1>9
    <3> QED BY <1>1, <1>2, <3>1 DEF IsSlice
  <2>2. remaining' \in [Process -> Int]
    BY <1>1, <1>2, <1>5
  <2>3. k' \in 0..visited'.len
    BY <1>2, <1>7
  <2> QED BY <1>1, <1>2, <1>4, <1>9, <2>1, <2>2, <2>3 DEF TypeInv, StartInv
<1>11. SharingInv'
  <2>1. visited.len - (k + 1) <= copied.len
    BY <1>7, <1>8
  <2>2. ASSUME NEW j \in 1..(visited.len - (k + 1))
        PROVE  heap'[visited.array][visited.from + (k + 1) + j]
                 = heap'[copied'.array][copied'.from + j]
    <3>1. /\ j \in 1..(copied.len - 1) /\ j + 1 \in 1..(visited.len - k)
          /\ visited.from + (k + 1) + j = visited.from + k + (j + 1)
          /\ (copied.from + 1) + j = copied.from + (j + 1)
      BY <1>7, <1>8
    <3>2. heap'[copied'.array][copied'.from + j] = heap[visited.array][visited.from + (k + 1) + j]
      BY <1>8, <1>9, <3>1
    <3>3. visited.from + (k + 1) + j \in 1..Len(heap[visited.array])
      <4>1. visited.from + visited.len <= Len(heap[visited.array])
            /\ Len(heap[visited.array]) \in Nat
        BY <1>1, <1>7 DEF IsSlice, Heap
      <4>2. PICK n \in Nat : n = Len(heap[visited.array])
        BY <4>1
      <4>3. visited.from + (k + 1) + j \in 1..n
        <5>1. visited.from + visited.len <= n
          BY <4>1, <4>2
        <5> QED BY ONLY <1>7, <5>1
      <4> QED BY <4>2, <4>3
    <3>4. copied.array = visited.array =>
            visited.from + (k + 1) + j # copied.from + 1 + copied.len
      BY <1>7, <1>8, <3>1
    <3>5. heap'[visited.array][visited.from + (k + 1) + j]
            = heap[visited.array][visited.from + (k + 1) + j]
      BY <1>7, <1>9, <3>3, <3>4
    <3> QED BY <3>2, <3>5
  <2>3. copied'.array = visited.array => copied'.from = visited.from + (k + 1)
    <3>1. visited.array # 3 - visited.array
      BY <1>7
    <3>2. copied'.array = visited.array => copied'.array = copied.array /\ copied'.from = copied.from + 1
      BY <1>9, <3>1
    <3> QED BY <1>7, <1>8, <3>2
  <2> QED BY <1>2, <1>9, <2>1, <2>2, <2>3 DEF SharingInv
<1>12. \A j \in 1..(copied.len - 1) : j + 1 \in 1..copied.len
                                     /\ (copied.from + 1) + j = copied.from + (j + 1)
  BY ONLY <1>7
<1>13. QueueInv'
  <2>1. \A j \in 1..(copied.len - 1) : heap'[copied'.array][copied'.from + j] \in Process
    BY <1>8, <1>9, <1>12
  <2>2. \A j \in 1..copied.len : j \in 1..(copied.len - 1) \/ j = copied.len
    BY <1>7
  <2>3. \A j \in 1..copied.len : heap'[copied'.array][copied'.from + j] \in Process
    BY <1>5, <1>9, <2>1, <2>2
  <2> QED BY <1>9, <2>3 DEF QueueInv
<1>14. Queue' = Append(Tail(Queue), p)
  <2>1. Queue' = SubSeq(heap'[copied'.array], copied'.from + 1, copied'.from + copied'.len)
    <3>1. ~(pc' = "start" \/ quantum' <= 0)
      BY <1>1, <1>2, <1>4
    <3> QED BY <3>1, Zenon DEF Queue, Elements
  <2>2. /\ Queue' \in Seq(Nat) /\ Len(Queue') = copied.len
        /\ \A j \in 1..copied.len : Queue'[j] = heap'[copied'.array][copied'.from + j]
    BY <1>9, <2>1, SliceElements
  <2>3. /\ Tail(Queue) \in Seq(Nat) /\ Len(Tail(Queue)) = copied.len - 1
        /\ \A j \in 1..(copied.len - 1) : Tail(Queue)[j] = Queue[j + 1]
    BY <1>5, HeadTailProperties
  <2> DEFINE q == Append(Tail(Queue), p)
  <2>4. /\ q \in Seq(Nat) /\ Len(q) = (copied.len - 1) + 1
        /\ \A j \in 1..(copied.len - 1) : q[j] = Tail(Queue)[j]
        /\ q[(copied.len - 1) + 1] = p
    BY <1>5, <2>3, AppendProperties
  <2> HIDE DEF q
  <2>5. (copied.len - 1) + 1 = copied.len
        /\ \A j \in 1..copied.len : j \in 1..(copied.len - 1) \/ j = copied.len
    BY <1>7
  <2>6. \A j \in 1..(copied.len - 1) : q[j] = Queue'[j]
    <3> SUFFICES ASSUME NEW j \in 1..(copied.len - 1) PROVE q[j] = Queue'[j]
      OBVIOUS
    <3>1. j \in 1..copied.len /\ j + 1 \in 1..copied.len
          /\ (copied.from + 1) + j = copied.from + (j + 1)
      BY ONLY <1>7
    <3>2. q[j] = heap[copied.array][copied.from + (j + 1)]
      BY <1>5, <2>3, <2>4, <3>1
    <3>3. Queue'[j] = heap[copied.array][(copied.from + 1) + j]
      BY <1>9, <2>2, <3>1
    <3> QED BY <3>1, <3>2, <3>3
  <2>7. copied.len \in 1..copied.len
    BY <1>7
  <2>8. q[copied.len] = Queue'[copied.len]
    BY <1>9, <2>2, <2>4, <2>5, <2>7
  <2>9. Len(q) = Len(Queue') /\ \A j \in 1..Len(q) : q[j] = Queue'[j]
    BY <2>2, <2>4, <2>5, <2>6, <2>8
  <2>10. q = Queue'
    BY <2>2, <2>4, <2>9, SeqEqual
  <2> QED BY <2>10 DEF q
<1>15. Fifo!RunHead
  <2>1. remaining[p] > quantum
    BY <1>1, <1>2, <1>5
  <2> QED BY <1>2, <1>4, <1>5, <1>14, <2>1 DEF Fifo!RunHead, Fifo!Run
<1> QED BY <1>10, <1>11, <1>13, <1>15 DEF IInv

\* The inductive invariant holds in every reachable state.
THEOREM SchedulerInductive == Spec => []IInv
<1>1. IInv /\ [Next]_vars => IInv'
  <2> SUFFICES ASSUME IInv, [Next]_vars PROVE IInv'
    OBVIOUS
  <2>1. CASE Next
    BY <2>1, LoopSteps, FinishStep, RequeueStep DEF Next
  <2>2. CASE UNCHANGED vars
    BY <2>2 DEF vars, IInv, TypeInv, StartInv, SharingInv, QueueInv, IsSlice
  <2> QED BY <2>1, <2>2
<1> QED BY <1>1, InitIInv, PTL DEF Spec

\* Every step of the scheduler is a turn of the process at the head of a FIFO queue, or
\* leaves the queue as it is: the safety part of ImplementsFifo.
THEOREM RunsFifoQueue == Spec => [][Fifo!RunHead]_(Fifo!vars)
<1>1. IInv /\ [Next]_vars => [Fifo!RunHead]_(Fifo!vars)
  <2> SUFFICES ASSUME IInv, [Next]_vars PROVE [Fifo!RunHead]_(Fifo!vars)
    OBVIOUS
  <2>1. CASE Start \/ RangeAgain
    <3>1. /\ quantum > 0 => Queue' = Queue
          /\ UNCHANGED <<quantum, remaining>>
      BY <2>1, LoopSteps
    <3>2. ~(quantum > 0) => Queue' = Queue
      <4>1. quantum \in Int
        BY DEF IInv, TypeInv
      <4>2. ~(quantum > 0) => quantum <= 0 /\ quantum' <= 0
        BY <3>1, <4>1
      <4> QED BY <4>2, Zenon DEF Queue
    <3> QED BY <3>1, <3>2 DEF Fifo!vars
  <2>2. CASE Finish \/ Requeue
    BY <2>2, FinishStep, RequeueStep
  <2>3. CASE UNCHANGED vars
    BY <2>3 DEF vars, Fifo!vars, Queue, Elements
  <2> QED BY <2>1, <2>2, <2>3 DEF Next
<1> QED BY <1>1, SchedulerInductive, PTL DEF Spec

--------------------------------------------------------------------------------
(* Rounds, and the turnaround times. *)

\* How long q has run.
Ran(q) == burst[q] - remaining[q]

\* How many turns q has had after r rounds, when those before h have had theirs of the next.
TurnsHad(q, r, h) == IF q < h THEN r + 1 ELSE r

\* The place of q in the order of turns from h on.
Rank(q, h) == IF q < h THEN q + Count ELSE q

\* After r rounds the turn is at h, or behind: who is not finished has used his turns up, and
\* waits in the order of turns.
Round(r, h) ==
    /\ \A q \in Process :
         IF remaining[q] > 0 THEN Ran(q) = quantum * TurnsHad(q, r, h)
                             ELSE burst[q] <= quantum * TurnsHad(q, r, h)
    /\ \A q \in Process : remaining[q] > 0 => \E i \in 1..Len(Queue) : Queue[i] = q
    /\ \A i \in 1..Len(Queue) : Queue[i] \in Process /\ remaining[Queue[i]] > 0
    /\ \A i, j \in 1..Len(Queue) : i < j => Rank(Queue[i], h) < Rank(Queue[j], h)

RoundInv == quantum > 0 => \E r \in Nat : \E h \in 1..(Count + 1) : Round(r, h)

\* The milliseconds of all bursts that have been run: the t-th of each q.
UnitsRun == {u \in Process \X (1..MaxBurst) : u[2] <= Ran(u[1])}

\* The clock has counted them.
ClockInv ==
    /\ burst \in [Process -> 1..MaxBurst]
    /\ \A q \in Process : remaining[q] \in 0..burst[q]
    /\ state \in [Process -> {"Ready", "Finished"}]
    /\ turnaround \in [Process -> Nat]
    /\ clock = Cardinality(UnitsRun)

TimeInv == IInv /\ ClockInv /\ RoundInv /\ TurnaroundIsRoundRobin

LEMMA Multiples ==
    ASSUME NEW m \in Nat, NEW x \in Nat, NEW y \in Nat
    PROVE  /\ m * x \in Nat /\ m * (x + 1) = m * x + m
           /\ x <= y => m * x <= m * y
  OBVIOUS

LEMMA Quotient ==
    ASSUME NEW m \in Nat \ {0}, NEW a \in Nat, NEW x \in Nat, m * x <= a, a < m * x + m
    PROVE  a \div m = x
  OBVIOUS

\* After a turn of s milliseconds the clock has counted these too.
LEMMA ClockTurn ==
    ASSUME ClockInv, NEW p \in Process, NEW s \in 0..remaining[p], remaining \in [Process -> Int],
           remaining' = [remaining EXCEPT ![p] = @ - s], clock' = clock + s, UNCHANGED burst
    PROVE  clock' = Cardinality(UnitsRun)' /\ clock' \in Nat
<1> DEFINE a == Ran(p)
           turn == {p} \X ((a + 1)..(a + s))
           all == Process \X (1..MaxBurst)
<1>1. burst[p] \in 1..MaxBurst /\ remaining[p] \in 0..burst[p] /\ MaxBurst \in Nat /\ Count \in Nat
  BY RoundRobinAssumption DEF ClockInv
<1>2. a \in Nat /\ s \in Nat /\ a + s <= MaxBurst
  BY <1>1 DEF Ran
<1>3. /\ Ran(p)' = a + s
      /\ \A q \in Process : q # p => Ran(q)' = Ran(q)
  BY <1>1 DEF Ran
<1>4. \A q \in Process : Ran(q) \in Nat /\ Ran(q)' \in Nat
  BY <1>2, <1>3 DEF Ran, ClockInv
<1> HIDE DEF a
<1>5. IsFiniteSet(all)
  <2>1. IsFiniteSet(1..Count) /\ IsFiniteSet(1..MaxBurst)
    <3>1. 1 \in Int /\ Count \in Int /\ MaxBurst \in Int
      BY <1>1
    <3> QED BY ONLY <3>1, FS_Interval
  <2> QED BY <2>1, FS_Product, Zenon DEF Process
<1>6. UnitsRun \subseteq all /\ IsFiniteSet(UnitsRun)
  BY <1>5, FS_Subset DEF UnitsRun
<1>7. IsFiniteSet(turn) /\ Cardinality(turn) = s
  <2>1. IsFiniteSet((a + 1)..(a + s)) /\ Cardinality((a + 1)..(a + s)) = s
    BY <1>2, FS_Interval
  <2>2. IsFiniteSet({p}) /\ Cardinality({p}) = 1
    BY FS_Singleton
  <2>3. IsFiniteSet(turn) /\ Cardinality(turn) = Cardinality({p}) * Cardinality((a + 1)..(a + s))
    BY <2>1, <2>2, FS_Product, Zenon
  <2> HIDE DEF turn
  <2> QED BY <1>2, <2>1, <2>2, <2>3
<1>8. UnitsRun' = UnitsRun \cup turn
  <2>1. ASSUME NEW q \in Process, NEW t \in 1..MaxBurst
        PROVE  t <= Ran(q)' <=> t <= Ran(q) \/ (q = p /\ t \in (a + 1)..(a + s))
    BY <1>2, <1>3, <1>4 DEF a
  <2>2. turn \subseteq all
    <3>1. (a + 1)..(a + s) \subseteq 1..MaxBurst
      BY <1>1, <1>2
    <3> QED BY <3>1, Zenon
  <2>3. \A u \in all : u[1] \in Process /\ u[2] \in 1..MaxBurst /\ u = <<u[1], u[2]>>
    OBVIOUS
  <2>4. \A u \in all : u \in turn <=> u[1] = p /\ u[2] \in (a + 1)..(a + s)
    BY <2>3
  <2>5. \A u \in all : u[2] <= Ran(u[1])' <=> u[2] <= Ran(u[1]) \/ u \in turn
    BY <2>1, <2>3, <2>4
  <2> HIDE DEF turn, all
  <2> QED BY <2>2, <2>5 DEF UnitsRun, all
<1>9. UnitsRun \cap turn = {}
  <2>1. \A t \in (a + 1)..(a + s) : ~(t <= a)
    BY <1>2
  <2> QED BY <2>1 DEF UnitsRun, a
<1> HIDE DEF turn
<1>10. Cardinality(UnitsRun) \in Nat
  BY <1>6, FS_CardinalityType
<1>11. Cardinality(UnitsRun \cup turn) = Cardinality(UnitsRun) + s - 0
  <2>1. Cardinality(UnitsRun \cup turn)
          = Cardinality(UnitsRun) + Cardinality(turn) - Cardinality(UnitsRun \cap turn)
    BY <1>6, <1>7, FS_Union, Zenon
  <2> QED BY <1>7, <1>9, <2>1, FS_EmptySet
<1> QED BY <1>2, <1>8, <1>10, <1>11 DEF ClockInv

\* The head of the queue has a turn: then it is the turn of those behind it, in this round
\* or, if it was its last, in the next.
LEMMA RoundTurn ==
    ASSUME NEW p \in Process, NEW r \in Nat, NEW h \in 1..(Count + 1), NEW t, t = TurnsHad(p, r, h),
           quantum \in Nat \ {0}, ClockInv, remaining \in [Process -> Int], Round(r, h),
           Queue \in Seq(Nat), Queue # <<>>, Head(Queue) = p, Fifo!Run(p), UNCHANGED burst
    PROVE  /\ t \in Nat /\ p + 1 \in 1..(Count + 1) /\ Round(t, p + 1)'
           /\ remaining[p] > 0 /\ Ran(p) = quantum * t
<1> DEFINE n == Len(Queue)
<1>1. /\ n \in Nat \ {0} /\ Queue[1] = p
      /\ Count \in Nat /\ p \in 1..Count /\ h \in 1..(Count + 1) /\ r \in Nat /\ t \in Nat
  BY RoundRobinAssumption DEF Process, TurnsHad
<1>2. /\ \A q \in Process : q \in Nat /\ 1 <= q /\ q <= Count
      /\ \A q \in Process : remaining[q] \in Nat /\ burst[q] \in Nat /\ remaining[q] <= burst[q]
      /\ \A q \in Process : Ran(q) \in Nat /\ burst[q] = Ran(q) + remaining[q]
  <2>1. \A q \in Process : q \in Nat /\ 1 <= q /\ q <= Count
    BY RoundRobinAssumption DEF Process
  <2>2. \A q \in Process : burst[q] \in Nat /\ remaining[q] \in 0..burst[q]
    BY RoundRobinAssumption DEF ClockInv
  <2> QED BY <2>1, <2>2 DEF Ran
<1>3. remaining[p] > 0 /\ Ran(p) = quantum * t
  BY <1>1 DEF Round
<1>4. ASSUME NEW q \in Process, q # p, remaining[q] > 0
      PROVE  Rank(p, h) < Rank(q, h)
  <2>1. PICK i \in 1..n : Queue[i] = q
    BY <1>4 DEF Round
  <2>2. 1 \in 1..n /\ 1 < i
    BY <1>1, <1>4, <2>1
  <2> QED BY <1>1, <2>1, <2>2 DEF Round
<1>5. \A q \in Process : q # p /\ remaining[q] > 0 =>
        /\ TurnsHad(q, t, p + 1) = TurnsHad(q, r, h)
        /\ Rank(q, p + 1) = Rank(q, h) - (IF p < h THEN Count ELSE 0)
        /\ Rank(q, p + 1) < Rank(p, p + 1)
  BY <1>1, <1>2, <1>4 DEF TurnsHad, Rank
<1>6. \A q \in Process : TurnsHad(q, r, h) <= TurnsHad(q, t, p + 1)
                         /\ TurnsHad(q, r, h) \in Nat /\ TurnsHad(q, t, p + 1) \in Nat
  BY <1>1, <1>2 DEF TurnsHad
<1>7. TurnsHad(p, t, p + 1) = t + 1
  BY <1>1 DEF TurnsHad
<1>8. quantum * (t + 1) = quantum * t + quantum
  BY <1>1, Multiples
<1>9. \A q \in Process : quantum * TurnsHad(q, r, h) <= quantum * TurnsHad(q, t, p + 1)
                         /\ quantum * TurnsHad(q, t, p + 1) \in Nat
  BY <1>6, Multiples
<1>10. /\ \A q \in Process : q # p => remaining'[q] = remaining[q]
       /\ remaining'[p] = IF remaining[p] > quantum THEN remaining[p] - quantum ELSE 0
       /\ quantum' = quantum /\ burst' = burst
  BY DEF Fifo!Run
<1>11. \A q \in Process :
         IF remaining'[q] > 0 THEN burst[q] - remaining'[q] = quantum * TurnsHad(q, t, p + 1)
                              ELSE burst[q] <= quantum * TurnsHad(q, t, p + 1)
  <2>1. ASSUME NEW q \in Process, q # p
        PROVE  IF remaining'[q] > 0 THEN burst[q] - remaining'[q] = quantum * TurnsHad(q, t, p + 1)
                                    ELSE burst[q] <= quantum * TurnsHad(q, t, p + 1)
    <3>1. CASE remaining[q] > 0
      BY <1>5, <1>10, <2>1, <3>1 DEF Round, Ran
    <3>2. CASE ~(remaining[q] > 0)
      <4>1. burst[q] <= quantum * TurnsHad(q, r, h)
        BY <3>2 DEF Round
      <4>2. quantum * TurnsHad(q, r, h) \in Nat
        BY <1>6, Multiples
      <4>3. PICK x, y : /\ x = quantum * TurnsHad(q, r, h) /\ x \in Nat
                        /\ y = quantum * TurnsHad(q, t, p + 1) /\ y \in Nat /\ x <= y
        BY <1>9, <4>2
      <4>4. burst[q] <= y
        <5>1. burst[q] \in Nat /\ burst[q] <= x
          BY <1>2, <4>1, <4>3
        <5> QED BY ONLY <4>3, <5>1
      <4>5. ~(remaining'[q] > 0)
        BY <1>10, <2>1, <3>2
      <4> QED BY <4>3, <4>4, <4>5
    <3> QED BY <3>1, <3>2
  <2>2. IF remaining'[p] > 0 THEN burst[p] - remaining'[p] = quantum * TurnsHad(p, t, p + 1)
                             ELSE burst[p] <= quantum * TurnsHad(p, t, p + 1)
    <3>1. quantum * t \in Nat
      BY <1>1, Multiples
    <3>2. burst[p] = quantum * t + remaining[p] /\ remaining[p] \in Nat
      BY <1>2, <1>3
    <3>3. quantum * TurnsHad(p, t, p + 1) = quantum * t + quantum
      BY <1>7, <1>8
    <3>4. PICK m \in Nat : m = quantum * t
      BY <3>1
    <3>5. IF remaining'[p] > 0 THEN burst[p] - remaining'[p] = m + quantum
                               ELSE burst[p] <= m + quantum
      BY ONLY <1>10, <3>2, <3>4, quantum \in Nat \ {0}
    <3> QED BY <3>3, <3>4, <3>5
  <2> QED BY <2>1, <2>2
<1> DEFINE again == remaining[p] > quantum
<1>12. /\ Queue' \in Seq(Nat) /\ Len(Queue') = IF again THEN n ELSE n - 1
       /\ \A i \in 1..(n - 1) : Queue'[i] = Queue[i + 1]
       /\ again => Queue'[n] = p
  <2>1. /\ Tail(Queue) \in Seq(Nat) /\ Len(Tail(Queue)) = n - 1
        /\ \A i \in 1..(n - 1) : Tail(Queue)[i] = Queue[i + 1]
    BY HeadTailProperties
  <2>2. p \in Nat
    BY <1>2
  <2>3. /\ Append(Tail(Queue), p) \in Seq(Nat) /\ Len(Append(Tail(Queue), p)) = (n - 1) + 1
        /\ \A i \in 1..(n - 1) : Append(Tail(Queue), p)[i] = Tail(Queue)[i]
        /\ Append(Tail(Queue), p)[(n - 1) + 1] = p
    BY <2>1, <2>2, AppendProperties
  <2>4. (n - 1) + 1 = n
    BY <1>1
  <2>5. Queue' = IF again THEN Append(Tail(Queue), p) ELSE Tail(Queue)
    BY DEF Fifo!Run
  <2> QED BY <2>1, <2>3, <2>4, <2>5
<1>13. again <=> remaining'[p] > 0
  BY <1>2, <1>10
<1> HIDE DEF n, again
<1>14. /\ \A i \in 1..(n - 1) : i + 1 \in 1..n /\ 1 < i + 1
       /\ \A i \in 1..n : i = 1 \/ \E j \in 1..(n - 1) : i = j + 1
       /\ 1 \in 1..n /\ n \in 1..n
  <2>1. ASSUME NEW i \in 1..n, i # 1
        PROVE  i - 1 \in 1..(n - 1) /\ i = (i - 1) + 1
    BY <1>1, <2>1
  <2> QED BY <1>1, <2>1
<1>15. \A i \in 1..(n - 1) : /\ Queue[i + 1] \in Process /\ remaining[Queue[i + 1]] > 0
                             /\ Queue[i + 1] # p
  <2>1. ASSUME NEW i \in 1..(n - 1)
        PROVE  Queue[i + 1] # p
    <3>1. Rank(Queue[1], h) < Rank(Queue[i + 1], h)
      BY <1>14 DEF Round, n
    <3>2. Rank(p, h) \in Int
      BY <1>1 DEF Rank
    <3> QED BY <1>1, <3>1, <3>2
  <2> QED BY <1>14, <2>1 DEF Round, n
<1>16. \A q \in Process : remaining'[q] > 0 => \E i \in 1..Len(Queue') : Queue'[i] = q
  <2> SUFFICES ASSUME NEW q \in Process, remaining'[q] > 0
               PROVE  \E i \in 1..Len(Queue') : Queue'[i] = q
    OBVIOUS
  <2>1. CASE q = p
    BY <1>12, <1>13, <1>14, <2>1
  <2>2. CASE q # p
    <3>1. PICK i \in 1..n : Queue[i] = q
      BY <1>10, <2>2 DEF Round, n
    <3>2. PICK j \in 1..(n - 1) : i = j + 1
      BY <1>1, <1>14, <2>2, <3>1
    <3>3. j \in 1..Len(Queue')
      BY <1>1, <1>12
    <3> QED BY <1>12, <3>1, <3>2, <3>3
  <2> QED BY <2>1, <2>2
<1>17. /\ \A i \in 1..Len(Queue') : i \in 1..(n - 1) \/ (again /\ i = n)
       /\ \A i, j \in 1..Len(Queue') : i < j => i \in 1..(n - 1)
  BY <1>1, <1>12
<1>18. \A i \in 1..Len(Queue') : Queue'[i] \in Process /\ remaining'[Queue'[i]] > 0
  BY <1>10, <1>12, <1>13, <1>15, <1>17
<1>19. \A i, j \in 1..Len(Queue') : i < j => Rank(Queue'[i], p + 1) < Rank(Queue'[j], p + 1)
  <2> SUFFICES ASSUME NEW i \in 1..Len(Queue'), NEW j \in 1..Len(Queue'), i < j
               PROVE  Rank(Queue'[i], p + 1) < Rank(Queue'[j], p + 1)
    OBVIOUS
  <2>1. i \in 1..(n - 1) /\ Queue'[i] = Queue[i + 1]
    BY <1>12, <1>17
  <2>2. CASE j \in 1..(n - 1)
    <3>1. Queue'[j] = Queue[j + 1]
      BY <1>12, <2>2
    <3>2. i + 1 \in 1..n /\ j + 1 \in 1..n /\ i + 1 < j + 1
      BY <1>14, <2>1, <2>2
    <3>3. Rank(Queue[i + 1], h) < Rank(Queue[j + 1], h)
      BY <3>2 DEF Round, n
    <3>4. PICK x, y \in Process : /\ x = Queue[i + 1] /\ y = Queue[j + 1]
                                  /\ x # p /\ remaining[x] > 0 /\ y # p /\ remaining[y] > 0
      BY <1>15, <2>1, <2>2
    <3>5. Rank(x, h) \in Int /\ Rank(y, h) \in Int
      BY ONLY <1>1, <1>2, x \in Process, y \in Process DEF Rank
    <3>6. /\ Rank(x, p + 1) = Rank(x, h) - (IF p < h THEN Count ELSE 0)
          /\ Rank(y, p + 1) = Rank(y, h) - (IF p < h THEN Count ELSE 0)
      BY <1>5, <3>4
    <3>7. Rank(x, p + 1) < Rank(y, p + 1)
      <4>1. Rank(x, h) < Rank(y, h)
        BY <3>3, <3>4
      <4> QED BY ONLY <1>1, <3>5, <3>6, <4>1
    <3> QED BY <2>1, <3>1, <3>4, <3>7
  <2>3. CASE again /\ j = n
    BY <1>5, <1>12, <1>15, <2>1, <2>3
  <2> QED BY <1>17, <2>2, <2>3
<1>20. Round(t, p + 1)'
  BY <1>10, <1>11, <1>16, <1>18, <1>19 DEF Round, Ran, TurnsHad, Rank
<1>21. p + 1 \in 1..(Count + 1)
  BY <1>1
<1> QED BY <1>1, <1>3, <1>20, <1>21

\* When p's burst is over after t + 1 turns, what has been run by then is what round robin
\* runs.
LEMMA LastTurn ==
    ASSUME NEW p \in Process, NEW t \in Nat, quantum' \in Nat \ {0}, ClockInv',
           remaining' \in [Process -> Int], Round(t, p + 1)', remaining'[p] = 0,
           burst'[p] > quantum' * t
    PROVE  UnitsRun' = UnitsBefore(p)'
<1>1. \A q \in Process : q \in Nat /\ burst'[q] \in Nat /\ remaining'[q] \in 0..burst'[q]
  <2>1. \A q \in Process : q \in Nat
    BY RoundRobinAssumption DEF Process
  <2> QED BY <2>1, RoundRobinAssumption DEF ClockInv
<1>2. quantum' * t \in Nat /\ quantum' * (t + 1) = quantum' * t + quantum'
  BY Multiples
<1>3. burst'[p] <= quantum' * t + quantum'
  <2>1. burst'[p] <= quantum' * TurnsHad(p, t, p + 1)
    BY DEF Round
  <2>2. TurnsHad(p, t, p + 1) = t + 1
    BY <1>1 DEF TurnsHad
  <2> QED BY <1>2, <2>1, <2>2
<1>4. Turns(p)' = t + 1
  <2>1. /\ burst'[p] + quantum' - 1 \in Nat /\ t + 1 \in Nat
        /\ quantum' * (t + 1) <= burst'[p] + quantum' - 1
        /\ burst'[p] + quantum' - 1 < quantum' * (t + 1) + quantum'
    <3>1. PICK m \in Nat : m = quantum' * t
      BY <1>2
    <3>2. burst'[p] \in Nat /\ burst'[p] > m /\ burst'[p] <= m + quantum'
          /\ quantum' * (t + 1) = m + quantum'
      BY <1>1, <1>2, <1>3, <3>1
    <3> QED BY ONLY <3>2, t \in Nat, quantum' \in Nat \ {0}
  <2> QED BY <2>1, Quotient DEF Turns
<1>5. ASSUME NEW q \in Process
      PROVE  RunsBefore(q, p)' = Ran(q)'
  <2>1. (IF q <= p THEN Turns(p)' ELSE Turns(p)' - 1) = TurnsHad(q, t, p + 1)
    BY <1>1, <1>4 DEF TurnsHad
  <2>2. TurnsHad(q, t, p + 1) \in Nat
    BY DEF TurnsHad
  <2>3. PICK m \in Nat : m = quantum' * TurnsHad(q, t, p + 1)
    BY <2>2, Multiples
  <2>4. RunsBefore(q, p)' = Least(burst'[q], m)
    BY <2>1, <2>3 DEF RunsBefore
  <2>5. IF remaining'[q] > 0 THEN Ran(q)' = m ELSE burst'[q] <= m
    BY <2>3 DEF Round
  <2> QED BY <1>1, <2>4, <2>5 DEF Least, Ran
<1> QED BY <1>5 DEF UnitsRun, UnitsBefore

LEMMA InitTime == Init => TimeInv
<1> SUFFICES ASSUME Init PROVE TimeInv
  OBVIOUS
<1>1. /\ burst \in [Process -> 1..MaxBurst] /\ remaining = burst /\ clock = 0 /\ pc = "start"
      /\ state = [q \in Process |-> "Ready"] /\ turnaround = [q \in Process |-> 0]
      /\ quantum \in Int
  BY RoundRobinAssumption DEF Init
<1>2. /\ \A q \in Process : burst[q] \in 1..MaxBurst /\ q \in Nat /\ q >= 1 /\ q <= Count
      /\ Count \in Nat /\ MaxBurst \in Nat
  <2>1. \A q \in Process : burst[q] \in 1..MaxBurst
    BY <1>1
  <2> QED BY <2>1, RoundRobinAssumption DEF Process
<1>3. \A q \in Process : Ran(q) = 0
  BY <1>1, <1>2 DEF Ran
<1>4. ClockInv
  <2>1. UnitsRun = {}
    BY <1>3 DEF UnitsRun
  <2>2. \A q \in Process : remaining[q] \in 0..burst[q]
    BY <1>1, <1>2
  <2> QED BY <1>1, <2>1, <2>2, FS_EmptySet DEF ClockInv
<1>5. ASSUME quantum > 0
      PROVE  Round(0, 1)
  <2>1. Queue = [q \in Process |-> q] /\ Queue \in Seq(Nat) /\ Len(Queue) = Count
    BY <1>1, <1>2 DEF Queue, Process
  <2>2. \A i \in 1..Len(Queue) : i \in Process /\ Queue[i] = i
    BY <1>2, <2>1 DEF Process
  <2>3. \A q \in Process : q \in 1..Len(Queue)
    BY <1>2, <2>1 DEF Process
  <2>4. \A q \in Process : TurnsHad(q, 0, 1) = 0 /\ Rank(q, 1) = q /\ remaining[q] > 0
    BY <1>1, <1>2 DEF TurnsHad, Rank
  <2>5. quantum * 0 = 0
    BY <1>1
  <2>6. \A q \in Process : IF remaining[q] > 0 THEN Ran(q) = quantum * TurnsHad(q, 0, 1)
                           ELSE burst[q] <= quantum * TurnsHad(q, 0, 1)
    BY <1>3, <2>4, <2>5
  <2> QED BY <2>2, <2>3, <2>4, <2>6 DEF Round
<1>6. RoundInv
  BY <1>2, <1>5 DEF RoundInv
<1>7. TurnaroundIsRoundRobin
  BY <1>1 DEF TurnaroundIsRoundRobin
<1> QED BY <1>4, <1>6, <1>7, InitIInv DEF TimeInv

\* A turn keeps the rounds and the clock, and a last one gives round robin's turnaround time.
LEMMA TurnTime ==
    ASSUME TimeInv, Finish \/ Requeue
    PROVE  TimeInv'
<1>1. IInv' /\ Fifo!RunHead
  BY FinishStep, RequeueStep DEF TimeInv
<1>2. /\ IInv /\ ClockInv /\ remaining \in [Process -> Int] /\ quantum \in Nat \ {0}
      /\ pc = "run" /\ k < visited.len /\ UNCHANGED <<burst, quantum>>
  BY DEF TimeInv, IInv, TypeInv, StartInv, Finish, Requeue
<1>3. PICK p \in Process : p = Visited /\ Queue \in Seq(Nat) /\ Queue # <<>> /\ Head(Queue) = p
  BY <1>2, VisitsHead
<1>4. PICK r \in Nat, h \in 1..(Count + 1) : Round(r, h)
  BY <1>2 DEF TimeInv, RoundInv
<1>5. PICK t : t = TurnsHad(p, r, h)
  OBVIOUS
<1>6. /\ t \in Nat /\ p + 1 \in 1..(Count + 1) /\ Round(t, p + 1)'
      /\ remaining[p] > 0 /\ Ran(p) = quantum * t
  <2>1. Fifo!Run(p)
    BY <1>1, <1>3 DEF Fifo!RunHead
  <2> QED BY <1>2, <1>3, <1>4, <1>5, <2>1, RoundTurn
<1>7. RoundInv'
  BY <1>6 DEF RoundInv
<1>8. PICK s \in 0..remaining[p] :
        /\ remaining' = [remaining EXCEPT ![p] = @ - s] /\ clock' = clock + s
        /\ Finish => s = remaining[p]
  <2>1. /\ remaining[p] \in Nat /\ quantum \in Nat
        /\ clock' = clock + Sleeps(p)
    BY <1>2, <1>3, <1>6 DEF Finish, Requeue
  <2>2. CASE Finish
    <3>1. remaining[p] - quantum <= 0 /\ remaining' = [remaining EXCEPT ![p] = 0]
      BY <1>3, <2>2 DEF Finish
    <3>2. Sleeps(p) = remaining[p] /\ remaining[p] - remaining[p] = 0
          /\ remaining[p] \in 0..remaining[p]
      BY <2>1, <3>1 DEF Sleeps
    <3>3. clock' = clock + remaining[p]
      BY <2>1, <3>2
    <3>4. remaining' = [remaining EXCEPT ![p] = @ - remaining[p]]
      BY ONLY <3>1, <3>2
    <3> QED BY ONLY <3>2, <3>3, <3>4
  <2>3. CASE Requeue /\ ~Finish
    <3>1. remaining[p] - quantum > 0 /\ remaining' = [remaining EXCEPT ![p] = @ - quantum]
      BY <1>3, <2>3 DEF Requeue
    <3>2. Sleeps(p) = quantum /\ quantum \in 0..remaining[p]
      BY <2>1, <3>1 DEF Sleeps
    <3>3. clock' = clock + quantum /\ ~Finish
      BY <2>1, <2>3, <3>2
    <3> QED BY ONLY <3>1, <3>2, <3>3
  <2> QED BY <2>2, <2>3
<1>9. clock' = Cardinality(UnitsRun)' /\ clock' \in Nat
  BY <1>2, <1>8, ClockTurn
<1>10. ClockInv'
  <2>1. \A q \in Process : remaining'[q] \in 0..burst[q]
    <3>1. \A q \in Process : remaining[q] \in 0..burst[q] /\ burst[q] \in Nat
      BY <1>2, RoundRobinAssumption DEF ClockInv
    <3>2. /\ \A q \in Process : q # p => remaining'[q] = remaining[q]
          /\ remaining'[p] = remaining[p] - s
      BY <1>2, <1>8
    <3>3. remaining[p] - s \in 0..burst[p]
      BY <3>1
    <3> QED BY <3>1, <3>2, <3>3
  <2>2. /\ state' \in [Process -> {"Ready", "Finished"}]
        /\ turnaround' \in [Process -> Nat]
    BY <1>2, <1>9 DEF ClockInv, Finish, Requeue
  <2> QED BY <1>2, <1>9, <2>1, <2>2 DEF ClockInv
<1>11. TurnaroundIsRoundRobin'
  <2> SUFFICES ASSUME NEW q \in Process, state'[q] = "Finished"
               PROVE  turnaround'[q] = Cardinality(UnitsBefore(q)')
    BY DEF TurnaroundIsRoundRobin
  <2>1. UnitsBefore(q)' = UnitsBefore(q)
    BY <1>2 DEF UnitsBefore, RunsBefore, Turns, Least
  <2>2. CASE q = p /\ Finish
    <3>1. turnaround'[p] = clock' /\ remaining'[p] = 0
      BY <1>2, <1>3, <2>2 DEF Finish, ClockInv
    <3>2. burst'[p] > quantum' * t
      <4>1. burst[p] \in Nat /\ remaining[p] \in Nat
        BY <1>2, RoundRobinAssumption DEF ClockInv
      <4> QED BY <1>2, <1>6, <4>1 DEF Ran
    <3>3. /\ quantum' \in Nat \ {0} /\ remaining' \in [Process -> Int]
      BY <1>1, <1>2 DEF IInv, TypeInv
    <3>4. UnitsRun' = UnitsBefore(p)'
      BY <1>6, <1>10, <3>1, <3>2, <3>3, LastTurn
    <3> QED BY <1>9, <2>2, <3>1, <3>4
  <2>3. CASE ~(q = p /\ Finish)
    <3>1. state[q] = "Finished" /\ turnaround'[q] = turnaround[q]
      BY <1>2, <1>3, <2>3 DEF Finish, Requeue, ClockInv
    <3> QED BY <2>1, <3>1 DEF TimeInv, TurnaroundIsRoundRobin
  <2> QED BY <2>2, <2>3
<1> QED BY <1>1, <1>7, <1>10, <1>11 DEF TimeInv

\* The turnaround times are round robin's, for any processes, bursts, quanta and capacities.
THEOREM TurnaroundTimes == Spec => []TurnaroundIsRoundRobin
<1>1. TimeInv /\ [Next]_vars => TimeInv'
  <2> SUFFICES ASSUME TimeInv, [Next]_vars PROVE TimeInv'
    OBVIOUS
  <2>1. CASE UNCHANGED vars \/ Start \/ RangeAgain
    <3>1. UNCHANGED <<quantum, burst, remaining, state, turnaround, clock>>
      BY <2>1 DEF vars, Start, RangeAgain
    <3>2. IInv' /\ (quantum > 0 => Queue' = Queue)
      <4>1. CASE UNCHANGED vars
        BY <4>1 DEF TimeInv, vars, IInv, TypeInv, StartInv, SharingInv, QueueInv, IsSlice, Queue, Elements
      <4> QED BY <2>1, <4>1, LoopSteps DEF TimeInv
    <3>3. ClockInv'
      BY <3>1 DEF TimeInv, ClockInv, UnitsRun, Ran
    <3>4. RoundInv'
      <4>1. \A r \in Nat : \A h \in 1..(Count + 1) : quantum > 0 /\ Round(r, h) => Round(r, h)'
        BY <3>1, <3>2 DEF Round, Ran, TurnsHad, Rank
      <4> QED BY <3>1, <4>1 DEF TimeInv, RoundInv
    <3>5. TurnaroundIsRoundRobin'
      BY <3>1 DEF TimeInv, TurnaroundIsRoundRobin, UnitsBefore, RunsBefore, Turns, Least
    <3> QED BY <3>2, <3>3, <3>4, <3>5 DEF TimeInv
  <2> QED BY <2>1, TurnTime DEF Next
<1>2. TimeInv => TurnaroundIsRoundRobin
  BY DEF TimeInv
<1> QED BY <1>1, <1>2, InitTime, PTL DEF Spec
================================================================================
